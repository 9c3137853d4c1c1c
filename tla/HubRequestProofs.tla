-------------------------- MODULE HubRequestProofs --------------------------
(***************************************************************************)
(* Proofs about what the hub does with a request it may see again: the     *)
(* submissions of its commands and their outcomes, and the reference       *)
(* records whose versions are read back. Each holds for every value of     *)
(* the constants.                                                          *)
(***************************************************************************)
EXTENDS Integers, HubSubmission, HubReference, FiniteSetTheorems, TLAPS

(***************************************************************************)
(* The reference records.                                                  *)
(***************************************************************************)
Intents ==
  {CreateOf(id, v, e) : id \in RecordIds, v \in ReferenceValues, e \in Nat}
    \cup {ReviseOf(id, v, e, r) : id \in RecordIds, v \in ReferenceValues, e \in Nat, r \in Nat}

VersionRows == [id : RecordIds, revision : Nat, value : ReferenceValues, request : Nat, intent : Intents]

\* The versions of a record are numbered 1, 2, ... in the order of the table.
VersionsNumbered ==
  /\ versions \in Seq(VersionRows)
  /\ Len(versions) <= HistoryCapacity
  /\ \A i \in Rows : versions[i].revision \in 1 .. i /\ versions[i].request = i
  /\ \A i, j \in Rows : versions[i].id = versions[j].id /\ i < j => versions[i].revision < versions[j].revision
  /\ \A i \in Rows : \A r \in 1 .. versions[i].revision :
       \E j \in 1 .. i : versions[j].id = versions[i].id /\ versions[j].revision = r

\* Row j is the last one of its record before revision k of the catalog.
LastBefore(j, k) ==
  /\ j \in 1 .. (k - 1)
  /\ \A n \in 1 .. (k - 1) : versions[n].id = versions[j].id => n <= j

\* The catalog at a revision holds the last version of every record before it.
PastAt(k, catalog) ==
  /\ catalog = Catalog(k, [id \in DOMAIN catalog.records |-> catalog.records[id]])
  /\ \A j \in 1 .. (k - 1) : versions[j].id \in DOMAIN catalog.records
  /\ \A id \in DOMAIN catalog.records :
       \E j \in 1 .. (k - 1) : versions[j].id = id /\ LastBefore(j, k) /\ catalog.records[id] = Record(j)
  /\ IsFiniteSet(DOMAIN catalog.records) /\ Cardinality(DOMAIN catalog.records) <= ReferenceCapacity
  /\ \A id \in DOMAIN catalog.records : ValueValid(catalog, catalog.records[id].value)

PastKept ==
  /\ past = [k \in 1 .. (Len(versions) + 1) |-> past[k]]
  /\ \A k \in 1 .. (Len(versions) + 1) : PastAt(k, past[k])

\* The receipt of a row names it and the version before it.
ReceiptAt(q, receipt) ==
  /\ receipt = [request |-> q, change |-> [catalog |-> q + 1, previous |-> receipt.change.previous,
                                           current |-> Record(q)]]
  /\ versions[q].revision = 1 => receipt.change.previous = Absent
  /\ \A j \in Rows : versions[j].id = versions[q].id /\ versions[j].revision + 1 = versions[q].revision
                       => receipt.change.previous = Record(j)

ReceiptsKept == DOMAIN receipts = Rows /\ \A q \in Rows : ReceiptAt(q, receipts[q])

\* A reader has the versions of its record up to the one it goes on after.
ReaderKept ==
  reader # Absent =>
    /\ reader = [id |-> reader.id, after |-> reader.after, got |-> reader.got]
    /\ reader.got = [k \in 1 .. reader.after |-> reader.got[k]] /\ reader.after \in Nat
    /\ \A k \in 1 .. reader.after :
         \E i \in Rows : /\ versions[i].id = reader.id /\ versions[i].revision = k
                         /\ reader.got[k] = Found(receipts[i])

ReferenceInv == VersionsNumbered /\ PastKept /\ ReceiptsKept /\ ReaderKept

LEMMA RowsAre ==
  ASSUME VersionsNumbered
  PROVE  /\ Len(versions) \in Nat /\ Rows = 1 .. Len(versions)
         /\ \A i \in Rows : versions[i].revision \in Nat /\ versions[i].revision >= 1 /\ versions[i].revision <= i
BY DEF VersionsNumbered, Rows, VersionRows

\* Within a record a revision says which row it is.
LEMMA RevisionsTellApart ==
  ASSUME VersionsNumbered, NEW i \in Rows, NEW j \in Rows, versions[i].id = versions[j].id,
         versions[i].revision = versions[j].revision
  PROVE  i = j
<1>1. i \in Nat /\ j \in Nat /\ versions[i].revision \in Nat
  BY RowsAre
<1>2. ~ (i < j) /\ ~ (j < i)
  BY <1>1 DEF VersionsNumbered
<1> QED
  BY <1>1, <1>2

LEMMA RevisionsAscend ==
  ASSUME VersionsNumbered, NEW i \in Rows, NEW j \in Rows, versions[i].id = versions[j].id, i <= j
  PROVE  versions[i].revision <= versions[j].revision
<1>1. i \in Nat /\ j \in Nat /\ versions[i].revision \in Nat /\ versions[j].revision \in Nat
  BY RowsAre
<1> QED
  BY <1>1 DEF VersionsNumbered

\* The rows of a record between two revisions.
Spans(S, id, a, b) ==
  /\ S \subseteq Rows
  /\ \A i \in S : versions[i].id = id /\ versions[i].revision \in (a + 1) .. b
  /\ \A r \in (a + 1) .. b : \E i \in S : versions[i].revision = r

\* They are as many as the revisions.
LEMMA RowsBetween ==
  ASSUME VersionsNumbered, NEW id, NEW a \in Nat, NEW b \in Nat, a <= b, NEW S, Spans(S, id, a, b)
  PROVE  IsFiniteSet(S) /\ Cardinality(S) = b - a
<1> DEFINE B == (a + 1) .. b
           f == [i \in S |-> versions[i].revision]
<1>1. f \in Bijection(S, B)
  <2>1. f \in [S -> B]
    BY Zenon DEF Spans
  <2>2. \A i, j \in S : f[i] = f[j] => i = j
    BY Zenon, RevisionsTellApart DEF Spans
  <2>3. \A r \in B : \E i \in S : f[i] = r
    BY Zenon DEF Spans
  <2> HIDE DEF f, B
  <2> QED
    BY Zenon, <2>1, <2>2, <2>3 DEF Bijection, Injection, Surjection, IsInjective
<1>2. IsFiniteSet(B) /\ Cardinality(B) = b - a
  <2>1. a + 1 \in Int /\ b \in Int /\ (a + 1 > b => b - a = 0) /\ b - (a + 1) + 1 = b - a
    OBVIOUS
  <2>2. IsFiniteSet(B) /\ Cardinality(B) = IF a + 1 > b THEN 0 ELSE b - (a + 1) + 1
    BY Zenon, <2>1, FS_Interval
  <2> QED
    BY Zenon, <2>1, <2>2
<1>3. S \subseteq 1 .. Len(versions) /\ Len(versions) \in Nat
  BY Zenon, RowsAre DEF Spans
<1>4. IsFiniteSet(S)
  <2>1. IsFiniteSet(1 .. Len(versions))
    BY <1>3, FS_Interval
  <2> QED
    BY Zenon, <1>3, <2>1, FS_Subset
<1>5. Cardinality(B) = Cardinality(S)
  <2>1. ExistsBijection(S, B)
    BY Zenon, <1>1 DEF ExistsBijection
  <2> QED
    BY Zenon, <2>1, <1>4, FS_Bijection
<1> QED
  BY Zenon, <1>2, <1>4, <1>5

LEMMA MaxIs ==
  ASSUME NEW S, S \subseteq Nat, NEW m \in S, \A x \in S : x <= m
  PROVE  Max(S) = m
<1>1. Max(S) \in S /\ \A y \in S : Max(S) >= y
  <2>1. \A y \in S : m >= y
    BY Zenon
  <2> QED
    BY Zenon, <2>1 DEF Max
<1>2. ASSUME NEW M \in S, \A y \in S : M >= y PROVE M = m
  BY <1>2
<1> QED
  BY Zenon, <1>1, <1>2

\* The rows of a record before a catalog revision, and the newest of them.
LEMMA OwnRows ==
  ASSUME VersionsNumbered, NEW k \in 1 .. (Len(versions) + 1), NEW j, LastBefore(j, k),
         NEW own, own = {n \in 1 .. (k - 1) : versions[n].id = versions[j].id}
  PROVE  /\ Cardinality(own) = versions[j].revision
         /\ Max({versions[n].revision : n \in own}) = versions[j].revision
<1>1. /\ Len(versions) \in Nat /\ 1 .. (k - 1) \subseteq Rows /\ j \in Rows /\ j \in own
      /\ versions[j].revision \in Nat
  BY RowsAre DEF LastBefore
<1>2. \A n \in own : versions[n].revision \in (0 + 1) .. versions[j].revision
  <2> TAKE n \in own
  <2>1. n \in Rows /\ n <= j /\ versions[n].id = versions[j].id
    BY Zenon, <1>1 DEF LastBefore
  <2>2. versions[n].revision <= versions[j].revision
    BY Zenon, <1>1, <2>1, RevisionsAscend
  <2>3. versions[n].revision \in Nat /\ versions[n].revision >= 1
    BY Zenon, <2>1, RowsAre
  <2> QED
    BY <1>1, <2>2, <2>3
<1>3. \A r \in (0 + 1) .. versions[j].revision : \E i \in own : versions[i].revision = r
  <2> TAKE r \in (0 + 1) .. versions[j].revision
  <2>0. j \in Rows /\ r \in 1 .. versions[j].revision
    BY <1>1
  <2>1. PICK i \in 1 .. j : versions[i].id = versions[j].id /\ versions[i].revision = r
    BY Zenon, <2>0 DEF VersionsNumbered
  <2>2. i \in own
    BY <1>1, <2>1 DEF LastBefore
  <2> QED
    BY Zenon, <2>1, <2>2
<1>4. Cardinality(own) = versions[j].revision - 0
  <2>1. /\ own \subseteq Rows
        /\ \A n \in own : versions[n].id = versions[j].id /\ versions[n].revision \in (0 + 1) .. versions[j].revision
    BY Zenon, <1>1, <1>2
  <2> DEFINE a == 0
             b == versions[j].revision
  <2>2. a \in Nat /\ b \in Nat /\ a <= b /\ a = 0 /\ b = versions[j].revision
    BY <1>1
  <2> HIDE DEF a, b
  <2>3. \A n \in own : versions[n].id = versions[j].id /\ versions[n].revision \in (a + 1) .. b
    BY Zenon, <2>1, <2>2
  <2>4. \A r \in (a + 1) .. b : \E i \in own : versions[i].revision = r
    BY Zenon, <1>3, <2>2
  <2>5. Cardinality(own) = b - a
    <3>1. Spans(own, versions[j].id, a, b)
      BY Zenon, <2>1, <2>3, <2>4 DEF Spans
    <3> QED
      BY ONLY VersionsNumbered, <2>2, <3>1, RowsBetween, Zenon
  <2> QED
    BY Zenon, <2>2, <2>5
<1>5. Max({versions[n].revision : n \in own}) = versions[j].revision
  <2> DEFINE T == {versions[n].revision : n \in own}
  <2>1. T \subseteq Nat /\ versions[j].revision \in T /\ \A x \in T : x <= versions[j].revision
    BY <1>1, <1>2
  <2> HIDE DEF T
  <2>2. Max(T) = versions[j].revision
    BY Zenon, <2>1, MaxIs
  <2> QED
    BY Zenon, <2>2 DEF T
<1> QED
  BY <1>1, <1>4, <1>5

LEMMA GaplessThrough ==
  ASSUME VersionsNumbered, NEW k \in 1 .. (Len(versions) + 1), PastAt(k, past[k])
  PROVE  Gapless(1 .. (k - 1))
<1> SUFFICES ASSUME NEW i \in 1 .. (k - 1),
                    NEW own, own = {j \in 1 .. (k - 1) : versions[j].id = versions[i].id}
             PROVE  Cardinality(own) = Max({versions[j].revision : j \in own})
  BY Zenon DEF Gapless
<1>1. PICK j \in 1 .. (k - 1) : versions[j].id = versions[i].id /\ LastBefore(j, k)
  BY Zenon DEF PastAt
<1>2. own = {n \in 1 .. (k - 1) : versions[n].id = versions[j].id}
  BY Zenon, <1>1
<1>3. /\ Cardinality(own) = versions[j].revision
      /\ Max({versions[n].revision : n \in own}) = versions[j].revision
  BY Zenon, <1>1, <1>2, OwnRows
<1> QED
  BY Zenon, <1>3

\* The newest version of every record before a catalog revision is what the catalog then held.
LEMMA NewestThrough ==
  ASSUME VersionsNumbered, NEW k \in 1 .. (Len(versions) + 1), PastAt(k, past[k])
  PROVE  Newest(1 .. (k - 1)) = {past[k].records[id] : id \in DOMAIN past[k].records}
<1>1. Len(versions) \in Nat /\ 1 .. (k - 1) \subseteq Rows
  BY RowsAre
<1>2. ASSUME NEW j \in 1 .. (k - 1),
             ~\E n \in 1 .. (k - 1) : /\ versions[n].id = versions[j].id
                                      /\ versions[n].revision > versions[j].revision
      PROVE  Record(j) = past[k].records[versions[j].id]
  <2>1. PICK m \in 1 .. (k - 1) : /\ versions[m].id = versions[j].id /\ LastBefore(m, k)
                                  /\ past[k].records[versions[j].id] = Record(m)
    BY Zenon DEF PastAt
  <2>2. j <= m /\ j \in Rows /\ m \in Rows
    BY Zenon, <1>1, <2>1 DEF LastBefore
  <2>3. versions[j].revision = versions[m].revision
    BY <1>2, <2>1, <2>2, RevisionsAscend, RowsAre
  <2>4. j = m
    BY Zenon, <2>1, <2>2, <2>3, RevisionsTellApart
  <2> QED
    BY Zenon, <2>1, <2>4
<1>3. ASSUME NEW id \in DOMAIN past[k].records
      PROVE  \E j \in 1 .. (k - 1) :
               /\ ~\E n \in 1 .. (k - 1) : /\ versions[n].id = versions[j].id
                                           /\ versions[n].revision > versions[j].revision
               /\ past[k].records[id] = Record(j)
  <2>1. PICK m \in 1 .. (k - 1) : /\ versions[m].id = id /\ LastBefore(m, k)
                                  /\ past[k].records[id] = Record(m)
    BY Zenon DEF PastAt
  <2>2. ASSUME NEW n \in 1 .. (k - 1), versions[n].id = versions[m].id
        PROVE  ~ versions[n].revision > versions[m].revision
    <3>1. n <= m /\ n \in Rows /\ m \in Rows
      BY Zenon, <1>1, <2>1, <2>2 DEF LastBefore
    <3> QED
      BY <2>2, <3>1, RevisionsAscend, RowsAre
  <2> QED
    BY Zenon, <2>1, <2>2
<1>4. \A j \in 1 .. (k - 1) : versions[j].id \in DOMAIN past[k].records
  BY Zenon DEF PastAt
<1>5. ASSUME NEW r \in Newest(1 .. (k - 1))
      PROVE  \E id \in DOMAIN past[k].records : r = past[k].records[id]
  BY Zenon, <1>2, <1>4, <1>5 DEF Newest
<1>6. ASSUME NEW id \in DOMAIN past[k].records
      PROVE  past[k].records[id] \in Newest(1 .. (k - 1))
  BY Zenon, <1>3 DEF Newest
<1> HIDE DEF Newest
<1> QED
  BY Zenon, <1>5, <1>6

\* Restoring the newest versions gives the catalog back.
LEMMA RestoreGives ==
  ASSUME VersionsNumbered, NEW k \in 1 .. (Len(versions) + 1), PastAt(k, past[k])
  PROVE  Restore(k, Newest(1 .. (k - 1))) = Found(past[k])
<1> DEFINE P == past[k].records
           D == DOMAIN P
           R == {P[id] : id \in D}
           byId == [id \in {r.id : r \in R} |-> CHOOSE r \in R : r.id = id]
<1>1. Newest(1 .. (k - 1)) = R
  BY Zenon, NewestThrough
<1>2. \A id \in D : P[id].id = id /\ P[id].revision <= k
  <2> TAKE id \in D
  <2>1. PICK j \in 1 .. (k - 1) : versions[j].id = id /\ P[id] = Record(j)
    BY Zenon DEF PastAt
  <2>2. j \in Rows /\ j < k /\ Len(versions) \in Nat
    BY RowsAre
  <2>3. versions[j].revision <= j /\ versions[j].revision \in Nat
    BY Zenon, <2>2, RowsAre
  <2>4. P[id].id = id /\ P[id].revision = versions[j].revision
    BY <2>1 DEF Record
  <2>5. k \in Nat /\ j \in Nat
    BY <2>2
  <2> HIDE DEF P, D
  <2> QED
    BY <2>2, <2>3, <2>4, <2>5
<1>3. P = [id \in D |-> P[id]] /\ past[k] = Catalog(k, P)
  <2>1. past[k] = Catalog(k, [id \in D |-> P[id]])
    BY Zenon DEF PastAt
  <2>2. past[k].records = [id \in D |-> P[id]]
    BY ONLY <2>1 DEF Catalog
  <2> QED
    BY Zenon, <2>1, <2>2
<1>4. IsFiniteSet(D) /\ Cardinality(D) <= ReferenceCapacity
  BY Zenon DEF PastAt
<1>5. \A id \in D : ValueValid(past[k], P[id].value)
  BY Zenon DEF PastAt
<1> HIDE DEF P, D
<1>6. byId = P
  <2>1. {r.id : r \in R} = D
    BY Zenon, <1>2
  <2>2. \A id \in D : (CHOOSE r \in R : r.id = id) = P[id]
    <3> TAKE id \in D
    <3>1. P[id] \in R /\ P[id].id = id
      BY Zenon, <1>2
    <3>2. ASSUME NEW r \in R, r.id = id PROVE r = P[id]
      BY Zenon, <1>2, <3>2
    <3> QED
      BY Zenon, <3>1, <3>2
  <2> QED
    BY Zenon, <1>3, <2>1, <2>2
<1>7. Cardinality(R) = Cardinality(D)
  <2>1. [id \in D |-> P[id]] \in Bijection(D, R)
    BY Zenon, <1>2 DEF Bijection, Injection, Surjection, IsInjective
  <2> HIDE DEF R
  <2>2. ExistsBijection(D, R)
    BY Zenon, <2>1 DEF ExistsBijection
  <2> QED
    BY Zenon, <1>4, <2>2, FS_Bijection
<1>8. \A r \in R : r.revision <= k /\ ValueValid(past[k], r.value)
  BY Zenon, <1>2, <1>5
<1> HIDE DEF R, byId
<1>9. /\ Cardinality(R) <= ReferenceCapacity
      /\ \A r \in R : r.revision <= k
      /\ Cardinality(DOMAIN byId) = Cardinality(R)
      /\ \A r \in R : ValueValid(Catalog(k, byId), r.value)
  BY Zenon, <1>3, <1>4, <1>6, <1>7, <1>8 DEF D
<1>10. Restore(k, R) = Found(Catalog(k, byId))
  BY Zenon, <1>9 DEF Restore, byId
<1> QED
  BY Zenon, <1>1, <1>3, <1>6, <1>10

LEMMA ThroughAre ==
  ASSUME VersionsNumbered, NEW k \in 1 .. (Len(versions) + 1)
  PROVE  RowsThrough(k) = 1 .. (k - 1) /\ Cardinality(1 .. (k - 1)) = k - 1 /\ k - 1 <= HistoryCapacity
<1>1. /\ Len(versions) \in Nat /\ Rows = 1 .. Len(versions) /\ HistoryCapacity \in Nat
      /\ Len(versions) <= HistoryCapacity
  BY Zenon, RowsAre, ReferenceAssumption DEF VersionsNumbered
<1>2. k \in Nat /\ k - 1 \in Nat /\ 1 \in Int /\ k - 1 \in Int /\ (1 > k - 1 => k - 1 = 0)
      /\ k - 1 - 1 + 1 = k - 1 /\ k - 1 <= HistoryCapacity
  BY <1>1
<1>3. Cardinality(1 .. (k - 1)) = IF 1 > k - 1 THEN 0 ELSE k - 1 - 1 + 1
  BY Zenon, <1>2, FS_Interval
<1>4. RowsThrough(k) = 1 .. (k - 1)
  BY <1>1, <1>2 DEF RowsThrough
<1> QED
  BY Zenon, <1>2, <1>3, <1>4

LEMMA CatalogRead ==
  ASSUME VersionsNumbered, PastKept, NEW k \in 1 .. (Len(versions) + 1)
  PROVE  LoadCatalogThrough(k) = Found(past[k])
<1>1. PastAt(k, past[k])
  BY Zenon DEF PastKept
<1>2. Gapless(1 .. (k - 1)) /\ Restore(k, Newest(1 .. (k - 1))) = Found(past[k])
  BY Zenon, <1>1, GaplessThrough, RestoreGives
<1>3. RowsThrough(k) = 1 .. (k - 1) /\ Cardinality(1 .. (k - 1)) = k - 1 /\ k - 1 <= HistoryCapacity
  BY Zenon, ThroughAre
<1>4. k - 1 + 1 = k
  BY RowsAre
<1>5. /\ Cardinality(RowsThrough(k)) <= HistoryCapacity /\ Cardinality(RowsThrough(k)) + 1 = k
      /\ Gapless(RowsThrough(k)) /\ Restore(k, Newest(RowsThrough(k))) = Found(past[k])
  BY Zenon, <1>2, <1>3, <1>4
<1> QED
  BY Zenon, <1>5 DEF LoadCatalogThrough

LEMMA CurrentRead ==
  ASSUME VersionsNumbered, PastKept
  PROVE  LoadCatalog = Found(past[Len(versions) + 1]) /\ LoadCatalog = Found(past[Len(past)])
<1> DEFINE k == Len(versions) + 1
<1>1. /\ k \in 1 .. (Len(versions) + 1) /\ Rows = 1 .. (k - 1) /\ Len(versions) \in Nat
      /\ Len(versions) <= HistoryCapacity
  BY RowsAre DEF VersionsNumbered
<1>2. PastAt(k, past[k])
  BY Zenon, <1>1 DEF PastKept
<1>3. Gapless(Rows) /\ Restore(k, Newest(Rows)) = Found(past[k])
  BY Zenon, <1>1, <1>2, GaplessThrough, RestoreGives
<1>4. LoadCatalog = Found(past[k])
  BY Zenon, <1>1, <1>3 DEF LoadCatalog
<1>5. past[Len(past)] = past[k]
  <2>1. past = [n \in 1 .. k |-> past[n]] /\ k \in Nat
    BY <1>1 DEF PastKept
  <2>2. Len(past) = k
    BY ONLY <2>1
  <2> QED
    BY Zenon, <2>2
<1> QED
  BY Zenon, <1>4, <1>5

LEMMA RecordRead ==
  ASSUME VersionsNumbered, NEW i \in Rows
  PROVE  RecordAt(versions[i].id, versions[i].revision) = Found(Record(i))
<1> DEFINE S == {j \in Rows : versions[j].id = versions[i].id /\ versions[j].revision = versions[i].revision}
<1>1. S = {i}
  BY Zenon, RevisionsTellApart
<1>2. S # {} /\ (CHOOSE j \in S : TRUE) = i
  BY Zenon, <1>1
<1> QED
  BY Zenon, <1>2 DEF RecordAt

LEMMA RecordCatalogRead ==
  ASSUME VersionsNumbered, PastKept, NEW k \in 1 .. (Len(versions) + 1), NEW id \in DOMAIN past[k].records
  PROVE  RecordAtCatalog(id, k) = Found(past[k].records[id])
<1>1. PICK j \in 1 .. (k - 1) : versions[j].id = id /\ LastBefore(j, k) /\ past[k].records[id] = Record(j)
  BY Zenon DEF PastKept, PastAt
<1> DEFINE own == {n \in 1 .. (k - 1) : versions[n].id = versions[j].id}
           S == {versions[n].revision : n \in {m \in RowsThrough(k) : versions[m].id = id}}
<1>2. RowsThrough(k) = 1 .. (k - 1)
  BY Zenon, ThroughAre
<1>3. S = {versions[n].revision : n \in own} /\ versions[j].revision \in S
  BY Zenon, <1>1, <1>2
<1>4. Max({versions[n].revision : n \in own}) = versions[j].revision
  BY Zenon, <1>1, OwnRows
<1>5. j \in Rows
  BY RowsAre
<1>6. RecordAt(versions[j].id, versions[j].revision) = Found(Record(j))
  BY Zenon, <1>5, RecordRead
<1>7. S # {} /\ Max(S) = versions[j].revision
  BY Zenon, <1>3, <1>4
<1>8. RecordAtCatalog(id, k) = RecordAt(id, Max(S))
  BY Zenon, <1>7 DEF RecordAtCatalog
<1> QED
  BY Zenon, <1>1, <1>6, <1>7, <1>8

LEMMA ReceiptRead ==
  ASSUME VersionsNumbered, ReceiptsKept, NEW q \in Rows
  PROVE  ReceiptOf(q) = Found(receipts[q])
<1> DEFINE r == receipts[q].change.previous
<1>1. /\ versions[q].request = q /\ versions[q].revision \in Nat /\ versions[q].revision < q + 1
      /\ versions[q].revision >= 1 /\ q \in Nat
  BY RowsAre DEF VersionsNumbered
<1>2. ReceiptAt(q, receipts[q])
  BY Zenon DEF ReceiptsKept
<1>3. PreviousOf(q) = Found(r)
  <2>1. CASE versions[q].revision = 1
    BY Zenon, <1>2, <2>1 DEF PreviousOf, ReceiptAt
  <2>2. CASE versions[q].revision # 1
    <3>1. versions[q].revision - 1 \in 1 .. versions[q].revision
      BY <1>1, <2>2
    <3>2. PICK j \in 1 .. q : versions[j].id = versions[q].id /\ versions[j].revision = versions[q].revision - 1
      BY Zenon, <3>1 DEF VersionsNumbered
    <3>3. j \in Rows /\ versions[j].revision + 1 = versions[q].revision
      BY <1>1, <3>2, RowsAre
    <3>4. r = Record(j)
      BY Zenon, <1>2, <3>2, <3>3 DEF ReceiptAt
    <3>5. RecordAt(versions[q].id, versions[q].revision - 1) = Found(Record(j))
      BY Zenon, <3>2, <3>3, RecordRead
    <3> QED
      BY Zenon, <2>2, <3>4, <3>5 DEF PreviousOf
  <2> QED
    BY Zenon, <2>1, <2>2
<1>4. PreviousOf(q).ok /\ PreviousOf(q).value = r
  BY <1>3 DEF Found
<1>5. receipts[q] = [request |-> q, change |-> [catalog |-> q + 1, previous |-> r, current |-> Record(q)]]
  BY Zenon, <1>2 DEF ReceiptAt
<1> QED
  BY Zenon, <1>1, <1>4, <1>5 DEF ReceiptOf

LEMMA ReceiptsRead ==
  ASSUME VersionsNumbered, ReceiptsKept
  PROVE  ReceiptsStand
<1> SUFFICES ASSUME NEW q \in DOMAIN receipts
             PROVE  Applied(q) /\ ReceiptOf(RowOf(q)) = Found(receipts[q])
  BY Zenon DEF ReceiptsStand
<1>1. q \in Rows /\ \A i \in Rows : versions[i].request = i
  BY Zenon DEF ReceiptsKept, VersionsNumbered
<1>2. Applied(q) /\ RowOf(q) = q
  BY Zenon, <1>1 DEF Applied, RowOf
<1> QED
  BY Zenon, <1>1, <1>2, ReceiptRead

LEMMA HistoryRead ==
  ASSUME VersionsNumbered, ReceiptsKept, ReaderKept
  PROVE  HistoryIsWhole
<1> SUFFICES ASSUME reader # Absent
             PROVE  /\ Len(reader.got) = reader.after
                    /\ \A k \in DOMAIN reader.got :
                         /\ reader.got[k].ok
                         /\ reader.got[k].value.change.current.id = reader.id
                         /\ reader.got[k].value.change.current.revision = k
                         /\ reader.got[k].value = receipts[reader.got[k].value.request]
  BY Zenon DEF HistoryIsWhole
<1>1. reader.got = [k \in 1 .. reader.after |-> reader.got[k]] /\ reader.after \in Nat
  BY Zenon DEF ReaderKept
<1>2. Len(reader.got) = reader.after /\ DOMAIN reader.got = 1 .. reader.after
  BY ONLY <1>1
<1>3. ASSUME NEW k \in 1 .. reader.after
      PROVE  /\ reader.got[k].ok
             /\ reader.got[k].value.change.current.id = reader.id
             /\ reader.got[k].value.change.current.revision = k
             /\ reader.got[k].value = receipts[reader.got[k].value.request]
  <2>1. PICK i \in Rows : /\ versions[i].id = reader.id /\ versions[i].revision = k
                          /\ reader.got[k] = Found(receipts[i])
    BY Zenon DEF ReaderKept
  <2>2. reader.got[k].ok /\ reader.got[k].value = receipts[i]
    BY <2>1 DEF Found
  <2>3. receipts[i].request = i /\ receipts[i].change.current = Record(i)
    <3>1. ReceiptAt(i, receipts[i])
      BY Zenon DEF ReceiptsKept
    <3> QED
      BY <3>1 DEF ReceiptAt
  <2>4. Record(i).id = reader.id /\ Record(i).revision = k
    BY Zenon, <2>1 DEF Record
  <2> QED
    BY Zenon, <2>2, <2>3, <2>4
<1> QED
  BY Zenon, <1>2, <1>3

LEMMA ReferenceRead ==
  ASSUME ReferenceInv
  PROVE  ReferenceStands
<1>1. VersionsNumbered /\ PastKept /\ ReceiptsKept /\ ReaderKept
  BY Zenon DEF ReferenceInv
<1>2. CatalogReads
  BY Zenon, <1>1, CurrentRead DEF CatalogReads
<1>3. CatalogsStand
  <2>1. DOMAIN past = 1 .. (Len(versions) + 1)
    BY Zenon, <1>1 DEF PastKept
  <2> QED
    BY Zenon, <1>1, <2>1, CatalogRead, RecordCatalogRead DEF CatalogsStand
<1> QED
  BY Zenon, <1>1, <1>2, <1>3, ReceiptsRead, HistoryRead DEF ReferenceStands

\* The row an applied command appends is the first of its record or follows the last one.
Succeeds(c, rv) ==
  \/ rv = 1 /\ c.kind = "create" /\ \A i \in Rows : versions[i].id # c.id
  \/ /\ c.kind # "create"
     /\ \E j \in Rows : /\ versions[j].id = c.id /\ LastBefore(j, Len(versions) + 1)
                        /\ rv = versions[j].revision + 1
                        /\ past[Len(versions) + 1].records[c.id] = Record(j)

LEMMA CommandFields ==
  ASSUME VersionsNumbered, NEW c \in Commands
  PROVE  /\ c.id \in RecordIds /\ c.value \in ReferenceValues /\ c \in Intents
         /\ c.kind \in {"create", "revise"} /\ (c.kind = "revise" => c.record \in Nat)
<1>1. Len(versions) + 1 \in Nat /\ HistoryCapacity \in Nat
  BY RowsAre, ReferenceAssumption
<1>2. CASE c \in {CreateOf(id, v, Len(versions) + 1) : id \in RecordIds, v \in ReferenceValues}
  <2>1. PICK id \in RecordIds, v \in ReferenceValues : c = CreateOf(id, v, Len(versions) + 1)
    BY <1>2
  <2> QED
    BY <1>1, <2>1 DEF CreateOf, Intents
<1>3. CASE c \in {ReviseOf(id, v, Len(versions) + 1, r) : id \in RecordIds, v \in ReferenceValues,
                                                          r \in 1 .. HistoryCapacity}
  <2>1. PICK id \in RecordIds, v \in ReferenceValues, r \in 1 .. HistoryCapacity :
               c = ReviseOf(id, v, Len(versions) + 1, r)
    BY <1>3
  <2>2. r \in Nat
    BY <1>1
  <2> QED
    BY <1>1, <2>1, <2>2 DEF ReviseOf, Intents
<1> QED
  BY <1>2, <1>3 DEF Commands

LEMMA ApplyFollows ==
  ASSUME VersionsNumbered, PastKept, NEW q, NEW c \in Commands, ApplyReference(q, c), q = Len(versions) + 1,
         NEW C, C = past[Len(versions) + 1], NEW rv, rv = Change(C, c).current.revision
  PROVE  /\ Allowed(C, c) /\ C.revision = Len(versions) + 1 /\ Len(versions) + 1 <= HistoryCapacity
         /\ versions' = Append(versions, [id |-> c.id, revision |-> rv, value |-> c.value,
                                          request |-> q, intent |-> c])
         /\ receipts' = Put(receipts, q, [request |-> q, change |-> Change(C, c)])
         /\ past' = Append(past, After(C, Change(C, c))) /\ reader' = reader
         /\ Succeeds(c, rv)
<1>1. LoadCatalog = Found(C)
  BY Zenon, CurrentRead
<1>2. LoadCatalog.value = C
  BY Zenon, <1>1 DEF Found
<1>3. /\ Allowed(C, c) /\ HistoryHasRoom(C)
      /\ versions' = Append(versions, [id |-> c.id, revision |-> rv, value |-> c.value,
                                       request |-> q, intent |-> c])
      /\ receipts' = Put(receipts, q, [request |-> q, change |-> Change(C, c)])
      /\ past' = Append(past, After(C, Change(C, c))) /\ reader' = reader
  BY Zenon, <1>2 DEF ApplyReference
<1>4. Len(versions) \in Nat /\ Rows = 1 .. Len(versions)
  BY Zenon, RowsAre
<1>5. PastAt(Len(versions) + 1, C)
  BY <1>4 DEF PastKept
<1>6. C.revision = Len(versions) + 1
  <2>1. C = Catalog(Len(versions) + 1, [id \in DOMAIN C.records |-> C.records[id]])
    BY Zenon, <1>5 DEF PastAt
  <2> QED
    BY ONLY <2>1 DEF Catalog
<1>7. Succeeds(c, rv)
  <2>1. rv = IF c.kind = "create" THEN 1 ELSE c.record + 1
    BY Zenon DEF Change
  <2>2. CASE c.kind = "create"
    <3>1. c.id \notin DOMAIN C.records
      BY Zenon, <1>3, <2>2 DEF Allowed, CreateAllowed
    <3>2. \A i \in 1 .. ((Len(versions) + 1) - 1) : versions[i].id \in DOMAIN C.records
      BY Zenon, <1>5 DEF PastAt
    <3>3. (Len(versions) + 1) - 1 = Len(versions)
      BY <1>4
    <3> QED
      BY Zenon, <1>4, <2>1, <2>2, <3>1, <3>2, <3>3 DEF Succeeds
  <2>3. CASE c.kind # "create"
    <3>1. c.id \in DOMAIN C.records /\ C.records[c.id].revision = c.record
      BY Zenon, <1>3, <2>3 DEF Allowed, ReviseAllowed
    <3>2. PICK j \in 1 .. ((Len(versions) + 1) - 1) :
                 versions[j].id = c.id /\ LastBefore(j, Len(versions) + 1) /\ C.records[c.id] = Record(j)
      BY Zenon, <1>5, <3>1 DEF PastAt
    <3>3. j \in Rows
      BY <1>4
    <3>4. Record(j).revision = versions[j].revision
      BY Zenon DEF Record
    <3>5. rv = versions[j].revision + 1
      BY Zenon, <2>1, <2>3, <3>1, <3>2, <3>4
    <3> QED
      BY Zenon, <2>3, <3>2, <3>3, <3>5 DEF Succeeds
  <2> QED
    BY Zenon, <2>2, <2>3
<1> QED
  BY Zenon, <1>3, <1>6, <1>7 DEF HistoryHasRoom

\* What an applied command leaves as it was, and what it adds.
Appended(c, rv) ==
  /\ Len(versions') = Len(versions) + 1 /\ Rows' = 1 .. (Len(versions) + 1)
  /\ \A i \in Rows : versions'[i] = versions[i]
  /\ versions'[Len(versions) + 1] = [id |-> c.id, revision |-> rv, value |-> c.value,
                                     request |-> Len(versions) + 1, intent |-> c]

LEMMA NumberedAppend ==
  ASSUME VersionsNumbered, NEW c \in Commands, NEW rv, Succeeds(c, rv), Len(versions) + 1 <= HistoryCapacity,
         versions' = Append(versions, [id |-> c.id, revision |-> rv, value |-> c.value,
                                       request |-> Len(versions) + 1, intent |-> c])
  PROVE  VersionsNumbered' /\ Appended(c, rv) /\ rv \in Nat
<1> DEFINE N == Len(versions)
           row == [id |-> c.id, revision |-> rv, value |-> c.value, request |-> N + 1, intent |-> c]
<1>1. N \in Nat /\ Rows = 1 .. N /\ versions \in Seq(VersionRows) /\ HistoryCapacity \in Nat
  BY Zenon, RowsAre, ReferenceAssumption DEF VersionsNumbered
<1>2. rv \in 1 .. (N + 1) /\ rv \in Nat
  <2>1. CASE rv = 1
    BY <1>1, <2>1
  <2>2. CASE \E j \in Rows : rv = versions[j].revision + 1
    BY <1>1, <2>2, RowsAre
  <2> QED
    BY Zenon, <2>1, <2>2 DEF Succeeds
<1>3. row \in VersionRows
  BY <1>1, <1>2, CommandFields DEF VersionRows
<1>4. Appended(c, rv) /\ versions' \in Seq(VersionRows)
  <2> HIDE DEF row
  <2>1. /\ versions' \in Seq(VersionRows) /\ Len(versions') = N + 1
        /\ \A i \in Rows : versions'[i] = versions[i]
        /\ versions'[N + 1] = row /\ DOMAIN versions' = 1 .. (N + 1)
    BY <1>1, <1>3 DEF row
  <2> QED
    BY Zenon, <2>1 DEF Appended, row, Rows
<1> HIDE DEF row, N
<1>5. /\ Len(versions') = N + 1 /\ Rows' = 1 .. (N + 1)
      /\ \A i \in Rows : versions'[i] = versions[i]
      /\ versions'[N + 1].id = c.id /\ versions'[N + 1].revision = rv /\ versions'[N + 1].request = N + 1
  <2>1. /\ Len(versions') = N + 1 /\ Rows' = 1 .. (N + 1)
        /\ \A i \in Rows : versions'[i] = versions[i]
        /\ versions'[N + 1] = row
    BY Zenon, <1>4 DEF Appended, N, row
  <2>2. row.id = c.id /\ row.revision = rv /\ row.request = N + 1
    BY Zenon DEF row
  <2> QED
    BY Zenon, <2>1, <2>2
<1>6. ASSUME NEW i \in Rows'
      PROVE  versions'[i].revision \in 1 .. i /\ versions'[i].request = i
  <2>1. CASE i \in Rows
    BY Zenon, <1>5, <2>1 DEF VersionsNumbered
  <2>2. CASE i = N + 1
    BY Zenon, <1>2, <1>5, <2>2
  <2> QED
    BY <1>1, <1>5, <2>1, <2>2
<1>7. ASSUME NEW i \in Rows', NEW j \in Rows', versions'[i].id = versions'[j].id, i < j
      PROVE  versions'[i].revision < versions'[j].revision
  <2>1. i \in Rows
    BY <1>1, <1>5, <1>7
  <2>2. CASE j \in Rows
    BY Zenon, <1>5, <1>7, <2>1, <2>2 DEF VersionsNumbered
  <2>3. CASE j = N + 1
    <3>1. versions[i].id = c.id
      BY Zenon, <1>5, <1>7, <2>1, <2>3
    <3>2. PICK m \in Rows : versions[m].id = c.id /\ LastBefore(m, N + 1) /\ rv = versions[m].revision + 1
      BY Zenon, <2>1, <3>1 DEF Succeeds, N
    <3>3. i <= m
      BY <1>1, <2>1, <3>1, <3>2 DEF LastBefore
    <3>4. versions[i].revision <= versions[m].revision
      BY Zenon, <2>1, <3>1, <3>2, <3>3, RevisionsAscend
    <3>5. versions[i].revision < rv
      BY <2>1, <3>2, <3>4, RowsAre
    <3> QED
      BY Zenon, <1>5, <2>1, <2>3, <3>5
  <2> QED
    BY <1>1, <1>5, <2>2, <2>3
<1>8. ASSUME NEW i \in Rows', NEW r \in 1 .. versions'[i].revision
      PROVE  \E j \in 1 .. i : versions'[j].id = versions'[i].id /\ versions'[j].revision = r
  <2>1. CASE i \in Rows
    <3>1. PICK j \in 1 .. i : versions[j].id = versions[i].id /\ versions[j].revision = r
      BY Zenon, <1>5, <2>1 DEF VersionsNumbered
    <3> QED
      BY <1>1, <1>5, <2>1, <3>1
  <2>2. CASE i = N + 1 /\ r = rv
    BY Zenon, <1>1, <1>5, <2>2
  <2>3. CASE i = N + 1 /\ r # rv
    <3>1. r \in 1 .. rv /\ rv # 1
      BY <1>2, <1>5, <2>3
    <3>2. PICK m \in Rows : versions[m].id = c.id /\ rv = versions[m].revision + 1
      BY Zenon, <3>1 DEF Succeeds
    <3>3. r \in 1 .. versions[m].revision
      BY <1>2, <2>3, <3>1, <3>2, RowsAre
    <3>4. PICK j \in 1 .. m : versions[j].id = versions[m].id /\ versions[j].revision = r
      BY Zenon, <3>3 DEF VersionsNumbered
    <3>5. j \in Rows /\ j \in 1 .. i
      BY <1>1, <2>3, <3>2, <3>4
    <3> QED
      BY ZenonT(30), <1>5, <2>3, <3>2, <3>4, <3>5
  <2> QED
    BY <1>1, <1>5, <2>1, <2>2, <2>3
<1>9. Len(versions') <= HistoryCapacity
  BY Zenon, <1>5 DEF N
<1> QED
  BY Zenon, <1>2, <1>4, <1>6, <1>7, <1>8, <1>9 DEF VersionsNumbered

\* The catalogs of earlier revisions are as they were.
LEMMA PastAtStays ==
  ASSUME VersionsNumbered, NEW c, NEW rv, Appended(c, rv), NEW k \in 1 .. (Len(versions) + 1), NEW C,
         PastAt(k, C)
  PROVE  PastAt(k, C)'
<1>1. Len(versions) \in Nat /\ 1 .. (k - 1) \subseteq Rows
  BY RowsAre
<1>2. \A j \in 1 .. (k - 1) : versions'[j] = versions[j] /\ Record(j)' = Record(j)
  BY Zenon, <1>1 DEF Appended, Record
<1>3. \A j \in 1 .. (k - 1) : LastBefore(j, k) => LastBefore(j, k)'
  BY Zenon, <1>2 DEF LastBefore
<1>4. \A id \in DOMAIN C.records :
        \E j \in 1 .. (k - 1) : versions'[j].id = id /\ LastBefore(j, k)' /\ C.records[id] = Record(j)'
  <2> TAKE id \in DOMAIN C.records
  <2>1. PICK j \in 1 .. (k - 1) : versions[j].id = id /\ LastBefore(j, k) /\ C.records[id] = Record(j)
    BY Zenon DEF PastAt
  <2> QED
    BY Zenon, <1>2, <1>3, <2>1
<1>5. \A j \in 1 .. (k - 1) : versions'[j].id \in DOMAIN C.records
  BY Zenon, <1>2 DEF PastAt
<1> QED
  BY Zenon, <1>4, <1>5 DEF PastAt

\* A command that is allowed leaves every pack with a product.
LEMMA ValuesStayValid ==
  ASSUME NEW C, NEW c, NEW r, Allowed(C, c), c.kind \in {"create", "revise"}, r.value = c.value,
         \A id \in DOMAIN C.records : ValueValid(C, C.records[id].value),
         NEW D, D.records = Put(C.records, c.id, r)
  PROVE  \A id \in DOMAIN D.records : ValueValid(D, D.records[id].value)
<1> TAKE id \in DOMAIN D.records
<1> DEFINE v == D.records[id].value
<1>1. /\ DOMAIN D.records = DOMAIN C.records \cup {c.id} /\ D.records[c.id] = r
      /\ \A x \in DOMAIN C.records : x # c.id => D.records[x] = C.records[x]
  BY Zenon DEF Put
<1>2. ValueValid(C, c.value)
  BY Zenon DEF Allowed, CreateAllowed, ReviseAllowed
<1>3. ValueValid(C, v)
  BY Zenon, <1>1, <1>2
<1>4. c.id \in DOMAIN C.records => C.records[c.id].value.kind = c.value.kind
  BY Zenon DEF Allowed, CreateAllowed, ReviseAllowed
<1> HIDE DEF v
<1>5. ASSUME v.kind = "pack"
      PROVE  v.product \in DOMAIN D.records /\ D.records[v.product].value.kind = "product"
  <2>1. v.product \in DOMAIN C.records /\ C.records[v.product].value.kind = "product"
    BY Zenon, <1>3, <1>5 DEF ValueValid
  <2>2. CASE v.product = c.id
    BY Zenon, <1>1, <1>4, <2>1, <2>2
  <2>3. CASE v.product # c.id
    BY Zenon, <1>1, <2>1, <2>3
  <2> QED
    BY Zenon, <1>1, <2>1, <2>2, <2>3
<1> QED
  BY Zenon, <1>5 DEF ValueValid, v

LEMMA PastAppend ==
  ASSUME VersionsNumbered, PastKept, NEW c \in Commands, NEW rv, Appended(c, rv),
         NEW N, N = Len(versions), NEW C, C = past[N + 1], Allowed(C, c), rv = Change(C, c).current.revision,
         C.revision = N + 1, NEW A, A = After(C, Change(C, c)), past' = Append(past, A)
  PROVE  PastKept'
<1> DEFINE r == [id |-> c.id, revision |-> rv, value |-> c.value]
<1>1. N \in Nat /\ Rows = 1 .. N
  BY Zenon, RowsAre
<1>2. PastAt(N + 1, C)
  BY <1>1 DEF PastKept
<1>3. A = Catalog(N + 2, Put(C.records, c.id, r))
  BY <1>1 DEF After, Change
<1>4. Record(N + 1)' = r /\ versions'[N + 1].id = c.id
  BY DEF Appended, Record
<1>5. A.records = Put(C.records, c.id, r) /\ A = Catalog(N + 2, A.records)
  BY <1>3 DEF Catalog
<1>6. /\ DOMAIN A.records = DOMAIN C.records \cup {c.id} /\ A.records[c.id] = r
      /\ \A x \in DOMAIN C.records : x # c.id => A.records[x] = C.records[x]
      /\ A.records = [id \in DOMAIN A.records |-> A.records[id]]
  BY <1>5 DEF Put
<1>7. \A j \in 1 .. N : versions'[j] = versions[j] /\ Record(j)' = Record(j)
  BY Zenon, <1>1 DEF Appended, Record
<1>8. \A j \in 1 .. (N + 1) : versions'[j].id \in DOMAIN A.records
  <2>1. \A j \in 1 .. N : versions[j].id \in DOMAIN C.records
    BY <1>1, <1>2 DEF PastAt
  <2>2. \A j \in 1 .. (N + 1) : j \in 1 .. N \/ j = N + 1
    BY <1>1
  <2> QED
    BY ONLY <1>4, <1>6, <1>7, <2>1, <2>2, Zenon
<1>9. ASSUME NEW id \in DOMAIN A.records
      PROVE  \E j \in 1 .. (N + 1) : versions'[j].id = id /\ LastBefore(j, N + 2)' /\ A.records[id] = Record(j)'
  <2>1. CASE id = c.id
    <3>1. LastBefore(N + 1, N + 2)'
      BY <1>1 DEF LastBefore
    <3>2. N + 1 \in 1 .. (N + 1)
      BY <1>1
    <3> QED
      BY Zenon, <1>4, <1>6, <2>1, <3>1, <3>2
  <2>2. CASE id # c.id
    <3>1. id \in DOMAIN C.records
      BY Zenon, <1>6, <2>2
    <3>2. PICK j \in 1 .. ((N + 1) - 1) : versions[j].id = id /\ LastBefore(j, N + 1) /\ C.records[id] = Record(j)
      BY Zenon, <1>2, <3>1 DEF PastAt
    <3>3. LastBefore(j, N + 2)'
      <4>1. j \in 1 .. N /\ (N + 2) - 1 = N + 1 /\ (N + 1) - 1 = N
        BY <1>1
      <4>2. ASSUME NEW n \in 1 .. (N + 1), versions'[n].id = versions'[j].id PROVE n <= j
        <5>1. n # N + 1
          BY Zenon, <1>4, <1>7, <2>2, <3>2, <4>1, <4>2
        <5>2. n \in 1 .. N
          BY <1>1, <5>1
        <5> QED
          BY Zenon, <1>7, <3>2, <4>1, <4>2, <5>2 DEF LastBefore
      <4>3. j \in 1 .. (N + 1)
        BY <1>1, <4>1
      <4> QED
        BY Zenon, <4>1, <4>2, <4>3 DEF LastBefore
    <3>4. j \in 1 .. (N + 1) /\ j \in 1 .. N
      BY <1>1
    <3> QED
      BY <1>6, <1>7, <2>2, <3>1, <3>2, <3>3, <3>4
  <2> QED
    BY Zenon, <2>1, <2>2
<1>10. IsFiniteSet(DOMAIN A.records) /\ Cardinality(DOMAIN A.records) <= ReferenceCapacity
  <2>1. IsFiniteSet(DOMAIN C.records) /\ Cardinality(DOMAIN C.records) <= ReferenceCapacity
    BY Zenon, <1>2 DEF PastAt
  <2>2. CASE c.id \in DOMAIN C.records
    <3>1. DOMAIN A.records = DOMAIN C.records
      BY Zenon, <1>6, <2>2
    <3> QED
      BY Zenon, <2>1, <3>1
  <2>3. CASE c.id \notin DOMAIN C.records
    <3>1. Cardinality(DOMAIN C.records) < ReferenceCapacity
      BY Zenon, <2>3 DEF Allowed, CreateAllowed, ReviseAllowed
    <3>2. /\ IsFiniteSet(DOMAIN A.records)
          /\ Cardinality(DOMAIN A.records) = Cardinality(DOMAIN C.records) + 1
      BY ONLY <1>6, <2>1, <2>3, FS_AddElement, ZenonT(30)
    <3>3. Cardinality(DOMAIN C.records) \in Nat
      BY Zenon, <2>1, FS_CardinalityType
    <3> QED
      BY <3>1, <3>2, <3>3, ReferenceAssumption
  <2> QED
    BY Zenon, <2>2, <2>3
<1>11. \A id \in DOMAIN A.records : ValueValid(A, A.records[id].value)
  <2>1. \A id \in DOMAIN C.records : ValueValid(C, C.records[id].value)
    BY Zenon, <1>2 DEF PastAt
  <2>2. r.value = c.value /\ c.kind \in {"create", "revise"}
    BY Zenon, CommandFields
  <2>3. Allowed(C, c)
    BY Zenon
  <2> HIDE DEF r
  <2> QED
    BY ONLY Zenon, <1>5, <2>1, <2>2, <2>3, ValuesStayValid
<1>12. PastAt(N + 2, A)'
  <2>1. A = Catalog(N + 2, [id \in DOMAIN A.records |-> A.records[id]])
    BY Zenon, <1>5, <1>6
  <2>2. (N + 2) - 1 = N + 1
    BY <1>1
  <2> QED
    <3>1. \A j \in 1 .. ((N + 2) - 1) : versions'[j].id \in DOMAIN A.records
      BY Zenon, <1>8, <2>2
    <3>2. \A id \in DOMAIN A.records :
            \E j \in 1 .. ((N + 2) - 1) : versions'[j].id = id /\ LastBefore(j, N + 2)' /\ A.records[id] = Record(j)'
      BY ONLY <1>9, <2>2, Zenon
    <3> QED
      BY ONLY Zenon, <1>10, <1>11, <2>1, <3>1, <3>2 DEF PastAt
<1>13. past \in Seq({past[k] : k \in 1 .. (N + 1)}) /\ Len(past) = N + 1
  <2>1. past = [k \in 1 .. (N + 1) |-> past[k]]
    BY Zenon DEF PastKept
  <2> QED
    BY <1>1, <2>1
<1>14. /\ past' = [k \in 1 .. (N + 2) |-> past'[k]] /\ past'[N + 2] = A
       /\ \A k \in 1 .. (N + 1) : past'[k] = past[k]
  BY <1>1, <1>13
<1>15. Len(versions') = N + 1 /\ N + 1 + 1 = N + 2
  BY <1>1 DEF Appended
<1>16. ASSUME NEW k \in 1 .. (N + 2), NEW P, P = past'[k]
       PROVE  PastAt(k, P)'
  <2>1. CASE k = N + 2
    BY Zenon, <1>12, <1>14, <1>16, <2>1
  <2>2. CASE k \in 1 .. (N + 1)
    <3>1. PastAt(k, P)
      BY Zenon, <1>14, <1>16, <2>2 DEF PastKept
    <3> QED
      BY Zenon, <2>2, <3>1, PastAtStays
  <2> QED
    BY <1>1, <2>1, <2>2
<1> QED
  BY Zenon, <1>14, <1>15, <1>16 DEF PastKept

LEMMA ReceiptsAppend ==
  ASSUME VersionsNumbered, ReceiptsKept, NEW c \in Commands, NEW rv, rv \in Nat, Succeeds(c, rv), Appended(c, rv),
         NEW N, N = Len(versions), NEW C, C = past[N + 1], rv = Change(C, c).current.revision,
         C.revision = N + 1, receipts' = Put(receipts, N + 1, [request |-> N + 1, change |-> Change(C, c)])
  PROVE  ReceiptsKept'
<1> DEFINE h == Change(C, c)
           r == [id |-> c.id, revision |-> rv, value |-> c.value]
<1>1. N \in Nat /\ Rows = 1 .. N /\ Rows' = 1 .. (N + 1)
  BY Zenon, RowsAre DEF Appended
<1>2. \A j \in Rows : versions'[j] = versions[j] /\ Record(j)' = Record(j)
  BY Zenon DEF Appended, Record
<1>3. Record(N + 1)' = r /\ versions'[N + 1].id = c.id /\ versions'[N + 1].revision = rv
  BY DEF Appended, Record
<1>4. h = [catalog |-> N + 2, previous |-> IF c.kind = "create" THEN Absent ELSE C.records[c.id], current |-> r]
  BY <1>1 DEF Change
<1>5. /\ DOMAIN receipts' = DOMAIN receipts \cup {N + 1}
      /\ receipts'[N + 1] = [request |-> N + 1, change |-> h]
      /\ \A q \in DOMAIN receipts : q # N + 1 => receipts'[q] = receipts[q]
  BY Zenon DEF Put
<1>6. DOMAIN receipts' = Rows'
  <2>1. 1 .. (N + 1) = 1 .. N \cup {N + 1}
    BY <1>1
  <2> QED
    BY Zenon, <1>1, <1>5, <2>1 DEF ReceiptsKept
<1>7. ASSUME NEW q \in Rows, NEW x, x = receipts[q] PROVE ReceiptAt(q, x)'
  <2>1. ReceiptAt(q, x)
    BY Zenon, <1>7 DEF ReceiptsKept
  <2>2. x = [request |-> q, change |-> [catalog |-> q + 1, previous |-> x.change.previous, current |-> Record(q)']]
    BY Zenon, <1>2, <2>1 DEF ReceiptAt
  <2>3. versions'[q].revision = 1 => x.change.previous = Absent
    BY Zenon, <1>2, <2>1 DEF ReceiptAt
  <2>4. ASSUME NEW j \in Rows', versions'[j].id = versions'[q].id,
               versions'[j].revision + 1 = versions'[q].revision
        PROVE  x.change.previous = Record(j)'
    <3>1. CASE j \in Rows
      BY Zenon, <1>2, <2>1, <2>4, <3>1 DEF ReceiptAt
    <3>2. CASE j = N + 1
      <4>1. versions[q].id = c.id /\ rv + 1 = versions[q].revision
        BY Zenon, <1>2, <1>3, <2>4, <3>2
      <4>2. PICK m \in Rows : versions[m].id = c.id /\ LastBefore(m, N + 1) /\ rv = versions[m].revision + 1
        BY Zenon, <4>1 DEF Succeeds
      <4>3. q <= m
        BY <1>1, <4>1, <4>2 DEF LastBefore
      <4>4. versions[q].revision <= versions[m].revision
        BY Zenon, <4>1, <4>2, <4>3, RevisionsAscend
      <4> QED
        BY <4>1, <4>2, <4>4, RowsAre
    <3> QED
      BY <1>1, <3>1, <3>2
  <2> QED
    BY Zenon, <2>2, <2>3, <2>4 DEF ReceiptAt
<1>8. ASSUME NEW x, x = [request |-> N + 1, change |-> h] PROVE ReceiptAt(N + 1, x)'
  <2> DEFINE p == IF c.kind = "create" THEN Absent ELSE C.records[c.id]
  <2>1. x = [request |-> N + 1, change |-> [catalog |-> (N + 1) + 1, previous |-> p, current |-> r]]
    BY <1>1, <1>4, <1>8
  <2>2. x.change.previous = p
    BY Zenon, <2>1
  <2>3. x = [request |-> N + 1, change |-> [catalog |-> (N + 1) + 1, previous |-> x.change.previous,
                                            current |-> Record(N + 1)']]
    BY Zenon, <1>3, <2>1, <2>2
  <2> HIDE DEF p, r, h
  <2>4. CASE c.kind = "create" /\ rv = 1 /\ \A i \in Rows : versions[i].id # c.id
    <3>1. p = Absent
      BY Zenon, <2>4 DEF p
    <3>2. ASSUME NEW j \in Rows', versions'[j].id = versions'[N + 1].id,
                 versions'[j].revision + 1 = versions'[N + 1].revision
          PROVE  FALSE
      <4>1. j # N + 1
        BY <1>3, <2>4, <3>2
      <4>2. j \in Rows
        BY <1>1, <4>1
      <4> QED
        BY Zenon, <1>2, <1>3, <2>4, <3>2, <4>2
    <3> QED
      BY Zenon, <2>2, <2>3, <3>1, <3>2 DEF ReceiptAt
  <2>5. ASSUME c.kind # "create", NEW m \in Rows, versions[m].id = c.id, rv = versions[m].revision + 1,
               C.records[c.id] = Record(m)
        PROVE  ReceiptAt(N + 1, x)'
    <3>1. p = Record(m) /\ rv # 1
      BY <2>5, RowsAre DEF p
    <3>2. ASSUME NEW j \in Rows', versions'[j].id = versions'[N + 1].id,
                 versions'[j].revision + 1 = versions'[N + 1].revision
          PROVE  Record(m) = Record(j)'
      <4>1. j # N + 1
        BY <1>3, <3>2
      <4>2. j \in Rows
        BY <1>1, <4>1
      <4>3. versions[j].id = c.id /\ versions[j].revision + 1 = rv
        BY Zenon, <1>2, <1>3, <3>2, <4>2
      <4>4. versions[j].revision = versions[m].revision
        BY <2>5, <4>2, <4>3, RowsAre
      <4>5. j = m
        BY Zenon, <2>5, <4>2, <4>3, <4>4, RevisionsTellApart
      <4> QED
        BY Zenon, <1>2, <4>5
    <3> QED
      BY Zenon, <1>3, <2>2, <2>3, <3>1, <3>2 DEF ReceiptAt
  <2> QED
    BY Zenon, <2>4, <2>5 DEF Succeeds
<1>9. ASSUME NEW q \in Rows', NEW x, x = receipts'[q] PROVE ReceiptAt(q, x)'
  <2>1. CASE q \in Rows
    <3>1. x = receipts[q]
      BY <1>1, <1>5, <1>9, <2>1 DEF ReceiptsKept
    <3> QED
      BY Zenon, <1>7, <2>1, <3>1
  <2>2. CASE q = N + 1
    BY Zenon, <1>5, <1>8, <1>9, <2>2
  <2> QED
    BY <1>1, <2>1, <2>2
<1> QED
  BY Zenon, <1>6, <1>9 DEF ReceiptsKept

LEMMA MinIs ==
  ASSUME NEW a \in Nat, NEW b \in Nat
  PROVE  Min({a, b}) \in Nat /\ Min({a, b}) <= a /\ Min({a, b}) <= b
<1>1. ASSUME NEW m \in {a, b}, \A y \in {a, b} : m <= y
      PROVE  Min({a, b}) \in {a, b} /\ \A y \in {a, b} : Min({a, b}) <= y
  BY Zenon, <1>1 DEF Min
<1>2. \E m \in {a, b} : \A y \in {a, b} : m <= y
  <2>1. CASE a <= b
    BY <2>1
  <2>2. CASE b <= a
    BY <2>2
  <2> QED
    BY <2>1, <2>2
<1>3. Min({a, b}) \in {a, b} /\ \A y \in {a, b} : Min({a, b}) <= y
  BY Zenon, <1>1, <1>2
<1>4. \A m \in {a, b} : m \in Nat
  BY Zenon
<1> QED
  BY Zenon, <1>3, <1>4

\* The rows of a record that are newer than a revision span the revisions up to its last one.
LEMMA NewerSpan ==
  ASSUME VersionsNumbered, PastKept, NEW id, NEW a \in Nat,
         NEW S, S = {i \in Rows : versions[i].id = id /\ versions[i].revision > a}
  PROVE  \E b \in Nat : a <= b /\ Spans(S, id, a, b)
<1>1. CASE S = {}
  <2>1. Spans(S, id, a, a) /\ a <= a
    BY <1>1 DEF Spans
  <2> QED
    BY Zenon, <2>1
<1>2. CASE S # {}
  <2>1. PICK i \in Rows : versions[i].id = id /\ versions[i].revision > a
    BY Zenon, <1>2
  <2>2. Len(versions) \in Nat /\ Rows = 1 .. Len(versions) /\ (Len(versions) + 1) - 1 = Len(versions)
    BY RowsAre
  <2>3. PastAt(Len(versions) + 1, past[Len(versions) + 1])
    BY <2>2 DEF PastKept
  <2>4. PICK j \in 1 .. ((Len(versions) + 1) - 1) : versions[j].id = id /\ LastBefore(j, Len(versions) + 1)
    BY Zenon, <2>1, <2>2, <2>3 DEF PastAt
  <2>5. j \in Rows /\ \A n \in Rows : versions[n].id = id => n <= j
    BY Zenon, <2>2, <2>4 DEF LastBefore
  <2> DEFINE b == versions[j].revision
  <2>6. b \in Nat /\ b >= 1
    BY Zenon, <2>5, RowsAre
  <2>7. \A n \in Rows : versions[n].id = id => versions[n].revision <= b
    BY Zenon, <2>4, <2>5, RevisionsAscend
  <2>8. \A n \in S : versions[n].id = id /\ versions[n].revision \in (a + 1) .. b
    BY <2>6, <2>7, RowsAre
  <2>9. a <= b
    BY <2>1, <2>6, <2>7, RowsAre
  <2>10. \A r \in (a + 1) .. b : \E n \in S : versions[n].revision = r
    <3> TAKE r \in (a + 1) .. b
    <3>1. r \in 1 .. b /\ r > a
      BY <2>6
    <3>2. PICK n \in 1 .. j : versions[n].id = versions[j].id /\ versions[n].revision = r
      BY Zenon, <2>5, <3>1 DEF VersionsNumbered
    <3>3. n \in Rows
      BY <2>2, <2>5
    <3> QED
      BY Zenon, <2>4, <3>1, <3>2, <3>3
  <2>11. S \subseteq Rows
    BY Zenon
  <2> HIDE DEF b
  <2>12. Spans(S, id, a, b)
    BY Zenon, <2>8, <2>10, <2>11 DEF Spans
  <2> QED
    BY Zenon, <2>6, <2>9, <2>12
<1> QED
  BY Zenon, <1>1, <1>2

\* A page holds the next versions in their order.
NextVersions(p, m, id, a) ==
  p \in [1 .. m -> Rows] /\ \A k \in 1 .. m : versions[p[k]].id = id /\ versions[p[k]].revision = a + k

LEMMA PageIs ==
  ASSUME VersionsNumbered, PastKept, NEW id, NEW a \in Nat, NEW limit \in Nat
  PROVE  \E m \in Nat : NextVersions(HistoryPage(id, a, limit), m, id, a)
<1> DEFINE S == {i \in Rows : versions[i].id = id /\ versions[i].revision > a}
           Older(i) == {j \in S : versions[j].revision < versions[i].revision}
           m == Min({limit, Cardinality(S)})
           p == [k \in 1 .. m |-> CHOOSE i \in S : Cardinality(Older(i)) = k - 1]
<1>1. PICK b \in Nat : a <= b /\ Spans(S, id, a, b)
  BY Zenon, NewerSpan
<1>2. Cardinality(S) = b - a
  BY Zenon, <1>1, RowsBetween
<1>3. m \in Nat /\ m <= b - a
  <2>1. b - a \in Nat
    BY <1>1
  <2> HIDE DEF S
  <2> QED
    BY Zenon, <1>2, <2>1, MinIs
<1>4. ASSUME NEW i \in S
      PROVE  versions[i].revision \in Nat /\ Cardinality(Older(i)) = (versions[i].revision - 1) - a
  <2> DEFINE e == versions[i].revision - 1
  <2>1. i \in Rows /\ versions[i].revision \in (a + 1) .. b /\ versions[i].id = id /\ versions[i].revision \in Nat
    BY Zenon, <1>1, RowsAre DEF Spans
  <2>2. e \in Nat /\ a <= e
    BY <2>1
  <2>3. /\ Older(i) \subseteq Rows
        /\ \A j \in Older(i) : versions[j].id = id /\ versions[j].revision \in (a + 1) .. e
    BY <2>1, RowsAre
  <2>4. \A r \in (a + 1) .. e : \E j \in Older(i) : versions[j].revision = r
    <3> TAKE r \in (a + 1) .. e
    <3>1. r \in (a + 1) .. b /\ r < versions[i].revision
      BY <2>1
    <3>2. PICK j \in S : versions[j].revision = r
      BY Zenon, <1>1, <3>1 DEF Spans
    <3> QED
      BY Zenon, <3>1, <3>2
  <2> HIDE DEF e, Older
  <2>5. Spans(Older(i), id, a, e)
    BY Zenon, <2>3, <2>4 DEF Spans
  <2>6. Cardinality(Older(i)) = e - a
    BY Zenon, <2>2, <2>5, RowsBetween
  <2> QED
    BY Zenon, <2>1, <2>6 DEF e
<1>5. ASSUME NEW k \in 1 .. m
      PROVE  p[k] \in S /\ versions[p[k]].revision = a + k
  <2>1. k \in Nat /\ a + k \in (a + 1) .. b
    BY <1>1, <1>3, <1>5
  <2>2. PICK i \in S : versions[i].revision = a + k
    BY Zenon, <1>1, <2>1 DEF Spans
  <2>3. (versions[i].revision - 1) - a = k - 1
    BY <2>1, <2>2
  <2>4. Cardinality(Older(i)) = k - 1
    BY Zenon, <1>4, <2>3
  <2> HIDE DEF S, Older
  <2>5. p[k] \in S /\ Cardinality(Older(p[k])) = k - 1
    BY Zenon, <2>4
  <2>6. versions[p[k]].revision \in Nat /\ (versions[p[k]].revision - 1) - a = k - 1
    BY Zenon, <1>4, <2>5
  <2> HIDE DEF p
  <2> QED
    BY <2>1, <2>5, <2>6
<1>6. HistoryPage(id, a, limit) = p
  BY Zenon DEF HistoryPage
<1>7. S \subseteq Rows /\ \A i \in S : versions[i].id = id
  BY Zenon
<1> HIDE DEF S, Older, m
<1>8. p \in [1 .. m -> Rows]
  BY Zenon, <1>5, <1>7
<1> HIDE DEF p
<1>9. NextVersions(p, m, id, a)
  BY Zenon, <1>5, <1>7, <1>8 DEF NextVersions
<1> QED
  BY Zenon, <1>3, <1>6, <1>9

\* What a reader has got is still so when versions are only added.
LEMMA ReaderStays ==
  ASSUME ReaderKept, reader' = reader, Rows \subseteq Rows',
         \A i \in Rows : versions'[i] = versions[i] /\ receipts'[i] = receipts[i]
  PROVE  ReaderKept'
<1> SUFFICES ASSUME reader # Absent
             PROVE  /\ reader = [id |-> reader.id, after |-> reader.after, got |-> reader.got]
                    /\ reader.got = [k \in 1 .. reader.after |-> reader.got[k]] /\ reader.after \in Nat
                    /\ \A k \in 1 .. reader.after :
                         \E i \in Rows' : /\ versions'[i].id = reader.id /\ versions'[i].revision = k
                                          /\ reader.got[k] = Found(receipts'[i])
  BY ZenonT(30) DEF ReaderKept
<1>1. /\ reader = [id |-> reader.id, after |-> reader.after, got |-> reader.got]
      /\ reader.got = [k \in 1 .. reader.after |-> reader.got[k]] /\ reader.after \in Nat
  BY Zenon DEF ReaderKept
<1>2. ASSUME NEW k \in 1 .. reader.after
      PROVE  \E i \in Rows' : /\ versions'[i].id = reader.id /\ versions'[i].revision = k
                              /\ reader.got[k] = Found(receipts'[i])
  <2>1. PICK i \in Rows : /\ versions[i].id = reader.id /\ versions[i].revision = k
                          /\ reader.got[k] = Found(receipts[i])
    BY Zenon DEF ReaderKept
  <2>2. i \in Rows' /\ versions'[i] = versions[i] /\ receipts'[i] = receipts[i]
    BY Zenon
  <2> QED
    BY Zenon, <2>1, <2>2
<1> QED
  BY Zenon, <1>1, <1>2

LEMMA ApplyKeeps ==
  ASSUME ReferenceInv, NEW q, NEW c \in Commands, q = Len(versions) + 1, ApplyReference(q, c)
  PROVE  ReferenceInv'
<1>1. VersionsNumbered /\ PastKept /\ ReceiptsKept /\ ReaderKept
  BY Zenon DEF ReferenceInv
<1>2. PICK N : N = Len(versions)
  BY Zenon
<1>3. PICK C : C = past[N + 1]
  BY Zenon
<1>4. PICK rv : rv = Change(C, c).current.revision
  BY Zenon
<1>5. PICK A : A = After(C, Change(C, c))
  BY Zenon
<1>6. /\ Allowed(C, c) /\ C.revision = N + 1 /\ N + 1 <= HistoryCapacity
      /\ versions' = Append(versions, [id |-> c.id, revision |-> rv, value |-> c.value,
                                       request |-> N + 1, intent |-> c])
      /\ receipts' = Put(receipts, N + 1, [request |-> N + 1, change |-> Change(C, c)])
      /\ past' = Append(past, A) /\ reader' = reader /\ Succeeds(c, rv)
  BY ZenonT(30), <1>1, <1>2, <1>3, <1>4, <1>5, ApplyFollows
<1>7. VersionsNumbered' /\ Appended(c, rv) /\ rv \in Nat
  BY Zenon, <1>1, <1>2, <1>6, NumberedAppend
<1>8. PastKept'
  BY Zenon, <1>1, <1>2, <1>3, <1>4, <1>5, <1>6, <1>7, PastAppend
<1>9. ReceiptsKept'
  BY Zenon, <1>1, <1>2, <1>3, <1>4, <1>6, <1>7, ReceiptsAppend
<1>10. ReaderKept'
  <2>1. N \in Nat /\ Rows = 1 .. N /\ Rows' = 1 .. (N + 1) /\ \A i \in Rows : versions'[i] = versions[i]
    BY Zenon, <1>1, <1>2, <1>7, RowsAre DEF Appended
  <2>2. \A i \in Rows : receipts'[i] = receipts[i]
    <3>1. \A i \in Rows : i \in DOMAIN receipts /\ i # N + 1
      BY <1>1, <2>1 DEF ReceiptsKept
    <3> QED
      BY Zenon, <1>6, <3>1 DEF Put
  <2>3. Rows \subseteq Rows'
    BY <2>1
  <2> QED
    BY Zenon, <1>1, <1>6, <2>1, <2>2, <2>3, ReaderStays
<1> QED
  BY Zenon, <1>7, <1>8, <1>9, <1>10 DEF ReferenceInv

\* The tables do not change, so neither does what is kept about them.
LEMMA TablesKept ==
  ASSUME VersionsNumbered, PastKept, ReceiptsKept, UNCHANGED <<versions, receipts, past>>
  PROVE  VersionsNumbered' /\ PastKept' /\ ReceiptsKept'
<1>1. versions' = versions /\ receipts' = receipts /\ past' = past /\ Rows' = Rows
  BY Zenon DEF Rows
<1>2. VersionsNumbered'
  <2>1. versions' \in Seq(VersionRows) /\ Len(versions') <= HistoryCapacity
    BY Zenon, <1>1 DEF VersionsNumbered
  <2>2. \A i \in Rows' : versions'[i].revision \in 1 .. i /\ versions'[i].request = i
    BY Zenon, <1>1 DEF VersionsNumbered
  <2>3. \A i, j \in Rows' : versions'[i].id = versions'[j].id /\ i < j
                             => versions'[i].revision < versions'[j].revision
    BY ZenonT(30), <1>1 DEF VersionsNumbered
  <2>4. \A i \in Rows' : \A r \in 1 .. versions'[i].revision :
          \E j \in 1 .. i : versions'[j].id = versions'[i].id /\ versions'[j].revision = r
    BY <1>1 DEF VersionsNumbered
  <2> QED
    BY Zenon, <2>1, <2>2, <2>3, <2>4 DEF VersionsNumbered
<1>3. \A i, k : Record(i)' = Record(i) /\ (LastBefore(i, k)' <=> LastBefore(i, k))
  BY Zenon, <1>1 DEF Record, LastBefore
<1>4. PastKept'
  <2>1. ASSUME NEW k, NEW C, PastAt(k, C) PROVE PastAt(k, C)'
    <3>1. \A j \in 1 .. (k - 1) : versions'[j].id \in DOMAIN C.records
      BY Zenon, <1>1, <2>1 DEF PastAt
    <3>2. \A id \in DOMAIN C.records :
            \E j \in 1 .. (k - 1) : versions'[j].id = id /\ LastBefore(j, k)' /\ C.records[id] = Record(j)'
      BY <1>1, <1>3, <2>1 DEF PastAt
    <3> QED
      BY Zenon, <2>1, <3>1, <3>2 DEF PastAt
  <2>2. ASSUME NEW k \in 1 .. (Len(versions') + 1), NEW C, C = past'[k] PROVE PastAt(k, C)'
    BY Zenon, <1>1, <2>1, <2>2 DEF PastKept
  <2>3. past' = [k \in 1 .. (Len(versions') + 1) |-> past'[k]]
    BY Zenon, <1>1 DEF PastKept
  <2> QED
    BY Zenon, <2>2, <2>3 DEF PastKept
<1>5. ReceiptsKept'
  <2>1. ASSUME NEW q \in Rows, NEW x, ReceiptAt(q, x) PROVE ReceiptAt(q, x)'
    BY Zenon, <1>1, <1>3, <2>1 DEF ReceiptAt
  <2>2. ASSUME NEW q \in Rows', NEW x, x = receipts'[q] PROVE ReceiptAt(q, x)'
    BY Zenon, <1>1, <2>1, <2>2 DEF ReceiptsKept
  <2> QED
    BY Zenon, <1>1, <2>2 DEF ReceiptsKept
<1> QED
  BY Zenon, <1>2, <1>4, <1>5

Listed(s, n) == s = [k \in 1 .. n |-> s[k]]

Joined(u, s, n, t, m) ==
  Listed(u, n + m) /\ (\A k \in 1 .. n : u[k] = s[k]) /\ \A k \in 1 .. m : u[n + k] = t[k]

LEMMA ConcatAt ==
  ASSUME NEW s, NEW t, NEW n \in Nat, NEW m \in Nat, Listed(s, n), Listed(t, m)
  PROVE  Joined(s \o t, s, n, t, m)
<1> DEFINE S == {s[k] : k \in 1 .. n} \cup {t[k] : k \in 1 .. m}
<1>1. s \in Seq(S) /\ Len(s) = n
  BY DEF Listed
<1>2. t \in Seq(S) /\ Len(t) = m
  BY DEF Listed
<1> HIDE DEF S
<1>3. s \o t \in Seq(S) /\ Len(s \o t) = n + m
  BY ONLY <1>1, <1>2
<1>4. \A k \in 1 .. n : (s \o t)[k] = s[k]
  BY ONLY <1>1, <1>2
<1>5. \A k \in 1 .. m : (s \o t)[n + k] = t[k]
  BY ONLY <1>1, <1>2
<1>6. s \o t = [k \in 1 .. (n + m) |-> (s \o t)[k]]
  <2>1. ASSUME NEW u \in Seq(S), Len(u) = n + m PROVE u = [k \in 1 .. (n + m) |-> u[k]]
    BY <2>1
  <2> QED
    BY Zenon, <1>3, <2>1
<1> QED
  BY Zenon, <1>4, <1>5, <1>6 DEF Joined, Listed

LEMMA ReadKeeps ==
  ASSUME ReferenceInv, NEW limit \in Nat, ReadHistory(limit)
  PROVE  ReaderKept'
<1>1. VersionsNumbered /\ PastKept /\ ReceiptsKept /\ ReaderKept
  BY Zenon DEF ReferenceInv
<1>2. PICK R : R = reader
  BY Zenon
<1>3. R # Absent /\ UNCHANGED <<versions, receipts, past>>
  BY Zenon, <1>2 DEF ReadHistory
<1>4. /\ R = [id |-> R.id, after |-> R.after, got |-> R.got]
      /\ R.got = [k \in 1 .. R.after |-> R.got[k]] /\ R.after \in Nat
      /\ \A k \in 1 .. R.after :
           \E i \in Rows : versions[i].id = R.id /\ versions[i].revision = k /\ R.got[k] = Found(receipts[i])
  BY Zenon, <1>1, <1>2, <1>3 DEF ReaderKept
<1>A. PICK m \in Nat : NextVersions(HistoryPage(R.id, R.after, limit), m, R.id, R.after)
  BY Zenon, <1>1, <1>4, PageIs
<1>B. PICK p : p = HistoryPage(R.id, R.after, limit)
  BY Zenon
<1>5. /\ HistoryPage(R.id, R.after, limit) = p /\ p \in [1 .. m -> Rows]
      /\ \A k \in 1 .. m : versions[p[k]].id = R.id /\ versions[p[k]].revision = R.after + k
  BY Zenon, <1>A, <1>B DEF NextVersions
<1> DEFINE g == [k \in DOMAIN p |-> ReceiptOf(p[k])]
<1>6. p # <<>> /\ reader' = [R EXCEPT !.after = versions[p[Len(p)]].revision, !.got = @ \o g]
  BY Zenon, <1>2, <1>5 DEF ReadHistory
<1>7. /\ DOMAIN p = 1 .. m /\ Len(p) = m /\ m >= 1 /\ p[Len(p)] = p[m] /\ versions[p[Len(p)]].revision = R.after + m
  <2>1. DOMAIN p = 1 .. m /\ Len(p) = m
    BY ONLY <1>5
  <2>2. m # 0
    BY <1>6, <2>1
  <2>3. m >= 1 /\ m \in 1 .. m
    BY <2>2
  <2>4. p[Len(p)] = p[m]
    BY Zenon, <2>1
  <2> QED
    BY Zenon, <1>5, <2>1, <2>3, <2>4
<1>8. \A k \in 1 .. m : g[k] = Found(receipts[p[k]])
  BY Zenon, <1>1, <1>5, <1>7, ReceiptRead
<1>9. reader' = [id |-> R.id, after |-> R.after + m, got |-> R.got \o g]
  <2> HIDE DEF g
  <2>1. reader' = [R EXCEPT !.after = R.after + m, !.got = R.got \o g]
    BY Zenon, <1>6, <1>7
  <2> QED
    BY Zenon, <1>4, <2>1
<1>10. g = [k \in 1 .. m |-> g[k]]
  BY Zenon, <1>7
<1> HIDE DEF g
<1>11. /\ R.got \o g = [k \in 1 .. (R.after + m) |-> (R.got \o g)[k]]
       /\ \A k \in 1 .. R.after : (R.got \o g)[k] = R.got[k]
       /\ \A k \in 1 .. m : (R.got \o g)[R.after + k] = g[k]
  <2>1. R.after \in Nat /\ Listed(R.got, R.after) /\ Listed(g, m)
    BY Zenon, <1>4, <1>10 DEF Listed
  <2>2. Joined(R.got \o g, R.got, R.after, g, m)
    BY Zenon, <2>1, ConcatAt
  <2> QED
    BY Zenon, <2>2 DEF Joined, Listed
<1>12. ASSUME NEW k \in 1 .. (R.after + m)
       PROVE  \E i \in Rows : /\ versions[i].id = R.id /\ versions[i].revision = k
                              /\ (R.got \o g)[k] = Found(receipts[i])
  <2>1. CASE k \in 1 .. R.after
    <3>1. PICK i \in Rows : versions[i].id = R.id /\ versions[i].revision = k /\ R.got[k] = Found(receipts[i])
      BY Zenon, <1>4, <2>1
    <3>2. (R.got \o g)[k] = R.got[k]
      BY Zenon, <1>11, <2>1
    <3> QED
      BY Zenon, <3>1, <3>2
  <2>2. CASE k \notin 1 .. R.after
    <3>1. PICK n \in 1 .. m : k = R.after + n
      <4>1. k - R.after \in 1 .. m /\ k = R.after + (k - R.after)
        BY <1>4, <2>2
      <4> QED
        BY Zenon, <4>1
    <3>2. p[n] \in Rows
      BY Zenon, <1>5, <3>1
    <3> QED
      BY Zenon, <1>5, <1>8, <1>11, <3>1, <3>2
  <2> QED
    BY Zenon, <2>1, <2>2
<1>13. versions' = versions /\ receipts' = receipts /\ Rows' = Rows /\ R.after + m \in Nat
  BY <1>3, <1>4 DEF Rows
<1>14. reader'.id = R.id /\ reader'.after = R.after + m /\ reader'.got = R.got \o g
  BY Zenon, <1>9
<1> QED
  BY Zenon, <1>9, <1>11, <1>12, <1>13, <1>14 DEF ReaderKept

LEMMA ReferenceStarts == ReferenceInit => ReferenceInv
<1> SUFFICES ASSUME ReferenceInit PROVE ReferenceInv
  BY Zenon
<1>1. Len(versions) = 0 /\ Rows = {} /\ versions \in Seq(VersionRows)
  BY DEF ReferenceInit, Rows
<1>2. VersionsNumbered
  BY <1>1, ReferenceAssumption DEF VersionsNumbered
<1>3. PastKept
  <2>1. Len(past) = 1 /\ past = [k \in 1 .. 1 |-> past[k]] /\ past[1] = Catalog(1, <<>>)
    BY DEF ReferenceInit
  <2>2. PICK C : C = past[1]
    BY Zenon
  <2>3. DOMAIN C.records = {} /\ C.records = <<>> /\ C = Catalog(1, C.records)
    BY <2>1, <2>2 DEF Catalog
  <2>4. C.records = [id \in DOMAIN C.records |-> C.records[id]]
    BY <2>3
  <2>5. IsFiniteSet({}) /\ Cardinality({}) = 0
    BY Zenon, FS_EmptySet
  <2>6. IsFiniteSet(DOMAIN C.records) /\ Cardinality(DOMAIN C.records) <= ReferenceCapacity
    BY <2>3, <2>5, ReferenceAssumption
  <2>7. \A j \in 1 .. (1 - 1) : FALSE
    OBVIOUS
  <2>8. PastAt(1, C)
    BY Zenon, <2>3, <2>4, <2>6, <2>7 DEF PastAt
  <2>9. 1 .. (Len(versions) + 1) = {1} /\ 1 .. 1 = {1}
    BY <1>1
  <2> QED
    BY Zenon, <2>1, <2>2, <2>8, <2>9 DEF PastKept
<1>4. ReceiptsKept
  BY <1>1 DEF ReferenceInit, ReceiptsKept
<1>5. ReaderKept
  BY Zenon DEF ReferenceInit, ReaderKept
<1> QED
  BY Zenon, <1>2, <1>3, <1>4, <1>5 DEF ReferenceInv

LEMMA ReferenceStep ==
  ASSUME ReferenceInv, [ReferenceNext]_referenceVars
  PROVE  ReferenceInv'
<1>1. VersionsNumbered /\ PastKept /\ ReceiptsKept /\ ReaderKept
  BY Zenon DEF ReferenceInv
<1>2. ASSUME NEW q \in Requests, NEW c \in Commands, q = Len(versions) + 1, ApplyReference(q, c)
      PROVE  ReferenceInv'
  BY Zenon, <1>2, ApplyKeeps
<1>3. ASSUME UNCHANGED <<versions, receipts, past>>, ReaderKept' PROVE ReferenceInv'
  BY Zenon, <1>1, <1>3, TablesKept DEF ReferenceInv
<1>4. ASSUME NEW id \in RecordIds, OpenHistory(id) PROVE ReferenceInv'
  <2>1. UNCHANGED <<versions, receipts, past>> /\ reader' = [id |-> id, after |-> 0, got |-> <<>>]
    BY Zenon, <1>4 DEF OpenHistory
  <2>2. reader'.id = id /\ reader'.after = 0 /\ reader'.got = <<>>
    BY Zenon, <2>1
  <2>3. 1 .. 0 = {} /\ <<>> = [k \in 1 .. 0 |-> <<>>[k]] /\ 0 \in Nat
    OBVIOUS
  <2>4. ReaderKept'
    BY Zenon, <2>1, <2>2, <2>3 DEF ReaderKept
  <2> QED
    BY Zenon, <1>3, <2>1, <2>4
<1>5. ASSUME NEW limit \in 1 .. PageRows, ReadHistory(limit) PROVE ReferenceInv'
  <2>1. limit \in Nat
    BY ReferenceAssumption
  <2>2. UNCHANGED <<versions, receipts, past>>
    BY Zenon, <1>5 DEF ReadHistory
  <2> QED
    BY Zenon, <1>3, <1>5, <2>1, <2>2, ReadKeeps
<1>6. CASE UNCHANGED referenceVars
  <2>1. versions' = versions /\ receipts' = receipts /\ past' = past /\ reader' = reader
    BY Zenon, <1>6 DEF referenceVars
  <2>2. UNCHANGED <<versions, receipts, past>> /\ Rows' = Rows
    BY Zenon, <2>1 DEF Rows
  <2>3. Rows \subseteq Rows' /\ \A i \in Rows : versions'[i] = versions[i] /\ receipts'[i] = receipts[i]
    BY Zenon, <2>1, <2>2
  <2>4. ReaderKept'
    BY Zenon, <1>1, <2>1, <2>3, ReaderStays
  <2> QED
    BY Zenon, <1>3, <2>2, <2>4
<1> QED
  BY Zenon, <1>2, <1>4, <1>5, <1>6 DEF ReferenceNext

(***************************************************************************)
(* However many records, revisions and readers there are and whatever the  *)
(* limits: the present catalog, every past catalog, every receipt and      *)
(* every page of a history are read back as they were (load_catalog_on,    *)
(* load_catalog_through_on, receipt_on, hub_reference_history).            *)
(***************************************************************************)
THEOREM ReferencesStand == ReferenceSpec => []ReferenceStands
BY ReferenceStarts, ReferenceStep, ReferenceRead, PTL DEF ReferenceSpec
-----------------------------------------------------------------------------
(***************************************************************************)
(* Hub submissions, for any operations, actors, mutations and capacities.  *)
(***************************************************************************)
\* A call in flight is a submission without an outcome.
CallsArePending ==
  \A op \in Operations : call[op] # "idle" => Unresolved(op)

\* A rejection belongs to a submission and excludes an effect.
RejectionsExclude ==
  \A op \in rejected : Submitted(op) /\ ~ HasRoot(op)

\* No submission comes from a later session than the current one.
ScopesArePast ==
  \A op \in Operations : Submitted(op) =>
    \/ submission[op].scope.runtime < session.runtime
    \/ /\ submission[op].scope.runtime = session.runtime
       /\ submission[op].scope.generation <= session.generation

HubInv ==
  /\ Shape /\ CallsArePending /\ RejectionsExclude /\ ScopesArePast
  /\ EffectAtMostOnce /\ AnswersStayTrue
-----------------------------------------------------------------------------
LEMMA HubInit == Init => HubInv
<1> SUFFICES ASSUME Init PROVE HubInv
  BY Zenon
<1> USE HubAssumption DEF Init
<1>1. Shape
  BY Zenon DEF Shape
<1>2. CallsArePending /\ RejectionsExclude /\ ScopesArePast
  BY Zenon DEF CallsArePending, RejectionsExclude, ScopesArePast, Submitted
<1>3. EffectAtMostOnce /\ AnswersStayTrue
  BY Zenon DEF EffectAtMostOnce, AnswersStayTrue, HasRoot
<1> QED
  BY Zenon, <1>1, <1>2, <1>3 DEF HubInv

(***************************************************************************)
(* The actions, by what they touch.                                        *)
(***************************************************************************)
LEMMA SessionStep ==
  ASSUME HubInv, BeginHubRuntime \/ \E a \in Actors \cup {None} : AdvanceHubSession(a)
  PROVE  HubInv'
<1> USE DEF HubInv
<1>1. session \in [runtime: Nat, generation: Nat, actor: Actors \cup {None}]
  BY Zenon DEF Shape
<1>2. /\ session' \in [runtime: Nat, generation: Nat, actor: Actors \cup {None}]
      /\ \/ session.runtime < session'.runtime
         \/ session.runtime = session'.runtime /\ session.generation <= session'.generation
  <2>1. CASE BeginHubRuntime
    BY <1>1, <2>1 DEF BeginHubRuntime
  <2>2. ASSUME NEW a \in Actors \cup {None}, AdvanceHubSession(a)
        PROVE  /\ session' \in [runtime: Nat, generation: Nat, actor: Actors \cup {None}]
               /\ session.runtime = session'.runtime /\ session.generation <= session'.generation
    <3>1. session' = [runtime |-> session.runtime, generation |-> session.generation + 1, actor |-> a]
      BY Zenon, <1>1, <2>2 DEF AdvanceHubSession
    <3> QED
      BY <1>1, <3>1
  <2> QED
    BY Zenon, <2>1, <2>2
<1>3. /\ UNCHANGED <<owner, submission, rejected, root, openFacts, told, applied>>
      /\ call' \in {call, [op \in Operations |-> "idle"]}
  BY Zenon DEF BeginHubRuntime, AdvanceHubSession
<1>4. Shape'
  BY <1>2, <1>3 DEF Shape
<1>5. CallsArePending' /\ RejectionsExclude'
  BY Zenon, <1>3 DEF Shape, CallsArePending, RejectionsExclude, Unresolved, Submitted, HasRoot
<1>6. ScopesArePast'
  <2> SUFFICES ASSUME NEW op \in Operations, Submitted(op)
               PROVE  \/ submission[op].scope.runtime < session'.runtime
                      \/ /\ submission[op].scope.runtime = session'.runtime
                         /\ submission[op].scope.generation <= session'.generation
    BY Zenon, <1>3 DEF ScopesArePast, Submitted
  <2>1. submission[op].scope.runtime \in Nat /\ submission[op].scope.generation \in Nat
    BY Zenon DEF Shape, Submitted, Submission, Scope
  <2> QED
    BY <1>1, <1>2, <2>1 DEF ScopesArePast
<1>7. EffectAtMostOnce' /\ AnswersStayTrue'
  BY Zenon, <1>3 DEF EffectAtMostOnce, AnswersStayTrue, HasRoot
<1> QED
  BY Zenon, <1>4, <1>5, <1>6, <1>7

LEMMA AdmitStep ==
  ASSUME HubInv, NEW op \in Operations, NEW m \in Mutations, Admit(op, m)
  PROVE  HubInv'
<1> USE HubAssumption DEF HubInv, Admit
<1>1. session \in Scope
  BY Zenon DEF Shape, Scope, Authorized
<1>2. Shape'
  BY <1>1 DEF Shape, Submission
<1>3. submission'[op] = [mutation |-> m, scope |-> session] /\ submission'[op] # NoRecord
  BY Zenon DEF Shape, NoRecord
<1>4. \A other \in Operations \ {op} : submission'[other] = submission[other] /\ call'[other] = call[other]
  BY DEF Shape
<1>5. CallsArePending' /\ RejectionsExclude'
  <2>1. op \notin rejected
    BY Zenon DEF RejectionsExclude
  <2> QED
    BY Zenon, <1>3, <1>4, <2>1 DEF Shape, CallsArePending, RejectionsExclude, Unresolved, Submitted, HasRoot
<1>6. ScopesArePast'
  BY <1>1, <1>3, <1>4 DEF ScopesArePast, Submitted, Scope
<1>7. EffectAtMostOnce' /\ AnswersStayTrue'
  BY Zenon DEF EffectAtMostOnce, AnswersStayTrue, HasRoot
<1> QED
  BY Zenon, <1>2, <1>5, <1>6, <1>7

LEMMA AnswerStep ==
  ASSUME HubInv, NEW op \in Operations, Answer(op)
  PROVE  HubInv'
<1> USE DEF HubInv, Answer, AnswerRecorded, AnswerRejected, AnswerPending, Learn, durableVars, hubVars
<1>1. Shape'
  BY DEF Shape
<1>2. CallsArePending' /\ RejectionsExclude' /\ ScopesArePast' /\ EffectAtMostOnce'
  BY Zenon DEF CallsArePending, RejectionsExclude, ScopesArePast, EffectAtMostOnce, Unresolved, Submitted, HasRoot
<1>3. AnswersStayTrue'
  BY DEF Shape, AnswersStayTrue, RejectionsExclude, HasRoot
<1> QED
  BY Zenon, <1>1, <1>2, <1>3

LEMMA ExecuteStep ==
  ASSUME HubInv, NEW op \in Operations, Execute(op)
  PROVE  HubInv'
<1> USE DEF HubInv, Execute, Applies, EndCall, Learn, EffectGuard
<1>1. Submitted(op) /\ op \notin rejected /\ ~ HasRoot(op) /\ submission[op] \in Submission
  BY Zenon DEF Shape, Submitted
<1>2. /\ root'[op] = [mutation |-> submission[op].mutation, actor |-> submission[op].scope.actor]
      /\ root'[op] \in Root /\ root'[op] # NoRecord
  BY <1>1, HubAssumption DEF Shape, Root, Submission, Scope, NoRecord
<1>3. \A other \in Operations \ {op} :
        root'[other] = root[other] /\ call'[other] = call[other] /\ told'[other] = told[other]
          /\ applied'[other] = applied[other]
  BY DEF Shape
<1>4. call'[op] = "idle" /\ applied'[op] = applied[op] + 1 /\ told'[op] \subseteq told[op] \cup {"recorded"}
  BY DEF Shape
<1>5. owner' \in Actors \cup {None} /\ openFacts' \subseteq Operations
  BY <1>1 DEF Shape, Submission, Scope
<1>6. Shape'
  BY <1>2, <1>5 DEF Shape
<1>7. CallsArePending' /\ RejectionsExclude' /\ ScopesArePast'
  BY <1>1, <1>3, <1>4 DEF Shape, CallsArePending, RejectionsExclude, ScopesArePast, Unresolved, Submitted, HasRoot
<1>8. EffectAtMostOnce'
  BY <1>1, <1>2, <1>3, <1>4 DEF EffectAtMostOnce, HasRoot
<1>9. AnswersStayTrue'
  BY <1>1, <1>2, <1>3, <1>4 DEF AnswersStayTrue, HasRoot
<1> QED
  BY Zenon, <1>6, <1>7, <1>8, <1>9

LEMMA FailStep ==
  ASSUME HubInv, NEW op \in Operations, ExecuteFails(op) \/ LoseCall(op)
  PROVE  HubInv'
<1> USE DEF HubInv, ExecuteFails, LoseCall, EndCall, durableVars
<1>1. Shape'
  BY ZenonT(30) DEF Shape
<1>2. CallsArePending'
  BY Zenon DEF Shape, CallsArePending, Unresolved, Submitted, HasRoot
<1>3. RejectionsExclude' /\ ScopesArePast' /\ EffectAtMostOnce' /\ AnswersStayTrue'
  BY Zenon DEF RejectionsExclude, ScopesArePast, EffectAtMostOnce, AnswersStayTrue, Submitted, HasRoot
<1> QED
  BY Zenon, <1>1, <1>2, <1>3

LEMMA RejectStep ==
  ASSUME HubInv, NEW op \in Operations, RejectOn(op)
  PROVE  HubInv'
<1> USE DEF HubInv, RejectOn, EndCall, Learn
<1>1. Submitted(op) /\ ~ HasRoot(op)
  BY Zenon DEF CallsArePending, Unresolved
<1>2. Shape'
  BY DEF Shape
<1>3. \A other \in Operations \ {op} : call'[other] = call[other] /\ told'[other] = told[other]
  BY DEF Shape
<1>4. call'[op] = "idle" /\ told'[op] \subseteq told[op] \cup {"rejected"}
  BY DEF Shape
<1>5. CallsArePending' /\ RejectionsExclude' /\ ScopesArePast'
  BY Zenon, <1>1, <1>3, <1>4 DEF Shape, CallsArePending, RejectionsExclude, ScopesArePast, Unresolved, Submitted, HasRoot
<1>6. EffectAtMostOnce' /\ AnswersStayTrue'
  BY <1>1, <1>3, <1>4 DEF EffectAtMostOnce, AnswersStayTrue, HasRoot
<1> QED
  BY Zenon, <1>2, <1>5, <1>6

LEMMA HubStep == HubInv /\ [Next]_hubVars => HubInv'
<1> SUFFICES ASSUME HubInv, [Next]_hubVars PROVE HubInv'
  BY Zenon
<1>1. CASE BeginHubRuntime \/ \E a \in Actors \cup {None} : AdvanceHubSession(a)
  BY Zenon, <1>1, SessionStep
<1>2. ASSUME NEW op \in Operations, NEW m \in Mutations, Admit(op, m) PROVE HubInv'
  BY Zenon, <1>2, AdmitStep
<1>3. ASSUME NEW op \in Operations, Answer(op) PROVE HubInv'
  BY Zenon, <1>3, AnswerStep
<1>4. ASSUME NEW op \in Operations, Execute(op) PROVE HubInv'
  BY Zenon, <1>4, ExecuteStep
<1>5. ASSUME NEW op \in Operations, ExecuteFails(op) \/ LoseCall(op) PROVE HubInv'
  BY Zenon, <1>5, FailStep
<1>6. ASSUME NEW op \in Operations, RejectOn(op) PROVE HubInv'
  BY Zenon, <1>6, RejectStep
<1>7. CASE UNCHANGED hubVars
  BY Zenon, <1>7 DEF HubInv, Shape, CallsArePending, RejectionsExclude, ScopesArePast, EffectAtMostOnce,
       AnswersStayTrue, Unresolved, Submitted, HasRoot, hubVars, durableVars
<1> QED
  BY Zenon, <1>1, <1>2, <1>3, <1>4, <1>5, <1>6, <1>7 DEF Next, SubmitAgain, ReadSubmission

LEMMA HubInvariant == Spec => []HubInv
<1> QED
  BY HubInit, HubStep, PTL DEF Spec

(***************************************************************************)
(* However often an operation is submitted, answered, dropped or read, its *)
(* effect is applied at most once.                                         *)
(***************************************************************************)
THEOREM AppliedOnce == Spec => []EffectAtMostOnce
<1>1. HubInv => EffectAtMostOnce
  BY Zenon DEF HubInv
<1> QED
  BY <1>1, HubInvariant, PTL

(***************************************************************************)
(* No caller is told a rejection of something that has or will have an     *)
(* effect, nor a record of something that has none.                        *)
(***************************************************************************)
THEOREM AnswersAreFinal == Spec => []AnswersStayTrue
<1>1. HubInv => AnswersStayTrue
  BY Zenon DEF HubInv
<1> QED
  BY <1>1, HubInvariant, PTL

(***************************************************************************)
(* Only the effect transaction writes a root, and its guards look at the   *)
(* same session and the same submissions it commits with.                  *)
(***************************************************************************)
LEMMA RootsAreExecuted ==
  ASSUME HubInv, [Next]_hubVars, NEW op \in Operations, root'[op] # root[op]
  PROVE  EffectGuard(op) /\ UncertainStockGuard(op) /\ call[op] = "granted"
<1>1. PICK other \in Operations : Execute(other)
  BY Zenon DEF Next, BeginHubRuntime, AdvanceHubSession, Admit, SubmitAgain, ReadSubmission, Answer,
       AnswerRecorded, AnswerRejected, AnswerPending, ExecuteFails, RejectOn, LoseCall, hubVars, durableVars
<1>2. root' = [root EXCEPT ![other] = [mutation |-> submission[other].mutation,
                                       actor |-> submission[other].scope.actor]]
  BY Zenon, <1>1 DEF Execute, Applies
<1>3. op = other
  BY Zenon, <1>2 DEF HubInv, Shape
<1> QED
  BY Zenon, <1>1, <1>3 DEF Execute, Applies

(***************************************************************************)
(* Outcomes are final: one effect, and answers that stay true.             *)
(***************************************************************************)
THEOREM OutcomesStand == Spec => []OutcomesAreFinal
BY AppliedOnce, AnswersAreFinal, PTL DEF OutcomesAreFinal

(***************************************************************************)
(* An effect commits only under the session its submission was admitted    *)
(* in, so no replaced session and no earlier process can still write.      *)
(***************************************************************************)
THEOREM EffectsFenced == Spec => EffectsAreFenced
<1>1. HubInv /\ [Next]_hubVars =>
        [\A op \in Operations : root'[op] # root[op] => submission[op].scope = session]_hubVars
  BY Zenon, RootsAreExecuted DEF EffectGuard
<1> QED
  BY <1>1, HubInvariant, PTL DEF Spec, EffectsAreFenced

(***************************************************************************)
(* A submission without an outcome and without a grant stays so: only a    *)
(* call in flight records an effect or a rejection, and an admission needs *)
(* an operation that was never submitted.                                  *)
(***************************************************************************)
LEMMA LostStays ==
  ASSUME HubInv, [Next]_hubVars, NEW lost \in Operations, Lost(lost)
  PROVE  Lost(lost)'
<1> USE DEF Lost, Unresolved, Submitted, HasRoot
<1>1. CASE BeginHubRuntime \/ \E a \in Actors \cup {None} : AdvanceHubSession(a)
  BY Zenon, <1>1 DEF BeginHubRuntime, AdvanceHubSession
<1>2. ASSUME NEW op \in Operations, NEW m \in Mutations, Admit(op, m) PROVE Lost(lost)'
  BY Zenon, <1>2 DEF Admit, HubInv, Shape
<1>3. ASSUME NEW op \in Operations, Answer(op) PROVE Lost(lost)'
  BY Zenon, <1>3 DEF Answer, AnswerRecorded, AnswerRejected, AnswerPending, hubVars, durableVars
<1>4. ASSUME NEW op \in Operations, Execute(op) PROVE Lost(lost)'
  <2>1. op # lost
    BY Zenon, <1>4 DEF Execute
  <2>2. root'[lost] = root[lost] /\ call'[lost] = call[lost]
    BY Zenon, <1>4, <2>1 DEF Execute, Applies, EndCall, HubInv, Shape
  <2> QED
    BY Zenon, <1>4, <2>2 DEF Execute, Applies
<1>5. ASSUME NEW op \in Operations, ExecuteFails(op) \/ LoseCall(op) PROVE Lost(lost)'
  <2>1. op # lost
    BY Zenon, <1>5 DEF ExecuteFails, LoseCall
  <2>2. call'[lost] = call[lost]
    BY Zenon, <1>5, <2>1 DEF ExecuteFails, LoseCall, EndCall, HubInv, Shape
  <2> QED
    BY Zenon, <1>5, <2>2 DEF ExecuteFails, LoseCall, durableVars
<1>6. ASSUME NEW op \in Operations, RejectOn(op) PROVE Lost(lost)'
  <2>1. op # lost
    BY Zenon, <1>6 DEF RejectOn
  <2>2. call'[lost] = call[lost]
    BY Zenon, <1>6, <2>1 DEF RejectOn, EndCall, HubInv, Shape
  <2> QED
    BY Zenon, <1>6, <2>1, <2>2 DEF RejectOn
<1>7. CASE UNCHANGED hubVars
  BY Zenon, <1>7 DEF hubVars, durableVars
<1> QED
  BY Zenon, <1>1, <1>2, <1>3, <1>4, <1>5, <1>6, <1>7 DEF Next, SubmitAgain, ReadSubmission

(***************************************************************************)
(* Admission looks for submissions without an outcome, and so do the       *)
(* triggers of the effect transaction.                                     *)
(***************************************************************************)
LEMMA AdmissionsAreCertain ==
  ASSUME HubInv, [Next]_hubVars, NEW lost \in Operations, Lost(lost),
         NEW op \in Operations, submission'[op] # submission[op]
  PROVE  ~ PlannedKind(KindOf[submission'[op].mutation])
<1>1. PICK other \in Operations, m \in Mutations : Admit(other, m)
  BY Zenon DEF Next, BeginHubRuntime, AdvanceHubSession, Execute, Applies, SubmitAgain, ReadSubmission, Answer,
       AnswerRecorded, AnswerRejected, AnswerPending, ExecuteFails, RejectOn, LoseCall, hubVars, durableVars
<1>2. submission' = [submission EXCEPT ![other] = [mutation |-> m, scope |-> session]]
  BY Zenon, <1>1 DEF Admit
<1>3. op = other /\ submission'[op].mutation = m
  BY <1>2 DEF HubInv, Shape
<1>4. lost # other /\ Unresolved(lost)
  BY Zenon, <1>1 DEF Admit, Lost, Unresolved
<1>5. Uncertainty(other)
  BY Zenon, <1>4 DEF Uncertainty
<1> QED
  BY Zenon, <1>1, <1>3, <1>5 DEF Admit

LEMMA EffectsAreCertain ==
  ASSUME HubInv, [Next]_hubVars, NEW lost \in Operations, Lost(lost),
         NEW op \in Operations, root'[op] # root[op]
  PROVE  Kind(op) # "planned"
<1>1. UncertainStockGuard(op) /\ call[op] = "granted"
  BY Zenon, RootsAreExecuted
<1> QED
  BY Zenon, <1>1 DEF UncertainStockGuard, Lost

(***************************************************************************)
(* One submission that lost its grant, in whatever way, ends the planned   *)
(* work of the hub: it is never resolved, and no planned mutation is       *)
(* admitted or takes effect after it.                                      *)
(***************************************************************************)
THEOREM LostEndsPlannedWork == Spec => LostStopsPlannedWork
<1>1. HubInv /\ [Next]_hubVars =>
        [\A lost \in Operations : Lost(lost) =>
           /\ Lost(lost)'
           /\ \A op \in Operations :
                /\ submission'[op] # submission[op] => ~ PlannedKind(KindOf[submission'[op].mutation])
                /\ root'[op] # root[op] => Kind(op) # "planned"]_hubVars
  BY Zenon, LostStays, AdmissionsAreCertain, EffectsAreCertain
<1> QED
  BY <1>1, HubInvariant, PTL DEF Spec, LostStopsPlannedWork
-----------------------------------------------------------------------------
(***************************************************************************)
(* The refinement.  An outcome depends only on the operation's own rows; a *)
(* chance is a grant whose scope is still the session.                     *)
(***************************************************************************)
Outcomes == [op \in Operations |-> Outcome(op)]

LEMMA SameRowsSameOutcome ==
  ASSUME NEW op \in Operations,
         submission'[op] = submission[op], root'[op] = root[op],
         op \in rejected' <=> op \in rejected
  PROVE  Outcome(op)' = Outcome(op)
  BY Zenon DEF Outcome, Unresolved, Submitted, HasRoot

LEMMA PromiseSession ==
  ASSUME HubInv, BeginHubRuntime \/ \E a \in Actors \cup {None} : AdvanceHubSession(a)
  PROVE  Promise!Next
<1>1. UNCHANGED <<submission, rejected, root>>
  BY Zenon DEF BeginHubRuntime, AdvanceHubSession
<1>2. Outcomes' = Outcomes
  BY Zenon, <1>1, SameRowsSameOutcome DEF Outcomes
<1>3. Live' = {}
  <2>1. CASE BeginHubRuntime
    BY Zenon, <2>1 DEF BeginHubRuntime, Live
  <2>2. ASSUME NEW a \in Actors \cup {None}, AdvanceHubSession(a), NEW op \in Operations,
               call[op] = "granted", submission[op].scope = session'
        PROVE  FALSE
    <3>1. session'.runtime = session.runtime /\ session'.generation = session.generation + 1
      BY Zenon, <2>2 DEF AdvanceHubSession, HubInv, Shape
    <3>2. Submitted(op)
      BY Zenon, <2>2 DEF HubInv, CallsArePending, Unresolved
    <3> QED
      BY <2>2, <3>1, <3>2 DEF HubInv, Shape, ScopesArePast
  <2> QED
    BY Zenon, <2>1, <2>2, <1>1 DEF Live, AdvanceHubSession
<1> QED
  BY Zenon, <1>2, <1>3 DEF Promise!Next, Promise!EndChances, Outcomes

LEMMA PromiseAdmit ==
  ASSUME HubInv, NEW op \in Operations, NEW m \in Mutations, Admit(op, m)
  PROVE  Promise!Next
<1>1. op \notin rejected /\ ~ Submitted(op) /\ ~ HasRoot(op) /\ call[op] = "idle"
  BY Zenon DEF HubInv, Shape, CallsArePending, RejectionsExclude, Unresolved, Admit
<1>2. submission'[op] # NoRecord /\ submission'[op].scope = session
  <2>1. submission'[op] = [mutation |-> m, scope |-> session]
    BY Zenon DEF HubInv, Shape, Admit
  <2>2. m # None
    BY Zenon, HubAssumption
  <2> QED
    BY ONLY <2>1, <2>2 DEF NoRecord
<1>3. \A other \in Operations \ {op} : submission'[other] = submission[other]
  BY Zenon DEF HubInv, Shape, Admit
<1>4. Outcome(op) = "absent" /\ Outcome(op)' = "pending"
  BY Zenon, <1>1, <1>2 DEF Outcome, Unresolved, Submitted, HasRoot, Admit
<1>5. Outcomes' = [Outcomes EXCEPT ![op] = "pending"]
  BY Zenon, <1>3, <1>4, SameRowsSameOutcome DEF Outcomes, Admit
<1>6. Live' \in {Live, Live \cup {op}}
  BY <1>1, <1>2, <1>3 DEF HubInv, Shape, Live, Admit
<1> QED
  BY Zenon, <1>4, <1>5, <1>6 DEF Promise!Next, Promise!Admit, Outcomes

LEMMA PromiseExecute ==
  ASSUME HubInv, NEW op \in Operations, Execute(op)
  PROVE  Promise!Next
<1>1. op \in Live
  BY Zenon DEF Live, Execute, Applies, EffectGuard
<1>2. root'[op] # NoRecord /\ \A other \in Operations \ {op} : root'[other] = root[other]
  BY ZenonT(30), HubAssumption DEF HubInv, Shape, Submission, NoRecord, Execute, Applies, EffectGuard, Submitted
<1>3. Outcome(op)' = "recorded"
  BY Zenon, <1>2 DEF Outcome, Unresolved, Submitted, HasRoot
<1>4. Outcomes' = [Outcomes EXCEPT ![op] = "recorded"]
  BY Zenon, <1>2, <1>3, SameRowsSameOutcome DEF Outcomes, Execute, Applies
<1>5. Live' = Live \ {op}
  BY Zenon DEF HubInv, Shape, Live, Execute, Applies, EndCall
<1> QED
  BY Zenon, <1>1, <1>4, <1>5 DEF Promise!Next, Promise!Record, Outcomes

LEMMA PromiseReject ==
  ASSUME HubInv, NEW op \in Operations, RejectOn(op)
  PROVE  Promise!Next
<1>1. Unresolved(op) /\ op \notin Live
  BY Zenon DEF HubInv, CallsArePending, Live, RejectOn
<1>2. Outcome(op) = "pending" /\ Outcome(op)' = "rejected"
  BY Zenon, <1>1 DEF Outcome, Unresolved, HasRoot, RejectOn
<1>3. Outcomes' = [Outcomes EXCEPT ![op] = "rejected"]
  BY Zenon, <1>2, SameRowsSameOutcome DEF Outcomes, RejectOn
<1>4. Live' = Live
  BY Zenon, <1>1 DEF HubInv, Shape, Live, RejectOn, EndCall
<1> QED
  BY Zenon, <1>1, <1>2, <1>3, <1>4 DEF Promise!Next, Promise!Reject, Outcomes

LEMMA PromiseKeeps ==
  ASSUME HubInv, UNCHANGED <<session, submission, rejected, root>>,
         \A op \in Operations : call'[op] = "granted" => call[op] = "granted"
  PROVE  Promise!Next
<1>1. Outcomes' = Outcomes
  BY Zenon, SameRowsSameOutcome DEF Outcomes
<1>2. Live' \in SUBSET Live
  BY Zenon DEF Live
<1> QED
  BY Zenon, <1>1, <1>2 DEF Promise!Next, Promise!EndChances, Outcomes

LEMMA PromiseStep == HubInv /\ [Next]_hubVars => Promise!Next
<1> SUFFICES ASSUME HubInv, [Next]_hubVars PROVE Promise!Next
  BY Zenon
<1>1. CASE BeginHubRuntime \/ \E a \in Actors \cup {None} : AdvanceHubSession(a)
  BY Zenon, <1>1, PromiseSession
<1>2. ASSUME NEW op \in Operations, NEW m \in Mutations, Admit(op, m) PROVE Promise!Next
  BY Zenon, <1>2, PromiseAdmit
<1>3. ASSUME NEW op \in Operations, Answer(op) PROVE Promise!Next
  BY Zenon, <1>3, PromiseKeeps DEF Answer, AnswerRecorded, AnswerRejected, AnswerPending, durableVars, hubVars
<1>4. ASSUME NEW op \in Operations, Execute(op) PROVE Promise!Next
  BY Zenon, <1>4, PromiseExecute
<1>5. ASSUME NEW op \in Operations, ExecuteFails(op) \/ LoseCall(op) PROVE Promise!Next
  <2>1. \A other \in Operations : call'[other] = "granted" => call[other] = "granted"
    BY Zenon, <1>5 DEF HubInv, Shape, ExecuteFails, LoseCall, EndCall
  <2> QED
    BY Zenon, <1>5, <2>1, PromiseKeeps DEF ExecuteFails, LoseCall, durableVars
<1>6. ASSUME NEW op \in Operations, RejectOn(op) PROVE Promise!Next
  BY Zenon, <1>6, PromiseReject
<1>7. CASE UNCHANGED hubVars
  BY Zenon, <1>7, PromiseKeeps DEF hubVars, durableVars
<1> QED
  BY Zenon, <1>1, <1>2, <1>3, <1>4, <1>5, <1>6, <1>7 DEF Next, SubmitAgain, ReadSubmission

LEMMA PromiseInit == Init => Promise!Init
<1> SUFFICES ASSUME Init PROVE Promise!Init
  BY Zenon
<1>1. \A op \in Operations : Outcome(op) \in {"absent", "recorded"}
  BY Zenon DEF Init, Outcome, Unresolved, Submitted, HasRoot
<1>2. Live = {}
  BY Zenon DEF Init, Live
<1> QED
  BY Zenon, <1>1, <1>2 DEF Promise!Init

(***************************************************************************)
(* The two transactions, the session row and the triggers implement the    *)
(* promise: one chance to take effect, ended by the answer, the session or *)
(* the process, and outcomes that are final.                               *)
(***************************************************************************)
THEOREM SubmissionKeepsPromise == Spec => KeepsPromise
<1>1. HubInv /\ [Next]_hubVars => [Promise!Next]_(Promise!outcomeVars)
  BY Zenon, PromiseStep
<1> QED
  BY <1>1, PromiseInit, HubInvariant, PTL DEF Spec, KeepsPromise, Promise!Spec

-----------------------------------------------------------------------------
(***************************************************************************)
(* Capacities.  The admitted operations of each class are finitely many    *)
(* and within their bound; an effect completes one that was admitted.      *)
(***************************************************************************)
OrdinaryKinds == {"initialize", "planned", "ordinary"}

RoomInv ==
  /\ IsFiniteSet(AdmittedOf(OrdinaryKinds)) /\ Cardinality(AdmittedOf(OrdinaryKinds)) <= OrdinaryCapacity
  /\ \A kind \in {"report", "observation"} :
       /\ IsFiniteSet(AdmittedOf({kind})) /\ Cardinality(AdmittedOf({kind})) <= ObservedCapacity + 1
       /\ Cardinality(Completed(kind)) <= ObservedCapacity

LEMMA RoomInit == Init => RoomInv
<1> SUFFICES ASSUME Init PROVE RoomInv
  BY Zenon
<1>1. ASSUME NEW kinds PROVE AdmittedOf(kinds) = {}
  BY Zenon DEF Init, AdmittedOf, Submitted
<1>2. \A kind : Completed(kind) = {}
  BY Zenon, <1>1 DEF Completed
<1>3. IsFiniteSet({}) /\ Cardinality({}) = 0
  BY Zenon, FS_EmptySet
<1>4. 0 <= OrdinaryCapacity /\ 0 <= ObservedCapacity + 1 /\ 0 <= ObservedCapacity
  BY HubAssumption
<1>5. AdmittedOf(OrdinaryKinds) = {} /\ \A kind : AdmittedOf({kind}) = {}
  BY Zenon, <1>1
<1> QED
  BY Zenon, <1>2, <1>3, <1>4, <1>5 DEF RoomInv

\* An admission adds its operation to the class of its kind alone.
LEMMA AdmittedGrows ==
  ASSUME Shape, NEW op \in Operations, NEW m \in Mutations, Admit(op, m), NEW kinds
  PROVE  /\ AdmittedOf(kinds)' = IF KindOf[m] \in kinds THEN AdmittedOf(kinds) \cup {op} ELSE AdmittedOf(kinds)
         /\ op \notin AdmittedOf(kinds)
<1>1. /\ ~ Submitted(op) /\ submission' = [submission EXCEPT ![op] = [mutation |-> m, scope |-> session]]
  BY Zenon DEF Admit
<1>2. /\ submission'[op] = [mutation |-> m, scope |-> session] /\ submission'[op] # NoRecord
      /\ submission'[op].mutation = m
      /\ \A other \in Operations \ {op} : submission'[other] = submission[other]
  BY ZenonT(30), <1>1 DEF Shape, NoRecord
<1>3. AdmittedOf(kinds)' = {o \in Operations : submission'[o] # NoRecord /\ KindOf[submission'[o].mutation] \in kinds}
  BY Zenon DEF AdmittedOf, Submitted, Kind
<1>4. AdmittedOf(kinds) = {o \in Operations : submission[o] # NoRecord /\ KindOf[submission[o].mutation] \in kinds}
  BY Zenon DEF AdmittedOf, Submitted, Kind
<1>5. op \notin AdmittedOf(kinds)
  BY Zenon, <1>1, <1>4 DEF Submitted
<1> QED
  BY ZenonT(30), <1>2, <1>3, <1>4, <1>5

LEMMA CompletedSame ==
  ASSUME Shape, NEW op \in Operations, NEW m \in Mutations, Admit(op, m), NEW kind
  PROVE  Completed(kind)' = Completed(kind)
<1>1. /\ AdmittedOf({kind})' \in {AdmittedOf({kind}), AdmittedOf({kind}) \cup {op}}
      /\ ~ HasRoot(op) /\ root' = root
  BY Zenon, AdmittedGrows DEF Admit
<1>2. Completed(kind)' = {o \in AdmittedOf({kind})' : root'[o] # NoRecord}
  BY Zenon DEF Completed, HasRoot
<1>3. Completed(kind) = {o \in AdmittedOf({kind}) : root[o] # NoRecord}
  BY Zenon DEF Completed, HasRoot
<1> QED
  BY Zenon, <1>1, <1>2, <1>3 DEF HasRoot

LEMMA AdmitRoom ==
  ASSUME Shape, RoomInv, NEW op \in Operations, NEW m \in Mutations, Admit(op, m)
  PROVE  RoomInv'
<1>1. KindOf[m] \in Kinds /\ AdmissionRoom(m)
  BY Zenon, HubAssumption DEF Admit
<1>2. ASSUME NEW kinds, IsFiniteSet(AdmittedOf(kinds))
      PROVE  /\ IsFiniteSet(AdmittedOf(kinds)') /\ Cardinality(AdmittedOf(kinds)) \in Nat
             /\ Cardinality(AdmittedOf(kinds)') = IF KindOf[m] \in kinds THEN Cardinality(AdmittedOf(kinds)) + 1
                                                ELSE Cardinality(AdmittedOf(kinds))
  <2>1. /\ AdmittedOf(kinds)' = IF KindOf[m] \in kinds THEN AdmittedOf(kinds) \cup {op} ELSE AdmittedOf(kinds)
        /\ op \notin AdmittedOf(kinds)
    BY Zenon, AdmittedGrows
  <2>2. Cardinality(AdmittedOf(kinds)) \in Nat
    BY Zenon, <1>2, FS_CardinalityType
  <2>3. /\ IsFiniteSet(AdmittedOf(kinds) \cup {op})
        /\ Cardinality(AdmittedOf(kinds) \cup {op}) = Cardinality(AdmittedOf(kinds)) + 1
    BY Zenon, <1>2, <2>1, FS_AddElement
  <2> QED
    BY Zenon, <1>2, <2>1, <2>2, <2>3
<1>3. IsFiniteSet(AdmittedOf(OrdinaryKinds)') /\ Cardinality(AdmittedOf(OrdinaryKinds)') <= OrdinaryCapacity
  <2>1. IsFiniteSet(AdmittedOf(OrdinaryKinds)) /\ Cardinality(AdmittedOf(OrdinaryKinds)) <= OrdinaryCapacity
    BY Zenon DEF RoomInv
  <2>2. KindOf[m] \in OrdinaryKinds => Cardinality(AdmittedOf(OrdinaryKinds)) < OrdinaryCapacity
    BY Zenon, <1>1 DEF AdmissionRoom, OrdinaryKinds
  <2> QED
    BY <1>2, <2>1, <2>2, HubAssumption
<1>4. ASSUME NEW kind \in {"report", "observation"}
      PROVE  IsFiniteSet(AdmittedOf({kind})') /\ Cardinality(AdmittedOf({kind})') <= ObservedCapacity + 1
             /\ Cardinality(Completed(kind)') <= ObservedCapacity
  <2>1. /\ IsFiniteSet(AdmittedOf({kind})) /\ Cardinality(AdmittedOf({kind})) <= ObservedCapacity + 1
        /\ Cardinality(Completed(kind)) <= ObservedCapacity
    BY Zenon DEF RoomInv
  <2>2. KindOf[m] \in {kind} => Cardinality(AdmittedOf({kind})) <= ObservedCapacity
    BY Zenon, <1>1 DEF AdmissionRoom
  <2>3. Completed(kind)' = Completed(kind)
    BY Zenon, CompletedSame
  <2> QED
    BY <1>2, <2>1, <2>2, <2>3, HubAssumption
<1> QED
  BY Zenon, <1>3, <1>4 DEF RoomInv

\* A step that leaves the submissions leaves the admitted operations.
LEMMA AdmittedSame ==
  ASSUME submission' = submission, NEW kinds
  PROVE  AdmittedOf(kinds)' = AdmittedOf(kinds)
  BY Zenon DEF AdmittedOf, Submitted, Kind

LEMMA QuietRoom ==
  ASSUME RoomInv, submission' = submission, root' = root
  PROVE  RoomInv'
<1>1. \A kinds : AdmittedOf(kinds)' = AdmittedOf(kinds)
  BY Zenon, AdmittedSame
<1>2. ASSUME NEW kind PROVE Completed(kind)' = Completed(kind)
  BY Zenon, <1>1 DEF Completed, HasRoot
<1>3. /\ AdmittedOf(OrdinaryKinds)' = AdmittedOf(OrdinaryKinds)
      /\ \A kind : AdmittedOf({kind})' = AdmittedOf({kind}) /\ Completed(kind)' = Completed(kind)
  BY Zenon, <1>1, <1>2
<1> QED
  BY Zenon, <1>3 DEF RoomInv

\* An effect completes its own operation, when its class has room.
LEMMA ExecuteRoom ==
  ASSUME Shape, RoomInv, NEW op \in Operations, Execute(op)
  PROVE  RoomInv'
<1>1. /\ submission' = submission /\ Submitted(op) /\ ~ HasRoot(op)
      /\ \A other \in Operations \ {op} : root'[other] = root[other]
  BY Zenon DEF Execute, Applies, EffectGuard, Shape
<1>2. ASSUME NEW kind \in {"report", "observation"}
      PROVE  IsFiniteSet(AdmittedOf({kind})') /\ Cardinality(AdmittedOf({kind})') <= ObservedCapacity + 1
             /\ Cardinality(Completed(kind)') <= ObservedCapacity
  <2>1. /\ IsFiniteSet(AdmittedOf({kind})) /\ Cardinality(AdmittedOf({kind})) <= ObservedCapacity + 1
        /\ Cardinality(Completed(kind)) <= ObservedCapacity /\ AdmittedOf({kind})' = AdmittedOf({kind})
    BY Zenon, <1>1, AdmittedSame DEF RoomInv
  <2>2. /\ Completed(kind)' = {o \in AdmittedOf({kind}) : root'[o] # NoRecord}
        /\ Completed(kind) = {o \in AdmittedOf({kind}) : root[o] # NoRecord}
        /\ AdmittedOf({kind}) \subseteq Operations
        /\ op \in AdmittedOf({kind}) => Kind(op) = kind
    BY Zenon, <2>1 DEF Completed, HasRoot, AdmittedOf
  <2>3. IsFiniteSet(Completed(kind)) /\ Cardinality(Completed(kind)) \in Nat
    BY Zenon, <2>1, <2>2, FS_Subset, FS_CardinalityType
  <2>4. CASE Kind(op) # kind
    BY Zenon, <1>1, <2>1, <2>2, <2>4
  <2>5. CASE Kind(op) = kind
    <3>1. Cardinality(Completed(kind)) < ObservedCapacity
      BY Zenon, <2>5 DEF Execute, Applies
    <3>2. Completed(kind)' \subseteq Completed(kind) \cup {op}
      BY Zenon, <1>1, <2>2
    <3>3. /\ IsFiniteSet(Completed(kind) \cup {op})
          /\ Cardinality(Completed(kind) \cup {op}) <= Cardinality(Completed(kind)) + 1
      BY <2>3, FS_AddElement
    <3>4. /\ Cardinality(Completed(kind)') <= Cardinality(Completed(kind) \cup {op})
          /\ Cardinality(Completed(kind)') \in Nat /\ Cardinality(Completed(kind) \cup {op}) \in Nat
      BY Zenon, <3>2, <3>3, FS_Subset, FS_CardinalityType
    <3> QED
      BY <2>1, <2>3, <3>1, <3>3, <3>4, HubAssumption
  <2> QED
    BY Zenon, <2>4, <2>5
<1>3. IsFiniteSet(AdmittedOf(OrdinaryKinds)') /\ Cardinality(AdmittedOf(OrdinaryKinds)') <= OrdinaryCapacity
  BY Zenon, <1>1, AdmittedSame DEF RoomInv
<1> QED
  BY Zenon, <1>2, <1>3 DEF RoomInv

LEMMA RoomStep == Shape /\ RoomInv /\ [Next]_hubVars => RoomInv'
<1> SUFFICES ASSUME Shape, RoomInv, [Next]_hubVars PROVE RoomInv'
  BY Zenon
<1>1. CASE BeginHubRuntime \/ \E a \in Actors \cup {None} : AdvanceHubSession(a)
  BY Zenon, <1>1, QuietRoom DEF BeginHubRuntime, AdvanceHubSession
<1>2. ASSUME NEW op \in Operations, NEW m \in Mutations, Admit(op, m) PROVE RoomInv'
  BY Zenon, <1>2, AdmitRoom
<1>3. ASSUME NEW op \in Operations, Answer(op) PROVE RoomInv'
  BY Zenon, <1>3, QuietRoom DEF Answer, AnswerRecorded, AnswerRejected, AnswerPending, durableVars, hubVars
<1>4. ASSUME NEW op \in Operations, Execute(op) PROVE RoomInv'
  BY Zenon, <1>4, ExecuteRoom
<1>5. ASSUME NEW op \in Operations, ExecuteFails(op) \/ LoseCall(op) \/ RejectOn(op) PROVE RoomInv'
  BY Zenon, <1>5, QuietRoom DEF ExecuteFails, LoseCall, RejectOn, durableVars
<1>6. CASE UNCHANGED hubVars
  BY Zenon, <1>6, QuietRoom DEF hubVars, durableVars
<1> QED
  BY Zenon, <1>1, <1>2, <1>3, <1>4, <1>5, <1>6 DEF Next, SubmitAgain, ReadSubmission

(***************************************************************************)
(* Whatever the number of operations, the admissions of prepare_on and the *)
(* effects of execute never exceed the capacities of their classes: the    *)
(* ordinary ones theirs, reports and observations the one extra pending    *)
(* slot, of which no effect is ever completed.                             *)
(***************************************************************************)
THEOREM CapacitiesHold == Spec => []TypeOK
<1>1. Shape /\ RoomInv => TypeOK
  BY Zenon DEF TypeOK, RoomInv, OrdinaryKinds
<1>2. HubInv => Shape
  BY Zenon DEF HubInv
<1> QED
  BY <1>1, <1>2, RoomInit, RoomStep, HubInvariant, PTL DEF Spec
=============================================================================
