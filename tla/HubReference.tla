---------------------------- MODULE HubReference ----------------------------
(***************************************************************************)
(* The hub's reference records (products, packs, parties, locations) and   *)
(* their one table of immutable versions, hub_reference_versions.  A       *)
(* change appends a row; its place in the table is the catalog revision,   *)
(* its intent and its operation identity are stored with it.  The current  *)
(* catalog, the catalog as of an earlier revision and the receipt of an    *)
(* operation are all read back from those rows.  Only the hub's owner gets *)
(* past authorize_on, so there is one actor.                               *)
(***************************************************************************)
EXTENDS Integers, Sequences, FiniteSets, FiniteSetsExt

CONSTANTS RecordIds, Requests, Labels, ReferenceCapacity, HistoryCapacity, PageRows, Absent

ASSUME ReferenceAssumption == ReferenceCapacity \in Nat /\ HistoryCapacity \in Nat /\ PageRows \in Nat

VARIABLES versions,   \* hub_reference_versions of the hub, in the order of catalog_revision
          receipts,   \* the receipt each request was answered with when it was applied
          past,       \* the catalog as it was at each revision
          reader      \* a client that pages through the history of one record

referenceVars == <<versions, receipts, past, reader>>

Value(kind, label, product, purpose) == [kind |-> kind, label |-> label, product |-> product, purpose |-> purpose]

ReferenceValues ==
  {Value(k, l, Absent, Absent) : k \in {"product", "party"}, l \in Labels}
    \cup {Value("pack", l, p, Absent) : l \in Labels, p \in RecordIds}
    \cup {Value("location", l, Absent, p) : l \in Labels, p \in {"receiving", "storage"}}

CreateOf(id, value, expected) == [kind |-> "create", id |-> id, expected |-> expected, record |-> 0, value |-> value]
ReviseOf(id, value, expected, record) ==
  [kind |-> "revise", id |-> id, expected |-> expected, record |-> record, value |-> value]

Corrupt == [ok |-> FALSE, error |-> "corrupt"]
Found(v) == [ok |-> TRUE, value |-> v]
-----------------------------------------------------------------------------
(***************************************************************************)
(* ReferenceCatalog: the current records.                                  *)
(***************************************************************************)
Catalog(revision, records) == [revision |-> revision, records |-> records]

ValueValid(catalog, value) ==
  value.kind = "pack" => /\ value.product \in DOMAIN catalog.records
                         /\ catalog.records[value.product].value.kind = "product"

\* ReferenceCatalog::restore.
Restore(revision, records) ==
  LET byId == [id \in {r.id : r \in records} |-> CHOOSE r \in records : r.id = id]
      catalog == Catalog(revision, byId)
  IN  IF /\ Cardinality(records) <= ReferenceCapacity
         /\ \A r \in records : r.revision <= revision
         /\ Cardinality(DOMAIN byId) = Cardinality(records)
         /\ \A r \in records : ValueValid(catalog, r.value)
        THEN Found(catalog) ELSE Corrupt

CreateAllowed(catalog, c) ==
  /\ c.expected = catalog.revision
  /\ c.id \notin DOMAIN catalog.records
  /\ Cardinality(DOMAIN catalog.records) < ReferenceCapacity
  /\ ValueValid(catalog, c.value)

ReviseAllowed(catalog, c) ==
  /\ c.expected = catalog.revision
  /\ c.id \in DOMAIN catalog.records
  /\ LET old == catalog.records[c.id] IN
     /\ old.revision = c.record
     /\ old.value.kind = c.value.kind
     /\ old.value # c.value
     /\ old.value.kind # "pack"
     /\ old.value.purpose = c.value.purpose
  /\ ValueValid(catalog, c.value)

Allowed(catalog, c) == IF c.kind = "create" THEN CreateAllowed(catalog, c) ELSE ReviseAllowed(catalog, c)

\* ReferenceCommand::apply: what the change is, and the catalog after it.
Change(catalog, c) ==
  [catalog |-> catalog.revision + 1,
   previous |-> IF c.kind = "create" THEN Absent ELSE catalog.records[c.id],
   current |-> [id |-> c.id, revision |-> IF c.kind = "create" THEN 1 ELSE c.record + 1, value |-> c.value]]

Put(f, x, y) == [z \in DOMAIN f \cup {x} |-> IF z = x THEN y ELSE f[z]]

After(catalog, change) == Catalog(change.catalog, Put(catalog.records, change.current.id, change.current))
-----------------------------------------------------------------------------
(***************************************************************************)
(* Reading the versions back.                                              *)
(***************************************************************************)
Rows == DOMAIN versions
Record(i) == [id |-> versions[i].id, revision |-> versions[i].revision, value |-> versions[i].value]
RowsThrough(cut) == {i \in Rows : i + 1 <= cut}

Gapless(S) ==
  \A i \in S : LET own == {j \in S : versions[j].id = versions[i].id}
               IN  Cardinality(own) = Max({versions[j].revision : j \in own})

Newest(S) ==
  {Record(i) : i \in {j \in S : ~\E n \in S : /\ versions[n].id = versions[j].id
                                              /\ versions[n].revision > versions[j].revision}}

LoadCatalog ==
  IF Len(versions) <= HistoryCapacity /\ Gapless(Rows) THEN Restore(Len(versions) + 1, Newest(Rows)) ELSE Corrupt

\* Mutant of LoadCatalogThrough: a version is left out when there is a newer one, cut or no cut.
LoadCatalogLatest(cut) ==
  LET S == RowsThrough(cut) IN
  IF Cardinality(S) <= HistoryCapacity /\ Cardinality(S) + 1 = cut /\ Gapless(S)
    THEN Restore(cut, {r \in Newest(Rows) : \E i \in S : r = Record(i)}) ELSE Corrupt

LoadCatalogThrough(cut) ==
  LET S == RowsThrough(cut) IN
  IF Cardinality(S) <= HistoryCapacity /\ Cardinality(S) + 1 = cut /\ Gapless(S)
    THEN Restore(cut, Newest(S)) ELSE Corrupt

RecordAt(id, revision) ==
  LET S == {i \in Rows : versions[i].id = id /\ versions[i].revision = revision} IN
  IF S = {} THEN Corrupt ELSE Found(Record(CHOOSE i \in S : TRUE))

RecordAtCatalog(id, cut) ==
  LET S == {versions[i].revision : i \in {j \in RowsThrough(cut) : versions[j].id = id}} IN
  IF S = {} THEN Corrupt ELSE RecordAt(id, Max(S))

PreviousOf(i) ==
  IF versions[i].revision = 1 THEN Found(Absent) ELSE RecordAt(versions[i].id, versions[i].revision - 1)

\* receipt_on.
ReceiptOf(i) ==
  LET previous == PreviousOf(i) IN
  IF versions[i].revision < i + 1 /\ previous.ok
    THEN Found([request |-> versions[i].request,
                change |-> [catalog |-> i + 1, previous |-> previous.value, current |-> Record(i)]])
    ELSE Corrupt

RowOf(q) == CHOOSE i \in Rows : versions[i].request = q
Applied(q) == \E i \in Rows : versions[i].request = q

\* hub_reference_history: one page of a record's versions, oldest first: the
\* k-th row is the one with k - 1 older ones.
HistoryPage(id, after, limit) ==
  LET S == {i \in Rows : versions[i].id = id /\ versions[i].revision > after}
      Older(i) == {j \in S : versions[j].revision < versions[i].revision}
  IN  [k \in 1 .. Min({limit, Cardinality(S)}) |-> CHOOSE i \in S : Cardinality(Older(i)) = k - 1]
-----------------------------------------------------------------------------
(***************************************************************************)
(* The operations.                                                         *)
(***************************************************************************)
ReferenceInit ==
  /\ versions = <<>>
  /\ receipts = <<>>
  /\ past = <<Catalog(1, <<>>)>>
  /\ reader = Absent

HistoryHasRoom(catalog) == catalog.revision <= HistoryCapacity

(***************************************************************************)
(* apply_on, for a request that has not been applied.  A request that has  *)
(* been is answered with ReceiptOf its row when the intent is the same and *)
(* refused when it is not, and nothing changes.                            *)
(***************************************************************************)
ApplyReference(q, c) ==
  LET loaded == LoadCatalog
      change == Change(loaded.value, c)
  IN  /\ ~Applied(q)
      /\ loaded.ok /\ HistoryHasRoom(loaded.value) /\ Allowed(loaded.value, c)
      /\ versions' = Append(versions, [id |-> c.id, revision |-> change.current.revision, value |-> c.value,
                                       request |-> q, intent |-> c])
      /\ receipts' = Put(receipts, q, [request |-> q, change |-> change])
      /\ past' = Append(past, After(loaded.value, change))
      /\ UNCHANGED reader

OpenHistory(id) ==
  /\ reader = Absent
  /\ reader' = [id |-> id, after |-> 0, got |-> <<>>]
  /\ UNCHANGED <<versions, receipts, past>>

ReadHistory(limit) ==
  /\ reader # Absent
  /\ LET page == HistoryPage(reader.id, reader.after, limit) IN
     /\ page # <<>>
     /\ reader' = [reader EXCEPT !.after = versions[page[Len(page)]].revision,
                                 !.got = @ \o [k \in DOMAIN page |-> ReceiptOf(page[k])]]
  /\ UNCHANGED <<versions, receipts, past>>

Commands ==
  {CreateOf(id, v, Len(versions) + 1) : id \in RecordIds, v \in ReferenceValues}
    \cup {ReviseOf(id, v, Len(versions) + 1, r) : id \in RecordIds, v \in ReferenceValues, r \in 1 .. HistoryCapacity}

\* Requests carry no meaning: they are numbered as they are first applied.
ReferenceNext ==
  \/ \E q \in Requests, c \in Commands : q = Len(versions) + 1 /\ ApplyReference(q, c)
  \/ \E id \in RecordIds : OpenHistory(id)
  \/ \E limit \in 1 .. PageRows : ReadHistory(limit)

ReferenceSpec == ReferenceInit /\ [][ReferenceNext]_referenceVars
-----------------------------------------------------------------------------
(***************************************************************************)
(* The current catalog can be read at every state, up to and at the limit  *)
(* of the history, and is the one the applied commands made                *)
(* (load_catalog_on, ReferenceCatalog::restore).                           *)
(***************************************************************************)
CatalogReads == LoadCatalog = Found(past[Len(past)])

(***************************************************************************)
(* The catalog through a captured revision, and a record as of that        *)
(* revision, are what they were then, whatever was revised since           *)
(* (load_catalog_through_on, record_at_catalog_on).                        *)
(***************************************************************************)
CatalogsStand ==
  \A cut \in DOMAIN past :
    /\ LoadCatalogThrough(cut) = Found(past[cut])
    /\ \A id \in DOMAIN past[cut].records : RecordAtCatalog(id, cut) = Found(past[cut].records[id])

(***************************************************************************)
(* A request sent again is answered with the receipt it was first answered *)
(* with, its previous version included (operation_on, receipt_on).         *)
(***************************************************************************)
ReceiptsStand == \A q \in DOMAIN receipts : Applied(q) /\ ReceiptOf(RowOf(q)) = Found(receipts[q])

(***************************************************************************)
(* A client that pages through a record's history while it is revised      *)
(* misses no version and sees none twice (hub_reference_history).          *)
(***************************************************************************)
HistoryIsWhole ==
  reader # Absent =>
    /\ Len(reader.got) = reader.after
    /\ \A k \in DOMAIN reader.got :
         /\ reader.got[k].ok
         /\ reader.got[k].value.change.current.id = reader.id
         /\ reader.got[k].value.change.current.revision = k
         /\ reader.got[k].value = receipts[reader.got[k].value.request]

(***************************************************************************)
(* Nothing an answer showed is ever different later: the present and every *)
(* past catalog, every receipt and every page of a history are read back   *)
(* as they were, however the records were revised meanwhile.               *)
(***************************************************************************)
ReferenceStands == CatalogReads /\ CatalogsStand /\ ReceiptsStand /\ HistoryIsWhole
=============================================================================
