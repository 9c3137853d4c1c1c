--------------------------- MODULE HubStockProofs ---------------------------
(***************************************************************************)
(* What holds of the hub's stock tables whatever is recorded: the log and  *)
(* the groups fit together in every state, every command up to a count     *)
(* appends one operation that stands on earlier ones, the drafts and       *)
(* versions of a paper only grow, and a descent never changes. The proofs  *)
(* about the ledger rest on these lemmas.                                  *)
(***************************************************************************)
EXTENDS HubCounts, FiniteSetTheorems, WellFoundedInduction, TLAPS


(***************************************************************************)
(* The log: appending an operation leaves the earlier ones as they were.   *)
(***************************************************************************)
RangeOf(s) == {s[i] : i \in 1 .. Len(s)}

LEMMA LogAppend ==
  ASSUME NEW s, s \in Seq(RangeOf(s)), NEW e
  PROVE  /\ Len(s) \in Nat /\ Len(Append(s, e)) = Len(s) + 1
         /\ \A i \in 1 .. Len(s) : Append(s, e)[i] = s[i]
         /\ Append(s, e)[Len(s) + 1] = e
         /\ Append(s, e) \in Seq(RangeOf(Append(s, e)))
  <1> DEFINE R == RangeOf(s)
  <1> DEFINE t == Append(s, e)
  <1>1. s \in Seq(R \cup {e}) /\ e \in R \cup {e}
    OBVIOUS
  <1>2. /\ Len(s) \in Nat /\ Len(t) = Len(s) + 1 /\ t \in Seq(R \cup {e})
        /\ \A i \in 1 .. Len(s) : t[i] = s[i]
        /\ t[Len(s) + 1] = e
    <2> HIDE DEF R
    <2> QED BY <1>1
  <1>3. t \in Seq(RangeOf(t))
    <2> HIDE DEF t, R
    <2>1. t \in [1 .. Len(t) -> RangeOf(t)]
      BY <1>2 DEF RangeOf
    <2>2. Len(t) \in Nat
      BY <1>2
    <2> QED BY <2>1, <2>2
  <1> QED BY <1>2, <1>3

(***************************************************************************)
(* Descent.  The recursive function behind it has a value because the      *)
(* least set closed under its steps is one; no order on groups is needed.  *)
(***************************************************************************)
LEMMA DescendsStep ==
  ASSUME NEW rows, NEW S, NEW F, F \subseteq DOMAIN rows,
         \A x \in F : rows[x].parent \in DOMAIN rows,
         NEW g \in DOMAIN rows
  PROVE  Descends(rows, S, F, g) <=> g \in S \/ (g \in F /\ Descends(rows, S, F, rows[g].parent))
  <1> DEFINE G == DOMAIN rows
             Closed(C) == /\ \A x \in G : x \in S => x \in C
                          /\ \A x \in F : rows[x].parent \in C => x \in C
             R == {x \in G : \A C \in SUBSET G : Closed(C) => x \in C}
             f == [x \in G |-> x \in R]
             Is(h) == h = [x \in G |-> x \in S \/ (x \in F /\ h[rows[x].parent])]
             Up == CHOOSE h : Is(h)
  <1>1. Closed(R)
    BY Zenon
  <1>2. ASSUME NEW x \in R PROVE x \in S \/ (x \in F /\ rows[x].parent \in R)
    <2>1. SUFFICES ASSUME x \notin S, ~(x \in F /\ rows[x].parent \in R) PROVE Closed(R \ {x})
      <3>1. R \ {x} \in SUBSET G
        BY Zenon
      <3> QED BY Zenon, <3>1
    <2>2. \A y \in G : y \in S => y \in R \ {x}
      BY Zenon, <1>1, <2>1
    <2>3. \A y \in F : rows[y].parent \in R \ {x} => y \in R \ {x}
      BY Zenon, <1>1, <2>1
    <2> QED BY <2>2, <2>3
  <1>3. \A x \in G : x \in R <=> x \in S \/ (x \in F /\ rows[x].parent \in R)
    BY Zenon, <1>1, <1>2
  <1>4. \A x \in F : f[rows[x].parent] <=> rows[x].parent \in R
    <2> HIDE DEF R
    <2> QED BY Zenon
  <1>5. Is(f)
    <2> DEFINE e(x) == x \in S \/ (x \in F /\ f[rows[x].parent])
    <2>1. \A x \in G : x \in R <=> e(x)
      <3> HIDE DEF R, f
      <3> QED BY <1>3, <1>4, Zenon
    <2>2. ASSUME NEW x \in G PROVE (x \in R) = e(x)
      <3> HIDE DEF R, f
      <3>1. CASE x \in R
        BY <2>1, <3>1, Zenon
      <3>2. CASE x \notin R
        <4>1. (x \in R) = FALSE
          BY <3>2
        <4>2. e(x) = FALSE
          BY Zenon, <2>1, <3>2
        <4> QED BY <4>1, <4>2
      <3> QED BY <3>1, <3>2
    <2>3. f = [x \in G |-> e(x)]
      <3> HIDE DEF R, e
      <3> QED BY <2>2, Zenon
    <2> HIDE DEF f
    <2> QED BY <2>3, Zenon
  <1>6. Is(Up)
    <2> HIDE DEF Is, f
    <2> QED BY <1>5
  <1>7. \A x \in G : Up[x] = (x \in S \/ (x \in F /\ Up[rows[x].parent]))
    <2> HIDE DEF Up
    <2> QED BY <1>6
  <1>8. \A x : Descends(rows, S, F, x) = Up[x]
    BY Zenon DEF Descends
  <1> HIDE DEF Up
  <1> QED BY <1>7, <1>8, Zenon

\* A non-empty set of numbers has a least one.
LEMMA LeastExists ==
  ASSUME NEW S, S # {}, S \subseteq Nat
  PROVE  \E m \in S : \A n \in S : m <= n
  <1> DEFINE less == OpToRel(<, Nat)
  <1>1. IsWellFoundedOn(less, Nat)
    BY Zenon, NatLessThanWellFounded
  <1>2. \A p, q \in Nat : p < q => <<p, q>> \in less
    BY Zenon DEF OpToRel
  <1> HIDE DEF less
  <1>3. PICK m \in S : \A n \in S : ~ (<<n, m>> \in less)
    BY Zenon, <1>1, WFMin
  <1>4. ASSUME NEW n \in S PROVE m <= n
    <2>1. m \in Nat /\ n \in Nat /\ ~ (n < m)
      BY <1>2, <1>3, Zenon
    <2> QED BY <2>1
  <1> QED BY <1>4

\* What holds of the groups descent starts from, and passes from parent to
\* child along it, holds of every group that descends from them: a parent is
\* born before its children.
LEMMA DescendsInto ==
  ASSUME NEW rows, NEW S, NEW F, NEW T, F \subseteq DOMAIN rows,
         \A x \in DOMAIN rows : rows[x].born \in Nat,
         \A x \in F : rows[x].parent \in DOMAIN rows /\ rows[rows[x].parent].born < rows[x].born,
         \A x \in DOMAIN rows : x \in S => x \in T,
         \A x \in F : rows[x].parent \in T => x \in T,
         NEW g \in DOMAIN rows, Descends(rows, S, F, g)
  PROVE  g \in T
  <1> DEFINE D(x) == Descends(rows, S, F, x)
             bad == {x \in DOMAIN rows : D(x) /\ x \notin T}
             N == {rows[x].born : x \in bad}
  <1>1. SUFFICES ASSUME g \notin T PROVE FALSE
    BY Zenon
  <1>2. g \in bad
    BY <1>1, Zenon
  <1>3. PICK n \in N : \A k \in N : n <= k
    <2>1. N # {} /\ N \subseteq Nat
      BY <1>2, Zenon
    <2> HIDE DEF N
    <2> QED BY <2>1, LeastExists, Zenon
  <1>4. PICK x \in bad : rows[x].born = n
    BY <1>3, Zenon
  <1>5. x \in F /\ D(rows[x].parent)
    BY <1>4, DescendsStep, Zenon
  <1>6. rows[x].parent \in bad
    BY <1>4, <1>5, Zenon
  <1>7. rows[rows[x].parent].born \in N
    BY <1>6, Zenon
  <1>8. n <= rows[rows[x].parent].born
    BY <1>3, <1>7, Zenon
  <1>9. rows[rows[x].parent].born < n /\ n \in Nat /\ rows[rows[x].parent].born \in Nat
    BY <1>4, <1>5, <1>6, Zenon
  <1> QED BY <1>8, <1>9

-----------------------------------------------------------------------------
(***************************************************************************)
(* What every state of the tables satisfies.                               *)
(***************************************************************************)
RowFields == {"trace", "parent", "label", "born", "debited", "rev"}

\* A group was born by a recorded operation, after the debit it was found of and
\* after its parent, in the population of its parent.
GroupFits(g) ==
  /\ DOMAIN group[g] = RowFields
  /\ group[g].born \in 1 .. Len(ops)
  /\ group[g].debited = None \/ (group[g].debited \in Nat /\ group[g].debited < group[g].born)
  /\ group[g].parent = None \/ /\ group[g].parent \in Groups
                               /\ group[group[g].parent].trace = group[g].trace
                               /\ group[group[g].parent].born < group[g].born

\* What operation i names exists and is earlier: the groups it debits, the anchors
\* of a hold, the fact a correction rests on, the paper and its material.
Stands(op, i) ==
  /\ \A d \in op.debits : d.group \in Groups
  /\ op.kind = "hold_place" =>
       /\ op.row.scope.at = i - 1
       /\ \A a \in op.row.scope.anchors :
            a.group \in Groups /\ group[a.group].born < i /\ group[a.group].trace = op.row.trace
  /\ op.kind = "correction_additional" \/ (op.kind = "actual_review" /\ op.debits # {}) =>
       op.row.group \in Groups
  /\ op.kind = "correction_observe" => op.row.previous \in 1 .. (i - 1) \cup {None}
  /\ op.kind = "correction_found" => op.row.observation \in 1 .. (i - 1)
  /\ op.kind # "correction_count_classify"
  /\ op.kind \in PaperKinds => op.row.source \in 1 .. i
  /\ op.kind = "dispatch_prepare" => op.row.paper = i
  /\ op.kind = "departure" \/ op.kind \in PaperKinds \ {"dispatch_prepare"} =>
       op.row.paper \in 1 .. (i - 1) /\ ops[op.row.paper].kind = "dispatch_prepare"

LogFits == ops \in Seq(RangeOf(ops))

GroupsFit == \A g \in Groups : GroupFits(g)

OpsStand == \A i \in 1 .. Len(ops) : Stands(ops[i], i)

TablesFit == LogFits /\ GroupsFit /\ OpsStand

(***************************************************************************)
(* What every step does: it appends one operation, keeps the identity of   *)
(* every group, and gives a new group a place in the lineage.              *)
(***************************************************************************)
GroupsKept ==
  /\ \A g \in Groups :
       /\ g \in DOMAIN group' /\ DOMAIN group'[g] = RowFields
       /\ group'[g].trace = group[g].trace /\ group'[g].parent = group[g].parent
       /\ group'[g].born = group[g].born /\ group'[g].debited = group[g].debited
  /\ \A g \in DOMAIN group' : g \notin Groups =>
       /\ DOMAIN group'[g] = RowFields
       /\ group'[g].born = Len(ops) + 1
       /\ group'[g].debited = None \/ group'[g].debited \in 1 .. Len(ops)
       /\ group'[g].parent = None \/ /\ group'[g].parent \in Groups
                                     /\ group'[g].trace = group[group'[g].parent].trace

\* What the guards of the commands say of the operation they append; scope is what
\* a source correction finds downstream of the population it is about.
Permitted(op, scope) ==
  /\ op.kind = "departure" => \A d \in op.debits : ActiveHolds(d.group) = {}
  /\ op.kind = "correction_found" => OpenObservations = {op.row.observation}
  /\ op.kind \in {"dispatch_revise", "dispatch_issue"} => Paper(op.row.paper).draft # None
  /\ op.kind \in {"dispatch_replace", "dispatch_unused"} => Paper(op.row.paper).versions # <<>>
  /\ op.kind = "correction_source" =>
       \A x \in op.row.impact : x[1] \notin {"source", "unresolved_source"} => x \in scope

StepFits(scope) ==
  GroupsKept /\ \E op : ops' = Append(ops, op) /\ Stands(op, Len(ops) + 1) /\ Permitted(op, scope)

-----------------------------------------------------------------------------
LEMMA Kept ==
  ASSUME GroupsFit, UNCHANGED group
  PROVE  GroupsKept
  BY Zenon DEF GroupsFit, GroupFits, GroupsKept, Groups

LEMMA KeptInserting ==
  ASSUME GroupsFit, NEW rows, InsertGroups(rows),
         \A g \in DOMAIN rows :
           /\ DOMAIN rows[g] = RowFields
           /\ rows[g].born = Len(ops) + 1
           /\ rows[g].debited = None \/ rows[g].debited \in 1 .. Len(ops)
           /\ rows[g].parent = None \/ /\ rows[g].parent \in Groups
                                       /\ rows[g].trace = group[rows[g].parent].trace
  PROVE  GroupsKept
  <1>1. DOMAIN group' = DOMAIN rows \cup Groups
    BY Zenon DEF InsertGroups
  <1>2. \A g \in DOMAIN rows : group'[g] = rows[g]
    BY Zenon DEF InsertGroups
  <1>3. \A g \in Groups : group'[g] = group[g]
    <2> TAKE g \in Groups
    <2>1. g \notin DOMAIN rows
      BY Zenon DEF InsertGroups
    <2> QED BY <2>1, Zenon DEF InsertGroups
  <1>4. \A g \in Groups : DOMAIN group[g] = RowFields
    BY Zenon DEF GroupsFit, GroupFits
  <1>5. \A g \in DOMAIN group' : g \notin Groups => g \in DOMAIN rows
    BY <1>1, Zenon
  <1> HIDE DEF RowFields
  <1> QED BY <1>1, <1>2, <1>3, <1>4, <1>5, Zenon DEF GroupsKept

LEMMA KeptWithRoot ==
  ASSUME GroupsFit, NEW label, InsertRoot(NextId, label)
  PROVE  GroupsKept
  <1> DEFINE i == NextId
             rows == [g \in {i} |-> [trace |-> i, parent |-> None, label |-> label, born |-> i,
                                     debited |-> None, rev |-> 1]]
  <1>1. InsertGroups(rows)
    BY Zenon DEF InsertRoot
  <1>2. \A g \in DOMAIN rows : DOMAIN rows[g] = RowFields /\ rows[g].born = Len(ops) + 1
                                /\ rows[g].debited = None /\ rows[g].parent = None
    BY Zenon DEF RowFields, NextId
  <1> HIDE DEF rows
  <1> QED BY <1>1, <1>2, KeptInserting, Zenon

\* Only revisions change.
LEMMA KeptRevising ==
  ASSUME GroupsFit, DOMAIN group' = Groups,
         \A g \in Groups : group'[g] = group[g] \/ \E r : group'[g] = [group[g] EXCEPT !.rev = r]
  PROVE  GroupsKept
  <1>1. ASSUME NEW g \in Groups
        PROVE  /\ DOMAIN group'[g] = RowFields
               /\ group'[g].trace = group[g].trace /\ group'[g].parent = group[g].parent
               /\ group'[g].born = group[g].born /\ group'[g].debited = group[g].debited
    <2>1. DOMAIN group[g] = RowFields
      BY Zenon DEF GroupsFit, GroupFits
    <2>2. CASE group'[g] = group[g]
      BY Zenon, <2>1, <2>2
    <2>3. ASSUME NEW r, group'[g] = [group[g] EXCEPT !.rev = r]
          PROVE  /\ DOMAIN group'[g] = RowFields
                 /\ group'[g].trace = group[g].trace /\ group'[g].parent = group[g].parent
                 /\ group'[g].born = group[g].born /\ group'[g].debited = group[g].debited
      BY Zenon, <2>1, <2>3 DEF RowFields
    <2> QED BY <2>2, <2>3
  <1> QED BY <1>1, Zenon DEF GroupsKept

\* An operation of a kind nothing later rests on.
PlainKinds == {"receipt", "opening", "return", "move", "split", "work_new", "work_replan",
               "discrepancy_open", "discrepancy_resolve", "acceptance", "hold_release", "disposition",
               "count_observe", "count_post", "actual_report", "correction_recipient"}

LEMMA DebitingStep ==
  ASSUME NEW scope, GroupsKept, NEW kind \in PlainKinds, NEW at, NEW row, NEW debits, NEW removed,
         ops' = Append(ops, Operation(kind, at, row, debits, removed)),
         \A d \in debits : d.group \in Groups
  PROVE  StepFits(scope)
  <1> DEFINE op == Operation(kind, at, row, debits, removed)
  <1>1. op.kind = kind /\ op.debits = debits
    BY Zenon DEF Operation
  <1>2. ops' = Append(ops, op)
    BY Zenon
  <1> HIDE DEF op
  <1>3. Stands(op, Len(ops) + 1)
    BY <1>1, Zenon DEF Stands, PaperKinds, PlainKinds
  <1>4. Permitted(op, scope)
    BY <1>1, Zenon DEF Permitted, PlainKinds
  <1> QED BY <1>2, <1>3, <1>4, Zenon DEF StepFits

LEMMA PlainStep ==
  ASSUME NEW scope, GroupsKept, NEW kind \in PlainKinds, NEW at, NEW row, NEW removed,
         ops' = Append(ops, Operation(kind, at, row, {}, removed))
  PROVE  StepFits(scope)
  <1> DEFINE none == {}
  <1>1. \A d \in none : d.group \in Groups
    BY Zenon
  <1>2. ops' = Append(ops, Operation(kind, at, row, none, removed))
    BY Zenon
  <1> HIDE DEF none
  <1> QED BY <1>1, <1>2, DebitingStep, Zenon

LEMMA ReceiveFits ==
  ASSUME NEW scope, GroupsFit, NEW v, NEW n, NEW loc, NEW planned, NEW occ, NEW at,
         Receive(v, n, loc, planned, occ, at)
  PROVE  StepFits(scope)
  <1>1. GroupsKept
    BY KeptWithRoot, Zenon DEF Receive, SeedReceipt
  <1>2. "receipt" \in PlainKinds
    BY Zenon DEF PlainKinds
  <1>3. ops' = Append(ops, Operation("receipt", at, <<>>, {}, {}))
    BY Zenon DEF Receive, Record
  <1> QED BY <1>1, <1>2, <1>3, PlainStep, Zenon

LEMMA OpenStockFits ==
  ASSUME NEW scope, GroupsFit, NEW v, NEW n, NEW loc, NEW label, NEW occ, NEW at,
         OpenStock(v, n, loc, label, occ, at)
  PROVE  StepFits(scope)
  <1>1. GroupsKept
    BY KeptWithRoot, Zenon DEF OpenStock
  <1>2. "opening" \in PlainKinds
    BY Zenon DEF PlainKinds
  <1>3. ops' = Append(ops, Operation("opening", at, <<>>, {}, {}))
    BY Zenon DEF OpenStock, Record
  <1> QED BY <1>1, <1>2, <1>3, PlainStep, Zenon

LEMMA ReturnStockFits ==
  ASSUME NEW scope, GroupsFit, NEW claim, NEW v, NEW n, NEW loc, NEW planned, NEW label, NEW occ, NEW at,
         ReturnStock(claim, v, n, loc, planned, label, occ, at)
  PROVE  StepFits(scope)
  <1>1. GroupsKept
    BY KeptWithRoot, Zenon DEF ReturnStock
  <1>2. "return" \in PlainKinds
    BY Zenon DEF PlainKinds
  <1>3. ops' = Append(ops, Operation("return", at, ReturnRow(claim, v, n, planned, occ), {}, {}))
    BY Zenon DEF ReturnStock, Record
  <1> QED BY <1>1, <1>2, <1>3, PlainStep, Zenon

(***************************************************************************)
(* Moving and separating: the part is the group itself or a child of it,   *)
(* in its population.                                                      *)
(***************************************************************************)
LEMMA PartOf ==
  ASSUME NEW g, NEW n, NEW child, NEW label
  PROVE  /\ Partition(ReadGroup(g), n, child, label).selected.trace = Trace(g)
         /\ Partition(ReadGroup(g), n, child, label).selected.id \in {g, child}
         /\ DOMAIN Partition(ReadGroup(g), n, child, label).selected
              = {"id", "trace", "parent", "label", "place", "packs", "rev", "floor", "work"}
  <1> DEFINE s == ReadGroup(g)
             F == {"id", "trace", "parent", "label", "place", "packs", "rev", "floor", "work"}
  <1>1. DOMAIN s = F /\ s.id = g /\ s.trace = Trace(g)
    BY Zenon DEF ReadGroup
  <1>2. CASE n = s.packs
    <2>1. Partition(s, n, child, label).selected = [s EXCEPT !.rev = s.rev + 1]
      BY Zenon, <1>2 DEF Partition
    <2> HIDE DEF s
    <2> DEFINE v == Partition(s, n, child, label).selected
    <2>2. DOMAIN v = F /\ v.trace = s.trace /\ v.id \in {s.id, child}
      BY SMTT(30), <1>1, <2>1
    <2> QED BY <1>1, <2>2, Zenon DEF s
  <1>3. CASE n # s.packs
    <2>1. Partition(s, n, child, label).selected
            = [s EXCEPT !.id = child, !.parent = s.id, !.label = label, !.packs = n, !.rev = 1]
      BY Zenon, <1>3 DEF Partition
    <2> HIDE DEF s
    <2> DEFINE v == Partition(s, n, child, label).selected
    <2>2. DOMAIN v = F /\ v.trace = s.trace /\ v.id \in {s.id, child}
      BY Zenon, <1>1, <2>1
    <2> QED BY <1>1, <2>2, Zenon DEF s
  <1> QED BY <1>2, <1>3

LEMMA KeptDividing ==
  ASSUME GroupsFit, NEW g \in Groups, NEW p, WriteGroups(ReadGroup(g), p),
         p.selected.trace = Trace(g), p.selected.id \in {g, NextId}
  PROVE  GroupsKept
  <1> DEFINE v == p.selected
             child == [trace |-> v.trace, parent |-> g, label |-> v.label, born |-> NextId,
                       debited |-> None, rev |-> 1]
  <1>1. ReadGroup(g).id = g
    BY Zenon DEF ReadGroup
  <1>2. /\ v.id # g => v.id \notin Groups
        /\ group' = [x \in Groups \cup {v.id} |->
             CASE x = v.id /\ x # g -> child
               [] x = g -> [group[x] EXCEPT !.rev = @ + 1]
               [] OTHER -> group[x]]
    BY <1>1, Zenon DEF WriteGroups
  <1>3. DOMAIN group' = Groups \cup {v.id}
    BY <1>2, Zenon
  <1>4. group'[g] = [group[g] EXCEPT !.rev = group[g].rev + 1]
    BY Zenon, <1>2
  <1>5. \A x \in Groups : x # g => group'[x] = group[x]
    BY Zenon, <1>2
  <1>6. v.id # g => group'[v.id] = child
    BY Zenon, <1>2
  <1>7. DOMAIN child = RowFields /\ child.born = Len(ops) + 1 /\ child.debited = None
        /\ child.parent = g /\ child.trace = group[g].trace
    BY Zenon DEF RowFields, NextId, Trace
  <1> HIDE DEF child, v
  <1>8. ASSUME NEW x \in Groups
        PROVE  /\ DOMAIN group'[x] = RowFields
               /\ group'[x].trace = group[x].trace /\ group'[x].parent = group[x].parent
               /\ group'[x].born = group[x].born /\ group'[x].debited = group[x].debited
    <2>1. DOMAIN group[x] = RowFields
      BY Zenon DEF GroupsFit, GroupFits
    <2>2. CASE x # g
      BY ZenonT(30), <1>5, <2>1, <2>2
    <2>3. CASE x = g
      BY ZenonT(30), <1>4, <2>1, <2>3 DEF RowFields
    <2> QED BY <2>2, <2>3
  <1>9. ASSUME NEW x \in DOMAIN group', x \notin Groups
        PROVE  group'[x] = child
    BY <1>2, <1>3, <1>6, <1>9, Zenon
  <1> QED BY <1>3, <1>7, <1>8, <1>9, Zenon DEF GroupsKept

LEMMA MoveStockFits ==
  ASSUME NEW scope, GroupsFit, NEW g \in Groups, NEW n, NEW to, NEW label, NEW occ, NEW at,
         MoveStock(g, n, to, label, occ, at)
  PROVE  StepFits(scope)
  <1> DEFINE s == ReadGroup(g)
             q == Partition(s, n, NextId, label)
             p == MovePlan(s, n, NextId, to, label, occ)
  <1>1. WriteGroups(s, p)
    BY Zenon DEF MoveStock
  <1>2. p.selected.trace = Trace(g) /\ p.selected.id \in {g, NextId}
    <2>1. PICK work2 : p.selected = [q.selected EXCEPT !.place = to, !.floor = FloorAfter(@, occ), !.work = work2]
      BY Zenon DEF MovePlan
    <2>2. /\ q.selected.trace = Trace(g) /\ q.selected.id \in {g, NextId}
          /\ DOMAIN q.selected = {"id", "trace", "parent", "label", "place", "packs", "rev", "floor", "work"}
      BY PartOf
    <2> HIDE DEF p, q
    <2> QED BY SMTT(30), <2>1, <2>2
  <1>3. GroupsKept
    <2> HIDE DEF p
    <2> QED BY <1>1, <1>2, KeptDividing, Zenon
  <1>4. "move" \in PlainKinds
    BY Zenon DEF PlainKinds
  <1>5. ops' = Append(ops, Operation("move", at, PartRow(s, p, n), {}, {}))
    BY Zenon DEF MoveStock, Record
  <1> QED BY <1>3, <1>4, <1>5, PlainStep, Zenon

LEMMA SplitStockFits ==
  ASSUME NEW scope, GroupsFit, NEW g \in Groups, NEW n, NEW label, NEW occ, NEW at,
         SplitStock(g, n, label, occ, at)
  PROVE  StepFits(scope)
  <1> DEFINE s == ReadGroup(g)
             q == Partition(s, n, NextId, label)
             p == SplitPlan(s, n, NextId, label, occ)
  <1>1. WriteGroups(s, p)
    BY Zenon DEF SplitStock
  <1>2. p.selected.trace = Trace(g) /\ p.selected.id \in {g, NextId}
    <2>1. p.selected = [q.selected EXCEPT !.floor = FloorAfter(@, occ)]
      BY Zenon DEF SplitPlan
    <2>2. /\ q.selected.trace = Trace(g) /\ q.selected.id \in {g, NextId}
          /\ DOMAIN q.selected = {"id", "trace", "parent", "label", "place", "packs", "rev", "floor", "work"}
      BY PartOf
    <2> HIDE DEF p, q
    <2> QED BY <2>1, <2>2
  <1>3. GroupsKept
    <2> HIDE DEF p
    <2> QED BY <1>1, <1>2, KeptDividing, Zenon
  <1>4. "split" \in PlainKinds
    BY Zenon DEF PlainKinds
  <1>5. ops' = Append(ops, Operation("split", at, PartRow(s, p, n), {}, {}))
    BY Zenon DEF SplitStock, Record
  <1> QED BY <1>3, <1>4, <1>5, PlainStep, Zenon

LEMMA GiveWorkFits ==
  ASSUME NEW scope, GroupsFit, NEW kind \in {"work_new", "work_replan"}, NEW S, NEW t, NEW target, NEW old, NEW at,
         GiveWork(kind, S, t, target, old, at)
  PROVE  StepFits(scope)
  <1>1. group' = [g \in Groups |-> IF g \in S THEN [group[g] EXCEPT !.rev = @ + 1] ELSE group[g]]
    BY Zenon DEF GiveWork
  <1>2. DOMAIN group' = Groups
    BY <1>1, Zenon
  <1>3. \A g \in Groups : group'[g] = group[g] \/ \E r : group'[g] = [group[g] EXCEPT !.rev = r]
    BY Zenon, <1>1
  <1>4. GroupsKept
    BY <1>2, <1>3, KeptRevising, Zenon
  <1>5. kind \in PlainKinds
    BY Zenon DEF PlainKinds
  <1>6. \E row : ops' = Append(ops, Operation(kind, at, row, {}, {}))
    BY Zenon DEF GiveWork, Record
  <1> QED BY <1>4, <1>5, <1>6, PlainStep, Zenon

LEMMA NewWorkFits ==
  ASSUME NEW scope, GroupsFit, NEW S, NEW target, NEW at, NewWork(S, target, at)
  PROVE  StepFits(scope)
  BY GiveWorkFits, Zenon DEF NewWork

LEMMA ReplanFits ==
  ASSUME NEW scope, GroupsFit, NEW w, NEW target, NEW at, Replan(w, target, at)
  PROVE  StepFits(scope)
  BY GiveWorkFits, Zenon DEF Replan

LEMMA OpenIssueFits ==
  ASSUME NEW scope, GroupsFit, NEW t, NEW g, NEW at, OpenIssue(t, g, at)
  PROVE  StepFits(scope)
  <1>1. UNCHANGED group
    BY Zenon DEF OpenIssue
  <1>2. GroupsKept
    BY <1>1, Kept, Zenon
  <1>3. "discrepancy_open" \in PlainKinds
    BY Zenon DEF PlainKinds
  <1>4. ops' = Append(ops, Operation("discrepancy_open", at, [trace |-> t, group |-> g], {}, {}))
    BY Zenon DEF OpenIssue, Record
  <1> QED BY <1>2, <1>3, <1>4, PlainStep, Zenon

LEMMA ResolveIssueFits ==
  ASSUME NEW scope, GroupsFit, NEW d, NEW at, ResolveIssue(d, at)
  PROVE  StepFits(scope)
  <1>1. UNCHANGED group
    BY Zenon DEF ResolveIssue
  <1>2. GroupsKept
    BY <1>1, Kept, Zenon
  <1>3. "discrepancy_resolve" \in PlainKinds
    BY Zenon DEF PlainKinds
  <1>4. ops' = Append(ops, Operation("discrepancy_resolve", at, [issue |-> d], {}, {}))
    BY Zenon DEF ResolveIssue, Record
  <1> QED BY <1>2, <1>3, <1>4, PlainStep, Zenon

(***************************************************************************)
(* Treatment.                                                              *)
(***************************************************************************)
LEMMA TreatWrites ==
  ASSUME GroupsFit, NEW kind, NEW row, NEW scope, NEW at, NEW occ, NEW t, Treat(kind, row, scope, at, occ, t)
  PROVE  /\ GroupsKept
         /\ \E full : ops' = Append(ops, Operation(kind, at, [row EXCEPT !.full = full], {}, {}))
  <1>1. UNCHANGED group
    BY Zenon DEF Treat
  <1>2. ops' = Append(ops, Operation(kind, at,
                 [row EXCEPT !.full = (RecordCount(t) + IF kind = "hold_release" THEN 0 ELSE 1)
                                        = TraceRecords], {}, {}))
    BY Zenon DEF Treat, Record
  <1> QED BY <1>1, <1>2, Kept, Zenon

LEMMA SetAcceptanceFits ==
  ASSUME NEW scope, GroupsFit, NEW S, NEW status, NEW occ, NEW at, SetAcceptance(S, status, occ, at)
  PROVE  StepFits(scope)
  <1>1. "acceptance" \in PlainKinds
    BY Zenon DEF PlainKinds
  <1> QED BY <1>1, TreatWrites, PlainStep, Zenon DEF SetAcceptance

LEMMA ReleaseHoldFits ==
  ASSUME NEW scope, GroupsFit, NEW h, NEW occ, NEW at, ReleaseHold(h, occ, at)
  PROVE  StepFits(scope)
  <1>1. "hold_release" \in PlainKinds
    BY Zenon DEF PlainKinds
  <1> QED BY <1>1, TreatWrites, PlainStep, Zenon DEF ReleaseHold

LEMMA PlaceHoldFits ==
  ASSUME NEW scope, LogFits, GroupsFit, NEW S \in SUBSET Groups, NEW occ, NEW at, PlaceHold(S, occ, at)
  PROVE  StepFits(scope)
  <1> DEFINE t == Trace(CHOOSE g \in S : TRUE)
             row == [trace |-> t, scope |-> Capture(S), occ |-> occ, full |-> FALSE]
  <1>1. /\ GroupsKept
        /\ \E full : ops' = Append(ops, Operation("hold_place", at, [row EXCEPT !.full = full], {}, {}))
    <2>1. Treat("hold_place", row, Capture(S), at, occ, t)
      BY Zenon DEF PlaceHold
    <2> HIDE DEF row, t
    <2> QED BY <2>1, TreatWrites, Zenon
  <1>2. PICK full : ops' = Append(ops, Operation("hold_place", at, [row EXCEPT !.full = full], {}, {}))
    BY Zenon, <1>1
  <1> DEFINE op == Operation("hold_place", at, [row EXCEPT !.full = full], {}, {})
  <1>3. op.kind = "hold_place" /\ op.debits = {} /\ op.row.trace = t /\ op.row.scope = Capture(S)
    <2> HIDE DEF t
    <2> QED BY DEF Operation
  <1>4. ops' = Append(ops, op)
    BY Zenon, <1>2
  <1>5. Len(ops) \in Nat
    BY Zenon, LogAppend DEF LogFits
  <1>6. Capture(S).at = Len(ops) /\ \A a \in Capture(S).anchors : a.group \in S
    BY DEF Capture, Revision
  <1>7. \A g \in S : g \in Groups /\ group[g].born < Len(ops) + 1 /\ group[g].trace = t
    <2> HIDE DEF t
    <2>1. \A g \in S : group[g].trace = t
      BY Zenon DEF PlaceHold, Trace, t
    <2>2. \A g \in S : g \in Groups /\ group[g].born \in 1 .. Len(ops)
      BY Zenon DEF GroupsFit, GroupFits
    <2> QED BY <1>5, <2>1, <2>2
  <1> HIDE DEF op, t
  <1>8. Stands(op, Len(ops) + 1)
    <2>1. Capture(S).at = (Len(ops) + 1) - 1
      BY <1>5, <1>6
    <2> QED BY <1>3, <1>6, <1>7, <2>1, Zenon DEF Stands, PaperKinds
  <1>9. Permitted(op, scope)
    BY <1>3, Zenon DEF Permitted
  <1> QED BY <1>1, <1>4, <1>8, <1>9, Zenon DEF StepFits

(***************************************************************************)
(* Dispatch papers.                                                        *)
(***************************************************************************)
\* A bounded set of numbers has a greatest one.
LEMMA MaxBelongs ==
  ASSUME NEW S, S # {}, NEW b \in Nat, S \subseteq 0 .. b
  PROVE  Max(S) \in S /\ \A n \in S : n <= Max(S)
  <1> DEFINE R == {b - n : n \in S}
  <1>1. R # {} /\ R \subseteq Nat
    <2>1. \A n \in 0 .. b : b - n \in Nat
      OBVIOUS
    <2> QED BY Zenon, <2>1
  <1> HIDE DEF R
  <1>2. PICK d \in R : \A c \in R : d <= c
    BY Zenon, <1>1, LeastExists
  <1>3. PICK m \in S : d = b - m
    BY Zenon, <1>2 DEF R
  <1>4. ASSUME NEW n \in S PROVE m >= n
    <2>1. d <= b - n
      BY Zenon, <1>2 DEF R
    <2>2. n \in 0 .. b /\ m \in 0 .. b
      BY Zenon
    <2> QED BY <1>3, <2>1, <2>2
  <1>5. Max(S) \in S /\ \A n \in S : Max(S) >= n
    BY <1>4, Zenon DEF Max
  <1>6. ASSUME NEW n \in S PROVE n <= Max(S)
    <2>1. n \in 0 .. b /\ Max(S) \in 0 .. b /\ Max(S) >= n
      BY <1>5, Zenon
    <2> QED BY <2>1
  <1> QED BY <1>5, <1>6

LEMMA LatestSource ==
  ASSUME LogFits, OpsStand, NEW p \in Papers
  PROVE  ops[LatestChange(p)].row.source \in 1 .. (Len(ops) + 1)
  <1> DEFINE S == ChangesOf(p, Revision)
             l == LatestChange(p)
  <1>1. Len(ops) \in Nat /\ Revision = Len(ops)
    BY Zenon, LogAppend DEF LogFits, Revision
  <1>2. p \in 1 .. Len(ops) /\ ops[p].kind = "dispatch_prepare" /\ ops[p].row.paper = p
    BY Zenon DEF Papers, OpsStand, Stands
  <1>3. p \in S
    <2>1. p \in p .. Revision
      BY <1>1, <1>2
    <2> QED BY <1>2, <2>1, Zenon DEF ChangesOf, PaperKinds
  <1>4. S \subseteq 0 .. Len(ops) /\ S \subseteq 1 .. Len(ops)
    <2>1. p .. Revision \subseteq 0 .. Len(ops) /\ p .. Revision \subseteq 1 .. Len(ops)
      BY <1>1, <1>2
    <2> QED BY <2>1, Zenon DEF ChangesOf
  <1>5. l \in S
    <2>1. S # {}
      BY <1>3, Zenon
    <2> HIDE DEF S
    <2>2. Max(S) \in S
      BY <1>1, <1>4, <2>1, MaxBelongs, Zenon
    <2> QED BY <2>2, Zenon DEF LatestChange, S
  <1>6. l \in 1 .. Len(ops) /\ ops[l].kind \in PaperKinds
    BY <1>4, <1>5, Zenon DEF ChangesOf
  <1>7. ops[l].row.source \in 1 .. l
    BY <1>6, Zenon DEF OpsStand, Stands
  <1> HIDE DEF l
  <1>8. ops[l].row.source \in 1 .. (Len(ops) + 1)
    BY <1>1, <1>6, <1>7
  <1> QED BY <1>8 DEF l

LEMMA DispatchFits ==
  ASSUME NEW scope, LogFits, GroupsFit, OpsStand, NEW kind \in PaperKinds, NEW p, NEW m,
         NEW source \in 1 .. (Len(ops) + 1), NEW at, Dispatch(kind, p, m, source, at),
         IF kind = "dispatch_prepare" THEN p = NextId ELSE p \in Papers
  PROVE  StepFits(scope)
  <1> DEFINE i == NextId
             r == IF kind = "dispatch_prepare" THEN None ELSE Paper(p)
             row == [paper |-> p, rev |-> DispatchPlan(kind, r, i, m).rev, source |-> source,
                     material |-> IF source = i THEN m ELSE None]
             op == Operation(kind, at, row, {}, {})
  <1>1. UNCHANGED group /\ ops' = Append(ops, op) /\ DispatchAllowed(kind, r, m)
    BY Zenon DEF Dispatch, Record
  <1>2. GroupsKept
    BY <1>1, Kept, Zenon
  <1>3. op.kind = kind /\ op.debits = {} /\ op.row.paper = p /\ op.row.source = source
    BY Zenon DEF Operation
  <1>4. Len(ops) \in Nat /\ NextId = Len(ops) + 1
    BY Zenon, LogAppend DEF LogFits, NextId
  <1> HIDE DEF op
  <1>5. Stands(op, Len(ops) + 1)
    <2>1. \A d \in op.debits : d.group \in Groups
      BY <1>3, Zenon
    <2>2. kind # "dispatch_prepare" => p \in 1 .. ((Len(ops) + 1) - 1) /\ ops[p].kind = "dispatch_prepare"
      <3>1. kind # "dispatch_prepare" => p \in 1 .. Len(ops) /\ ops[p].kind = "dispatch_prepare"
        BY Zenon DEF Papers
      <3>2. (Len(ops) + 1) - 1 = Len(ops)
        BY <1>4
      <3> QED BY <3>1, <3>2, Zenon
    <2>3. kind = "dispatch_prepare" => p = Len(ops) + 1
      BY <1>4, Zenon
    <2> QED BY <1>3, <2>1, <2>2, <2>3, Zenon DEF Stands, PaperKinds
  <1>6. Permitted(op, scope)
    <2>1. kind \in {"dispatch_revise", "dispatch_issue"} => Paper(p).draft # None
      BY Zenon, <1>1 DEF DispatchAllowed
    <2>2. kind \in {"dispatch_replace", "dispatch_unused"} => Paper(p).versions # <<>>
      BY Zenon, <1>1 DEF DispatchAllowed, Issued
    <2> QED BY <1>3, <2>1, <2>2, Zenon DEF Permitted, PaperKinds
  <1> QED BY <1>1, <1>2, <1>5, <1>6, Zenon DEF StepFits

LEMMA PrepareFits ==
  ASSUME NEW scope, LogFits, GroupsFit, OpsStand, NEW to, NEW S, NEW at, Prepare(to, S, at)
  PROVE  StepFits(scope)
  <1>1. NextId \in 1 .. (Len(ops) + 1)
    BY LogAppend DEF LogFits, NextId
  <1>2. "dispatch_prepare" \in PaperKinds
    BY Zenon DEF PaperKinds
  <1> QED BY <1>1, <1>2, DispatchFits, Zenon DEF Prepare

LEMMA ReviseFits ==
  ASSUME NEW scope, LogFits, GroupsFit, OpsStand, NEW p \in Papers, NEW to, NEW S, NEW at, Revise(p, to, S, at)
  PROVE  StepFits(scope)
  <1>1. NextId \in 1 .. (Len(ops) + 1)
    BY LogAppend DEF LogFits, NextId
  <1>2. "dispatch_revise" \in PaperKinds /\ "dispatch_revise" # "dispatch_prepare"
    BY Zenon DEF PaperKinds
  <1> QED BY <1>1, <1>2, DispatchFits, Zenon DEF Revise

LEMMA IssueFits ==
  ASSUME NEW scope, LogFits, GroupsFit, OpsStand, NEW p \in Papers, NEW at, Issue(p, at)
  PROVE  StepFits(scope)
  <1>1. "dispatch_issue" \in PaperKinds /\ "dispatch_issue" # "dispatch_prepare"
    BY Zenon DEF PaperKinds
  <1> QED BY <1>1, LatestSource, DispatchFits, Zenon DEF Issue

LEMMA ReplaceFits ==
  ASSUME NEW scope, LogFits, GroupsFit, OpsStand, NEW p \in Papers, NEW to, NEW S, NEW at, Replace(p, to, S, at)
  PROVE  StepFits(scope)
  <1>1. NextId \in 1 .. (Len(ops) + 1)
    BY LogAppend DEF LogFits, NextId
  <1>2. "dispatch_replace" \in PaperKinds /\ "dispatch_replace" # "dispatch_prepare"
    BY Zenon DEF PaperKinds
  <1> QED BY <1>1, <1>2, DispatchFits, Zenon DEF Replace

LEMMA MarkUnusedFits ==
  ASSUME NEW scope, LogFits, GroupsFit, OpsStand, NEW p \in Papers, NEW at, MarkUnused(p, at)
  PROVE  StepFits(scope)
  <1>1. "dispatch_unused" \in PaperKinds /\ "dispatch_unused" # "dispatch_prepare"
    BY Zenon DEF PaperKinds
  <1> QED BY <1>1, LatestSource, DispatchFits, Zenon DEF MarkUnused

(***************************************************************************)
(* Consuming and reducing groups.                                          *)
(***************************************************************************)
LEMMA KeptConsuming ==
  ASSUME GroupsFit, NEW S, NEW changes, Consume(S, changes)
  PROVE  GroupsKept
  <1>1. group' = [g \in Groups |-> IF g \in S THEN [group[g] EXCEPT !.rev = @ + 1] ELSE group[g]]
    BY Zenon DEF Consume
  <1>2. DOMAIN group' = Groups
    BY <1>1, Zenon
  <1>3. \A g \in Groups : group'[g] = group[g] \/ \E r : group'[g] = [group[g] EXCEPT !.rev = r]
    BY Zenon, <1>1
  <1> QED BY <1>2, <1>3, KeptRevising, Zenon

LEMMA KeptShrinking ==
  ASSUME GroupsFit, NEW p, WriteShortage(p)
  PROVE  GroupsKept
  <1> DEFINE g == p.before.id
  <1>1. group' = [group EXCEPT ![g].rev = p.rev]
    BY Zenon DEF WriteShortage
  <1> HIDE DEF g
  <1>2. DOMAIN group' = Groups
    BY <1>1, Zenon DEF Groups
  <1>3. \A x \in Groups : group'[x] = group[x] \/ \E r : group'[x] = [group[x] EXCEPT !.rev = r]
    <2> TAKE x \in Groups
    <2>1. CASE x = g
      <3>1. group'[x] = [group[x] EXCEPT !.rev = p.rev]
        BY Zenon, <1>1, <2>1 DEF Groups
      <3> QED BY <3>1, Zenon
    <2>2. CASE x # g
      BY SMTT(30), <1>1, <2>2 DEF Groups
    <2> QED BY Zenon, <2>1, <2>2
  <1> QED BY <1>2, <1>3, KeptRevising, Zenon

LEMMA ConsumedGroup ==
  ASSUME NEW g, NEW occ
  PROVE  Consumed(g, occ).before.id = g
  BY Zenon DEF Consumed, ReadGroup

LEMMA DebitedGroups ==
  ASSUME NEW S, NEW C, \A c \in C : c.before.id \in S, NEW d \in Debits(C)
  PROVE  d.group \in S
  <1>1. PICK c \in C :
          d = [group |-> c.before.id, packs |-> c.before.packs, after |-> 0, rev |-> c.before.rev + 1]
    BY Zenon DEF Debits
  <1>2. d.group = c.before.id
    BY Zenon, <1>1
  <1> QED BY <1>1, <1>2, Zenon

LEMMA DepartFits ==
  ASSUME NEW scope, LogFits, GroupsFit, NEW p \in Papers, NEW occ, NEW at, Depart(p, occ, at)
  PROVE  StepFits(scope)
  <1> DEFINE r == Paper(p)
             m == LastVersion(r).material
             S == MaterialGroups(m)
             C == {Consumed(g, occ) : g \in S}
             row == [paper |-> p, rev |-> r.rev, version |-> LastVersion(r).id, occ |-> occ, lines |-> C,
                     changes |-> RetiredWork(C)]
             op == Operation("departure", at, row, Debits(C), {})
  <1>1. Consume(S, RetiredWork(C)) /\ ops' = Append(ops, op) /\ DepartureAllowed(m, occ, at)
    BY Zenon DEF Depart, Record
  <1>2. GroupsKept
    <2> HIDE DEF S, C
    <2> QED BY <1>1, KeptConsuming, Zenon
  <1>3. op.kind = "departure" /\ op.debits = Debits(C) /\ op.row.paper = p
    <2> HIDE DEF C, m, r
    <2> QED BY DEF Operation
  <1>4. \A g \in S : g \in Groups /\ ActiveHolds(g) = {}
    BY <1>1, Zenon DEF DepartureAllowed, Unchanged, NormalDeparture, Live
  <1>5. \A d \in op.debits : d.group \in S
    <2>1. \A c \in C : c.before.id \in S
      <3> HIDE DEF S
      <3> QED BY ConsumedGroup, Zenon
    <2> HIDE DEF S, op, C
    <2> QED BY <1>3, <2>1, DebitedGroups, Zenon
  <1>6. Len(ops) \in Nat
    BY Zenon, LogAppend DEF LogFits
  <1>7. p \in 1 .. ((Len(ops) + 1) - 1) /\ ops[p].kind = "dispatch_prepare"
    <2>1. p \in 1 .. Len(ops) /\ ops[p].kind = "dispatch_prepare"
      BY Zenon DEF Papers
    <2>2. (Len(ops) + 1) - 1 = Len(ops)
      BY <1>6
    <2> QED BY <2>1, <2>2, Zenon
  <1> HIDE DEF op, S
  <1>8. Stands(op, Len(ops) + 1)
    BY <1>3, <1>4, <1>5, <1>7, Zenon DEF Stands, PaperKinds
  <1>9. Permitted(op, scope)
    BY <1>3, <1>4, <1>5, Zenon DEF Permitted
  <1> QED BY <1>1, <1>2, <1>8, <1>9, Zenon DEF StepFits

LEMMA DisposeFits ==
  ASSUME NEW scope, GroupsFit, NEW g \in Groups, NEW kind, NEW occ, NEW at, Dispose(g, kind, occ, at)
  PROVE  StepFits(scope)
  <1> DEFINE c == Consumed(g, occ)
             row == [kind |-> kind, occ |-> occ, line |-> c, changes |-> RetiredWork({c})]
  <1>1. /\ Consume({g}, RetiredWork({c}))
        /\ ops' = Append(ops, Operation("disposition", at, row, Debits({c}), {}))
    BY Zenon DEF Dispose, Record
  <1>2. GroupsKept
    <2> HIDE DEF c
    <2> QED BY <1>1, KeptConsuming, Zenon
  <1>3. \A d \in Debits({c}) : d.group \in Groups
    <2>1. c.before.id \in {g}
      BY ConsumedGroup, Zenon
    <2> HIDE DEF c
    <2>2. \A x \in {c} : x.before.id \in {g}
      BY <2>1, Zenon
    <2>3. \A d \in Debits({c}) : d.group \in {g}
      BY <2>2, DebitedGroups, Zenon
    <2> QED BY <2>3, Zenon
  <1>4. "disposition" \in PlainKinds
    BY Zenon DEF PlainKinds
  <1> HIDE DEF row, c
  <1> QED BY <1>1, <1>2, <1>3, <1>4, DebitingStep, Zenon

LEMMA ObserveFits ==
  ASSUME NEW scope, GroupsFit, NEW g, NEW counted, NEW cutoff, NEW at, Observe(g, counted, cutoff, at)
  PROVE  StepFits(scope)
  <1>1. UNCHANGED group
    BY Zenon DEF Observe
  <1>2. GroupsKept
    BY <1>1, Kept, Zenon
  <1>3. "count_observe" \in PlainKinds
    BY Zenon DEF PlainKinds
  <1>4. \E row : ops' = Append(ops, Operation("count_observe", at, row, {}, {}))
    BY Zenon DEF Observe, Record
  <1> QED BY <1>2, <1>3, <1>4, PlainStep, Zenon

LEMMA PostFits ==
  ASSUME NEW scope, GroupsFit, NEW i, NEW label, NEW at, Post(i, label, at)
  PROVE  StepFits(scope)
  <1> DEFINE p == CountPost(i, at)
             g == p.before.id
             debit == IF p.effect = "shortage"
                        THEN {[group |-> g, packs |-> p.changed, after |-> p.after, rev |-> p.rev]} ELSE {}
  <1>1. /\ PostAllowed(i, label, at)
        /\ CASE p.effect = "none" -> UNCHANGED <<pop, group, pos, work, alloc>>
             [] p.effect = "shortage" -> WriteShortage(p)
             [] p.effect = "surplus" -> WriteSurplus(NextId, p, label)
        /\ ops' = Append(ops, Operation("count_post", at, p, debit, p.removed))
    BY Zenon DEF Post, Record
  <1>2. p.effect \in {"none", "shortage", "surplus"}
    BY Zenon DEF CountPost, Difference
  <1>3. g \in Groups
    <2>1. p.before = ReadGroup(ops[i].row.scope.group)
      BY Zenon DEF CountPost
    <2>2. ReadGroup(ops[i].row.scope.group).id = ops[i].row.scope.group
      BY Zenon DEF ReadGroup
    <2>3. ops[i].row.scope.group \in Groups
      BY <1>1, Zenon DEF PostAllowed, Live
    <2> HIDE DEF p
    <2> QED BY ZenonT(30), <2>1, <2>2, <2>3, Zenon
  <1> HIDE DEF p
  <1>4. GroupsKept
    <2>1. CASE p.effect = "none"
      <3>1. UNCHANGED <<pop, group, pos, work, alloc>>
        BY Zenon, <1>1, <2>1
      <3> QED BY <3>1, Kept, Zenon
    <2>2. CASE p.effect = "shortage"
      <3>1. WriteShortage(p)
        BY ZenonT(30), <1>1, <2>2
      <3> QED BY <3>1, KeptShrinking, Zenon
    <2>3. CASE p.effect = "surplus"
      <3>1. WriteSurplus(NextId, p, label)
        BY SMTT(30), <1>1, <2>3
      <3> QED BY <3>1, KeptWithRoot, Zenon DEF WriteSurplus
    <2> QED BY SMTT(30), <1>2, <2>1, <2>2, <2>3
  <1>5. \A d \in debit : d.group \in Groups
    BY <1>3
  <1>6. "count_post" \in PlainKinds
    BY Zenon DEF PlainKinds
  <1> HIDE DEF debit
  <1> QED BY <1>1, <1>4, <1>5, <1>6, DebitingStep, Zenon

-----------------------------------------------------------------------------
(***************************************************************************)
(* Every command is such a step.                                           *)
(***************************************************************************)
LEMMA LiveKnown == Live \subseteq Groups
  BY Zenon DEF Live

-----------------------------------------------------------------------------
(***************************************************************************)
(* The tables fit in every state.                                          *)
(***************************************************************************)
LEMMA LogGrows ==
  ASSUME LogFits, NEW op, ops' = Append(ops, op)
  PROVE  /\ Len(ops) \in Nat /\ Len(ops') = Len(ops) + 1
         /\ \A i \in 1 .. Len(ops) : ops'[i] = ops[i]
         /\ ops'[Len(ops) + 1] = op
         /\ LogFits'
  <1> DEFINE log == Append(ops, op)
  <1>1. /\ Len(ops) \in Nat /\ Len(log) = Len(ops) + 1
        /\ \A i \in 1 .. Len(ops) : log[i] = ops[i]
        /\ log[Len(ops) + 1] = op
        /\ log \in Seq(RangeOf(log))
    BY LogAppend, Zenon DEF LogFits
  <1>2. ops' = log
    BY Zenon
  <1> HIDE DEF log
  <1>3. ops' \in Seq({ops'[i] : i \in 1 .. Len(ops')})
    BY <1>1, <1>2, Zenon DEF RangeOf
  <1>4. LogFits'
    BY <1>3, Zenon DEF LogFits, RangeOf
  <1> QED BY <1>1, <1>2, <1>4, Zenon

LEMMA TablesStep ==
  ASSUME NEW scope, TablesFit, StepFits(scope)
  PROVE  TablesFit'
  <1>1. PICK op : ops' = Append(ops, op) /\ Stands(op, Len(ops) + 1)
    BY Zenon DEF StepFits
  <1>2. /\ Len(ops) \in Nat /\ Len(ops') = Len(ops) + 1
        /\ \A i \in 1 .. Len(ops) : ops'[i] = ops[i]
        /\ ops'[Len(ops) + 1] = op
        /\ LogFits'
    BY <1>1, LogGrows, Zenon DEF TablesFit
  <1>3. /\ GroupsKept
        /\ \A g \in Groups : GroupFits(g)
    BY Zenon DEF StepFits, TablesFit, GroupsFit
  <1>4. \A g \in Groups : /\ g \in Groups' /\ group'[g].trace = group[g].trace /\ group'[g].born = group[g].born
    BY <1>3, Zenon DEF GroupsKept, Groups
  <1>5. ASSUME NEW g \in Groups' PROVE GroupFits(g)'
    <2>1. CASE g \in Groups
      <3>1. /\ DOMAIN group'[g] = RowFields /\ group'[g].parent = group[g].parent
            /\ group'[g].born = group[g].born /\ group'[g].debited = group[g].debited
            /\ group'[g].trace = group[g].trace
        BY <1>3, <2>1, Zenon DEF GroupsKept
      <3>2. group[g].born \in 1 .. Len(ops')
        <4>1. group[g].born \in 1 .. Len(ops)
          BY <1>3, <2>1, Zenon DEF GroupFits
        <4> QED BY <1>2, <4>1
      <3>3. GroupFits(g)
        BY <1>3, <2>1, Zenon
      <3> QED BY <1>4, <3>1, <3>2, <3>3, Zenon DEF GroupFits
    <2>2. CASE g \notin Groups
      <3>1. /\ DOMAIN group'[g] = RowFields
            /\ group'[g].born = Len(ops) + 1
            /\ group'[g].debited = None \/ group'[g].debited \in 1 .. Len(ops)
            /\ group'[g].parent = None \/ /\ group'[g].parent \in Groups
                                          /\ group'[g].trace = group[group'[g].parent].trace
        BY <1>3, <2>2, Zenon DEF GroupsKept, Groups
      <3>2. group'[g].born \in 1 .. Len(ops')
        BY SMTT(30), <1>2, <3>1
      <3>3. group'[g].debited = None \/ (group'[g].debited \in Nat /\ group'[g].debited < group'[g].born)
        BY <1>2, <3>1
      <3>4. ASSUME group'[g].parent # None
            PROVE  /\ group'[g].parent \in Groups' /\ group'[group'[g].parent].trace = group'[g].trace
                   /\ group'[group'[g].parent].born < group'[g].born
        <4>1. group'[g].parent \in Groups
          BY <3>1, <3>4, Zenon
        <4>2. group[group'[g].parent].born \in 1 .. Len(ops)
          BY <1>3, <4>1, Zenon DEF GroupFits
        <4>3. group[group'[g].parent].born < Len(ops) + 1
          BY <1>2, <4>2
        <4> QED BY <1>4, <3>1, <3>4, <4>1, <4>3, Zenon
      <3> QED BY <3>1, <3>2, <3>3, <3>4, Zenon DEF GroupFits
    <2> QED BY <2>1, <2>2
  <1>6. ASSUME NEW i \in 1 .. Len(ops') PROVE Stands(ops[i], i)'
    <2>1. Stands(ops'[i], i)
      <3>1. i \in 1 .. Len(ops) \/ i = Len(ops) + 1
        BY <1>2
      <3>2. \A k \in 1 .. Len(ops) : Stands(ops[k], k)
        BY Zenon DEF TablesFit, OpsStand
      <3> QED BY <1>1, <1>2, <3>1, <3>2, Zenon
    <2>2. \A k \in 1 .. (i - 1) : ops'[k] = ops[k]
      <3>1. \A k \in 1 .. (i - 1) : k \in 1 .. Len(ops)
        BY <1>2
      <3> QED BY <1>2, <3>1, Zenon
    <2> DEFINE e == ops'[i]
    <2>3. Stands(e, i)
      BY Zenon, <2>1
    <2> HIDE DEF e
    <2>4. \A d \in e.debits : d.group \in Groups'
      BY <1>4, <2>3, Zenon DEF Stands
    <2>5. e.kind = "hold_place" =>
            /\ e.row.scope.at = i - 1
            /\ \A a \in e.row.scope.anchors :
                 a.group \in Groups' /\ group'[a.group].born < i /\ group'[a.group].trace = e.row.trace
      BY <1>4, <2>3, Zenon DEF Stands
    <2>6. e.kind = "correction_additional" \/ (e.kind = "actual_review" /\ e.debits # {}) =>
            e.row.group \in Groups'
      BY <1>4, <2>3, Zenon DEF Stands
    <2>7. e.kind = "departure" \/ e.kind \in PaperKinds \ {"dispatch_prepare"} =>
            e.row.paper \in 1 .. (i - 1) /\ ops'[e.row.paper].kind = "dispatch_prepare"
      BY <2>2, <2>3, Zenon DEF Stands
    <2> QED BY <2>3, <2>4, <2>5, <2>6, <2>7, Zenon DEF Stands, e
  <1> QED BY <1>2, <1>5, <1>6, Zenon DEF TablesFit, GroupsFit, OpsStand

-----------------------------------------------------------------------------
(***************************************************************************)
(* Holds.  New groups give a group that was there no new ancestors.        *)
(***************************************************************************)
LEMMA DescentOfOld ==
  ASSUME NEW old, NEW rows, NEW S, NEW F, NEW F2, NEW g \in DOMAIN old, DOMAIN old \subseteq DOMAIN rows,
         F \subseteq DOMAIN old, \A x \in F : old[x].parent \in DOMAIN old,
         F2 \subseteq DOMAIN rows, \A x \in DOMAIN rows : rows[x].born \in Nat,
         \A x \in F2 : rows[x].parent \in DOMAIN rows /\ rows[rows[x].parent].born < rows[x].born,
         \A x \in F2 : x \in DOMAIN old => x \in F /\ rows[x].parent = old[x].parent,
         Descends(rows, S, F2, g)
  PROVE  Descends(old, S, F, g)
  <1> DEFINE D(x) == Descends(old, S, F, x)
             T == {x \in DOMAIN rows : x \in DOMAIN old => D(x)}
  <1>1. \A x \in DOMAIN old : D(x) <=> x \in S \/ (x \in F /\ D(old[x].parent))
    BY DescendsStep, Zenon
  <1> HIDE DEF D
  <1>2. \A x \in DOMAIN rows : x \in S => x \in T
    BY <1>1, Zenon
  <1>3. \A x \in F2 : rows[x].parent \in T => x \in T
    BY <1>1, Zenon
  <1>4. g \in DOMAIN rows
    BY Zenon
  <1> HIDE DEF T
  <1>5. g \in T
    BY <1>2, <1>3, <1>4, DescendsInto, Zenon
  <1> QED BY <1>5, Zenon DEF T, D

-----------------------------------------------------------------------------
(***************************************************************************)
(* Observations.  An operation leaves open every observation but the one   *)
(* it supersedes, and a superseding one is open itself.                    *)
(***************************************************************************)
LEMMA ObservationsAfter ==
  ASSUME NEW scope, TablesFit, StepFits(scope)
  PROVE  \/ \E o : OpenObservations = {o}
         \/ OpenObservations \subseteq OpenObservations'
         \/ \E p : /\ OpenObservations \ {p} \subseteq OpenObservations'
                   /\ Len(ops) + 1 \in OpenObservations'
  <1>1. PICK op : ops' = Append(ops, op) /\ Stands(op, Len(ops) + 1) /\ Permitted(op, scope)
    BY Zenon DEF StepFits
  <1>2. /\ Len(ops) \in Nat /\ Len(ops') = Len(ops) + 1
        /\ \A i \in 1 .. Len(ops) : ops'[i] = ops[i]
        /\ ops'[Len(ops) + 1] = op
    BY <1>1, LogGrows, Zenon DEF TablesFit
  <1>3. /\ \A i \in 1 .. Len(ops') : i \in 1 .. Len(ops) \/ i = Len(ops) + 1
        /\ \A i \in 1 .. Len(ops) : i \in 1 .. Len(ops')
        /\ Len(ops) + 1 \in 1 .. Len(ops')
    BY <1>2
  <1> DEFINE Sup(i, o) == ops'[i].kind = "correction_observe" /\ ops'[i].row.previous = o
             Use(i, o) == /\ ops'[i].kind \in {"correction_found", "correction_count_classify"}
                          /\ ops'[i].row.observation = o
  <1>4. \A o : o \in OpenObservations' <=>
                 /\ o \in 1 .. Len(ops') /\ ops'[o].kind = "correction_observe"
                 /\ \A i \in 1 .. Len(ops') : ~Sup(i, o) /\ ~Use(i, o)
    BY Zenon DEF OpenObservations, Observations, Superseding, UsedBy, OpsOf
  <1>5. \A o : o \in OpenObservations <=>
                 /\ o \in 1 .. Len(ops) /\ ops[o].kind = "correction_observe"
                 /\ \A i \in 1 .. Len(ops) :
                      /\ ~(ops[i].kind = "correction_observe" /\ ops[i].row.previous = o)
                      /\ ~(/\ ops[i].kind \in {"correction_found", "correction_count_classify"}
                           /\ ops[i].row.observation = o)
    BY Zenon DEF OpenObservations, Observations, Superseding, UsedBy, OpsOf
  <1>6. ASSUME NEW o \in OpenObservations, ~Sup(Len(ops) + 1, o), ~Use(Len(ops) + 1, o)
        PROVE  o \in OpenObservations'
    <2>1. o \in 1 .. Len(ops') /\ ops'[o].kind = "correction_observe"
      BY <1>2, <1>3, <1>5, Zenon
    <2>2. ASSUME NEW i \in 1 .. Len(ops') PROVE ~Sup(i, o) /\ ~Use(i, o)
      <3>1. CASE i = Len(ops) + 1
        BY <1>6, <3>1, Zenon
      <3>2. CASE i \in 1 .. Len(ops)
        <4>1. ops'[i] = ops[i]
          BY <1>2, <3>2, Zenon
        <4>2. /\ ~(ops[i].kind = "correction_observe" /\ ops[i].row.previous = o)
              /\ ~(/\ ops[i].kind \in {"correction_found", "correction_count_classify"}
                   /\ ops[i].row.observation = o)
          BY <1>5, <3>2, Zenon
        <4> QED BY <4>1, <4>2
      <3> QED BY <1>3, <3>1, <3>2, Zenon
    <2> QED BY <1>4, <2>1, <2>2, Zenon
  <1>7. CASE op.kind = "correction_found"
    BY <1>1, <1>7, Zenon DEF Permitted
  <1>8. CASE op.kind = "correction_observe"
    <2>1. OpenObservations \ {op.row.previous} \subseteq OpenObservations'
      BY <1>2, <1>6, <1>8, Zenon
    <2>2. ASSUME NEW i \in 1 .. Len(ops') PROVE ~Sup(i, Len(ops) + 1) /\ ~Use(i, Len(ops) + 1)
      <3>1. Stands(ops'[i], i)
        BY <1>1, <1>2, <1>3, Zenon DEF TablesFit, OpsStand
      <3>2. ops'[i].kind = "correction_observe" => ops'[i].row.previous \in 1 .. (i - 1) \cup {None}
        BY <3>1, Zenon DEF Stands
      <3>3. ops'[i].kind = "correction_found" => ops'[i].row.observation \in 1 .. (i - 1)
        BY <3>1, Zenon DEF Stands
      <3>4. ops'[i].kind # "correction_count_classify"
        BY <3>1, Zenon DEF Stands
      <3>5. Len(ops) + 1 \notin 1 .. (i - 1) /\ Len(ops) + 1 # None
        BY <1>2, HubAssumption
      <3> QED BY <3>2, <3>3, <3>4, <3>5, Zenon
    <2>3. Len(ops) + 1 \in OpenObservations'
      BY <1>2, <1>3, <1>4, <1>8, <2>2, Zenon
    <2> QED BY <2>1, <2>3, Zenon
  <1>9. CASE op.kind \notin {"correction_found", "correction_observe"}
    <2>1. op.kind # "correction_count_classify"
      BY <1>1, Zenon DEF Stands
    <2> QED BY <1>2, <1>6, <1>9, <2>1, Zenon
  <1> QED BY <1>7, <1>8, <1>9, Zenon

\* A finite set that keeps two of its members, or all but one of them and gains
\* another, still has two.
LEMMA TwoStay ==
  ASSUME NEW S, NEW T, IsFiniteSet(S), IsFiniteSet(T), Cardinality(S) >= 2, NEW p, NEW n, n \notin S,
         S \subseteq T \/ (S \ {p} \subseteq T /\ n \in T)
  PROVE  Cardinality(T) >= 2
  <1>1. Cardinality(S) \in Nat /\ Cardinality(T) \in Nat
    BY Zenon, FS_CardinalityType
  <1>2. CASE S \subseteq T
    <2>1. Cardinality(S) <= Cardinality(T)
      BY Zenon, <1>2, FS_Subset
    <2> QED BY <1>1, <2>1
  <1>3. CASE S \ {p} \subseteq T /\ n \in T
    <2> DEFINE R == (S \ {p}) \cup {n}
               Q == S \ {p}
    <2>1. IsFiniteSet(Q) /\ Cardinality(Q) = IF p \in S THEN Cardinality(S) - 1 ELSE Cardinality(S)
      BY Zenon, FS_RemoveElement
    <2>2. n \notin Q
      BY Zenon
    <2> HIDE DEF Q
    <2>3. IsFiniteSet(Q \cup {n}) /\ Cardinality(Q \cup {n}) = Cardinality(Q) + 1
      BY Zenon, <2>1, <2>2, FS_AddElement
    <2>4. Q \cup {n} \subseteq T
      BY Zenon, <1>3 DEF Q
    <2>5. Cardinality(Q \cup {n}) <= Cardinality(T)
      BY Zenon, <2>4, FS_Subset
    <2> QED BY SMTT(30), <1>1, <2>1, <2>3, <2>5
  <1> QED BY <1>2, <1>3

LEMMA BoundedFinite ==
  ASSUME NEW n \in Nat, NEW S, S \subseteq 1 .. n
  PROVE  IsFiniteSet(S)
  <1>1. IsFiniteSet(1 .. n)
    BY FS_Interval
  <1> QED BY Zenon, <1>1, FS_Subset

-----------------------------------------------------------------------------
(***************************************************************************)
(* Papers.  The record of a paper is a fold over the log; the function     *)
(* that computes it exists, and two logs that agree up to an operation     *)
(* give the same record there.                                             *)
(***************************************************************************)
Follows(f, log, p, n) ==
  \A k \in p .. n : f[k] = PaperAfter(log, p, k, IF k = p THEN None ELSE f[k - 1])

SameChanges(l1, l2, p, n) ==
  \A k \in p .. n : \A r : PaperAfter(l1, p, k, r) = PaperAfter(l2, p, k, r)

AgreeAt(f, g, n) == f[n] = g[n]

LEMMA FollowsExists ==
  ASSUME NEW log, NEW p \in Nat, NEW c \in Nat, p <= c
  PROVE  \E f : Follows(f, log, p, c)
  <1> DEFINE After(k, r) == PaperAfter(log, p, k, r)
             E(n) == \E f : \A k \in p .. n : f[k] = After(k, IF k = p THEN None ELSE f[k - 1])
             bad == {n \in p .. c : ~E(n)}
  <1> HIDE DEF After
  <1>1. ASSUME bad # {} PROVE FALSE
    <2>1. PICK n \in bad : \A m \in bad : n <= m
      <3>1. bad \subseteq Nat
        OBVIOUS
      <3> HIDE DEF bad
      <3> QED BY <1>1, <3>1, LeastExists, Zenon
    <2>2. CASE n = p
      <3> DEFINE f == [k \in p .. p |-> After(p, None)]
      <3>1. \A k \in p .. n : f[k] = After(k, IF k = p THEN None ELSE f[k - 1])
        BY <2>2
      <3> HIDE DEF f
      <3> QED BY <2>1, <3>1, Zenon
    <2>3. CASE n # p
      <3>1. n - 1 \in p .. c /\ ~(n <= n - 1)
        BY <2>1, <2>3
      <3>2. E(n - 1)
        <4> HIDE DEF E
        <4>1. n - 1 \notin bad
          BY <2>1, <3>1, Zenon
        <4> QED BY <3>1, <4>1, Zenon
      <3>3. PICK f : \A k \in p .. (n - 1) : f[k] = After(k, IF k = p THEN None ELSE f[k - 1])
        BY <3>2, Zenon
      <3> DEFINE g == [k \in p .. n |-> IF k = n THEN After(n, f[n - 1]) ELSE f[k]]
      <3>4. \A k \in p .. n : g[k] = After(k, IF k = p THEN None ELSE g[k - 1])
        <4> SUFFICES ASSUME NEW k \in p .. n PROVE g[k] = After(k, IF k = p THEN None ELSE g[k - 1])
          BY Zenon
        <4>1. CASE k = n
          <5>1. n - 1 \in p .. n /\ n \in p .. n /\ n - 1 # n
            BY <2>1, <2>3
          <5>2. g[n - 1] = f[n - 1]
            BY <5>1, Zenon
          <5>3. g[n] = After(n, f[n - 1])
            BY <5>1, Zenon
          <5> HIDE DEF g
          <5> QED BY SMTT(30), <2>3, <4>1, <5>2, <5>3
        <4>2. CASE k # n
          <5>1. k \in p .. (n - 1) /\ (k # p => k - 1 \in p .. n /\ k - 1 # n)
            BY <2>1, <4>2
          <5>2. g[k] = f[k] /\ (k # p => g[k - 1] = f[k - 1])
            BY <4>2, <5>1, Zenon
          <5>3. f[k] = After(k, IF k = p THEN None ELSE f[k - 1])
            BY <3>3, <5>1, Zenon
          <5> HIDE DEF g
          <5> QED BY <5>2, <5>3
        <4> QED BY SMTT(30), <4>1, <4>2
      <3>5. E(n)
        <4> HIDE DEF g
        <4> QED BY <3>4, Zenon
      <3> QED BY <2>1, <3>5, Zenon
    <2> QED BY <2>2, <2>3
  <1>2. E(c)
    <2>1. c \in p .. c
      OBVIOUS
    <2> HIDE DEF E
    <2> QED BY <1>1, <2>1, Zenon
  <1> QED BY <1>2, Zenon DEF Follows, After

LEMMA PaperUnfolds ==
  ASSUME NEW log, NEW p \in Nat, NEW c \in Nat, p <= c
  PROVE  \E f : Follows(f, log, p, c) /\ PaperIn(log, p, c) = f[c]
  <1> DEFINE After(k, r) == PaperAfter(log, p, k, r)
             Is(h) == h = [k \in p .. c |-> After(k, IF k = p THEN None ELSE h[k - 1])]
             Upto == CHOOSE h : Is(h)
  <1>0. PICK f : Follows(f, log, p, c)
    BY FollowsExists, Zenon
  <1>1. \A k \in p .. c : f[k] = After(k, IF k = p THEN None ELSE f[k - 1])
    BY <1>0, Zenon DEF Follows
  <1>2. PaperIn(log, p, c) = Upto[c]
    BY Zenon DEF PaperIn
  <1> HIDE DEF After
  <1> DEFINE g == [k \in p .. c |-> f[k]]
  <1>3. Is(g)
    <2>1. ASSUME NEW k \in p .. c PROVE f[k] = After(k, IF k = p THEN None ELSE g[k - 1])
      <3>1. k # p => k - 1 \in p .. c
        OBVIOUS
      <3>2. k # p => g[k - 1] = f[k - 1]
        BY <3>1, Zenon
      <3> HIDE DEF g
      <3> QED BY <1>1, <3>2
    <2> DEFINE e(k) == After(k, IF k = p THEN None ELSE g[k - 1])
    <2>2. \A k \in p .. c : f[k] = e(k)
      BY <2>1, Zenon
    <2>3. g = [k \in p .. c |-> e(k)]
      <3> HIDE DEF e
      <3> QED BY <2>2, Zenon
    <2> HIDE DEF g
    <2> QED BY <2>3, Zenon
  <1>4. Is(Upto)
    <2> HIDE DEF Is, g
    <2> QED BY <1>3, Zenon
  <1> HIDE DEF Upto
  <1>5. \A k \in p .. c : Upto[k] = After(k, IF k = p THEN None ELSE Upto[k - 1])
    BY <1>4, Zenon
  <1> QED BY <1>2, <1>5, Zenon DEF Follows, After

LEMMA FollowsAgree ==
  ASSUME NEW l1, NEW l2, NEW p \in Nat, NEW n \in Nat, NEW f, NEW g, p <= n,
         Follows(f, l1, p, n), Follows(g, l2, p, n),
         SameChanges(l1, l2, p, n)
  PROVE  AgreeAt(f, g, n)
  <1> DEFINE bad == {k \in p .. n : f[k] # g[k]}
  <1>1. ASSUME bad # {} PROVE FALSE
    <2>1. PICK k \in bad : \A m \in bad : k <= m
      <3>1. bad \subseteq Nat
        OBVIOUS
      <3> HIDE DEF bad
      <3> QED BY <1>1, <3>1, LeastExists, Zenon
    <2>2. k # p => k - 1 \in p .. n /\ ~(k <= k - 1)
      BY <2>1
    <2>3. k # p => f[k - 1] = g[k - 1]
      BY <2>1, <2>2, Zenon
    <2>4. k \in p .. n
      BY <2>1, Zenon
    <2> DEFINE r == IF k = p THEN None ELSE f[k - 1]
               s == IF k = p THEN None ELSE g[k - 1]
    <2>5. r = s
      BY ZenonT(30), <2>3
    <2>6. f[k] = PaperAfter(l1, p, k, r) /\ g[k] = PaperAfter(l2, p, k, s)
      BY <2>4, Zenon DEF Follows
    <2> HIDE DEF r, s
    <2>7. f[k] = g[k]
      BY <2>4, <2>5, <2>6, Zenon DEF SameChanges
    <2> QED BY <2>1, <2>7, Zenon
  <1>2. n \in p .. n
    OBVIOUS
  <1> QED BY <1>1, <1>2, Zenon DEF AgreeAt

LEMMA PaperFixed ==
  ASSUME NEW l1, NEW l2, NEW p \in Nat, NEW n \in Nat, p <= n,
         SameChanges(l1, l2, p, n)
  PROVE  PaperIn(l1, p, n) = PaperIn(l2, p, n)
  <1>1. PICK f : Follows(f, l1, p, n) /\ PaperIn(l1, p, n) = f[n]
    BY PaperUnfolds, Zenon
  <1>2. PICK g : Follows(g, l2, p, n) /\ PaperIn(l2, p, n) = g[n]
    BY PaperUnfolds, Zenon
  <1>3. AgreeAt(f, g, n)
    BY <1>1, <1>2, FollowsAgree, Zenon
  <1> QED BY <1>1, <1>2, <1>3, Zenon DEF AgreeAt

LEMMA PaperNext ==
  ASSUME NEW l1, NEW l2, NEW p \in Nat, NEW n \in Nat, p <= n,
         SameChanges(l1, l2, p, n)
  PROVE  PaperIn(l2, p, n + 1) = PaperAfter(l2, p, n + 1, PaperIn(l1, p, n))
  <1>1. n + 1 \in Nat /\ p <= n + 1 /\ n + 1 \in p .. (n + 1) /\ n + 1 # p /\ (n + 1) - 1 = n
        /\ \A k \in p .. n : k \in p .. (n + 1)
    OBVIOUS
  <1>2. PICK f : Follows(f, l1, p, n) /\ PaperIn(l1, p, n) = f[n]
    BY PaperUnfolds, Zenon
  <1> DEFINE m == n + 1
  <1>3. PICK g : Follows(g, l2, p, m) /\ PaperIn(l2, p, m) = g[m]
    <2>1. m \in Nat /\ p <= m
      BY ZenonT(30), <1>1
    <2> HIDE DEF m
    <2> QED BY <2>1, PaperUnfolds, Zenon
  <1>4. Follows(g, l2, p, n)
    BY <1>1, <1>3, Zenon DEF Follows
  <1>5. AgreeAt(f, g, n)
    BY <1>2, <1>4, FollowsAgree, Zenon
  <1>6. g[m] = PaperAfter(l2, p, m, IF m = p THEN None ELSE g[m - 1])
    BY <1>1, <1>3, Zenon DEF Follows
  <1>7. (IF m = p THEN None ELSE g[m - 1]) = g[n]
    BY Zenon, <1>1
  <1> QED BY <1>2, <1>3, <1>5, <1>6, <1>7, Zenon DEF AgreeAt

LEMMA AfterAgree ==
  ASSUME NEW l1, NEW l2, NEW n \in Nat, \A k \in 1 .. n : l1[k] = l2[k],
         \A k \in 1 .. n : l1[k].kind \in PaperKinds => l1[k].row.source \in 1 .. k,
         NEW p \in 1 .. n, l1[p].kind = "dispatch_prepare"
  PROVE  SameChanges(l1, l2, p, n)
  <1> SUFFICES ASSUME NEW k \in p .. n, NEW r PROVE PaperAfter(l1, p, k, r) = PaperAfter(l2, p, k, r)
    BY Zenon DEF SameChanges
  <1>1. k \in 1 .. n /\ \A j \in 1 .. k : j \in 1 .. n
    OBVIOUS
  <1>2. l1[k] = l2[k] /\ l1[p] = l2[p]
    BY <1>1, Zenon
  <1>3. l1[k].kind \in PaperKinds => MaterialIn(l1, k) = MaterialIn(l2, k)
    BY <1>1, <1>2, Zenon DEF MaterialIn
  <1>4. k = p => l1[k].kind \in PaperKinds
    BY Zenon DEF PaperKinds
  <1>5. CASE k = p
    BY <1>3, <1>4, <1>5, Zenon DEF PaperAfter
  <1>6. CASE k # p /\ l1[k].kind \in PaperKinds /\ l1[k].row.paper = p
    BY <1>2, <1>3, <1>6, Zenon DEF PaperAfter
  <1>7. CASE k # p /\ ~(l1[k].kind \in PaperKinds /\ l1[k].row.paper = p)
    BY ZenonT(30), <1>2, <1>7 DEF PaperAfter
  <1> QED BY <1>5, <1>6, <1>7, Zenon

(***************************************************************************)
(* What a change keeps of a paper: the identity and the material of every  *)
(* version issued so far.                                                  *)
(***************************************************************************)
PaperFields == {"id", "rev", "created", "updated", "draft", "versions"}

VersionFields == {"id", "number", "material", "issued", "previous", "status", "closed"}

Shaped(r) ==
  /\ DOMAIN r = PaperFields
  /\ r.versions \in Seq(RangeOf(r.versions))
  /\ \A k \in 1 .. Len(r.versions) : DOMAIN r.versions[k] = VersionFields
  /\ r.draft # None => r.versions = <<>>

Keeps(r, s) ==
  /\ \A k \in 1 .. Len(r.versions) :
       /\ k \in 1 .. Len(s.versions)
       /\ s.versions[k].id = r.versions[k].id /\ s.versions[k].material = r.versions[k].material

LEMMA FunctionIsSeq ==
  ASSUME NEW m \in Nat, NEW R, NEW t \in [1 .. m -> R]
  PROVE  t \in Seq(R) /\ Len(t) = m
  OBVIOUS

Replaced(s, n, e, t) ==
  /\ t \in Seq(RangeOf(t)) /\ Len(t) = Len(s)
  /\ \A k \in 1 .. Len(s) : t[k] = IF k = n THEN e ELSE s[k]

LEMMA SeqReplace ==
  ASSUME NEW s, s \in Seq(RangeOf(s)), NEW n \in 1 .. Len(s), NEW e
  PROVE  Replaced(s, n, e, [s EXCEPT ![n] = e])
  <1> DEFINE t == [s EXCEPT ![n] = e]
             R == RangeOf(s) \cup {e}
  <1>1. s \in Seq(R)
    OBVIOUS
  <1>2. t \in [1 .. Len(s) -> R] /\ Len(s) \in Nat
    <2> HIDE DEF R
    <2>1. s \in [1 .. Len(s) -> R] /\ Len(s) \in Nat
      BY <1>1
    <2>2. e \in R
      BY Zenon DEF R
    <2> QED BY <2>1, <2>2
  <1>3. \A k \in 1 .. Len(s) : t[k] = IF k = n THEN e ELSE s[k]
    <2> HIDE DEF R
    <2>1. DOMAIN s = 1 .. Len(s)
      BY <1>1
    <2> QED BY <2>1
  <1> HIDE DEF R, t
  <1>5. Len(t) = Len(s)
    BY <1>2, FunctionIsSeq, Zenon
  <1>6. t \in [1 .. Len(t) -> RangeOf(t)]
    BY ZenonT(30), <1>2, <1>5 DEF RangeOf
  <1>7. t \in Seq(RangeOf(t))
    BY <1>2, <1>5, <1>6, FunctionIsSeq, Zenon
  <1>8. Replaced(s, n, e, t)
    BY <1>3, <1>5, <1>7, Zenon DEF Replaced
  <1> QED BY <1>8, Zenon DEF t

LEMMA ClosedVersions ==
  ASSUME NEW r, Shaped(r), r.versions # <<>>, NEW status, NEW i, NEW c, c = Close(r, status, i)
  PROVE  /\ DOMAIN c = PaperFields /\ c.draft = None
         /\ c.versions \in Seq(RangeOf(c.versions)) /\ Len(c.versions) = Len(r.versions)
         /\ \A k \in 1 .. Len(c.versions) : DOMAIN c.versions[k] = VersionFields
         /\ Keeps(r, c)
  <1> DEFINE v == r.versions
             n == Len(v)
             e == [v[n] EXCEPT !.status = status, !.closed = i]
             w == [v EXCEPT ![n] = e]
  <1>1. DOMAIN r = PaperFields /\ v \in Seq(RangeOf(v)) /\ v # <<>> /\ r.draft = None
        /\ \A k \in 1 .. n : DOMAIN v[k] = VersionFields
    BY Zenon DEF Shaped
  <1>2. n \in 1 .. n
    <2> HIDE DEF v
    <2> QED BY <1>1
  <1>3. c = [r EXCEPT !.versions = w]
    BY Zenon DEF Close
  <1>4. DOMAIN e = VersionFields /\ e.id = v[n].id /\ e.material = v[n].material
    <2>1. DOMAIN v[n] = VersionFields
      BY <1>1, <1>2, Zenon
    <2> HIDE DEF v, n
    <2> QED BY <2>1 DEF VersionFields
  <1> HIDE DEF e
  <1>5. /\ w \in Seq(RangeOf(w)) /\ Len(w) = n
        /\ \A k \in 1 .. n : w[k] = IF k = n THEN e ELSE v[k]
    <2>1. v \in Seq(RangeOf(v)) /\ n \in 1 .. Len(v)
      BY <1>1, <1>2, Zenon
    <2>2. Replaced(v, n, e, w)
      <3> HIDE DEF v, e
      <3> QED BY <2>1, SeqReplace, Zenon
    <2> HIDE DEF w
    <2> QED BY <2>2, Zenon DEF Replaced
  <1> HIDE DEF w
  <1>6. DOMAIN c = PaperFields /\ c.versions = w /\ c.draft = r.draft
    BY ZenonT(30), <1>1, <1>3 DEF PaperFields
  <1> HIDE DEF v, n
  <1>7. \A k \in 1 .. n : DOMAIN w[k] = VersionFields /\ w[k].id = v[k].id /\ w[k].material = v[k].material
    BY SMTT(30), <1>1, <1>4, <1>5
  <1>8. Keeps(r, c)
    BY <1>5, <1>6, <1>7, Zenon DEF Keeps, v, n
  <1> QED BY <1>1, <1>5, <1>6, <1>7, <1>8, Zenon DEF n, v

LEMMA VersionShape ==
  ASSUME NEW i, NEW r, NEW m
  PROVE  DOMAIN Version(i, r, m) = VersionFields
  BY Zenon DEF Version, VersionFields

LEMMA PlanShaped ==
  ASSUME NEW kind \in PaperKinds, NEW r, NEW i, NEW m, NEW s, s = DispatchPlan(kind, r, i, m),
         kind # "dispatch_prepare" => Shaped(r),
         kind \in {"dispatch_revise", "dispatch_issue"} => r.draft # None,
         kind \in {"dispatch_replace", "dispatch_unused"} => r.versions # <<>>
  PROVE  Shaped(s) /\ (kind # "dispatch_prepare" => Keeps(r, s))
  <1>0. <<>> \in Seq(RangeOf(<<>>)) /\ Len(<<>>) = 0 /\ 1 .. 0 = {}
    OBVIOUS
  <1>1. CASE kind = "dispatch_prepare"
    <2>1. s = [id |-> i, rev |-> 1, created |-> i, updated |-> i, draft |-> m, versions |-> <<>>]
      BY Zenon, <1>1 DEF DispatchPlan
    <2>2. DOMAIN s = PaperFields /\ s.versions = <<>>
      BY <2>1 DEF PaperFields
    <2>3. \A k \in 1 .. Len(s.versions) : FALSE
      BY <1>0, <2>2, Zenon
    <2> QED BY <1>0, <1>1, <2>2, <2>3, Zenon DEF Shaped
  <1>2. CASE kind = "dispatch_revise"
    <2>1. s = [r EXCEPT !.rev = @ + 1, !.updated = i, !.draft = m]
      BY Zenon, <1>2 DEF DispatchPlan
    <2>2. DOMAIN r = PaperFields /\ r.versions = <<>>
      BY <1>2, Zenon DEF Shaped
    <2>3. DOMAIN s = PaperFields /\ s.versions = <<>>
      BY ZenonT(30), <2>1, <2>2 DEF PaperFields
    <2>4. (\A k \in 1 .. Len(s.versions) : FALSE) /\ (\A k \in 1 .. Len(r.versions) : FALSE)
      BY <1>0, <2>2, <2>3, Zenon
    <2> QED BY <1>0, <2>3, <2>4, Zenon DEF Shaped, Keeps
  <1>3. CASE kind = "dispatch_issue"
    <2> DEFINE v == Version(i, r, m)
    <2>1. s = [r EXCEPT !.rev = @ + 1, !.updated = i, !.draft = None, !.versions = <<v>>]
      BY Zenon, <1>3 DEF DispatchPlan
    <2>2. DOMAIN r = PaperFields /\ r.versions = <<>>
      BY <1>3, Zenon DEF Shaped
    <2>3. DOMAIN v = VersionFields
      BY VersionShape, Zenon
    <2> HIDE DEF v
    <2>4. DOMAIN s = PaperFields /\ s.versions = <<v>> /\ s.draft = None
      BY ZenonT(30), <2>1, <2>2 DEF PaperFields
    <2>5. \A k \in 1 .. Len(r.versions) : FALSE
      BY <1>0, <2>2, Zenon
    <2>6. <<v>> \in Seq(RangeOf(<<v>>)) /\ \A k \in 1 .. Len(<<v>>) : <<v>>[k] = v
      BY DEF RangeOf
    <2>7. \A k \in 1 .. Len(s.versions) : DOMAIN s.versions[k] = VersionFields
      BY <2>3, <2>4, <2>6, Zenon
    <2> QED BY <2>4, <2>5, <2>6, <2>7, Zenon DEF Shaped, Keeps
  <1>4. CASE kind = "dispatch_replace"
    <2> DEFINE v == Version(i, r, m)
               c == Close(r, "superseded", i)
    <2>1. s = [c EXCEPT !.rev = @ + 1, !.updated = i, !.versions = Append(@, v)]
      BY ZenonT(30), <1>4 DEF DispatchPlan
    <2>2. /\ DOMAIN c = PaperFields /\ c.draft = None
          /\ c.versions \in Seq(RangeOf(c.versions)) /\ Len(c.versions) = Len(r.versions)
          /\ \A k \in 1 .. Len(c.versions) : DOMAIN c.versions[k] = VersionFields
          /\ Keeps(r, c)
      BY <1>4, ClosedVersions, Zenon
    <2>3. DOMAIN v = VersionFields
      BY VersionShape, Zenon
    <2> HIDE DEF v, c
    <2>4. DOMAIN s = PaperFields /\ s.versions = Append(c.versions, v) /\ s.draft = None
      BY ZenonT(30), <2>1, <2>2 DEF PaperFields
    <2> DEFINE w == Append(c.versions, v)
               n == Len(c.versions)
    <2>5. /\ n \in Nat /\ Len(w) = n + 1 /\ w \in Seq(RangeOf(w)) /\ w[n + 1] = v
          /\ \A k \in 1 .. n : w[k] = c.versions[k]
      <3> DEFINE u == c.versions
      <3>1. u \in Seq(RangeOf(u))
        BY <2>2, Zenon
      <3> HIDE DEF u
      <3>2. /\ Len(u) \in Nat /\ Len(Append(u, v)) = Len(u) + 1
            /\ \A k \in 1 .. Len(u) : Append(u, v)[k] = u[k]
            /\ Append(u, v)[Len(u) + 1] = v
            /\ Append(u, v) \in Seq(RangeOf(Append(u, v)))
        BY <3>1, LogAppend, Zenon
      <3> QED BY <3>2, Zenon DEF u
    <2> HIDE DEF w, n
    <2>6. /\ \A k \in 1 .. Len(w) : k \in 1 .. n \/ k = n + 1
          /\ \A k \in 1 .. n : k \in 1 .. Len(w)
      BY <2>5
    <2>7. \A k \in 1 .. Len(w) : DOMAIN w[k] = VersionFields
      BY <2>2, <2>3, <2>5, <2>6, Zenon DEF n
    <2>8. Keeps(r, s)
      BY <2>2, <2>4, <2>5, <2>6, Zenon DEF Keeps, n, w
    <2> QED BY <2>4, <2>5, <2>7, <2>8, Zenon DEF Shaped, w
  <1>5. CASE kind = "dispatch_unused"
    <2> DEFINE c == Close(r, "unused", i)
    <2>1. s = [c EXCEPT !.rev = @ + 1, !.updated = i]
      BY ZenonT(30), <1>5 DEF DispatchPlan
    <2>2. /\ DOMAIN c = PaperFields /\ c.draft = None
          /\ c.versions \in Seq(RangeOf(c.versions)) /\ Len(c.versions) = Len(r.versions)
          /\ \A k \in 1 .. Len(c.versions) : DOMAIN c.versions[k] = VersionFields
          /\ Keeps(r, c)
      BY <1>5, ClosedVersions, Zenon
    <2> HIDE DEF c
    <2>3. DOMAIN s = PaperFields /\ s.versions = c.versions /\ s.draft = None
      BY SMTT(30), <2>1, <2>2 DEF PaperFields
    <2> QED BY <2>2, <2>3, Zenon DEF Shaped, Keeps
  <1> QED BY <1>1, <1>2, <1>3, <1>4, <1>5, Zenon DEF PaperKinds

PapersShaped == \A p \in Papers : Shaped(Paper(p))

\* A step keeps every paper, changed or not, and what was issued on it.
LEMMA PapersStep ==
  ASSUME NEW scope, TablesFit, StepFits(scope), PapersShaped
  PROVE  /\ PapersShaped'
         /\ \A p \in Papers : p \in Papers' /\ Keeps(Paper(p), Paper(p)')
         /\ \A p \in Papers : \A c \in p .. Len(ops) : PaperAt(p, c)' = PaperAt(p, c)
  <1>1. PICK op : ops' = Append(ops, op) /\ Stands(op, Len(ops) + 1) /\ Permitted(op, scope)
    BY Zenon DEF StepFits
  <1>2. /\ Len(ops) \in Nat /\ Len(ops') = Len(ops) + 1
        /\ \A i \in 1 .. Len(ops) : ops'[i] = ops[i]
        /\ ops'[Len(ops) + 1] = op
    BY <1>1, LogGrows, Zenon DEF TablesFit
  <1> DEFINE n == Len(ops)
             i == n + 1
             log == ops'
             old == ops
  <1>3. /\ n \in Nat /\ \A k \in 1 .. n : old[k] = log[k]
        /\ \A k \in 1 .. n : old[k].kind \in PaperKinds => old[k].row.source \in 1 .. k
    BY <1>2, Zenon DEF TablesFit, OpsStand, Stands
  <1>4. ASSUME NEW p \in Papers
        PROVE  p \in 1 .. n /\ p \in Nat /\ p <= n /\ old[p].kind = "dispatch_prepare"
    <2>1. p \in 1 .. n /\ old[p].kind = "dispatch_prepare"
      BY Zenon DEF Papers
    <2>2. p \in Nat /\ p <= n
      BY <1>2, <2>1
    <2> QED BY <2>1, <2>2, Zenon
  <1> HIDE DEF n, log, old
  <1>5. ASSUME NEW p \in Papers, NEW c \in p .. n PROVE SameChanges(old, log, p, c)
    <2>1. p \in 1 .. n /\ old[p].kind = "dispatch_prepare"
      BY <1>4, Zenon
    <2>2. SameChanges(old, log, p, n)
      BY <1>3, <2>1, AfterAgree, Zenon
    <2>3. \A k \in p .. c : k \in p .. n
      BY SMTT(30), <1>3, <1>4
    <2> QED BY <2>2, <2>3, Zenon DEF SameChanges
  <1>6. \A p \in Papers : \A c \in p .. Len(ops) : PaperAt(p, c)' = PaperAt(p, c)
    <2> SUFFICES ASSUME NEW p \in Papers, NEW c \in p .. n PROVE PaperIn(log, p, c) = PaperIn(old, p, c)
      BY Zenon DEF PaperAt, n, log, old
    <2>1. c \in Nat /\ p <= c /\ p \in Nat
      BY <1>3, <1>4
    <2> QED BY <1>5, <2>1, PaperFixed, Zenon
  <1>7. ASSUME NEW p \in Papers
        PROVE  PaperIn(log, p, i) = PaperAfter(log, p, i, Paper(p))
    <2>1. n \in p .. n
      BY <1>3, <1>4
    <2>2. SameChanges(old, log, p, n)
      BY <1>5, <2>1, Zenon
    <2>3. Paper(p) = PaperIn(old, p, n)
      BY Zenon DEF Paper, PaperAt, Revision, old, n
    <2> QED BY ZenonT(30), <1>3, <1>4, <2>2, <2>3, PaperNext, Zenon
  <1>8. \A p : Paper(p)' = PaperIn(log, p, i)
    BY <1>2, Zenon DEF Paper, PaperAt, Revision, n, log
  <1>9. log[i] = op
    BY <1>2, Zenon DEF n, log
  <1>10. ASSUME NEW p \in Papers PROVE Shaped(PaperIn(log, p, i)) /\ Keeps(Paper(p), PaperIn(log, p, i))
    <2>1. Shaped(Paper(p)) /\ i # p
      <3>1. Shaped(Paper(p))
        BY Zenon DEF PapersShaped
      <3>2. i # p
        BY <1>3, <1>4
      <3> QED BY SMTT(30), <3>1, <3>2
    <2>2. CASE op.kind \in PaperKinds /\ op.row.paper = p
      <3> DEFINE m == MaterialIn(log, i)
      <3>1. PaperIn(log, p, i) = DispatchPlan(op.kind, Paper(p), i, m)
        BY <1>7, <1>9, <2>1, <2>2, Zenon DEF PaperAfter
      <3>2. op.kind # "dispatch_prepare"
        BY <1>1, <2>1, <2>2, Zenon DEF Stands, n
      <3>3. /\ op.kind \in {"dispatch_revise", "dispatch_issue"} => Paper(p).draft # None
            /\ op.kind \in {"dispatch_replace", "dispatch_unused"} => Paper(p).versions # <<>>
        BY <1>1, <2>2, Zenon DEF Permitted
      <3> HIDE DEF m, i
      <3> QED BY <2>1, <2>2, <3>1, <3>2, <3>3, PlanShaped, Zenon
    <2>3. CASE ~(op.kind \in PaperKinds /\ op.row.paper = p)
      <3>1. PaperIn(log, p, i) = Paper(p)
        BY <1>7, <1>9, <2>1, <2>3, Zenon DEF PaperAfter
      <3>2. Keeps(Paper(p), Paper(p))
        BY Zenon DEF Keeps
      <3> QED BY <2>1, <3>1, <3>2, Zenon
    <2> QED BY SMTT(30), <2>2, <2>3
  <1>11. ASSUME NEW p \in Papers' PROVE Shaped(PaperIn(log, p, i))
    <2>1. p \in 1 .. (n + 1) /\ log[p].kind = "dispatch_prepare"
      BY <1>2, Zenon DEF Papers, log, n
    <2>2. CASE p = i
      <3> DEFINE m == MaterialIn(log, i)
      <3>1. i \in Nat /\ i <= i /\ i \in i .. i
        BY <1>3
      <3>2. PICK f : Follows(f, log, i, i) /\ PaperIn(log, i, i) = f[i]
        <4> HIDE DEF i
        <4> QED BY <3>1, PaperUnfolds, Zenon
      <3>3. f[i] = PaperAfter(log, i, i, IF i = i THEN None ELSE f[i - 1])
        BY <3>1, <3>2, Zenon DEF Follows
      <3>4. PaperIn(log, i, i) = DispatchPlan("dispatch_prepare", None, i, m)
        BY SMTT(30), <3>2, <3>3 DEF PaperAfter
      <3>5. "dispatch_prepare" \in PaperKinds
        BY Zenon DEF PaperKinds
      <3> HIDE DEF m, i
      <3> QED BY <2>2, <3>4, <3>5, PlanShaped, Zenon
    <2>3. CASE p # i
      <3>1. p \in 1 .. n
        BY SMTT(30), <1>3, <2>1, <2>3
      <3>2. p \in Papers
        BY <1>3, <2>1, <3>1, Zenon DEF Papers, n, old
      <3> QED BY <1>10, <3>2, Zenon
    <2> QED BY <2>2, <2>3
  <1>12. PapersShaped'
    BY <1>8, <1>11, Zenon DEF PapersShaped
  <1>13. ASSUME NEW p \in Papers PROVE p \in Papers' /\ Keeps(Paper(p), Paper(p)')
    <2>1. p \in 1 .. Len(ops')
      BY <1>2, <1>4 DEF n
    <2>2. ops'[p].kind = "dispatch_prepare"
      BY <1>3, <1>4, Zenon DEF old, log
    <2>3. p \in Papers'
      BY <2>1, <2>2, Zenon DEF Papers
    <2> QED BY <1>8, <1>10, <2>3, Zenon
  <1> QED BY <1>6, <1>12, <1>13, Zenon
=============================================================================
