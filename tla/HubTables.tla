------------------------------ MODULE HubTables ------------------------------
(***************************************************************************)
(* The stock tables of a hub and their strict readers.  Operations and     *)
(* events are append-only; populations and the identity of a group never   *)
(* change; positions, requirements and their allocations to groups are     *)
(* updated in place.  Nothing is believed because it is stored: a group, a *)
(* requirement or a lineage is read back by recomputing it from the        *)
(* journal, and any disagreement is reported as a corrupt store, which     *)
(* stops the hub.  The readers are predicates here, and that they accept   *)
(* every state the operations reach is what the operations' modules check. *)
(*                                                                         *)
(* Identifiers are derived from the operation that creates the record, so  *)
(* a population, a group or a requirement is named by its operation.       *)
(* Operation i leads from stock revision i to i + 1.                       *)
(***************************************************************************)
EXTENDS Naturals, Sequences, FiniteSets, FiniteSetsExt, TLC

CONSTANTS None,
          Variants,     \* packs of the reference catalog
          Locations,    \* its locations,
          Receiving,    \*   those that may receive
          Labels,       \* physical labels
          MaxPacks      \* most packs one command names

ASSUME HubAssumption == None \notin Nat

VARIABLES ops,    \* hub_stock_operations, each with the detail rows it inserted
          events, \* hub_stock_events
          pop,    \* hub_receipts: populations
          group,  \* hub_stock_groups and hub_group_identification
          pos,    \* hub_stock_positions
          work,   \* hub_work_requirements
          alloc,  \* hub_group_work
          told,   \* the answer every operation first gave
          plan    \* the groups the last operation's plan said it would leave

tables == <<ops, events, pop, group, pos, work, alloc>>
tableVars == <<tables, told, plan>>

Known(t)       == [kind |-> "known", lo |-> t, hi |-> t]
Interval(s, t) == [kind |-> "interval", lo |-> s, hi |-> t]
Unknown        == [kind |-> "unknown", lo |-> 0, hi |-> 0]

Revision == Len(ops)

EmptyTables ==
  /\ ops = <<>> /\ events = <<>> /\ pop = <<>> /\ group = <<>>
  /\ pos = <<>> /\ work = <<>> /\ alloc = <<>> /\ told = <<>> /\ plan = {}
-----------------------------------------------------------------------------
(***************************************************************************)
(* Occurrences.  When something happened is a claim; only the time it was  *)
(* recorded is the hub's own.                                              *)
(***************************************************************************)
ValidOccurrence(o, at) == o.lo <= o.hi /\ o.hi <= at

\* observation_floor: an occurrence must not end before the latest start of
\* what already happened to the same packs.
FloorAllows(floor, o) == o.kind = "unknown" \/ o.hi >= floor

FloorAfter(floor, o) == IF o.lo > floor THEN o.lo ELSE floor
-----------------------------------------------------------------------------
Total(S, Op(_)) == MapThenSumSet(Op, S)

Groups == DOMAIN group
Works  == DOMAIN work

OnHandAt(g, l) == pos[g][l]
Packs(g) == LET At(l) == OnHandAt(g, l) IN Total(Locations, At)
Live == {g \in Groups : Packs(g) > 0}
Place(g) == CHOOSE l \in Locations : pos[g][l] > 0

Trace(g)   == group[g].trace
Variant(g) == pop[Trace(g)].variant
Members(t) == {g \in Groups : Trace(g) = t}
Children(g) == {c \in Groups : group[c].parent = g}

WorkOf(g)    == {w \in Works : <<g, w>> \in DOMAIN alloc}
GroupsOf(w)  == {g \in Groups : <<g, w>> \in DOMAIN alloc}
Scoped(g, w) == alloc[<<g, w>>].scoped
Progress(g, w) == alloc[<<g, w>>].progress
Pending(g)   == {w \in WorkOf(g) : Progress(g, w) = "pending"}

LabelInUse(l) == \E g \in Live : group[g].label = l

\* What an operation took away from a group: departure lines, dispositions,
\* counted shortages and reviewed actual departures.
Debit(i, g) ==
  LET Of(d) == IF d.group = g THEN d.packs ELSE 0
  IN  Total(ops[i].debits, Of)

\* creation_on: what the creating operation says about the group.  A found
\* remainder says which debit it was recovered from.
BirthPacks(g) ==
  CASE group[g].parent = None -> pop[Trace(g)].packs
    [] group[g].debited # None -> (CHOOSE f \in ops[group[g].born].row.found : f.group = g).packs
    [] OTHER -> ops[g].row.packs

Births(S) == LET Of(g) == BirthPacks(g) IN Total(S, Of)

\* original_physical_net_on: a debit counts less what was found again of it.
Recovered(i, g, cut) ==
  Births({c \in Children(g) : group[c].debited = i /\ group[c].born <= cut})

\* physical_outflows_on.
Outflow(g, cut) == LET Of(i) == Debit(i, g) - Recovered(i, g, cut) IN Total(1 .. cut, Of)

(***************************************************************************)
(* The quantity of a departure line as corrected: additional quantity      *)
(* reported later is added, remainders found later are taken off, whatever *)
(* physical group either of them touched.                                  *)
(***************************************************************************)
DepartureKinds == {"departure", "actual_review"}

Amendments(d, g, cut) ==
  {i \in 1 .. cut : /\ ops[i].kind \in {"correction_found", "correction_additional"}
                    /\ ops[i].row.target = <<d, g>>}

AmendedBy(d, g, kind, cut) ==
  LET Of(i) == IF ops[i].kind = kind THEN ops[i].row.packs ELSE 0
  IN  Total(Amendments(d, g, cut), Of)

Effective(d, g, cut) ==
  Debit(d, g) + AmendedBy(d, g, "correction_additional", cut)
              - AmendedBy(d, g, "correction_found", cut)

\* trace_on of departures and of reviewed actual departures.
DepartedPacks(t, kind, cut) ==
  LET Of(i) == IF ops[i].kind = kind
                 THEN LET By(g) == IF Debit(i, g) = 0 THEN 0 ELSE Effective(i, g, cut)
                      IN  Total(Members(t), By)
                 ELSE 0
  IN  Total(1 .. cut, Of)

\* trace_on of dispositions, loss_quantity_on of count reconciliations.
OutflowOf(t, kind, cut) ==
  LET Of(i) == IF ops[i].kind = kind
                 THEN LET By(g) == Debit(i, g) IN Total(Members(t), By) ELSE 0
  IN  Total(1 .. cut, Of)

\* Work that a counted shortage or a reviewed departure took out of a scope.
Removed(w, progress) ==
  LET Of(i) == LET Row(r) == IF r.work = w /\ r.progress \in progress THEN r.packs ELSE 0
               IN  Total(ops[i].removed, Row)
  IN  Total(1 .. Len(ops), Of)
-----------------------------------------------------------------------------
(***************************************************************************)
(* journal_state_on: the journal itself.                                   *)
(***************************************************************************)
EventKinds == {"receipt", "opening", "return", "move", "split", "count_post",
               "actual_review", "correction_found", "correction_additional"}

JournalOnly == {"actual_report", "correction_observe", "correction_source", "correction_recipient",
                "correction_count_explain", "correction_count_classify"}

EventsOf(i) == {n \in 1 .. Len(events) : events[n].op = i}

EventCount(i) ==
  CASE ops[i].kind \in {"departure", "actual_review"} -> Cardinality(ops[i].debits)
    [] ops[i].kind = "correction_found" -> Cardinality(ops[i].row.found)
    [] ops[i].kind = "count_post" -> IF i \in Groups THEN 2 ELSE 1
    [] ops[i].kind \in JournalOnly -> 0
    [] OTHER -> 1

JournalReadable ==
  /\ \A i \in 1 .. Len(ops) : Cardinality(EventsOf(i)) = EventCount(i)
  /\ \A n \in 1 .. Len(events) :
       /\ events[n].op \in 1 .. Len(ops)
       /\ n > 1 => events[n - 1].op <= events[n].op
       /\ ValidOccurrence(events[n].occ, ops[events[n].op].at)
-----------------------------------------------------------------------------
(***************************************************************************)
(* causal_floor_bound_on: the latest start among the physical events of a  *)
(* group and, up to the moment each child left, of its ancestors.          *)
(***************************************************************************)
Lineage(g, cut) ==
  LET Up[x \in Groups] ==
        IF group[x].parent = None THEN {<<x, cut>>}
        ELSE {<<x, cut>>} \cup
             {<<a[1], Min({a[2], group[x].born - 1})>> : a \in Up[group[x].parent]}
  IN  Up[g]

CausalFloor(g, cut) ==
  Max({0} \cup {events[n].occ.lo : n \in {k \in 1 .. Len(events) :
        /\ ops[events[k].op].kind \in EventKinds
        /\ \E a \in Lineage(g, cut) : events[k].group = a[1] /\ events[k].op <= a[2]}})

Floor(g) == CausalFloor(g, Revision)
-----------------------------------------------------------------------------
(***************************************************************************)
(* work_on: the counters of a requirement against its allocations, the     *)
(* positions of its pending groups and what counts have removed.           *)
(***************************************************************************)
ScopedAs(w, progress) ==
  LET Of(g) == IF Progress(g, w) \in progress THEN Scoped(g, w) ELSE 0
  IN  Total(GroupsOf(w), Of)

AnyProgress == {"pending", "completed", "retired"}

DefinitionReadable(w) ==
  /\ w \in 1 .. Len(ops) /\ ops[w].kind \in {"receipt", "return", "work_new", "work_replan"}
  /\ work[w].required > 0
  /\ ops[w].kind = "receipt" =>
       /\ work[w].trace = w /\ work[w].required = pop[w].packs
       /\ work[w].target = pop[w].planned
  /\ ops[w].kind = "return" =>
       work[w].trace = w /\ work[w].required = pop[w].packs /\ work[w].target = ops[w].row.target

WorkReadable(w) ==
  /\ DefinitionReadable(w)
  /\ work[w].completed + work[w].retired + work[w].remaining = work[w].required
  /\ work[w].target = None => work[w].completed = 0
  /\ GroupsOf(w) # {}
  /\ \A g \in GroupsOf(w) :
       /\ Trace(g) = work[w].trace
       /\ Progress(g, w) = "pending" => Scoped(g, w) = Packs(g)
  /\ ScopedAs(w, AnyProgress) + Removed(w, AnyProgress) = work[w].required
  /\ ScopedAs(w, {"pending"}) = work[w].remaining
  /\ ScopedAs(w, {"completed"}) + Removed(w, {"completed"}) = work[w].completed
  /\ ScopedAs(w, {"retired"}) + Removed(w, {"retired"}) = work[w].retired
-----------------------------------------------------------------------------
(***************************************************************************)
(* Populations and the birth of a group.                                   *)
(***************************************************************************)
OriginKinds == {"receipt", "opening", "return", "count_post"}

PopulationReadable(t) ==
  /\ ops[t].kind \in OriginKinds
  /\ pop[t].packs > 0 /\ ValidOccurrence(pop[t].occ, ops[t].at)
  /\ ops[t].kind = "opening" => pop[t].occ.kind = "known"
  /\ \E n \in EventsOf(t) : events[n].group = t /\ events[n].packs = pop[t].packs

\* birth_on: a group found again names the debit it came from.
FoundReadable(g) ==
  LET i == group[g].born IN
  /\ ops[i].kind = "correction_found" /\ group[g].debited < i
  /\ Cardinality({f \in ops[i].row.found : f.group = g}) = 1
  /\ \A f \in ops[i].row.found :
       f.group = g => /\ f.debit = <<group[g].debited, group[g].parent>> /\ f.label = group[g].label
                      /\ Debit(group[g].debited, group[g].parent) > 0

PartBirthReadable(g) ==
  /\ group[g].born = g /\ ops[g].kind \in {"move", "split"}
  /\ ops[g].row.selected = group[g].parent /\ ops[g].row.moved = g

BirthReadable(g) ==
  IF group[g].parent = None
    THEN /\ group[g].born = g /\ Trace(g) = g /\ PopulationReadable(g)
         /\ (group[g].label = None) <=> (ops[g].kind = "receipt")
    ELSE /\ group[g].label # None /\ Trace(group[g].parent) = Trace(g)
         /\ group[group[g].parent].born < group[g].born
         /\ IF group[g].debited # None THEN FoundReadable(g) ELSE PartBirthReadable(g)

\* The packs of a population are on hand, departed, disposed of or lost.
Conserved(t) ==
  LET On(g) == Packs(g)
  IN  pop[t].packs = Total(Members(t), On)
                       + DepartedPacks(t, "departure", Revision)
                       + DepartedPacks(t, "actual_review", Revision)
                       + OutflowOf(t, "disposition", Revision)
                       + OutflowOf(t, "count_post", Revision)

(***************************************************************************)
(* require_on_hand_on: a group that left was left exactly as the operation *)
(* that took it recorded.                                                  *)
(***************************************************************************)
Exits(g) ==
  {i \in 1 .. Len(ops) : \E d \in ops[i].debits : d.group = g /\ d.after = 0}

ExitReadable(g) ==
  \A i \in Exits(g) :
    \A d \in ops[i].debits : d.group = g => group[g].rev = d.rev /\ Packs(g) = 0

(***************************************************************************)
(* PhysicalStockGroup: a group on hand as the domain sees it, read from    *)
(* its position, its identity, its journal and its requirements.           *)
(***************************************************************************)
ReadGroup(g) ==
  [id |-> g, trace |-> Trace(g), parent |-> group[g].parent, label |-> group[g].label,
   place |-> Place(g), packs |-> Packs(g), rev |-> group[g].rev, floor |-> Floor(g),
   work |-> [w \in WorkOf(g) |-> [progress |-> Progress(g, w), req |-> work[w]]]]

Accounted(v, w) ==
  CASE v.work[w].progress = "pending" -> v.work[w].req.remaining
    [] v.work[w].progress = "completed" -> v.work[w].req.completed
    [] v.work[w].progress = "retired" -> v.work[w].req.retired

GroupValid(v) ==
  /\ v.packs > 0 /\ v.parent # v.id
  /\ v.parent # None => v.label # None
  /\ \A w \in DOMAIN v.work :
       /\ v.work[w].req.trace = v.trace /\ Accounted(v, w) >= v.packs
       /\ v.work[w].progress = "pending" => v.work[w].req.target # v.place

\* group_with_mass_on: what the reader recomputes before it returns one.
GroupReadable(g) ==
  /\ BirthReadable(g) /\ Conserved(Trace(g))
  /\ group[g].label # None =>
       Cardinality({x \in Live : group[x].label = group[g].label}) = 1
  /\ Cardinality({l \in Locations : pos[g][l] > 0}) = 1
  /\ \A w \in WorkOf(g) : Scoped(g, w) = Packs(g) /\ WorkReadable(w)
  /\ GroupValid(ReadGroup(g))
-----------------------------------------------------------------------------
(***************************************************************************)
(* births_for_rows_on: summed from the last birth back to the first, what  *)
(* a group still holds, has given to its children and has lost is what it  *)
(* was born with.                                                          *)
(***************************************************************************)
BirthsReadable(t) ==
  \A g \in Members(t) :
    Packs(g) + Outflow(g, Revision) + Births(Children(g)) = BirthPacks(g)

(***************************************************************************)
(* historical quantities: the packs a group held at an earlier revision,   *)
(* from births and outflows only.                                          *)
(***************************************************************************)
PacksAt(g, cut) ==
  BirthPacks(g) - Outflow(g, cut) - Births({c \in Children(g) : group[c].born <= cut})

\* load_on: the current lineage of a population.
LineageReadable(t) ==
  /\ Members(t) # {}
  /\ \A g \in Members(t) :
       /\ BirthReadable(g)
       /\ Cardinality({l \in Locations : pos[g][l] > 0}) <= 1
       /\ Packs(g) > 0 /\ group[g].label # None =>
            Cardinality({x \in Live : group[x].label = group[g].label}) = 1
  /\ Cardinality({g \in Members(t) : group[g].parent = None}) = 1
  /\ Conserved(t)
-----------------------------------------------------------------------------
(***************************************************************************)
(* Writing.  An operation appends itself, its detail rows and its events,  *)
(* and remembers the answer it gave.                                       *)
(***************************************************************************)
Event(g, n, occ, from, to) ==
  [op |-> Len(ops) + 1, group |-> g, packs |-> n, occ |-> occ, from |-> from, to |-> to]

Operation(kind, at, row, debits, removed) ==
  [kind |-> kind, at |-> at, row |-> row, debits |-> debits, removed |-> removed]

\* The answer is the first one given; the plan is what a second read of the
\* groups must find before the transaction commits.
Record(op, new, answer, groups) ==
  /\ ops' = Append(ops, op)
  /\ events' = events \o new
  /\ told' = Append(told, answer)
  /\ plan' = groups

\* A row of hub_stock_groups is inserted under a key the table does not have yet.
InsertGroups(rows) ==
  /\ DOMAIN rows \cap Groups = {}
  /\ group' = [g \in DOMAIN rows \cup Groups |-> IF g \in DOMAIN rows THEN rows[g] ELSE group[g]]

\* A group that starts a population.
InsertRoot(i, label) ==
  InsertGroups([g \in {i} |-> [trace |-> i, parent |-> None, label |-> label, born |-> i,
                                debited |-> None, rev |-> 1]])

\* A requirement's counters after packs of it are done or dropped.
CompletedBy(r, n) == [r EXCEPT !.completed = @ + n, !.remaining = @ - n, !.rev = @ + 1]
RetiredBy(r, n)   == [r EXCEPT !.retired = @ + n, !.remaining = @ - n, !.rev = @ + 1]

At(l, n) == [x \in Locations |-> IF x = l THEN n ELSE 0]
=============================================================================
