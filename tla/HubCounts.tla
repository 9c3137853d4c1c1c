------------------------------ MODULE HubCounts ------------------------------
(***************************************************************************)
(* Counts.  An observation changes nothing: it captures a group as it was  *)
(* recorded and what was counted.  A review compares it with the group as  *)
(* it is now and names every reason not to post it.  Posting a shortage    *)
(* shrinks the group and retires its pending work; posting a surplus makes *)
(* a population of its own.                                                *)
(***************************************************************************)
EXTENDS HubCustody

CountKinds == EventKinds \cup {"departure", "disposition"}

(***************************************************************************)
(* latest_physical_on: the latest clock at which something physical was    *)
(* recorded on the group or, before it left them, on its ancestors.        *)
(***************************************************************************)
LatestPhysicalAt(g, cut) ==
  Max({0} \cup {ops[i].at : i \in {k \in OpsOf(CountKinds) :
        \E a \in Lineage(g, cut), n \in EventsOf(k) : events[n].group = a[1] /\ k <= a[2]}})

LatestPhysical(g) == LatestPhysicalAt(g, Revision)

LatestOf(S) == IF S = {} THEN None ELSE Max(S)

PreviousReconciliation(g, cut) ==
  LatestOf({i \in OpsOf({"count_post"}) : i <= cut /\ \E n \in EventsOf(i) : events[n].group = g})

LatestObservation(g) == LatestOf({i \in OpsOf({"count_observe"}) : ops[i].row.scope.group = g})
-----------------------------------------------------------------------------
(***************************************************************************)
(* CountObserveCommand::plan and CountObservation::validate.               *)
(***************************************************************************)
CountScope(g) ==
  [at |-> Revision, group |-> g, rev |-> group[g].rev, place |-> Place(g), packs |-> Packs(g),
   latest |-> LatestPhysical(g), previous |-> PreviousReconciliation(g, Revision)]

CountContextValid(g) == Floor(g) <= LatestPhysical(g)

ObserveAllowed(g, cutoff, at) ==
  /\ CountContextValid(g) /\ ValidOccurrence(cutoff, at) /\ LatestPhysical(g) <= at

Observe(g, counted, cutoff, at) ==
  LET row == [scope |-> CountScope(g), counted |-> counted, cutoff |-> cutoff] IN
  /\ ObserveAllowed(g, cutoff, at)
  /\ UNCHANGED <<pop, group, pos, work, alloc>>
  /\ Record(Operation("count_observe", at, row, {}, {}), <<Event(g, counted, cutoff, None, None)>>,
            row, {})

CountObserved == OpsOf({"count_observe"})

ObservationValid(i) ==
  LET c == ops[i].row IN
  /\ c.scope.at = i - 1 /\ c.scope.packs > 0
  /\ c.scope.latest <= ops[i].at /\ ValidOccurrence(c.cutoff, ops[i].at)

\* original_on: the scope is restored at the revision it was captured at.
ObservationReadable(i) ==
  LET c == ops[i].row
      g == c.scope.group
  IN  /\ ObservationValid(i)
      /\ c.scope.latest = LatestPhysicalAt(g, i - 1)
      /\ c.scope.previous = PreviousReconciliation(g, i - 1)
      /\ \A n \in EventsOf(i) : /\ events[n].group = g /\ events[n].packs = c.counted
                                /\ events[n].occ = c.cutoff

ObservationOriginal(i) == ops[i].row
-----------------------------------------------------------------------------
(***************************************************************************)
(* CountObservation::review.  A history that contradicts itself is an      *)
(* error of the store, not a reason to wait.                               *)
(***************************************************************************)
Difference(c) ==
  IF c.counted = c.scope.packs THEN "none"
  ELSE IF c.counted < c.scope.packs THEN "shortage"
  ELSE "surplus"

ReviewHistoryValid(i) ==
  LET g == ops[i].row.scope.group IN
  ObservationValid(i) /\ CountContextValid(g) /\ LatestPhysical(g) >= ops[i].row.scope.latest

Blockers(i) ==
  LET c == ops[i].row
      g == c.scope.group
  IN  {b \in {"scope_changed", "newer_reconciliation", "not_latest", "cutoff_precedes",
              "cutoff_uncertain", "unresolved_actual"} :
        CASE b = "scope_changed" -> \/ Place(g) # c.scope.place \/ Packs(g) # c.scope.packs
                                    \/ group[g].rev # c.scope.rev
          [] b = "newer_reconciliation" -> PreviousReconciliation(g, Revision) # c.scope.previous
          [] b = "not_latest" -> LatestObservation(g) # i
          [] b = "cutoff_precedes" -> c.cutoff.kind = "known" /\ c.cutoff.lo < LatestPhysical(g)
          [] b = "cutoff_uncertain" -> c.cutoff.kind # "known"
          [] b = "unresolved_actual" -> UnresolvedActual}
-----------------------------------------------------------------------------
(***************************************************************************)
(* CountPostCommand::plan.                                                 *)
(***************************************************************************)
PostAllowed(i, label, at) ==
  LET c == ops[i].row
      g == c.scope.group
  IN  /\ g \in Live /\ at >= ops[i].at /\ at >= LatestPhysical(g)
      /\ ReviewHistoryValid(i) /\ Blockers(i) = {}
      /\ (Difference(c) = "surplus") <=> (label # None)
      /\ label # None => ~LabelInUse(label)

ShortageChanges(v, n) ==
  {[work |-> w, before |-> v.work[w].req, after |-> RetiredBy(v.work[w].req, n)] :
     w \in {u \in DOMAIN v.work : v.work[u].progress = "pending"}}

\* work_scope_changes: what the missing packs take out of each scope.
ShortageRemoved(v, n) ==
  {[work |-> w, packs |-> n,
    progress |-> IF v.work[w].progress = "pending" THEN "retired" ELSE v.work[w].progress] :
     w \in DOMAIN v.work}

CountPost(i, at) ==
  LET c == ops[i].row
      v == ReadGroup(c.scope.group)
      short == Difference(c) = "shortage"
  IN  [count |-> i, observed |-> c, before |-> v, effect |-> Difference(c), confirmed |-> c.cutoff.lo,
       changed |-> IF short THEN v.packs - c.counted
                   ELSE IF c.counted > v.packs THEN c.counted - v.packs ELSE 0,
       after |-> IF short THEN c.counted ELSE v.packs,
       rev |-> IF short THEN v.rev + 1 ELSE v.rev,
       changes |-> IF short THEN ShortageChanges(v, v.packs - c.counted) ELSE {},
       removed |-> IF short THEN ShortageRemoved(v, v.packs - c.counted) ELSE {}]

\* CountPostPlan::validate.
PostValid(p, i) ==
  LET c == p.observed IN
  /\ ObservationValid(p.count) /\ GroupValid(p.before)
  /\ p.count < i /\ ops[p.count].at <= ops[i].at
  /\ c.cutoff = Known(p.confirmed) /\ p.confirmed >= c.scope.latest
  /\ p.before.floor <= p.confirmed
  /\ p.before.id = c.scope.group /\ p.before.place = c.scope.place
  /\ p.before.rev = c.scope.rev /\ p.before.packs = c.scope.packs
  /\ p.effect = Difference(c)
  /\ p.effect = "shortage" => /\ p.after = c.counted /\ p.rev = p.before.rev + 1
                              /\ p.changes = ShortageChanges(p.before, p.changed)
                              /\ p.removed = ShortageRemoved(p.before, p.changed)

\* CountPostPlan::surplus: new stock, known to be there at the count's cutoff.
SurplusPlan(i, p, label) ==
  [id |-> i, trace |-> i, parent |-> None, label |-> label, place |-> p.before.place,
   packs |-> p.changed, rev |-> 1, floor |-> p.confirmed, work |-> <<>>]

SurplusPopulation(p) ==
  ReceiptAnswer(Variant(p.before.id), p.changed, p.before.place, None, Known(p.confirmed))

\* apply_on, by effect.
WriteShortage(p) ==
  LET g == p.before.id IN
  /\ group' = [group EXCEPT ![g].rev = p.rev]
  /\ pos' = [pos EXCEPT ![g][p.before.place] = p.after]
  /\ work' = [w \in Works |-> IF \E c \in p.changes : c.work = w
                                THEN (CHOOSE c \in p.changes : c.work = w).after ELSE work[w]]
  /\ alloc' = [k \in DOMAIN alloc |-> IF k[1] = g THEN [alloc[k] EXCEPT !.scoped = p.after] ELSE alloc[k]]
  /\ UNCHANGED pop

WriteSurplus(i, p, label) ==
  /\ pop' = (i :> SurplusPopulation(p)) @@ pop
  /\ InsertRoot(i, label)
  /\ pos' = (i :> At(p.before.place, p.changed)) @@ pos
  /\ UNCHANGED <<work, alloc>>

Post(i, label, at) ==
  LET p == CountPost(i, at)
      g == p.before.id
      n == NextId
      debit == IF p.effect = "shortage"
                 THEN {[group |-> g, packs |-> p.changed, after |-> p.after, rev |-> p.rev]} ELSE {}
      seen == Event(g, p.changed, Known(p.confirmed), None, None)
      kept == [p.before EXCEPT !.packs = p.after, !.rev = p.rev,
                               !.floor = FloorAfter(@, Known(p.confirmed)),
                               !.work = [w \in DOMAIN @ |->
                                 IF \E c \in p.changes : c.work = w
                                   THEN [@[w] EXCEPT !.req = RetiredBy(@, p.changed)] ELSE @[w]]]
  IN  /\ PostAllowed(i, label, at)
      /\ CASE p.effect = "none" -> UNCHANGED <<pop, group, pos, work, alloc>>
           [] p.effect = "shortage" -> WriteShortage(p)
           [] p.effect = "surplus" -> WriteSurplus(n, p, label)
      /\ Record(Operation("count_post", at, p, debit, p.removed),
                IF p.effect = "surplus"
                  THEN <<seen, Event(n, p.changed, Known(p.confirmed), None, p.before.place)>>
                  ELSE <<seen>>,
                p,
                (IF p.after > 0 THEN {kept} ELSE {})
                  \cup (IF p.effect = "surplus" THEN {SurplusPlan(n, p, label)} ELSE {}))

(***************************************************************************)
(* original_on, verify_surplus_on, verify_events_on, validate_headers_on   *)
(* and require_not_counted_empty_on.                                       *)
(***************************************************************************)
PostEventsReadable(i) ==
  LET p == ops[i].row IN
  \A n \in EventsOf(i) :
    /\ events[n].packs = p.changed /\ events[n].occ = Known(p.confirmed) /\ events[n].from = None
    /\ \/ events[n].group = p.before.id /\ events[n].to = None
       \/ p.effect = "surplus" /\ events[n].group = i /\ events[n].to = p.before.place

SurplusReadable(i) ==
  LET p == ops[i].row IN
  IF p.effect = "surplus"
    THEN i \in Groups /\ pop[i] = SurplusPopulation(p) /\ group[i].parent = None /\ group[i].label # None
    ELSE i \notin Groups

CountedEmptyReadable(i) ==
  LET p == ops[i].row
      emptied == p.effect = "shortage" /\ p.after = 0
  IN  emptied => Packs(p.before.id) = 0 /\ group[p.before.id].rev = p.rev

PostReadable(i) ==
  LET p == ops[i].row IN
  /\ ops[p.count].kind = "count_observe" /\ p.observed = ops[p.count].row
  /\ PostValid(p, i) /\ PostEventsReadable(i) /\ SurplusReadable(i) /\ CountedEmptyReadable(i)
  /\ \A w \in DOMAIN p.before.work : p.before.work[w].req.required = work[w].required

PostOriginal(i) == ops[i].row
=============================================================================
