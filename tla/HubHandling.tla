----------------------------- MODULE HubHandling -----------------------------
(***************************************************************************)
(* Receiving, opening counts, moving, separating and the work that is owed *)
(* on stock.  Every command is planned by the domain on what the readers   *)
(* return, written row by row, and read back before it commits.  A command *)
(* on stale revisions is refused and a repeated command returns the        *)
(* original: neither changes the tables, so neither is a step.             *)
(***************************************************************************)
EXTENDS HubTables

CONSTANT WorkGroups   \* most groups one requirement may name

NextId == Len(ops) + 1

Requirement(t, target, n) ==
  [trace |-> t, target |-> target, required |-> n, completed |-> 0, retired |-> 0,
   remaining |-> n, rev |-> 1]
-----------------------------------------------------------------------------
(***************************************************************************)
(* Receipts.  A receipt always leaves a put-away requirement, whether or   *)
(* not a place was planned for it.                                         *)
(***************************************************************************)
ReceiptAllowed(n, loc, planned, occ, at) ==
  /\ n > 0 /\ loc \in Receiving /\ planned # loc /\ ValidOccurrence(occ, at)

ReceiptPlan(i, n, loc, planned, occ) ==
  [id |-> i, trace |-> i, parent |-> None, label |-> None, place |-> loc, packs |-> n,
   rev |-> 1, floor |-> FloorAfter(0, occ),
   work |-> i :> [progress |-> "pending", req |-> Requirement(i, planned, n)]]

ReceiptAnswer(v, n, loc, planned, occ) ==
  [variant |-> v, packs |-> n, place |-> loc, planned |-> planned, occ |-> occ]

SeedReceipt(i, n, loc, planned) ==
  /\ InsertRoot(i, None)
  /\ pos' = (i :> At(loc, n)) @@ pos
  /\ work' = (i :> Requirement(i, planned, n)) @@ work
  /\ alloc' = (<<i, i>> :> [progress |-> "pending", scoped |-> n]) @@ alloc

Receive(v, n, loc, planned, occ, at) ==
  LET i == NextId IN
  /\ ReceiptAllowed(n, loc, planned, occ, at)
  /\ pop' = (i :> ReceiptAnswer(v, n, loc, planned, occ)) @@ pop
  /\ SeedReceipt(i, n, loc, planned)
  /\ Record(Operation("receipt", at, <<>>, {}, {}), <<Event(i, n, occ, None, loc)>>,
            ReceiptAnswer(v, n, loc, planned, occ), {ReceiptPlan(i, n, loc, planned, occ)})

ReceiptReadable(i) == PopulationReadable(i) /\ Trace(i) = i

ReceiptOriginal(i) == pop[i]
-----------------------------------------------------------------------------
(***************************************************************************)
(* Opening stock: counted at a known time, already labelled, no work owed. *)
(***************************************************************************)
OpeningAllowed(n, label, occ, at) ==
  n > 0 /\ occ.kind = "known" /\ ValidOccurrence(occ, at) /\ ~LabelInUse(label)

OpeningPlan(i, n, loc, label, occ) ==
  [id |-> i, trace |-> i, parent |-> None, label |-> label, place |-> loc, packs |-> n,
   rev |-> 1, floor |-> occ.lo, work |-> <<>>]

OpenStock(v, n, loc, label, occ, at) ==
  LET i == NextId IN
  /\ OpeningAllowed(n, label, occ, at)
  /\ pop' = (i :> ReceiptAnswer(v, n, loc, None, occ)) @@ pop
  /\ InsertRoot(i, label)
  /\ pos' = (i :> At(loc, n)) @@ pos
  /\ UNCHANGED <<work, alloc>>
  /\ Record(Operation("opening", at, <<>>, {}, {}), <<Event(i, n, occ, None, loc)>>,
            ReceiptAnswer(v, n, loc, None, occ), {OpeningPlan(i, n, loc, label, occ)})

\* original_on: an opening population, labelled and owing no planned place.
OpeningReadable(i) ==
  PopulationReadable(i) /\ Trace(i) = i /\ group[i].label # None /\ pop[i].planned = None
-----------------------------------------------------------------------------
(***************************************************************************)
(* Partition: taking some packs off a group makes a labelled child of it;  *)
(* taking all of them is the group itself.                                 *)
(***************************************************************************)
PartitionAllowed(s, n, label) ==
  /\ n \in 1 .. s.packs
  /\ IF n = s.packs THEN label = None ELSE label \notin {None, s.label}

Partition(s, n, child, label) ==
  IF n = s.packs
    THEN [selected |-> [s EXCEPT !.rev = @ + 1], rest |-> None]
    ELSE [selected |-> [s EXCEPT !.id = child, !.parent = s.id, !.label = label,
                                 !.packs = n, !.rev = 1],
          rest |-> [s EXCEPT !.packs = @ - n, !.rev = @ + 1]]

\* ensure_portion_capacity_on.
Portion(s, label) ==
  label # None => /\ ~LabelInUse(label)
                  /\ \A w \in DOMAIN s.work : Cardinality(GroupsOf(w)) < WorkGroups

Rests(p) == IF p.rest = None THEN {} ELSE {p.rest}

(***************************************************************************)
(* write_groups_on: the child's rows are split off its parent's, position  *)
(* and allocations alike; a whole group keeps its rows.                    *)
(***************************************************************************)
WriteGroups(s, p) ==
  LET v == p.selected
      Own == [w \in DOMAIN v.work |-> [progress |-> v.work[w].progress, scoped |-> v.packs]]
  IN  /\ v.id # s.id => v.id \notin Groups
      /\ group' = [g \in Groups \cup {v.id} |->
             CASE g = v.id /\ g # s.id -> [trace |-> v.trace, parent |-> s.id, label |-> v.label,
                                           born |-> NextId, debited |-> None, rev |-> 1]
               [] g = s.id -> [group[g] EXCEPT !.rev = @ + 1]
               [] OTHER -> group[g]]
      /\ pos' = [g \in Groups \cup {v.id} |->
             CASE g = v.id -> At(v.place, v.packs)
               [] g = s.id /\ g # v.id -> [pos[g] EXCEPT ![s.place] = @ - v.packs]
               [] OTHER -> pos[g]]
      /\ alloc' = [k \in DOMAIN alloc \cup {<<v.id, w>> : w \in DOMAIN v.work} |->
             CASE k[1] = v.id -> Own[k[2]]
               [] k[1] = s.id /\ k[1] # v.id -> [alloc[k] EXCEPT !.scoped = @ - v.packs]
               [] OTHER -> alloc[k]]

\* A change of a requirement, as hub_work_changes keeps it.
Change(w, after) ==
  [work |-> w, before |-> IF w \in Works THEN work[w] ELSE None, after |-> after]

WorkChangesReadable(i) ==
  \A c \in ops[i].row.changes :
    IF c.before = None
      THEN c.work = i /\ c.after.rev = 1 /\ c.after.remaining = c.after.required
      ELSE /\ c.after.rev = c.before.rev + 1
           /\ c.after.completed >= c.before.completed /\ c.after.retired >= c.before.retired
           /\ c.after.remaining <= c.before.remaining
-----------------------------------------------------------------------------
(***************************************************************************)
(* Movement.  Packs that arrive where pending work wants them complete it. *)
(***************************************************************************)
MoveAllowed(s, n, to, label, occ, at) ==
  /\ PartitionAllowed(s, n, label) /\ to # s.place
  /\ ValidOccurrence(occ, at) /\ FloorAllows(s.floor, occ)

Done(s, to) == {w \in DOMAIN s.work : s.work[w].progress = "pending" /\ s.work[w].req.target = to}

MovePlan(s, n, child, to, label, occ) ==
  LET p == Partition(s, n, child, label)
      Req(w) == IF w \in Done(s, to) THEN CompletedBy(s.work[w].req, n) ELSE s.work[w].req
      Step(w) == IF w \in Done(s, to) THEN "completed" ELSE s.work[w].progress
      Moved == [w \in DOMAIN s.work |-> [progress |-> Step(w), req |-> Req(w)]]
      Left == [w \in DOMAIN s.work |-> [s.work[w] EXCEPT !.req = Req(w)]]
  IN  [selected |-> [p.selected EXCEPT !.place = to, !.floor = FloorAfter(@, occ), !.work = Moved],
       rest |-> IF p.rest = None THEN None ELSE [p.rest EXCEPT !.work = Left],
       changes |-> {Change(w, Req(w)) : w \in Done(s, to)}]

MoveAnswer(s, p, n, to, label, occ) ==
  [selected |-> s.id, expected |-> s.rev, before |-> s.packs, from |-> s.place, to |-> to,
   packs |-> n, moved |-> p.selected.id, remaining |-> s.packs - n, label |-> label,
   occ |-> occ, changes |-> p.changes]

PartRow(s, p, n) ==
  [selected |-> s.id, expected |-> s.rev, before |-> s.packs, moved |-> p.selected.id,
   packs |-> n, changes |-> p.changes]

MoveStock(g, n, to, label, occ, at) ==
  LET s == ReadGroup(g)
      p == MovePlan(s, n, NextId, to, label, occ)
  IN  /\ MoveAllowed(s, n, to, label, occ, at) /\ Portion(s, label)
      /\ WriteGroups(s, p)
      /\ work' = [w \in Works |-> IF w \in Done(s, to) THEN CompletedBy(work[w], n) ELSE work[w]]
      /\ UNCHANGED pop
      /\ Record(Operation("move", at, PartRow(s, p, n), {}, {}),
                <<Event(p.selected.id, n, occ, s.place, to)>>,
                MoveAnswer(s, p, n, to, label, occ), {p.selected} \cup Rests(p))

\* movement_on and original_on: what the retained rows must still say.
PartReadable(i) ==
  LET r == ops[i].row IN
  /\ r.packs \in 1 .. r.before
  /\ IF r.moved = r.selected THEN r.packs = r.before
     ELSE /\ r.packs < r.before /\ r.moved = i
          /\ group[i].parent = r.selected /\ group[i].born = i
  /\ WorkChangesReadable(i)
  /\ \A e \in EventsOf(i) : events[e].group = r.moved /\ events[e].packs = r.packs

MoveReadable(i) ==
  LET e == events[CHOOSE n \in EventsOf(i) : TRUE] IN
  /\ PartReadable(i) /\ e.from # e.to
  /\ \A c \in ops[i].row.changes : /\ c.before # None /\ c.after.target = e.to
                                   /\ c.after.completed = c.before.completed + ops[i].row.packs
                                   /\ c.after.retired = c.before.retired

MoveOriginal(i) ==
  LET r == ops[i].row
      e == events[CHOOSE n \in EventsOf(i) : TRUE]
  IN  [selected |-> r.selected, expected |-> r.expected, before |-> r.before,
       from |-> e.from, to |-> e.to, packs |-> e.packs, moved |-> r.moved,
       remaining |-> r.before - e.packs,
       label |-> IF r.moved = r.selected THEN None ELSE group[r.moved].label,
       occ |-> e.occ, changes |-> r.changes]
-----------------------------------------------------------------------------
(***************************************************************************)
(* Separation in place.                                                    *)
(***************************************************************************)
SplitAllowed(s, n, label, occ, at) ==
  /\ n < s.packs /\ PartitionAllowed(s, n, label)
  /\ ValidOccurrence(occ, at) /\ FloorAllows(s.floor, occ)

SplitPlan(s, n, child, label, occ) ==
  LET p == Partition(s, n, child, label)
  IN  [selected |-> [p.selected EXCEPT !.floor = FloorAfter(@, occ)], rest |-> p.rest,
       changes |-> {}]

SplitStock(g, n, label, occ, at) ==
  LET s == ReadGroup(g)
      p == SplitPlan(s, n, NextId, label, occ)
  IN  /\ SplitAllowed(s, n, label, occ, at) /\ Portion(s, label)
      /\ WriteGroups(s, p)
      /\ UNCHANGED <<work, pop>>
      /\ Record(Operation("split", at, PartRow(s, p, n), {}, {}),
                <<Event(p.selected.id, n, occ, s.place, s.place)>>,
                MoveAnswer(s, p, n, s.place, label, occ), {p.selected, p.rest})

SplitReadable(i) ==
  LET e == events[CHOOSE n \in EventsOf(i) : TRUE] IN
  /\ PartReadable(i) /\ e.from = e.to /\ ops[i].row.moved = i /\ ops[i].row.changes = {}
-----------------------------------------------------------------------------
(***************************************************************************)
(* New work on chosen groups, and a new target for what is left of old     *)
(* work.                                                                   *)
(***************************************************************************)
NewWorkAllowed(S, target) ==
  /\ S # {} /\ Cardinality(S) <= WorkGroups
  /\ \A g, h \in S : Trace(g) = Trace(h)
  /\ \A g \in S : Place(g) # target /\ Pending(g) = {}

ReplanAllowed(w, target) ==
  LET S == {g \in GroupsOf(w) : Progress(g, w) = "pending" /\ Scoped(g, w) > 0}
  IN  /\ work[w].remaining > 0 /\ target # work[w].target
      /\ \A g \in S : Place(g) # target

Captured(S) == {[group |-> g, rev |-> group[g].rev, packs |-> Packs(g), place |-> Place(g)] : g \in S}

\* The groups after they are given requirement i, and lose pending old.
Tasked(g, i, req, old) ==
  LET s == ReadGroup(g)
      Was(w) == IF w \in old THEN [progress |-> "retired", req |-> RetiredBy(work[w], work[w].remaining)]
                ELSE s.work[w]
  IN  [s EXCEPT !.rev = @ + 1,
                !.work = [w \in DOMAIN s.work \cup {i} |->
                            IF w = i THEN [progress |-> "pending", req |-> req] ELSE Was(w)]]

GiveWork(kind, S, t, target, old, at) ==
  LET i == NextId
      Of(g) == Packs(g)
      req == Requirement(t, target, Total(S, Of))
      changes == {Change(i, req)} \cup {Change(w, RetiredBy(work[w], work[w].remaining)) : w \in old}
      answer == [target |-> target, packs |-> req.required, groups |-> Captured(S), changes |-> changes]
      row == [groups |-> Captured(S), changes |-> changes, previous |-> old]
  IN  /\ work' = (i :> req) @@ [w \in Works |-> IF w \in old THEN RetiredBy(work[w], work[w].remaining)
                                                             ELSE work[w]]
      /\ group' = [g \in Groups |-> IF g \in S THEN [group[g] EXCEPT !.rev = @ + 1] ELSE group[g]]
      /\ alloc' = [k \in DOMAIN alloc \cup {<<g, i>> : g \in S} |->
             CASE k[2] = i -> [progress |-> "pending", scoped |-> Packs(k[1])]
               [] k[2] \in old /\ k[1] \in S -> [alloc[k] EXCEPT !.progress = "retired"]
               [] OTHER -> alloc[k]]
      /\ UNCHANGED <<pop, pos>>
      /\ Record(Operation(kind, at, row, {}, {}), <<Event(t, 0, Unknown, None, None)>>, answer,
                {Tasked(g, i, req, old) : g \in S})

NewWork(S, target, at) ==
  /\ NewWorkAllowed(S, target)
  /\ GiveWork("work_new", S, Trace(CHOOSE g \in S : TRUE), target, {}, at)

Replan(w, target, at) ==
  /\ ReplanAllowed(w, target)
  /\ GiveWork("work_replan", {g \in GroupsOf(w) : Progress(g, w) = "pending" /\ Scoped(g, w) > 0},
              work[w].trace, target, {w}, at)

\* validate_nonphysical_event_on.
NonphysicalEvent(i, t) ==
  \A n \in EventsOf(i) : events[n].group = t /\ events[n].packs = 0
                         /\ events[n].from = None /\ events[n].to = None /\ events[n].occ = Unknown

\* work_on of a new or replanned requirement.
WorkActionReadable(i) ==
  LET r == ops[i].row
      Of(c) == c.packs
      prior == {c \in r.changes : c.before # None}
  IN  /\ WorkChangesReadable(i) /\ NonphysicalEvent(i, work[i].trace)
      /\ r.groups # {} /\ Total(r.groups, Of) = work[i].required
      /\ \A c \in r.groups : /\ c.packs > 0 /\ c.place # work[i].target
                             /\ Trace(c.group) = work[i].trace
      /\ Cardinality(r.changes) = 1 + Cardinality(r.previous)
      /\ \A c \in prior : /\ c.work \in r.previous /\ c.before.trace = work[i].trace
                          /\ c.before.remaining = work[i].required /\ c.after.remaining = 0
                          /\ c.after.completed = c.before.completed

WorkActionOriginal(i) ==
  [target |-> work[i].target, packs |-> work[i].required, groups |-> ops[i].row.groups,
   changes |-> ops[i].row.changes]
-----------------------------------------------------------------------------
(***************************************************************************)
(* Discrepancies: something noticed about a population or one of its       *)
(* groups, which also one that has left, and its single resolution.        *)
(***************************************************************************)
Issues == {i \in 1 .. Len(ops) : ops[i].kind = "discrepancy_open"}
Resolutions(d) == {i \in 1 .. Len(ops) : ops[i].kind = "discrepancy_resolve" /\ ops[i].row.issue = d}

OpenIssue(t, g, at) ==
  /\ g # None => Trace(g) = t
  /\ UNCHANGED <<pop, group, pos, work, alloc>>
  /\ Record(Operation("discrepancy_open", at, [trace |-> t, group |-> g], {}, {}),
            <<Event(t, 0, Unknown, None, None)>>,
            [issue |-> NextId, group |-> g, rev |-> 1, resolved |-> FALSE], {})

ResolveIssue(d, at) ==
  /\ d \in Issues /\ Resolutions(d) = {}
  /\ UNCHANGED <<pop, group, pos, work, alloc>>
  /\ Record(Operation("discrepancy_resolve", at, [issue |-> d], {}, {}),
            <<Event(ops[d].row.trace, 0, Unknown, None, None)>>,
            [issue |-> d, group |-> ops[d].row.group, rev |-> 2, resolved |-> TRUE], {})

\* creation_on, value_on and original_on.
IssueReadable(i) ==
  IF ops[i].kind = "discrepancy_open"
    THEN NonphysicalEvent(i, ops[i].row.trace)
    ELSE ops[i].row.issue < i /\ NonphysicalEvent(i, ops[ops[i].row.issue].row.trace)

IssueOriginal(i) ==
  LET d == IF ops[i].kind = "discrepancy_open" THEN i ELSE ops[i].row.issue
      closed == ops[i].kind = "discrepancy_resolve"
  IN  [issue |-> d, group |-> ops[d].row.group, rev |-> IF closed THEN 2 ELSE 1, resolved |-> closed]
=============================================================================
