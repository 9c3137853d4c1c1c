----------------------------- MODULE HubActuals -----------------------------
(***************************************************************************)
(* Actual departures found out later.  A report keeps what somebody says   *)
(* happened, however incomplete; it changes no stock.  A review closes it  *)
(* once: either as a departure nobody had recorded, which takes packs out  *)
(* of one group and says how every hold stood when they left, or as a link *)
(* to a departure the ledger already knows.                                *)
(***************************************************************************)
EXTENDS HubCounts

Bounded(o) == o.kind # "unknown"

Overlaps(a, b) == Bounded(a) /\ Bounded(b) => a.lo <= b.hi /\ b.lo <= a.hi

\* refines: a review may narrow the reported time, never move or forget it.
Refines(said, o) == Bounded(said) => Bounded(o) /\ said.lo <= o.lo /\ o.hi <= said.hi
-----------------------------------------------------------------------------
(***************************************************************************)
(* Reports: [variant, recipient, packs, sources, occ], each None when it   *)
(* is not claimed; sources is a set of [trace, group, place].              *)
(***************************************************************************)
ReportAllowed(claim) ==
  claim.packs # 0 /\ claim.sources # {} /\ claim.occ.lo <= claim.occ.hi

\* recording_clock_assessment: a report may claim a time after its own clock.
RecordingClock(claim, at) ==
  IF ~Bounded(claim.occ) THEN "unknown"
  ELSE IF claim.occ.hi <= at THEN "not_after"
  ELSE "conflict"

ReportAnswer(claim, at) == [claim |-> claim, clock |-> RecordingClock(claim, at)]

\* apply_on: the operation, the report and its open marker; no stock event.
Report(claim, at) ==
  /\ ReportAllowed(claim)
  /\ Record(Operation("actual_report", at, claim, {}, {}), <<>>, ReportAnswer(claim, at), {})
  /\ UNCHANGED <<pop, group, pos, work, alloc>>

ReportReadable(r) ==
  /\ ReportAllowed(ops[r].row) /\ EventsOf(r) = {}
  /\ \A i \in ClosedBy(r) : i > r

ReportOriginal(r) == ReportAnswer(ops[r].row, ops[r].at)
-----------------------------------------------------------------------------
(***************************************************************************)
(* source_original_on: where packs of a group are known to have been after *)
(* an operation that made or moved them.                                   *)
(***************************************************************************)
FoundAs(g) == CHOOSE f \in ops[group[g].born].row.found : f.group = g

BirthOcc(g) ==
  CASE group[g].parent = None -> pop[g].occ
    [] group[g].debited # None -> Known(ops[group[g].born].at)
    [] OTHER -> events[CHOOSE n \in EventsOf(g) : TRUE].occ

SourceKnown(i, g) ==
  \/ ops[i].kind \in OriginKinds \cup {"split", "correction_found"} /\ g \in Groups /\ group[g].born = i
  \/ ops[i].kind = "move" /\ ops[i].row.moved = g

Source(i, g) ==
  LET moved == ops[i].kind \in {"move", "split"}
      e == events[CHOOSE n \in EventsOf(i) : TRUE]
  IN  [op |-> i, group |-> g,
       place |-> IF moved THEN e.to ELSE IF group[g].debited # None THEN FoundAs(g).place ELSE pop[g].place,
       packs |-> IF moved THEN ops[i].row.packs ELSE BirthPacks(g),
       occ |-> IF moved THEN e.occ ELSE BirthOcc(g)]

\* activity_on: what happened physically to a population after the source.
ActivityEffect(n) ==
  LET k == ops[events[n].op].kind
      born == events[n].group \in Groups /\ group[events[n].group].born = events[n].op
  IN  CASE k \in OriginKinds \cup {"split", "correction_found"} /\ born -> "born"
        [] k = "move" -> IF born THEN "born" ELSE "moved"
        [] k = "count_post" -> "counted"
        [] OTHER -> "other"

Activity(t, from, cut) ==
  {n \in 1 .. Len(events) : /\ from < events[n].op /\ events[n].op <= cut
                            /\ ops[events[n].op].kind \in CountKinds
                            /\ Trace(events[n].group) = t}
-----------------------------------------------------------------------------
(***************************************************************************)
(* The frozen context of a review: the revision it was planned at, what    *)
(* every group of the population held, and the group it reduces.           *)
(***************************************************************************)
Context(g) ==
  [cut |-> Revision, held |-> [x \in Members(Trace(g)) |-> Packs(x)], group |-> ReadGroup(g)]

FrozenContext(i) ==
  [cut |-> i - 1, held |-> ops[i].row.lineage, group |-> ops[i].row.before]

HeldBy(c, scope) == {x \in DOMAIN c.held : c.held[x] > 0 /\ Covers(scope, x)}

HeldPacks(c, scope) == LET Of(x) == c.held[x] IN Total(HeldBy(c, scope), Of)

\* Mutant of HoldsAt.
HoldsNow(c) == Holds(c.group.trace)

HoldsAt(c) == {h \in Holds(c.group.trace) : h <= c.cut}

ReleaseAt(h, c) == {i \in Releases(h) : i <= c.cut}

\* interpretation_clock_on: no operation so far may be recorded after the review.
ClockAt(cut) == Max({0} \cup {ops[i].at : i \in 1 .. cut})

SourceScope(s) == [at |-> s.op, anchors |-> {[group |-> s.group, packs |-> s.packs]}]

Matches(claim, t, g, loc) ==
  claim.sources # None =>
    \E s \in claim.sources : s.trace = t /\ s.group \in {None, g} /\ s.place \in {None, loc}

\* Nothing that happened to the source's packs since could have changed where
\* they were when they left.
SourceUndisturbed(s, f, c) ==
  \A n \in Activity(c.group.trace, s.op, c.cut) :
    CapturedMember(s.group, s.op, events[n].group) =>
      /\ ActivityEffect(n) # "counted"
      /\ ActivityEffect(n) = "moved" => Bounded(events[n].occ) /\ f.occ.hi < events[n].occ.lo

\* resolve_at_boundary.
SourceResolved(s, f, c) ==
  /\ s.op <= c.cut /\ Bounded(f.occ) /\ Bounded(s.occ) /\ s.occ.hi <= f.occ.lo
  /\ HeldPacks(c, SourceScope(s)) <= s.packs
  /\ f.group \in HeldBy(c, SourceScope(s))
  /\ Matches(ops[f.report].row, c.group.trace, s.group, s.place)
  /\ f.group # s.group =>
       \E n \in Activity(c.group.trace, s.op, c.cut) :
         /\ ActivityEffect(n) = "born" /\ events[n].group = f.group /\ events[n].to = s.place
         /\ Bounded(events[n].occ) /\ events[n].occ.hi <= f.occ.lo
  /\ SourceUndisturbed(s, f, c)
-----------------------------------------------------------------------------
(***************************************************************************)
(* Departures already known: those recorded and those reviewed.  A later   *)
(* correction of the recipient keeps every name it ever had.               *)
(***************************************************************************)
ReviewedDepartures == {i \in OpsOf({"actual_review"}) : ops[i].debits # {}}

KnownEvents(t, cut) ==
  {d \in Departures : d <= cut /\ \E e \in ops[d].debits : Trace(e.group) = t}
    \cup {d \in ReviewedDepartures : d <= cut /\ Trace(ops[d].row.group) = t}

RecipientOf(d) ==
  IF ops[d].kind = "departure" THEN LastVersion(PaperAt(ops[d].row.paper, d - 1)).material.recipient
  ELSE ops[d].row.recipient

PlaceOf(d, g) ==
  IF ops[d].kind = "departure" THEN (CHOOSE l \in ops[d].row.lines : l.before.id = g).before.place
  ELSE ops[d].row.source.place

Parties(d, cut) ==
  LET S == {i \in OpsOf({"correction_recipient"}) : i <= cut /\ ops[i].row.target = d}
  IN  {RecipientOf(d)} \cup UNION {{ops[i].row.before, ops[i].row.after} : i \in S}

CouldMatch(d, cut, to) == to = None \/ to \in Parties(d, cut) \/ None \in Parties(d, cut)

Duplicates(f, c) ==
  {d \in KnownEvents(c.group.trace, c.cut) :
     CouldMatch(d, c.cut, f.recipient) /\ Overlaps(ops[d].row.occ, f.occ)}
-----------------------------------------------------------------------------
(***************************************************************************)
(* classify_hold_timing and the scope a hold is shown to have had when the *)
(* packs left.                                                             *)
(***************************************************************************)
HoldTiming(dep, eff, rel) ==
  IF rel # None /\ Bounded(rel) /\ Bounded(eff) /\ rel.hi < eff.lo THEN "unknown"
  ELSE IF ~Bounded(dep) THEN "unknown"
  ELSE IF Bounded(eff) /\ dep.hi < eff.lo THEN "before"
  ELSE IF rel # None /\ Bounded(rel) /\ rel.hi <= dep.lo THEN "after_release"
  ELSE IF /\ Bounded(eff) /\ eff.hi <= dep.lo
          /\ (rel # None => Bounded(rel) /\ dep.hi < rel.lo)
       THEN "breach"
  ELSE "unknown"

ReleaseOcc(h, c) ==
  IF ReleaseAt(h, c) = {} THEN None ELSE ops[CHOOSE i \in ReleaseAt(h, c) : TRUE].row.occ

Findings(f, c) ==
  {[hold |-> h, timing |-> HoldTiming(f.occ, ops[h].row.occ, ReleaseOcc(h, c))] :
     h \in {x \in HoldsAt(c) : f.group \in HeldBy(c, ops[x].row.scope)}}

\* The groups from an anchor down to a member of its cohort.
Descent(a, g) ==
  LET Below[x \in Groups] ==
        IF x = a THEN {a} ELSE IF group[x].parent = None THEN {} ELSE {x} \cup Below[group[x].parent]
  IN  Below[g]

BirthScope(x) == [at |-> group[x].born, anchors |-> {[group |-> x, packs |-> BirthPacks(x)]}]

\* Why one group on the way down leaves the hold's scope in doubt.
AnchorDoubt(a, h, f, c) ==
  LET x == a.group IN
  IF ~Bounded(BirthOcc(x)) THEN "unknown_birth_time"
  ELSE IF a.packs > BirthPacks(x) THEN "expanded"
  ELSE IF \/ a.packs # BirthPacks(x)
          \/ \E y \in DOMAIN c.held : group[y].parent = x /\ group[y].born <= ops[h].row.scope.at
       THEN "cohort_unverified"
  ELSE IF BirthOcc(x).hi > f.occ.lo THEN "not_present_at_departure"
  ELSE IF Bounded(ops[h].row.occ) /\ BirthOcc(x).hi > ops[h].row.occ.lo THEN "not_present_when_effective"
  ELSE IF HeldPacks(c, BirthScope(x)) > BirthPacks(x) THEN "expanded"
  ELSE None

DescentDoubt(x, h, f, c) ==
  IF ~Bounded(BirthOcc(x)) THEN "unknown_birth_time"
  ELSE IF BirthOcc(x).hi > f.occ.lo THEN "not_present_at_departure"
  ELSE IF \/ BirthOcc(x).lo < BirthOcc(group[x].parent).hi
          \/ ~(Bounded(ops[h].row.occ) /\ ops[h].row.occ.hi <= BirthOcc(x).lo)
       THEN "uncertain_ancestry"
  ELSE IF HeldPacks(c, BirthScope(x)) > BirthPacks(x) THEN "expanded"
  ELSE None

\* cohort_detachments: every other member left the anchor after the hold.
CohortDoubt(x, h) ==
  IF ~Bounded(BirthOcc(x)) \/ ~Bounded(ops[h].row.occ) \/ ops[h].row.occ.hi > BirthOcc(x).lo THEN "cohort_unverified"
  ELSE IF ~Bounded(BirthOcc(group[x].parent)) \/ BirthOcc(x).lo < BirthOcc(group[x].parent).hi THEN "uncertain_ancestry"
  ELSE None

EarliestDoubt(doubt) ==
  LET D == {x \in DOMAIN doubt : doubt[x] # None} IN IF D = {} THEN None ELSE doubt[Min(D)]

AnchorAssessment(a, h, f, c) ==
  LET below == Descent(a.group, f.group) \ {a.group}
      cohort == {x \in DOMAIN c.held : x # a.group /\ CapturedMember(a.group, ops[h].row.scope.at, x)}
      down == EarliestDoubt([x \in below |-> DescentDoubt(x, h, f, c)])
      aside == EarliestDoubt([x \in cohort |-> CohortDoubt(x, h)])
  IN  IF HeldPacks(c, [at |-> ops[h].row.scope.at, anchors |-> {a}]) > a.packs THEN "expanded"
      ELSE IF AnchorDoubt(a, h, f, c) # None THEN AnchorDoubt(a, h, f, c)
      ELSE IF down # None THEN down
      ELSE IF aside # None THEN aside
      ELSE "verified"

\* verify: the first anchor shown to cover the group decides; otherwise the
\* last doubt.
HoldScope(h, f, c) ==
  LET scope == ops[h].row.scope
      near == {a \in scope.anchors : CapturedMember(a.group, scope.at, f.group)}
      doubt == {a \in near : AnchorAssessment(a, h, f, c) # "verified"}
  IN  IF ~Bounded(f.occ) THEN "not_present_at_departure"
      ELSE IF near = {} THEN "scope_not_established"
      ELSE IF doubt # near THEN "verified"
      ELSE AnchorAssessment(CHOOSE a \in near : \A b \in near : b.group <= a.group, h, f, c)
-----------------------------------------------------------------------------
(***************************************************************************)
(* Review as a departure: facts f = [report, group, packs, recipient, occ, *)
(* source] in context c.                                                   *)
(***************************************************************************)
FactsAgree(f, c) ==
  LET claim == ops[f.report].row IN
  /\ claim.variant \in {None, Variant(c.group.trace)}
  /\ claim.recipient \in {None, f.recipient}
  /\ claim.packs \in {None, f.packs}
  /\ Refines(claim.occ, f.occ)

ReviewAllowed(f, c, at) ==
  /\ ClockAt(c.cut) <= at /\ c.group.floor <= at
  /\ ValidOccurrence(f.occ, ops[f.report].at)
  /\ f.packs \in 1 .. c.group.packs
  /\ FactsAgree(f, c)

\* ActualNewDepartureCommand::plan_inner.
DepartureReviewAllowed(f, c, at) ==
  /\ ReviewAllowed(f, c, at)
  /\ f.source.op # f.report /\ SourceResolved(f.source, f, c)
  /\ Duplicates(f, c) = {}

DepartureReview(f, c) ==
  [facts |-> f, before |-> c.group, after |-> c.group.packs - f.packs, rev |-> c.group.rev + 1,
   floor |-> FloorAfter(c.group.floor, f.occ),
   changes |-> ShortageChanges(c.group, f.packs), removed |-> ShortageRemoved(c.group, f.packs),
   findings |-> Findings(f, c),
   scopes |-> {[hold |-> h, scope |-> HoldScope(h, f, c)] :
                 h \in {x \in HoldsAt(c) : f.group \in HeldBy(c, ops[x].row.scope)}}]

\* capture_departure_on and persist_on: what the reader will need.
ReviewRow(f, c, p) ==
  [report |-> f.report, group |-> f.group, packs |-> f.packs, recipient |-> f.recipient, occ |-> f.occ,
   source |-> f.source, before |-> c.group, lineage |-> c.held, after |-> p.after, rev |-> p.rev]

\* ActualPhysicalReduction: the group that is left, if any.
Reduced(p) ==
  LET n == p.before.packs - p.after IN
  IF p.after = 0 THEN {}
  ELSE {[p.before EXCEPT !.packs = p.after, !.rev = p.rev, !.floor = p.floor,
                         !.work = [w \in DOMAIN @ |->
                           IF @[w].progress = "pending"
                             THEN [@[w] EXCEPT !.req = RetiredBy(@, n)] ELSE @[w]]]}

\* close_report_on: the marker of the report is still open.
ReviewDeparture(f, at) ==
  LET c == Context(f.group)
      p == DepartureReview(f, c)
  IN  /\ ClosedBy(f.report) = {}
      /\ DepartureReviewAllowed(f, c, at)
      /\ WriteShortage(p)
      /\ Record(Operation("actual_review", at, ReviewRow(f, c, p),
                          {[group |-> f.group, packs |-> f.packs, after |-> p.after, rev |-> p.rev]}, p.removed),
                <<Event(f.group, f.packs, f.occ, f.source.place, None)>>, p, Reduced(p))

(***************************************************************************)
(* Review as a duplicate: no stock changes, the report is closed.          *)
(***************************************************************************)
LinePacks(d, t) ==
  LET Of(e) == e.packs IN Total({e \in ops[d].debits : Trace(e.group) = t}, Of)

EffectivePacks(d, t, cut) ==
  LET Of(e) == Effective(d, e.group, cut) IN Total({e \in ops[d].debits : Trace(e.group) = t}, Of)

LinkAllowed(r, d, t, cut, at) ==
  LET claim == ops[r].row IN
  /\ d \in KnownEvents(t, cut) /\ r # d /\ ClockAt(cut) <= at
  /\ claim.variant \in {None, Variant(t)} /\ CouldMatch(d, cut, claim.recipient)
  /\ claim.packs \in {None, LinePacks(d, t), EffectivePacks(d, t, cut)}
  /\ Overlaps(claim.occ, ops[d].row.occ)
  /\ claim.sources # None =>
       \E e \in ops[d].debits : Trace(e.group) = t /\ Matches(claim, t, e.group, PlaceOf(d, e.group))

LinkRow(r, d, t) == [report |-> r, known |-> d, trace |-> t, packs |-> LinePacks(d, t), occ |-> ops[d].row.occ]

LinkAnswer(row) == [claim |-> ops[row.report].row, known |-> row.known, packs |-> row.packs, occ |-> row.occ]

LinkReport(r, d, t, at) ==
  /\ ClosedBy(r) = {}
  /\ LinkAllowed(r, d, t, Revision, at)
  /\ Record(Operation("actual_review", at, LinkRow(r, d, t), {}, {}), <<>>, LinkAnswer(LinkRow(r, d, t)), {})
  /\ UNCHANGED <<pop, group, pos, work, alloc>>
-----------------------------------------------------------------------------
(***************************************************************************)
(* rebuild_on, known_on and group_on: the review is planned again in the   *)
(* context it was made in.                                                 *)
(***************************************************************************)
FactsOf(i) ==
  [report |-> ops[i].row.report, group |-> ops[i].row.group, packs |-> ops[i].row.packs,
   recipient |-> ops[i].row.recipient, occ |-> ops[i].row.occ,
   source |-> Source(ops[i].row.source.op, ops[i].row.source.group)]

ProjectionReadable(i) ==
  LET r == ops[i].row IN
  /\ ClosedBy(r.report) = {i} /\ r.report < i /\ ops[r.report].at <= ops[i].at
  /\ SourceKnown(r.source.op, r.source.group) /\ Source(r.source.op, r.source.group) = r.source
  /\ group[r.group].born < i
  /\ Cardinality(EventsOf(i)) = 1
  /\ \A n \in EventsOf(i) : events[n] = [op |-> i, group |-> r.group, packs |-> r.packs, occ |-> r.occ,
                                         from |-> r.source.place, to |-> None]

FrozenGroupReadable(i) ==
  LET r == ops[i].row
      b == r.before
  IN  /\ GroupValid(b) /\ b.packs = r.lineage[r.group] /\ b.floor = CausalFloor(r.group, i - 1)
      /\ b.trace = Trace(r.group) /\ b.parent = group[r.group].parent /\ b.label = group[r.group].label
      /\ \A w \in DOMAIN b.work : work[w].trace = b.trace

FrozenLineageReadable(i) ==
  LET r == ops[i].row
      c == FrozenContext(i)
  IN  /\ DOMAIN r.lineage = {x \in Members(Trace(r.group)) : group[x].born <= c.cut}
      /\ \A x \in DOMAIN r.lineage : r.lineage[x] = PacksAt(x, c.cut)

LinkReadable(i) ==
  LET r == ops[i].row IN
  /\ EventsOf(i) = {} /\ ClosedBy(r.report) = {i} /\ r.report < i
  /\ LinkAllowed(r.report, r.known, r.trace, i - 1, ops[i].at)
  /\ r.packs = LinePacks(r.known, r.trace) /\ r.occ = ops[r.known].row.occ

ReviewReadable(i) ==
  IF ops[i].debits = {} THEN LinkReadable(i)
  ELSE /\ ProjectionReadable(i) /\ FrozenGroupReadable(i) /\ FrozenLineageReadable(i)
       /\ DepartureReviewAllowed(FactsOf(i), FrozenContext(i), ops[i].at)
       /\ ops[i].removed = ShortageRemoved(ops[i].row.before, ops[i].row.packs)

ReviewOriginal(i) ==
  IF ops[i].debits = {} THEN LinkAnswer(ops[i].row)
  ELSE DepartureReview(FactsOf(i), FrozenContext(i))
=============================================================================
