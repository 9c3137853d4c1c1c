----------------------------- MODULE HubTreatment -----------------------------
(***************************************************************************)
(* Treatment of stock: acceptance decisions and holds over captured scopes *)
(* of a population.  A scope is the set of groups chosen, at the revision  *)
(* they were chosen; it follows the packs into every group that is later   *)
(* taken off them, and never reaches a branch that had already left, nor   *)
(* packs found again that had been debited before the scope was captured.  *)
(***************************************************************************)
EXTENDS HubHandling

CONSTANT TraceRecords  \* HUB_TREATMENT_RECORDS_PER_TRACE

Inherits(g, captured) ==
  /\ group[g].born > captured
  /\ group[g].debited = None \/ captured < group[g].debited

\* From g up, parent by parent through groups of F, a group of S is reached.
Descends(rows, S, F, g) ==
  LET Up[x \in DOMAIN rows] == x \in S \/ (x \in F /\ Up[rows[x].parent])
  IN  Up[g]

Heirs(captured) == {x \in Groups : Inherits(x, captured) /\ group[x].parent # None}

\* captured_member.
CapturedMember(anchor, captured, g) ==
  group[anchor].born <= captured /\ Descends(group, {anchor}, Heirs(captured), g)

\* capture and resolve.
Capture(S) == [at |-> Revision, anchors |-> {[group |-> g, packs |-> Packs(g)] : g \in S}]

Covers(scope, g) == \E a \in scope.anchors : CapturedMember(a.group, scope.at, g)

Resolve(scope) == {g \in Live : Covers(scope, g)}

ScopePacks(scope) == LET Of(g) == Packs(g) IN Total(Resolve(scope), Of)

AnchorPacks(scope) == LET Of(a) == a.packs IN Total(scope.anchors, Of)

\* restore_scope: the anchors are groups of the lineage, older than the cut, and
\* what is left of them is no more than was captured.
ScopeReadable(scope) ==
  /\ scope.anchors # {} /\ scope.at <= Revision
  /\ \A a \in scope.anchors : a.group \in Groups /\ group[a.group].born <= scope.at /\ a.packs > 0
-----------------------------------------------------------------------------
(***************************************************************************)
(* TreatmentState, restored from the records of a population, and its      *)
(* projection on the groups now on hand.                                   *)
(***************************************************************************)
Records(kind, t) == {i \in 1 .. Len(ops) : ops[i].kind = kind /\ ops[i].row.trace = t}
Decisions(t) == Records("acceptance", t)
Holds(t)     == Records("hold_place", t)
Releases(h)  == {i \in 1 .. Len(ops) : ops[i].kind = "hold_release" /\ ops[i].row.hold = h}
\* Groups found again start under review; the review is made with the group.
InitialReviews(t) == {g \in Members(t) : group[g].debited # None}

RecordCount(t) ==
  Cardinality(Decisions(t)) + Cardinality(Holds(t)) + Cardinality({group[g].born : g \in InitialReviews(t)})

HistoryFull(t) == RecordCount(t) = TraceRecords

Verdicts(g) ==
  {<<i, ops[i].row.status>> : i \in {d \in Decisions(Trace(g)) : Covers(ops[d].row.scope, g)}}
    \cup {<<group[a].born, "review">> : a \in {b \in InitialReviews(Trace(g)) :
                                                 CapturedMember(b, group[b].born, g)}}

Acceptance(g) ==
  IF Verdicts(g) = {} THEN "review"
  ELSE (CHOOSE v \in Verdicts(g) : \A u \in Verdicts(g) : u[1] <= v[1])[2]

ActiveHolds(g) ==
  {h \in Holds(Trace(g)) : Releases(h) = {} /\ Covers(ops[h].row.scope, g)}

NormalDeparture(g) ==
  Acceptance(g) = "accepted" /\ ActiveHolds(g) = {} /\ ~HistoryFull(Trace(g))

Summary(t) ==
  LET On == {g \in Members(t) : Packs(g) > 0}
      Of(g) == Packs(g)
      Sum(P(_)) == Total({g \in On : P(g)}, Of)
      All(g) == TRUE
      Ok(g) == Acceptance(g) = "accepted"
      No(g) == Acceptance(g) = "rejected"
      Open(g) == Acceptance(g) = "review"
      Held(g) == ActiveHolds(g) # {}
      Free(g) == Ok(g) /\ ~Held(g)
  IN  [onHand |-> Sum(All), accepted |-> Sum(Ok), rejected |-> Sum(No), review |-> Sum(Open),
       restricted |-> Sum(Held), eligible |-> Sum(Free)]

SummaryValid(s) ==
  /\ s.accepted + s.review + s.rejected = s.onHand
  /\ s.restricted <= s.onHand /\ s.eligible <= s.accepted
  /\ s.eligible + s.restricted >= s.accepted /\ s.eligible + s.restricted <= s.onHand

\* TreatmentState::validate.
TreatmentReadable(t) ==
  /\ RecordCount(t) <= TraceRecords
  /\ \A i \in Decisions(t) \cup Holds(t) :
       ops[i].row.scope.at = i - 1 /\ ScopeReadable(ops[i].row.scope)
  /\ \A h \in Holds(t) : /\ Cardinality(Releases(h)) <= 1
                         /\ \A r \in Releases(h) :
                              /\ r > h
                              /\ "unknown" \in {ops[h].row.occ.kind, ops[r].row.occ.kind}
                                   \/ ops[r].row.occ.hi >= ops[h].row.occ.lo
  /\ SummaryValid(Summary(t))
-----------------------------------------------------------------------------
(***************************************************************************)
(* The three commands.  A release needs no room in the history.  Before it *)
(* commits, a command reads its own record back (verify_on): the capacity  *)
(* mark, which counts initial reviews, is compared with a count of the     *)
(* decisions and holds only, and the command is refused when they differ.  *)
(***************************************************************************)
Primary(t) == Cardinality(Decisions(t) \cup Holds(t))

Treat(kind, row, scope, at, occ, t) ==
  LET added == IF kind = "hold_release" THEN 0 ELSE 1
      record == [row EXCEPT !.full = RecordCount(t) + added = TraceRecords]
      answer == [change |-> record, packs |-> ScopePacks(scope)]
  IN  /\ ValidOccurrence(occ, at)
      /\ record.full = (Primary(t) + added = TraceRecords)
      /\ UNCHANGED <<pop, group, pos, work, alloc>>
      /\ Record(Operation(kind, at, record, {}, {}),
                <<Event(Min({a.group : a \in scope.anchors}), ScopePacks(scope), occ, None, None)>>,
                answer, {})

SetAcceptance(S, status, occ, at) ==
  LET t == Trace(CHOOSE g \in S : TRUE) IN
  /\ S # {} /\ \A g \in S : Trace(g) = t
  /\ RecordCount(t) < TraceRecords
  /\ Treat("acceptance", [trace |-> t, scope |-> Capture(S), status |-> status, occ |-> occ,
                          full |-> FALSE], Capture(S), at, occ, t)

PlaceHold(S, occ, at) ==
  LET t == Trace(CHOOSE g \in S : TRUE) IN
  /\ S # {} /\ \A g \in S : Trace(g) = t
  /\ RecordCount(t) < TraceRecords
  /\ Treat("hold_place", [trace |-> t, scope |-> Capture(S), occ |-> occ, full |-> FALSE],
           Capture(S), at, occ, t)

ReleaseHold(h, occ, at) ==
  LET t == ops[h].row.trace IN
  /\ Releases(h) = {}
  /\ "unknown" \in {occ.kind, ops[h].row.occ.kind} \/ occ.hi >= ops[h].row.occ.lo
  /\ Treat("hold_release", [trace |-> t, hold |-> h, occ |-> occ, full |-> FALSE],
           ops[h].row.scope, at, occ, t)

(***************************************************************************)
(* decode_on: a treatment record, later.  Its capacity mark is recounted   *)
(* from the decisions and holds recorded up to it.                         *)
(***************************************************************************)
PrimaryAt(i) ==
  Cardinality({k \in Decisions(ops[i].row.trace) \cup Holds(ops[i].row.trace) : k <= i})

TreatmentRecordReadable(i) ==
  LET r == ops[i].row
      e == events[CHOOSE n \in EventsOf(i) : TRUE]
      scope == IF ops[i].kind = "hold_release" THEN ops[r.hold].row.scope ELSE r.scope
  IN  /\ ScopeReadable(scope) /\ e.from = None /\ e.to = None
      /\ e.group = Min({a.group : a \in scope.anchors})
      /\ ops[i].kind = "hold_release" => r.hold < i /\ ops[r.hold].row.trace = r.trace
      /\ ops[i].kind # "hold_release" => AnchorPacks(scope) = e.packs
      /\ r.full = (PrimaryAt(i) = TraceRecords)

TreatmentOriginal(i) ==
  [change |-> ops[i].row, packs |-> events[CHOOSE n \in EventsOf(i) : TRUE].packs]
=============================================================================
