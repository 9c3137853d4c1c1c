------------------------------ MODULE HubLedger ------------------------------
(***************************************************************************)
(* The stock ledger of a hub: every command of the handling, treatment,    *)
(* dispatch, custody, count, actual and correction modules on the same      *)
(* tables.                                                                 *)
(***************************************************************************)
EXTENDS HubCorrections

CONSTANTS Sizes,    \* packs named by receipts and openings
          Parts,    \* packs named by everything that takes some packs of them
          Programs  \* what is explored: sequences of steps, each the kinds of command
                    \* it may be, the clock it is recorded at, which may go
                    \* backwards, and when it is said to have happened

VARIABLE program    \* the program being run

vars == <<tableVars, program>>

\* The claims a return can make: none, a departure or an operation that is
\* not one (yet), with or without the group it left as.
Claims ==
  {None} \cup {[departure |-> d, group |-> g] : d \in Departures \cup {NextId + 1},
                                                g \in Groups \cup {None}}

HandlingNext(kind, occ, at) ==
  \/ /\ kind = "receipt"
     /\ \E v \in Variants, n \in Sizes, loc \in Locations, to \in Locations \cup {None} :
          Receive(v, n, loc, to, occ, at)
  \/ /\ kind = "opening"
     /\ \E v \in Variants, n \in Sizes, loc \in Locations, l \in Labels :
          OpenStock(v, n, loc, l, occ, at)
  \/ /\ kind = "move"
     /\ \E g \in Live, n \in Parts, to \in Locations, l \in Labels \cup {None} :
          MoveStock(g, n, to, l, occ, at)
  \/ kind = "split" /\ \E g \in Live, n \in Parts, l \in Labels : SplitStock(g, n, l, occ, at)
  \/ kind = "work_new" /\ \E S \in SUBSET Live, to \in Locations : NewWork(S, to, at)
  \/ kind = "work_replan" /\ \E w \in Works, to \in Locations : Replan(w, to, at)
  \/ kind = "discrepancy_open" /\ \E t \in DOMAIN pop, g \in Groups \cup {None} : OpenIssue(t, g, at)
  \/ kind = "discrepancy_resolve" /\ \E d \in Issues : ResolveIssue(d, at)

TreatmentNext(kind, occ, at) ==
  \/ /\ kind = "acceptance"
     /\ \E S \in SUBSET Live, status \in {"accepted", "rejected", "review"} :
          SetAcceptance(S, status, occ, at)
  \/ kind = "hold_place" /\ \E S \in SUBSET Live : PlaceHold(S, occ, at)
  \/ kind = "hold_release" /\ \E h \in OpsOf({"hold_place"}) : ReleaseHold(h, occ, at)

DispatchNext(kind, occ, at) ==
  \/ kind = "dispatch_prepare" /\ \E to \in Recipients, S \in SUBSET Live : Prepare(to, S, at)
  \/ /\ kind = "dispatch_revise"
     /\ \E p \in Papers, to \in Recipients, S \in SUBSET Live : Revise(p, to, S, at)
  \/ kind = "dispatch_issue" /\ \E p \in Papers : Issue(p, at)
  \/ /\ kind = "dispatch_replace"
     /\ \E p \in Papers, to \in Recipients, S \in SUBSET Live : Replace(p, to, S, at)
  \/ kind = "dispatch_unused" /\ \E p \in Papers : MarkUnused(p, at)
  \/ kind = "departure" /\ \E p \in Papers : Depart(p, occ, at)

CustodyNext(kind, occ, at) ==
  \/ /\ kind = "disposition"
     /\ \E g \in Live, how \in {"destroyed", "other_removal"} : Dispose(g, how, occ, at)
  \/ /\ kind = "return"
     /\ \E claim \in Claims, v \in Variants, n \in Parts, loc \in Receiving,
           to \in Locations \cup {None}, l \in Labels :
          ReturnStock(claim, v, n, loc, to, l, occ, at)

CountNext(kind, occ, at) ==
  \/ kind = "count_observe" /\ \E g \in Live, n \in 0 .. MaxPacks : Observe(g, n, occ, at)
  \/ kind = "count_post" /\ \E i \in CountObserved, l \in Labels \cup {None} : Post(i, l, at)

\* What a report may claim: any of its facts, or none of them.
ReportClaims(occ) ==
  [variant : {None}, recipient : Recipients \cup {None}, packs : {None} \cup Parts, occ : {occ},
   sources : {None} \cup {{[trace |-> t, group |-> g, place |-> None]} : t \in DOMAIN pop, g \in Groups \cup {None}}]

ActualNext(kind, occ, at) ==
  \/ kind = "actual_report" /\ \E claim \in ReportClaims(occ) : Report(claim, at)
  \/ /\ kind = "actual_review"
     /\ \E r \in Reports, g \in Live, n \in Parts, to \in Recipients, i \in 1 .. Len(ops), s \in Groups :
          /\ SourceKnown(i, s)
          /\ ReviewDeparture([report |-> r, group |-> g, packs |-> n, recipient |-> to, occ |-> occ,
                              source |-> Source(i, s)], at)
  \/ /\ kind = "actual_link"
     /\ \E r \in Reports, d \in Departures \cup ReviewedDepartures, t \in DOMAIN pop : LinkReport(r, d, t, at)

\* What may be seen of a departure line: packs of its debits, under some label.
FoundFacts ==
  LET Debited == {k \in {<<i, g>> : i \in 1 .. Len(ops), g \in Groups} : Debit(k[1], k[2]) > 0}
      Seen(S) == [debit : Debited, packs : S, label : Labels, place : Receiving]
  IN  [family : {"found"}, target : Lines(Revision),
       allocations : {<<a>> : a \in Seen(Parts \cup {0})} \cup {<<a, b>> : a, b \in Seen({1})}]

CorrectionNext(kind, occ, at) ==
  \/ kind = "correction_source" /\ \E t \in DOMAIN pop, s \in Attributions \cup {None} : CorrectSource(t, s, at)
  \/ /\ kind = "correction_recipient"
     /\ \E d \in Departures \cup ReviewedDepartures, to \in Recipients \cup {None} : CorrectRecipient(d, to, at)
  \/ /\ kind = "correction_observe"
     /\ \E previous \in Observations \cup {None}, facts \in FoundFacts : ObserveCorrection(previous, facts, at)
  \/ kind = "correction_found" /\ \E o \in Observations : PostFound(o, at)
  \/ /\ kind = "correction_additional"
     /\ \E r \in Reports, line \in Lines(Revision), g \in Live, n \in 1 .. MaxPacks, to \in Recipients \cup {None},
           i \in 1 .. Len(ops), s \in Groups :
          /\ SourceKnown(i, s)
          /\ PostAdditional([report |-> r, target |-> line, group |-> g, total |-> n, recipient |-> to, occ |-> occ,
                             source |-> Source(i, s)], at)
-----------------------------------------------------------------------------
(***************************************************************************)
(* The strict reader of each kind of operation, and the answer it returns  *)
(* to a repeated command.                                                  *)
(***************************************************************************)
OperationReadable(i) ==
  LET k == ops[i].kind IN
  CASE k = "receipt" -> ReceiptReadable(i)
    [] k = "opening" -> OpeningReadable(i)
    [] k = "move" -> MoveReadable(i)
    [] k = "split" -> SplitReadable(i)
    [] k \in {"work_new", "work_replan"} -> WorkActionReadable(i)
    [] k \in {"discrepancy_open", "discrepancy_resolve"} -> IssueReadable(i)
    [] k \in {"acceptance", "hold_place", "hold_release"} -> TreatmentRecordReadable(i)
    [] k \in PaperKinds -> PaperReadable(i)
    [] k = "departure" -> DepartureReadable(i)
    [] k = "disposition" -> DispositionReadable(i)
    [] k = "return" -> ReturnReadable(i)
    [] k = "count_observe" -> ObservationReadable(i)
    [] k = "count_post" -> PostReadable(i)
    [] k = "actual_report" -> ReportReadable(i)
    [] k = "actual_review" -> ReviewReadable(i)
    [] k = "correction_source" -> SourceReadable(i)
    [] k = "correction_recipient" -> RecipientReadable(i)
    [] k = "correction_observe" -> ObservedReadable(i)
    [] k = "correction_found" -> FoundCorrectionReadable(i)
    [] k = "correction_additional" -> AdditionalReadable(i)

Original(i) ==
  LET k == ops[i].kind IN
  CASE k \in {"receipt", "opening"} -> ReceiptOriginal(i)
    [] k \in {"move", "split"} -> MoveOriginal(i)
    [] k \in {"work_new", "work_replan"} -> WorkActionOriginal(i)
    [] k \in {"discrepancy_open", "discrepancy_resolve"} -> IssueOriginal(i)
    [] k \in {"acceptance", "hold_place", "hold_release"} -> TreatmentOriginal(i)
    [] k \in PaperKinds -> PaperOriginal(i)
    [] k = "departure" -> DepartureOriginal(i)
    [] k = "disposition" -> DispositionOriginal(i)
    [] k = "return" -> ReturnOriginal(i)
    [] k = "count_observe" -> ObservationOriginal(i)
    [] k = "count_post" -> PostOriginal(i)
    [] k = "actual_report" -> ReportOriginal(i)
    [] k = "actual_review" -> ReviewOriginal(i)
    [] k = "correction_source" -> SourceOriginal(i)
    [] k = "correction_recipient" -> RecipientOriginal(i)
    [] k = "correction_observe" -> ObservedOriginal(i)
    [] k = "correction_found" -> FoundOriginal(i)
    [] k = "correction_additional" -> AdditionalOriginal(i)
-----------------------------------------------------------------------------
(***************************************************************************)
(* The triggers on the operations table: while a report is not reviewed or *)
(* an observation is neither used nor superseded, no planned kind is       *)
(* recorded.                                                               *)
(***************************************************************************)
PlannedKinds == {"receipt", "opening", "move", "split", "work_new", "work_replan", "dispatch_prepare",
                 "dispatch_revise", "dispatch_issue", "dispatch_replace", "departure", "count_post",
                 "return", "disposition"}

StockGuard(kind) == kind \in PlannedKinds => ~UnresolvedActual

Step(kind, occ, at) ==
  \/ HandlingNext(kind, occ, at)
  \/ TreatmentNext(kind, occ, at)
  \/ DispatchNext(kind, occ, at)
  \/ CustodyNext(kind, occ, at)
  \/ CountNext(kind, occ, at)
  \/ ActualNext(kind, occ, at)
  \/ CorrectionNext(kind, occ, at)

Init == EmptyTables /\ program \in Programs

Next ==
  /\ Len(ops) < Len(program)
  /\ LET s == program[Len(ops) + 1] IN \E kind \in s.kinds : StockGuard(kind) /\ Step(kind, s.occ, s.at)
  /\ UNCHANGED program

Spec == Init /\ [][Next]_vars
-----------------------------------------------------------------------------
\* The tables keep their shape: every group has a population and a position of
\* a bounded number of packs, and work is allocated to groups that exist.
TypeOK ==
  /\ Len(told) = Len(ops) /\ DOMAIN pos = Groups
  /\ \A g \in Groups : group[g].trace \in DOMAIN pop /\ group[g].rev \in 1 .. Len(ops) + 1
  /\ \A g \in Groups : pos[g] \in [Locations -> 0 .. 2 * MaxPacks]
  /\ \A k \in DOMAIN alloc : k[1] \in Groups /\ k[2] \in Works

(***************************************************************************)
(* No operation leaves tables that a strict reader calls corrupt: whatever *)
(* was received, moved, held, dispatched, counted, reviewed or corrected   *)
(* since, every population still adds up, every requirement agrees with    *)
(* its allocations, and every operation ever recorded can be rebuilt from  *)
(* what it captured.  A reader that fails stops the hub.                   *)
(***************************************************************************)
Readable ==
  /\ JournalReadable
  /\ \A t \in DOMAIN pop : LineageReadable(t) /\ BirthsReadable(t) /\ TreatmentReadable(t)
  /\ \A g \in Live : GroupReadable(g)
  /\ \A g \in Groups : ExitReadable(g)
  /\ \A w \in Works : WorkReadable(w)
  /\ \A i \in 1 .. Len(ops) : OperationReadable(i)
  /\ \A d \in Departures : AllowancesReadable(d, Revision)

\* A command sent again gets the answer it got the first time, although the
\* answer is rebuilt from tables that have changed since.
OriginalsStand == \A i \in 1 .. Len(ops) : Original(i) = told[i]

\* Before it commits, an operation reads the groups it wrote and compares them
\* with what the domain planned: floor, revision, place and work included.
\* The comparison never fails.
PlanReadBack == \A p \in plan : p.id \in Live /\ ReadGroup(p.id) = p

\* Whatever sequence of operations was recorded, the tables keep their shape, no
\* strict reader refuses them, each original reads as it was answered, and what
\* an operation planned is what it finds before it commits.
JournalReadsBack == TypeOK /\ Readable /\ OriginalsStand /\ PlanReadBack

\* When the packs of a group left the group they were taken from.
LeftAt(g) == IF group[g].debited # None THEN group[g].debited ELSE group[g].born

HeldBefore(h, i) == h < i /\ ~\E r \in Releases(h) : r < i

\* The groups a hold was placed on, and those taken off their parent since.
Anchored(h) == {a.group : a \in ops[h].row.scope.anchors}
TakenSince(h) == {x \in Groups : group[x].parent # None /\ LeftAt(x) > h}

\* Packs under an unreleased hold never leave by a normal departure, in
\* whatever group they were separated into since the hold was placed and
\* whatever paper was issued before it.
HeldStockStays ==
  \A i \in Departures : \A g \in LinesOf(i) : \A h \in OpsOf({"hold_place"}) :
    HeldBefore(h, i) => ~Descends(group, Anchored(h), TakenSince(h), g)

\* A pack that left comes back once: what returns are established on a line and
\* what was found of its debit never exceed what the line took away.
NoPackTwice ==
  \A line \in Lines(Revision) :
    EstablishedBefore(line[1], line[2], NextId) + Recovered(line[1], line[2], Revision)
      <= Debit(line[1], line[2])

\* What an earlier source correction was said to affect downstream is still
\* downstream of the population, so that the next correction of the same
\* population is not refused for a scope that shrank.
DownstreamGrows ==
  \A i \in SourceCorrections(Revision) : \A x \in ops[i].row.impact :
    x[1] \notin {"source", "unresolved_source"} => x \in Downstream(ops[i].row.trace, Revision)

\* Found stock is posted only when its observation is the only open one, and
\* superseding keeps one open: two open observations stay open for ever, and
\* with them every planned kind, receipts included, stays refused.
TwoObservationsStay ==
  [][Cardinality(OpenObservations) >= 2 => Cardinality(OpenObservations') >= 2]_vars

\* Every hold that is not released can be released, whatever the history of its
\* population holds: "release and original-result replay remain available at
\* primary capacity".  The history that a found group's initial review filled
\* breaks it.
ReleaseRemainsAvailable ==
  \A h \in OpsOf({"hold_place"}) : Releases(h) = {} => ENABLED ReleaseHold(h, Unknown, ops[h].at)

\* Stock that comes back is taken in although what it names is uncertain, unless
\* planned work waits.  A departure one of whose returns was recorded at an
\* earlier clock breaks it.
UncertainIntakeIsRetained ==
  UnresolvedActual \/
    \A d \in Departures, v \in Variants, loc \in Receiving, l \in {x \in Labels : ~LabelInUse(x)} :
      ENABLED ReturnStock([departure |-> d, group |-> None], v, 1, loc, None, l, Unknown, ops[d].at)
=============================================================================
