-------------------------- MODULE HubLedgerProofs ---------------------------
(***************************************************************************)
(* Proofs about the hub's stock ledger, for any program of commands, any   *)
(* stock, any people and places.                                           *)
(***************************************************************************)
EXTENDS HubLedger, HubStockProofs

(***************************************************************************)
(* Reports, reviews and corrections.                                       *)
(***************************************************************************)
LEMMA ReportFits ==
  ASSUME NEW scope, GroupsFit, NEW claim, NEW at, Report(claim, at)
  PROVE  StepFits(scope)
  <1>1. UNCHANGED group
    BY Zenon DEF Report
  <1>2. GroupsKept
    BY <1>1, Kept, Zenon
  <1>3. "actual_report" \in PlainKinds
    BY Zenon DEF PlainKinds
  <1>4. ops' = Append(ops, Operation("actual_report", at, claim, {}, {}))
    BY Zenon DEF Report, Record
  <1> QED BY <1>2, <1>3, <1>4, PlainStep, Zenon

LEMMA ReviewDepartureFits ==
  ASSUME NEW scope, GroupsFit, NEW f, f.group \in Groups, NEW at, ReviewDeparture(f, at)
  PROVE  StepFits(scope)
  <1> DEFINE c == Context(f.group)
             p == DepartureReview(f, c)
             row == ReviewRow(f, c, p)
             debits == {[group |-> f.group, packs |-> f.packs, after |-> p.after, rev |-> p.rev]}
             op == Operation("actual_review", at, row, debits, p.removed)
  <1>1. WriteShortage(p) /\ ops' = Append(ops, op)
    BY Zenon DEF ReviewDeparture, Record
  <1> HIDE DEF c, p
  <1>2. GroupsKept
    BY <1>1, KeptShrinking, Zenon
  <1>3. op.kind = "actual_review" /\ op.row.group = f.group /\ \A d \in op.debits : d.group = f.group
    BY DEF Operation, ReviewRow
  <1> HIDE DEF op
  <1>4. Stands(op, Len(ops) + 1)
    BY <1>3, Zenon DEF Stands, PaperKinds
  <1>5. Permitted(op, scope)
    BY <1>3, Zenon DEF Permitted
  <1> QED BY <1>1, <1>2, <1>4, <1>5, Zenon DEF StepFits

LEMMA LinkReportFits ==
  ASSUME NEW scope, GroupsFit, NEW r, NEW d, NEW t, NEW at, LinkReport(r, d, t, at)
  PROVE  StepFits(scope)
  <1> DEFINE op == Operation("actual_review", at, LinkRow(r, d, t), {}, {})
  <1>1. UNCHANGED group /\ ops' = Append(ops, op)
    BY Zenon DEF LinkReport, Record
  <1>2. GroupsKept
    BY <1>1, Kept, Zenon
  <1>3. op.kind = "actual_review" /\ op.debits = {}
    BY Zenon DEF Operation
  <1> HIDE DEF op
  <1>4. Stands(op, Len(ops) + 1)
    BY <1>3, Zenon DEF Stands, PaperKinds
  <1>5. Permitted(op, scope)
    BY <1>3, Zenon DEF Permitted
  <1> QED BY <1>1, <1>2, <1>4, <1>5, Zenon DEF StepFits

\* Downstream of the population the operation just appended is about.
FoundDownstream == Downstream(ops'[Len(ops')].row.trace, Revision)

LEMMA CorrectSourceFits ==
  ASSUME LogFits, GroupsFit, NEW t, NEW s, NEW at, CorrectSource(t, s, at)
  PROVE  StepFits(FoundDownstream)
  <1> DEFINE p == SourcePlan(t, s, Revision)
             op == Operation("correction_source", at, p, {}, {})
  <1>1. UNCHANGED group /\ ops' = Append(ops, op) /\ SourceAllowed(t, s, Revision, at)
    BY Zenon DEF CorrectSource, Record
  <1>2. GroupsKept
    BY <1>1, Kept, Zenon
  <1>3. op.kind = "correction_source" /\ op.debits = {} /\ op.row = p
    <2> HIDE DEF p
    <2> QED BY DEF Operation
  <1>4. p.trace = t /\ p.impact = SourceImpact(t, s, Revision)
    BY Zenon DEF SourcePlan
  <1>5. ASSUME NEW x \in SourceImpact(t, s, Revision), x[1] \notin {"source", "unresolved_source"}
        PROVE  x \in Downstream(t, Revision)
    <2>1. ASSUME NEW y, x \in SourceTargets(t, y) PROVE FALSE
      BY <1>5, <2>1 DEF SourceTargets
    <2>2. \/ \E y : x \in SourceTargets(t, y)
          \/ \E i \in SourceHistory(t, Revision) : x \in ops[i].row.impact
          \/ x \in Downstream(t, Revision)
      <3> DEFINE A == UNION {SourceTargets(t, y) : y \in SourcesEver(t, Revision) \cup {s}}
                 B == UNION {ops[i].row.impact : i \in SourceHistory(t, Revision)}
      <3>1. x \in A \/ x \in B \/ x \in Downstream(t, Revision)
        <4>1. SourceImpact(t, s, Revision) = A \cup B \cup Downstream(t, Revision)
          BY Zenon DEF SourceImpact
        <4> HIDE DEF A, B
        <4> QED BY <1>5, <4>1, Zenon
      <3>2. x \in A => \E y : x \in SourceTargets(t, y)
        BY Zenon
      <3>3. x \in B => \E i \in SourceHistory(t, Revision) : x \in ops[i].row.impact
        BY Zenon
      <3> HIDE DEF A, B
      <3> QED BY <3>1, <3>2, <3>3, Zenon
    <2> QED BY <1>1, <1>5, <2>1, <2>2, Zenon DEF SourceAllowed
  <1> HIDE DEF op, p
  <1>6. Stands(op, Len(ops) + 1)
    BY <1>3, Zenon DEF Stands, PaperKinds
  <1>7. FoundDownstream = Downstream(t, Revision)
    <2>1. Len(ops') = Len(ops) + 1 /\ ops'[Len(ops) + 1] = op
      BY <1>1, LogGrows, Zenon
    <2> QED BY <1>3, <1>4, <2>1, Zenon DEF FoundDownstream
  <1>8. Permitted(op, FoundDownstream)
    BY <1>3, <1>4, <1>5, <1>7, Zenon DEF Permitted
  <1> QED BY <1>1, <1>2, <1>6, <1>8, Zenon DEF StepFits

LEMMA CorrectRecipientFits ==
  ASSUME NEW scope, GroupsFit, NEW d, NEW to, NEW at, CorrectRecipient(d, to, at)
  PROVE  StepFits(scope)
  <1>1. UNCHANGED group
    BY Zenon DEF CorrectRecipient
  <1>2. GroupsKept
    BY <1>1, Kept, Zenon
  <1>3. "correction_recipient" \in PlainKinds
    BY Zenon DEF PlainKinds
  <1>4. \E p : ops' = Append(ops, Operation("correction_recipient", at, p, {}, {}))
    BY Zenon DEF CorrectRecipient, Record
  <1> QED BY <1>2, <1>3, <1>4, PlainStep, Zenon

LEMMA ObserveCorrectionFits ==
  ASSUME NEW scope, LogFits, GroupsFit, NEW previous, NEW facts, NEW at, ObserveCorrection(previous, facts, at)
  PROVE  StepFits(scope)
  <1> DEFINE op == Operation("correction_observe", at, [previous |-> previous, facts |-> facts], {}, {})
  <1>1. UNCHANGED group /\ ops' = Append(ops, op) /\ CorrectionObserveAllowed(previous, facts, at)
    BY Zenon DEF ObserveCorrection, Record
  <1>2. GroupsKept
    BY <1>1, Kept, Zenon
  <1>3. op.kind = "correction_observe" /\ op.debits = {} /\ op.row.previous = previous
    BY Zenon DEF Operation
  <1>4. previous \in 1 .. ((Len(ops) + 1) - 1) \cup {None}
    <2>1. previous \in 1 .. Len(ops) \cup {None}
      BY <1>1, Zenon DEF CorrectionObserveAllowed, OpenObservations, Observations, OpsOf
    <2>2. Len(ops) \in Nat
      BY Zenon, LogAppend DEF LogFits
    <2>3. (Len(ops) + 1) - 1 = Len(ops)
      BY <2>2
    <2> QED BY <2>1, <2>3, Zenon
  <1> HIDE DEF op
  <1>5. Stands(op, Len(ops) + 1)
    BY <1>3, <1>4, Zenon DEF Stands, PaperKinds
  <1>6. Permitted(op, scope)
    BY <1>3, Zenon DEF Permitted
  <1> QED BY <1>1, <1>2, <1>5, <1>6, Zenon DEF StepFits

\* The debits a line stands on are recorded, and so are their groups.
LEMMA DebitsKnown ==
  ASSUME LogFits, OpsStand, NEW line \in Lines(Revision), NEW k \in PhysicalDebits(line, Revision)
  PROVE  k[1] \in 1 .. Len(ops) /\ k[2] \in Groups
  <1>1. CASE k = line
    <2>1. PICK d \in Departures \cup ReviewedDepartures : line \in {<<d, g>> : g \in LinesOf(d)}
      BY Zenon DEF Lines
    <2>2. PICK g \in LinesOf(d) : line = <<d, g>>
      BY <2>1, Zenon
    <2>3. d \in 1 .. Len(ops)
      BY <2>1, Zenon DEF Departures, ReviewedDepartures, OpsOf
    <2>4. g \in Groups
      <3>1. PICK e \in ops[d].debits : g = e.group
        BY <2>2, Zenon DEF LinesOf
      <3>2. \A e2 \in ops[d].debits : e2.group \in Groups
        BY <2>3, Zenon DEF OpsStand, Stands
      <3> QED BY <3>1, <3>2, Zenon
    <2>5. line[1] = d /\ line[2] = g
      BY ZenonT(30), <2>2
    <2> QED BY <1>1, <2>3, <2>4, <2>5, Zenon
  <1>2. CASE k # line
    <2>1. PICK i \in Amendments(line[1], line[2], Revision) :
                 ops[i].kind = "correction_additional" /\ k = <<i, ops[i].row.group>>
      BY ZenonT(30), <1>2 DEF PhysicalDebits
    <2>2. i \in 1 .. Len(ops)
      BY <2>1, Zenon DEF Amendments, Revision
    <2>3. ops[i].row.group \in Groups
      BY <2>1, <2>2, Zenon DEF OpsStand, Stands
    <2>4. k[1] = i /\ k[2] = ops[i].row.group
      BY ZenonT(30), <2>1
    <2> QED BY <2>2, <2>3, <2>4, Zenon
  <1> QED BY <1>1, <1>2, Zenon

LEMMA PostFoundFits ==
  ASSUME NEW scope, TablesFit, NEW o \in Observations, NEW at, PostFound(o, at)
  PROVE  StepFits(scope)
  <1> DEFINE f == ops[o].row.facts
             c == FoundContext(Trace(f.target[2]))
             p == FoundPlan(f, c, NextId)
             op == Operation("correction_found", at, FoundRow(o, c, p), {}, {})
             S == p.found
             Of(g) == CHOOSE x \in S : x.group = g
             new == {x.group : x \in S}
             rows == [g \in new |-> [trace |-> Trace(Of(g).debit[2]), parent |-> Of(g).debit[2], label |-> Of(g).label,
                                     born |-> NextId, debited |-> Of(g).debit[1], rev |-> 1]]
  <1>1. /\ FoundReady(o) /\ f.target \in Lines(Revision) /\ FoundAllowed(f, c, at)
        /\ WriteFound(S) /\ ops' = Append(ops, op)
    BY Zenon DEF PostFound, Record
  <1>2. c.cut = Revision
    BY ZenonT(30) DEF FoundContext
  <1>3. ASSUME NEW x \in S PROVE x.debit[1] \in 1 .. Len(ops) /\ x.debit[2] \in Groups
    <2>1. PICK k \in DOMAIN f.allocations : x.debit = f.allocations[k].debit
      <3> HIDE DEF c, f
      <3> QED BY DEF FoundPlan
    <2>2. x.debit \in PhysicalDebits(f.target, Revision)
      <3> HIDE DEF c, f
      <3> QED BY <1>1, <1>2, <2>1, Zenon DEF FoundAllowed
    <2> HIDE DEF f, p
    <2> QED BY <1>1, <2>2, DebitsKnown, Zenon DEF TablesFit
  <1>4. InsertGroups(rows)
    <2> HIDE DEF p
    <2> QED BY <1>1, Zenon DEF WriteFound
  <1> HIDE DEF p
  <1>5. ASSUME NEW g \in new PROVE Of(g) \in S
    BY Zenon
  <1> HIDE DEF Of, S
  <1>6. \A g \in DOMAIN rows :
           /\ DOMAIN rows[g] = RowFields
           /\ rows[g].born = Len(ops) + 1
           /\ rows[g].debited \in 1 .. Len(ops)
           /\ rows[g].parent \in Groups
           /\ rows[g].trace = group[rows[g].parent].trace
    <2> TAKE g \in DOMAIN rows
    <2>1. g \in new
      BY Zenon
    <2>2. Of(g).debit[1] \in 1 .. Len(ops) /\ Of(g).debit[2] \in Groups
      BY <1>3, <1>5, <2>1, Zenon
    <2> HIDE DEF new
    <2>3. rows[g] = [trace |-> Trace(Of(g).debit[2]), parent |-> Of(g).debit[2], label |-> Of(g).label,
                     born |-> NextId, debited |-> Of(g).debit[1], rev |-> 1]
      BY <2>1, Zenon
    <2> HIDE DEF rows
    <2> QED BY <2>2, <2>3 DEF RowFields, Trace, NextId
  <1> HIDE DEF rows
  <1>7. GroupsKept
    BY <1>4, <1>6, KeptInserting, Zenon DEF TablesFit
  <1> HIDE DEF c, f
  <1>8. op.kind = "correction_found" /\ op.debits = {} /\ op.row.observation = o
    BY Zenon DEF Operation, FoundRow
  <1>9. o \in 1 .. ((Len(ops) + 1) - 1)
    <2>1. o \in 1 .. Len(ops)
      BY Zenon DEF Observations, OpsOf
    <2>2. Len(ops) \in Nat
      BY Zenon, LogAppend DEF LogFits, TablesFit
    <2>3. (Len(ops) + 1) - 1 = Len(ops)
      BY <2>2
    <2> QED BY <2>1, <2>3, Zenon
  <1>10. OpenObservations = {o}
    BY <1>1, Zenon DEF FoundReady
  <1> HIDE DEF op
  <1>11. Stands(op, Len(ops) + 1)
    BY <1>8, <1>9, Zenon DEF Stands, PaperKinds
  <1>12. Permitted(op, scope)
    BY <1>8, <1>10, Zenon DEF Permitted
  <1> QED BY <1>1, <1>7, <1>11, <1>12, Zenon DEF StepFits

LEMMA PostAdditionalFits ==
  ASSUME NEW scope, GroupsFit, NEW f, f.group \in Groups, NEW at, PostAdditional(f, at)
  PROVE  StepFits(scope)
  <1> DEFINE c == Context(f.group)
             p == AdditionalPlan(f, c)
             row == AdditionalRow(f, c, p)
             debits == {[group |-> f.group, packs |-> p.packs, after |-> p.after, rev |-> p.rev]}
             op == Operation("correction_additional", at, row, debits, p.removed)
  <1>1. WriteShortage(p) /\ ops' = Append(ops, op)
    BY Zenon DEF PostAdditional, TakeAdditional, Record
  <1> HIDE DEF c, p
  <1>2. GroupsKept
    BY <1>1, KeptShrinking, Zenon
  <1>3. op.kind = "correction_additional" /\ op.row.group = f.group /\ \A d \in op.debits : d.group = f.group
    BY DEF Operation, AdditionalRow
  <1> HIDE DEF op
  <1>4. Stands(op, Len(ops) + 1)
    BY <1>3, Zenon DEF Stands, PaperKinds
  <1>5. Permitted(op, scope)
    BY <1>3, Zenon DEF Permitted
  <1> QED BY <1>1, <1>2, <1>4, <1>5, Zenon DEF StepFits

LEMMA HandlingFits ==
  ASSUME NEW scope, TablesFit, NEW kind, NEW occ, NEW at, HandlingNext(kind, occ, at)
  PROVE  StepFits(scope)
  <1>1. ASSUME NEW v \in Variants, NEW n \in Sizes, NEW loc \in Locations, NEW to \in Locations \cup {None},
               Receive(v, n, loc, to, occ, at)
        PROVE  StepFits(scope)
    BY <1>1, ReceiveFits, Zenon DEF TablesFit
  <1>2. ASSUME NEW v \in Variants, NEW n \in Sizes, NEW loc \in Locations, NEW l \in Labels,
               OpenStock(v, n, loc, l, occ, at)
        PROVE  StepFits(scope)
    BY <1>2, OpenStockFits, Zenon DEF TablesFit
  <1>3. ASSUME NEW g \in Live, NEW n \in Parts, NEW to \in Locations, NEW l \in Labels \cup {None},
               MoveStock(g, n, to, l, occ, at)
        PROVE  StepFits(scope)
    BY <1>3, LiveKnown, MoveStockFits, Zenon DEF TablesFit
  <1>4. ASSUME NEW g \in Live, NEW n \in Parts, NEW l \in Labels, SplitStock(g, n, l, occ, at) PROVE StepFits(scope)
    BY <1>4, LiveKnown, SplitStockFits, Zenon DEF TablesFit
  <1>5. ASSUME NEW S \in SUBSET Live, NEW to \in Locations, NewWork(S, to, at) PROVE StepFits(scope)
    BY <1>5, NewWorkFits, Zenon DEF TablesFit
  <1>6. ASSUME NEW w \in Works, NEW to \in Locations, Replan(w, to, at) PROVE StepFits(scope)
    BY <1>6, ReplanFits, Zenon DEF TablesFit
  <1>7. ASSUME NEW t \in DOMAIN pop, NEW g \in Groups \cup {None}, OpenIssue(t, g, at) PROVE StepFits(scope)
    BY <1>7, OpenIssueFits, Zenon DEF TablesFit
  <1>8. ASSUME NEW d \in Issues, ResolveIssue(d, at) PROVE StepFits(scope)
    BY <1>8, ResolveIssueFits, Zenon DEF TablesFit
  <1> QED BY <1>1, <1>2, <1>3, <1>4, <1>5, <1>6, <1>7, <1>8, Zenon DEF HandlingNext

LEMMA TreatmentFits ==
  ASSUME NEW scope, TablesFit, NEW kind, NEW occ, NEW at, TreatmentNext(kind, occ, at)
  PROVE  StepFits(scope)
  <1>1. ASSUME NEW S \in SUBSET Live, NEW status, SetAcceptance(S, status, occ, at) PROVE StepFits(scope)
    BY <1>1, SetAcceptanceFits, Zenon DEF TablesFit
  <1>2. ASSUME NEW S \in SUBSET Live, PlaceHold(S, occ, at) PROVE StepFits(scope)
    <2>1. S \in SUBSET Groups
      BY LiveKnown, Zenon
    <2> QED BY <1>2, <2>1, PlaceHoldFits, Zenon DEF TablesFit
  <1>3. ASSUME NEW h \in OpsOf({"hold_place"}), ReleaseHold(h, occ, at) PROVE StepFits(scope)
    BY <1>3, ReleaseHoldFits, Zenon DEF TablesFit
  <1> QED BY <1>1, <1>2, <1>3, Zenon DEF TreatmentNext

LEMMA PaperworkFits ==
  ASSUME NEW scope, TablesFit, NEW kind, NEW occ, NEW at, DispatchNext(kind, occ, at)
  PROVE  StepFits(scope)
  <1>1. ASSUME NEW to \in Recipients, NEW S \in SUBSET Live, Prepare(to, S, at) PROVE StepFits(scope)
    BY <1>1, PrepareFits, Zenon DEF TablesFit
  <1>2. ASSUME NEW p \in Papers, NEW to \in Recipients, NEW S \in SUBSET Live, Revise(p, to, S, at)
        PROVE  StepFits(scope)
    BY <1>2, ReviseFits, Zenon DEF TablesFit
  <1>3. ASSUME NEW p \in Papers, Issue(p, at) PROVE StepFits(scope)
    BY <1>3, IssueFits, Zenon DEF TablesFit
  <1>4. ASSUME NEW p \in Papers, NEW to \in Recipients, NEW S \in SUBSET Live, Replace(p, to, S, at)
        PROVE  StepFits(scope)
    BY <1>4, ReplaceFits, Zenon DEF TablesFit
  <1>5. ASSUME NEW p \in Papers, MarkUnused(p, at) PROVE StepFits(scope)
    BY <1>5, MarkUnusedFits, Zenon DEF TablesFit
  <1>6. ASSUME NEW p \in Papers, Depart(p, occ, at) PROVE StepFits(scope)
    BY <1>6, DepartFits, Zenon DEF TablesFit
  <1> QED BY <1>1, <1>2, <1>3, <1>4, <1>5, <1>6, Zenon DEF DispatchNext

LEMMA CustodyFits ==
  ASSUME NEW scope, TablesFit, NEW kind, NEW occ, NEW at, CustodyNext(kind, occ, at)
  PROVE  StepFits(scope)
  <1>1. ASSUME NEW g \in Live, NEW how, Dispose(g, how, occ, at) PROVE StepFits(scope)
    BY <1>1, LiveKnown, DisposeFits, Zenon DEF TablesFit
  <1>2. ASSUME NEW claim \in Claims, NEW v \in Variants, NEW n \in Parts, NEW loc \in Receiving,
               NEW to \in Locations \cup {None}, NEW l \in Labels, ReturnStock(claim, v, n, loc, to, l, occ, at)
        PROVE  StepFits(scope)
    BY <1>2, ReturnStockFits, Zenon DEF TablesFit
  <1> QED BY <1>1, <1>2, Zenon DEF CustodyNext

LEMMA CountFits ==
  ASSUME NEW scope, TablesFit, NEW kind, NEW occ, NEW at, CountNext(kind, occ, at)
  PROVE  StepFits(scope)
  <1>1. ASSUME NEW g \in Live, NEW n, Observe(g, n, occ, at) PROVE StepFits(scope)
    BY <1>1, ObserveFits, Zenon DEF TablesFit
  <1>2. ASSUME NEW i \in CountObserved, NEW l \in Labels \cup {None}, Post(i, l, at) PROVE StepFits(scope)
    BY <1>2, PostFits, Zenon DEF TablesFit
  <1> QED BY <1>1, <1>2, Zenon DEF CountNext

LEMMA ActualFits ==
  ASSUME NEW scope, TablesFit, NEW kind, NEW occ, NEW at, ActualNext(kind, occ, at)
  PROVE  StepFits(scope)
  <1>1. ASSUME NEW claim \in ReportClaims(occ), Report(claim, at) PROVE StepFits(scope)
    BY <1>1, ReportFits, Zenon DEF TablesFit
  <1>2. ASSUME NEW r \in Reports, NEW g \in Live, NEW n \in Parts, NEW to \in Recipients, NEW i \in 1 .. Len(ops),
               NEW s \in Groups,
               ReviewDeparture([report |-> r, group |-> g, packs |-> n, recipient |-> to, occ |-> occ,
                                source |-> Source(i, s)], at)
        PROVE  StepFits(scope)
    <2> DEFINE f == [report |-> r, group |-> g, packs |-> n, recipient |-> to, occ |-> occ, source |-> Source(i, s)]
    <2>1. f.group = g /\ ReviewDeparture(f, at)
      BY ZenonT(30), <1>2
    <2> HIDE DEF f
    <2> QED BY <2>1, LiveKnown, ReviewDepartureFits, Zenon DEF TablesFit
  <1>3. ASSUME NEW r \in Reports, NEW d \in Departures \cup ReviewedDepartures, NEW t \in DOMAIN pop,
               LinkReport(r, d, t, at)
        PROVE  StepFits(scope)
    BY <1>3, LinkReportFits, Zenon DEF TablesFit
  <1> QED BY <1>1, <1>2, <1>3, Zenon DEF ActualNext

LEMMA CorrectionFits ==
  ASSUME TablesFit, NEW kind, NEW occ, NEW at, CorrectionNext(kind, occ, at)
  PROVE  StepFits(FoundDownstream)
  <1>1. ASSUME NEW t \in DOMAIN pop, NEW s \in Attributions \cup {None}, CorrectSource(t, s, at)
        PROVE  StepFits(FoundDownstream)
    BY <1>1, CorrectSourceFits, Zenon DEF TablesFit
  <1>2. ASSUME NEW d \in Departures \cup ReviewedDepartures, NEW to \in Recipients \cup {None},
               CorrectRecipient(d, to, at)
        PROVE  StepFits(FoundDownstream)
    BY <1>2, CorrectRecipientFits, Zenon DEF TablesFit
  <1>3. ASSUME NEW previous \in Observations \cup {None}, NEW facts \in FoundFacts,
               ObserveCorrection(previous, facts, at)
        PROVE  StepFits(FoundDownstream)
    BY <1>3, ObserveCorrectionFits, Zenon DEF TablesFit
  <1>4. ASSUME NEW o \in Observations, PostFound(o, at) PROVE StepFits(FoundDownstream)
    BY <1>4, PostFoundFits, Zenon
  <1>5. ASSUME NEW r \in Reports, NEW line \in Lines(Revision), NEW g \in Live, NEW n \in 1 .. MaxPacks,
               NEW to \in Recipients \cup {None}, NEW i \in 1 .. Len(ops), NEW s \in Groups,
               PostAdditional([report |-> r, target |-> line, group |-> g, total |-> n, recipient |-> to, occ |-> occ,
                               source |-> Source(i, s)], at)
        PROVE  StepFits(FoundDownstream)
    <2> DEFINE f == [report |-> r, target |-> line, group |-> g, total |-> n, recipient |-> to, occ |-> occ,
                     source |-> Source(i, s)]
    <2>1. f.group = g /\ PostAdditional(f, at)
      BY ZenonT(30), <1>5
    <2> HIDE DEF f
    <2> QED BY <2>1, LiveKnown, PostAdditionalFits, Zenon DEF TablesFit
  <1> QED BY <1>1, <1>2, <1>3, <1>4, <1>5, Zenon DEF CorrectionNext

LEMMA NextFits ==
  ASSUME TablesFit, Next
  PROVE  StepFits(FoundDownstream)
  <1>1. PICK kind, occ, at : Step(kind, occ, at)
    <2>1. \E kind : Step(kind, program[Len(ops) + 1].occ, program[Len(ops) + 1].at)
      BY Zenon DEF Next
    <2> QED BY <2>1, Zenon
  <1> QED BY <1>1, HandlingFits, TreatmentFits, PaperworkFits, CustodyFits, CountFits, ActualFits,
             CorrectionFits, Zenon DEF Step

LEMMA TablesInit ==
  ASSUME Init
  PROVE  TablesFit
  <1>1. ops = <<>> /\ group = <<>>
    BY Zenon DEF Init, EmptyTables
  <1>2. Len(ops) = 0 /\ Groups = {} /\ ops \in Seq(RangeOf(ops))
    BY <1>1 DEF RangeOf, Groups
  <1>3. 1 .. Len(ops) = {}
    BY <1>2
  <1> QED BY <1>2, <1>3, Zenon DEF TablesFit, LogFits, GroupsFit, OpsStand

LEMMA TablesUnchanged ==
  ASSUME TablesFit, UNCHANGED vars
  PROVE  TablesFit'
  <1>1. group' = group /\ ops' = ops
    BY ZenonT(30) DEF vars, tableVars, tables
  <1>2. LogFits'
    BY <1>1, Zenon DEF TablesFit, LogFits, RangeOf
  <1>3. GroupsFit'
    BY <1>1, Zenon DEF TablesFit, GroupsFit, GroupFits, Groups
  <1>4. ASSUME NEW i \in 1 .. Len(ops), Stands(ops[i], i) PROVE Stands(ops[i], i)'
    BY ZenonT(30), <1>1, <1>4 DEF Stands, Groups
  <1>5. OpsStand'
    BY <1>1, <1>4, Zenon DEF TablesFit, OpsStand
  <1> QED BY <1>2, <1>3, <1>5, Zenon DEF TablesFit

\* What was taken since a hold off the groups it was placed on is covered by it.
LEMMA HeldCovered ==
  ASSUME TablesFit, NEW h \in 1 .. Len(ops), ops[h].kind = "hold_place", NEW g \in Groups,
         Descends(group, Anchored(h), TakenSince(h), g)
  PROVE  h \in Holds(Trace(g)) /\ Covers(ops[h].row.scope, g)
  <1> DEFINE scope == ops[h].row.scope
             F == Heirs(h - 1)
             Member(a, x) == group[a.group].born <= h - 1 /\ Descends(group, {a.group}, F, x)
             T == {x \in Groups : group[x].trace = ops[h].row.trace /\ \E a \in scope.anchors : Member(a, x)}
  <1>1. /\ scope.at = h - 1
        /\ \A a \in scope.anchors : /\ a.group \in Groups /\ group[a.group].born < h
                                    /\ group[a.group].trace = ops[h].row.trace
    BY Zenon DEF TablesFit, OpsStand, Stands
  <1>2. \A x \in Groups : GroupFits(x)
    BY Zenon DEF TablesFit, GroupsFit
  <1>3. h \in Nat
    OBVIOUS
  <1>4. \A x \in Groups : group[x].born \in Nat
    BY <1>2 DEF GroupFits
  <1>5. F \subseteq DOMAIN group /\ \A x \in F : group[x].parent \in DOMAIN group
    BY <1>2, Zenon DEF GroupFits, Heirs, Groups
  <1> HIDE DEF F
  <1>6. \A a : \A x \in Groups : Descends(group, {a}, F, x) <=> x \in {a} \/ (x \in F /\ Descends(group, {a}, F, group[x].parent))
    BY <1>5, DescendsStep, Zenon DEF Groups
  <1>7. \A x \in Groups : x \in Anchored(h) => x \in T
    <2> SUFFICES ASSUME NEW x \in Groups, x \in Anchored(h) PROVE x \in T
      BY Zenon
    <2>1. PICK a \in scope.anchors : x = a.group
      BY Zenon DEF Anchored
    <2>2. group[a.group].born <= h - 1
      BY <1>1, <1>3, <1>4, <2>1
    <2>3. Member(a, x)
      BY <1>6, <2>1, <2>2, Zenon
    <2> QED BY <1>1, <2>1, <2>3, Zenon
  <1>8. \A x \in TakenSince(h) : group[x].parent \in T => x \in T
    <2> SUFFICES ASSUME NEW x \in TakenSince(h), group[x].parent \in T PROVE x \in T
      BY Zenon
    <2>1. x \in Groups /\ group[x].parent # None /\ LeftAt(x) > h
      BY Zenon DEF TakenSince
    <2>2. Inherits(x, h - 1)
      <3>1. group[x].born \in Nat /\ (group[x].debited = None \/ (group[x].debited \in Nat /\ group[x].debited < group[x].born))
        BY <1>2, <1>4, <2>1, Zenon DEF GroupFits
      <3>2. CASE group[x].debited = None
        <4>1. group[x].born > h
          BY <2>1, <3>2, Zenon DEF LeftAt
        <4>2. group[x].born > h - 1
          BY <1>3, <3>1, <4>1
        <4> QED BY <3>2, <4>2, Zenon DEF Inherits
      <3>3. CASE group[x].debited # None
        <4>1. group[x].debited > h
          BY <2>1, <3>3, Zenon DEF LeftAt
        <4>2. group[x].born > h - 1 /\ h - 1 < group[x].debited
          BY <1>3, <3>1, <3>3, <4>1
        <4> QED BY <4>2, Zenon DEF Inherits
      <3> QED BY <3>2, <3>3
    <2>3. x \in F
      BY <2>1, <2>2, Zenon DEF F, Heirs
    <2>4. PICK a \in scope.anchors : Member(a, group[x].parent)
      BY Zenon
    <2>5. Member(a, x)
      BY <1>6, <2>1, <2>3, <2>4, Zenon
    <2>6. group[x].trace = ops[h].row.trace
      <3>1. group[group[x].parent].trace = ops[h].row.trace
        BY Zenon
      <3> QED BY <1>2, <2>1, <3>1, Zenon DEF GroupFits
    <2> QED BY <2>1, <2>4, <2>5, <2>6, Zenon
  <1>9. /\ TakenSince(h) \subseteq DOMAIN group
        /\ \A x \in TakenSince(h) : group[x].parent \in DOMAIN group /\ group[group[x].parent].born < group[x].born
    BY <1>2, Zenon DEF TakenSince, GroupFits, Groups
  <1> HIDE DEF T
  <1>10. g \in T
    BY <1>4, <1>7, <1>8, <1>9, DescendsInto, Zenon DEF Groups
  <1>11. group[g].trace = ops[h].row.trace /\ \E a \in scope.anchors : Member(a, g)
    BY <1>10, Zenon DEF T
  <1>12. Covers(scope, g)
    BY <1>1, <1>11, Zenon DEF Covers, CapturedMember, F
  <1>13. h \in Holds(Trace(g))
    BY <1>11, Zenon DEF Holds, Records, Trace
  <1> QED BY <1>12, <1>13, Zenon

LEMMA HeldStep ==
  ASSUME NEW scope, TablesFit, TablesFit', StepFits(scope), HeldStockStays
  PROVE  HeldStockStays'
  <1>1. PICK op : ops' = Append(ops, op) /\ Stands(op, Len(ops) + 1) /\ Permitted(op, scope)
    BY Zenon DEF StepFits
  <1>2. /\ Len(ops) \in Nat /\ Len(ops') = Len(ops) + 1
        /\ \A i \in 1 .. Len(ops) : ops'[i] = ops[i]
        /\ ops'[Len(ops) + 1] = op
    BY <1>1, LogGrows, Zenon DEF TablesFit
  <1>3. SUFFICES ASSUME NEW i \in 1 .. Len(ops'), ops'[i].kind = "departure", NEW g \in {x.group : x \in ops'[i].debits},
                        NEW h \in 1 .. Len(ops'), ops'[h].kind = "hold_place", h < i,
                        ~\E r \in 1 .. Len(ops') : ops'[r].kind = "hold_release" /\ ops'[r].row.hold = h /\ r < i,
                        Descends(group', Anchored(h)', TakenSince(h)', g)
                 PROVE  FALSE
    BY Zenon DEF HeldStockStays, Departures, LinesOf, OpsOf, HeldBefore, Releases
  <1>4. h \in 1 .. Len(ops) /\ ops'[h] = ops[h] /\ (i \in 1 .. Len(ops) \/ i = Len(ops) + 1)
    <2>1. h \in 1 .. Len(ops) /\ (i \in 1 .. Len(ops) \/ i = Len(ops) + 1)
      BY <1>2, <1>3
    <2> QED BY <1>2, <2>1, Zenon
  <1>5. ~\E r \in 1 .. Len(ops) : ops[r].kind = "hold_release" /\ ops[r].row.hold = h /\ r < i
    <2>1. \A r \in 1 .. Len(ops) : r \in 1 .. Len(ops') /\ ops'[r] = ops[r]
      BY <1>2
    <2> QED BY <1>3, <2>1, Zenon
  <1>6. g \in Groups
    <2>1. PICK e \in ops'[i].debits : g = e.group
      BY <1>3, Zenon
    <2>2. CASE i \in 1 .. Len(ops)
      BY <1>2, <2>1, <2>2, Zenon DEF TablesFit, OpsStand, Stands
    <2>3. CASE i = Len(ops) + 1
      BY <1>1, <1>2, <2>1, <2>3, Zenon DEF Stands
    <2> QED BY <1>4, <2>2, <2>3, Zenon
  <1>7. Descends(group, Anchored(h), TakenSince(h), g)
    <2> DEFINE S == Anchored(h)
               F == TakenSince(h)
               F2 == TakenSince(h)'
               old == group
               rows == group'
    <2>1. Anchored(h)' = S
      BY <1>4, Zenon DEF Anchored
    <2>2. DOMAIN old \subseteq DOMAIN rows
      BY Zenon DEF StepFits, GroupsKept, Groups
    <2>3. F \subseteq DOMAIN old /\ \A x \in F : old[x].parent \in DOMAIN old
      BY Zenon DEF TablesFit, GroupsFit, GroupFits, TakenSince, Groups
    <2>4. \A x \in DOMAIN rows : rows[x].born \in Nat
      <3>1. \A x \in DOMAIN rows : rows[x].born \in 1 .. Len(ops')
        BY Zenon DEF TablesFit, GroupsFit, GroupFits, Groups
      <3> HIDE DEF rows
      <3> QED BY <3>1
    <2>5. /\ F2 \subseteq DOMAIN rows
          /\ \A x \in F2 : rows[x].parent \in DOMAIN rows /\ rows[rows[x].parent].born < rows[x].born
      BY Zenon DEF TablesFit, GroupsFit, GroupFits, TakenSince, Groups
    <2>6. \A x \in F2 : x \in DOMAIN old => x \in F /\ rows[x].parent = old[x].parent
      <3> SUFFICES ASSUME NEW x \in F2, x \in DOMAIN old PROVE x \in F /\ rows[x].parent = old[x].parent
        BY Zenon
      <3>1. group'[x].parent = group[x].parent /\ group'[x].born = group[x].born /\ group'[x].debited = group[x].debited
        BY Zenon DEF StepFits, GroupsKept, Groups
      <3>2. LeftAt(x)' = LeftAt(x)
        BY ZenonT(30), <3>1 DEF LeftAt
      <3>3. rows[x].parent # None /\ LeftAt(x)' > h
        BY Zenon DEF TakenSince
      <3> QED BY <3>1, <3>2, <3>3, Zenon DEF TakenSince, Groups
    <2>7. Descends(rows, S, F2, g)
      BY <1>3, <2>1, Zenon
    <2>8. g \in DOMAIN old
      BY <1>6, Zenon DEF Groups
    <2> HIDE DEF S, F, F2, old, rows
    <2>9. Descends(old, S, F, g)
      BY <2>2, <2>3, <2>4, <2>5, <2>6, <2>7, <2>8, DescentOfOld, Zenon
    <2> QED BY <2>9, Zenon DEF S, F, old
  <1>8. CASE i \in 1 .. Len(ops)
    <2>1. i \in Departures /\ g \in LinesOf(i) /\ h \in OpsOf({"hold_place"}) /\ HeldBefore(h, i)
      BY <1>2, <1>3, <1>4, <1>5, <1>8, Zenon DEF Departures, LinesOf, OpsOf, HeldBefore, Releases
    <2> QED BY <1>7, <2>1, Zenon DEF HeldStockStays
  <1>9. CASE i = Len(ops) + 1
    <2>1. Releases(h) = {}
      <3>1. \A r \in 1 .. Len(ops) : r < i
        BY <1>2, <1>9
      <3> QED BY <1>5, <3>1, Zenon DEF Releases
    <2>2. h \in ActiveHolds(g)
      BY <1>3, <1>4, <1>6, <1>7, <2>1, HeldCovered, Zenon DEF ActiveHolds
    <2>3. ActiveHolds(g) = {}
      BY <1>1, <1>2, <1>3, <1>9, Zenon DEF Permitted
    <2> QED BY <2>2, <2>3, Zenon
  <1> QED BY <1>4, <1>8, <1>9, Zenon

(***************************************************************************)
(* Whatever was recorded, in whatever order and at whatever clock, no line *)
(* of a departure is a group that was then under an unreleased hold, or    *)
(* that had been taken since off a group under one.                        *)
(***************************************************************************)
THEOREM HeldStock == Spec => []HeldStockStays
  <1>1. Init => TablesFit /\ HeldStockStays
    <2> SUFFICES ASSUME Init PROVE TablesFit /\ HeldStockStays
      BY Zenon
    <2>1. ops = <<>>
      BY Zenon DEF Init, EmptyTables
    <2>2. 1 .. Len(ops) = {}
      BY <2>1
    <2> QED BY <2>2, TablesInit, Zenon DEF HeldStockStays, Departures
  <1>2. TablesFit /\ HeldStockStays /\ [Next]_vars => (TablesFit /\ HeldStockStays)'
    <2> SUFFICES ASSUME TablesFit, HeldStockStays, [Next]_vars PROVE (TablesFit /\ HeldStockStays)'
      BY Zenon
    <2>1. CASE Next
      BY <2>1, NextFits, TablesStep, HeldStep, Zenon
    <2>2. CASE UNCHANGED vars
      <3>1. group' = group /\ ops' = ops
        BY ZenonT(30), <2>2 DEF vars, tableVars, tables
      <3>2. HeldStockStays'
        <4>1. Departures' = Departures /\ OpsOf({"hold_place"})' = OpsOf({"hold_place"}) /\ \A i : LinesOf(i)' = LinesOf(i)
          BY <3>1, Zenon DEF Departures, LinesOf, OpsOf
        <4>2. \A h, i : HeldBefore(h, i)' <=> HeldBefore(h, i)
          BY <3>1, Zenon DEF HeldBefore, Releases
        <4>3. \A h : Anchored(h)' = Anchored(h) /\ TakenSince(h)' = TakenSince(h)
          BY <3>1, Zenon DEF Anchored, TakenSince, LeftAt, Groups
        <4> QED BY <3>1, <4>1, <4>2, <4>3, Zenon DEF HeldStockStays
      <3> QED BY <2>2, <3>2, TablesUnchanged, Zenon
    <2> QED BY <2>1, <2>2, Zenon
  <1> QED BY <1>1, <1>2, PTL DEF Spec

(***************************************************************************)
(* Once two correction observations are open, no command ever leaves fewer *)
(* than two: only found stock closes one for good, and it needs to be the  *)
(* only one.                                                               *)
(***************************************************************************)
THEOREM OpenObservationsStay == Spec => TwoObservationsStay
  <1>1. Init => TablesFit
    BY TablesInit, Zenon
  <1>2. TablesFit /\ [Next]_vars => TablesFit'
    BY NextFits, TablesStep, TablesUnchanged, Zenon
  <1>3. TablesFit /\ TablesFit' /\ [Next]_vars
          => [Cardinality(OpenObservations) >= 2 => Cardinality(OpenObservations') >= 2]_vars
    <2> SUFFICES ASSUME TablesFit, TablesFit', Next, Cardinality(OpenObservations) >= 2
                 PROVE  Cardinality(OpenObservations') >= 2
      BY Zenon
    <2> DEFINE S == OpenObservations
               T == OpenObservations'
               n == Len(ops) + 1
    <2>2. StepFits(FoundDownstream)
      BY NextFits, Zenon
    <2>3. Len(ops) \in Nat /\ Len(ops') \in Nat
      <3>1. Len(ops) \in Nat /\ Len(ops') = Len(ops) + 1
        BY <2>2, LogGrows, Zenon DEF StepFits, TablesFit
      <3> QED BY <3>1
    <2>1. IsFiniteSet(S) /\ IsFiniteSet(T)
      <3>1. S \subseteq 1 .. Len(ops) /\ T \subseteq 1 .. Len(ops')
        BY Zenon DEF OpenObservations, Observations, OpsOf
      <3> HIDE DEF S, T
      <3> QED BY <2>3, <3>1, BoundedFinite, Zenon
    <2>4. n \notin S
      <3>1. S \subseteq 1 .. Len(ops)
        BY Zenon DEF OpenObservations, Observations, OpsOf
      <3> HIDE DEF S
      <3> QED BY <2>3, <3>1
    <2>5. \/ \E o : S = {o}
          \/ S \subseteq T
          \/ \E p : S \ {p} \subseteq T /\ n \in T
      BY <2>2, ObservationsAfter, Zenon
    <2>6. Cardinality(S) >= 2
      BY ZenonT(30)
    <2> HIDE DEF S, T, n
    <2>7. CASE \E o : S = {o}
      <3>1. Cardinality(S) = 1
        BY Zenon, <2>7, FS_Singleton
      <3> QED BY <2>6, <3>1
    <2>8. CASE ~\E o : S = {o}
      <3>1. PICK p : S \subseteq T \/ (S \ {p} \subseteq T /\ n \in T)
        BY <2>5, <2>8, Zenon
      <3>2. Cardinality(T) >= 2
        BY Zenon, <2>1, <2>4, <2>6, <3>1, TwoStay
      <3> QED BY <3>2, Zenon DEF T
    <2> QED BY <2>7, <2>8
  <1> QED BY <1>1, <1>2, <1>3, PTL DEF Spec, TwoObservationsStay

-----------------------------------------------------------------------------
(***************************************************************************)
(* What is downstream of a population stays downstream: no departure, no   *)
(* party to one, and no version of a paper is ever lost.                   *)
(***************************************************************************)
LEMMA EventKept ==
  ASSUME NEW scope, TablesFit, StepFits(scope), PapersShaped, NEW d \in Departures \cup ReviewedDepartures
  PROVE  /\ d \in 1 .. Len(ops) /\ d \in 1 .. Len(ops') /\ ops'[d] = ops[d] /\ d <= Revision /\ d <= Revision'
         /\ \A e \in ops[d].debits : Trace(e.group)' = Trace(e.group)
         /\ d \in ReviewedDepartures => Trace(ops[d].row.group)' = Trace(ops[d].row.group)
         /\ ops[d].kind = "departure" => PaperAt(ops[d].row.paper, d - 1)' = PaperAt(ops[d].row.paper, d - 1)
  <1>1. PICK op : ops' = Append(ops, op)
    BY Zenon DEF StepFits
  <1>2. /\ Len(ops) \in Nat /\ Len(ops') = Len(ops) + 1
        /\ \A i \in 1 .. Len(ops) : ops'[i] = ops[i]
    BY <1>1, LogGrows, Zenon DEF TablesFit
  <1>3. d \in 1 .. Len(ops)
    BY Zenon DEF Departures, ReviewedDepartures, OpsOf
  <1>4. d \in 1 .. Len(ops') /\ d <= Revision /\ d <= Revision'
    BY <1>2, <1>3 DEF Revision
  <1>5. ops'[d] = ops[d]
    BY <1>2, <1>3, Zenon
  <1>6. Stands(ops[d], d)
    BY <1>3, Zenon DEF TablesFit, OpsStand
  <1>7. \A g \in Groups : Trace(g)' = Trace(g)
    BY Zenon DEF StepFits, GroupsKept, Trace
  <1>8. \A e \in ops[d].debits : Trace(e.group)' = Trace(e.group)
    BY <1>6, <1>7, Zenon DEF Stands
  <1>9. ASSUME d \in ReviewedDepartures PROVE Trace(ops[d].row.group)' = Trace(ops[d].row.group)
    <2>1. ops[d].row.group \in Groups
      BY <1>6, <1>9, Zenon DEF Stands, ReviewedDepartures, OpsOf
    <2> QED BY <1>5, <2>1, Zenon DEF StepFits, GroupsKept, Trace
  <1>10. ASSUME ops[d].kind = "departure"
         PROVE  PaperAt(ops[d].row.paper, d - 1)' = PaperAt(ops[d].row.paper, d - 1)
    <2> DEFINE p == ops[d].row.paper
    <2>1. p \in 1 .. (d - 1) /\ ops[p].kind = "dispatch_prepare"
      BY <1>6, <1>10, Zenon DEF Stands
    <2>2. p \in 1 .. Len(ops) /\ d - 1 \in p .. Len(ops)
      <3> HIDE DEF p
      <3> QED BY <1>2, <1>3, <2>1
    <2>3. p \in Papers
      BY <2>1, <2>2, Zenon DEF Papers
    <2> HIDE DEF p
    <2> DEFINE c == d - 1
    <2>4. c \in p .. Len(ops)
      BY ZenonT(30), <2>2
    <2> HIDE DEF c
    <2>5. PaperIn(ops', p, c) = PaperIn(ops, p, c)
      BY <2>3, <2>4, PapersStep, Zenon DEF PaperAt
    <2> QED BY <1>5, <2>5, Zenon DEF PaperAt, p, c
  <1> QED BY <1>3, <1>4, <1>5, <1>8, <1>9, <1>10, Zenon

LEMMA EventsKept ==
  ASSUME NEW scope, TablesFit, StepFits(scope), PapersShaped, NEW t, NEW d \in KnownEvents(t, Revision)
  PROVE  d \in KnownEvents(t, Revision)'
  <1>1. d \in Departures \cup ReviewedDepartures
    BY Zenon DEF KnownEvents
  <1>2. /\ d \in 1 .. Len(ops) /\ d \in 1 .. Len(ops') /\ ops'[d] = ops[d] /\ d <= Revision /\ d <= Revision'
        /\ \A e \in ops[d].debits : Trace(e.group)' = Trace(e.group)
        /\ d \in ReviewedDepartures => Trace(ops[d].row.group)' = Trace(ops[d].row.group)
    BY <1>1, EventKept, Zenon
  <1>3. CASE d \in Departures /\ \E e \in ops[d].debits : Trace(e.group) = t
    <2>1. PICK e \in ops[d].debits : Trace(e.group) = t
      BY <1>3, Zenon
    <2>2. d \in Departures'
      BY <1>2, <1>3, Zenon DEF Departures
    <2>3. e \in ops'[d].debits /\ Trace(e.group)' = t
      BY <1>2, <2>1, Zenon
    <2> QED BY <1>2, <2>2, <2>3, Zenon DEF KnownEvents
  <1>4. CASE d \in ReviewedDepartures /\ Trace(ops[d].row.group) = t
    <2>1. d \in ReviewedDepartures'
      BY <1>2, <1>4, Zenon DEF ReviewedDepartures, OpsOf
    <2>2. Trace(ops[d].row.group)' = t
      BY <1>2, <1>4, Zenon
    <2> QED BY <1>2, <2>1, <2>2, Zenon DEF KnownEvents
  <1> QED BY <1>3, <1>4, Zenon DEF KnownEvents

LEMMA ImpactKept ==
  ASSUME NEW scope, TablesFit, StepFits(scope), PapersShaped, NEW d \in Departures \cup ReviewedDepartures,
         NEW x \in EventImpact(d, Revision)
  PROVE  x \in EventImpact(d, Revision)'
  <1>2. /\ d \in 1 .. Len(ops) /\ d \in 1 .. Len(ops') /\ ops'[d] = ops[d]
        /\ \A e \in ops[d].debits : Trace(e.group)' = Trace(e.group)
        /\ ops[d].kind = "departure" => PaperAt(ops[d].row.paper, d - 1)' = PaperAt(ops[d].row.paper, d - 1)
    BY EventKept, Zenon
  <1>3. EventPopulations(d)' = EventPopulations(d)
    BY <1>2, Zenon DEF EventPopulations
  <1>4. IssuedFor(d)' = IssuedFor(d)
    <2>1. CASE ops[d].kind = "departure"
      BY <1>2, <2>1, Zenon DEF IssuedFor, VersionsOf
    <2>2. CASE ops[d].kind # "departure"
      BY <1>2, <2>2, Zenon DEF IssuedFor
    <2> QED BY <2>1, <2>2
  <1>5. RecipientOf(d)' = RecipientOf(d)
    <2>1. CASE ops[d].kind = "departure"
      BY <1>2, <2>1, Zenon DEF RecipientOf, LastVersion
    <2>2. CASE ops[d].kind # "departure"
      BY <1>2, <2>2, Zenon DEF RecipientOf
    <2> QED BY <2>1, <2>2
  <1>6. \A to \in Parties(d, Revision) : to \in Parties(d, Revision)'
    <2>1. PICK op : ops' = Append(ops, op)
      BY Zenon DEF StepFits
    <2>2. /\ Len(ops) \in Nat /\ Len(ops') = Len(ops) + 1
          /\ \A i \in 1 .. Len(ops) : ops'[i] = ops[i]
      BY <2>1, LogGrows, Zenon DEF TablesFit
    <2>3. \A i \in 1 .. Len(ops) : i \in 1 .. Len(ops') /\ i <= Revision'
      BY <2>2 DEF Revision
    <2> SUFFICES ASSUME NEW to \in Parties(d, Revision), to # RecipientOf(d) PROVE to \in Parties(d, Revision)'
      BY <1>5, Zenon DEF Parties
    <2>4. PICK i \in 1 .. Len(ops) : /\ ops[i].kind = "correction_recipient" /\ ops[i].row.target = d
                                     /\ to \in {ops[i].row.before, ops[i].row.after}
      BY Zenon DEF Parties, OpsOf
    <2>5. /\ ops'[i].kind = "correction_recipient" /\ ops'[i].row.target = d
          /\ to \in {ops'[i].row.before, ops'[i].row.after}
      BY ZenonT(30), <2>2, <2>4
    <2> QED BY <2>3, <2>5, Zenon DEF Parties, OpsOf
  <1>7. \/ x \in {<<"departure", d>>} \cup PopulationTargets(EventPopulations(d)) \cup VersionTargets(IssuedFor(d))
        \/ \E to \in Parties(d, Revision) : x \in RecipientTargets(d, to)
    BY Zenon DEF EventImpact
  <1>8. CASE x \in {<<"departure", d>>} \cup PopulationTargets(EventPopulations(d)) \cup VersionTargets(IssuedFor(d))
    BY <1>3, <1>4, <1>8, Zenon DEF EventImpact, PopulationTargets, VersionTargets
  <1>9. CASE \E to \in Parties(d, Revision) : x \in RecipientTargets(d, to)
    <2>1. PICK to \in Parties(d, Revision) : x \in RecipientTargets(d, to)
      BY <1>9, Zenon
    <2>2. to \in Parties(d, Revision)' /\ RecipientTargets(d, to)' = RecipientTargets(d, to)
      BY <1>6, Zenon DEF RecipientTargets
    <2> QED BY <2>1, <2>2, Zenon DEF EventImpact
  <1> QED BY <1>7, <1>8, <1>9, Zenon

LEMMA VersionsKept ==
  ASSUME NEW scope, TablesFit, StepFits(scope), PapersShaped, NEW x \in IssuedVersions(Revision)
  PROVE  x \in IssuedVersions(Revision)'
  <1>1. PICK p \in Papers : p <= Revision /\ \E k \in 1 .. Len(Paper(p).versions) : x = IssuedFact(Paper(p).versions[k])
    BY Zenon DEF IssuedVersions, VersionsOf, Paper
  <1>2. PICK k \in 1 .. Len(Paper(p).versions) : x = IssuedFact(Paper(p).versions[k])
    BY <1>1, Zenon
  <1>3. p \in Papers' /\ Keeps(Paper(p), Paper(p)')
    BY PapersStep, Zenon
  <1> DEFINE v == Paper(p).versions[k]
             w == Paper(p)'.versions[k]
  <1>4. k \in 1 .. Len(Paper(p)'.versions) /\ w.id = v.id /\ w.material = v.material
    BY <1>3, Zenon DEF Keeps
  <1>5. x = IssuedFact(w)
    <2> HIDE DEF v, w
    <2>1. IssuedFact(v) = IssuedFact(w)
      BY <1>4, Zenon DEF IssuedFact
    <2> QED BY <1>2, <2>1, Zenon DEF v
  <1>6. p <= Revision'
    <2>1. PICK op : ops' = Append(ops, op)
      BY Zenon DEF StepFits
    <2>2. Len(ops) \in Nat /\ Len(ops') = Len(ops) + 1
      BY <2>1, LogGrows, Zenon DEF TablesFit
    <2>3. p \in 1 .. Len(ops)
      BY Zenon DEF Papers
    <2> QED BY <2>2, <2>3 DEF Revision
  <1>7. w \in VersionsOf(p, Revision)'
    BY <1>4, Zenon DEF VersionsOf, Paper
  <1>8. IssuedFact(w) \in {IssuedFact(u) : u \in VersionsOf(p, Revision)'}
    BY <1>7, Zenon
  <1> HIDE DEF w
  <1>9. x \in {IssuedFact(u) : u \in VersionsOf(p, Revision)'}
    BY <1>5, <1>8, Zenon
  <1> QED BY <1>3, <1>6, <1>9, Zenon DEF IssuedVersions, IssuedFact

LEMMA DownstreamKept ==
  ASSUME NEW scope, TablesFit, StepFits(scope), PapersShaped, NEW t, NEW x \in Downstream(t, Revision)
  PROVE  x \in Downstream(t, Revision)'
  <1>1. \/ x \in {<<"population", t>>}
        \/ \E d \in KnownEvents(t, Revision) : x \in EventImpact(d, Revision)
        \/ \E v \in IssuedVersions(Revision) : t \in v.traces /\ x \in VersionImpact(v)
    BY Zenon DEF Downstream
  <1>2. CASE x \in {<<"population", t>>}
    BY <1>2, Zenon DEF Downstream
  <1>3. ASSUME NEW d \in KnownEvents(t, Revision), x \in EventImpact(d, Revision)
        PROVE  x \in Downstream(t, Revision)'
    <2>1. d \in KnownEvents(t, Revision)'
      BY EventsKept, Zenon
    <2>2. d \in Departures \cup ReviewedDepartures
      BY Zenon DEF KnownEvents
    <2>3. x \in EventImpact(d, Revision)'
      BY <1>3, <2>2, ImpactKept, Zenon
    <2> QED BY <2>1, <2>3, Zenon DEF Downstream
  <1>4. ASSUME NEW v \in IssuedVersions(Revision), t \in v.traces, x \in VersionImpact(v)
        PROVE  x \in Downstream(t, Revision)'
    <2>1. v \in IssuedVersions(Revision)'
      BY VersionsKept, Zenon
    <2>2. VersionImpact(v)' = VersionImpact(v)
      BY Zenon DEF VersionImpact, PopulationTargets
    <2> QED BY <1>4, <2>1, <2>2, Zenon DEF Downstream
  <1> QED BY <1>1, <1>2, <1>3, <1>4, Zenon

LEMMA DownstreamStep ==
  ASSUME TablesFit, StepFits(FoundDownstream), PapersShaped, DownstreamGrows
  PROVE  DownstreamGrows'
  <1>1. PICK op : ops' = Append(ops, op) /\ Permitted(op, FoundDownstream)
    BY Zenon DEF StepFits
  <1>2. /\ Len(ops) \in Nat /\ Len(ops') = Len(ops) + 1
        /\ \A i \in 1 .. Len(ops) : ops'[i] = ops[i]
        /\ ops'[Len(ops) + 1] = op
    BY <1>1, LogGrows, Zenon DEF TablesFit
  <1> SUFFICES ASSUME NEW i \in 1 .. Len(ops'), ops'[i].kind = "correction_source",
                      NEW x \in ops'[i].row.impact, x[1] \notin {"source", "unresolved_source"}
               PROVE  x \in Downstream(ops[i].row.trace, Revision)'
    BY Zenon DEF DownstreamGrows, SourceCorrections, OpsOf
  <1> DEFINE t == ops'[i].row.trace
  <1>3. x \in Downstream(t, Revision)
    <2>1. CASE i \in 1 .. Len(ops)
      <3>1. i <= Revision
        BY <1>2, <2>1 DEF Revision
      <3> QED BY <1>2, <2>1, <3>1, Zenon DEF DownstreamGrows, SourceCorrections, OpsOf
    <2>2. CASE i = Len(ops) + 1
      <3>1. FoundDownstream = Downstream(t, Revision)
        BY <1>2, <2>2, Zenon DEF FoundDownstream
      <3> QED BY <1>1, <1>2, <2>2, <3>1, Zenon DEF Permitted
    <2>3. i \in 1 .. Len(ops) \/ i = Len(ops) + 1
      BY <1>2
    <2> QED BY <2>1, <2>2, <2>3, Zenon
  <1>4. PICK u : u = t
    BY Zenon
  <1>5. x \in Downstream(u, Revision)
    BY <1>3, <1>4, Zenon
  <1>6. x \in Downstream(u, Revision)'
    BY <1>5, DownstreamKept, Zenon
  <1> QED BY <1>4, <1>6, Zenon

(***************************************************************************)
(* Whatever is recorded after a source correction, everything it was said  *)
(* to affect downstream of the population is still found downstream of it: *)
(* the scope a later correction of the population must cover never         *)
(* shrinks.                                                                *)
(***************************************************************************)
THEOREM SourceScopeGrows == Spec => []DownstreamGrows
  <1> DEFINE Inv == TablesFit /\ PapersShaped /\ DownstreamGrows
  <1>1. Init => Inv
    <2> SUFFICES ASSUME Init PROVE Inv
      BY Zenon
    <2>1. ops = <<>>
      BY Zenon DEF Init, EmptyTables
    <2>2. 1 .. Len(ops) = {}
      BY <2>1
    <2>3. PapersShaped /\ DownstreamGrows
      BY <2>2, Zenon DEF PapersShaped, Papers, DownstreamGrows, SourceCorrections, OpsOf
    <2> QED BY <2>3, TablesInit, Zenon
  <1>2. Inv /\ [Next]_vars => Inv'
    <2> SUFFICES ASSUME Inv, [Next]_vars PROVE Inv'
      BY Zenon
    <2>1. CASE Next
      <3>1. StepFits(FoundDownstream)
        BY <2>1, NextFits, Zenon
      <3>2. PapersShaped'
        BY <3>1, PapersStep, Zenon
      <3> QED BY <3>1, <3>2, TablesStep, DownstreamStep, Zenon
    <2>2. CASE UNCHANGED vars
      <3>1. group' = group /\ ops' = ops
        BY ZenonT(30), <2>2 DEF vars, tableVars, tables
      <3>2. PapersShaped'
        BY <3>1, Zenon DEF PapersShaped, Papers, Paper, PaperAt, Revision
      <3>3. ASSUME NEW t PROVE Downstream(t, Revision)' = Downstream(t, Revision)
        <4>1. Departures' = Departures /\ ReviewedDepartures' = ReviewedDepartures /\ Papers' = Papers
              /\ Revision' = Revision /\ \A kinds : OpsOf(kinds)' = OpsOf(kinds)
          BY <3>1, Zenon DEF Departures, ReviewedDepartures, Papers, Revision, OpsOf
        <4>2. \A p, c : PaperAt(p, c)' = PaperAt(p, c)
          BY <3>1, Zenon DEF PaperAt
        <4>3. \A g : Trace(g)' = Trace(g)
          BY <3>1, Zenon DEF Trace
        <4>4. KnownEvents(t, Revision)' = KnownEvents(t, Revision)
          BY <3>1, <4>1, Zenon DEF KnownEvents, Trace
        <4>5. IssuedVersions(Revision)' = IssuedVersions(Revision)
          <5>1. \A p : VersionsOf(p, Revision)' = VersionsOf(p, Revision)
            BY <4>1, <4>2, Zenon DEF VersionsOf
          <5> QED BY <4>1, <5>1, Zenon DEF IssuedVersions, IssuedFact
        <4>6. \A d : EventImpact(d, Revision)' = EventImpact(d, Revision)
          <5> SUFFICES ASSUME NEW d PROVE EventImpact(d, Revision)' = EventImpact(d, Revision)
            BY Zenon
          <5>1. EventPopulations(d)' = EventPopulations(d)
            BY <3>1, Zenon DEF EventPopulations, Trace
          <5>2. IssuedFor(d)' = IssuedFor(d)
            BY <3>1, Zenon DEF IssuedFor, VersionsOf, PaperAt
          <5>3. RecipientOf(d)' = RecipientOf(d)
            BY <3>1, Zenon DEF RecipientOf, LastVersion, PaperAt
          <5>4. Parties(d, Revision)' = Parties(d, Revision)
            BY <3>1, <5>3, Zenon DEF Parties, OpsOf, Revision
          <5> QED BY <5>1, <5>2, <5>4, Zenon DEF EventImpact, PopulationTargets, VersionTargets, RecipientTargets
        <4>7. \A v : VersionImpact(v)' = VersionImpact(v)
          BY Zenon DEF VersionImpact, PopulationTargets
        <4> DEFINE A == UNION {EventImpact(d, Revision) : d \in KnownEvents(t, Revision)}
                   B == UNION {VersionImpact(v) : v \in {x \in IssuedVersions(Revision) : t \in x.traces}}
        <4>8. A' = A
          BY <4>4, <4>6, Zenon
        <4>9. B' = B
          BY <4>5, <4>7, Zenon
        <4>10. Downstream(t, Revision) = {<<"population", t>>} \cup A \cup B
          BY Zenon DEF Downstream
        <4>11. Downstream(t, Revision)' = {<<"population", t>>} \cup A' \cup B'
          BY Zenon DEF Downstream
        <4> HIDE DEF A, B
        <4> QED BY <4>8, <4>9, <4>10, <4>11, Zenon
      <3>4. DownstreamGrows'
        <4>1. \A i : SourceCorrections(Revision)' = SourceCorrections(Revision)
          BY <3>1, Zenon DEF SourceCorrections, OpsOf, Revision
        <4> QED BY <3>1, <3>3, <4>1, Zenon DEF DownstreamGrows
      <3> QED BY <2>2, <3>2, <3>4, TablesUnchanged, Zenon
    <2> QED BY <2>1, <2>2, Zenon
  <1>3. Inv => DownstreamGrows
    BY Zenon
  <1> QED BY <1>1, <1>2, <1>3, PTL DEF Spec
=============================================================================
