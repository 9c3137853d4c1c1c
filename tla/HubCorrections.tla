--------------------------- MODULE HubCorrections ---------------------------
(***************************************************************************)
(* Corrections of how much.  Packs said to have left can be found again,   *)
(* and a line can turn out to have been larger than recorded.  The line    *)
(* itself never changes: amendments follow it.  Packs found again are new  *)
(* groups, children of the group they were debited from, funded by what is *)
(* left of that debit; additional packs are taken out of another group.    *)
(* What was seen is recorded first, as an observation that changes no      *)
(* stock and stays open until it is used or superseded.                    *)
(***************************************************************************)
EXTENDS HubAttribution

(***************************************************************************)
(* Observations: [previous, facts].  The facts of a found remainder are    *)
(* [family, target, allocations], each allocation [debit, packs, label,    *)
(* place]; nothing in them is verified yet.                                *)
(***************************************************************************)
\* preserve and observe_on.
CorrectionObserveAllowed(previous, facts, at) ==
  /\ ClockAt(Revision) <= at
  /\ previous # None =>
       previous \in OpenObservations /\ ops[previous].row.facts.family = facts.family

ObserveCorrection(previous, facts, at) ==
  LET row == [previous |-> previous, facts |-> facts] IN
  /\ CorrectionObserveAllowed(previous, facts, at)
  /\ Record(Operation("correction_observe", at, row, {}, {}), <<>>, row, {})
  /\ UNCHANGED <<pop, group, pos, work, alloc>>

ObservedReadable(o) ==
  LET previous == ops[o].row.previous IN
  /\ EventsOf(o) = {}
  /\ previous # None =>
       /\ previous \in Observations /\ previous < o
       /\ ops[previous].row.facts.family = ops[o].row.facts.family
  /\ Cardinality(Superseding(o)) + Cardinality(UsedBy(o)) <= 1

ObservedOriginal(o) == [previous |-> ops[o].row.previous, facts |-> ops[o].row.facts]
-----------------------------------------------------------------------------
(***************************************************************************)
(* The account of a line: what it was recorded with and every amendment.   *)
(***************************************************************************)
LastAmendment(d, g, cut) == Latest(Amendments(d, g, cut))

AllocatedPacks(allocations) ==
  LET Of(k) == allocations[k].packs IN Total(DOMAIN allocations, Of)

\* verify_fact_on: an amendment rests on a fact recorded before it.
AmendmentFactReadable(i) ==
  LET r == ops[i].row
      fact == IF ops[i].kind = "correction_found" THEN r.observation ELSE r.report
  IN  /\ fact < i /\ ops[fact].at <= ops[i].at
      /\ ops[i].kind = "correction_found" =>
           /\ ops[fact].row.facts.family = "found" /\ ops[fact].row.facts.target = r.target
           /\ AllocatedPacks(ops[fact].row.facts.allocations) = r.packs

\* history_from_original_on and DepartureQuantityAccount::restore.
QuantityReadable(d, g, cut) ==
  /\ \A i \in Amendments(d, g, cut) :
       /\ ops[i].row.prior = LastAmendment(d, g, i - 1) /\ ops[i].row.effective = Effective(d, g, i - 1)
       /\ ops[i].row.packs > 0 /\ AmendmentFactReadable(i)
       /\ Effective(d, g, i) >= 0
  /\ ReturnedTo(d, g, cut) <= Effective(d, g, cut)
-----------------------------------------------------------------------------
(***************************************************************************)
(* Funding: the debits a line stands on, and what is left of each.         *)
(***************************************************************************)
Lines(cut) == UNION {{<<d, g>> : g \in LinesOf(d)} : d \in {x \in Departures \cup ReviewedDepartures : x <= cut}}

\* additional_debits_on: the balancing groups of additional quantity.
PhysicalDebits(line, cut) ==
  {line} \cup {<<i, ops[i].row.group>> : i \in {x \in Amendments(line[1], line[2], cut) :
                                                 ops[x].kind = "correction_additional"}}

\* returns_on: a return is reserved on the line's own debit.
Reserved(k, line, cut) == IF k = line THEN ReturnedTo(line[1], line[2], cut) ELSE 0

\* PhysicalDebitFunding::restore.
Available(k, line, cut) ==
  Debit(k[1], k[2]) - Recovered(k[1], k[2], cut) - Reserved(k, line, cut)

CreditsOf(line, cut) == {i \in Amendments(line[1], line[2], cut) : ops[i].kind = "correction_found"}

\* OriginalPhysicalDebit::validate: the debited group had happened already.
DebitReadable(k) == CausalFloor(k[2], k[1] - 1) <= ops[k[1]].at

\* target_funding::load_with_proofs_on: line by line, debits, credits and
\* returns add up to the account.
FundingReadable(line, cut) ==
  LET S == PhysicalDebits(line, cut)
      Found(k) == Recovered(k[1], k[2], cut)
      Net(k) == Debit(k[1], k[2]) - Recovered(k[1], k[2], cut)
  IN  /\ QuantityReadable(line[1], line[2], cut)
      /\ \A k \in S : DebitReadable(k) /\ Found(k) + Reserved(k, line, cut) <= Debit(k[1], k[2])
      /\ \A i \in CreditsOf(line, cut) : \A f \in ops[i].row.found : f.debit \in S /\ ops[f.debit[1]].at <= ops[i].at
      /\ Total(S, Found) = AmendedBy(line[1], line[2], "correction_found", cut)
      /\ Total(S, Net) = Effective(line[1], line[2], cut)

\* validate_funding: the clocks of everything that touched the line agree with
\* the order it was recorded in.
FundingOrdered(line, cut) ==
  LET S == {k[1] : k \in PhysicalDebits(line, cut)} \cup CreditsOf(line, cut)
             \cup {i \in Returns : i <= cut /\ Counted(i, line[1], line[2])}
  IN  \A i, j \in S : i < j => ops[i].at <= ops[j].at

DebitAfter(k) == (CHOOSE d \in ops[k[1]].debits : d.group = k[2]).after

\* validate_funding: neither a debited group nor a found one has grown.
FundingHeld(line, c) ==
  /\ \A k \in PhysicalDebits(line, c.cut) : c.held[k[2]] <= DebitAfter(k)
  /\ \A i \in CreditsOf(line, c.cut) : \A f \in ops[i].row.found :
       HeldPacks(c, [at |-> i, anchors |-> {[group |-> f.group, packs |-> f.packs]}]) <= f.packs
-----------------------------------------------------------------------------
(***************************************************************************)
(* Found stock: facts f = [target, allocations] in context c.              *)
(***************************************************************************)
LabelsNow == {group[g].label : g \in Live} \ {None}

FoundContext(t) ==
  [cut |-> Revision, held |-> [x \in Members(t) |-> Packs(x)], labels |-> LabelsNow, latest |-> ClockAt(Revision)]

RecordsAt(t, cut) ==
  Cardinality({i \in Decisions(t) \cup Holds(t) : i <= cut})
    + Cardinality({i \in {group[g].born : g \in InitialReviews(t)} : i <= cut})

\* What an allocation and those before it take from one debit.
Taken(allocations, k, debit) ==
  LET Of(j) == IF allocations[j].debit = debit THEN allocations[j].packs ELSE 0 IN Total(1 .. k, Of)

FoundLabelled(f, c) ==
  LET a == f.allocations
      debited == {group[k[2]].label : k \in PhysicalDebits(f.target, c.cut)}
  IN  /\ \A k \in DOMAIN a : a[k].label \notin c.labels \cup debited
      /\ \A k, j \in DOMAIN a : a[k].label = a[j].label => k = j

\* FoundStockCommand::plan.
FoundAllowed(f, c, at) ==
  LET a == f.allocations
      t == Trace(f.target[2])
  IN  /\ a # <<>> /\ c.latest <= at /\ RecordsAt(t, c.cut) < TraceRecords
      /\ FundingOrdered(f.target, c.cut) /\ FundingHeld(f.target, c)
      /\ ~UnresolvedReturns(f.target[1], f.target[2], c.cut)
      /\ \A k \in DOMAIN a :
           /\ a[k].packs > 0 /\ a[k].debit \in PhysicalDebits(f.target, c.cut)
           /\ Taken(a, k, a[k].debit) <= Available(a[k].debit, f.target, c.cut)
      /\ FoundLabelled(f, c)
      /\ Effective(f.target[1], f.target[2], c.cut)
           >= AllocatedPacks(a) + ReturnedTo(f.target[1], f.target[2], c.cut)

\* found_stock_group_id: one group per allocation of the operation.
ChildId(i, k) == i + 100 * (k - 1)

FoundPlan(f, c, i) ==
  LET a == f.allocations
      d == f.target[1]
      g == f.target[2]
  IN  [target |-> f.target, packs |-> AllocatedPacks(a), effective |-> Effective(d, g, c.cut),
       prior |-> LastAmendment(d, g, c.cut), impact |-> LineImpact(d, g, c.cut),
       found |-> {[group |-> ChildId(i, k), debit |-> a[k].debit, packs |-> a[k].packs,
                   label |-> a[k].label, place |-> a[k].place,
                   available |-> Available(a[k].debit, f.target, c.cut) - Taken(a, k - 1, a[k].debit)] :
                     k \in DOMAIN a}]

FoundGroup(f, at) ==
  [id |-> f.group, trace |-> Trace(f.debit[2]), parent |-> f.debit[2], label |-> f.label, place |-> f.place,
   packs |-> f.packs, rev |-> 1, floor |-> at, work |-> <<>>]

\* persist_allocation_on: a group, its identification and its position; no work.
WriteFound(S) ==
  LET Of(g) == CHOOSE f \in S : f.group = g
      new == {f.group : f \in S}
  IN  /\ InsertGroups([g \in new |-> [trace |-> Trace(Of(g).debit[2]), parent |-> Of(g).debit[2], label |-> Of(g).label,
                                        born |-> NextId, debited |-> Of(g).debit[1], rev |-> 1]])
      /\ pos' = [g \in new |-> At(Of(g).place, Of(g).packs)] @@ pos
      /\ UNCHANGED <<pop, work, alloc>>

\* Mutant of FoundReady.
FoundAmongOthers(o) == o \in OpenObservations /\ \A r \in Reports : ClosedBy(r) # {}

\* load_on: nothing else is unsettled.
FoundReady(o) == OpenObservations = {o} /\ \A r \in Reports : ClosedBy(r) # {}

FoundEvents(i, a, at) ==
  [k \in DOMAIN a |-> Event(ChildId(i, k), a[k].packs, Known(at), None, a[k].place)]

FoundRow(o, c, p) ==
  [observation |-> o, lineage |-> c.held, labels |-> c.labels, latest |-> c.latest, target |-> p.target,
   packs |-> p.packs, effective |-> p.effective, prior |-> p.prior, impact |-> p.impact, found |-> p.found]

\* found_write::apply_on and found_frozen::persist_on.
PostFound(o, at) ==
  LET f == ops[o].row.facts
      c == FoundContext(Trace(f.target[2]))
      p == FoundPlan(f, c, NextId)
  IN  /\ FoundReady(o) /\ f.family = "found" /\ f.target \in Lines(Revision)
      /\ FundingReadable(f.target, Revision)
      /\ FoundAllowed(f, c, at)
      /\ WriteFound(p.found)
      /\ Record(Operation("correction_found", at, FoundRow(o, c, p), {}, {}),
                FoundEvents(NextId, f.allocations, at), p, {FoundGroup(x, at) : x \in p.found})
-----------------------------------------------------------------------------
(***************************************************************************)
(* restore_with_proofs_on, original_with_proofs_on and verify_outputs_on.  *)
(***************************************************************************)
FrozenFound(i) ==
  [cut |-> i - 1, held |-> ops[i].row.lineage, labels |-> ops[i].row.labels, latest |-> ops[i].row.latest]

FrozenFoundReadable(i) ==
  LET r == ops[i].row
      t == Trace(r.target[2])
  IN  /\ r.latest = ClockAt(i - 1) /\ r.latest <= ops[i].at /\ r.observation < i
      /\ DOMAIN r.lineage = {x \in Members(t) : group[x].born < i}
      /\ \A x \in DOMAIN r.lineage : r.lineage[x] = PacksAt(x, i - 1)
      /\ \A l \in r.labels : \E x \in Groups : group[x].born < i /\ group[x].label = l
      /\ FundingReadable(r.target, i - 1)

FoundOutputsReadable(i) ==
  LET r == ops[i].row IN
  /\ ops[i].debits = {} /\ ops[i].removed = {} /\ Cardinality(EventsOf(i)) = Cardinality(r.found)
  /\ \A f \in r.found :
       /\ FoundReadable(f.group) /\ \A w \in WorkOf(f.group) : w > i
       /\ \E n \in EventsOf(i) :
            events[n] = [op |-> i, group |-> f.group, packs |-> f.packs, occ |-> Known(ops[i].at),
                         from |-> None, to |-> f.place]
  /\ LastAmendment(r.target[1], r.target[2], i) = i

FoundOriginal(i) == FoundPlan(ops[ops[i].row.observation].row.facts, FrozenFound(i), i)

FoundCorrectionReadable(i) ==
  /\ FrozenFoundReadable(i) /\ FoundOutputsReadable(i)
  /\ FoundAllowed(ops[ops[i].row.observation].row.facts, FrozenFound(i), ops[i].at)
  /\ \A x \in DOMAIN FoundOriginal(i) : FoundOriginal(i)[x] = ops[i].row[x]
-----------------------------------------------------------------------------
(***************************************************************************)
(* Additional quantity of a known line: facts f = [report, target, group,  *)
(* total, recipient, occ, source]; group is the one that holds too much.   *)
(***************************************************************************)
\* validate_corrected_report.
CorrectedReportAgrees(f) ==
  LET claim == ops[f.report].row IN
  /\ ValidOccurrence(f.occ, ops[f.report].at)
  /\ claim.variant \in {None, Variant(f.target[2])}
  /\ claim.recipient \in {None, f.recipient}
  /\ claim.packs \in {None, f.total}
  /\ Refines(claim.occ, f.occ)

Additional(f, cut) == f.total - Effective(f.target[1], f.target[2], cut)

\* validate_duplicates: any other departure it could be refuses it.
OtherDepartures(f, c) == Duplicates(f, c) \ {f.target[1]}

\* AdditionalQuantityCommand::plan.
AdditionalAllowed(f, c, at) ==
  LET d == f.target[1] IN
  /\ c.group.floor <= ClockAt(c.cut) /\ ClockAt(c.cut) <= at
  /\ f.target \in Lines(c.cut) /\ Trace(f.target[2]) = c.group.trace
  /\ f.recipient = CurrentRecipient(d, c.cut)
  /\ CorrectedReportAgrees(f) /\ Refines(ops[d].row.occ, f.occ)
  /\ f.total > Effective(d, f.target[2], c.cut) /\ Additional(f, c.cut) <= c.group.packs
  /\ SourceResolved(f.source, f, c)
  /\ OtherDepartures(f, c) = {}

AdditionalPlan(f, c) ==
  LET n == Additional(f, c.cut)
      d == f.target[1]
      g == f.target[2]
  IN  [facts |-> f, packs |-> n, effective |-> Effective(d, g, c.cut), prior |-> LastAmendment(d, g, c.cut),
       impact |-> LineImpact(d, g, c.cut),
       before |-> c.group, after |-> c.group.packs - n, rev |-> c.group.rev + 1,
       floor |-> FloorAfter(c.group.floor, f.occ),
       changes |-> ShortageChanges(c.group, n), removed |-> ShortageRemoved(c.group, n),
       findings |-> Findings(f, c),
       scopes |-> {[hold |-> h, scope |-> HoldScope(h, f, c)] : h \in HoldsAt(c)}]

AdditionalRow(f, c, p) ==
  [report |-> f.report, target |-> f.target, group |-> f.group, total |-> f.total, recipient |-> f.recipient,
   occ |-> f.occ, source |-> f.source, packs |-> p.packs, effective |-> p.effective, prior |-> p.prior,
   impact |-> p.impact, before |-> c.group, lineage |-> c.held, after |-> p.after, rev |-> p.rev]

\* The balancing group shrinks as a counted shortage shrinks a group, and is
\* read back as planned.
TakeAdditional(p) == WriteShortage(p)
AdditionalLeft(p) == Reduced(p)

\* additional_write::apply_on: the balancing group gives the packs up, the report
\* is closed and the line amended.
PostAdditional(f, at) ==
  LET c == Context(f.group)
      p == AdditionalPlan(f, c)
  IN  /\ ClosedBy(f.report) = {}
      /\ AdditionalAllowed(f, c, at)
      /\ TakeAdditional(p)
      /\ Record(Operation("correction_additional", at, AdditionalRow(f, c, p),
                          {[group |-> f.group, packs |-> p.packs, after |-> p.after, rev |-> p.rev]}, p.removed),
                <<Event(f.group, p.packs, f.occ, f.source.place, None)>>, p, AdditionalLeft(p))

AdditionalFacts(i) ==
  LET r == ops[i].row IN
  [report |-> r.report, target |-> r.target, group |-> r.group, total |-> r.total, recipient |-> r.recipient,
   occ |-> r.occ, source |-> Source(r.source.op, r.source.group)]

AdditionalOriginal(i) == AdditionalPlan(AdditionalFacts(i), FrozenContext(i))

\* additional_projection::read_on: the amendment follows the one before it.
AdditionalAmendmentReadable(i) ==
  LET r == ops[i].row
      d == r.target[1]
      g == r.target[2]
  IN  /\ r.prior = LastAmendment(d, g, i - 1) /\ r.effective = Effective(d, g, i - 1)
      /\ r.packs > 0 /\ r.effective + r.packs = r.total

\* The debit, its one event and the report it closed.
AdditionalDebitReadable(i) ==
  LET r == ops[i].row IN
  /\ ops[i].debits = {[group |-> r.group, packs |-> r.packs, after |-> r.before.packs - r.packs,
                       rev |-> r.before.rev + 1]}
  /\ {events[n] : n \in EventsOf(i)} = {[op |-> i, group |-> r.group, packs |-> r.packs, occ |-> r.occ,
                                         from |-> Source(r.source.op, r.source.group).place, to |-> None]}
  /\ Cardinality(EventsOf(i)) = 1
  /\ ClosedBy(r.report) = {i} /\ r.report < i
  /\ DebitReadable(<<i, r.group>>)

\* restore_group_on: the balancing group as it was.
BalancingReadable(i) ==
  FrozenGroupReadable(i) /\ ops[i].row.before.packs = ops[i].row.lineage[ops[i].row.group]

\* removed_work_on: no pending work went with the packs.
AdditionalRemovedReadable(i) ==
  /\ ops[i].removed = ShortageRemoved(ops[i].row.before, ops[i].row.packs)
  /\ \A x \in ops[i].removed : x.progress # "pending"

\* original_with_proofs_on.
AdditionalReadable(i) ==
  /\ AdditionalAmendmentReadable(i) /\ AdditionalDebitReadable(i) /\ AdditionalRemovedReadable(i)
  /\ BalancingReadable(i) /\ FrozenLineageReadable(i)
  /\ QuantityReadable(ops[i].row.target[1], ops[i].row.target[2], i)
  /\ AdditionalAllowed(AdditionalFacts(i), FrozenContext(i), ops[i].at)
  /\ LET p == AdditionalOriginal(i) IN
       p.after = ops[i].row.after /\ p.rev = ops[i].row.rev /\ p.impact = ops[i].row.impact
=============================================================================
