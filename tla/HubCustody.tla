------------------------------ MODULE HubCustody ------------------------------
(***************************************************************************)
(* Dispositions and returns.  A disposition consumes one whole group, like *)
(* a departure without a paper.  A return is new stock: it is always taken *)
(* in, and it is linked to a line of a recorded departure only when the    *)
(* claim, the variant, the quantity and the time all allow it.             *)
(***************************************************************************)
EXTENDS HubDispatch

(***************************************************************************)
(* uncertainty_on, as far as the tables go: an actual report nobody has    *)
(* closed, or a correction observation nobody has used or superseded.      *)
(***************************************************************************)
OpsOf(kinds) == {i \in 1 .. Len(ops) : ops[i].kind \in kinds}

Reports == OpsOf({"actual_report"})

ClosingKinds == {"actual_review", "correction_additional", "correction_count_explain",
                 "correction_count_classify"}

ClosedBy(r) == {i \in OpsOf(ClosingKinds) : ops[i].row.report = r}

Observations == OpsOf({"correction_observe"})

Superseding(o) == {i \in Observations : ops[i].row.previous = o}

UsedBy(o) == {i \in OpsOf({"correction_found", "correction_count_classify"}) : ops[i].row.observation = o}

OpenObservations == {o \in Observations : Superseding(o) = {} /\ UsedBy(o) = {}}

UnresolvedActual == (\E r \in Reports : ClosedBy(r) = {}) \/ OpenObservations # {}
-----------------------------------------------------------------------------
(***************************************************************************)
(* Disposition.                                                            *)
(***************************************************************************)
DispositionAllowed(g, n, occ, at) ==
  /\ n = Packs(g) /\ ~UnresolvedActual
  /\ ValidOccurrence(occ, at) /\ FloorAllows(Floor(g), occ)

Dispose(g, kind, occ, at) ==
  LET c == Consumed(g, occ)
      row == [kind |-> kind, occ |-> occ, line |-> c, changes |-> RetiredWork({c})]
  IN  /\ DispositionAllowed(g, Packs(g), occ, at)
      /\ Consume({g}, RetiredWork({c}))
      /\ UNCHANGED pop
      /\ Record(Operation("disposition", at, row, Debits({c}), {}),
                <<Event(g, Packs(g), occ, Place(g), None)>>, row, {})

\* original_on, headers_on and require_unconsumed_on.
DispositionReadable(i) ==
  LET d == ops[i].row
      g == d.line.before.id
  IN  /\ ConsumedReadable(d.line, i, d.occ) /\ d.changes = RetiredWork({d.line})
      /\ Packs(g) = 0 /\ group[g].rev = d.line.before.rev + 1
      /\ \A k \in Departures : \A c \in ops[k].row.lines : c.before.id # g
      /\ \A n \in EventsOf(i) : /\ events[n].group = g /\ events[n].packs = d.line.before.packs
                                /\ events[n].from = d.line.before.place /\ events[n].occ = d.occ

DispositionOriginal(i) == ops[i].row
-----------------------------------------------------------------------------
(***************************************************************************)
(* What a departure line can still be returned against.  Returns that are  *)
(* linked to it reserve its packs; a return of the same variant that is    *)
(* linked to nothing is uncertainty, not a deduction.                      *)
(***************************************************************************)
Returns == OpsOf({"return"})

LineVariant(g) == Variant(g)

Related(i, d) == ops[i].row.claim # None /\ ops[i].row.claim.departure = d

LinkedTo(i, d, g) == ops[i].row.known = d /\ ops[i].row.established = g

\* returns_on: a link recorded before the departure it names is not counted.
Counted(i, d, g) == LinkedTo(i, d, g) /\ i > d /\ ops[i].at >= ops[d].at

ReturnedTo(d, g, cut) ==
  LET Of(i) == IF Counted(i, d, g) THEN pop[i].packs ELSE 0
  IN  Total({i \in Returns : i <= cut}, Of)

UnresolvedReturns(d, g, cut) ==
  \E i \in Returns :
    /\ i <= cut
    /\ pop[i].variant = LineVariant(g) \/ Related(i, d)
    /\ ops[i].row.established = None \/ (LinkedTo(i, d, g) /\ ~Counted(i, d, g))

\* return_allowances::load_on: the bound of a line is what its own debit still
\* covers; its effective quantity is what it is now said to have been.
Bound(d, g, cut) == Debit(d, g) - Recovered(d, g, cut)

Linkable(a) == Min({a.effective, a.bound})

Allowance(d, g, cut) ==
  LET S == Amendments(d, g, cut) IN
  [group |-> g, effective |-> Effective(d, g, cut), bound |-> Bound(d, g, cut),
   latest |-> IF S = {} THEN None ELSE Max(S), unresolved |-> UnresolvedReturns(d, g, cut)]

LinesOf(d) == {x.group : x \in ops[d].debits}

Allowances(d, cut) ==
  IF \E g \in LinesOf(d) : Amendments(d, g, cut) # {} \/ UnresolvedReturns(d, g, cut)
    THEN {Allowance(d, g, cut) : g \in LinesOf(d)}
    ELSE None

\* ReturnAllowances::validate and the loader's own check.
AllowancesReadable(d, cut) ==
  \A g \in LinesOf(d) :
    LET a == Allowance(d, g, cut) IN
    /\ a.bound \in 0 .. Debit(d, g)
    /\ ReturnedTo(d, g, cut) <= Linkable(a)
    /\ a.latest = None => a.effective = Debit(d, g) /\ a.bound = Debit(d, g)
    /\ a.latest # None => a.latest > d /\ a.latest <= cut

Sources(d, cut) == {[group |-> g, prior |-> ReturnedTo(d, g, cut)] : g \in LinesOf(d)}

\* Mutant of Prior.
PriorIgnored(sources, g) == 0

Prior(sources, g) == (CHOOSE s \in sources : s.group = g).prior
-----------------------------------------------------------------------------
(***************************************************************************)
(* resolve_link.                                                           *)
(***************************************************************************)
ReturnTiming(returned, departed) ==
  IF "unknown" \in {returned.kind, departed.kind} THEN "uncertain"
  ELSE IF returned.hi < departed.lo THEN "contradictory"
  ELSE IF returned.lo >= departed.hi THEN "after_or_same"
  ELSE "uncertain"

Unlinked(resolution, reason, timing) ==
  [resolution |-> resolution, reason |-> reason, timing |-> timing, established |-> None]

ResolveLink(claim, v, n, occ, known, sources, allowances) ==
  IF claim = None THEN Unlinked("unknown", None, "uncertain")
  ELSE IF known = None THEN Unlinked("unrecorded", None, "uncertain")
  ELSE LET timing == ReturnTiming(occ, ops[known].row.occ)
           No(reason) == Unlinked("unresolved", reason, timing)
           g == claim.group
           a == CHOOSE x \in allowances : x.group = g
           total == Prior(sources, g) + n
       IN  IF g = None /\ ~\E l \in LinesOf(known) : LineVariant(l) = v THEN No("no_matching_variant")
           ELSE IF g = None THEN No("original_group_unknown")
           ELSE IF g \notin LinesOf(known) THEN No("claimed_group_missing")
           ELSE IF LineVariant(g) # v THEN No("variant_conflict")
           ELSE IF total > Debit(known, g) THEN No("quantity_conflict")
           ELSE IF allowances # None /\ (a.unresolved \/ total > Linkable(a)) THEN No("quantity_conflict")
           ELSE IF timing = "contradictory" THEN No("time_conflict")
           ELSE [resolution |-> "established", reason |-> None, timing |-> timing, established |-> g]

\* departure_on: the claim names an operation, which may not be there (yet).
KnownDeparture(claim) ==
  IF claim # None /\ claim.departure \in Departures THEN claim.departure ELSE None

ReturnAllowed(n, loc, planned, label, occ, at) ==
  /\ n > 0 /\ planned # loc /\ ValidOccurrence(occ, at) /\ ~LabelInUse(label)

\* The intake: labelled, under review, and work only when a place was planned.
ReturnPlan(i, n, loc, planned, label, occ) ==
  [id |-> i, trace |-> i, parent |-> None, label |-> label, place |-> loc, packs |-> n,
   rev |-> 1, floor |-> FloorAfter(0, occ),
   work |-> IF planned = None THEN <<>>
            ELSE i :> [progress |-> "pending", req |-> Requirement(i, planned, n)]]

ReturnRow(claim, v, n, planned, occ) ==
  LET d == KnownDeparture(claim)
      sources == IF d = None THEN {} ELSE Sources(d, Revision)
      allowances == IF d = None THEN None ELSE Allowances(d, Revision)
      link == ResolveLink(claim, v, n, occ, d, sources, allowances)
  IN  [claim |-> claim, target |-> planned, known |-> d, sources |-> sources,
       allowances |-> allowances, link |-> link, established |-> link.established]

\* context_on adds up every return established on a line, whatever clock it was
\* recorded at.
EstablishedBefore(d, g, i) ==
  LET Of(k) == IF LinkedTo(k, d, g) THEN pop[k].packs ELSE 0
  IN  Total({k \in Returns : k < i}, Of)

(***************************************************************************)
(* The return reads its own original back before it commits, and is        *)
(* refused when the totals it recorded, which pass over a return clocked   *)
(* before its departure, are not those of context_on, which do not.        *)
(***************************************************************************)
ReturnStock(claim, v, n, loc, planned, label, occ, at) ==
  LET i == NextId
      row == ReturnRow(claim, v, n, planned, occ)
  IN  /\ ReturnAllowed(n, loc, planned, label, occ, at)
      /\ row.known # None => AllowancesReadable(row.known, Revision)
      /\ \A s \in row.sources : s.prior = EstablishedBefore(row.known, s.group, i)
      /\ pop' = (i :> ReceiptAnswer(v, n, loc, planned, occ)) @@ pop
      /\ InsertRoot(i, label)
      /\ pos' = (i :> At(loc, n)) @@ pos
      /\ work' = IF planned = None THEN work ELSE (i :> Requirement(i, planned, n)) @@ work
      /\ alloc' = IF planned = None THEN alloc
                  ELSE (<<i, i>> :> [progress |-> "pending", scoped |-> n]) @@ alloc
      /\ Record(Operation("return", at, row, {}, {}), <<Event(i, n, occ, None, loc)>>,
                [intake |-> ReceiptAnswer(v, n, loc, planned, occ), row |-> row],
                {ReturnPlan(i, n, loc, planned, label, occ)})
-----------------------------------------------------------------------------
(***************************************************************************)
(* own_on, context_on and finish_on: the link is worked out again from the *)
(* tables as they were before the return.                                  *)
(***************************************************************************)
ReturnContextReadable(i) ==
  LET r == ops[i].row IN
  r.known # None =>
    /\ {s.group : s \in r.sources} = LinesOf(r.known)
    /\ \A s \in r.sources : s.prior = EstablishedBefore(r.known, s.group, i)
    /\ AllowancesReadable(r.known, i - 1)
    /\ Allowances(r.known, i - 1) = r.allowances

ReturnReadable(i) ==
  LET r == ops[i].row IN
  /\ PopulationReadable(i)
  /\ r.known # None => r.claim # None /\ r.known = r.claim.departure
  /\ r.claim # None /\ r.known = None => ~\E k \in Departures : k < i /\ k = r.claim.departure
  /\ ReturnContextReadable(i)
  /\ r.link = ResolveLink(r.claim, pop[i].variant, pop[i].packs, pop[i].occ, r.known, r.sources,
                          r.allowances)
  /\ r.established = r.link.established

ReturnOriginal(i) == [intake |-> pop[i], row |-> ops[i].row]
=============================================================================
