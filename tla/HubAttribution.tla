--------------------------- MODULE HubAttribution ---------------------------
(***************************************************************************)
(* Corrections of who: the source of a population and the recipient of a   *)
(* departure.  Neither touches stock.  Each correction keeps everything it *)
(* affects, every attribution the subject ever had included, and the       *)
(* reader plans every one of them again at the revision it was made at.    *)
(***************************************************************************)
EXTENDS HubActuals

CONSTANTS Attributions,  \* sources that may be named: [id, issuer, certain]
          Origin         \* the source every population was recorded with

\* ImpactBuilder::source and ImpactBuilder::recipient.
SourceTargets(t, s) ==
  IF s = None THEN {<<"unresolved_source", t>>}
  ELSE {<<"source", s.id>>} \cup
       IF s.issuer = None \/ ~s.certain THEN {<<"unresolved_source", t>>} ELSE {}

RecipientTargets(d, to) ==
  IF to = None THEN {<<"unresolved_recipient", d>>} ELSE {<<"recipient", to>>}

PopulationTargets(S) == {<<"population", t>> : t \in S}
VersionTargets(S)    == {<<"version", v>> : v \in S}

\* recipient_on: the whole event, and every version of the paper it used.
EventPopulations(d) == {Trace(e.group) : e \in ops[d].debits}

VersionsOf(p, cut) == LET s == PaperAt(p, cut).versions IN {s[k] : k \in 1 .. Len(s)}

IssuedFor(d) ==
  IF ops[d].kind # "departure" THEN {} ELSE {v.id : v \in VersionsOf(ops[d].row.paper, d - 1)}

\* AttributionAffectedDeparture::impact.
EventImpact(d, cut) ==
  {<<"departure", d>>} \cup PopulationTargets(EventPopulations(d)) \cup VersionTargets(IssuedFor(d))
    \cup UNION {RecipientTargets(d, to) : to \in Parties(d, cut)}

IssuedFact(v) ==
  [id |-> v.id, recipient |-> v.material.recipient, traces |-> {l.trace : l \in v.material.lines}]

\* source_documents: what every version ever issued was about, used or not.
\* Mutant of IssuedVersions.
CurrentVersionsOnly(cut) ==
  UNION {{IssuedFact(v) : v \in {w \in VersionsOf(p, cut) : w.status = "issued"}} : p \in {x \in Papers : x <= cut}}

IssuedVersions(cut) ==
  UNION {{IssuedFact(v) : v \in VersionsOf(p, cut)} : p \in {x \in Papers : x <= cut}}

\* AttributionAffectedIssuedVersion::impact.
VersionImpact(v) ==
  {<<"version", v.id>>, <<"recipient", v.recipient>>} \cup PopulationTargets(v.traces)

Downstream(t, cut) ==
  {<<"population", t>>}
    \cup (UNION {EventImpact(d, cut) : d \in KnownEvents(t, cut)})
    \cup (UNION {VersionImpact(v) : v \in {x \in IssuedVersions(cut) : t \in x.traces}})
-----------------------------------------------------------------------------
(***************************************************************************)
(* The source of a population.                                             *)
(***************************************************************************)
SourceCorrections(cut) == {i \in OpsOf({"correction_source"}) : i <= cut}
SourceHistory(t, cut)  == {i \in SourceCorrections(cut) : ops[i].row.trace = t}

Latest(S) == IF S = {} THEN None ELSE Max(S)

CurrentSource(t, cut) ==
  LET S == SourceHistory(t, cut) IN IF S = {} THEN Origin ELSE ops[Max(S)].row.after

SourcesEver(t, cut) == {Origin} \cup {ops[i].row.after : i \in SourceHistory(t, cut)}

\* verify_through_on: every attribution anybody ever recorded.
KnownSources(cut) ==
  (IF \E t \in DOMAIN pop : t <= cut THEN {Origin} ELSE {})
    \cup {ops[i].row.after : i \in SourceCorrections(cut)}

\* validate_source_reuse: one identity never names two sources.
SourceReuse(s, known) ==
  s # None => \A k \in known : k # None /\ k.id = s.id => k.issuer = s.issuer

\* AttributionCut::check, SourceAttributionCommand::plan.
SourceAllowed(t, s, cut, at) ==
  /\ t \in DOMAIN pop /\ t <= cut /\ ClockAt(cut) <= at
  /\ SourceReuse(s, KnownSources(cut))
  /\ s # CurrentSource(t, cut)
  /\ \A i \in SourceHistory(t, cut) :
       \A x \in ops[i].row.impact : x[1] \notin {"source", "unresolved_source"} => x \in Downstream(t, cut)

SourceImpact(t, s, cut) ==
  (UNION {SourceTargets(t, x) : x \in SourcesEver(t, cut) \cup {s}})
    \cup (UNION {ops[i].row.impact : i \in SourceHistory(t, cut)})
    \cup Downstream(t, cut)

SourcePlan(t, s, cut) ==
  [trace |-> t, before |-> CurrentSource(t, cut), after |-> s, prior |-> Latest(SourceHistory(t, cut)),
   impact |-> SourceImpact(t, s, cut),
   creates |-> s # None /\ ~\E k \in KnownSources(cut) : k # None /\ k.id = s.id]

\* apply_on: the correction, its impact and, for a new identity, its registration.
CorrectSource(t, s, at) ==
  LET p == SourcePlan(t, s, Revision) IN
  /\ SourceAllowed(t, s, Revision, at)
  /\ Record(Operation("correction_source", at, p, {}, {}), <<>>, p, {})
  /\ UNCHANGED <<pop, group, pos, work, alloc>>

\* current_source_attribution: the chain of one population.
SourceChainReadable(i) ==
  LET r == ops[i].row IN
  /\ r.before = CurrentSource(r.trace, i - 1) /\ r.after # r.before
  /\ r.prior = Latest(SourceHistory(r.trace, i - 1))
  /\ r.prior # None => ops[r.prior].at <= ops[i].at /\ ops[r.prior].row.impact \subseteq r.impact
  /\ ops[r.trace].at <= ops[i].at
  /\ <<"population", r.trace>> \in r.impact
  /\ \A x \in SourcesEver(r.trace, i) : SourceTargets(r.trace, x) \subseteq r.impact

\* verify_through_on: an identity is registered by the first to name it, once.
RegistryReadable(cut) ==
  /\ \A s, k \in KnownSources(cut) : s # None => SourceReuse(s, {k})
  /\ \A i \in SourceCorrections(cut) : ops[i].row.after # None =>
       (ops[i].row.creates <=> \A k \in KnownSources(i - 1) : k # None => k.id # ops[i].row.after.id)

\* load_through_on.
SourceReadable(i) ==
  LET r == ops[i].row IN
  /\ EventsOf(i) = {} /\ SourceChainReadable(i)
  /\ SourceAllowed(r.trace, r.after, i - 1, ops[i].at)
  /\ SourcePlan(r.trace, r.after, i - 1) = r
  /\ RegistryReadable(i)

SourceOriginal(i) == SourcePlan(ops[i].row.trace, ops[i].row.after, i - 1)
-----------------------------------------------------------------------------
(***************************************************************************)
(* The recipient of a departure, recorded or reviewed.                     *)
(***************************************************************************)
RecipientHistory(d, cut) ==
  {i \in OpsOf({"correction_recipient"}) : i <= cut /\ ops[i].row.target = d}

CurrentRecipient(d, cut) ==
  LET S == RecipientHistory(d, cut) IN IF S = {} THEN RecipientOf(d) ELSE ops[Max(S)].row.after

\* RecipientAttributionCommand::plan.
RecipientAllowed(d, to, cut, at) ==
  /\ d \in Departures \cup ReviewedDepartures /\ d <= cut /\ ClockAt(cut) <= at
  /\ to # CurrentRecipient(d, cut)

\* recipient_impact_with_linked_versions: every recipient and version so far.
RecipientImpact(d, cut) == EventImpact(d, cut)

RecipientPlan(d, to, cut) ==
  [target |-> d, before |-> CurrentRecipient(d, cut), after |-> to,
   prior |-> Latest(RecipientHistory(d, cut)),
   impact |-> RecipientImpact(d, cut) \cup RecipientTargets(d, to)]

CorrectRecipient(d, to, at) ==
  LET p == RecipientPlan(d, to, Revision) IN
  /\ RecipientAllowed(d, to, Revision, at)
  /\ Record(Operation("correction_recipient", at, p, {}, {}), <<>>, p, {})
  /\ UNCHANGED <<pop, group, pos, work, alloc>>

\* current_recipient_attribution: the impact is exactly what is required so far.
RecipientChainReadable(i) ==
  LET r == ops[i].row IN
  /\ r.before = CurrentRecipient(r.target, i - 1) /\ r.after # r.before
  /\ r.prior = Latest(RecipientHistory(r.target, i - 1))
  /\ r.prior # None => ops[r.prior].at <= ops[i].at
  /\ ops[r.target].at <= ops[i].at
  /\ r.impact = RecipientImpact(r.target, i)

RecipientReadable(i) ==
  LET r == ops[i].row IN
  /\ EventsOf(i) = {} /\ RecipientChainReadable(i)
  /\ RecipientAllowed(r.target, r.after, i - 1, ops[i].at)
  /\ RecipientPlan(r.target, r.after, i - 1) = r

RecipientOriginal(i) == RecipientPlan(ops[i].row.target, ops[i].row.after, i - 1)
-----------------------------------------------------------------------------
\* for_line_with_proofs_on: what a quantity correction of a line affects.
LineImpact(d, g, cut) ==
  {<<"population", Trace(g)>>, <<"departure", d>>} \cup VersionTargets(IssuedFor(d))
    \cup (UNION {SourceTargets(Trace(g), s) : s \in SourcesEver(Trace(g), cut)})
    \cup UNION {RecipientTargets(d, to) : to \in Parties(d, cut)}
=============================================================================
