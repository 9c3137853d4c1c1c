----------------------------- MODULE HubDispatch -----------------------------
(***************************************************************************)
(* Dispatch papers and departures.  A paper is prepared on whole groups    *)
(* and may be revised until it is issued; an issued version may be         *)
(* replaced by one with other material or marked unused.  A departure      *)
(* consumes the groups of the version last issued, once, and retires the   *)
(* work still pending on them.                                             *)
(***************************************************************************)
EXTENDS HubTreatment

CONSTANTS Recipients,
          Versions     \* HUB_DISPATCH_VERSIONS

(***************************************************************************)
(* capture: every line is a whole group, as it is now.  Material is        *)
(* compared without the revision it was captured at.                       *)
(***************************************************************************)
Line(g) ==
  [group |-> g, rev |-> group[g].rev, packs |-> Packs(g), label |-> group[g].label,
   place |-> Place(g), variant |-> Variant(g), trace |-> Trace(g)]

Material(to, S) == [at |-> Revision, recipient |-> to, lines |-> {Line(g) : g \in S}]

SameMaterial(m, n) == m.recipient = n.recipient /\ m.lines = n.lines

MaterialGroups(m) == {l.group : l \in m.lines}

MaterialValid(m) ==
  /\ m.lines # {}
  /\ \A l \in m.lines : l.packs > 0
  /\ \A k, l \in m.lines : k # l => k.group # l.group /\ (k.label = l.label => k.label = None)

\* A group that is captured now and is still what the paper says.
Unchanged(m) == MaterialGroups(m) \subseteq Live /\ SameMaterial(Material(m.recipient, MaterialGroups(m)), m)
-----------------------------------------------------------------------------
(***************************************************************************)
(* DispatchCommand::plan: the record after a change at operation i.        *)
(***************************************************************************)
PaperKinds == {"dispatch_prepare", "dispatch_revise", "dispatch_issue", "dispatch_replace",
               "dispatch_unused"}

Issued(r) == r.versions # <<>> /\ r.versions[Len(r.versions)].status = "issued"
LastVersion(r)   == r.versions[Len(r.versions)]

Version(i, r, m) ==
  [id |-> i, number |-> Len(r.versions) + 1, material |-> m, issued |-> i,
   previous |-> IF r.versions = <<>> THEN None ELSE LastVersion(r).id,
   status |-> "issued", closed |-> None]

Close(r, status, i) ==
  [r EXCEPT !.versions[Len(r.versions)] = [@ EXCEPT !.status = status, !.closed = i]]

DispatchPlan(kind, r, i, m) ==
  CASE kind = "dispatch_prepare" ->
         [id |-> i, rev |-> 1, created |-> i, updated |-> i, draft |-> m, versions |-> <<>>]
    [] kind = "dispatch_revise"  -> [r EXCEPT !.rev = @ + 1, !.updated = i, !.draft = m]
    [] kind = "dispatch_issue"   -> [r EXCEPT !.rev = @ + 1, !.updated = i, !.draft = None,
                                              !.versions = <<Version(i, r, m)>>]
    [] kind = "dispatch_replace" -> [Close(r, "superseded", i) EXCEPT
                                       !.rev = @ + 1, !.updated = i,
                                       !.versions = Append(@, Version(i, r, m))]
    [] kind = "dispatch_unused"  -> [Close(r, "unused", i) EXCEPT !.rev = @ + 1, !.updated = i]

DispatchAllowed(kind, r, m) ==
  CASE kind = "dispatch_prepare" -> TRUE
    [] kind = "dispatch_revise"  -> r.draft # None
    [] kind = "dispatch_issue"   -> r.draft # None /\ SameMaterial(m, r.draft)
    [] kind = "dispatch_replace" -> /\ Issued(r) /\ Len(r.versions) < Versions
                                    /\ ~SameMaterial(m, LastVersion(r).material)
    [] kind = "dispatch_unused"  -> Issued(r)

\* DispatchRecord::validate.
PaperValid(r) ==
  LET n == Len(r.versions)
      used == n > 0 /\ LastVersion(r).status = "unused"
  IN  /\ (r.draft # None) <=> (n = 0)
      /\ n <= Versions
      /\ n = 0 => r.draft.at + 1 = r.updated /\ MaterialValid(r.draft)
      /\ n > 0 => /\ r.rev >= n + 1 + (IF used THEN 1 ELSE 0)
                  /\ r.updated = IF used THEN LastVersion(r).closed ELSE LastVersion(r).issued
      /\ r.updated - r.created >= r.rev - 1
      /\ \A k \in 1 .. n :
           LET v == r.versions[k] IN
           /\ v.number = k /\ MaterialValid(v.material) /\ v.material.at < v.issued
           /\ v.previous = IF k = 1 THEN None ELSE r.versions[k - 1].id
           /\ k < n => v.status = "superseded" /\ v.closed = r.versions[k + 1].issued
           /\ k = n => v.status # "superseded" /\ (v.closed = None <=> v.status = "issued")
-----------------------------------------------------------------------------
(***************************************************************************)
(* restore_on: a paper is read back from its changes.  Only the change     *)
(* that brought material stores it; issue and unused point to it.          *)
(***************************************************************************)
Papers == {i \in 1 .. Len(ops) : ops[i].kind = "dispatch_prepare"}
ChangesOf(p, cut) == {i \in p .. cut : ops[i].kind \in PaperKinds /\ ops[i].row.paper = p}

MaterialIn(log, i) == log[log[i].row.source].row.material
MaterialOf(i) == MaterialIn(ops, i)

\* The record of paper p after operation k of a log, when it was r before.
PaperAfter(log, p, k, r) ==
  IF k = p THEN DispatchPlan("dispatch_prepare", None, p, MaterialIn(log, p))
  ELSE IF log[k].kind \in PaperKinds /\ log[k].row.paper = p
    THEN DispatchPlan(log[k].kind, r, k, MaterialIn(log, k))
  ELSE r

PaperIn(log, p, cut) ==
  LET Upto[k \in p .. cut] == PaperAfter(log, p, k, IF k = p THEN None ELSE Upto[k - 1])
  IN  Upto[cut]

PaperAt(p, cut) == PaperIn(ops, p, cut)

Paper(p) == PaperAt(p, Revision)

Departures == {i \in 1 .. Len(ops) : ops[i].kind = "departure"}
DepartedBy(p) == {i \in Departures : ops[i].row.paper = p}
-----------------------------------------------------------------------------
(***************************************************************************)
(* apply_on: the paper's event is put on the first group of its material.  *)
(***************************************************************************)
Dispatch(kind, p, m, source, at) ==
  LET i == NextId
      r == IF kind = "dispatch_prepare" THEN None ELSE Paper(p)
      after == DispatchPlan(kind, r, i, m)
      stored == IF source = i THEN m ELSE None
  IN  /\ kind # "dispatch_prepare" => DepartedBy(p) = {}
      /\ DispatchAllowed(kind, r, m)
      /\ UNCHANGED <<pop, group, pos, work, alloc>>
      /\ Record(Operation(kind, at, [paper |-> p, rev |-> after.rev, source |-> source,
                                     material |-> stored], {}, {}),
                <<Event(Min(MaterialGroups(m)), 0, Unknown, None, None)>>, after, {})

Prepare(to, S, at) ==
  S # {} /\ Dispatch("dispatch_prepare", NextId, Material(to, S), NextId, at)

Revise(p, to, S, at) ==
  S # {} /\ Dispatch("dispatch_revise", p, Material(to, S), NextId, at)

\* Issuing captures the draft's groups again; what was previewed must not
\* have changed, and the draft's own material is the one issued.
LatestChange(p) == Max(ChangesOf(p, Revision))

Issue(p, at) ==
  LET d == Paper(p).draft IN
  /\ d # None /\ Unchanged(d)
  /\ Dispatch("dispatch_issue", p, d, ops[LatestChange(p)].row.source, at)

Replace(p, to, S, at) ==
  S # {} /\ Dispatch("dispatch_replace", p, Material(to, S), NextId, at)

MarkUnused(p, at) ==
  /\ Issued(Paper(p))
  /\ Dispatch("dispatch_unused", p, LastVersion(Paper(p)).material, ops[LatestChange(p)].row.source, at)

\* change_on, original_change_on and load_on.
PaperReadable(i) ==
  LET p == ops[i].row.paper IN
  /\ ops[p].kind = "dispatch_prepare"
  /\ ops[i].row.rev = Cardinality(ChangesOf(p, i))
  /\ ops[ops[i].row.source].row.material # None /\ ops[ops[i].row.source].row.paper = p
  /\ MaterialValid(MaterialOf(i)) /\ MaterialOf(i).at = ops[i].row.source - 1
  /\ PaperAt(p, i).rev = ops[i].row.rev /\ PaperValid(PaperAt(p, i))
  /\ \A e \in EventsOf(i) : /\ events[e].group = Min(MaterialGroups(MaterialOf(i)))
                            /\ events[e].packs = 0 /\ events[e].occ = Unknown

PaperOriginal(i) == PaperAt(ops[i].row.paper, i)
-----------------------------------------------------------------------------
(***************************************************************************)
(* Consuming groups: their position is deleted and their pending work is   *)
(* no longer required.  Shared by departures and dispositions.             *)
(***************************************************************************)
Consumed(g, occ) == [before |-> ReadGroup(g), floor |-> FloorAfter(Floor(g), occ)]

Pended(C) == UNION {{w \in DOMAIN c.before.work : c.before.work[w].progress = "pending"} : c \in C}

\* retired_work: each requirement changes once, by what all its groups lose.
RetiredWork(C) ==
  LET Lost(w) == LET Of(c) == IF w \in DOMAIN c.before.work /\ c.before.work[w].progress = "pending"
                                THEN c.before.packs ELSE 0
                 IN  Total(C, Of)
      Req(w) == (CHOOSE c \in C : w \in DOMAIN c.before.work).before.work[w].req
  IN  {[work |-> w, before |-> Req(w), after |-> RetiredBy(Req(w), Lost(w))] : w \in Pended(C)}

Consume(S, changes) ==
  /\ group' = [g \in Groups |-> IF g \in S THEN [group[g] EXCEPT !.rev = @ + 1] ELSE group[g]]
  /\ pos' = [g \in Groups |-> IF g \in S THEN [l \in Locations |-> 0] ELSE pos[g]]
  /\ work' = [w \in Works |-> IF \E c \in changes : c.work = w
                                THEN (CHOOSE c \in changes : c.work = w).after ELSE work[w]]
  /\ alloc' = [k \in DOMAIN alloc |->
                 IF k[1] \in S /\ alloc[k].progress = "pending"
                   THEN [alloc[k] EXCEPT !.progress = "retired"] ELSE alloc[k]]

Debits(C) == {[group |-> c.before.id, packs |-> c.before.packs, after |-> 0,
               rev |-> c.before.rev + 1] : c \in C}

\* Mutant of DepartureAllowed.
DepartureIgnoresTreatment(m, occ, at) ==
  /\ Unchanged(m) /\ ValidOccurrence(occ, at)
  /\ \A g \in MaterialGroups(m) : FloorAllows(Floor(g), occ)

\* DepartureCommand::plan.
DepartureAllowed(m, occ, at) ==
  /\ Unchanged(m) /\ ValidOccurrence(occ, at)
  /\ \A g \in MaterialGroups(m) : NormalDeparture(g) /\ FloorAllows(Floor(g), occ)


InOrder(C, occ) ==
  [k \in 1 .. Cardinality(C) |->
     LET c == CHOOSE c \in C : Cardinality({d \in C : d.before.id <= c.before.id}) = k
     IN  Event(c.before.id, c.before.packs, occ, c.before.place, None)]

Depart(p, occ, at) ==
  LET r == Paper(p)
      m == LastVersion(r).material
      C == {Consumed(g, occ) : g \in MaterialGroups(m)}
      row == [paper |-> p, rev |-> r.rev, version |-> LastVersion(r).id, occ |-> occ, lines |-> C,
              changes |-> RetiredWork(C)]
  IN  /\ DepartedBy(p) = {} /\ Issued(r) /\ DepartureAllowed(m, occ, at)
      /\ Consume(MaterialGroups(m), RetiredWork(C))
      /\ UNCHANGED pop
      /\ Record(Operation("departure", at, row, Debits(C), {}), InOrder(C, occ),
                [paper |-> r, occ |-> occ, lines |-> C, changes |-> RetiredWork(C)], {})

(***************************************************************************)
(* DepartureRecord::validate, header_on, usage_on and validate_headers_on: *)
(* the paper of a departure, rebuilt at the revision it was used at, names *)
(* exactly the groups it consumed, and was never changed afterwards.       *)
(***************************************************************************)
ConsumedReadable(c, i, occ) ==
  /\ GroupValid(c.before) /\ c.before.rev < i + 1
  /\ c.floor = FloorAfter(c.before.floor, occ)
  /\ \A w \in DOMAIN c.before.work :
       LET q == c.before.work[w].req IN
       /\ q.completed + q.retired + q.remaining = q.required
       /\ q.required = work[w].required /\ q.trace = work[w].trace /\ q.target = work[w].target

DepartureReadable(i) ==
  LET d == ops[i].row
      r == PaperAt(d.paper, i - 1)
  IN  /\ DepartedBy(d.paper) = {i} /\ ChangesOf(d.paper, Revision) = ChangesOf(d.paper, i - 1)
      /\ r.rev = d.rev /\ Issued(r) /\ LastVersion(r).id = d.version
      /\ {[group |-> c.before.id, rev |-> c.before.rev, packs |-> c.before.packs,
           label |-> c.before.label, place |-> c.before.place, trace |-> c.before.trace,
           variant |-> pop[c.before.trace].variant] : c \in d.lines} = LastVersion(r).material.lines
      /\ \A c \in d.lines : ConsumedReadable(c, i, d.occ)
      /\ d.changes = RetiredWork(d.lines)
      /\ {events[n].group : n \in EventsOf(i)} = {c.before.id : c \in d.lines}

DepartureOriginal(i) ==
  LET d == ops[i].row
  IN  [paper |-> PaperAt(d.paper, i - 1), occ |-> d.occ, lines |-> d.lines, changes |-> d.changes]
=============================================================================
