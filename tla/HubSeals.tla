------------------------------- MODULE HubSeals -------------------------------
(***************************************************************************)
(* What the results of the hub's commands are and what their seals hash.   *)
(* A seal is stored beside the rows of a result and computed again from    *)
(* them on every read; a read whose seal differs is refused.               *)
(*                                                                         *)
(* `input' is the fingerprint of the command that had the result.  A       *)
(* quantity of work is three numbers, the remaining one follows.  A        *)
(* captured reference is hashed as the command that would create it under  *)
(* the hub, the actor and the catalog of the record it is part of, which   *)
(* the record hashes itself.  A digest inside a seal is an identity, of a  *)
(* record whose own seal is checked on its own.                            *)
(***************************************************************************)
EXTENDS HubIntents

Seal(purpose, shape, order) == Sealed(purpose, Fields([input |-> Id] @@ shape, <<"input">> \o order))

ReferenceRecord ==
  Fields([revision |-> Revision, created |-> Sealed("reference",
            Fields([id |-> Id, value |-> ReferenceValue], <<"id", "value">>))],
         <<"revision", "created">>)

Basis == Fields([id |-> Text, version |-> Packs, timezone |-> Text], <<"id", "version", "timezone">>)
-----------------------------------------------------------------------------
(***************************************************************************)
(* Treatment.                                                              *)
(***************************************************************************)
TreatmentStamp ==
  [id |-> Id, stock |-> Revision, actor |-> Id, basis |-> Basis, recorded |-> Clock, occurred |-> Occurrence,
   observation |-> Text]

HashStamp ==
  Fields(TreatmentStamp, <<"id", "stock", "actor", "basis", "recorded", "occurred", "observation">>)

PhysicalScopeAnchor == [group |-> Id, created |-> Revision, packs |-> Packs]
CapturedPhysicalScope ==
  [hub |-> Id, trace |-> Id, variant |-> Id, captured |-> Revision,
   anchors |-> Many(Fields(PhysicalScopeAnchor, <<"group", "created", "packs">>))]

HashScope == Fields(CapturedPhysicalScope, <<"hub", "trace", "variant", "captured", "anchors">>)

Stamped(extra, order) == Fields([stamp |-> HashStamp, scope |-> HashScope] @@ extra, <<"stamp", "scope">> \o order)

TreatmentChange ==
  Sum(<<Case(0, Stamped([status |-> Code(0, 2)], <<"status">>)),
        Case(1, Stamped(<<>>, <<>>)),
        Case(2, Fields([hold |-> Id, release |-> HashStamp], <<"hold", "release">>))>>)

TreatmentSummary ==
  [on_hand |-> Packs, accepted |-> Packs, review_required |-> Packs, rejected |-> Packs,
   restricted |-> Packs, eligible |-> Packs]

TreatmentResult ==
  Seal("treatment_result",
    TreatmentSummary @@ [affected |-> Packs, capacity_reached |-> Flag, change |-> TreatmentChange],
    <<"on_hand", "accepted", "review_required", "rejected", "restricted", "eligible", "affected",
      "capacity_reached", "change">>)
-----------------------------------------------------------------------------
(***************************************************************************)
(* Paper.                                                                  *)
(***************************************************************************)
DispatchStamp == [operation |-> Id, stock |-> Revision, actor |-> Id, recorded |-> Clock, observation |-> Text]
HashDispatchStamp == Fields(DispatchStamp, <<"operation", "stock", "actor", "recorded", "observation">>)

\* The bytes of a receipt are those it had before there were other origins.
PopulationOrigin ==
  Sum(<<[tag |-> <<>>, type |-> Nothing],
        Named("returned", Fields([returned |-> Id], <<"returned">>)),
        Named("counted", Fields([history |-> OpeningHistory], <<"history">>)),
        Named("surplus", Fields([count |-> Id, related |-> Id], <<"count", "related">>))>>)

StockPopulation ==
  [id |-> Id, variant |-> ReferenceRecord, product |-> ReferenceRecord, supplier |-> Opt(ReferenceRecord),
   producer |-> Opt(ReferenceRecord), source |-> Source, source_issuer |-> Opt(ReferenceRecord),
   original_packs |-> Packs, initial_location |-> ReferenceRecord, origin |-> PopulationOrigin,
   planned_location |-> Opt(ReferenceRecord), occurred |-> Occurrence, recorded |-> Clock, actor |-> Id,
   observation |-> Text]

HashTrace ==
  Fields(StockPopulation,
    <<"id", "variant", "product", "supplier", "producer", "source_issuer", "source", "original_packs",
      "initial_location", "planned_location", "occurred", "recorded", "actor", "observation", "origin">>)

DispatchLineSnapshot ==
  [group |-> Id, group_revision |-> Revision, packs |-> Packs, identification |-> Opt(PhysicalIdentification),
   location |-> ReferenceRecord, product |-> ReferenceRecord, variant |-> ReferenceRecord, trace |-> HashTrace]

DispatchMaterial ==
  [stock |-> Revision, catalog |-> Revision, basis |-> Basis, recipient |-> ReferenceRecord,
   lines |-> Many(Fields(DispatchLineSnapshot,
     <<"group", "group_revision", "packs", "identification", "location", "product", "variant", "trace">>)),
   observation |-> Text]

HashMaterial == Fields(DispatchMaterial, <<"stock", "catalog", "basis", "recipient", "observation", "lines">>)

IdentificationVersion ==
  Fields([id |-> Id, number |-> Packs, previous |-> Opt(Id), material |-> HashMaterial,
          issued |-> HashDispatchStamp, status |-> Code(1, 3), closed |-> Opt(HashDispatchStamp)],
         <<"id", "number", "previous", "material", "issued", "status", "closed">>)

DispatchRecord ==
  [id |-> Id, hub |-> Id, revision |-> Revision, created |-> HashDispatchStamp, updated |-> HashDispatchStamp,
   draft |-> Opt(HashMaterial), versions |-> Many(IdentificationVersion)]

DispatchResult ==
  Seal("dispatch_result", DispatchRecord,
    <<"id", "hub", "revision", "created", "updated", "draft", "versions">>)
-----------------------------------------------------------------------------
(***************************************************************************)
(* Departure and disposition.                                              *)
(***************************************************************************)
WorkRequirement ==
  [id |-> Id, trace |-> Id, variant |-> Id, revision |-> Revision, required |-> Packs, completed |-> Packs,
   retired |-> Packs, target |-> Opt(ReferenceRecord)]

HashWork ==
  Fields(WorkRequirement, <<"id", "trace", "variant", "revision", "required", "completed", "retired", "target">>)

WorkAllocation == Fields([work |-> HashWork, progress |-> Code(1, 3)], <<"work", "progress">>)
WorkChange == Fields([before |-> HashWork, after |-> HashWork, retired |-> Packs], <<"before", "after", "retired">>)

PhysicalStockGroup ==
  [id |-> Id, trace |-> Id, variant |-> Id, location |-> Id, parent |-> Opt(Id),
   identification |-> Opt(PhysicalIdentification), packs |-> Packs, revision |-> Revision,
   floor |-> Opt(Clock), work |-> Many(WorkAllocation)]

HashGroup ==
  Fields(PhysicalStockGroup,
    <<"id", "trace", "variant", "location", "parent", "identification", "packs", "revision", "floor", "work">>)

ConsumedStockGroup ==
  Fields([before |-> HashGroup, after |-> Revision, floor |-> Opt(Clock)], <<"before", "after", "floor">>)

DepartureRecord ==
  [id |-> Id, operation |-> Id, hub |-> Id, stock |-> Revision, catalog |-> Revision, actor |-> Id,
   recorded |-> Clock, occurred |-> Occurrence, observation |-> Text, paper |-> Id,
   consumed |-> Many(ConsumedStockGroup), work_changes |-> Many(WorkChange)]

DepartureResult ==
  Seal("departure_result", DepartureRecord,
    <<"id", "operation", "hub", "stock", "catalog", "actor", "recorded", "occurred", "observation", "paper",
      "consumed", "work_changes">>)

\* Kind, occurrence and observation are hashed through the command's fingerprint, which is computed again.
DispositionRecord ==
  [command |-> DispositionIntent, hub |-> Id, actor |-> Id, recorded |-> Clock, stock |-> Revision,
   catalog |-> Revision, product |-> ReferenceRecord, variant |-> ReferenceRecord, location |-> ReferenceRecord,
   consumed |-> ConsumedStockGroup, work_changes |-> Many(WorkChange)]

DispositionResult ==
  Sealed("disposition_result", Fields(DispositionRecord,
    <<"command", "hub", "actor", "recorded", "stock", "catalog", "product", "variant", "location", "consumed",
      "work_changes">>))
-----------------------------------------------------------------------------
(***************************************************************************)
(* Counts.                                                                 *)
(***************************************************************************)
CountScope ==
  [hub |-> Id, stock |-> Revision, catalog |-> Revision, trace |-> Id, group |-> Id, group_revision |-> Revision,
   product |-> ReferenceRecord, variant |-> ReferenceRecord, location |-> ReferenceRecord, packs |-> Packs,
   latest |-> Clock, previous |-> Opt(Id)]

CountObservation ==
  [id |-> Id, operation |-> Id, recorded_revision |-> Revision,
   scope |-> Fields(CountScope, <<"hub", "stock", "catalog", "trace", "group", "group_revision", "product",
                                  "variant", "location", "packs", "latest", "previous">>),
   counted |-> Packs, cutoff |-> Occurrence, actor |-> Id, recorded |-> Clock, observation |-> Text]

CountObservationResult ==
  Seal("count_result", CountObservation,
    <<"id", "operation", "recorded_revision", "scope", "counted", "cutoff", "actor", "recorded", "observation">>)

\* A surplus is of unknown source and waits for review, which its validation demands.
CountEffect ==
  Sum(<<Case(0, Nothing),
        Case(1, Fields([packs |-> Packs, after |-> Packs, revision |-> Revision, changes |-> Many(WorkChange)],
                       <<"packs", "after", "revision", "changes">>)),
        Case(2, Fields([packs |-> Packs, identification |-> PhysicalIdentification],
                       <<"packs", "identification">>))>>)

CountPostPlan ==
  [id |-> Id, operation |-> Id, count |-> Id, stock |-> Revision, catalog |-> Revision,
   product |-> ReferenceRecord, variant |-> ReferenceRecord, location |-> ReferenceRecord, actor |-> Id,
   recorded |-> Clock, confirmed |-> Clock, reason |-> Text, before |-> HashGroup, effect |-> CountEffect]

CountPostResult ==
  Seal("post_result", CountPostPlan,
    <<"id", "operation", "count", "stock", "catalog", "product", "variant", "location", "actor", "recorded",
      "confirmed", "reason", "before", "effect">>)
-----------------------------------------------------------------------------
(***************************************************************************)
(* Returns.  A capture of current allowances has no presence byte, so that *)
(* a seal made before there were any stays what it was.                    *)
(***************************************************************************)
ReturnPopulation ==
  [hub |-> Id, catalog |-> Revision, operation |-> Id, returned |-> Id, population |-> Id, actor |-> Id,
   recorded |-> Clock, packs |-> Packs, occurred |-> Occurrence, observation |-> Text, source |-> Source,
   product |-> ReferenceRecord, variant |-> ReferenceRecord, location |-> ReferenceRecord,
   issuer |-> Opt(ReferenceRecord), planned |-> Opt(ReferenceRecord)]

ReturnPopulationResult ==
  Seal("population_result", ReturnPopulation,
    <<"hub", "catalog", "operation", "returned", "population", "actor", "recorded", "packs", "occurred",
      "observation", "source", "product", "variant", "location", "issuer", "planned">>)

ReturnQuantityHead ==
  Fields([operation |-> Id, stock |-> Revision, projection |-> Id], <<"operation", "stock", "projection">>)

ReturnLineAllowance ==
  [group |-> Id, departed |-> Packs, bound |-> Packs, head |-> Opt(ReturnQuantityHead), funding |-> Id,
   unresolved |-> Flag]

ReturnAllowanceCapture ==
  Fields([hub |-> Id, departure |-> Id, operation |-> Id, stock |-> Revision,
          lines |-> Many(Fields(ReturnLineAllowance,
                                <<"group", "departed", "bound", "head", "funding", "unresolved">>))],
         <<"hub", "departure", "operation", "stock", "lines">>)

ReturnPlan ==
  [hub |-> Id, actor |-> Id, recorded |-> Clock, stock |-> Revision, catalog |-> Revision,
   product |-> ReferenceRecord, variant |-> ReferenceRecord, location |-> ReferenceRecord,
   returned_by |-> Opt(ReferenceRecord), issuer |-> Opt(ReferenceRecord), planned |-> Opt(ReferenceRecord),
   departure |-> Opt(Id), totals |-> Many(Fields([group |-> Id, packs |-> Packs], <<"group", "packs">>)),
   allowances |-> Extra("allowance", ReturnAllowanceCapture)]

ReturnResult ==
  Seal("return_result", ReturnPlan,
    <<"hub", "actor", "recorded", "stock", "catalog", "product", "variant", "location", "returned_by", "issuer",
      "planned", "departure", "totals", "allowances">>)
-----------------------------------------------------------------------------
(***************************************************************************)
(* Reported actuals and correction observations.  The claims themselves    *)
(* are hashed through the fingerprint, which is computed again.            *)
(***************************************************************************)
Recorded == [id |-> Id, operation |-> Id, hub |-> Id, actor |-> Id, stock |-> Revision, catalog |-> Revision,
             recorded |-> Clock]

ActualReportResult ==
  Sealed("report_result", Fields(Recorded @@ [command |-> ActualReportIntent, clock |-> Code(0, 2)],
    <<"command", "id", "operation", "hub", "actor", "stock", "catalog", "recorded", "clock">>))

CorrectionObservationResult ==
  Sealed("observation_result", Fields(Recorded @@ [command |-> ObservationIntent],
    <<"command", "id", "operation", "hub", "actor", "stock", "catalog", "recorded">>))
-----------------------------------------------------------------------------
(***************************************************************************)
(* A reviewed actual departure: everything the review looked at.  What     *)
(* came later than the first sealed departures (origins of recovered       *)
(* groups, initial reviews, interpretations) is hashed only where there is *)
(* some, under a word of its own.                                          *)
(***************************************************************************)
PhysicalLineageNode ==
  Fields([id |-> Id, parent |-> Opt(Id), trace |-> Id, variant |-> Id, created |-> Revision, packs |-> Packs],
         <<"id", "parent", "trace", "variant", "created", "packs">>)

RecoveryOrigin ==
  Fields([group |-> Id, operation |-> Id, revision |-> Revision], <<"group", "operation", "revision">>)

HashLineage ==
  Fields([hub |-> Id, trace |-> Id, variant |-> Id, revision |-> Revision, nodes |-> Many(PhysicalLineageNode),
          origins |-> Extra("recovery_origin", Many(RecoveryOrigin))],
         <<"hub", "trace", "variant", "revision", "nodes", "origins">>)

Hold == Stamped([release |-> Opt(HashStamp)], <<"release">>)

HashTreatment ==
  Fields([decisions |-> Many(Stamped([status |-> Code(0, 2)], <<"status">>)), holds |-> Many(Hold),
          initial |-> Extra("initial_review", Many(Stamped(<<>>, <<>>)))],
         <<"decisions", "holds", "initial">>)

ActualPhysicalBirthKind ==
  Sum([k \in 1 .. 6 |-> Case(k - 1, IF k = 6 THEN Fields([allocation |-> Code(0, 1)], <<"allocation">>) ELSE Nothing)])

ActualPhysicalBirth ==
  [kind |-> ActualPhysicalBirthKind, operation |-> Id, hub |-> Id, trace |-> Id, variant |-> Id, group |-> Id,
   parent |-> Opt(Id), stock |-> Revision, packs |-> Packs, actor |-> Id, occurred |-> Occurrence,
   recorded |-> Clock]

HashBirth ==
  Fields(ActualPhysicalBirth,
    <<"kind", "operation", "hub", "trace", "variant", "group", "parent", "stock", "packs", "actor", "occurred",
      "recorded">>)

HistoricalActualSource ==
  [operation |-> Id, actor |-> Id, hub |-> Id, stock |-> Revision, catalog |-> Revision, group |-> Id,
   trace |-> Id, variant |-> Id, place |-> Id, parent |-> Opt(Id), packs |-> Packs, group_revision |-> Revision,
   location |-> ReferenceRecord, occurred |-> Occurrence, recorded |-> Clock]

HashSource ==
  Fields(HistoricalActualSource,
    <<"operation", "actor", "hub", "stock", "catalog", "group", "trace", "variant", "place", "parent", "packs",
      "group_revision", "location", "occurred", "recorded">>)

ActualPhysicalActivity ==
  Fields([sequence |-> Packs, operation |-> Id, actor |-> Id, stock |-> Revision, hub |-> Id, trace |-> Id,
          group |-> Id, location |-> Opt(Id), kind |-> Code(0, 3), occurred |-> Occurrence, recorded |-> Clock],
         <<"sequence", "operation", "actor", "stock", "hub", "trace", "group", "location", "kind", "occurred",
           "recorded">>)

ActualKnownDeparture ==
  [operation |-> Id, actor |-> Id, hub |-> Id, stock |-> Revision, catalog |-> Revision, trace |-> Id,
   variant |-> ReferenceRecord, recipient |-> ReferenceRecord, occurred |-> Occurrence, recorded |-> Clock,
   lines |-> Many(Fields([group |-> Id, location |-> ReferenceRecord, packs |-> Packs],
                         <<"group", "location", "packs">>))]

HashKnown ==
  Fields(ActualKnownDeparture,
    <<"operation", "actor", "hub", "stock", "catalog", "trace", "variant", "recipient", "occurred", "recorded",
      "lines">>)

HoldFinding ==
  Sum(<<Case(0, Fields([hold |-> Hold, timing |-> Code(0, 3), reason |-> Code(0, 7)],
                       <<"hold", "timing", "reason">>)),
        Case(1, Fields([hold |-> Hold, group |-> Id, occurred |-> Occurrence, lineage |-> Revision,
                        timing |-> Code(0, 3), births |-> Many(HashBirth)],
                       <<"hold", "group", "occurred", "lineage", "timing", "births">>))>>)

RemovedScope ==
  Fields([work |-> Id, progress |-> Code(0, 2), scoped |-> Packs, after |-> Packs, removed |-> Packs,
          removed_progress |-> Code(0, 2)],
         <<"work", "progress", "scoped", "after", "removed", "removed_progress">>)

KnownInterpretations ==
  Fields([hub |-> Id, stock |-> Revision, catalog |-> Revision, latest |-> Clock, records |-> Many(Id)],
         <<"hub", "stock", "catalog", "latest", "records">>)

ActualReviewed ==
  [operation |-> Id, hub |-> Id, actor |-> Id, recorded |-> Clock, stock |-> Revision, catalog |-> Revision,
   report |-> Id, references |-> Many(ReferenceRecord), lineage |-> HashLineage, treatment |-> HashTreatment,
   source |-> HashSource, balancing |-> Id, activity |-> Many(ActualPhysicalActivity), known |-> Many(HashKnown),
   births |-> Many(HashBirth), findings |-> Many(HoldFinding)]

ActualReduction ==
  [before |-> HashGroup, departed |-> Packs, after |-> Packs, after_revision |-> Revision, floor |-> Opt(Clock),
   changes |-> Many(WorkChange), removed |-> Many(RemovedScope), clock |-> Code(0, 2)]

ActualComparison ==
  [product |-> ReferenceRecord, variant |-> ReferenceRecord, recipient |-> ReferenceRecord,
   location |-> ReferenceRecord, compared |-> HashGroup, packs |-> Packs, left |-> Packs,
   candidate |-> Code(0, 3), pending |-> Many(Id),
   holds |-> Many(Fields([hold |-> Hold, timing |-> Code(0, 3)], <<"hold", "timing">>)), basis |-> Text,
   interpretations |-> Extra("interpretations", KnownInterpretations)]

ActualDepartureResult ==
  Seal("actual_result", ActualReviewed @@ ActualReduction @@ ActualComparison,
    <<"operation", "hub", "actor", "recorded", "stock", "catalog", "report", "references", "lineage",
      "treatment", "source", "balancing", "activity", "known", "births", "findings", "before", "departed",
      "after", "after_revision", "floor", "changes", "removed", "clock", "product", "variant", "recipient",
      "location", "compared", "packs", "left", "candidate", "pending", "holds", "basis", "interpretations">>)

ActualProjectionResult ==
  Seal("projection_result", [report |-> Id, source |-> HashSource, known |-> HashKnown],
    <<"report", "source", "known">>)

ActualDuplicateResult ==
  Seal("duplicate_result",
    [operation |-> Id, actor |-> Id, recorded |-> Clock, stock |-> Revision, catalog |-> Revision, report |-> Id,
     known |-> HashKnown, verification |-> Text, interpretation |-> Extra("interpretation", Id),
     count_source |-> Extra("count_source", Id)],
    <<"operation", "actor", "recorded", "stock", "catalog", "report", "known", "verification", "interpretation",
      "count_source">>)
=============================================================================
