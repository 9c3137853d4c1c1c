------------------------------ MODULE HubIntents ------------------------------
(***************************************************************************)
(* What each hub command is and what its fingerprint hashes.  Every        *)
(* command but a reference change records itself under an operation        *)
(* identity of one journal, where a second command with the same           *)
(* fingerprint is answered with the first one's original result.           *)
(*                                                                         *)
(* The identities an operation derives for its group, its work and so on   *)
(* are functions of the operation; one field stands for those a            *)
(* fingerprint hashes.                                                     *)
(***************************************************************************)
EXTENDS RecordBytes

Intent(purpose, shape, order) ==
  Sealed(purpose, Fields([hub |-> Id, actor |-> Id, operation |-> Id] @@ shape,
                         <<"hub", "actor", "operation">> \o order))

Expected == [stock |-> Revision, catalog |-> Revision]

\* hash_occurrence: unknown, known, or an interval.
Occurrence ==
  Sum(<<Case(0, Nothing),
        Case(1, Fields([at |-> Clock], <<"at">>)),
        Case(2, Fields([earliest |-> Clock, latest |-> Clock], <<"earliest", "latest">>))>>)

SourceReference ==
  [id |-> Id, issuer |-> Opt(Id), kind |-> Code(1, 3), code |-> Text, provenance |-> Text, certainty |-> Code(1, 2)]

\* hash_source.
Source ==
  Sum(<<Case(0, Nothing),
        Case(1, Fields(SourceReference, <<"id", "issuer", "kind", "code", "provenance", "certainty">>))>>)

PhysicalIdentification == Fields([label |-> Text, observation |-> Text], <<"label", "observation">>)

(***************************************************************************)
(* Reference changes.                                                      *)
(***************************************************************************)
Named4(extra, order) == Fields([label |-> Text] @@ extra, <<"label">> \o order)

ReferenceValue ==
  Sum(<<Case(1, Named4(<<>>, <<>>)),
        Case(2, Named4([product |-> Id, grams |-> Grams], <<"product", "grams">>)),
        Case(3, Named4(<<>>, <<>>)),
        Case(4, Named4([purpose |-> Code(1, 3)], <<"purpose">>))>>)

ReferenceMutation ==
  Sum(<<Case(1, Fields([id |-> Id, value |-> ReferenceValue], <<"id", "value">>)),
        Case(2, Fields([record |-> Revision, id |-> Id, value |-> ReferenceValue],
                       <<"record", "id", "value">>))>>)

ReferenceCommand ==
  Sealed("reference", Fields([hub |-> Id, actor |-> Id, catalog |-> Revision, mutation |-> ReferenceMutation],
                             <<"hub", "actor", "catalog", "mutation">>))
-----------------------------------------------------------------------------
(***************************************************************************)
(* Stock coming in.                                                        *)
(***************************************************************************)
ReceiptCommand ==
  Expected @@ [variant |-> Id, supplier |-> Opt(Id), producer |-> Opt(Id), source |-> Source, packs |-> Packs,
               receiving |-> Id, planned_location |-> Opt(Id), occurred |-> Occurrence, observation |-> Text]

ReceiptIntent ==
  Intent("receipt", ReceiptCommand,
    <<"stock", "catalog", "variant", "supplier", "producer", "packs", "receiving", "planned_location",
      "source", "occurred", "observation">>)

OpeningHistory == Sum(<<Case(0, Nothing), Case(1, Fields([reference |-> Text], <<"reference">>))>>)

OpeningCommand ==
  Expected @@ [variant |-> Id, location |-> Id, packs |-> Packs, identification |-> PhysicalIdentification,
               source |-> Source, history |-> OpeningHistory, counted |-> Occurrence, observation |-> Text]

OpeningIntent ==
  Intent("opening", OpeningCommand,
    <<"stock", "catalog", "variant", "location", "packs", "identification", "source", "history", "counted",
      "observation">>)

ReturnDepartureClaim == Fields([departure |-> Id, group |-> Opt(Id)], <<"departure", "group">>)

ReturnCommand ==
  Expected @@ [variant |-> Id, location |-> Id, returned_by |-> Opt(Id), source |-> Source, packs |-> Packs,
               identification |-> PhysicalIdentification, planned_location |-> Opt(Id),
               departure |-> Opt(ReturnDepartureClaim), occurred |-> Occurrence, observation |-> Text]

ReturnIntent ==
  Intent("return", ReturnCommand,
    <<"stock", "catalog", "variant", "location", "packs", "returned_by", "planned_location", "source",
      "identification", "departure", "occurred", "observation">>)
-----------------------------------------------------------------------------
(***************************************************************************)
(* Handling.                                                               *)
(***************************************************************************)
OneGroup == Expected @@ [group |-> Id, expected_group |-> Revision]

MovementCommand ==
  OneGroup @@ [to |-> Id, packs |-> Packs, separated_portion |-> Opt(PhysicalIdentification),
               occurred |-> Occurrence, observation |-> Text]

MovementIntent ==
  Intent("movement", MovementCommand,
    <<"stock", "catalog", "group", "expected_group", "to", "packs", "separated_portion", "occurred",
      "observation">>)

SplitCommand ==
  OneGroup @@ [packs |-> Packs, identification |-> PhysicalIdentification, occurred |-> Occurrence,
               observation |-> Text]

SplitIntent ==
  Intent("split", SplitCommand,
    <<"stock", "catalog", "group", "expected_group", "packs", "identification", "occurred", "observation">>)

DiscrepancyAction ==
  Sum(<<Case(0, Fields([trace |-> Id, group |-> Opt(Id), observation |-> Text],
                       <<"trace", "group", "observation">>)),
        Case(1, Fields([discrepancy |-> Id, expected |-> Revision, resolution |-> Text],
                       <<"discrepancy", "expected", "resolution">>))>>)

DiscrepancyIntent ==
  Intent("discrepancy", Expected @@ [action |-> DiscrepancyAction], <<"stock", "catalog", "action">>)

ReplanIntent ==
  Intent("replan", Expected @@ [requirement |-> Id, expected_work |-> Revision, target |-> Id, observation |-> Text],
    <<"stock", "catalog", "requirement", "expected_work", "target", "observation">>)

NewWorkIntent ==
  Intent("new_work", Expected @@ [groups |-> ManyLong(Id), target |-> Id, observation |-> Text],
    <<"stock", "catalog", "groups", "target", "observation">>)

\* The selection comes before the status; a hold has no status.
Selection(extra, order) == Fields([selection |-> Many(Id)] @@ extra, <<"selection">> \o order)

TreatmentAction ==
  Sum(<<Case(0, Selection([status |-> Code(0, 2)], <<"status">>)),
        Case(1, Selection(<<>>, <<>>)),
        Case(2, Fields([hold |-> Id, expected |-> Revision], <<"hold", "expected">>))>>)

TreatmentIntent ==
  Intent("treatment", Expected @@ [action |-> TreatmentAction, occurred |-> Occurrence, observation |-> Text],
    <<"stock", "catalog", "action", "occurred", "observation">>)
-----------------------------------------------------------------------------
(***************************************************************************)
(* Paper, departure, disposition and counts.                               *)
(***************************************************************************)
DispatchLineInput ==
  Fields([group |-> Id, expected_group |-> Revision, packs |-> Packs], <<"group", "expected_group", "packs">>)

Target == [preparation |-> Id, expected |-> Revision]
Content == [recipient |-> Id, lines |-> Many(DispatchLineInput)]

\* The kind is hashed as a word, then the target where there is one, then the content.
DispatchAction ==
  Sum(<<Named("prepare", Fields(Content, <<"recipient", "lines">>)),
        Named("revise", Fields(Target @@ Content, <<"preparation", "expected", "recipient", "lines">>)),
        Named("issue", Fields(Target, <<"preparation", "expected">>)),
        Named("replace", Fields(Target @@ Content, <<"preparation", "expected", "recipient", "lines">>)),
        Named("unused", Fields(Target, <<"preparation", "expected">>))>>)

DispatchIntent ==
  Intent("dispatch", Expected @@ [action |-> DispatchAction, observation |-> Text],
    <<"stock", "catalog", "action", "observation">>)

DepartureIntent ==
  Intent("departure", Expected @@ [preparation |-> Id, expected_preparation |-> Revision, identification |-> Id,
                                   occurred |-> Occurrence, observation |-> Text],
    <<"stock", "catalog", "preparation", "expected_preparation", "identification", "occurred", "observation">>)

DispositionCommand ==
  OneGroup @@ [packs |-> Packs, kind |-> Code(1, 2), occurred |-> Occurrence, observation |-> Text]

DispositionIntent ==
  Intent("disposition", DispositionCommand,
    <<"stock", "catalog", "group", "expected_group", "packs", "kind", "occurred", "observation">>)

CountObserveIntent ==
  Intent("count_observe", OneGroup @@ [counted_packs |-> Packs, cutoff |-> Occurrence, observation |-> Text],
    <<"stock", "catalog", "group", "expected_group", "counted_packs", "cutoff", "observation">>)

CountPostCommand ==
  Expected @@ [count |-> Id, reviewed_activity |-> Flag, surplus_identification |-> Opt(PhysicalIdentification),
               reason |-> Text]

CountPostIntent ==
  Intent("count_post", CountPostCommand,
    <<"stock", "catalog", "count", "reviewed_activity", "surplus_identification", "reason">>)
-----------------------------------------------------------------------------
(***************************************************************************)
(* Reported actuals.  The number of candidate sources is hashed whatever   *)
(* the kind of claim is.                                                   *)
(***************************************************************************)
ReportedActualSource ==
  Fields([trace |-> Id, group |-> Opt(Id), location |-> Opt(Id)], <<"trace", "group", "location">>)

ReportSources ==
  Sum([k \in 1 .. 3 |-> Case(k - 1, Fields([candidates |-> ManyLong(ReportedActualSource)], <<"candidates">>))])

ActualReportCommand ==
  [variant |-> Opt(Id), recipient |-> Opt(Id), packs |-> Opt(Packs), sources |-> ReportSources,
   occurred |-> Occurrence, observation |-> Text]

ActualReportIntent ==
  Intent("report", ActualReportCommand,
    <<"variant", "recipient", "packs", "sources", "occurred", "observation">>)

Evidence == [source_evidence |-> Text, quantity_evidence |-> Text, recipient_evidence |-> Text,
             timing_evidence |-> Text]

ActualReviewFacts ==
  OneGroup @@ Evidence @@ [report |-> Id, packs |-> Packs, recipient |-> Id, occurred |-> Occurrence]

ActualNewDepartureCommand ==
  ActualReviewFacts @@ [source_operation |-> Id, source_group |-> Id, duplicate_review_basis |-> Text]

ActualReviewIntent ==
  Intent("review", ActualNewDepartureCommand,
    <<"report", "group", "recipient", "source_operation", "source_group", "stock", "catalog",
      "expected_group", "packs", "occurred", "source_evidence", "quantity_evidence", "recipient_evidence",
      "timing_evidence", "duplicate_review_basis">>)

ActualDuplicateIntent ==
  Intent("duplicate", [report |-> Id, known_operation |-> Id, known_trace |-> Id, known_variant |-> Id,
                       verification |-> Text],
    <<"report", "known_operation", "known_trace", "known_variant", "verification">>)
-----------------------------------------------------------------------------
(***************************************************************************)
(* Corrections.                                                            *)
(***************************************************************************)
FoundStockInput ==
  Fields([operation |-> Id, group |-> Id, packs |-> Packs, location |-> Id,
          identification |-> PhysicalIdentification, cohort_evidence |-> Text],
         <<"operation", "group", "packs", "location", "identification", "cohort_evidence">>)

FoundFacts ==
  Fields([target_operation |-> Id, target_group |-> Id, allocations |-> Many(FoundStockInput), basis |-> Text],
         <<"target_operation", "target_group", "allocations", "basis">>)

ObservedFacts ==
  Sum(<<Named("facts_found", FoundFacts),
        Named("facts_count", Fields([explanation |-> Id, corrected_packs |-> Packs, report |-> Opt(Id), basis |-> Text],
                                    <<"explanation", "corrected_packs", "report", "basis">>))>>)

ObservationIntent ==
  Intent("observation", [previous |-> Opt(Id), facts |-> ObservedFacts], <<"previous", "facts">>)

FoundIntent == Intent("found", Expected @@ [observation |-> Id], <<"stock", "catalog", "observation">>)

\* The facts are hashed as an observation without a predecessor.
FoundStockIntent ==
  Intent("found_stock", Expected @@ [facts |-> Sealed("observation", ObservedFacts)],
    <<"stock", "catalog", "facts">>)

SourceAttributionIntent ==
  Intent("source", Expected @@ [trace |-> Id, expected_prior |-> Opt(Id), source |-> Source, basis |-> Text],
    <<"stock", "catalog", "trace", "expected_prior", "source", "basis">>)

RecipientAttributionIntent ==
  Intent("recipient", Expected @@ [departure |-> Id, expected_prior |-> Opt(Id), recipient |-> Opt(Id), basis |-> Text],
    <<"stock", "catalog", "departure", "expected_prior", "recipient", "basis">>)

CorrectionImpact == Sum([k \in 1 .. 7 |-> Case(k, Fields([id |-> Id], <<"id">>))])

FollowUpIntent ==
  Intent("follow_up", Expected @@ [correction |-> Id, target |-> CorrectionImpact, expected_prior |-> Opt(Id),
                                   state |-> Code(0, 1), basis |-> Text],
    <<"stock", "catalog", "correction", "target", "expected_prior", "state", "basis">>)

CorrectedLineFacts ==
  Expected @@ Evidence @@ [report |-> Id, target_operation |-> Id, target_group |-> Id, expected_prior |-> Opt(Id),
                           corrected_line_packs |-> Packs, recipient |-> Opt(Id), occurred |-> Occurrence]

AdditionalQuantityCommand ==
  CorrectedLineFacts @@ [source_operation |-> Id, source_group |-> Id, balancing_group |-> Id,
                         expected_balancing |-> Revision, duplicate_review_basis |-> Text]

AdditionalIntent ==
  Intent("additional", AdditionalQuantityCommand,
    <<"stock", "catalog", "report", "target_operation", "target_group", "expected_prior",
      "corrected_line_packs", "recipient", "occurred", "source_evidence", "quantity_evidence",
      "recipient_evidence", "timing_evidence", "source_operation", "source_group", "balancing_group",
      "expected_balancing", "duplicate_review_basis">>)

CountExplanationFacts ==
  Expected @@ Evidence @@ [report |-> Id, count |-> Id, expected_prior |-> Opt(Id), packs |-> Packs,
                           recipient |-> Id, occurred |-> Occurrence]

CountExplanationFactsIntent ==
  Intent("explain", CountExplanationFacts,
    <<"stock", "catalog", "report", "count", "expected_prior", "packs", "recipient", "occurred",
      "source_evidence", "quantity_evidence", "recipient_evidence", "timing_evidence">>)

\* The facts' fingerprint binds the hub, the actor and the operation.
CountExplanationIntent ==
  Sealed("explain_source", Fields([facts |-> CountExplanationFactsIntent, source_operation |-> Id, source_group |-> Id],
                                  <<"facts", "source_operation", "source_group">>))

CountReturnIntent ==
  Intent("count_return",
    Expected @@ [returned |-> Id, explanation |-> Id, source_operation |-> Id, source_group |-> Id,
                 account_prior |-> Opt(Id), returns_prior |-> Opt(Id), source_evidence |-> Text,
                 quantity_evidence |-> Text, timing_evidence |-> Text],
    <<"stock", "catalog", "returned", "explanation", "source_operation", "source_group", "account_prior",
      "returns_prior", "source_evidence", "quantity_evidence", "timing_evidence">>)

CountClassificationIntent ==
  Intent("classify", Expected @@ [observation |-> Id, account_prior |-> Opt(Id), expected_prior |-> Opt(Id)],
    <<"stock", "catalog", "observation", "account_prior", "expected_prior">>)
=============================================================================
