------------------------------ MODULE HubRecords ------------------------------
(***************************************************************************)
(* Two comparisons by digest that the whole hub rests on.  A command that  *)
(* is sent again under its request is answered with the stored result only *)
(* if its fingerprint is the stored one; anything else is a conflict.  A   *)
(* result that is read again is returned only if the seal computed from    *)
(* its rows is the stored one; anything else is corrupt.  A conflict and a *)
(* corrupt read change nothing and are not steps.                          *)
(***************************************************************************)
EXTENDS HubSeals

CONSTANT Unset

VARIABLES kept,  \* the record a digest was stored for: its class, kind and value
          seen   \* the record that was last accepted on the strength of that digest

recordVars == <<kept, seen>>

Layouts ==
  [command |->
     [reference |-> ReferenceCommand, receipt |-> ReceiptIntent, opening |-> OpeningIntent,
      returned |-> ReturnIntent, movement |-> MovementIntent, split |-> SplitIntent,
      discrepancy |-> DiscrepancyIntent, replan |-> ReplanIntent, new_work |-> NewWorkIntent,
      treatment |-> TreatmentIntent, dispatch |-> DispatchIntent, departure |-> DepartureIntent,
      disposition |-> DispositionIntent, count_observe |-> CountObserveIntent,
      count_post |-> CountPostIntent, report |-> ActualReportIntent, review |-> ActualReviewIntent,
      duplicate |-> ActualDuplicateIntent, observation |-> ObservationIntent, found |-> FoundIntent,
      found_stock |-> FoundStockIntent, source |-> SourceAttributionIntent,
      recipient |-> RecipientAttributionIntent, follow_up |-> FollowUpIntent,
      additional |-> AdditionalIntent, explain_facts |-> CountExplanationFactsIntent,
      explain |-> CountExplanationIntent, count_return |-> CountReturnIntent,
      classify |-> CountClassificationIntent],
   result |->
     [treatment |-> TreatmentResult, dispatch |-> DispatchResult, departure |-> DepartureResult,
      disposition |-> DispositionResult, count_observe |-> CountObservationResult,
      count_post |-> CountPostResult, population |-> ReturnPopulationResult, returned |-> ReturnResult,
      report |-> ActualReportResult, observation |-> CorrectionObservationResult,
      review |-> ActualDepartureResult, projection |-> ActualProjectionResult,
      duplicate |-> ActualDuplicateResult]]

\* Every record tried, with its digest.
Digested ==
  [class \in DOMAIN Layouts |->
    [k \in DOMAIN Layouts[class] |->
      {[record |-> v, digest |-> Bytes(Layouts[class][k], v)] : v \in Values(Layouts[class][k])}]]

RecordInit == kept = Unset /\ seen = Unset

\* The first time: the record is written together with its digest.
KeepRecord(class, k, r) ==
  /\ kept = Unset
  /\ kept' = [class |-> class, kind |-> k, record |-> r.record, digest |-> r.digest]
  /\ UNCHANGED seen

\* Again: a command under the same request, or the rows of a result as they now are.
AcceptRecord(r) ==
  /\ r.digest = kept.digest
  /\ seen' = r.record
  /\ UNCHANGED kept

RecordNext ==
  \/ \E class \in DOMAIN Digested : \E k \in DOMAIN Digested[class] :
       \E r \in Digested[class][k] : KeepRecord(class, k, r)
  \/ kept # Unset /\ \E r \in Digested[kept.class][kept.kind] : AcceptRecord(r)
-----------------------------------------------------------------------------
(***************************************************************************)
(* What is accepted on the strength of a digest is what the digest was     *)
(* stored for.  A stored result is returned only to the very command it    *)
(* answers: no two commands of a kind have one fingerprint, whichever      *)
(* optional fields, texts and lists they have (the fingerprint functions   *)
(* of the commands, hash_text).  And a result whose rows are no longer the *)
(* ones written is refused, whichever field changed: the seal covers every *)
(* field, and no bytes shift from one field into the next.                 *)
(***************************************************************************)
DigestsTellApart == kept # Unset /\ seen # Unset => seen = kept.record
=============================================================================
