--------------------------- MODULE RuntimeCommands ---------------------------
(***************************************************************************)
(* The calls of the native interface and the commands of the runtime actor *)
(* behind them.  A call and the command it submits have one name here.     *)
(* The interface decides which calls carry a request context (an expected  *)
(* revision and a deadline of their own); the runtime decides the class of *)
(* a command, whether it changes the hub, and what executing it may do.    *)
(***************************************************************************)
EXTENDS FiniteSets

(***************************************************************************)
(* HarvestCircleAppCore.  Every call first asks whether the core is open,  *)
(* then decodes its input, then awaits the actor.                          *)
(***************************************************************************)
ContextCalls == [plain |-> {"hub_context"}, submits |-> {"initialize_hub"}]

InventoryCalls ==
  [plain |-> {"hub_stock", "hub_group", "hub_lineage", "hub_treatment", "hub_treatment_history",
              "hub_trace_page", "hub_trace_snapshot", "hub_trace_history", "hub_local_output"},
   submits |-> {}]

DispatchCalls ==
  [plain |-> {"hub_departure_review", "hub_departure_operation", "hub_dispatch_page",
              "hub_dispatch_record", "hub_dispatch_operation", "hub_work", "hub_discrepancies"},
   submits |-> {"apply_hub_departure", "apply_hub_dispatch"}]

HandlingCalls ==
  [plain |-> {"hub_handling_operation", "hub_return_operation", "hub_disposition_operation"},
   submits |-> {"apply_hub_handling", "record_hub_opening", "apply_hub_return", "apply_hub_disposition"}]

ActualCalls ==
  [plain |-> {"hub_actual_departure_preview", "hub_actual_link_preview", "hub_actual_report_operation",
              "hub_actual_review_operation", "hub_actual_reports"},
   submits |-> {"report_hub_actual", "reconcile_hub_actual", "link_hub_actual"}]

CountCalls ==
  [plain |-> {"hub_opening_operation", "hub_count_observation_operation", "hub_count_post_operation",
              "hub_count_review"},
   submits |-> {"observe_hub_count", "post_hub_count"}]

RecordCalls ==
  [plain |-> {"hub_receipt_operation", "hub_references", "hub_reference_operation",
              "hub_reference_history"},
   submits |-> {"receive_hub_stock", "apply_hub_reference"}]

RecoveryCalls ==
  [plain |-> {"bootstrap", "begin_generated_identity", "cancel_generated_identity"},
   submits |-> {"acknowledge_generated_identity", "import_identity"}]

SessionCalls ==
  [plain |-> {"select_identity", "activate_identity", "sign_out", "refresh_active_profile",
              "request_identity_removal"},
   submits |-> {"confirm_identity_removal"}]

Surface ==
  {ContextCalls, InventoryCalls, DispatchCalls, HandlingCalls, ActualCalls, CountCalls, RecordCalls,
   RecoveryCalls, SessionCalls}

\* Calls that bring an expected revision.
Submits == UNION {s.submits : s \in Surface}

CallNames == Submits \cup UNION {s.plain : s \in Surface}
-----------------------------------------------------------------------------
(***************************************************************************)
(* The hub commands of the runtime, by the enum that carries them.         *)
(***************************************************************************)
StockMutations == {"receive_hub_stock", "record_hub_opening"}
StockCommands == StockMutations \cup {"hub_stock", "hub_receipt_operation", "hub_opening_operation"}

CountMutations == {"observe_hub_count", "post_hub_count"}
CountCommands ==
  CountMutations \cup {"hub_count_observation_operation", "hub_count_post_operation", "hub_count_review"}

ActualMutations == {"report_hub_actual", "reconcile_hub_actual", "link_hub_actual"}
ActualCommands ==
  ActualMutations \cup {"hub_actual_departure_preview", "hub_actual_link_preview",
    "hub_actual_report_operation", "hub_actual_review_operation", "hub_actual_reports"}

ReferenceMutations == {"apply_hub_reference"}
ReferenceCommands ==
  ReferenceMutations \cup {"hub_references", "hub_reference_operation", "hub_reference_history"}

TraceCommands == {"hub_trace_page", "hub_trace_snapshot", "hub_trace_history", "hub_local_output"}
CustodyCommands ==
  {"apply_hub_return", "hub_return_operation", "apply_hub_disposition", "hub_disposition_operation"}
DispatchCommands ==
  {"hub_dispatch_page", "hub_dispatch_record", "hub_dispatch_operation", "apply_hub_dispatch",
   "hub_departure_operation", "apply_hub_departure", "hub_departure_review"}

HandlingMutations ==
  {"apply_hub_handling", "apply_hub_dispatch", "apply_hub_departure", "apply_hub_return",
   "apply_hub_disposition"}
HandlingCommands ==
  TraceCommands \cup CustodyCommands \cup DispatchCommands
    \cup {"apply_hub_handling", "hub_treatment", "hub_treatment_history", "hub_lineage", "hub_group",
          "hub_work", "hub_discrepancies", "hub_handling_operation"}

HubCommands ==
  {"hub_context", "initialize_hub"} \cup StockCommands \cup CountCommands \cup ActualCommands
    \cup ReferenceCommands \cup HandlingCommands

RecoveryCommands ==
  {"begin_generated_identity", "acknowledge_generated_identity", "cancel_generated_identity",
   "import_identity"}
SessionCommands ==
  {"select_identity", "activate_identity", "sign_out", "refresh_active_profile",
   "request_identity_removal", "confirm_identity_removal"}

\* is_hub_mutation
HubMutations ==
  {"initialize_hub"} \cup StockMutations \cup CountMutations \cup ActualMutations
    \cup ReferenceMutations \cup HandlingMutations

\* Every call has its command, and the hub calls that bring an expected revision are the hub mutations.
ASSUME SurfaceAssumption ==
  /\ CallNames = HubCommands \cup RecoveryCommands \cup SessionCommands \cup {"bootstrap"}
  /\ Submits \cap HubCommands = HubMutations

\* resolves_revision_through_durable_replay
ReplaysRevision == {"import_identity"}

ChangesSession == {"activate_identity", "sign_out", "confirm_identity_removal"}

\* RuntimeCommand::class
Class(c) ==
  CASE c \in HubMutations \cup {"hub_departure_review"} -> "use_credential"
    [] c \in HubCommands \ (HubMutations \cup {"hub_departure_review"}) -> "observe"
    [] c \in {"bootstrap", "subscribe", "unsubscribe"} -> "observe"
    [] c = "refresh_active_profile" -> "use_relay"
    [] c \in {"select_identity", "sign_out", "request_identity_removal", "cancel_generated_identity"} ->
         "mutate_local_state"
    [] c \in {"begin_generated_identity", "acknowledge_generated_identity", "import_identity",
              "activate_identity", "confirm_identity_removal"} -> "use_credential"
    [] c = "close" -> "shutdown"

\* What is still accepted while a generated key waits for its acknowledgement.
RecoveryRoute ==
  {"bootstrap", "acknowledge_generated_identity", "cancel_generated_identity", "subscribe",
   "unsubscribe", "close"}
-----------------------------------------------------------------------------
(***************************************************************************)
(* LifecycleGate.  The opening stages are passed before the actor is       *)
(* published; nothing degrades or blocks a running one.                    *)
(***************************************************************************)
OpeningStages == <<"opening", "compatibility_checking", "acquiring_ownership", "migrating", "recovering",
                   "ready">>

Allows(state, class) ==
  CASE state \in {"opening", "compatibility_checking", "acquiring_ownership", "migrating", "recovering"} ->
         class \in {"observe", "shutdown"}
    [] state = "ready" -> class # "retry_opening"
    [] state = "degraded" -> class \notin {"use_relay", "retry_opening"}
    [] state = "blocked" -> class \in {"observe", "retry_opening", "shutdown"}
    [] state = "shutting_down" -> class = "observe"
    [] state = "fatal" -> class = "shutdown"
    [] state = "closed" -> FALSE

MayShutDown(state) == state \notin {"shutting_down", "closed"}
-----------------------------------------------------------------------------
(***************************************************************************)
(* What executing a hub command may come to.  A refusal is an answer of    *)
(* the store and left nothing behind.  A loss is a deadline that dropped   *)
(* the work, or a store that could not say: the effect may be there.       *)
(***************************************************************************)
Done == [result |-> "completed", effect |-> TRUE]
Shown == [result |-> "completed", effect |-> FALSE]
Refused == [result |-> "failed", effect |-> FALSE]
Lost(effect) == [result |-> "lost", effect |-> effect]

\* hub_authority::submit: credential proof first, then the one durable submission.
Submitted == {Done, Refused, Lost(FALSE), Lost(TRUE)}
ReadBack == {Shown, Refused, Lost(FALSE)}
\* require_owner_credential before a review that stores nothing.
Reviewed == ReadBack

ExecuteHubStock(c) == IF c \in StockMutations THEN Submitted ELSE ReadBack
ExecuteHubCount(c) == IF c \in CountMutations THEN Submitted ELSE ReadBack
ExecuteHubActual(c) == IF c \in ActualMutations THEN Submitted ELSE ReadBack
ExecuteHubReference(c) == IF c \in ReferenceMutations THEN Submitted ELSE ReadBack
ExecuteHubTrace(c) == ReadBack
ExecuteHubCustody(c) ==
  IF c \in {"apply_hub_return", "apply_hub_disposition", "apply_hub_departure"} THEN Submitted ELSE ReadBack
ExecuteHubDispatch(c) == IF c = "apply_hub_dispatch" THEN Submitted ELSE ReadBack
ExecuteHubHandling(c) ==
  CASE c \in TraceCommands -> ExecuteHubTrace(c)
    [] c = "hub_departure_review" -> Reviewed
    [] c \in CustodyCommands \cup {"apply_hub_departure", "hub_departure_operation"} -> ExecuteHubCustody(c)
    [] c \in DispatchCommands \ {"hub_departure_review", "apply_hub_departure", "hub_departure_operation"} ->
         ExecuteHubDispatch(c)
    [] c = "apply_hub_handling" -> Submitted
    [] OTHER -> ReadBack

Execute(c) ==
  CASE c \in StockCommands -> ExecuteHubStock(c)
    [] c \in CountCommands -> ExecuteHubCount(c)
    [] c \in ActualCommands -> ExecuteHubActual(c)
    [] c \in ReferenceCommands -> ExecuteHubReference(c)
    [] c \in HandlingCommands -> ExecuteHubHandling(c)
    [] c = "initialize_hub" -> Submitted
    [] c = "hub_context" -> ReadBack

(***************************************************************************)
(* dispatch_with_deadline and mutation_error: what the caller is told.  Of *)
(* a hub mutation that was lost or timed out the outcome is unknown.       *)
(***************************************************************************)
Told(c, result) ==
  CASE c \in HubMutations /\ result \in {"lost", "timed_out"} -> "unknown"
    [] c \notin HubMutations /\ result = "lost" -> "failed"
    [] OTHER -> result
=============================================================================
