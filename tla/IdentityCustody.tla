-------------------------- MODULE IdentityCustody --------------------------
(***************************************************************************)
(* Local identity custody.  An identity lives in two stores that share no  *)
(* transaction: the operating-system keyring holds the credential, SQLite  *)
(* holds the registry, the selection and the durable_operations journal.   *)
(* The runtime actor adds and removes identities in journalled steps; a    *)
(* step may fail, its command may miss its deadline (the future is         *)
(* dropped) and the process may die between any two steps.  Every open     *)
(* first reconciles the unfinished operations and then publishes a         *)
(* snapshot of the registry.                                               *)
(***************************************************************************)
EXTENDS Naturals, FiniteSets

CONSTANTS
  Keys,                 \* public keys
  Requests,             \* request identifiers (UUIDv7, mostly begun in this order)
  None,                 \* the absent optional value
  UnfinishedCapacity,   \* HARVESTCIRCLE_UNFINISHED_DURABLE_OPERATION_CAPACITY
  OperationCapacity,    \* HARVESTCIRCLE_DURABLE_OPERATION_CAPACITY
  InitialAvailability,  \* the availabilities a registry is opened with
  MaxFaults             \* bound on failed calls, missed deadlines and crashes

Kinds == {"create", "import", "repair", "remove"}
Phases == {"intent_recorded", "credential_written", "metadata_committed",
           "selection_committed", "compensation_pending",
           "credential_deleted", "metadata_deleted",
           "completed", "failed"}
Terminal == {"completed", "failed"}

Operation == [kind : Kinds, key : Keys, phase : Phases,
              priorSel : Keys \cup {None},
              priorAvail : {"absent", "available", "credential_missing"}]

Task == [cmd : {"add", "remove", "activate", "select"},
         req : Requests \cup {None}, key : Keys]
Mutation == [cmd : {"add", "remove"}, req : Requests, key : Keys]

ASSUME CustodyAssumption ==
  /\ Requests \subseteq Nat \ {0}
  /\ None \notin Keys
  /\ None \notin Nat \cup Operation \cup Task
  /\ UnfinishedCapacity \in Nat
  /\ OperationCapacity \in Nat
  /\ MaxFaults \in Nat
  /\ InitialAvailability \subseteq {"available", "credential_missing"}

VARIABLES
  keyring,    \* key -> request that wrote its credential envelope, or None
  registry,   \* key -> saved metadata: "absent" or the binding availability
  selected,   \* runtime_state.selected_public_key
  journal,    \* request -> durable operation, or None
  spent,      \* requests begun so far (UUIDv7 identifiers are never reused)
  mode,       \* "closed", "recovering" or "ready"
  snapIds,    \* identities of the published snapshot
  snapSel,    \* selection of the published snapshot
  active,     \* active identity of the session
  pending,    \* target of an activation that has begun
  task,       \* the command the actor is executing
  stage,      \* steps of the current journal phase already taken
  late,       \* keyring mutation that outlived its caller
  faults,     \* faults so far
  contested,  \* history: keys with an operation begun while another was unfinished
  overlapped  \* history: requests begun while any other was unfinished

stores == <<keyring, registry, selected>>
memory == <<snapIds, snapSel, active, pending>>
history == <<spent, contested, overlapped>>
vars == <<stores, journal, mode, memory, task, stage, late, faults, history>>

\* Envelope of a credential whose receipt has already been cleaned up.
Legacy == 0

Registered == {k \in Keys : registry[k] # "absent"}
Unfinished ==
  {r \in Requests : journal[r] # None /\ journal[r].phase \notin Terminal}
Finalized == {r \in Requests : journal[r] # None} \ Unfinished
UnfinishedOn(k) == {r \in Unfinished : journal[r].key = k}

(***************************************************************************)
(* A fresh process over a settled profile: every saved identity has its    *)
(* credential unless its binding says the credential is missing.           *)
(***************************************************************************)
Init ==
  /\ registry \in [Keys -> {"absent"} \cup InitialAvailability]
  /\ keyring = [k \in Keys |-> IF registry[k] = "available" THEN Legacy ELSE None]
  /\ selected \in Registered \cup {None}
  /\ selected = None <=> Registered = {}
  /\ journal = [r \in Requests |-> None]
  /\ spent = {}
  /\ mode = "closed"
  /\ snapIds = {} /\ snapSel = None /\ active = None /\ pending = None
  /\ task = None /\ stage = 0 /\ late = None
  /\ faults = 0
  /\ contested = {} /\ overlapped = {}

-----------------------------------------------------------------------------
(* Journal and store primitives.                                           *)

\* begin_durable_operation for a request the journal does not hold.
BeginOperation(r, kind, k, priorSel, priorAvail) ==
  /\ r \notin spent
  /\ \E expired \in SUBSET Finalized :
       /\ Cardinality(Unfinished) < UnfinishedCapacity
       /\ Cardinality((Unfinished \cup Finalized) \ expired) < OperationCapacity
       /\ journal' = [q \in Requests |->
            IF q = r THEN [kind |-> kind, key |-> k, phase |-> "intent_recorded",
                           priorSel |-> priorSel, priorAvail |-> priorAvail]
            ELSE IF q \in expired THEN None ELSE journal[q]]
  /\ spent' = spent \cup {r}
  /\ contested' = IF UnfinishedOn(k) = {} THEN contested ELSE contested \cup {k}
  /\ overlapped' = overlapped \cup {q \in {r} : Unfinished # {}}

\* advance_durable_operation and finalize_durable_operation.
Advance(r, phase) == journal' = [journal EXCEPT ![r].phase = phase]

\* save_selected_identity succeeds only for a saved identity or for none.
CanSelect(k) == k = None \/ k \in Registered

\* remove_identity; ON DELETE SET NULL clears a selection of the row.
RemoveMetadata(k) ==
  /\ registry' = [registry EXCEPT ![k] = "absent"]
  /\ selected' = IF selected = k THEN None ELSE selected

\* validate_snapshot: a selection exactly when there is an identity.
ValidSnapshot(ids, sel) ==
  /\ ids = {} <=> sel = None
  /\ sel # None => sel \in ids

Idle == mode = "ready" /\ task = None

Run(cmd, r, k) == task' = [cmd |-> cmd, req |-> r, key |-> k] /\ stage' = 0

Done == task' = None /\ stage' = 0

-----------------------------------------------------------------------------
(* Commands.  The actor runs one at a time.  A stale revision, a replayed  *)
(* request and a rejected precondition change nothing and have no step.    *)

\* commit_staged_generated_key: the staged key has never been seen before.
Create(r, k) ==
  /\ Idle
  /\ registry[k] = "absent" /\ keyring[k] = None
  /\ \A q \in Requests : journal[q] # None => journal[q].key # k
  /\ BeginOperation(r, "create", k, selected, "absent")
  /\ Run("add", r, k)
  /\ UNCHANGED <<stores, mode, memory, late, faults>>

\* Import with the already-saved checks dropped (mutant of Import).
ImportUnchecked(r, k) ==
  /\ Idle /\ late = None
  /\ BeginOperation(r, "import", k, selected, registry[k])
  /\ Run("add", r, k)
  /\ UNCHANGED <<stores, mode, memory, late, faults>>

\* import_secret_key_durable: the lookup waits for the keyring worker.
Import(r, k) ==
  /\ Idle /\ late = None
  /\ registry[k] # "available" /\ keyring[k] = None
  /\ BeginOperation(r, IF registry[k] = "absent" THEN "import" ELSE "repair",
                    k, selected, registry[k])
  /\ Run("add", r, k)
  /\ UNCHANGED <<stores, mode, memory, late, faults>>

\* The published selection even when it is the removed key (mutant of Fallbacks).
FallbacksStale(k) == {snapSel}

\* The registry neighbour of the selected key; creation times decide which.
Fallbacks(k) ==
  IF snapSel # k THEN {snapSel}
  ELSE IF Registered = {k} THEN {None} ELSE Registered \ {k}

\* confirm_identity_removal_durable, up to the recorded intent and sign-out.
Remove(r, k) ==
  /\ Idle
  /\ k \in snapIds /\ k \in Registered
  /\ \E fallback \in Fallbacks(k) :
       BeginOperation(r, "remove", k, fallback, registry[k])
  /\ IF active = k THEN active' = None /\ pending' = None
                   ELSE UNCHANGED <<active, pending>>
  /\ Run("remove", r, k)
  /\ UNCHANGED <<stores, mode, snapIds, snapSel, late, faults>>

\* select_identity, up to the registry lookup.
Select(k) ==
  /\ Idle /\ k \in Registered
  /\ Run("select", None, k)
  /\ UNCHANGED <<stores, journal, mode, memory, late, faults, history>>

\* activate_identity, up to the BeginActivation transition.
Activate(k) ==
  /\ Idle /\ k \in Registered /\ k \in snapIds
  /\ pending = None
  /\ pending' = k
  /\ Run("activate", None, k)
  /\ UNCHANGED <<stores, journal, mode, snapIds, snapSel, active, late, faults, history>>

SignOut ==
  /\ Idle /\ (active # None \/ pending # None)
  /\ active' = None /\ pending' = None
  /\ UNCHANGED <<stores, journal, mode, snapIds, snapSel, task, stage, late, faults, history>>

-----------------------------------------------------------------------------
(* Steps of the running command.  Stage 0 is the store call of the current *)
(* journal phase, stage 1 the journal update that follows it.              *)

Phase(r) == journal[r].phase
Running(cmd, s) == mode = "ready" /\ task # None /\ task.cmd = cmd /\ stage = s
AddAt(phase, s) == Running("add", s) /\ Phase(task.req) = phase
RemoveAt(phase, s) == Running("remove", s) /\ Phase(task.req) = phase

\* secrets.put is create-only; a foreign envelope is refused (see Refused).
PutCredential ==
  /\ AddAt("intent_recorded", 0) /\ late = None
  /\ keyring[task.key] \in {None, task.req}
  /\ keyring' = [keyring EXCEPT ![task.key] = task.req]
  /\ stage' = 1
  /\ UNCHANGED <<registry, selected, journal, mode, memory, task, late, faults, history>>

\* insert_identity or update_identity.
SaveMetadata ==
  /\ AddAt("credential_written", 0)
  /\ (registry[task.key] = "absent") = (journal[task.req].priorAvail = "absent")
  /\ registry' = [registry EXCEPT ![task.key] = "available"]
  /\ stage' = 1
  /\ UNCHANGED <<keyring, selected, journal, mode, memory, task, late, faults, history>>

\* secrets.delete: a missing credential is accepted only if recorded missing.
DeleteCredential ==
  /\ RemoveAt("intent_recorded", 0) /\ late = None
  /\ \/ keyring[task.key] # None
     \/ journal[task.req].priorAvail = "credential_missing"
  /\ keyring' = [keyring EXCEPT ![task.key] = None]
  /\ stage' = 1
  /\ UNCHANGED <<registry, selected, journal, mode, memory, task, late, faults, history>>

DeleteMetadata ==
  /\ RemoveAt("credential_deleted", 0)
  /\ task.key \in Registered
  /\ RemoveMetadata(task.key)
  /\ stage' = 1
  /\ UNCHANGED <<keyring, journal, mode, memory, task, late, faults, history>>

\* The selection a command saves: its own key, or the recorded fallback.
Target == IF task.cmd = "remove" THEN journal[task.req].priorSel ELSE task.key

SelectionDue ==
  \/ AddAt("metadata_committed", 0)
  \/ RemoveAt("metadata_deleted", 0)
  \/ Running("select", 0)
  \/ Running("activate", 1)

SaveSelection ==
  /\ SelectionDue /\ CanSelect(Target)
  /\ selected' = Target
  /\ stage' = stage + 1
  /\ UNCHANGED <<keyring, registry, journal, mode, memory, task, late, faults, history>>

\* The journal update after a store call of an addition or a removal.
NextPhase(kind, phase) ==
  CASE phase = "intent_recorded" ->
         IF kind = "remove" THEN "credential_deleted" ELSE "credential_written"
    [] phase = "credential_written"  -> "metadata_committed"
    [] phase = "metadata_committed"  -> "selection_committed"
    [] phase = "credential_deleted"  -> "metadata_deleted"
    [] phase = "metadata_deleted"    -> "selection_committed"
    [] phase = "selection_committed" -> "completed"

Journal ==
  /\ Running("add", 1) \/ Running("remove", 1)
  /\ Advance(task.req, NextPhase(journal[task.req].kind, Phase(task.req)))
  /\ IF Phase(task.req) = "selection_committed" THEN Done
                                                ELSE stage' = 0 /\ UNCHANGED task
  /\ UNCHANGED <<stores, mode, memory, late, faults, history>>

\* ReplaceRegistry signs out; ReplaceRegistryPreservingSession does not.
PublishRegistry ==
  /\ AddAt("selection_committed", 0) \/ RemoveAt("selection_committed", 0)
  /\ ValidSnapshot(Registered, Target)
  /\ snapIds' = Registered /\ snapSel' = Target
  /\ active' = IF task.cmd = "add" THEN None ELSE active
  /\ pending' = None
  /\ stage' = 1
  /\ UNCHANGED <<stores, journal, mode, task, late, faults, history>>

\* The Select transition, which requires the key in the snapshot.
PublishSelection ==
  /\ Running("select", 1) /\ task.key \in snapIds
  /\ snapSel' = task.key
  /\ Done
  /\ UNCHANGED <<stores, journal, mode, snapIds, active, pending, late, faults, history>>

\* secrets.load and the key check of activate_identity.
LoadCredential ==
  /\ Running("activate", 0) /\ late = None
  /\ keyring[task.key] # None
  /\ stage' = 1
  /\ UNCHANGED <<stores, journal, mode, memory, task, late, faults, history>>

ActivationSucceeded ==
  /\ Running("activate", 2)
  /\ active' = task.key /\ snapSel' = task.key /\ pending' = None
  /\ Done
  /\ UNCHANGED <<stores, journal, mode, snapIds, late, faults, history>>

\* A store call that answers with an error ends the command where it stands.
Refused ==
  /\ \/ AddAt("intent_recorded", 0) /\ late = None
        /\ keyring[task.key] \notin {None, task.req}
     \/ AddAt("credential_written", 0)
        /\ (registry[task.key] = "absent") # (journal[task.req].priorAvail = "absent")
     \/ RemoveAt("intent_recorded", 0) /\ late = None /\ keyring[task.key] = None
        /\ journal[task.req].priorAvail # "credential_missing"
     \/ RemoveAt("credential_deleted", 0) /\ task.key \notin Registered
     \/ SelectionDue /\ ~CanSelect(Target)
     \/ (AddAt("selection_committed", 0) \/ RemoveAt("selection_committed", 0))
        /\ ~ValidSnapshot(Registered, Target)
     \/ Running("select", 1) /\ task.key \notin snapIds
     \/ Running("activate", 0) /\ late = None /\ keyring[task.key] = None
  /\ pending' = IF task.cmd = "activate" THEN None ELSE pending
  /\ Done
  /\ UNCHANGED <<stores, journal, mode, snapIds, snapSel, active, late, faults, history>>

-----------------------------------------------------------------------------
(* Faults.                                                                 *)

Fault == faults < MaxFaults /\ faults' = faults + 1

\* A keyring mutation in flight: once started it outlives its caller.
InFlight ==
  IF late = None /\ (AddAt("intent_recorded", 0) \/ RemoveAt("intent_recorded", 0))
  THEN {[cmd |-> task.cmd, req |-> task.req, key |-> task.key]} ELSE {}

\* A store is unavailable, or the deadline passes and the future is dropped.
\* Only an error reaches ActivationFailed; a dropped activation stays pending.
Abandon ==
  /\ mode = "ready" /\ task # None
  /\ Fault
  /\ late' \in {late} \cup InFlight
  /\ pending' \in {pending, IF task.cmd = "activate" THEN None ELSE pending}
  /\ Done
  /\ UNCHANGED <<stores, journal, mode, snapIds, snapSel, active, history>>

\* The keyring after the mutation that outlived its caller took effect.
Landed ==
  IF late = None THEN keyring
  ELSE IF late.cmd = "remove" THEN [keyring EXCEPT ![late.key] = None]
  ELSE IF keyring[late.key] = None THEN [keyring EXCEPT ![late.key] = late.req]
  ELSE keyring

LateCompletion ==
  /\ late # None
  /\ keyring' \in {keyring, Landed}
  /\ late' = None
  /\ UNCHANGED <<registry, selected, journal, mode, memory, task, stage, faults, history>>

Halt ==
  /\ mode' = "closed"
  /\ snapIds' = {} /\ snapSel' = None /\ active' = None /\ pending' = None
  /\ Done

Crash ==
  /\ mode # "closed"
  /\ Fault /\ Halt
  /\ keyring' \in {keyring, Landed}
  /\ late' = None
  /\ UNCHANGED <<registry, selected, journal, history>>

\* An orderly close drains the actor and joins the keyring worker.
Close ==
  /\ Idle /\ late = None
  /\ Halt
  /\ UNCHANGED <<stores, journal, late, faults, history>>

-----------------------------------------------------------------------------
(* Opening: recover_durable_operations in request order, then bootstrap.   *)

Open ==
  /\ mode = "closed"
  /\ mode' = "recovering"
  /\ UNCHANGED <<stores, journal, memory, task, stage, late, faults, history>>

Current == CHOOSE r \in Unfinished : \A q \in Unfinished : r <= q

\* The operation under recovery is of one of these kinds, in this phase,
\* with s of its steps already taken.
Recovers(kinds, phase, s) ==
  /\ mode = "recovering" /\ Unfinished # {} /\ stage = s
  /\ journal[Current].kind \in kinds /\ Phase(Current) = phase

Additions == {"create", "import", "repair"}

RecoverCredential ==
  /\ \/ Recovers(Kinds, "intent_recorded", 0)
     \/ Recovers(Additions, "compensation_pending", 0)
  /\ keyring' = [keyring EXCEPT ![journal[Current].key] = None]
  /\ stage' = 1
  /\ UNCHANGED <<registry, selected, journal, mode, memory, task, late, faults, history>>

\* A removal drops the row; a compensation restores what the row said before.
RecoverMetadata ==
  LET k == journal[Current].key
      prior == journal[Current].priorAvail IN
  /\ \/ Recovers({"remove"}, "credential_deleted", 0) /\ RemoveMetadata(k)
     \/ Recovers(Additions, "compensation_pending", 1)
        /\ IF prior = "absent" THEN RemoveMetadata(k)
           ELSE /\ registry' = [registry EXCEPT ![k] = IF @ = "absent" THEN @ ELSE prior]
                /\ UNCHANGED selected
  /\ stage' = stage + 1
  /\ UNCHANGED <<keyring, journal, mode, memory, task, late, faults, history>>

\* Every recovered selection is the recorded one (mutant of RecoveryTarget).
RecoveryTargetPrior == journal[Current].priorSel

RecoveryTarget ==
  IF Phase(Current) = "metadata_committed" THEN journal[Current].key
                                           ELSE journal[Current].priorSel

RecoverySelectionDue ==
  \/ Recovers({"remove"}, "metadata_deleted", 0)
  \/ Recovers(Additions, "metadata_committed", 0)
  \/ Recovers(Additions, "compensation_pending", 2)

RecoverSelection ==
  /\ RecoverySelectionDue /\ CanSelect(RecoveryTarget)
  /\ selected' = RecoveryTarget
  /\ stage' = stage + 1
  /\ UNCHANGED <<keyring, registry, journal, mode, memory, task, late, faults, history>>

RecoverySteps(kind, phase) ==
  CASE phase = "compensation_pending" -> 3
    [] phase \in {"intent_recorded", "metadata_committed", "metadata_deleted"} -> 1
    [] phase = "credential_deleted" -> IF kind = "remove" THEN 1 ELSE 0
    [] OTHER -> 0

\* An uncommitted addition fails without its compensation (mutant of
\* RecoveryPhase).
RecoveryPhaseUncompensated(kind, phase, committed) ==
  IF kind = "remove" THEN NextPhase(kind, phase)
  ELSE CASE phase = "credential_written" /\ committed -> "metadata_committed"
         [] phase = "metadata_committed"   -> "selection_committed"
         [] phase = "selection_committed"  -> "completed"
         [] OTHER                          -> "failed"

RecoveryPhase(kind, phase, committed) ==
  IF kind = "remove" THEN NextPhase(kind, phase)
  ELSE CASE phase = "intent_recorded"      -> "failed"
         [] phase = "credential_written"   ->
              IF committed THEN "metadata_committed" ELSE "compensation_pending"
         [] phase = "metadata_committed"   -> "selection_committed"
         [] phase = "selection_committed"  -> "completed"
         [] phase = "compensation_pending" -> "credential_deleted"
         [] OTHER                          -> "failed"

RecoverJournal ==
  LET op == journal[Current] IN
  /\ mode = "recovering" /\ Unfinished # {}
  /\ stage = RecoverySteps(op.kind, op.phase)
  /\ Advance(Current, RecoveryPhase(op.kind, op.phase, registry[op.key] = "available"))
  /\ stage' = 0
  /\ UNCHANGED <<stores, mode, memory, task, late, faults, history>>

\* bootstrap_from: publish the registry, or fail the open.
Bootstrap ==
  /\ mode = "recovering" /\ Unfinished = {}
  /\ IF ValidSnapshot(Registered, selected)
     THEN /\ mode' = "ready" /\ snapIds' = Registered /\ snapSel' = selected
          /\ UNCHANGED <<active, pending, task, stage>>
     ELSE Halt
  /\ UNCHANGED <<stores, journal, late, faults, history>>

\* The first error of a recovery fails the open: the selection to restore is
\* gone, or (counted as a fault) a store is unavailable.
RecoveryFails ==
  /\ mode = "recovering"
  /\ \/ RecoverySelectionDue /\ ~CanSelect(RecoveryTarget) /\ UNCHANGED faults
     \/ Fault
  /\ Halt
  /\ UNCHANGED <<stores, journal, late, history>>

-----------------------------------------------------------------------------
Command ==
  \/ \E r \in Requests, k \in Keys : Create(r, k) \/ Import(r, k) \/ Remove(r, k)
  \/ \E k \in Keys : Select(k) \/ Activate(k)
  \/ SignOut

CommandStep ==
  \/ PutCredential \/ SaveMetadata \/ DeleteCredential \/ DeleteMetadata
  \/ SaveSelection \/ Journal \/ PublishRegistry \/ PublishSelection
  \/ LoadCredential \/ ActivationSucceeded \/ Refused

Recovery ==
  \/ RecoverCredential \/ RecoverMetadata \/ RecoverSelection \/ RecoverJournal
  \/ Bootstrap \/ RecoveryFails

Next ==
  \/ Command \/ CommandStep \/ Recovery
  \/ Abandon \/ LateCompletion \/ Crash \/ Close \/ Open

Spec == Init /\ [][Next]_vars

\* The actor and the keyring worker keep running, and a closed application
\* is opened again.
Fairness == WF_vars(CommandStep) /\ WF_vars(LateCompletion)
            /\ WF_vars(Recovery) /\ WF_vars(Open)

FairSpec == Spec /\ Fairness

-----------------------------------------------------------------------------
\* Every stored operation is in a phase its CHECK constraint admits, a keyring
\* entry names a request (or predates the journal), and only an addition's or
\* a removal's keyring mutation can outlive its caller.
TypeOK ==
  /\ keyring \in [Keys -> Requests \cup {Legacy, None}]
  /\ registry \in [Keys -> {"absent", "available", "credential_missing"}]
  /\ selected \in Keys \cup {None}
  /\ journal \in [Requests -> Operation \cup {None}]
  /\ spent \subseteq Requests
  /\ mode \in {"closed", "recovering", "ready"}
  /\ snapIds \subseteq Keys /\ snapSel \in Keys \cup {None}
  /\ active \in Keys \cup {None} /\ pending \in Keys \cup {None}
  /\ task \in Task \cup {None}
  /\ stage \in 0..3
  /\ late \in Mutation \cup {None}
  /\ faults \in 0..MaxFaults
  /\ contested \subseteq Keys /\ overlapped \subseteq Requests

\* A key whose operations never overlapped and are all finished is saved as
\* available exactly when its credential is in the keyring: no crash, failed
\* call or dropped deadline between the keyring write and the SQLite commit
\* leaks a credential or strands a registry row.
CustodyAgrees ==
  \A k \in Keys \ contested :
    UnfinishedOn(k) = {} => (registry[k] = "available" <=> keyring[k] # None)

\* The active session always has a saved identity with a credential, also
\* while an abandoned removal's keyring deletion is still in flight.
ActiveHasCredential ==
  active # None => active \in Registered /\ keyring[active] # None

\* Only the removal of its identity takes away the credential of a finished
\* addition: neither recovery of another request nor a compensation does,
\* unless the key's operations overlapped.
OnlyRemovalDeletes ==
  [][\A k \in Keys \ contested' :
       keyring[k] # None /\ keyring[k] \notin Unfinished /\ keyring'[k] = None
         => \E r \in Unfinished : journal[r].key = k /\ journal[r].kind = "remove"]_vars

\* Recovery of an addition deletes only the credential its own request wrote
\* (the envelope names the request).
RecoveryRespectsEnvelope ==
  [][\A k \in Keys :
       mode = "recovering" /\ Unfinished # {} /\ journal[Current].kind \in Additions
       /\ keyring[k] # None /\ keyring'[k] = None => keyring[k] = Current]_vars

\* Once every operation is reconciled, the registry and the selection form a
\* snapshot that bootstrap accepts, if operations were never abandoned side by
\* side: each recorded the selection the others had left.
ReconciledStateRestores ==
  mode = "recovering" /\ Unfinished = {} /\ overlapped = {}
    => ValidSnapshot(Registered, selected)

\* A closed application that keeps being opened becomes ready: recovery never
\* retries the same failing step for ever once the stores stop failing.
RecoveryCompletes == mode = "closed" ~> mode = "ready"

\* The same as long as operations were never abandoned side by side.
SerialRecoveryCompletes == mode = "closed" ~> (mode = "ready" \/ overlapped # {})

-----------------------------------------------------------------------------
(* The inductive invariant behind CustodyAgrees and ActiveHasCredential.   *)

AddPhases == {"intent_recorded", "credential_written", "metadata_committed",
              "selection_committed"}
UndoPhases == {"compensation_pending", "credential_deleted", "completed", "failed"}
RemovePhases == {"intent_recorded", "credential_deleted", "metadata_deleted",
                 "selection_committed", "completed"}

\* Removals never compensate; they only go forward.  Additions never delete
\* metadata but in a compensation.
PhasesFit ==
  \A r \in Requests : journal[r] # None =>
    journal[r].phase \in IF journal[r].kind = "remove" THEN RemovePhases
                                                       ELSE AddPhases \cup UndoPhases

\* The journal stays within what list_unfinished_durable_operations accepts,
\* and holds no request that was not begun.
JournalFits ==
  /\ IsFiniteSet(Unfinished \cup Finalized)
  /\ Cardinality(Unfinished) <= UnfinishedCapacity
  /\ Cardinality(Unfinished \cup Finalized) <= OperationCapacity
  /\ Unfinished \cup Finalized \subseteq spent

\* The running addition or removal owns an unfinished operation on its key.
TaskFits ==
  /\ task # None => mode = "ready"
  /\ task # None /\ task.cmd \in {"add", "remove"} =>
       /\ task.req \in Unfinished
       /\ journal[task.req].key = task.key
       /\ journal[task.req].kind = "remove" <=> task.cmd = "remove"
       /\ task.cmd = "add" => journal[task.req].phase \in AddPhases
       /\ stage \in {0, 1}
  /\ task # None /\ task.cmd \in {"select", "activate"} => task.req = None

\* A mutation that outlived its caller belongs to an abandoned intent.
LateFits ==
  late # None =>
    /\ mode = "ready"
    /\ late.req \in Unfinished
    /\ journal[late.req].key = late.key
    /\ journal[late.req].phase = "intent_recorded"
    /\ journal[late.req].kind = "remove" <=> late.cmd = "remove"
    /\ task # None => task.req # late.req

RecoveryFits ==
  /\ mode = "recovering" /\ Unfinished # {} =>
       stage <= RecoverySteps(journal[Current].kind, journal[Current].phase)
  /\ mode = "recovering" /\ Unfinished = {} => stage = 0
  /\ mode # "recovering" /\ task = None => stage = 0

\* Steps of operation r's current phase taken by its command or by recovery.
CommandStage(r) == IF task # None /\ task.req = r THEN stage ELSE 0
RecoveryStage(r) == IF mode = "recovering" /\ r = Current THEN stage ELSE 0

\* What the two stores may hold for the key of an unfinished addition ...
AdditionAgrees(r) ==
  LET op == journal[r] IN LET k == op.key IN
  /\ op.priorAvail # "available"
  /\ keyring[k] \in {None, r}
  /\ op.phase \in {"intent_recorded", "compensation_pending", "credential_deleted"}
       => registry[k] = op.priorAvail
  /\ op.phase = "credential_written"
       => registry[k] \in {op.priorAvail, "available"}
  /\ op.phase = "credential_written" /\ CommandStage(r) = 1
       => registry[k] = "available"
  /\ op.phase \in {"metadata_committed", "selection_committed"}
       => registry[k] = "available"
  /\ op.phase \in {"credential_written", "metadata_committed", "selection_committed"}
       => keyring[k] # None
  /\ op.phase = "intent_recorded" /\ CommandStage(r) = 1 => keyring[k] # None
  /\ RecoveryStage(r) > 0 /\ op.phase \in {"intent_recorded", "compensation_pending"}
       => keyring[k] = None
  /\ op.phase = "credential_deleted" => keyring[k] = None

\* ... and of an unfinished removal.
RemovalAgrees(r) ==
  LET op == journal[r] IN LET k == op.key IN
  /\ op.phase = "intent_recorded" /\ CommandStage(r) + RecoveryStage(r) > 0
       => keyring[k] = None
  /\ op.phase # "intent_recorded" => keyring[k] = None
  /\ op.phase = "credential_deleted" /\ CommandStage(r) + RecoveryStage(r) > 0
       => registry[k] = "absent"
  /\ op.phase \in {"metadata_deleted", "selection_committed"}
       => registry[k] = "absent"

OperationAgrees(r) ==
  IF journal[r].kind = "remove" THEN RemovalAgrees(r) ELSE AdditionAgrees(r)

UncontestedAgrees ==
  \A k \in Keys \ contested :
    \A r \in UnfinishedOn(k) :
      UnfinishedOn(k) = {r} /\ OperationAgrees(r)

\* Nothing that is running or in flight can take an active credential away.
SessionFits ==
  /\ active # None => /\ mode = "ready"
                      /\ task # None /\ task.cmd = "remove" => task.key # active
                      /\ late # None /\ late.cmd = "remove" => late.key # active
  /\ task # None /\ task.cmd = "activate" => task.key \in Registered
  /\ task # None /\ task.cmd = "activate" /\ stage > 0
       => late = None /\ keyring[task.key] # None

\* The two stores are, at every step of every operation, where its journalled
\* phase says: what recovery relies on when it resumes from the phase alone.  So
\* keyring and registry agree on every key that nothing unfinished touches, and
\* the active identity has its credential, whatever was abandoned or crashed.
CustodyInv ==
  /\ TypeOK /\ PhasesFit /\ JournalFits /\ TaskFits /\ LateFits /\ RecoveryFits
  /\ UncontestedAgrees /\ CustodyAgrees
  /\ SessionFits /\ ActiveHasCredential

-----------------------------------------------------------------------------
(* The inductive invariant behind ReconciledStateRestores.                 *)

\* The identities saved before operation r began, or left once it is done.
SettledWithout(r) ==
  IF journal[r].kind \in Additions /\ journal[r].priorAvail # "absent"
  THEN Registered ELSE Registered \ {journal[r].key}

\* The selection recorded for r is one to come back to.  The saved selection
\* fits the saved identities as long as an addition has not changed them, and
\* from the step that saves it on.
SelectionAgrees(r) ==
  LET op == journal[r] IN
  /\ ValidSnapshot(SettledWithout(r), op.priorSel)
  /\ \/ op.kind \in Additions /\ registry[op.key] = op.priorAvail
     \/ op.phase = "selection_committed"
     \/ op.phase \in {"metadata_committed", "metadata_deleted"}
        /\ CommandStage(r) + RecoveryStage(r) > 0
     => ValidSnapshot(Registered, selected)

\* What the running process shows of the registry once nothing is unfinished.
SnapshotFits == snapIds = Registered /\ ValidSnapshot(snapIds, snapSel)

\* Operations that never overlapped keep, one at a time, a saved selection.
RestoreInv ==
  /\ selected # None => selected \in Registered
  /\ overlapped = {} =>
       /\ contested = {}
       /\ \A q, r \in Unfinished : q = r
       /\ \A r \in Unfinished : SelectionAgrees(r)
       /\ Unfinished = {} => ValidSnapshot(Registered, selected)
       /\ mode = "ready" /\ Unfinished = {} => SnapshotFits
       /\ task # None /\ task.cmd \in {"add", "remove"} /\ stage = 1
            /\ Phase(task.req) = "selection_committed" => SnapshotFits
=============================================================================
