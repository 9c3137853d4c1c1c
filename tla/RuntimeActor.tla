---------------------------- MODULE RuntimeActor ----------------------------
(***************************************************************************)
(* The boundary in front of the runtime: calls submit commands to a        *)
(* bounded mailbox, one actor takes them in order, and each caller waits   *)
(* for its own answer, gives up at its deadline or is dropped.  A command  *)
(* that was queued when its caller left is still in the mailbox.           *)
(*                                                                         *)
(* A ticket is one command on its way: a call of the interface, or one of  *)
(* the commands that observers and shutdown submit.  Observers and         *)
(* shutdown themselves are in ObserverRegistry.                            *)
(***************************************************************************)
EXTENDS RuntimeCommands, Integers, Sequences, Functions

CONSTANTS
  Calls,        \* calls of the interface, each one future
  Observers,    \* subscriptions to changes
  Shutdowns,    \* calls of shutdown_v2
  Capacity,     \* of the mailbox
  MaxTasks,     \* outstanding profile refreshes
  Plans,        \* what each run of the application does with its calls
  None

ASSUME LimitsAssumption == Capacity \in Nat \ {0} /\ MaxTasks \in Nat \ {0}

VARIABLES
  plan,         \* the names of the calls, who observes, who shuts down; whether deadlines pass and
                \* futures are dropped
  closeState,   \* close_state: 0 open, 1 closing, 2 closed
  ask,          \* where each ticket's caller is
  late,         \* tickets whose deadline has passed
  sent,         \* what each ticket carries
  mailbox,      \* tickets in order
  running,      \* the ticket being executed
  lifecycle,
  exited,       \* the actor's loop is over
  revision, generation, active,
  stage,        \* the generated key waiting for its acknowledgement
  tasks,        \* outstanding profile refreshes
  subs,         \* observers subscribed at the actor
  begun,        \* tickets that passed the checks before execution
  effects       \* hub mutations that took effect, and under what

actorVars == <<plan, closeState, ask, late, sent, mailbox, running, lifecycle, exited, revision, generation,
               active, stage, tasks, subs, begun, effects>>

ObserverCommands ==
  [subscribe |-> "subscribe", withdraw |-> "unsubscribe", leave |-> "unsubscribe",
   unsubscribe |-> "unsubscribe"]

Tickets == Calls \cup (Observers \X DOMAIN ObserverCommands) \cup (Shutdowns \X {"close"})

Cmd(t) ==
  CASE t \in Calls -> plan.names[t]
    [] t \in Shutdowns \X {"close"} -> "close"
    [] OTHER -> ObserverCommands[t[2]]

(***************************************************************************)
(* A ticket tells who submitted it, and a plan names calls of the          *)
(* interface only.                                                         *)
(***************************************************************************)
ASSUME TicketsAssumption ==
  /\ None \notin Nat \cup Tickets \cup Observers \cup Shutdowns
  /\ Observers \cap Shutdowns = {}
  /\ Calls \cap ((Observers \X DOMAIN ObserverCommands) \cup (Shutdowns \X {"close"})) = {}
  /\ \A p \in Plans :
       /\ DOMAIN p.names \subseteq Calls /\ \A c \in DOMAIN p.names : p.names[c] \in CallNames
       /\ p.active \in BOOLEAN /\ p.observers \subseteq Observers /\ p.unsubscribes \subseteq Observers
       /\ p.shutdowns \subseteq Shutdowns

Answers ==
  {"completed", "failed", "unknown", "timed_out", "rejected", "closed", "conflicted", "unavailable",
   "recovery_route", "invalid"}

Queued(t) == \E i \in DOMAIN mailbox : mailbox[i] = t
Answered(t) == ask[t] \in Answers
-----------------------------------------------------------------------------
\* LifecycleGate passes its opening stages in order before the handle is published.
ActorInit ==
  /\ plan \in Plans
  /\ closeState = 0
  /\ ask = [t \in Tickets |-> "idle"]
  /\ late = {} /\ sent = [t \in Tickets |-> None]
  /\ mailbox = <<>> /\ running = None
  /\ lifecycle = OpeningStages[Len(OpeningStages)] /\ exited = FALSE
  /\ revision = 0 /\ generation = 1 /\ active = plan.active
  /\ stage = None /\ tasks = {} /\ subs = {}
  /\ begun = {} /\ effects = {}

(***************************************************************************)
(* ActorMailbox::submit: a full mailbox rejects at once; an actor that has *)
(* left closes it.                                                         *)
(***************************************************************************)
Envelope(t, of) ==
  [of |-> of, generation |-> generation,
   expected |-> IF Cmd(t) \in Submits THEN revision ELSE None]

Submit(t, of) ==
  /\ ask[t] = "idle"
  /\ sent' = [sent EXCEPT ![t] = Envelope(t, of)]
  /\ ask' = [ask EXCEPT ![t] =
       IF exited THEN "closed" ELSE IF Len(mailbox) >= Capacity THEN "rejected" ELSE "waiting"]
  /\ mailbox' = IF ask'[t] = "waiting" THEN Append(mailbox, t) ELSE mailbox

(***************************************************************************)
(* GeneratedRecoveryRequest.resolution of the request a begin returned.    *)
(* Whoever moves it from pending resolves it, once, whatever the answer.   *)
(***************************************************************************)
Resolvers(b) == {c \in Calls : sent[c] # None /\ sent[c].of = b}

Resolution(b) ==
  CASE ask[b] # "completed" -> "none"
    [] ask[b] = "completed" /\ Resolvers(b) = {} -> "pending"
    [] ask[b] = "completed" /\ \E c \in Resolvers(b) : Answered(c) -> "resolved"
    [] OTHER -> "resolving"

Begins == {b \in DOMAIN plan.names : plan.names[b] = "begin_generated_identity"}
Resolving == {"acknowledge_generated_identity", "cancel_generated_identity"}

\* A call of the interface, up to the await of its answer.
Call(c) ==
  /\ c \in DOMAIN plan.names /\ ask[c] = "idle"
  /\ \/ /\ closeState # 0
        /\ ask' = [ask EXCEPT ![c] = "closed"] /\ UNCHANGED <<sent, mailbox>>
     \/ /\ closeState = 0 /\ Cmd(c) \in Submits
        /\ ask' = [ask EXCEPT ![c] = "invalid"] /\ UNCHANGED <<sent, mailbox>>
     \/ /\ closeState = 0 /\ Cmd(c) \notin Resolving /\ Submit(c, None)
     \/ /\ closeState = 0 /\ Cmd(c) \in Resolving
        /\ \E b \in Begins : Resolution(b) = "pending" /\ Submit(c, b)
     \/ /\ closeState = 0 /\ Cmd(c) \in Resolving
        /\ \E b \in Begins : Resolution(b) \in {"resolving", "resolved"}
        /\ ask' = [ask EXCEPT ![c] = "invalid"] /\ UNCHANGED <<sent, mailbox>>
  /\ UNCHANGED <<plan, closeState, late, running, lifecycle, exited, revision, generation, active, stage,
                 tasks, subs, begun, effects>>

Expire(t) ==
  /\ plan.hasty /\ ask[t] = "waiting" /\ t \notin late
  /\ late' = late \cup {t}
  /\ UNCHANGED <<plan, closeState, ask, sent, mailbox, running, lifecycle, exited, revision, generation,
                 active, stage, tasks, subs, begun, effects>>

\* dispatch_with_deadline stops waiting for the receipt.
TimeOut(t) ==
  /\ ask[t] = "waiting" /\ t \in late
  /\ ask' = [ask EXCEPT ![t] = Told(Cmd(t), "timed_out")]
  /\ UNCHANGED <<plan, closeState, late, sent, mailbox, running, lifecycle, exited, revision, generation,
                 active, stage, tasks, subs, begun, effects>>

\* The caller's future is dropped; the command stays where it is.
Abandon(c) ==
  /\ plan.drops /\ ask[c] = "waiting"
  /\ ask' = [ask EXCEPT ![c] = "gone"]
  /\ UNCHANGED <<plan, closeState, late, sent, mailbox, running, lifecycle, exited, revision, generation,
                 active, stage, tasks, subs, begun, effects>>
-----------------------------------------------------------------------------
\* CommandEnvelope replies: only a caller that still waits hears its receipt.
Reply(receipts) ==
  ask' = [t \in Tickets |->
    IF t \in DOMAIN receipts /\ ask[t] = "waiting" THEN Told(Cmd(t), receipts[t]) ELSE ask[t]]

Receipt(t, result) == [u \in {t} |-> result]

\* Mutant of Preflight.
PreflightUnhurried(t) ==
  IF ~Allows(lifecycle, Class(Cmd(t))) THEN "unavailable"
  ELSE IF stage # None /\ Cmd(t) \notin RecoveryRoute THEN "recovery_route"
  ELSE IF Cmd(t) \notin ReplaysRevision /\ sent[t].expected \notin {None, revision} THEN "conflicted"
  ELSE "pass"

Preflight(t) ==
  IF t \in late THEN "timed_out"
  ELSE IF lifecycle = "closed" THEN "closed"
  ELSE IF ~Allows(lifecycle, Class(Cmd(t))) THEN "unavailable"
  ELSE IF stage # None /\ Cmd(t) \notin RecoveryRoute THEN "recovery_route"
  ELSE IF Cmd(t) \notin ReplaysRevision /\ sent[t].expected \notin {None, revision} THEN "conflicted"
  ELSE "pass"

\* How far a command that failed or was dropped got with the snapshot, RuntimeSession says in detail.
MayMove == revision' \in {revision, revision + 1}

\* publish_snapshot drops the subscribers whose receiver is gone.
Publish(live) == subs' = subs \cap live

\* start_profile_task
StartRefresh(t, live) ==
  \/ /\ Reply(Receipt(t, IF active THEN "failed" ELSE "completed"))
     /\ UNCHANGED <<tasks, revision, subs>>
  \/ /\ active /\ Cardinality(tasks) < MaxTasks
     /\ tasks' = tasks \cup {t} /\ revision' = revision + 1
     /\ Publish(live) /\ UNCHANGED ask

\* run and handle_command up to the execution.
Take(live) ==
  LET t == Head(mailbox) IN
  /\ ~exited /\ lifecycle # "closed" /\ running = None /\ mailbox # <<>>
  /\ mailbox' = Tail(mailbox)
  /\ \/ /\ Cmd(t) = "subscribe" /\ ask[t] # "waiting"
        /\ UNCHANGED <<ask, running, tasks, revision, subs, begun>>
     \/ /\ ~(Cmd(t) = "subscribe" /\ ask[t] # "waiting")
        /\ Preflight(t) # "pass" /\ Reply(Receipt(t, Preflight(t)))
        /\ UNCHANGED <<running, tasks, revision, subs, begun>>
     \/ /\ ~(Cmd(t) = "subscribe" /\ ask[t] # "waiting")
        /\ Preflight(t) = "pass" /\ Cmd(t) = "refresh_active_profile"
        /\ StartRefresh(t, live) /\ begun' = begun \cup {t} /\ UNCHANGED running
     \/ /\ ~(Cmd(t) = "subscribe" /\ ask[t] # "waiting")
        /\ Preflight(t) = "pass" /\ Cmd(t) # "refresh_active_profile"
        /\ running' = t /\ begun' = begun \cup {t}
        /\ UNCHANGED <<ask, tasks, revision, subs>>
  /\ UNCHANGED <<plan, closeState, late, sent, lifecycle, exited, generation, active, stage, effects>>

\* complete_profile_task: an answer of the relay, or the deadline, settles the refresh.
CompleteRefresh(t, live) ==
  /\ ~exited /\ running = None /\ t \in tasks
  /\ tasks' = tasks \ {t} /\ MayMove
  /\ \/ t \notin late /\ Reply(Receipt(t, "completed"))
     \/ Reply(Receipt(t, "failed"))
  /\ Publish(live)
  /\ UNCHANGED <<plan, closeState, late, sent, mailbox, running, lifecycle, exited, generation, active,
                 stage, begun, effects>>

\* cancel_profile_tasks settles the outstanding refreshes along with the command.
WithRefreshes(t, result, cancelled) ==
  [u \in tasks \cup {t} |-> IF u = t THEN result ELSE cancelled]
-----------------------------------------------------------------------------
(***************************************************************************)
(* execute_command and the rest of handle_command, for each command.       *)
(***************************************************************************)
\* hub_actor: the session the command was called in is still the session.
HubActor(t) == active /\ sent[t].generation = generation

\* Mutant of FinishHub.
FinishHubAnySession(t, live) ==
  /\ Cmd(t) \in HubCommands
  /\ \E o \in Execute(Cmd(t)) :
       /\ Reply(Receipt(t, o.result))
       /\ effects' = IF o.effect THEN effects \cup {[call |-> t, generation |-> generation, revision |-> revision]}
                                 ELSE effects
  /\ Publish(live)
  /\ UNCHANGED <<lifecycle, revision, generation, active, stage, tasks>>

FinishHub(t, live) ==
  /\ Cmd(t) \in HubCommands
  /\ \E o \in IF HubActor(t) THEN Execute(Cmd(t)) ELSE {Refused} :
       /\ Reply(Receipt(t, o.result))
       /\ effects' = IF o.effect THEN effects \cup {[call |-> t, generation |-> generation, revision |-> revision]}
                                 ELSE effects
  /\ Publish(live)
  /\ UNCHANGED <<lifecycle, revision, generation, active, stage, tasks>>

\* Commands that stay within the session, or sign out without a new one as an import does.
FinishLocal(t, live) ==
  /\ Cmd(t) \in {"bootstrap", "import_identity", "select_identity", "request_identity_removal"}
  /\ \/ /\ Reply(Receipt(t, "completed"))
        /\ revision' = IF Cmd(t) \in {"import_identity", "select_identity"} THEN revision + 1 ELSE revision
        /\ active' = (active /\ Cmd(t) # "import_identity")
     \/ /\ Cmd(t) # "bootstrap" /\ Reply(Receipt(t, "failed"))
        /\ IF Cmd(t) = "import_identity" THEN MayMove ELSE UNCHANGED revision
        /\ UNCHANGED active
  /\ Publish(live)
  /\ UNCHANGED <<lifecycle, generation, stage, tasks, effects>>

\* A completed session change advances the generation, and closes the runtime for good when it cannot.
FinishSession(t, live) ==
  /\ Cmd(t) \in ChangesSession
  /\ \/ /\ Reply(WithRefreshes(t, "completed", "completed"))
        /\ active' \in CASE Cmd(t) = "activate_identity" -> {TRUE}
                         [] Cmd(t) = "sign_out" -> {FALSE}
                         [] Cmd(t) = "confirm_identity_removal" -> {active, FALSE}
        /\ generation' = generation + 1 /\ tasks' = {} /\ MayMove
        /\ UNCHANGED lifecycle
     \/ /\ Reply(WithRefreshes(t, "failed", "closed"))
        /\ lifecycle' = "fatal" /\ active' = FALSE /\ tasks' = {} /\ MayMove
        /\ UNCHANGED generation
     \/ /\ Cmd(t) # "sign_out" /\ Reply(Receipt(t, "failed"))
        /\ active' \in {active, FALSE} /\ MayMove
        /\ UNCHANGED <<lifecycle, generation, tasks>>
  /\ Publish(live)
  /\ UNCHANGED <<stage, effects>>

\* GeneratedKeyStage::begin, after the outstanding refreshes were settled.
FinishBegin(t, live) ==
  /\ Cmd(t) = "begin_generated_identity"
  /\ tasks' = {} /\ IF tasks = {} THEN UNCHANGED revision ELSE MayMove
  /\ \/ stage' = [id |-> t, expired |-> FALSE] /\ Reply(WithRefreshes(t, "completed", "completed"))
     \/ UNCHANGED stage /\ Reply(WithRefreshes(t, "failed", "completed"))
  /\ Publish(live)
  /\ UNCHANGED <<lifecycle, generation, active, effects>>

\* GeneratedKeyStage::take consumes the stage before its commit can fail.
FinishAcknowledge(t, live) ==
  /\ Cmd(t) = "acknowledge_generated_identity"
  /\ \/ /\ stage = None \/ stage.expired \/ stage.id # sent[t].of
        /\ stage' = IF stage # None /\ ~stage.expired THEN stage ELSE None
        /\ Reply(Receipt(t, "failed")) /\ UNCHANGED <<revision, active>>
     \/ /\ stage # None /\ ~stage.expired /\ stage.id = sent[t].of
        /\ stage' = None
        /\ \/ Reply(Receipt(t, "completed")) /\ revision' = revision + 1 /\ active' = FALSE
           \/ Reply(Receipt(t, "failed")) /\ MayMove /\ UNCHANGED active
  /\ Publish(live)
  /\ UNCHANGED <<lifecycle, generation, tasks, effects>>

FinishCancel(t, live) ==
  /\ Cmd(t) = "cancel_generated_identity"
  /\ stage' = None /\ Reply(Receipt(t, "completed")) /\ Publish(live)
  /\ UNCHANGED <<lifecycle, revision, generation, active, tasks, effects>>

\* A subscription nobody waits for any more is withdrawn at once.
FinishSubscribe(t, live) ==
  /\ Cmd(t) = "subscribe"
  /\ Reply(Receipt(t, "completed"))
  /\ subs' = IF ask[t] = "waiting" THEN (subs \cap live) \cup {t[1]} ELSE subs \cap live
  /\ UNCHANGED <<lifecycle, revision, generation, active, stage, tasks, effects>>

FinishUnsubscribe(t, live) ==
  /\ Cmd(t) = "unsubscribe"
  /\ Reply(Receipt(t, "completed"))
  /\ subs' = (subs \ {t[1]}) \cap live
  /\ UNCHANGED <<lifecycle, revision, generation, active, stage, tasks, effects>>

\* close_actor: everything outstanding is answered first; a store that cannot close may be asked again.
FinishClose(t, live) ==
  /\ Cmd(t) = "close" /\ MayShutDown(lifecycle)
  /\ stage' = None /\ tasks' = {}
  /\ \/ /\ Reply(WithRefreshes(t, "failed", "closed"))
        /\ lifecycle' = "fatal" /\ UNCHANGED subs
     \/ /\ Reply(WithRefreshes(t, "completed", "closed"))
        /\ lifecycle' = "closed" /\ subs' = {}
  /\ UNCHANGED <<revision, generation, active, effects>>

Finish(live) ==
  LET t == running IN
  /\ t # None
  /\ running' = None
  /\ \/ FinishHub(t, live) \/ FinishLocal(t, live) \/ FinishSession(t, live) \/ FinishBegin(t, live)
     \/ FinishAcknowledge(t, live) \/ FinishCancel(t, live) \/ FinishSubscribe(t, live)
     \/ FinishUnsubscribe(t, live) \/ FinishClose(t, live)
  /\ UNCHANGED <<plan, closeState, late, sent, mailbox, exited, begun>>

\* The loop is left after a completed close; what is still queued is dropped with the mailbox.
Exit ==
  /\ lifecycle = "closed" /\ ~exited
  /\ exited' = TRUE /\ mailbox' = <<>>
  /\ Reply([t \in {u \in Tickets : Queued(u)} |-> "closed"])
  /\ UNCHANGED <<plan, closeState, late, sent, running, lifecycle, revision, generation, active, stage, tasks,
                 subs, begun, effects>>

\* GENERATED_KEY_STAGE_TTL passes.
StageExpires ==
  /\ stage # None /\ ~stage.expired
  /\ stage' = [stage EXCEPT !.expired = TRUE]
  /\ UNCHANGED <<plan, closeState, ask, late, sent, mailbox, running, lifecycle, exited, revision, generation,
                 active, tasks, subs, begun, effects>>
=============================================================================
