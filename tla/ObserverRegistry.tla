-------------------------- MODULE ObserverRegistry --------------------------
(***************************************************************************)
(* The observers of changes and the shutdown of the core, in front of the  *)
(* actor.  An observer takes one of a few places, subscribes at the actor  *)
(* and, if the core is still open, gets a forwarder task that calls it     *)
(* back.  A forwarder ends by itself and retires, or is aborted at its     *)
(* next await.  Unsubscribing and shutting down share one gate and join    *)
(* the tasks they abort.  Any of these futures may be dropped half way.    *)
(***************************************************************************)
EXTENDS RuntimeActor

CONSTANT MaxObservers

ASSUME PlacesAssumption == MaxObservers \in Nat \ {0}

VARIABLES
  reg,          \* subscribe_changes_v2 of each observer
  forwarder,    \* its task
  observers, retired,       \* the two registries
  aborted, stopped,         \* tasks told to end
  handle,       \* the subscription object: none, held or dropped
  unsub,        \* unsubscribe of each observer
  shutdown,     \* shutdown_v2 of each caller
  gate          \* who holds close_gate

registryVars == <<reg, forwarder, observers, retired, aborted, stopped, handle, unsub, shutdown, gate>>
vars == <<actorVars, registryVars>>

Subscribing(o) == reg[o] \in {"subscribing", "withdrawing"}
Running(o) == forwarder[o] \in {"waiting", "calling", "leaving"}
Registered == observers \cup retired

\* The admission permits that are out: a registration, a task or a registry entry holds one.
Holding == {o \in Observers : Subscribing(o) \/ Running(o) \/ o \in Registered}

\* Receivers that still exist at the actor's subscribers.
Live == {o \in Observers : Running(o) \/ reg[o] \in {"subscribing", "withdrawing"}}
-----------------------------------------------------------------------------
Init ==
  /\ ActorInit
  /\ reg = [o \in Observers |-> "idle"]
  /\ forwarder = [o \in Observers |-> "none"]
  /\ observers = {} /\ retired = {} /\ aborted = {} /\ stopped = {}
  /\ handle = [o \in Observers |-> "none"]
  /\ unsub = [o \in Observers |-> "idle"]
  /\ shutdown = [s \in Shutdowns |-> "idle"]
  /\ gate = None

\* Submitting changes only the mailbox side of the actor.
Sends(t) ==
  /\ Submit(t, None)
  /\ UNCHANGED <<plan, closeState, late, running, lifecycle, exited, revision, generation, active, stage,
                 tasks, subs, begun, effects>>

\* A future that waited for a ticket is dropped with it.
Drops(t) ==
  /\ ask' = [ask EXCEPT ![t] = IF @ = "waiting" THEN "gone" ELSE @]
  /\ UNCHANGED <<plan, closeState, late, sent, mailbox, running, lifecycle, exited, revision, generation,
                 active, stage, tasks, subs, begun, effects>>

(***************************************************************************)
(* subscribe_changes_v2.  Retired tasks that are over are pruned, then a   *)
(* place is taken; the core is asked twice whether it is open, the second  *)
(* time under the locks that shutdown takes to close it.                   *)
(***************************************************************************)
Subscribe(o) ==
  LET kept == {r \in retired : forwarder[r] # "finished"} IN
  /\ o \in plan.observers /\ reg[o] = "idle"
  /\ retired' = kept
  /\ \/ /\ closeState = 0
        /\ Cardinality({h \in Holding : h \notin retired \/ h \in kept}) < MaxObservers
        /\ reg' = [reg EXCEPT ![o] = "subscribing"]
        /\ Sends(<<o, "subscribe">>)
     \/ /\ \/ closeState # 0
           \/ Cardinality({h \in Holding : h \notin retired \/ h \in kept}) >= MaxObservers
        /\ reg' = [reg EXCEPT ![o] = "refused"]
        /\ UNCHANGED actorVars
  /\ UNCHANGED <<forwarder, observers, aborted, stopped, handle, unsub, shutdown, gate>>

\* The actor's answer, then the second look at close_state.
\* Mutant of Admitted.
AdmittedOnce(o) == TRUE

Admitted(o) == closeState = 0

Register(o) ==
  /\ reg[o] = "subscribing" /\ ask[<<o, "subscribe">>] = "completed"
  /\ \/ /\ Admitted(o)
        /\ reg' = [reg EXCEPT ![o] = "registered"]
        /\ forwarder' = [forwarder EXCEPT ![o] = "waiting"]
        /\ observers' = observers \cup {o}
        /\ handle' = [handle EXCEPT ![o] = "held"]
        /\ UNCHANGED actorVars
     \/ /\ ~Admitted(o)
        /\ reg' = [reg EXCEPT ![o] = "withdrawing"]
        /\ Sends(<<o, "withdraw">>)
        /\ UNCHANGED <<forwarder, observers, handle>>
  /\ UNCHANGED <<retired, aborted, stopped, unsub, shutdown, gate>>

RegisterFails(o) ==
  /\ \/ reg[o] = "subscribing" /\ ask[<<o, "subscribe">>] \in Answers \ {"completed"}
     \/ reg[o] = "withdrawing" /\ Answered(<<o, "withdraw">>)
  /\ reg' = [reg EXCEPT ![o] = "refused"]
  /\ UNCHANGED <<actorVars, forwarder, observers, retired, aborted, stopped, handle, unsub, shutdown, gate>>

SubscribeDropped(o) ==
  /\ plan.drops /\ Subscribing(o)
  /\ reg' = [reg EXCEPT ![o] = "refused"]
  /\ Drops(<<o, IF reg[o] = "subscribing" THEN "subscribe" ELSE "withdraw">>)
  /\ UNCHANGED <<forwarder, observers, retired, aborted, stopped, handle, unsub, shutdown, gate>>
-----------------------------------------------------------------------------
(***************************************************************************)
(* forward_observer.  The callback runs inside the task: an abort waits    *)
(* for it to return.                                                       *)
(***************************************************************************)
Moves(o, from, to) ==
  /\ forwarder[o] = from
  /\ forwarder' = [forwarder EXCEPT ![o] = to]

Deliver(o) ==
  /\ Moves(o, "waiting", "calling") /\ o \notin stopped
  /\ UNCHANGED <<actorVars, reg, observers, retired, aborted, stopped, handle, unsub, shutdown, gate>>

Return(o) ==
  /\ Moves(o, "calling", "waiting")
  /\ UNCHANGED <<actorVars, reg, observers, retired, aborted, stopped, handle, unsub, shutdown, gate>>

\* The stop signal, a closed channel or a panic of the callback end the loop.
Leave(o) ==
  /\ \/ Moves(o, "waiting", "leaving") /\ (o \in stopped \/ o \notin subs)
     \/ Moves(o, "calling", "leaving")
  /\ Sends(<<o, "leave">>)
  /\ UNCHANGED <<reg, observers, retired, aborted, stopped, handle, unsub, shutdown, gate>>

\* retire_observer, after the actor answered.
Retire(o) ==
  /\ Answered(<<o, "leave">>) /\ Moves(o, "leaving", "finished")
  /\ observers' = observers \ {o}
  /\ retired' = IF o \in observers THEN retired \cup {o} ELSE retired
  /\ UNCHANGED <<actorVars, reg, aborted, stopped, handle, unsub, shutdown, gate>>

\* An abort takes effect where the task awaits, and nothing after that point runs.
Aborts(o) ==
  /\ o \in aborted
  /\ \/ Moves(o, "waiting", "finished") /\ UNCHANGED actorVars
     \/ Moves(o, "leaving", "finished") /\ Drops(<<o, "leave">>)
  /\ UNCHANGED <<reg, observers, retired, aborted, stopped, handle, unsub, shutdown, gate>>
-----------------------------------------------------------------------------
\* Dropping the subscription object stops its task and joins nothing.
DropHandle(o) ==
  /\ handle[o] = "held" /\ unsub[o] # "gate" /\ unsub[o] # "joining" /\ unsub[o] # "asking"
  /\ handle' = [handle EXCEPT ![o] = "dropped"]
  /\ stopped' = IF unsub[o] # "done" /\ o \in Registered THEN stopped \cup {o} ELSE stopped
  /\ UNCHANGED <<actorVars, reg, forwarder, observers, retired, aborted, unsub, shutdown, gate>>

(***************************************************************************)
(* unsubscribe.  finish_observers for the one id, then the actor is told.  *)
(***************************************************************************)
Unsubscribe(o) ==
  /\ o \in plan.unsubscribes /\ handle[o] = "held" /\ unsub[o] = "idle"
  /\ unsub' = [unsub EXCEPT ![o] = "gate"]
  /\ UNCHANGED <<actorVars, reg, forwarder, observers, retired, aborted, stopped, handle, shutdown, gate>>

UnsubscribeEnters(o) ==
  /\ unsub[o] = "gate" /\ gate = None
  /\ gate' = o
  /\ unsub' = [unsub EXCEPT ![o] = "joining"]
  /\ aborted' = aborted \cup ({o} \cap Registered)
  /\ UNCHANGED <<actorVars, reg, forwarder, observers, retired, stopped, handle, shutdown>>

Joined(o) == o \in Registered => forwarder[o] = "finished"

UnsubscribeJoins(o) ==
  /\ unsub[o] = "joining" /\ Joined(o)
  /\ observers' = observers \ {o} /\ retired' = retired \ {o}
  /\ unsub' = [unsub EXCEPT ![o] = "asking"]
  /\ Sends(<<o, "unsubscribe">>)
  /\ UNCHANGED <<reg, forwarder, aborted, stopped, handle, shutdown, gate>>

UnsubscribeEnds(o) ==
  /\ unsub[o] = "asking" /\ Answered(<<o, "unsubscribe">>)
  /\ unsub' = [unsub EXCEPT ![o] = "done"]
  /\ gate' = None
  /\ UNCHANGED <<actorVars, reg, forwarder, observers, retired, aborted, stopped, handle, shutdown>>

\* Mutant of Leaves.
LeavesLocked(h) == UNCHANGED gate

\* A dropped future releases the gate it holds.
Leaves(h) == gate' = IF gate = h THEN None ELSE gate

UnsubscribeDropped(o) ==
  /\ plan.drops /\ unsub[o] \in {"gate", "joining", "asking"}
  /\ unsub' = [unsub EXCEPT ![o] = "given_up"]
  /\ Leaves(o)
  /\ Drops(<<o, "unsubscribe">>)
  /\ UNCHANGED <<reg, forwarder, observers, retired, aborted, stopped, handle, shutdown>>
-----------------------------------------------------------------------------
(***************************************************************************)
(* shutdown_v2.  Admission stops first and for good; then observers,       *)
(* actor, keyring and host runtime, one after the other.  A failed or      *)
(* dropped shutdown leaves the rest to the next call.                      *)
(***************************************************************************)
Shutdown(s) ==
  /\ s \in plan.shutdowns /\ shutdown[s] = "idle"
  /\ shutdown' = [shutdown EXCEPT ![s] = "gate"]
  /\ closeState' = IF closeState = 0 THEN 1 ELSE closeState
  /\ UNCHANGED <<plan, ask, late, sent, mailbox, running, lifecycle, exited, revision, generation, active,
                 stage, tasks, subs, begun, effects, reg, forwarder, observers, retired, aborted, stopped,
                 handle, unsub, gate>>

ShutdownEnters(s) ==
  /\ shutdown[s] = "gate" /\ gate = None
  /\ \/ /\ closeState = 2
        /\ shutdown' = [shutdown EXCEPT ![s] = "done"]
        /\ UNCHANGED <<aborted, gate>>
     \/ /\ closeState # 2
        /\ shutdown' = [shutdown EXCEPT ![s] = "joining"]
        /\ aborted' = aborted \cup Registered
        /\ gate' = s
  /\ UNCHANGED <<actorVars, reg, forwarder, observers, retired, stopped, handle, unsub>>

ShutdownJoins(s, o) ==
  /\ shutdown[s] = "joining" /\ o \in Registered /\ Joined(o)
  /\ observers' = observers \ {o} /\ retired' = retired \ {o}
  /\ UNCHANGED <<actorVars, reg, forwarder, aborted, stopped, handle, unsub, shutdown, gate>>

\* close_with_timeout: a runtime that is closed already is only waited for.
ShutdownCloses(s) ==
  /\ shutdown[s] = "joining" /\ Registered = {}
  /\ shutdown' = [shutdown EXCEPT ![s] = "closing"]
  /\ IF lifecycle = "closed" THEN UNCHANGED actorVars ELSE Sends(<<s, "close">>)
  /\ UNCHANGED <<reg, forwarder, observers, retired, aborted, stopped, handle, unsub, gate>>

\* await_actor_exit, whatever the command's own receipt said, decides when the runtime is closed.
AwaitExit(s) == ask[<<s, "close">>] # "waiting" /\ exited

ShutdownStopsWorkers(s) ==
  /\ shutdown[s] = "closing" /\ AwaitExit(s)
  /\ shutdown' = [shutdown EXCEPT ![s] = "workers"]
  /\ UNCHANGED <<actorVars, reg, forwarder, observers, retired, aborted, stopped, handle, unsub, gate>>

\* Keyring worker and host runtime end.
ShutdownEnds(s) ==
  /\ shutdown[s] = "workers"
  /\ shutdown' = [shutdown EXCEPT ![s] = "done"]
  /\ closeState' = 2 /\ gate' = None
  /\ UNCHANGED <<plan, ask, late, sent, mailbox, running, lifecycle, exited, revision, generation, active,
                 stage, tasks, subs, begun, effects, reg, forwarder, observers, retired, aborted, stopped,
                 handle, unsub>>

\* The close was refused or timed out, or a worker could not be closed.
ShutdownFails(s) ==
  /\ \/ shutdown[s] = "closing" /\ ~exited /\ (lifecycle = "closed" \/ Answered(<<s, "close">>))
     \/ shutdown[s] = "workers"
  /\ shutdown' = [shutdown EXCEPT ![s] = "failed"]
  /\ Leaves(s)
  /\ UNCHANGED <<actorVars, reg, forwarder, observers, retired, aborted, stopped, handle, unsub>>

ShutdownDropped(s) ==
  /\ plan.drops /\ shutdown[s] \in {"gate", "joining", "closing", "workers"}
  /\ shutdown' = [shutdown EXCEPT ![s] = "dropped"]
  /\ Leaves(s)
  /\ Drops(<<s, "close">>)
  /\ UNCHANGED <<reg, forwarder, observers, retired, aborted, stopped, handle, unsub>>
-----------------------------------------------------------------------------
OfActor(A) == A /\ UNCHANGED registryVars

ActorSteps ==
  \/ OfActor(Take(Live)) \/ OfActor(Finish(Live)) \/ OfActor(Exit)
  \/ \E t \in Calls : OfActor(CompleteRefresh(t, Live))

CallerSteps ==
  \/ \E c \in Calls : OfActor(Call(c)) \/ OfActor(Abandon(c))
  \/ OfActor(StageExpires)

TimeSteps == \E t \in Tickets : OfActor(Expire(t)) \/ OfActor(TimeOut(t))

ForwarderSteps(o) == Return(o) \/ Leave(o) \/ Retire(o)

RegisterSteps(o) == Register(o) \/ RegisterFails(o)

UnsubscribeSteps(o) == UnsubscribeEnters(o) \/ UnsubscribeJoins(o) \/ UnsubscribeEnds(o)

ShutdownSteps(s) ==
  \/ ShutdownEnters(s) \/ ShutdownCloses(s) \/ ShutdownStopsWorkers(s) \/ ShutdownEnds(s) \/ ShutdownFails(s)
  \/ \E o \in Observers : ShutdownJoins(s, o)

Next ==
  \/ ActorSteps \/ CallerSteps \/ TimeSteps
  \/ \E o \in Observers :
       \/ Subscribe(o) \/ RegisterSteps(o) \/ SubscribeDropped(o) \/ Deliver(o) \/ ForwarderSteps(o) \/ Aborts(o)
       \/ DropHandle(o) \/ Unsubscribe(o) \/ UnsubscribeSteps(o) \/ UnsubscribeDropped(o)
  \/ \E s \in Shutdowns : Shutdown(s) \/ ShutdownSteps(s) \/ ShutdownDropped(s)

(***************************************************************************)
(* The actor's loop, the timers and the tasks of the host runtime run on;  *)
(* callbacks return.  The gate is a fair lock, and a task that keeps       *)
(* finding changes yields to its abort.  Nobody has to call anything.      *)
(***************************************************************************)
Fairness ==
  /\ WF_vars(ActorSteps) /\ WF_vars(TimeSteps)
  /\ \A o \in Observers : /\ WF_vars(RegisterSteps(o)) /\ WF_vars(ForwarderSteps(o))
                          /\ SF_vars(Aborts(o)) /\ SF_vars(UnsubscribeSteps(o))
  /\ \A s \in Shutdowns : SF_vars(ShutdownSteps(s))

Spec == Init /\ [][Next]_vars /\ Fairness
-----------------------------------------------------------------------------
\* Every part has its type; mailbox, refreshes and observers stay within their limits.
TypeOK ==
  /\ closeState \in 0 .. 2 /\ exited \in BOOLEAN /\ active \in BOOLEAN
  /\ \A t \in Tickets : ask[t] \in {"idle", "waiting", "gone"} \cup Answers
  /\ late \subseteq Tickets /\ begun \subseteq Tickets
  /\ Len(mailbox) <= Capacity /\ Range(mailbox) \subseteq Tickets
  /\ running \in Tickets \cup {None}
  /\ tasks \subseteq Calls /\ Cardinality(tasks) <= MaxTasks
  /\ subs \subseteq Observers /\ Cardinality(Holding) <= MaxObservers
  /\ observers \cap retired = {}
  /\ gate \in Observers \cup Shutdowns \cup {None}

TookEffect(c) == \E e \in effects : e.call = c

\* What the caller of a hub mutation is told is true of the hub: completed means it is there, and every
\* refusal (rejected at a full mailbox, closed, conflicted, unavailable, failed) means it is not and never
\* will be, also when the command was still queued or running when its caller was answered.  Only an
\* unknown outcome leaves both open.
AnswersAreTrue ==
  \A c \in DOMAIN plan.names :
    plan.names[c] \in HubMutations =>
      /\ ask[c] = "completed" => TookEffect(c)
      /\ Answered(c) /\ ask[c] \notin {"completed", "unknown"} => ~TookEffect(c)

\* A hub mutation takes effect only in the session it was called in and at the snapshot its caller had
\* seen, however long it was queued behind session changes; reads take none.
EffectsAreCurrent ==
  \A e \in effects :
    /\ Cmd(e.call) \in HubMutations
    /\ sent[e.call].generation = e.generation /\ sent[e.call].expected = e.revision

\* The mailbox, the refreshes and the observers stay within their limits, what callers are told is true of
\* the hub, and effects belong to the session and snapshot of their call.
AnswersMatchEffects == TypeOK /\ AnswersAreTrue /\ EffectsAreCurrent

\* "An expired queued close cannot later change runtime state": a command whose caller was already told
\* an answer never begins.  (One whose caller was dropped may.)
NothingBeginsAnswered == [][\A t \in begun' \ begun : ~Answered(t)]_vars

\* After a successful shutdown nothing is left: no forwarder can call back, no registry entry, no
\* subscriber, no queued or running command, no outstanding refresh, whatever was being registered,
\* unsubscribed or dropped meanwhile.
ShutdownIsComplete ==
  closeState = 2 =>
    /\ exited /\ mailbox = <<>> /\ running = None /\ tasks = {} /\ subs = {}
    /\ Registered = {} /\ \A o \in Observers : ~Running(o)

\* When unsubscribe returns, the callback has returned for the last time.
UnsubscribedIsQuiet == \A o \in Observers : unsub[o] = "done" => ~Running(o)

\* A task that ended by itself is where the next subscription finds and prunes it, so its place is not lost;
\* only one that was aborted waits for whoever aborted it.
EndedIsRetired == \A o \in observers : forwarder[o] = "finished" => o \in aborted

\* However registration, unsubscription and shutdown interleave, no forwarder outlives its subscription or the
\* runtime, and none that ended by itself keeps its place.
ObserversEnd == ShutdownIsComplete /\ UnsubscribedIsQuiet /\ EndedIsRetired

\* A shutdown that was begun returns or is dropped: neither a registration, an unsubscription given up
\* half way, a full mailbox nor another shutdown keeps it waiting for ever.
ShutdownReturns ==
  \A s \in Shutdowns : shutdown[s] = "gate" ~> shutdown[s] \in {"done", "failed", "dropped"}

\* "A failed commit must be recovered by importing the already-saved recovery key": once the acknowledgement
\* of a generated key was answered with an error and is no longer queued, its stage no longer stands in
\* the way of an import.
FailedAcknowledgementFreesImport ==
  \A c \in DOMAIN plan.names :
    /\ plan.names[c] = "acknowledge_generated_identity" /\ sent[c] # None
    /\ Answered(c) /\ ask[c] # "completed" /\ ~Queued(c) /\ running # c
    => stage = None \/ stage.id # sent[c].of
=============================================================================
