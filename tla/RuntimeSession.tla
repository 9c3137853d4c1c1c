--------------------------- MODULE RuntimeSession ----------------------------
(***************************************************************************)
(* The session of one native runtime.  The actor handles one command at a  *)
(* time: activation, sign-out, import, removal, profile refreshes and the  *)
(* generated-key stage change the core state, the session generation and   *)
(* the foreground binding; the durable hub session row follows the         *)
(* generation.  Profile tasks run beside the actor and complete whenever   *)
(* the actor takes their completion.  A command that misses its deadline   *)
(* is dropped where it waits.                                              *)
(***************************************************************************)
EXTENDS Naturals, FiniteSets

CONSTANTS Keys,            \* local identities
          None,            \* no identity, binding, stage or activation
          MaxTasks,        \* MAX_OUTSTANDING_PROFILE_TASKS
          MaxRevision,     \* bound on core revisions
          MaxGeneration    \* bound on session generations

ASSUME SessionAssumption ==
  /\ None \notin Keys
  /\ None \notin [key: Keys, generation: Nat] \cup [revision: Nat]
  /\ MaxTasks \in Nat \ {0}
  /\ MaxRevision \in Nat /\ MaxGeneration \in Nat

VARIABLES lifecycle,    \* RuntimeLifecycle
          registered,   \* saved identities
          revision,     \* core snapshot revision
          session,      \* SessionState
          active,       \* active identity
          profile,      \* ProfileLoadState of the active identity
          activation,   \* pending_activation: the target of an unfinished activation
          generation,   \* session generation
          foreground,   \* published foreground binding
          durable,      \* hub_runtime_session row
          tasks,        \* outstanding profile tasks
          stage,        \* generated-key stage: the revision it captured
          tokens        \* unused removal confirmations

core == <<registered, revision, session, active, profile, activation>>
fence == <<generation, foreground, durable>>
sessionVars == <<lifecycle, core, fence, tasks, stage, tokens>>

Binding(k, g) == [key |-> k, generation |-> g]

Init ==
  /\ lifecycle = "ready"
  /\ registered \in SUBSET Keys
  /\ revision = 1
  /\ session = "signed_out" /\ active = None /\ profile = "none"
  /\ activation = None
  /\ generation = 0 /\ foreground = None
  /\ durable = [generation |-> 0, actor |-> None]
  /\ tasks = {} /\ stage = None /\ tokens = {}

(***************************************************************************)
(* preflight: only a ready runtime without a pending generated key accepts *)
(* an ordinary command.  Room is the bound on revisions.                   *)
(***************************************************************************)
Accepts == lifecycle = "ready" /\ stage = None

Room(n) == revision + n <= MaxRevision

(***************************************************************************)
(* StateMachine transitions.                                               *)
(***************************************************************************)
SignOutCore ==
  /\ session' = "signed_out" /\ active' = None /\ profile' = "none" /\ activation' = None

ReplaceRegistry(keys) ==
  /\ registered' = keys
  /\ SignOutCore

UpdateActive(state) ==
  /\ session = "active"
  /\ profile' = state
  /\ revision' = revision + 1

(***************************************************************************)
(* advance_session_generation and synchronize_foreground_session after a   *)
(* completed session command.  The durable row advances first; every       *)
(* profile task is cancelled.  If the row cannot be advanced, or its       *)
(* commit is not confirmed, the runtime becomes fatal and signs out.       *)
(***************************************************************************)
\* Mutant of Advance.
AdvanceKeepingRow(k) ==
  /\ generation < MaxGeneration
  /\ generation' = generation + 1
  /\ durable' = [durable EXCEPT !.generation = generation + 1]
  /\ foreground' = IF k = None THEN None ELSE Binding(k, generation + 1)
  /\ tasks' = {}

Advance(k) ==
  /\ generation < MaxGeneration
  /\ generation' = generation + 1
  /\ durable' = [generation |-> generation + 1, actor |-> k]
  /\ foreground' = IF k = None THEN None ELSE Binding(k, generation + 1)
  /\ tasks' = {}

FailAdvance(k) ==
  /\ lifecycle' = "fatal"
  /\ SignOutCore
  /\ foreground' = None
  /\ tasks' = {}
  /\ durable' \in {durable, [generation |-> generation + 1, actor |-> k]}
  /\ UNCHANGED generation

(***************************************************************************)
(* ActivateIdentity.  A failure restores the session it began with; a      *)
(* deadline drops the future between the two transitions.                  *)
(***************************************************************************)
BeginActivation(k) == k \in registered /\ activation = None

ActivationSucceeds(k) ==
  /\ Accepts /\ BeginActivation(k) /\ Room(2)
  /\ revision' = revision + 2
  /\ session' = "active" /\ active' = k /\ profile' = "cached" /\ activation' = None
  /\ Advance(k)
  /\ UNCHANGED <<lifecycle, registered, stage, tokens>>

ActivationUnfenced(k) ==
  /\ Accepts /\ BeginActivation(k) /\ Room(3)
  /\ revision' = revision + 3
  /\ FailAdvance(k)
  /\ UNCHANGED <<registered, stage, tokens>>

ActivationFails(k) ==
  /\ Accepts /\ BeginActivation(k) /\ Room(2)
  /\ revision' = revision + 2
  /\ UNCHANGED <<lifecycle, registered, session, active, profile, activation, fence, tasks, stage, tokens>>

ActivationTimesOut(k) ==
  /\ Accepts /\ BeginActivation(k) /\ Room(1)
  /\ revision' = revision + 1
  /\ session' = "activating"
  /\ activation' = k
  /\ UNCHANGED <<lifecycle, registered, active, profile, fence, tasks, stage, tokens>>

(***************************************************************************)
(* SignOut, which advances the generation even when nobody is signed in.   *)
(***************************************************************************)
SignOut ==
  /\ Accepts
  /\ IF session = "signed_out" THEN UNCHANGED revision ELSE Room(1) /\ revision' = revision + 1
  /\ SignOutCore
  /\ \/ Advance(None) /\ UNCHANGED lifecycle
     \/ FailAdvance(None)
  /\ UNCHANGED <<registered, stage, tokens>>

(***************************************************************************)
(* ImportSecretKey and GenerateIdentity replace the registry, which signs  *)
(* out without a new generation.  The key is new, or it repairs a          *)
(* registered identity whose credential is missing, which any may be.  A   *)
(* failed import changes nothing here.                                     *)
(***************************************************************************)
Import(k) ==
  /\ Accepts /\ Room(1)
  /\ revision' = revision + 1
  /\ ReplaceRegistry(registered \cup {k})
  /\ UNCHANGED <<lifecycle, fence, tasks, stage, tokens>>

SelectIdentity(k) ==
  /\ Accepts /\ Room(1)
  /\ k \in registered
  /\ revision' = revision + 1
  /\ UNCHANGED <<lifecycle, registered, session, active, profile, activation, fence, tasks, stage, tokens>>

(***************************************************************************)
(* Removal: a confirmation is bound to its target, to the revision it was  *)
(* issued at and to the impact shown, and is used up by any attempt.       *)
(* Confirming signs a removed active identity out first; a later failure   *)
(* keeps that.  Cancelling and refusing only use the confirmation up.      *)
(***************************************************************************)
RequestIdentityRemoval(k) ==
  /\ Accepts
  /\ k \in registered
  /\ tokens' = tokens \cup {[key |-> k, revision |-> revision, signsOut |-> active = k]}
  /\ UNCHANGED <<lifecycle, core, fence, tasks, stage>>

\* Mutant of ConsumesToken.
ConsumesAnyToken(t) == TRUE

ConsumesToken(t) == t.revision = revision

RefuseRemoval(t) ==
  /\ Accepts
  /\ t \in tokens
  /\ tokens' = tokens \ {t}
  /\ UNCHANGED <<lifecycle, core, fence, tasks, stage>>

RemovalFails(t) ==
  /\ Accepts /\ ConsumesToken(t) /\ Room(1)
  /\ t \in tokens /\ t.key \in registered
  /\ tokens' = tokens \ {t}
  /\ active = t.key
  /\ revision' = revision + 1
  /\ SignOutCore
  /\ UNCHANGED <<lifecycle, registered, fence, tasks, stage>>

ReplaceRegistryPreservingSession(k) ==
  /\ registered' = registered \ {k}
  /\ session' = IF active = k THEN "signed_out" ELSE session
  /\ active' = IF active = k THEN None ELSE active
  /\ profile' = IF active = k THEN "none" ELSE profile
  /\ activation' = None

RemovalSteps(k) == IF active = k THEN 2 ELSE 1

Removes(t) ==
  /\ Accepts /\ ConsumesToken(t) /\ Room(3)
  /\ t \in tokens /\ t.key \in registered
  /\ tokens' = tokens \ {t}
  /\ UNCHANGED stage

ConfirmIdentityRemoval(t) ==
  /\ Removes(t)
  /\ revision' = revision + RemovalSteps(t.key)
  /\ ReplaceRegistryPreservingSession(t.key)
  /\ Advance(active')
  /\ UNCHANGED lifecycle

RemovalUnfinalized(t) ==
  /\ Removes(t)
  /\ revision' = revision + RemovalSteps(t.key)
  /\ ReplaceRegistryPreservingSession(t.key)
  /\ UNCHANGED <<lifecycle, fence, tasks>>

RemovalUnfenced(t) ==
  /\ Removes(t)
  /\ registered' = registered \ {t.key}
  /\ LET left == IF active = t.key THEN None ELSE active
         signedOut == session = "signed_out" \/ active = t.key
     IN /\ revision' = revision + RemovalSteps(t.key) + (IF signedOut THEN 0 ELSE 1)
        /\ FailAdvance(left)

(***************************************************************************)
(* RefreshActiveProfile: a task is bound to the identity and generation of *)
(* the foreground session.                                                 *)
(***************************************************************************)
StartProfileTask ==
  /\ Accepts /\ Room(1)
  /\ active # None
  /\ foreground = Binding(active, generation)
  /\ Cardinality(tasks) < MaxTasks
  /\ UpdateActive("loading")
  /\ \E i \in 1 .. MaxTasks :
       /\ \A t \in tasks : t.id # i
       /\ tasks' = tasks \cup {[id |-> i, bound |-> foreground]}
  /\ UNCHANGED <<lifecycle, registered, session, active, activation, fence, stage, tokens>>

Correlated(t) ==
  /\ t.bound = foreground
  /\ t.bound = Binding(active, generation)

(***************************************************************************)
(* complete_profile_task: a result whose session is gone changes nothing,  *)
(* and neither does one the state machine refuses.  A failed, late or      *)
(* unsaved one settles Loading as an error.                                *)
(***************************************************************************)
\* Mutant of Settles.
SettlesQuietly(t) ==
  /\ Correlated(t) /\ session = "active"
  /\ profile' \in {"fresh", "cached", "error"}
  /\ UNCHANGED revision

Settles(t) ==
  /\ Correlated(t)
  /\ \E result \in {"fresh", "cached", "error"} : UpdateActive(result)

LeavesProfile(t) ==
  /\ ~ Correlated(t) \/ session # "active" \/ profile # "loading"
  /\ UNCHANGED <<profile, revision>>

CompleteProfileTask(t) ==
  /\ t \in tasks /\ Room(1)
  /\ tasks' = tasks \ {t}
  /\ Settles(t) \/ LeavesProfile(t)
  /\ UNCHANGED <<lifecycle, registered, session, active, activation, fence, stage, tokens>>

(***************************************************************************)
(* BeginGeneratedKeyStage settles and cancels the outstanding tasks, then  *)
(* captures the revision the acknowledgement will have to find.  Making    *)
(* the key may fail after that.                                            *)
(***************************************************************************)
\* Mutant of InterruptTasks.
InterruptNothing == UNCHANGED <<profile, revision, tasks>>

\* Mutant of InterruptTasks.
InterruptUnsettled == tasks' = {} /\ UNCHANGED <<profile, revision>>

InterruptTasks ==
  /\ tasks' = {}
  /\ IF session = "active" /\ profile = "loading" /\ \E t \in tasks : Correlated(t)
     THEN UpdateActive("error")
     ELSE UNCHANGED <<profile, revision>>

BeginStage ==
  /\ Accepts /\ Room(1)
  /\ InterruptTasks
  /\ stage' \in {None, [revision |-> revision']}
  /\ UNCHANGED <<lifecycle, registered, session, active, activation, fence, tokens>>

(***************************************************************************)
(* AcknowledgeGeneratedKeyStage takes the stage whatever happens next: the *)
(* commit may fail, and an expired stage is gone.                          *)
(***************************************************************************)
AcknowledgeStage(k) ==
  /\ lifecycle = "ready" /\ stage # None
  /\ stage.revision = revision /\ Room(1)
  /\ k \notin registered
  /\ stage' = None
  /\ revision' = revision + 1
  /\ ReplaceRegistry(registered \cup {k})
  /\ UNCHANGED <<lifecycle, fence, tasks, tokens>>

DropStage ==
  /\ lifecycle = "ready" /\ stage # None
  /\ stage' = None
  /\ UNCHANGED <<lifecycle, core, fence, tasks, tokens>>

(***************************************************************************)
(* close_actor.  A failed close leaves a fatal runtime, which may be       *)
(* closed again.                                                           *)
(***************************************************************************)
CloseFails ==
  /\ lifecycle \in {"ready", "fatal"}
  /\ lifecycle' = "fatal"
  /\ stage' = None /\ tasks' = {}
  /\ UNCHANGED <<core, fence, tokens>>

Close ==
  /\ lifecycle \in {"ready", "fatal"}
  /\ lifecycle' = "closed"
  /\ stage' = None /\ tasks' = {} /\ foreground' = None
  /\ UNCHANGED <<core, generation, durable, tokens>>

Next ==
  \/ \E k \in Keys :
       \/ ActivationSucceeds(k) \/ ActivationUnfenced(k) \/ ActivationFails(k) \/ ActivationTimesOut(k)
       \/ Import(k) \/ SelectIdentity(k) \/ RequestIdentityRemoval(k) \/ AcknowledgeStage(k)
  \/ \E t \in tokens : 
       \/ RefuseRemoval(t) \/ RemovalFails(t)
       \/ ConfirmIdentityRemoval(t) \/ RemovalUnfinalized(t) \/ RemovalUnfenced(t)
  \/ \E t \in tasks : CompleteProfileTask(t)
  \/ SignOut \/ StartProfileTask \/ BeginStage \/ DropStage \/ CloseFails \/ Close

Spec == Init /\ [][Next]_sessionVars

(***************************************************************************)
(* hub_actor: the actor a hub command of generation g runs for.            *)
(***************************************************************************)
HubActor(g, k) ==
  /\ lifecycle = "ready" /\ stage = None
  /\ g = generation
  /\ foreground = Binding(k, g)
  /\ active = k
-----------------------------------------------------------------------------
(***************************************************************************)
(* Every part has its type; the session states and the active identity fit *)
(* together as validate_snapshot demands.                                  *)
(***************************************************************************)
TypeOK ==
  /\ lifecycle \in {"ready", "fatal", "closed"}
  /\ registered \subseteq Keys
  /\ revision \in Nat /\ generation \in Nat
  /\ session \in {"signed_out", "active", "activating"}
  /\ active \in registered \cup {None}
  /\ session = "active" => active # None
  /\ session = "signed_out" => active = None
  /\ profile \in {"none", "cached", "loading", "fresh", "error"}
  /\ profile = "none" <=> active = None
  /\ activation \in Keys \cup {None}
  /\ activation # None => session = "activating"
  /\ foreground \in [key: Keys, generation: Nat] \cup {None}
  /\ durable \in [generation: Nat, actor: Keys \cup {None}]
  /\ tasks \subseteq [id: 1 .. MaxTasks, bound: [key: Keys, generation: Nat]]
  /\ stage \in [revision: Nat] \cup {None}
  /\ tokens \subseteq [key: Keys, revision: Nat, signsOut: BOOLEAN]

(***************************************************************************)
(* A pending generated key finds the revision it captured: nothing the     *)
(* actor still accepts, and no profile task that was running, moves the    *)
(* revision before the acknowledgement, which would otherwise be refused   *)
(* and the key shown to the user lost.                                     *)
(***************************************************************************)
StageRevisionHolds == stage # None => stage.revision = revision

(***************************************************************************)
(* A hub command is admitted only for the identity that is signed in now,  *)
(* and the durable session row names that identity and that generation, so *)
(* the storage fence agrees with the actor's.                              *)
(***************************************************************************)
HubScopeIsDurable ==
  \A k \in Keys, g \in 0 .. generation :
    HubActor(g, k) => active = k /\ durable = [generation |-> g, actor |-> k]

(***************************************************************************)
(* The session and its identity fit together as validate_snapshot demands, *)
(* a pending generated key can still be acknowledged, and the actor's      *)
(* fence agrees with the durable one.                                      *)
(***************************************************************************)
SessionSound == TypeOK /\ StageRevisionHolds /\ HubScopeIsDurable

(***************************************************************************)
(* Whoever becomes the active identity does so under a new generation that *)
(* the durable row already holds for it, so no command bound to an earlier *)
(* session can act for it.                                                 *)
(***************************************************************************)
NewSessionIsFenced ==
  [][active' # None /\ active' # active =>
       /\ generation' > generation
       /\ durable' = [generation |-> generation', actor |-> active']]_sessionVars

(***************************************************************************)
(* A change of what the snapshot shows comes with a larger revision or a   *)
(* larger generation, so the ordered change stream never drops it as old.  *)
(***************************************************************************)
VisibleChangeAdvances ==
  [][<<registered, session, active, profile>>' # <<registered, session, active, profile>> =>
       /\ revision' >= revision /\ generation' >= generation
       /\ revision' > revision \/ generation' > generation]_sessionVars

(***************************************************************************)
(* An identity is removed only against a confirmation used up by that very *)
(* step, and it signs the user out exactly when the confirmation said so.  *)
(***************************************************************************)
RemovalMatchesImpact ==
  [][\A k \in registered \ registered' :
       \E t \in tokens \ tokens' : t.key = k /\ (t.signsOut <=> active = k)]_sessionVars

(***************************************************************************)
(* A profile shown as loading keeps a task of the current session that     *)
(* will settle it: no completion, interruption, sign-out or new session    *)
(* takes the last one away.  The two steps left out are the ones that      *)
(* CancellationSettlesLoading and CompletionSettlesLoading are about.      *)
(***************************************************************************)
Served == \E t \in tasks : Correlated(t)

LoadingStaysServed ==
  [][lifecycle' = "ready" /\ profile' = "loading" /\ ~ Served'
       => \/ profile = "loading" /\ ~ Served
          \/ registered' # registered
          \/ session = "activating"]_sessionVars

(***************************************************************************)
(* A new generation cancels every refresh; where the identity stays active *)
(* its Loading is settled, as it is when a generated key interrupts the    *)
(* refresh.                                                                *)
(***************************************************************************)
CancellationSettlesLoading ==
  [][lifecycle' = "ready" /\ active' = active /\ generation' > generation /\ Served
       => profile' # "loading"]_sessionVars

(***************************************************************************)
(* The completion of a refresh of the current session always settles       *)
(* Loading, however late it comes.                                         *)
(***************************************************************************)
CompletionSettlesLoading ==
  [][\A t \in tasks : Correlated(t) /\ CompleteProfileTask(t) => profile' # "loading"]_sessionVars
=============================================================================
