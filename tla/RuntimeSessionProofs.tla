------------------------ MODULE RuntimeSessionProofs ------------------------
(***************************************************************************)
(* Proofs about one runtime's session and about the profile cache that its *)
(* profile tasks fill, which share no step.  Each holds for every value of *)
(* the constants.                                                          *)
(***************************************************************************)
EXTENDS Integers, RuntimeSession, ProfileCache, WellFoundedInduction, TLAPS

(***************************************************************************)
(* The session of one runtime, for any identities, any number of profile   *)
(* tasks and any bounds on revisions and generations.                      *)
(***************************************************************************)
\* A pending generated key waits in a ready runtime without profile tasks.
StageFits == stage # None => lifecycle = "ready" /\ tasks = {}

\* The durable row is at the current generation and names whoever is bound to it.
FenceFits ==
  lifecycle = "ready" =>
    /\ durable.generation = generation
    /\ foreground # None => foreground = Binding(durable.actor, generation)

\* A confirmation of the current revision still shows what removal will do.
TokensFit ==
  \A t \in tokens :
    /\ t.revision <= revision
    /\ t.revision = revision => (t.signsOut <=> active = t.key)

SessionInv == TypeOK /\ StageRevisionHolds /\ StageFits /\ FenceFits /\ TokensFit
-----------------------------------------------------------------------------
LEMMA SessionInit == Init => SessionInv
<1> SUFFICES ASSUME Init PROVE SessionInv
  BY Zenon
<1> USE SessionAssumption DEF Init
<1>1. TypeOK
  BY Zenon DEF TypeOK
<1>2. StageRevisionHolds /\ StageFits /\ FenceFits /\ TokensFit
  BY Zenon DEF StageRevisionHolds, StageFits, FenceFits, TokensFit
<1> QED
  BY Zenon, <1>1, <1>2 DEF SessionInv

(***************************************************************************)
(* A new generation, and one that could not be made durable.               *)
(***************************************************************************)
LEMMA AdvanceFits ==
  ASSUME SessionInv, NEW k \in Keys \cup {None}, Advance(k)
  PROVE  /\ generation' \in Nat /\ generation' > generation
         /\ foreground' \in [key: Keys, generation: Nat] \cup {None}
         /\ durable' \in [generation: Nat, actor: Keys \cup {None}]
         /\ durable' = [generation |-> generation', actor |-> k]
         /\ tasks' = {} /\ FenceFits'
BY SessionAssumption DEF SessionInv, TypeOK, Advance, Binding, FenceFits

LEMMA FailAdvanceFits ==
  ASSUME SessionInv, NEW k \in Keys \cup {None}, FailAdvance(k)
  PROVE  /\ lifecycle' = "fatal" /\ SignOutCore
         /\ generation' = generation /\ foreground' = None /\ tasks' = {}
         /\ durable' \in [generation: Nat, actor: Keys \cup {None}]
         /\ FenceFits'
BY DEF SessionInv, TypeOK, FailAdvance, FenceFits

(***************************************************************************)
(* A confirmation stays true while no step changes the active identity     *)
(* without raising the revision.                                           *)
(***************************************************************************)
LEMMA TokensKeep ==
  ASSUME SessionInv, tokens' \subseteq tokens, revision' \in Nat,
         revision' > revision \/ (revision' = revision /\ active' = active)
  PROVE  TokensFit' /\ tokens' \subseteq [key: Keys, revision: Nat, signsOut: BOOLEAN]
BY DEF SessionInv, TypeOK, TokensFit

(***************************************************************************)
(* The commands, one by one.                                               *)
(***************************************************************************)
LEMMA ActivationStep ==
  ASSUME SessionInv, NEW k \in Keys,
         ActivationSucceeds(k) \/ ActivationUnfenced(k) \/ ActivationFails(k) \/ ActivationTimesOut(k)
  PROVE  SessionInv'
<1> USE SessionAssumption DEF SessionInv
<1>1. Accepts /\ k \in registered /\ activation = None /\ UNCHANGED <<registered, stage, tokens>>
  BY Zenon DEF ActivationSucceeds, ActivationUnfenced, ActivationFails, ActivationTimesOut, BeginActivation
<1>2. revision' \in Nat /\ revision' > revision
  BY DEF ActivationSucceeds, ActivationUnfenced, ActivationFails, ActivationTimesOut, TypeOK
<1>3. TokensFit' /\ tokens' \subseteq [key: Keys, revision: Nat, signsOut: BOOLEAN]
  BY Zenon, <1>1, <1>2, TokensKeep
<1>4. StageRevisionHolds' /\ StageFits'
  BY Zenon, <1>1 DEF StageRevisionHolds, StageFits, Accepts
<1>5. CASE ActivationSucceeds(k)
  <2>1. /\ session' = "active" /\ active' = k /\ profile' = "cached" /\ activation' = None
        /\ Advance(k) /\ lifecycle' = lifecycle
    BY Zenon, <1>5 DEF ActivationSucceeds
  <2>2. TypeOK' /\ FenceFits'
    BY Zenon, <1>1, <1>2, <1>3, <2>1, AdvanceFits DEF TypeOK
  <2> QED
    BY Zenon, <1>3, <1>4, <2>2
<1>6. CASE ActivationUnfenced(k)
  <2>1. TypeOK' /\ FenceFits'
    BY Zenon, <1>1, <1>2, <1>3, <1>6, FailAdvanceFits DEF TypeOK, ActivationUnfenced, SignOutCore
  <2> QED
    BY Zenon, <1>3, <1>4, <2>1
<1>7. CASE ActivationFails(k) \/ ActivationTimesOut(k)
  <2>1. UNCHANGED <<lifecycle, active, profile, generation, foreground, durable, tasks>>
    BY Zenon, <1>7 DEF ActivationFails, ActivationTimesOut, fence
  <2>2. \/ session' = session /\ activation' = activation
        \/ session' = "activating" /\ activation' = k
    BY Zenon, <1>7 DEF ActivationFails, ActivationTimesOut
  <2>3. TypeOK' /\ FenceFits'
    BY <1>1, <1>2, <1>3, <2>1, <2>2 DEF TypeOK, FenceFits
  <2> QED
    BY Zenon, <1>3, <1>4, <2>3
<1> QED
  BY Zenon, <1>5, <1>6, <1>7

LEMMA SignOutStep ==
  ASSUME SessionInv, SignOut
  PROVE  SessionInv'
<1> USE SessionAssumption DEF SessionInv
<1>1. Accepts /\ SignOutCore /\ UNCHANGED <<registered, stage, tokens>>
  BY Zenon DEF SignOut
<1>2. /\ revision' \in Nat
      /\ revision' > revision \/ (revision' = revision /\ active' = active)
  BY <1>1 DEF SignOut, SignOutCore, TypeOK
<1>3. TokensFit' /\ tokens' \subseteq [key: Keys, revision: Nat, signsOut: BOOLEAN]
  BY Zenon, <1>1, <1>2, TokensKeep
<1>4. StageRevisionHolds' /\ StageFits'
  BY Zenon, <1>1 DEF StageRevisionHolds, StageFits, Accepts
<1>5. TypeOK' /\ FenceFits'
  <2>1. CASE Advance(None) /\ UNCHANGED lifecycle
    BY Zenon, <1>1, <1>2, <1>3, <2>1, AdvanceFits DEF TypeOK, SignOutCore
  <2>2. CASE FailAdvance(None)
    BY Zenon, <1>1, <1>2, <1>3, <2>2, FailAdvanceFits DEF TypeOK, SignOutCore
  <2> QED
    BY Zenon, <2>1, <2>2 DEF SignOut
<1> QED
  BY Zenon, <1>3, <1>4, <1>5

LEMMA RegistryStep ==
  ASSUME SessionInv, NEW k \in Keys, Import(k) \/ AcknowledgeStage(k) \/ SelectIdentity(k)
  PROVE  SessionInv'
<1> USE SessionAssumption DEF SessionInv
<1>1. /\ UNCHANGED <<lifecycle, generation, foreground, durable, tasks, tokens>>
      /\ revision' = revision + 1 /\ lifecycle = "ready" /\ stage' = None
  BY Zenon DEF Import, AcknowledgeStage, SelectIdentity, Accepts, fence
<1>2. \/ registered' = registered \cup {k} /\ SignOutCore
      \/ UNCHANGED <<registered, session, active, profile, activation>>
  BY Zenon DEF Import, AcknowledgeStage, SelectIdentity, ReplaceRegistry
<1>3. TokensFit' /\ tokens' \subseteq [key: Keys, revision: Nat, signsOut: BOOLEAN]
  BY <1>1, TokensKeep DEF TypeOK
<1>4. StageRevisionHolds' /\ StageFits' /\ FenceFits'
  BY Zenon, <1>1 DEF StageRevisionHolds, StageFits, FenceFits
<1>5. TypeOK'
  BY <1>1, <1>2, <1>3 DEF TypeOK, SignOutCore
<1> QED
  BY Zenon, <1>3, <1>4, <1>5

LEMMA RequestStep ==
  ASSUME SessionInv, NEW k \in Keys, RequestIdentityRemoval(k)
  PROVE  SessionInv'
<1> USE DEF SessionInv
<1>1. UNCHANGED <<lifecycle, registered, revision, session, active, profile, activation,
                  generation, foreground, durable, tasks, stage>>
  BY Zenon DEF RequestIdentityRemoval, core, fence
<1>2. PICK t \in [key: Keys, revision: Nat, signsOut: BOOLEAN] :
        tokens' = tokens \cup {t} /\ t.revision = revision /\ (t.signsOut <=> active = t.key)
  <2> DEFINE t == [key |-> k, revision |-> revision, signsOut |-> active = k]
  <2>1. (active = k) \in BOOLEAN
    BY Zenon
  <2>2. t \in [key: Keys, revision: Nat, signsOut: BOOLEAN]
    BY Zenon, <2>1 DEF TypeOK
  <2>3. t.key = k /\ t.revision = revision
    BY Zenon
  <2>4. t.signsOut <=> active = k
    BY Zenon
  <2>5. tokens' = tokens \cup {t}
    BY Zenon DEF RequestIdentityRemoval
  <2> HIDE DEF t
  <2> QED
    BY <2>2, <2>3, <2>4, <2>5, Zenon
<1>3. TokensFit'
  BY <1>1, <1>2 DEF TokensFit, TypeOK
<1>4. TypeOK'
  BY <1>1, <1>2 DEF TypeOK
<1>5. StageRevisionHolds' /\ StageFits' /\ FenceFits'
  BY Zenon, <1>1 DEF StageRevisionHolds, StageFits, FenceFits
<1> QED
  BY Zenon, <1>3, <1>4, <1>5

LEMMA RemovalStep ==
  ASSUME SessionInv, NEW t \in tokens,
         \/ RefuseRemoval(t) \/ RemovalFails(t)
         \/ ConfirmIdentityRemoval(t) \/ RemovalUnfinalized(t) \/ RemovalUnfenced(t)
  PROVE  SessionInv'
<1> USE SessionAssumption DEF SessionInv
<1>1. Accepts /\ tokens' \subseteq tokens /\ stage' = stage /\ t.key \in Keys
  BY Zenon DEF RefuseRemoval, RemovalFails, ConfirmIdentityRemoval, RemovalUnfinalized, RemovalUnfenced, Removes, TypeOK
<1>2. /\ revision' \in Nat
      /\ revision' > revision \/ (revision' = revision /\ active' = active)
  <2>1. CASE RefuseRemoval(t)
    BY Zenon, <2>1 DEF RefuseRemoval, core, TypeOK
  <2>2. CASE RemovalFails(t)
    BY <2>2 DEF RemovalFails, TypeOK
  <2>3. CASE ConfirmIdentityRemoval(t) \/ RemovalUnfinalized(t)
    BY <2>3 DEF ConfirmIdentityRemoval, RemovalUnfinalized, RemovalSteps, TypeOK
  <2>4. CASE RemovalUnfenced(t)
    BY <2>4 DEF RemovalUnfenced, RemovalSteps, TypeOK
  <2> QED
    BY Zenon, <2>1, <2>2, <2>3, <2>4
<1>3. TokensFit' /\ tokens' \subseteq [key: Keys, revision: Nat, signsOut: BOOLEAN]
  BY Zenon, <1>1, <1>2, TokensKeep
<1>4. StageRevisionHolds' /\ StageFits'
  BY Zenon, <1>1 DEF StageRevisionHolds, StageFits, Accepts
<1>5. CASE RefuseRemoval(t)
  <2>1. UNCHANGED <<lifecycle, registered, revision, session, active, profile, activation,
                    generation, foreground, durable, tasks>>
    BY Zenon, <1>5 DEF RefuseRemoval, core, fence
  <2>2. TypeOK' /\ FenceFits'
    BY <1>1, <1>3, <2>1 DEF TypeOK, FenceFits
  <2> QED
    BY Zenon, <1>3, <1>4, <2>2
<1>6. CASE RemovalFails(t)
  <2>1. UNCHANGED <<lifecycle, registered, generation, foreground, durable, tasks>> /\ SignOutCore
    BY Zenon, <1>6 DEF RemovalFails, fence
  <2>2. TypeOK' /\ FenceFits'
    BY Zenon, <1>1, <1>2, <1>3, <2>1 DEF TypeOK, FenceFits, SignOutCore
  <2> QED
    BY Zenon, <1>3, <1>4, <2>2
<1>7. CASE ConfirmIdentityRemoval(t) \/ RemovalUnfinalized(t)
  <2>1. lifecycle' = lifecycle /\ ReplaceRegistryPreservingSession(t.key)
    BY Zenon, <1>7 DEF ConfirmIdentityRemoval, RemovalUnfinalized
  <2>2. /\ registered' \subseteq Keys /\ active' \in registered' \cup {None}
        /\ session' \in {"signed_out", "active", "activating"}
        /\ session' = "active" => active' # None
        /\ session' = "signed_out" => active' = None
        /\ profile' \in {"none", "cached", "loading", "fresh", "error"}
        /\ profile' = "none" <=> active' = None
        /\ activation' = None
    BY Zenon, <2>1 DEF ReplaceRegistryPreservingSession, TypeOK
  <2>3. CASE Advance(active')
    <3>1. active' \in Keys \cup {None}
      BY Zenon, <2>2
    <3>2. /\ generation' \in Nat
          /\ foreground' \in [key: Keys, generation: Nat] \cup {None}
          /\ durable' \in [generation: Nat, actor: Keys \cup {None}]
          /\ tasks' = {} /\ FenceFits'
      BY <2>3, <3>1, SessionAssumption DEF Advance, TypeOK, Binding, FenceFits
    <3>3. TypeOK'
      BY Zenon, <1>1, <1>2, <1>3, <2>1, <2>2, <3>2 DEF TypeOK
    <3> QED
      BY Zenon, <1>3, <1>4, <3>2, <3>3
  <2>4. CASE UNCHANGED <<generation, foreground, durable, tasks>>
    <3>1. TypeOK' /\ FenceFits'
      BY Zenon, <1>1, <1>2, <1>3, <2>1, <2>2, <2>4 DEF TypeOK, FenceFits
    <3> QED
      BY Zenon, <1>3, <1>4, <3>1
  <2> QED
    BY Zenon, <1>7, <2>3, <2>4 DEF ConfirmIdentityRemoval, RemovalUnfinalized, fence
<1>8. CASE RemovalUnfenced(t)
  <2>1. registered' = registered \ {t.key}
    BY Zenon, <1>8 DEF RemovalUnfenced
  <2>2. PICK k \in Keys \cup {None} : FailAdvance(k)
    BY Zenon, <1>8 DEF RemovalUnfenced, TypeOK
  <2>3. TypeOK' /\ FenceFits'
    BY Zenon, <1>1, <1>2, <1>3, <2>1, <2>2, FailAdvanceFits DEF TypeOK, SignOutCore
  <2> QED
    BY Zenon, <1>3, <1>4, <2>3
<1> QED
  BY Zenon, <1>5, <1>6, <1>7, <1>8

LEMMA ProfileStep ==
  ASSUME SessionInv, StartProfileTask \/ \E t \in tasks : CompleteProfileTask(t)
  PROVE  SessionInv'
<1> USE SessionAssumption DEF SessionInv
<1>1. UNCHANGED <<lifecycle, registered, session, active, activation, generation, foreground, durable,
                  stage, tokens>>
  BY Zenon DEF StartProfileTask, CompleteProfileTask, fence
<1>2. /\ revision' \in Nat /\ revision' >= revision
      /\ \/ profile' = profile
         \/ active # None /\ profile' \in {"loading", "fresh", "cached", "error"}
  BY DEF StartProfileTask, CompleteProfileTask, Settles, LeavesProfile, UpdateActive, TypeOK
<1>3. stage = None
  BY Zenon DEF StartProfileTask, Accepts, CompleteProfileTask, StageFits
<1>4. tasks' \subseteq [id: 1 .. MaxTasks, bound: [key: Keys, generation: Nat]]
  <2>1. CASE StartProfileTask
    <3>1. foreground \in [key: Keys, generation: Nat]
      BY Zenon, <2>1 DEF StartProfileTask, Binding, TypeOK
    <3>2. PICK i \in 1 .. MaxTasks : tasks' = tasks \cup {[id |-> i, bound |-> foreground]}
      BY Zenon, <2>1 DEF StartProfileTask
    <3> QED
      BY <3>1, <3>2 DEF TypeOK
  <2>2. CASE \E t \in tasks : CompleteProfileTask(t)
    BY Zenon, <2>2 DEF CompleteProfileTask, TypeOK
  <2> QED
    BY Zenon, <2>1, <2>2
<1>5. TokensFit' /\ tokens' \subseteq [key: Keys, revision: Nat, signsOut: BOOLEAN]
  BY <1>1, <1>2, TokensKeep DEF TypeOK
<1>6. TypeOK'
  BY <1>1, <1>2, <1>4 DEF TypeOK
<1>7. StageRevisionHolds' /\ StageFits' /\ FenceFits'
  BY Zenon, <1>1, <1>3 DEF StageRevisionHolds, StageFits, FenceFits
<1> QED
  BY Zenon, <1>5, <1>6, <1>7

LEMMA StageStep ==
  ASSUME SessionInv, BeginStage \/ DropStage
  PROVE  SessionInv'
<1> USE SessionAssumption DEF SessionInv
<1>1. UNCHANGED <<lifecycle, registered, session, active, activation, generation, foreground, durable, tokens>>
  BY Zenon DEF BeginStage, DropStage, core, fence
<1>2. /\ revision' \in Nat /\ revision' >= revision
      /\ profile' = profile \/ (active # None /\ profile' = "error")
      /\ tasks' \in {{}, tasks} /\ lifecycle = "ready"
      /\ stage' = None \/ (stage' = [revision |-> revision'] /\ tasks' = {})
  BY DEF BeginStage, DropStage, InterruptTasks, UpdateActive, Accepts, TypeOK, core
<1>3. TokensFit' /\ tokens' \subseteq [key: Keys, revision: Nat, signsOut: BOOLEAN]
  BY <1>1, <1>2, TokensKeep DEF TypeOK
<1>4. TypeOK'
  BY <1>1, <1>2 DEF TypeOK
<1>5. StageRevisionHolds' /\ StageFits' /\ FenceFits'
  BY <1>1, <1>2 DEF StageRevisionHolds, StageFits, FenceFits
<1> QED
  BY Zenon, <1>3, <1>4, <1>5

LEMMA ClosingStep ==
  ASSUME SessionInv, CloseFails \/ Close
  PROVE  SessionInv'
<1> USE DEF SessionInv
<1>1. /\ UNCHANGED <<registered, revision, session, active, profile, activation, generation, durable, tokens>>
      /\ lifecycle' \in {"fatal", "closed"} /\ stage' = None /\ tasks' = {}
      /\ foreground' \in {None, foreground}
  BY Zenon DEF CloseFails, Close, core, fence
<1> QED
  BY <1>1 DEF TypeOK, StageRevisionHolds, StageFits, FenceFits, TokensFit

LEMMA SessionStep == SessionInv /\ [Next]_sessionVars => SessionInv'
<1> SUFFICES ASSUME SessionInv, [Next]_sessionVars PROVE SessionInv'
  BY Zenon
<1>1. CASE UNCHANGED sessionVars
  BY <1>1 DEF sessionVars, core, fence, SessionInv, TypeOK, StageRevisionHolds, StageFits, FenceFits, TokensFit
<1> QED
  BY Zenon, <1>1, ActivationStep, SignOutStep, RegistryStep, RequestStep, RemovalStep, ProfileStep, StageStep, ClosingStep
     DEF Next

LEMMA SessionInvariant == Spec => []SessionInv
  BY SessionInit, SessionStep, PTL DEF Spec

(***************************************************************************)
(* A pending generated key can still be acknowledged, and the durable      *)
(* session row names the identity and the generation a hub command is      *)
(* admitted for.                                                           *)
(***************************************************************************)
THEOREM SessionIsSound == Spec => []SessionSound
<1>1. SessionInv => HubScopeIsDurable
  <2> SUFFICES ASSUME SessionInv, NEW k \in Keys, NEW g \in 0 .. generation, HubActor(g, k)
               PROVE  active = k /\ durable = [generation |-> g, actor |-> k]
    BY Zenon DEF HubScopeIsDurable
  <2>1. Binding(k, g) \in [key: Keys, generation: Nat]
    BY DEF Binding, SessionInv, TypeOK
  <2>2. Binding(durable.actor, generation) = Binding(k, g) /\ durable.generation = g /\ active = k
    BY Zenon, <2>1, SessionAssumption DEF HubActor, SessionInv, FenceFits
  <2>3. durable.actor = k
    BY Zenon, <2>2 DEF Binding
  <2> QED
    BY Zenon, <2>2, <2>3 DEF SessionInv, TypeOK
<1>2. SessionInv => SessionSound
  BY Zenon, <1>1 DEF SessionInv, SessionSound
<1> QED
  BY <1>2, SessionInvariant, PTL

-----------------------------------------------------------------------------
(***************************************************************************)
(* Only a successful activation gives an identity the session.             *)
(***************************************************************************)
LEMMA OnlyActivation ==
  ASSUME SessionInv, [Next]_sessionVars, active' # None, active' # active
  PROVE  \E k \in Keys : ActivationSucceeds(k)
<1>1. CASE UNCHANGED sessionVars
  BY Zenon, <1>1 DEF sessionVars, core
<1>2. ASSUME NEW k \in Keys,
             \/ ActivationUnfenced(k) \/ ActivationFails(k) \/ ActivationTimesOut(k)
             \/ Import(k) \/ SelectIdentity(k) \/ RequestIdentityRemoval(k) \/ AcknowledgeStage(k)
      PROVE  FALSE
  BY Zenon, <1>2 DEF ActivationUnfenced, ActivationFails, ActivationTimesOut, Import, SelectIdentity, RequestIdentityRemoval,
              AcknowledgeStage, FailAdvance, ReplaceRegistry, SignOutCore, core
<1>3. ASSUME NEW t \in tokens,
             \/ RefuseRemoval(t) \/ RemovalFails(t)
             \/ ConfirmIdentityRemoval(t) \/ RemovalUnfinalized(t) \/ RemovalUnfenced(t)
      PROVE  FALSE
  BY Zenon, <1>3 DEF RefuseRemoval, RemovalFails, ConfirmIdentityRemoval, RemovalUnfinalized, RemovalUnfenced,
              ReplaceRegistryPreservingSession, FailAdvance, SignOutCore, core
<1>4. ASSUME NEW t \in tasks, CompleteProfileTask(t) PROVE FALSE
  BY Zenon, <1>4 DEF CompleteProfileTask
<1>5. CASE SignOut \/ StartProfileTask \/ BeginStage \/ DropStage \/ CloseFails \/ Close
  BY Zenon, <1>5 DEF SignOut, StartProfileTask, BeginStage, DropStage, CloseFails, Close, SignOutCore, core
<1> QED
  BY Zenon, <1>1, <1>2, <1>3, <1>4, <1>5 DEF Next

(***************************************************************************)
(* Whoever becomes active does so under a new generation that the durable  *)
(* row already holds for them, whatever ran before.                        *)
(***************************************************************************)
THEOREM SessionsAreFenced == Spec => NewSessionIsFenced
<1>1. SessionInv /\ [Next]_sessionVars =>
        [active' # None /\ active' # active =>
           /\ generation' > generation
           /\ durable' = [generation |-> generation', actor |-> active']]_sessionVars
  <2> SUFFICES ASSUME SessionInv, [Next]_sessionVars, active' # None, active' # active
               PROVE  /\ generation' > generation
                      /\ durable' = [generation |-> generation', actor |-> active']
    BY Zenon
  <2>1. PICK k \in Keys : ActivationSucceeds(k)
    BY Zenon, OnlyActivation
  <2> QED
    BY Zenon, <2>1, AdvanceFits DEF ActivationSucceeds
<1> QED
  BY <1>1, SessionInvariant, PTL DEF Spec, NewSessionIsFenced

(***************************************************************************)
(* The revision and the generation never fall, and a step that raises      *)
(* neither leaves what the snapshot shows as it was.                       *)
(***************************************************************************)
Shows == <<registered, session, active, profile>>

Ordered ==
  /\ revision' >= revision /\ generation' >= generation
  /\ revision' = revision /\ generation' = generation => Shows' = Shows

\* The two counters the order is about are natural numbers.
LEMMA CountersAreNatural ==
  ASSUME SessionInv
  PROVE  revision \in Nat /\ generation \in Nat
BY Zenon DEF SessionInv, TypeOK

LEMMA CommandsOrdered ==
  ASSUME SessionInv, NEW k \in Keys,
         \/ ActivationSucceeds(k) \/ ActivationUnfenced(k) \/ ActivationFails(k) \/ ActivationTimesOut(k)
         \/ Import(k) \/ SelectIdentity(k) \/ RequestIdentityRemoval(k) \/ AcknowledgeStage(k)
  PROVE  Ordered
<1>0. revision \in Nat /\ generation \in Nat
  BY Zenon, CountersAreNatural
<1>1. CASE RequestIdentityRemoval(k)
  BY <1>0, <1>1 DEF Ordered, RequestIdentityRemoval, core, fence, Shows
<1>2. CASE ActivationSucceeds(k) \/ ActivationUnfenced(k)
  BY <1>0, <1>2 DEF Ordered, ActivationSucceeds, ActivationUnfenced, Advance, FailAdvance, fence
<1>3. CASE ActivationFails(k) \/ ActivationTimesOut(k)
  BY <1>0, <1>3 DEF Ordered, ActivationFails, ActivationTimesOut, fence
<1>4. CASE Import(k) \/ SelectIdentity(k) \/ AcknowledgeStage(k)
  BY <1>0, <1>4 DEF Ordered, Import, SelectIdentity, AcknowledgeStage, Advance, fence
<1> QED
  BY Zenon, <1>1, <1>2, <1>3, <1>4

LEMMA RemovalsOrdered ==
  ASSUME SessionInv, NEW t \in tokens,
         \/ RefuseRemoval(t) \/ RemovalFails(t)
         \/ ConfirmIdentityRemoval(t) \/ RemovalUnfinalized(t) \/ RemovalUnfenced(t)
  PROVE  Ordered
<1>0. revision \in Nat /\ generation \in Nat
  BY Zenon, CountersAreNatural
<1>1. CASE RefuseRemoval(t)
  BY <1>0, <1>1 DEF Ordered, RefuseRemoval, core, fence, Shows
<1>2. CASE RemovalFails(t) \/ RemovalUnfinalized(t)
  BY <1>0, <1>2 DEF Ordered, RemovalFails, RemovalUnfinalized, RemovalSteps, Advance, fence
<1>3. CASE ConfirmIdentityRemoval(t) \/ RemovalUnfenced(t)
  BY <1>0, <1>3 DEF Ordered, ConfirmIdentityRemoval, RemovalUnfenced, RemovalSteps, Advance, FailAdvance, fence
<1> QED
  BY Zenon, <1>1, <1>2, <1>3

LEMMA OthersOrdered ==
  ASSUME SessionInv,
         \/ \E t \in tasks : CompleteProfileTask(t)
         \/ SignOut \/ StartProfileTask \/ BeginStage \/ DropStage \/ CloseFails \/ Close
         \/ UNCHANGED sessionVars
  PROVE  Ordered
<1>0. revision \in Nat /\ generation \in Nat
  BY Zenon, CountersAreNatural
<1>1. ASSUME NEW t \in tasks, CompleteProfileTask(t) PROVE Ordered
  BY <1>0, <1>1 DEF Ordered, Shows, CompleteProfileTask, Settles, LeavesProfile, UpdateActive, fence
<1>2. CASE SignOut
  <2>1. session = "signed_out" => active = None /\ profile = "none"
    BY Zenon DEF SessionInv, TypeOK
  <2> QED
    BY <1>0, <1>2, <2>1 DEF Ordered, Shows, SignOut, SignOutCore, Advance, FailAdvance
<1>3. CASE StartProfileTask
  BY <1>0, <1>3 DEF Ordered, Shows, StartProfileTask, UpdateActive, fence
<1>4. CASE BeginStage
  BY <1>0, <1>4 DEF Ordered, Shows, BeginStage, InterruptTasks, UpdateActive, fence
<1>5. CASE DropStage \/ CloseFails \/ Close \/ UNCHANGED sessionVars
  BY <1>0, <1>5 DEF Ordered, Shows, DropStage, CloseFails, Close, core, fence, sessionVars
<1> QED
  BY Zenon, <1>1, <1>2, <1>3, <1>4, <1>5

(***************************************************************************)
(* The change stream orders snapshots by revision and generation: a        *)
(* visible change raises one of them and lowers neither, so no receiver    *)
(* takes it for an old one.                                                *)
(***************************************************************************)
THEOREM ChangesAdvance == Spec => VisibleChangeAdvances
<1>1. SessionInv /\ [Next]_sessionVars =>
        [<<registered, session, active, profile>>' # <<registered, session, active, profile>> =>
           /\ revision' >= revision /\ generation' >= generation
           /\ revision' > revision \/ generation' > generation]_sessionVars
  <2> SUFFICES ASSUME SessionInv, [Next]_sessionVars, Shows' # Shows
               PROVE  /\ revision' >= revision /\ generation' >= generation
                      /\ revision' > revision \/ generation' > generation
    BY Zenon DEF Shows
  <2>1. Ordered
    BY Zenon, CommandsOrdered, RemovalsOrdered, OthersOrdered DEF Next
  <2>2. revision \in Nat /\ generation \in Nat /\ revision' \in Nat /\ generation' \in Nat
    BY Zenon, SessionStep DEF SessionInv, TypeOK
  <2> QED
    BY <2>1, <2>2 DEF Ordered
<1> QED
  BY <1>1, SessionInvariant, PTL DEF Spec, VisibleChangeAdvances

(***************************************************************************)
(* Only a confirmed removal takes an identity away.                        *)
(***************************************************************************)
LEMMA OnlyRemoval ==
  ASSUME SessionInv, [Next]_sessionVars, NEW k \in registered \ registered'
  PROVE  \E t \in tokens : t.key = k /\ Removes(t)
<1>1. CASE UNCHANGED sessionVars
  BY Zenon, <1>1 DEF sessionVars, core
<1>2. ASSUME NEW other \in Keys,
             \/ ActivationSucceeds(other) \/ ActivationUnfenced(other) \/ ActivationFails(other)
             \/ ActivationTimesOut(other) \/ Import(other) \/ SelectIdentity(other)
             \/ RequestIdentityRemoval(other) \/ AcknowledgeStage(other)
      PROVE  FALSE
  BY Zenon, <1>2 DEF ActivationSucceeds, ActivationUnfenced, ActivationFails, ActivationTimesOut, Import, SelectIdentity,
              RequestIdentityRemoval, AcknowledgeStage, ReplaceRegistry, core
<1>3. ASSUME NEW t \in tokens, RefuseRemoval(t) \/ RemovalFails(t) PROVE FALSE
  BY Zenon, <1>3 DEF RefuseRemoval, RemovalFails, core
<1>4. ASSUME NEW t \in tokens, ConfirmIdentityRemoval(t) \/ RemovalUnfinalized(t) \/ RemovalUnfenced(t)
      PROVE  t.key = k /\ Removes(t)
  BY Zenon, <1>4 DEF ConfirmIdentityRemoval, RemovalUnfinalized, RemovalUnfenced, ReplaceRegistryPreservingSession
<1>5. ASSUME NEW t \in tasks, CompleteProfileTask(t) PROVE FALSE
  BY Zenon, <1>5 DEF CompleteProfileTask
<1>6. CASE SignOut \/ StartProfileTask \/ BeginStage \/ DropStage \/ CloseFails \/ Close
  BY Zenon, <1>6 DEF SignOut, StartProfileTask, BeginStage, DropStage, CloseFails, Close, core
<1> QED
  BY Zenon, <1>1, <1>2, <1>3, <1>4, <1>5, <1>6 DEF Next

(***************************************************************************)
(* A removal uses up a confirmation that told the user exactly whether it  *)
(* would sign them out, however many commands ran since it was issued.     *)
(***************************************************************************)
THEOREM RemovalsAreAsShown == Spec => RemovalMatchesImpact
<1>1. SessionInv /\ [Next]_sessionVars =>
        [\A k \in registered \ registered' :
           \E t \in tokens \ tokens' : t.key = k /\ (t.signsOut <=> active = k)]_sessionVars
  <2> SUFFICES ASSUME SessionInv, [Next]_sessionVars, NEW k \in registered \ registered'
               PROVE  \E t \in tokens \ tokens' : t.key = k /\ (t.signsOut <=> active = k)
    BY Zenon
  <2>1. PICK t \in tokens : t.key = k /\ Removes(t)
    BY Zenon, OnlyRemoval
  <2>2. t \notin tokens' /\ t.revision = revision
    BY Zenon, <2>1 DEF Removes, ConsumesToken
  <2>3. t.signsOut <=> active = k
    BY Zenon, <2>1, <2>2 DEF SessionInv, TokensFit
  <2> QED
    BY Zenon, <2>1, <2>2, <2>3
<1> QED
  BY <1>1, SessionInvariant, PTL DEF Spec, RemovalMatchesImpact

(***************************************************************************)
(* What decides whether Loading is served: the tasks and their session.    *)
(***************************************************************************)
LEMMA ServedKeeps ==
  ASSUME UNCHANGED <<tasks, foreground, active, generation>>
  PROVE  Served' <=> Served
BY Zenon DEF Served, Correlated, Binding

LEMMA CompletionServes ==
  ASSUME SessionInv, NEW t \in tasks, CompleteProfileTask(t), profile' = "loading", ~ Served'
  PROVE  (profile = "loading" /\ ~ Served) \/ session = "activating"
<1>1. UNCHANGED <<session, active, generation, foreground>> /\ tasks' = tasks \ {t}
  BY Zenon DEF CompleteProfileTask, fence
<1>2. ~ Settles(t) /\ LeavesProfile(t)
  BY Zenon DEF CompleteProfileTask, Settles, UpdateActive
<1>3. profile = "loading" /\ (~ Correlated(t) \/ session # "active")
  BY Zenon, <1>2 DEF LeavesProfile
<1>4. CASE session # "active"
  BY Zenon, <1>3, <1>4 DEF SessionInv, TypeOK
<1>5. CASE ~ Correlated(t)
  <2>1. ASSUME NEW u \in tasks, Correlated(u) PROVE FALSE
    <3>1. u \in tasks' /\ Correlated(u)'
      BY Zenon, <1>1, <1>5, <2>1 DEF Correlated, Binding
    <3> QED
      BY Zenon, <3>1 DEF Served
  <2> QED
    BY Zenon, <1>3, <2>1 DEF Served
<1> QED
  BY Zenon, <1>3, <1>4, <1>5

(***************************************************************************)
(* A profile shown as Loading keeps a task of the current session: neither *)
(* a completion nor an interruption takes the last one away unsettled.     *)
(***************************************************************************)
THEOREM LoadingIsServed == Spec => LoadingStaysServed
<1>1. SessionInv /\ [Next]_sessionVars =>
        [lifecycle' = "ready" /\ profile' = "loading" /\ ~ Served'
           => \/ profile = "loading" /\ ~ Served
              \/ registered' # registered
              \/ session = "activating"]_sessionVars
  <2> SUFFICES ASSUME SessionInv, [Next]_sessionVars, lifecycle' = "ready", profile' = "loading", ~ Served',
                      registered' = registered
               PROVE  (profile = "loading" /\ ~ Served) \/ session = "activating"
    BY Zenon
  <2>1. CASE UNCHANGED <<tasks, foreground, active, generation>> /\ profile' = profile
    BY Zenon, <2>1, ServedKeeps
  <2>2. ASSUME NEW k \in Keys,
               \/ ActivationSucceeds(k) \/ ActivationUnfenced(k) \/ ActivationFails(k) \/ ActivationTimesOut(k)
               \/ Import(k) \/ SelectIdentity(k) \/ RequestIdentityRemoval(k) \/ AcknowledgeStage(k)
        PROVE  UNCHANGED <<tasks, foreground, active, generation>> /\ profile' = profile
    BY Zenon, <2>2 DEF ActivationSucceeds, ActivationUnfenced, ActivationFails, ActivationTimesOut, Import, SelectIdentity,
                RequestIdentityRemoval, AcknowledgeStage, FailAdvance, ReplaceRegistry, SignOutCore, core, fence
  <2>3. ASSUME NEW t \in tokens,
               \/ RefuseRemoval(t) \/ RemovalFails(t)
               \/ ConfirmIdentityRemoval(t) \/ RemovalUnfinalized(t) \/ RemovalUnfenced(t)
        PROVE  UNCHANGED <<tasks, foreground, active, generation>> /\ profile' = profile
    <3>1. CASE ConfirmIdentityRemoval(t) \/ RemovalUnfinalized(t) \/ RemovalUnfenced(t)
      BY Zenon, <3>1 DEF ConfirmIdentityRemoval, RemovalUnfinalized, RemovalUnfenced, Removes,
                  ReplaceRegistryPreservingSession
    <3>2. CASE RefuseRemoval(t) \/ RemovalFails(t)
      BY Zenon, <3>2 DEF RefuseRemoval, RemovalFails, SignOutCore, core, fence
    <3> QED
      BY Zenon, <2>3, <3>1, <3>2
  <2>4. CASE StartProfileTask
    <3>1. PICK i \in 1 .. MaxTasks : tasks' = tasks \cup {[id |-> i, bound |-> foreground]}
      BY Zenon, <2>4 DEF StartProfileTask
    <3> DEFINE t == [id |-> i, bound |-> foreground]
    <3>2. t \in tasks' /\ t.bound = foreground
      BY Zenon, <3>1
    <3> HIDE DEF t
    <3>3. foreground' = Binding(active', generation') /\ foreground' = foreground
      BY Zenon, <2>4 DEF StartProfileTask, fence, Binding
    <3>4. Served'
      BY Zenon, <3>2, <3>3 DEF Served, Correlated
    <3> QED
      BY Zenon, <3>4
  <2>5. CASE BeginStage
    <3>1. profile = "loading" /\ ~ (session = "active" /\ Served)
      BY Zenon, <2>5 DEF BeginStage, InterruptTasks, UpdateActive, Served
    <3> QED
      BY Zenon, <3>1 DEF SessionInv, TypeOK
  <2>6. CASE SignOut \/ DropStage \/ CloseFails \/ Close
    BY Zenon, <2>1, <2>6 DEF SignOut, DropStage, CloseFails, Close, SignOutCore, core, fence
  <2>7. CASE UNCHANGED sessionVars
    BY Zenon, <2>1, <2>7 DEF sessionVars, core, fence
  <2> QED
    BY Zenon, <2>1, <2>2, <2>3, <2>4, <2>5, <2>6, <2>7, CompletionServes DEF Next
<1> QED
  BY <1>1, SessionInvariant, PTL DEF Spec, LoadingStaysServed
-----------------------------------------------------------------------------
(***************************************************************************)
(* The order of profile events.                                            *)
(***************************************************************************)
LEMMA EventFields ==
  ASSUME NEW e \in ProfileEvents
  PROVE  e.at \in Nat /\ e.id \in Nat /\ e = [at |-> e.at, id |-> e.id]
<1>1. e.at \in Times /\ e.id \in EventIds /\ e = [at |-> e.at, id |-> e.id]
  BY Zenon DEF ProfileEvents
<1>2. PICK b \in Nat : Times \subseteq 0..b
  BY ProfileAssumption
<1>3. e.at \in 0..b /\ e.id \in Nat
  BY Zenon, <1>1, <1>2, ProfileAssumption
<1> QED
  BY <1>1, <1>2, <1>3

LEMMA NewerIsTotal ==
  ASSUME NEW e \in ProfileEvents, NEW f \in ProfileEvents
  PROVE  /\ e = f \/ Newer(e, f) \/ Newer(f, e)
         /\ ~ (Newer(e, f) /\ Newer(f, e)) /\ ~ Newer(e, e)
<1>1. /\ e.at \in Nat /\ e.id \in Nat /\ e = [at |-> e.at, id |-> e.id]
      /\ f.at \in Nat /\ f.id \in Nat /\ f = [at |-> f.at, id |-> f.id]
  BY Zenon, EventFields
<1>2. e.at = f.at /\ e.id = f.id => e = f
  BY Zenon, <1>1
<1> QED
  BY <1>1, <1>2 DEF Newer

LEMMA NewerIsTransitive ==
  ASSUME NEW e \in ProfileEvents, NEW f \in ProfileEvents, NEW g \in ProfileEvents,
         Newer(e, f), Newer(f, g)
  PROVE  Newer(e, g)
BY EventFields DEF Newer

\* A non-empty set of numbers has a least one.
LEMMA LeastExists ==
  ASSUME NEW S, S # {}, S \subseteq Nat
  PROVE  \E m \in S : \A n \in S : m <= n
<1> DEFINE less == OpToRel(<, Nat)
<1>1. IsWellFoundedOn(less, Nat)
  BY Zenon, NatLessThanWellFounded
<1>2. \A p, q \in Nat : p < q => <<p, q>> \in less
  BY Zenon DEF OpToRel
<1> HIDE DEF less
<1>3. PICK m \in S : \A n \in S : ~ (<<n, m>> \in less)
  BY Zenon, <1>1, WFMin
<1>4. ASSUME NEW n \in S PROVE m <= n
  <2>1. m \in Nat /\ n \in Nat /\ ~ (n < m)
    BY <1>2, <1>3, Zenon
  <2> QED
    BY <2>1
<1> QED
  BY Zenon, <1>4

\* ... and a bounded one has a greatest.
LEMMA GreatestExists ==
  ASSUME NEW S, S # {}, NEW b \in Nat, S \subseteq 0..b
  PROVE  \E m \in S : \A n \in S : n <= m
<1> DEFINE R == {b - n : n \in S}
<1>1. R # {} /\ R \subseteq Nat
  <2>1. \A n \in 0..b : b - n \in Nat
    OBVIOUS
  <2> QED
    BY Zenon, <2>1
<1> HIDE DEF R
<1>2. PICK d \in R : \A c \in R : d <= c
  BY Zenon, <1>1, LeastExists
<1>3. PICK m \in S : d = b - m
  BY Zenon, <1>2 DEF R
<1>4. ASSUME NEW n \in S PROVE n <= m
  <2>1. d <= b - n
    BY Zenon, <1>2 DEF R
  <2>2. n \in 0..b /\ m \in 0..b
    BY Zenon
  <2> QED
    BY <1>3, <2>1, <2>2
<1> QED
  BY Zenon, <1>4

\* select_latest_kind0 finds the latest event of what was heard.
LEMMA LatestExists ==
  ASSUME NEW S \in SUBSET ProfileEvents, S # {}
  PROVE  \E e \in S : \A f \in S \ {e} : Newer(e, f)
<1> DEFINE ats == {e.at : e \in S}
<1>1. PICK b \in Nat : Times \subseteq 0..b
  BY ProfileAssumption
<1>2. ats # {} /\ ats \subseteq 0..b
  BY Zenon, <1>1 DEF ProfileEvents
<1>3. PICK at \in ats : \A other \in ats : other <= at
  BY Zenon, <1>1, <1>2, GreatestExists
<1> DEFINE ids == {e.id : e \in {f \in S : f.at = at}}
<1>4. ids # {} /\ ids \subseteq Nat
  BY Zenon, <1>3, EventFields
<1>5. PICK id \in ids : \A other \in ids : id <= other
  BY Zenon, <1>4, LeastExists
<1>6. PICK e \in S : e.at = at /\ e.id = id
  BY Zenon, <1>5
<1>7. ASSUME NEW f \in S \ {e} PROVE Newer(e, f)
  <2>1. f.at <= e.at /\ (f.at = e.at => e.id <= f.id)
    BY Zenon, <1>3, <1>5, <1>6
  <2>2. /\ e.at \in Nat /\ e.id \in Nat /\ e = [at |-> e.at, id |-> e.id]
        /\ f.at \in Nat /\ f.id \in Nat /\ f = [at |-> f.at, id |-> f.id]
    BY Zenon, EventFields
  <2>3. ~ (e.at = f.at /\ e.id = f.id)
    BY Zenon, <2>2
  <2> QED
    BY <2>1, <2>2, <2>3 DEF Newer
<1> QED
  BY Zenon, <1>7

LEMMA SelectLatestIs ==
  ASSUME NEW S \in SUBSET ProfileEvents, NEW e \in S, \A f \in S \ {e} : Newer(e, f)
  PROVE  SelectLatest(S) = e
<1>1. ASSUME NEW d \in S, \A f \in S \ {d} : Newer(d, f) PROVE d = e
  BY Zenon, <1>1, NewerIsTotal
<1> QED
  BY Zenon, <1>1 DEF SelectLatest

LEMMA SelectLatestType ==
  ASSUME NEW S \in SUBSET ProfileEvents
  PROVE  SelectLatest(S) \in ProfileEvents \cup {Nobody}
BY Zenon, LatestExists DEF SelectLatest

(***************************************************************************)
(* The inductive invariant: the row of the cache is the latest event that  *)
(* was saved, and what is shown is one that was.                           *)
(***************************************************************************)
ProfileAnswers ==
  {Waiting} \cup [kind : {"fetched", "offline", "invalid_data"}, event : ProfileEvents \cup {Nobody}]

ProfileRows == [event : ProfileEvents, status : {"success", "offline", "invalid_data"}]

\* e is in S and the latest of it.
IsLatest(e, S) == e \in S /\ \A f \in S \ {e} : Newer(e, f)

ProfileInv ==
  /\ saved \subseteq ProfileEvents
  /\ refreshes \in [DOMAIN refreshes -> ProfileAnswers]
  /\ saved = {} => cache = Nobody
  /\ saved # {} => cache \in ProfileRows /\ IsLatest(cache.event, saved)
  /\ shown # Nobody => shown \in saved

LEMMA RowIsThere ==
  ASSUME NEW row \in ProfileRows
  PROVE  row # Nobody /\ row.event \in ProfileEvents /\ row.event # Nobody
BY Zenon, ProfileAssumption DEF ProfileRows

LEMMA CachedRow ==
  ASSUME NEW e \in ProfileEvents, NEW status \in {"success", "offline", "invalid_data"}
  PROVE  Cached(e, status) \in ProfileRows /\ Cached(e, status).event = e
BY Zenon DEF Cached, ProfileRows

\* save_profile keeps the later of the row and the new event.
LEMMA SaveKeepsLatest ==
  ASSUME ProfileInv, NEW e \in ProfileEvents
  PROVE  SaveProfile(e) \in ProfileRows /\ IsLatest(SaveProfile(e).event, saved \cup {e})
<1>1. "success" \in {"success", "offline", "invalid_data"}
  BY Zenon
<1>2. Cached(e, "success") \in ProfileRows /\ Cached(e, "success").event = e
  BY Zenon, <1>1, CachedRow
<1>3. CASE saved = {}
  <2>1. SaveProfile(e) = Cached(e, "success")
    BY Zenon, <1>3 DEF ProfileInv, SaveProfile
  <2> QED
    BY Zenon, <1>2, <1>3, <2>1 DEF IsLatest
<1>4. CASE saved # {}
  <2>1. /\ cache \in ProfileRows /\ cache # Nobody /\ cache.event \in ProfileEvents
        /\ IsLatest(cache.event, saved) /\ saved \subseteq ProfileEvents
    BY Zenon, <1>4, RowIsThere DEF ProfileInv
  <2>2. CASE Newer(e, cache.event)
    <3>1. SaveProfile(e) = Cached(e, "success")
      BY Zenon, <2>2 DEF SaveProfile
    <3>2. ASSUME NEW f \in saved \ {e} PROVE Newer(e, f)
      BY Zenon, <2>1, <2>2, NewerIsTransitive DEF IsLatest
    <3> QED
      BY Zenon, <1>2, <3>1, <3>2 DEF IsLatest
  <2>3. CASE ~ Newer(e, cache.event)
    <3>1. SaveProfile(e) = cache
      BY Zenon, <2>1, <2>3 DEF SaveProfile
    <3>2. e = cache.event \/ Newer(cache.event, e)
      BY Zenon, <2>1, <2>3, NewerIsTotal
    <3> QED
      BY Zenon, <2>1, <3>1, <3>2 DEF IsLatest
  <2> QED
    BY Zenon, <2>2, <2>3
<1> QED
  BY Zenon, <1>3, <1>4

\* An audit of a failed fetch leaves the event of the row alone.
LEMMA StatusKeepsEvent ==
  ASSUME NEW row \in ProfileRows, NEW status \in {"offline", "invalid_data"}
  PROVE  RecordStatus(row, status) \in ProfileRows /\ RecordStatus(row, status).event = row.event
<1>1. row # Nobody /\ row.event \in ProfileEvents
  BY Zenon, RowIsThere
<1>2. status \in {"success", "offline", "invalid_data"}
  BY Zenon
<1> QED
  BY Zenon, <1>1, <1>2, CachedRow DEF RecordStatus

LEMMA ProfileInvInit == ASSUME ProfileInit PROVE ProfileInv
<1>1. refreshes = <<>> /\ DOMAIN refreshes = {} /\ saved = {} /\ cache = Nobody /\ shown = Nobody
  BY DEF ProfileInit
<1>2. refreshes \in [DOMAIN refreshes -> ProfileAnswers]
  BY <1>1
<1> QED
  BY Zenon, <1>1, <1>2 DEF ProfileInv

LEMMA NoRefreshes ==
  ASSUME refreshes' = <<>>
  PROVE  (refreshes \in [DOMAIN refreshes -> ProfileAnswers])'
<1>1. DOMAIN refreshes' = {}
  OBVIOUS
<1> QED
  BY <1>1

LEMMA ForgetType ==
  ASSUME ProfileInv, NEW t, Forget(t)
  PROVE  (refreshes \in [DOMAIN refreshes -> ProfileAnswers])'
BY Zenon DEF ProfileInv, Forget

\* What the answer of a finished fetch may be.
LEMMA AnswerType ==
  ASSUME ProfileInv, NEW t, Answered(t)
  PROVE  /\ refreshes[t].kind \in {"fetched", "offline", "invalid_data"}
         /\ refreshes[t].event \in ProfileEvents \cup {Nobody}
BY Zenon DEF ProfileInv, ProfileAnswers, Answered

\* A step that saves nothing may show nothing, the same, or the cached event.
LEMMA UnsavedStep ==
  ASSUME ProfileInv, saved' = saved,
         cache' = cache \/ (\E status \in {"offline", "invalid_data"} : cache' = RecordStatus(cache, status)),
         shown' \in {shown, Nobody} \/ (cache # Nobody /\ shown' = cache.event),
         (refreshes \in [DOMAIN refreshes -> ProfileAnswers])'
  PROVE  ProfileInv'
<1>1. CASE saved = {}
  <2>1. cache = Nobody /\ cache' = Nobody
    BY Zenon, <1>1 DEF ProfileInv, RecordStatus
  <2> QED
    BY Zenon, <1>1, <2>1 DEF ProfileInv
<1>2. CASE saved # {}
  <2>1. cache \in ProfileRows /\ IsLatest(cache.event, saved)
    BY Zenon, <1>2 DEF ProfileInv
  <2>2. cache' \in ProfileRows /\ cache'.event = cache.event
    BY Zenon, <2>1, StatusKeepsEvent
  <2>3. shown' # Nobody => shown' \in saved
    BY Zenon, <2>1 DEF ProfileInv, IsLatest
  <2> QED
    BY Zenon, <1>2, <2>1, <2>2, <2>3 DEF ProfileInv, IsLatest
<1> QED
  BY Zenon, <1>1, <1>2

\* A step that saves an event.
LEMMA SavedStep ==
  ASSUME ProfileInv, NEW e \in ProfileEvents, saved' = saved \cup {e},
         \/ cache' = SaveProfile(e)
         \/ \E status \in {"offline", "invalid_data"} : cache' = RecordStatus(SaveProfile(e), status),
         shown' \in {shown, cache'.event},
         (refreshes \in [DOMAIN refreshes -> ProfileAnswers])'
  PROVE  ProfileInv'
<1>1. PICK row \in ProfileRows : row = SaveProfile(e) /\ IsLatest(row.event, saved \cup {e})
  BY Zenon, SaveKeepsLatest
<1>2. cache' \in ProfileRows /\ cache'.event = row.event
  BY Zenon, <1>1, StatusKeepsEvent
<1>3. IsLatest(cache'.event, saved')
  BY Zenon, <1>1, <1>2
<1>4. shown' # Nobody => shown' \in saved'
  BY Zenon, <1>3 DEF ProfileInv, IsLatest
<1> QED
  BY Zenon, <1>2, <1>3, <1>4 DEF ProfileInv, IsLatest

LEMMA RefreshStep ==
  ASSUME ProfileInv, NEW t \in Refreshes,
         BeginRefresh(t) \/ FetchProfile(t) \/ CompleteFetched(t)
           \/ CompleteEmpty(t) \/ CompleteFailed(t) \/ CompleteCut(t)
  PROVE  ProfileInv'
<1>1. CASE BeginRefresh(t)
  <2>1. (refreshes \in [DOMAIN refreshes -> ProfileAnswers])'
    BY Zenon, <1>1 DEF BeginRefresh, ProfileInv, ProfileAnswers
  <2> QED
    BY Zenon, <1>1, <2>1, UnsavedStep DEF BeginRefresh
<1>2. CASE FetchProfile(t)
  <2>1. PICK answer \in FetchAnswers : refreshes' = [refreshes EXCEPT ![t] = answer]
    BY Zenon, <1>2 DEF FetchProfile
  <2>2. answer \in ProfileAnswers
    <3>1. CASE \E heard \in SUBSET ProfileEvents : answer = Fetched(SelectLatest(heard))
      BY <3>1, SelectLatestType DEF Fetched, ProfileAnswers
    <3>2. CASE answer \in {FetchFailed("offline"), FetchFailed("invalid_data")}
      BY <3>2 DEF FetchFailed, ProfileAnswers
    <3> QED
      BY Zenon, <2>1, <3>1, <3>2 DEF FetchAnswers
  <2>3. (refreshes \in [DOMAIN refreshes -> ProfileAnswers])'
    BY Zenon, <2>1, <2>2 DEF ProfileInv
  <2> QED
    BY Zenon, <1>2, <2>3, UnsavedStep DEF FetchProfile
<1>3. CASE CompleteFetched(t)
  <2>1. PICK e \in ProfileEvents : e = refreshes[t].event
    BY Zenon, <1>3, AnswerType DEF CompleteFetched
  <2>2. (refreshes \in [DOMAIN refreshes -> ProfileAnswers])'
    BY Zenon, <1>3, ForgetType DEF CompleteFetched
  <2> QED
    BY Zenon, <1>3, <2>1, <2>2, SavedStep DEF CompleteFetched
<1>4. CASE CompleteEmpty(t)
  BY Zenon, <1>4, ForgetType, UnsavedStep DEF CompleteEmpty
<1>5. CASE CompleteFailed(t)
  <2>1. refreshes[t].kind \in {"offline", "invalid_data"}
    BY Zenon, <1>5, AnswerType DEF CompleteFailed
  <2>2. (refreshes \in [DOMAIN refreshes -> ProfileAnswers])'
    BY Zenon, <1>5, ForgetType DEF CompleteFailed
  <2> QED
    BY Zenon, <1>5, <2>1, <2>2, UnsavedStep DEF CompleteFailed
<1>6. CASE CompleteCut(t)
  <2>1. PICK e \in ProfileEvents : e = refreshes[t].event
    BY Zenon, <1>6, AnswerType DEF CompleteCut
  <2>2. (refreshes \in [DOMAIN refreshes -> ProfileAnswers])'
    BY Zenon, <1>6, ForgetType DEF CompleteCut
  <2>3. shown' = shown
    BY Zenon, <1>6 DEF CompleteCut
  <2>4. \/ saved' = saved \cup {e} /\ cache' \in {SaveProfile(e), RecordStatus(SaveProfile(e), "offline")}
        \/ saved' = saved /\ cache' \in {cache, RecordStatus(cache, "offline")}
    BY Zenon, <1>6, <2>1 DEF CompleteCut
  <2> QED
    BY Zenon, <2>2, <2>3, <2>4, SavedStep, UnsavedStep
<1> QED
  BY Zenon, <1>1, <1>2, <1>3, <1>4, <1>5, <1>6

LEMMA ProfileInvStep == ProfileInv /\ [ProfileNext]_profileVars => ProfileInv'
<1> SUFFICES ASSUME ProfileInv, [ProfileNext]_profileVars PROVE ProfileInv'
  BY Zenon
<1>1. CASE UNCHANGED profileVars \/ Register
  <2>1. UNCHANGED <<cache, shown, refreshes, saved>>
    BY Zenon, <1>1 DEF profileVars, Register
  <2> QED
    BY Zenon, <2>1 DEF ProfileInv
<1>2. CASE ActivateAccount \/ LeaveAccount
  <2>1. /\ refreshes' = <<>> /\ UNCHANGED <<cache, saved>>
        /\ shown' = Nobody \/ (cache # Nobody /\ shown' = cache.event)
    BY Zenon, <1>2 DEF ActivateAccount, LeaveAccount
  <2> QED
    BY Zenon, <2>1, NoRefreshes, UnsavedStep
<1>3. CASE RemoveAccount
  <2>1. refreshes' = <<>> /\ saved' = {} /\ cache' = Nobody /\ shown' = Nobody
    BY Zenon, <1>3 DEF RemoveAccount
  <2> QED
    BY Zenon, <2>1, NoRefreshes DEF ProfileInv
<1> QED
  BY Zenon, <1>1, <1>2, <1>3, RefreshStep DEF ProfileNext

LEMMA ProfileInvariant == ProfileSpec => []ProfileInv
BY ProfileInvInit, ProfileInvStep, PTL DEF ProfileSpec

\* In whatever order refreshes complete and wherever a deadline cuts them, the
\* row that save_profile keeps is the latest event saved for the account.
THEOREM CacheIsLatest == ProfileSpec => []CacheKeepsTheLatest
<1>1. ProfileInv => CacheKeepsTheLatest
  <2> SUFFICES ASSUME ProfileInv PROVE CacheKeepsTheLatest
    BY Zenon
  <2>1. CASE saved = {}
    BY Zenon, <2>1 DEF ProfileInv, CacheKeepsTheLatest
  <2>2. CASE saved # {}
    <3>1. cache # Nobody /\ IsLatest(cache.event, saved) /\ saved \subseteq ProfileEvents
      BY Zenon, <2>2, RowIsThere DEF ProfileInv
    <3>2. SelectLatest(saved) = cache.event
      BY Zenon, <3>1, SelectLatestIs DEF IsLatest
    <3> QED
      BY Zenon, <2>2, <3>1, <3>2 DEF CacheKeepsTheLatest
  <2> QED
    BY Zenon, <2>1, <2>2
<1> QED
  BY <1>1, ProfileInvariant, PTL

\* While an account stays active the profile it shows is never replaced by an
\* older one (complete_successful_profile_fetch reloads the row it saved over).
THEOREM ShownNeverRegresses == ProfileSpec => ProfileNeverRegresses
<1>1. ProfileInv /\ ProfileInv' /\ [ProfileNext]_profileVars =>
        [account = "active" /\ account' = "active" /\ shown # Nobody
           => shown' # Nobody /\ ~Newer(shown, shown')]_profileVars
  <2> SUFFICES ASSUME ProfileInv, ProfileInv', ProfileNext, account = "active", account' = "active",
                      shown # Nobody
               PROVE  shown' # Nobody /\ ~Newer(shown, shown')
    BY Zenon
  <2>1. shown \in saved /\ shown \in ProfileEvents
    BY Zenon DEF ProfileInv
  <2>2. CASE shown' = shown
    BY Zenon, <2>1, <2>2, NewerIsTotal
  <2>3. CASE shown' # shown
    <3>1. shown' = cache'.event /\ saved \subseteq saved'
      <4>1. CASE ActivateAccount
        <5>1. cache # Nobody
          BY Zenon, <2>1, RowIsThere DEF ProfileInv
        <5> QED
          BY Zenon, <4>1, <5>1 DEF ActivateAccount
      <4>2. CASE \E t \in Refreshes : CompleteFetched(t)
        BY Zenon, <4>2 DEF CompleteFetched
      <4>3. ~ (Register \/ LeaveAccount \/ RemoveAccount)
        BY Zenon DEF Register, LeaveAccount, RemoveAccount
      <4>4. ASSUME NEW t \in Refreshes
            PROVE  ~ (BeginRefresh(t) \/ FetchProfile(t) \/ CompleteEmpty(t) \/ CompleteFailed(t)
                        \/ CompleteCut(t))
        BY Zenon, <2>3 DEF BeginRefresh, FetchProfile, CompleteEmpty, CompleteFailed, CompleteCut
      <4> QED
        BY Zenon, <4>1, <4>2, <4>3, <4>4 DEF ProfileNext
    <3>2. IsLatest(shown', saved') /\ saved' \subseteq ProfileEvents /\ shown \in saved'
      BY Zenon, <2>1, <3>1 DEF ProfileInv
    <3>3. Newer(shown', shown) /\ shown' \in ProfileEvents
      BY <2>3, <3>2 DEF IsLatest
    <3> QED
      BY Zenon, <2>1, <3>3, NewerIsTotal, ProfileAssumption
  <2> QED
    BY Zenon, <2>2, <2>3
<1> QED
  BY <1>1, ProfileInvariant, PTL DEF ProfileSpec, ProfileNeverRegresses
=============================================================================
