---------------------------- MODULE HubSubmission ----------------------------
(***************************************************************************)
(* Hub submissions in the protected database.  A mutation is admitted in   *)
(* one transaction, which keeps its original input and returns the only    *)
(* in-memory grant; a second transaction applies the effect or a third one *)
(* records its rejection.  The durable session row fences both: SQL        *)
(* triggers compare it with the scope the submission was admitted under.   *)
(* Calls of several operations may be in flight, the session may advance   *)
(* and the process may restart between any two transactions, and a call    *)
(* that misses its deadline is dropped wherever it is.                     *)
(***************************************************************************)
EXTENDS Naturals, FiniteSets

CONSTANTS Operations,         \* operation identifiers
          Actors,             \* local identities
          Mutations,          \* submitted inputs
          KindOf,             \* the kind of each mutation
          Legacy,             \* operations recorded before admissions existed
          None,
          OrdinaryCapacity,   \* ORDINARY_ADMISSION_CAPACITY
          ObservedCapacity,   \* capacity of completed reports and of observations
          MaxRuntime,         \* bound on restarts
          MaxGeneration       \* bound on session generations, less one per restart

Kinds == {"initialize", "planned", "ordinary", "closing", "report", "observation", "review"}

ASSUME HubAssumption ==
  /\ KindOf \in [Mutations -> Kinds]
  /\ Legacy \subseteq Operations
  /\ None \notin Actors \cup Mutations
  /\ OrdinaryCapacity \in Nat /\ ObservedCapacity \in Nat
  /\ MaxRuntime \in Nat /\ MaxGeneration \in Nat

Scope == [runtime: Nat, generation: Nat, actor: Actors]
Submission == [mutation: Mutations, scope: Scope]
Root == [mutation: Mutations, actor: Actors]

NoRecord == [mutation |-> None]

VARIABLES session,      \* hub_runtime_session
          owner,        \* hub_context
          submission,   \* hub_submissions
          rejected,     \* hub_submission_rejections
          root,         \* hub_history, hub_reference_versions, hub_stock_operations
          openFacts,    \* unreviewed reports and unused observations
          call,         \* calls in flight: granted, or failed and still to be rejected
          told,         \* the definite answers callers received
          applied       \* how often each effect was applied

durableVars == <<session, owner, submission, rejected, root, openFacts, applied>>
hubVars == <<durableVars, call, told>>

Kind(op) == KindOf[submission[op].mutation]

Init ==
  /\ session = [runtime |-> 0, generation |-> 0, actor |-> None]
  /\ owner \in Actors \cup {None}
  /\ submission = [op \in Operations |-> NoRecord]
  /\ rejected = {}
  /\ root \in [Operations -> {NoRecord} \cup Root]
  /\ \A op \in Operations : root[op] # NoRecord =>
       /\ op \in Legacy /\ root[op].actor = owner
       /\ KindOf[root[op].mutation] \in {"planned", "ordinary"}
  /\ openFacts = {}
  /\ call = [op \in Operations |-> "idle"]
  /\ told = [op \in Operations |-> {}]
  /\ applied = [op \in Operations |-> IF root[op] = NoRecord THEN 0 ELSE 1]

(***************************************************************************)
(* record_on: the status of an admitted operation.                         *)
(***************************************************************************)
Submitted(op) == submission[op] # NoRecord

HasRoot(op) == root[op] # NoRecord

Unresolved(op) == Submitted(op) /\ op \notin rejected /\ ~ HasRoot(op)

(***************************************************************************)
(* begin_hub_runtime: a restart loses every grant and starts signed out.   *)
(***************************************************************************)
BeginHubRuntime ==
  /\ session.runtime < MaxRuntime
  /\ session' = [runtime |-> session.runtime + 1, generation |-> 0, actor |-> None]
  /\ call' = [op \in Operations |-> "idle"]
  /\ UNCHANGED <<owner, submission, rejected, root, openFacts, told, applied>>

AdvanceHubSession(a) ==
  /\ session.runtime + session.generation < MaxGeneration
  /\ session' = [session EXCEPT !.generation = @ + 1, !.actor = a]
  /\ UNCHANGED <<owner, submission, rejected, root, openFacts, call, told, applied>>

(***************************************************************************)
(* prepare_on.  The scope is the current session; any other is refused     *)
(* before a write.  Pending submissions, unreviewed reports and unused     *)
(* observations refuse every planned kind.                                 *)
(***************************************************************************)
Authorized(m) ==
  /\ session.actor # None
  /\ IF KindOf[m] = "initialize" THEN owner \in {None, session.actor} ELSE owner = session.actor

PlannedKind(kind) == kind \in {"initialize", "planned"}

Uncertainty(op) == openFacts # {} \/ \E other \in Operations \ {op} : Unresolved(other)

AdmittedOf(kinds) == {op \in Operations : Submitted(op) /\ Kind(op) \in kinds}

Completed(kind) == {op \in AdmittedOf({kind}) : HasRoot(op)}

\* Mutant of AdmissionRoom.
AdmissionRoomOffByOne(m) ==
  CASE KindOf[m] \in {"report", "observation"} -> Cardinality(AdmittedOf({KindOf[m]})) <= ObservedCapacity
    [] KindOf[m] \in {"closing", "review"} -> TRUE
    [] OTHER -> Cardinality(AdmittedOf({"initialize", "planned", "ordinary"})) <= OrdinaryCapacity

AdmissionRoom(m) ==
  CASE KindOf[m] \in {"report", "observation"} -> Cardinality(AdmittedOf({KindOf[m]})) <= ObservedCapacity
    [] KindOf[m] \in {"closing", "review"} -> TRUE
    [] OTHER -> Cardinality(AdmittedOf({"initialize", "planned", "ordinary"})) < OrdinaryCapacity

Admit(op, m) ==
  /\ Authorized(m)
  /\ ~ Submitted(op) /\ ~ HasRoot(op)
  /\ PlannedKind(KindOf[m]) => ~ Uncertainty(op)
  /\ KindOf[m] = "review" => openFacts # {}
  /\ AdmissionRoom(m)
  /\ submission' = [submission EXCEPT ![op] = [mutation |-> m, scope |-> session]]
  /\ call' \in {call, [call EXCEPT ![op] = "granted"]}   \* an unconfirmed commit returns no grant
  /\ UNCHANGED <<session, owner, rejected, root, openFacts, told, applied>>

(***************************************************************************)
(* A known operation with the same intent answers from its original: a     *)
(* recorded one returns its receipt, a pending one stays unknown.          *)
(***************************************************************************)
SameIntent(op, m) ==
  IF Submitted(op)
  THEN submission[op].mutation = m /\ submission[op].scope.actor = session.actor
  ELSE root[op] = [mutation |-> m, actor |-> session.actor]

Learn(op, answer) == told' = [told EXCEPT ![op] = @ \cup {answer}]

AnswerRecorded(op) ==
  /\ HasRoot(op)
  /\ Learn(op, "recorded")
  /\ UNCHANGED <<durableVars, call>>

AnswerRejected(op) ==
  /\ op \in rejected
  /\ Learn(op, "rejected")
  /\ UNCHANGED <<durableVars, call>>

AnswerPending(op) ==
  /\ Unresolved(op)
  /\ UNCHANGED hubVars

Answer(op) == AnswerRecorded(op) \/ AnswerRejected(op) \/ AnswerPending(op)

SubmitAgain(op, m) == Authorized(m) /\ SameIntent(op, m) /\ Answer(op)

ReadSubmission(op, a) ==
  /\ Submitted(op)
  /\ IF owner = None THEN submission[op].scope.actor = a ELSE owner = a
  /\ Answer(op)

(***************************************************************************)
(* The effect transaction of execute and the triggers it meets.            *)
(***************************************************************************)
\* Mutant of EffectGuard.
EffectGuardUnfenced(op) == Submitted(op) /\ op \notin rejected

EffectGuard(op) ==
  /\ Submitted(op) /\ op \notin rejected
  /\ submission[op].scope = session

\* Mutant of UncertainStockGuard.
StockGuardAbsent(op) == TRUE

UncertainStockGuard(op) ==
  Kind(op) = "planned" =>
    /\ \A report \in openFacts : Kind(report) # "report"
    /\ \A other \in Operations \ {op} : ~ Unresolved(other)

ObservedStockGuard(op) ==
  Kind(op) = "planned" => \A seen \in openFacts : Kind(seen) # "observation"

Applies(op) ==
  /\ EffectGuard(op) /\ UncertainStockGuard(op) /\ ObservedStockGuard(op)
  /\ ~ HasRoot(op)
  /\ root' = [root EXCEPT ![op] = [mutation |-> submission[op].mutation,
                                   actor |-> submission[op].scope.actor]]
  /\ applied' = [applied EXCEPT ![op] = @ + 1]
  /\ CASE Kind(op) = "initialize" ->
            owner = None /\ owner' = submission[op].scope.actor /\ UNCHANGED openFacts
       [] Kind(op) \in {"report", "observation"} ->
            /\ owner = session.actor
            /\ Cardinality(Completed(Kind(op))) < ObservedCapacity
            /\ openFacts' = openFacts \cup {op} /\ UNCHANGED owner
       [] Kind(op) = "review" ->
            owner = session.actor /\ (\E closed \in openFacts : openFacts' = openFacts \ {closed}) /\ UNCHANGED owner
       [] OTHER -> owner = session.actor /\ UNCHANGED <<openFacts, owner>>
  /\ UNCHANGED <<session, submission, rejected>>

EndCall(op) == call' = [call EXCEPT ![op] = "idle"]

Execute(op) ==
  /\ call[op] = "granted"
  /\ Applies(op)
  /\ EndCall(op)
  /\ Learn(op, "recorded") \/ UNCHANGED told   \* an unconfirmed commit, or a dropped call

(***************************************************************************)
(* execute_fresh after a certain rollback: an observed fact stays pending, *)
(* anything else goes on to its rejection.                                 *)
(***************************************************************************)
PreservesFact(op) == Kind(op) \in {"report", "observation"}

ExecuteFails(op) ==
  /\ call[op] = "granted"
  /\ IF PreservesFact(op) THEN EndCall(op) ELSE call' = [call EXCEPT ![op] = "failed"]
  /\ UNCHANGED <<durableVars, told>>

RejectOn(op) ==
  /\ call[op] = "failed"
  /\ ~ HasRoot(op)
  /\ rejected' = rejected \cup {op}
  /\ EndCall(op)
  /\ Learn(op, "rejected") \/ UNCHANGED told
  /\ UNCHANGED <<session, owner, submission, root, openFacts, applied>>

\* Mutant of LoseCall.
LoseCallAsRejected(op) ==
  /\ call[op] # "idle"
  /\ EndCall(op)
  /\ IF call[op] = "failed" THEN Learn(op, "rejected") ELSE UNCHANGED told
  /\ UNCHANGED durableVars

(***************************************************************************)
(* A deadline drops the call, or a rollback or the rejection itself is not *)
(* confirmed: the caller is told that the outcome is unknown.              *)
(***************************************************************************)
LoseCall(op) ==
  /\ call[op] # "idle"
  /\ EndCall(op)
  /\ UNCHANGED <<durableVars, told>>

Next ==
  \/ BeginHubRuntime
  \/ \E a \in Actors \cup {None} : AdvanceHubSession(a)
  \/ \E op \in Operations :
       \/ \E m \in Mutations : Admit(op, m) \/ SubmitAgain(op, m)
       \/ \E a \in Actors : ReadSubmission(op, a)
       \/ Execute(op) \/ ExecuteFails(op) \/ RejectOn(op) \/ LoseCall(op)

Spec == Init /\ [][Next]_hubVars
-----------------------------------------------------------------------------
Shape ==
  /\ session \in [runtime: Nat, generation: Nat, actor: Actors \cup {None}]
  /\ owner \in Actors \cup {None}
  /\ submission \in [Operations -> {NoRecord} \cup Submission]
  /\ rejected \subseteq Operations
  /\ root \in [Operations -> {NoRecord} \cup Root]
  /\ openFacts \subseteq Operations
  /\ call \in [Operations -> {"idle", "granted", "failed"}]
  /\ told \in [Operations -> SUBSET {"recorded", "rejected"}]
  /\ applied \in [Operations -> Nat]

(***************************************************************************)
(* Every table has its shape, and the admissions stay within the capacity  *)
(* of their kind: the ordinary ones within theirs, reports and             *)
(* observations with the one extra slot that keeps a pending fact, which   *)
(* is never completed.                                                     *)
(***************************************************************************)
TypeOK ==
  /\ Shape
  /\ Cardinality(AdmittedOf({"initialize", "planned", "ordinary"})) <= OrdinaryCapacity
  /\ \A kind \in {"report", "observation"} :
       /\ Cardinality(AdmittedOf({kind})) <= ObservedCapacity + 1
       /\ Cardinality(Completed(kind)) <= ObservedCapacity

(***************************************************************************)
(* An effect is applied at most once, however often its operation is       *)
(* submitted, retried or read, and exactly when its original exists.       *)
(***************************************************************************)
EffectAtMostOnce == \A op \in Operations : applied[op] = IF HasRoot(op) THEN 1 ELSE 0

(***************************************************************************)
(* A definite answer stays true: an operation reported as rejected has and *)
(* will have no effect, one reported as recorded has its effect.           *)
(***************************************************************************)
AnswersStayTrue ==
  \A op \in Operations :
    /\ "rejected" \in told[op] => op \in rejected /\ ~ HasRoot(op)
    /\ "recorded" \in told[op] => HasRoot(op) /\ op \notin rejected

(***************************************************************************)
(* Effects are applied once and definite answers stay true.                *)
(***************************************************************************)
OutcomesAreFinal == EffectAtMostOnce /\ AnswersStayTrue

(***************************************************************************)
(* An effect commits only under the very session its submission was        *)
(* admitted in: not after the session advanced, not after a restart.       *)
(***************************************************************************)
EffectsAreFenced ==
  [][\A op \in Operations : root'[op] # root[op] => submission[op].scope = session]_hubVars

Lost(op) == Unresolved(op) /\ call[op] = "idle"

(***************************************************************************)
(* A submission that lost its grant to a deadline, an unconfirmed commit   *)
(* or a restart, or an observed fact whose effect failed, never gets an    *)
(* outcome: it cannot be granted again.  From then on no planned mutation  *)
(* is admitted, and none that was admitted before takes effect.            *)
(***************************************************************************)
LostStopsPlannedWork ==
  [][\A lost \in Operations : Lost(lost) =>
       /\ Lost(lost)'
       /\ \A op \in Operations :
            /\ submission'[op] # submission[op] => ~ PlannedKind(KindOf[submission'[op].mutation])
            /\ root'[op] # root[op] => Kind(op) # "planned"]_hubVars

(***************************************************************************)
(* The database keeps the promise of a submission: one chance, which ends  *)
(* with the answer, the session or the process, and final outcomes.        *)
(***************************************************************************)
Outcome(op) ==
  CASE HasRoot(op) -> "recorded"
    [] ~ HasRoot(op) /\ op \in rejected -> "rejected"
    [] Unresolved(op) -> "pending"
    [] OTHER -> "absent"

Live == {op \in Operations : call[op] = "granted" /\ submission[op].scope = session}

Promise == INSTANCE SubmissionOutcome WITH outcome <- [op \in Operations |-> Outcome(op)], live <- Live

KeepsPromise == Promise!Spec
=============================================================================
