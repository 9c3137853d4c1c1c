----------------------- MODULE ObserverRegistryProofs -----------------------
(***************************************************************************)
(* What callers of the runtime are told is true of the hub, and observers  *)
(* end with their subscription or the runtime: for any number of calls,    *)
(* observers and shutdowns, any capacity of the mailbox and any plan.      *)
(***************************************************************************)
EXTENDS ObserverRegistry, FiniteSetTheorems, TLAPS

(***************************************************************************)
(* Commands.                                                               *)
(***************************************************************************)
LEMMA HubFacts ==
  /\ HubMutations \subseteq HubCommands /\ HubMutations \subseteq Submits
  /\ HubCommands \cap ({"bootstrap", "subscribe", "unsubscribe", "close", "refresh_active_profile"}
       \cup ChangesSession \cup RecoveryCommands
       \cup {"import_identity", "select_identity", "request_identity_removal"}) = {}
<1>1. HubMutations \subseteq HubCommands
  BY Zenon DEF HubMutations, HubCommands, StockMutations, CountMutations, ActualMutations, ReferenceMutations,
    HandlingMutations, StockCommands, CountCommands, ActualCommands, ReferenceCommands, HandlingCommands,
    CustodyCommands, DispatchCommands, TraceCommands
<1>2. HubMutations \subseteq Submits
  BY Zenon, SurfaceAssumption
<1>3. HubCommands \cap ({"bootstrap", "subscribe", "unsubscribe", "close", "refresh_active_profile"}
       \cup ChangesSession \cup RecoveryCommands
       \cup {"import_identity", "select_identity", "request_identity_removal"}) = {}
  BY DEF HubCommands, StockMutations, CountMutations, ActualMutations, ReferenceMutations, StockCommands,
    CountCommands, ActualCommands, ReferenceCommands, HandlingCommands, CustodyCommands, DispatchCommands,
    TraceCommands, ChangesSession, RecoveryCommands
<1> QED
  BY Zenon, <1>1, <1>2, <1>3

\* Only a mutation takes effect, and one that was completed did.
LEMMA ExecuteFacts ==
  ASSUME NEW c \in HubCommands, NEW o \in Execute(c)
  PROVE  /\ o.result \in {"completed", "failed", "lost"} /\ o.effect \in BOOLEAN
         /\ o.effect => c \in HubMutations /\ o.result \in {"completed", "lost"}
         /\ c \in HubMutations /\ o.result = "completed" => o.effect
<1>1. Execute(c) = IF c \in HubMutations THEN Submitted ELSE ReadBack
  <2>1. CASE c \in StockCommands
    BY Zenon, <2>1 DEF Execute, ExecuteHubStock, HubMutations, StockMutations, StockCommands, CountMutations,
      ActualMutations, ReferenceMutations, HandlingMutations, CountCommands, ActualCommands,
      ReferenceCommands, HandlingCommands, CustodyCommands, DispatchCommands, TraceCommands
  <2>2. CASE c \in CountCommands
    BY Zenon, <2>2 DEF Execute, ExecuteHubCount, HubMutations, StockMutations, StockCommands, CountMutations,
      ActualMutations, ReferenceMutations, HandlingMutations, CountCommands, ActualCommands,
      ReferenceCommands, HandlingCommands, CustodyCommands, DispatchCommands, TraceCommands
  <2>3. CASE c \in ActualCommands
    BY Zenon, <2>3 DEF Execute, ExecuteHubActual, HubMutations, StockMutations, StockCommands, CountMutations,
      ActualMutations, ReferenceMutations, HandlingMutations, CountCommands, ActualCommands,
      ReferenceCommands, HandlingCommands, CustodyCommands, DispatchCommands, TraceCommands
  <2>4. CASE c \in ReferenceCommands
    BY Zenon, <2>4 DEF Execute, ExecuteHubReference, HubMutations, StockMutations, StockCommands, CountMutations,
      ActualMutations, ReferenceMutations, HandlingMutations, CountCommands, ActualCommands,
      ReferenceCommands, HandlingCommands, CustodyCommands, DispatchCommands, TraceCommands
  <2>5. CASE c \in HandlingCommands
    <3>1. Execute(c) = ExecuteHubHandling(c)
      BY Zenon, <2>5 DEF Execute, StockMutations, StockCommands, CountMutations, ActualMutations, ReferenceMutations,
        HandlingMutations, CountCommands, ActualCommands, ReferenceCommands, HandlingCommands,
        CustodyCommands, DispatchCommands, TraceCommands
    <3>2. ExecuteHubHandling(c) = IF c \in HandlingMutations THEN Submitted ELSE ReadBack
      BY Zenon, <2>5 DEF ExecuteHubHandling, ExecuteHubTrace, ExecuteHubCustody, ExecuteHubDispatch, Reviewed,
        HandlingCommands, HandlingMutations, CustodyCommands, DispatchCommands, TraceCommands
    <3>3. c \in HubMutations <=> c \in HandlingMutations
      BY Zenon, <2>5 DEF HubMutations, StockMutations, CountMutations, ActualMutations, ReferenceMutations,
        HandlingMutations, HandlingCommands, CustodyCommands, DispatchCommands, TraceCommands
    <3> QED
      BY Zenon, <3>1, <3>2, <3>3
  <2>6. CASE c \in {"hub_context", "initialize_hub"}
    BY Zenon, <2>6 DEF Execute, HubMutations, StockMutations, StockCommands, CountMutations,
      ActualMutations, ReferenceMutations, HandlingMutations, CountCommands, ActualCommands,
      ReferenceCommands, HandlingCommands, CustodyCommands, DispatchCommands, TraceCommands
  <2> QED
    BY Zenon, <2>1, <2>2, <2>3, <2>4, <2>5, <2>6 DEF HubCommands
<1>2. Submitted = {[result |-> "completed", effect |-> TRUE], [result |-> "failed", effect |-> FALSE],
                   [result |-> "lost", effect |-> FALSE], [result |-> "lost", effect |-> TRUE]}
  BY Zenon DEF Submitted, Done, Refused, Lost
<1>3. ReadBack = {[result |-> "completed", effect |-> FALSE], [result |-> "failed", effect |-> FALSE],
                  [result |-> "lost", effect |-> FALSE]}
  BY Zenon DEF ReadBack, Shown, Refused, Lost
<1>4. \/ o = [result |-> "completed", effect |-> TRUE] /\ c \in HubMutations
      \/ o = [result |-> "completed", effect |-> FALSE] /\ c \notin HubMutations
      \/ o = [result |-> "failed", effect |-> FALSE]
      \/ o = [result |-> "lost", effect |-> FALSE]
      \/ o = [result |-> "lost", effect |-> TRUE] /\ c \in HubMutations
  BY Zenon, <1>1, <1>2, <1>3
<1>5. CASE o = [result |-> "completed", effect |-> TRUE] /\ c \in HubMutations
  BY Zenon, <1>5
<1>6. CASE o = [result |-> "completed", effect |-> FALSE] /\ c \notin HubMutations
  BY Zenon, <1>6
<1>7. CASE o = [result |-> "failed", effect |-> FALSE]
  BY Zenon, <1>7
<1>8. CASE o = [result |-> "lost", effect |-> FALSE]
  BY Zenon, <1>8
<1>9. CASE o = [result |-> "lost", effect |-> TRUE] /\ c \in HubMutations
  BY Zenon, <1>9
<1> QED
  BY Zenon, <1>4, <1>5, <1>6, <1>7, <1>8, <1>9

LEMMA ToldFacts ==
  ASSUME NEW c, NEW result \in Answers \cup {"lost"}
  PROVE  /\ Told(c, result) \in Answers
         /\ c \in HubMutations => Told(c, "timed_out") = "unknown"
         /\ c \in HubMutations /\ result = "lost" => Told(c, result) = "unknown"
         /\ result \notin {"lost", "timed_out"} => Told(c, result) = result
         /\ result # "completed" => Told(c, result) # "completed"
  BY Zenon DEF Told, Answers

LEMMA TicketFacts ==
  ASSUME plan \in Plans, NEW t \in Tickets, t \in Calls => t \in DOMAIN plan.names
  PROVE  /\ t \in Calls => Cmd(t) = plan.names[t] /\ Cmd(t) \in CallNames
         /\ t \notin Calls => Cmd(t) \in {"subscribe", "unsubscribe", "close"}
         /\ Cmd(t) \in HubCommands \cup {"refresh_active_profile"} => t \in Calls
<1>1. t \in Calls => Cmd(t) = plan.names[t] /\ Cmd(t) \in CallNames
  BY Zenon, TicketsAssumption DEF Cmd
<1>2. ASSUME t \notin Calls PROVE Cmd(t) \in {"subscribe", "unsubscribe", "close"}
  <2>1. CASE t \in Shutdowns \X {"close"}
    BY Zenon, <1>2, <2>1 DEF Cmd
  <2>2. CASE t \notin Shutdowns \X {"close"}
    <3>1. t[2] \in DOMAIN ObserverCommands
      BY Zenon, <1>2, <2>2 DEF Tickets
    <3>2. Cmd(t) = ObserverCommands[t[2]]
      BY Zenon, <1>2, <2>2 DEF Cmd
    <3> QED
      BY <3>1, <3>2 DEF ObserverCommands
  <2> QED
    BY Zenon, <2>1, <2>2
<1> QED
  BY Zenon, <1>1, <1>2, HubFacts
-----------------------------------------------------------------------------
(***************************************************************************)
(* The actor.  A ticket in the actor's hands is queued, running or an      *)
(* outstanding refresh: once, by someone who called, without an effect     *)
(* yet, and answered only if its deadline passed.                          *)
(***************************************************************************)
Envelopes == [of: Calls \cup {None}, generation: Nat, expected: Nat \cup {None}]

ActorShape ==
  /\ plan \in Plans /\ closeState \in 0 .. 2
  /\ ask \in [Tickets -> {"idle", "waiting", "gone"} \cup Answers]
  /\ late \subseteq Tickets /\ begun \subseteq Tickets
  /\ sent \in [Tickets -> {None} \cup Envelopes]
  /\ mailbox \in Seq(Tickets) /\ Len(mailbox) <= Capacity
  /\ running \in Tickets \cup {None}
  /\ lifecycle \in {"ready", "fatal", "closed"} /\ exited \in BOOLEAN
  /\ revision \in Nat /\ generation \in Nat /\ active \in BOOLEAN
  /\ tasks \subseteq Calls /\ IsFiniteSet(tasks) /\ Cardinality(tasks) <= MaxTasks
  /\ subs \subseteq Observers
  /\ effects \subseteq [call: Tickets, generation: Nat, revision: Nat]

Pending(t) == Queued(t) \/ running = t \/ t \in tasks

PendingFits ==
  \A t \in Tickets : Pending(t) =>
    /\ t \in Calls => t \in DOMAIN plan.names
    /\ ask[t] # "idle" /\ (ask[t] \in Answers => t \in late /\ ask[t] = Told(Cmd(t), "timed_out"))
    /\ ~ TookEffect(t)
    /\ Cmd(t) \in HubMutations => sent[t].expected \in Nat

PendingOnce ==
  /\ \A i, j \in 1 .. Len(mailbox) : mailbox[i] = mailbox[j] => i = j
  /\ running # None => ~ Queued(running) /\ running \notin tasks
  /\ \A t \in tasks : ~ Queued(t) /\ Cmd(t) = "refresh_active_profile"

EffectFits ==
  /\ \A t \in Tickets : ask[t] \in {"idle", "waiting"} => ~ TookEffect(t)
  /\ AnswersAreTrue /\ EffectsAreCurrent

RunningIsCurrent == running # None /\ Cmd(running) \in HubMutations => sent[running].expected = revision

ClosedFits ==
  /\ exited => lifecycle = "closed" /\ mailbox = <<>>
  /\ lifecycle = "closed" => running = None /\ tasks = {} /\ subs = {}

ActorInv == ActorShape /\ PendingFits /\ PendingOnce /\ EffectFits /\ RunningIsCurrent /\ ClosedFits

LEMMA ActorStart == ActorInit => ActorInv
<1> SUFFICES ASSUME ActorInit PROVE ActorInv
  BY Zenon
<1>1. lifecycle = "ready"
  BY Zenon DEF ActorInit, OpeningStages
<1>2. IsFiniteSet({}) /\ Cardinality({}) = 0
  BY Zenon, FS_EmptySet
<1>3. plan \in Plans /\ plan.active \in BOOLEAN
  BY Zenon, TicketsAssumption DEF ActorInit
<1>4. ActorShape
  <2>1. ask \in [Tickets -> {"idle", "waiting", "gone"} \cup Answers] /\ sent \in [Tickets -> {None} \cup Envelopes]
    BY Zenon DEF ActorInit
  <2>2. mailbox \in Seq(Tickets) /\ Len(mailbox) <= Capacity
    BY LimitsAssumption DEF ActorInit
  <2>3. active \in BOOLEAN
    BY Zenon, <1>3 DEF ActorInit
  <2>4. Cardinality(tasks) <= MaxTasks /\ IsFiniteSet(tasks) /\ tasks \subseteq Calls
    BY <1>2, LimitsAssumption DEF ActorInit
  <2>5. /\ closeState \in 0 .. 2 /\ late \subseteq Tickets /\ begun \subseteq Tickets
        /\ running \in Tickets \cup {None} /\ revision \in Nat /\ generation \in Nat /\ subs \subseteq Observers
        /\ effects \subseteq [call: Tickets, generation: Nat, revision: Nat]
    BY DEF ActorInit
  <2>6. exited \in BOOLEAN
    BY Zenon DEF ActorInit
  <2> QED
    BY Zenon, <1>1, <1>3, <2>1, <2>2, <2>3, <2>4, <2>5, <2>6 DEF ActorShape
<1>5. ASSUME NEW t PROVE ~ Queued(t) /\ ~ TookEffect(t)
  BY DEF ActorInit, Queued, TookEffect
<1>6. \A t \in Tickets : ~ Pending(t)
  BY Zenon, <1>5, TicketsAssumption DEF ActorInit, Pending
<1>7. EffectFits
  <2>1. \A c \in Tickets : ~ Answered(c) /\ ask[c] # "completed"
    BY Zenon DEF ActorInit, Answered, Answers
  <2>2. DOMAIN plan.names \subseteq Tickets
    BY Zenon, <1>3, TicketsAssumption DEF Tickets
  <2>3. AnswersAreTrue
    BY Zenon, <2>1, <2>2 DEF AnswersAreTrue
  <2>4. EffectsAreCurrent
    BY Zenon DEF ActorInit, EffectsAreCurrent
  <2> QED
    BY Zenon, <1>5, <2>3, <2>4 DEF EffectFits
<1>8. PendingFits
  BY Zenon, <1>6 DEF PendingFits
<1>9. PendingOnce /\ RunningIsCurrent
  BY DEF ActorInit, PendingOnce, RunningIsCurrent
<1>10. ClosedFits
  BY Zenon, <1>1 DEF ActorInit, ClosedFits
<1> QED
  BY Zenon, <1>4, <1>7, <1>8, <1>9, <1>10 DEF ActorInv

(***************************************************************************)
(* What a step without an effect tells: a caller who waits leaves, hears   *)
(* of the deadline, or hears an answer once the actor is done with the     *)
(* ticket, which for a hub mutation is not that it was completed.          *)
(***************************************************************************)
Heard(t) ==
  \/ ask'[t] = ask[t]
  \/ ask[t] = "waiting" /\ ask'[t] = "gone"
  \/ ask[t] = "waiting" /\ t \in late /\ ask'[t] = Told(Cmd(t), "timed_out")
  \/ /\ ask[t] = "waiting" /\ ask'[t] \in Answers /\ ~ Pending(t)'
     /\ Cmd(t) \in HubMutations => ask'[t] # "completed"

LEMMA QuietStep ==
  ASSUME ActorInv, plan' = plan, sent' = sent, effects' = effects, late \subseteq late',
         \A t \in Tickets : Heard(t) /\ (Pending(t)' => Pending(t))
  PROVE  PendingFits' /\ EffectFits'
<1>1. \A t : TookEffect(t)' = TookEffect(t)
  BY Zenon DEF TookEffect
<1>2. \A t : Cmd(t)' = Cmd(t)
  BY Zenon DEF Cmd
<1>3. ASSUME NEW t \in Tickets, Pending(t)'
      PROVE  /\ t \in Calls => t \in DOMAIN plan'.names
             /\ ask'[t] # "idle" /\ (ask'[t] \in Answers => t \in late' /\ ask'[t] = Told(Cmd(t)', "timed_out"))
             /\ ~ TookEffect(t)'
             /\ Cmd(t)' \in HubMutations => sent'[t].expected \in Nat
  <2>1. /\ t \in Calls => t \in DOMAIN plan.names
        /\ ask[t] # "idle" /\ (ask[t] \in Answers => t \in late /\ ask[t] = Told(Cmd(t), "timed_out"))
        /\ ~ TookEffect(t)
        /\ Cmd(t) \in HubMutations => sent[t].expected \in Nat
    BY Zenon, <1>3 DEF ActorInv, PendingFits
  <2>2. \/ ask'[t] = ask[t]
        \/ ask[t] = "waiting" /\ ask'[t] = "gone"
        \/ ask[t] = "waiting" /\ t \in late /\ ask'[t] = Told(Cmd(t), "timed_out")
    BY Zenon, <1>3 DEF Heard
  <2>3. Told(Cmd(t), "timed_out") \in Answers /\ "gone" \notin Answers /\ "idle" \notin Answers
    BY Zenon, ToldFacts DEF Answers
  <2> QED
    BY Zenon, <1>1, <1>2, <2>1, <2>2, <2>3
<1>4. PendingFits'
  BY Zenon, <1>3 DEF PendingFits
<1>5. \A t \in Tickets : ask'[t] \in {"idle", "waiting"} => ~ TookEffect(t)'
  <2> SUFFICES ASSUME NEW t \in Tickets, ask'[t] \in {"idle", "waiting"} PROVE ask[t] = ask'[t]
    BY Zenon, <1>1 DEF ActorInv, EffectFits
  <2>1. Told(Cmd(t), "timed_out") \in Answers /\ {"gone", "idle", "waiting"} \cap Answers = {}
    BY Zenon, ToldFacts DEF Answers
  <2> QED
    BY Zenon, <2>1 DEF Heard
<1>6. AnswersAreTrue'
  <2> SUFFICES ASSUME NEW c \in DOMAIN plan.names, plan.names[c] \in HubMutations
               PROVE  /\ ask'[c] = "completed" => TookEffect(c)
                      /\ ask'[c] \in Answers /\ ask'[c] \notin {"completed", "unknown"} => ~ TookEffect(c)
    BY Zenon, <1>1 DEF AnswersAreTrue, Answered
  <2>1. c \in Calls /\ c \in Tickets /\ Cmd(c) = plan.names[c]
    BY Zenon, TicketsAssumption DEF ActorInv, ActorShape, Tickets, Cmd
  <2>2. /\ ask[c] = "completed" => TookEffect(c)
        /\ ask[c] \in Answers /\ ask[c] \notin {"completed", "unknown"} => ~ TookEffect(c)
        /\ ask[c] = "waiting" => ~ TookEffect(c)
    BY Zenon, <2>1 DEF ActorInv, EffectFits, AnswersAreTrue, Answered
  <2>3. Told(Cmd(c), "timed_out") = "unknown"
    BY <2>1, ToldFacts DEF Answers
  <2> QED
    BY Zenon, <2>1, <2>2, <2>3 DEF Heard, Answers
<1>7. EffectsAreCurrent'
  BY Zenon, <1>2 DEF EffectsAreCurrent, ActorInv, EffectFits
<1> QED
  BY Zenon, <1>4, <1>5, <1>6, <1>7 DEF EffectFits

\* A step of a caller, of time or of the core's state: the actor keeps what it has in hand.
LEMMA CallerStep ==
  ASSUME ActorInv, closeState' \in 0 .. 2, late \subseteq late', late' \subseteq Tickets,
         UNCHANGED <<plan, sent, mailbox, running, lifecycle, exited, revision, generation, active, tasks,
                     subs, begun, effects>>,
         ask' \in [Tickets -> {"idle", "waiting", "gone"} \cup Answers],
         \A t \in Tickets : Heard(t)
  PROVE  ActorInv'
<1>1. /\ plan' = plan /\ sent' = sent /\ mailbox' = mailbox /\ running' = running /\ lifecycle' = lifecycle
      /\ exited' = exited /\ revision' = revision /\ generation' = generation /\ active' = active
      /\ tasks' = tasks /\ subs' = subs /\ begun' = begun /\ effects' = effects
  BY Zenon
<1>2. \A t : Queued(t)' = Queued(t) /\ Pending(t)' = Pending(t) /\ Cmd(t)' = Cmd(t)
  BY Zenon, <1>1 DEF Queued, Pending, Cmd
<1>3. PendingFits' /\ EffectFits'
  BY Zenon, <1>1, <1>2, QuietStep
<1>4. ActorShape'
  BY Zenon, <1>1 DEF ActorInv, ActorShape
<1>5. PendingOnce' /\ RunningIsCurrent'
  BY Zenon, <1>1, <1>2 DEF ActorInv, PendingOnce, RunningIsCurrent
<1>6. ClosedFits'
  BY <1>1 DEF ActorInv, ClosedFits
<1> QED
  BY Zenon, <1>3, <1>4, <1>5, <1>6 DEF ActorInv

LEMMA OneHeard ==
  ASSUME ActorInv, NEW u \in Tickets, NEW answer,
         ask[u] = "waiting", ask' = [ask EXCEPT ![u] = answer],
         answer = "gone" \/ (u \in late /\ answer = Told(Cmd(u), "timed_out"))
  PROVE  /\ ask' \in [Tickets -> {"idle", "waiting", "gone"} \cup Answers]
         /\ \A t \in Tickets : Heard(t)
<1>1. Told(Cmd(u), "timed_out") \in Answers
  BY Zenon, ToldFacts DEF Answers
<1>2. ask \in [Tickets -> {"idle", "waiting", "gone"} \cup Answers]
  BY Zenon DEF ActorInv, ActorShape
<1>3. \A t \in Tickets : ask'[t] = IF t = u THEN answer ELSE ask[t]
  BY Zenon, <1>2
<1> QED
  BY Zenon, <1>1, <1>2, <1>3 DEF Heard

LEMMA ExpireKeeps ==
  ASSUME ActorInv, NEW t \in Tickets, Expire(t)
  PROVE  ActorInv'
<1>1. /\ late' = late \cup {t} /\ closeState' = closeState /\ ask' = ask
      /\ UNCHANGED <<plan, sent, mailbox, running, lifecycle, exited, revision, generation, active, tasks,
                     subs, begun, effects>>
  BY Zenon DEF Expire
<1>2. late' \subseteq Tickets /\ closeState' \in 0 .. 2 /\ ask' \in [Tickets -> {"idle", "waiting", "gone"} \cup Answers]
  BY Zenon, <1>1 DEF ActorInv, ActorShape
<1>3. \A u \in Tickets : Heard(u)
  BY Zenon, <1>1 DEF Heard
<1> QED
  BY Zenon, <1>1, <1>2, <1>3, CallerStep

LEMMA TimeOutKeeps ==
  ASSUME ActorInv, NEW t \in Tickets, TimeOut(t)
  PROVE  ActorInv'
<1>1. /\ late' = late /\ closeState' = closeState /\ ask[t] = "waiting" /\ t \in late
      /\ ask' = [ask EXCEPT ![t] = Told(Cmd(t), "timed_out")]
      /\ UNCHANGED <<plan, sent, mailbox, running, lifecycle, exited, revision, generation, active, tasks,
                     subs, begun, effects>>
  BY Zenon DEF TimeOut
<1>2. late' \subseteq Tickets /\ closeState' \in 0 .. 2
  BY Zenon, <1>1 DEF ActorInv, ActorShape
<1>3. /\ ask' \in [Tickets -> {"idle", "waiting", "gone"} \cup Answers]
      /\ \A u \in Tickets : Heard(u)
  BY Zenon, <1>1, OneHeard
<1> QED
  BY Zenon, <1>1, <1>2, <1>3, CallerStep

\* A dropped future, of a call or of the registry.
LEMMA DropKeeps ==
  ASSUME ActorInv, NEW t \in Tickets,
         ask' = [ask EXCEPT ![t] = IF @ = "waiting" THEN "gone" ELSE @],
         UNCHANGED <<plan, closeState, late, sent, mailbox, running, lifecycle, exited, revision, generation,
                     active, tasks, subs, begun, effects>>
  PROVE  ActorInv'
<1>1. late' = late /\ closeState' = closeState
  BY Zenon
<1>2. late' \subseteq Tickets /\ closeState' \in 0 .. 2
  BY Zenon, <1>1 DEF ActorInv, ActorShape
<1>3. /\ ask' \in [Tickets -> {"idle", "waiting", "gone"} \cup Answers]
      /\ \A u \in Tickets : Heard(u)
  <2>1. CASE ask[t] = "waiting"
    <3>1. ask' = [ask EXCEPT ![t] = "gone"]
      BY Zenon, <2>1
    <3> QED
      BY Zenon, <2>1, <3>1, OneHeard
  <2>2. CASE ask[t] # "waiting"
    <3>1. ask' = ask
      BY Zenon, <2>2 DEF ActorInv, ActorShape
    <3> QED
      BY Zenon, <3>1 DEF Heard, ActorInv, ActorShape
  <2> QED
    BY Zenon, <2>1, <2>2
<1> QED
  BY Zenon, <1>1, <1>2, <1>3, CallerStep

\* Only the generated key, the core's own state or nothing of the boundary changes.
LEMMA IdleKeeps ==
  ASSUME ActorInv, closeState' \in 0 .. 2,
         UNCHANGED <<plan, ask, late, sent, mailbox, running, lifecycle, exited, revision, generation,
                     active, tasks, subs, begun, effects>>
  PROVE  ActorInv'
<1>1. late' = late /\ ask' = ask
  BY Zenon
<1>2. late' \subseteq Tickets /\ ask' \in [Tickets -> {"idle", "waiting", "gone"} \cup Answers]
  BY Zenon, <1>1 DEF ActorInv, ActorShape
<1>3. \A u \in Tickets : Heard(u)
  BY Zenon, <1>1 DEF Heard
<1> QED
  BY Zenon, <1>1, <1>2, <1>3, CallerStep

(***************************************************************************)
(* Submitting.                                                             *)
(***************************************************************************)
\* An answer given before anything was submitted.
LEMMA AnsweredAtOnce ==
  ASSUME ActorInv, NEW t \in Tickets, ask[t] = "idle", NEW answer \in Answers \ {"completed"},
         ask' = [ask EXCEPT ![t] = answer],
         \A u \in Tickets \ {t} : sent'[u] = sent[u], sent' \in [Tickets -> {None} \cup Envelopes],
         UNCHANGED <<plan, closeState, late, mailbox, running, lifecycle, exited, revision, generation,
                     active, tasks, subs, begun, effects>>
  PROVE  ActorInv'
<1>1. /\ plan' = plan /\ mailbox' = mailbox /\ running' = running /\ lifecycle' = lifecycle
      /\ exited' = exited /\ revision' = revision /\ generation' = generation /\ active' = active
      /\ tasks' = tasks /\ subs' = subs /\ begun' = begun /\ effects' = effects /\ late' = late
      /\ closeState' = closeState
  BY Zenon
<1>2. \A u : Queued(u)' = Queued(u) /\ Pending(u)' = Pending(u) /\ Cmd(u)' = Cmd(u) /\ TookEffect(u)' = TookEffect(u)
  BY Zenon, <1>1 DEF Queued, Pending, Cmd, TookEffect
<1>3. /\ ask \in [Tickets -> {"idle", "waiting", "gone"} \cup Answers]
      /\ ask' \in [Tickets -> {"idle", "waiting", "gone"} \cup Answers]
      /\ \A u \in Tickets : ask'[u] = IF u = t THEN answer ELSE ask[u]
  BY Zenon DEF ActorInv, ActorShape
<1>4. ~ Pending(t) /\ ~ TookEffect(t) /\ answer \notin {"idle", "waiting"}
  BY Zenon DEF ActorInv, PendingFits, EffectFits, Answers
<1>5. ActorShape'
  BY Zenon, <1>1, <1>3 DEF ActorInv, ActorShape
<1>6. PendingFits'
  BY Zenon, <1>1, <1>2, <1>3, <1>4 DEF ActorInv, PendingFits
<1>7. EffectFits'
  <2>1. \A u \in Tickets : ask'[u] \in {"idle", "waiting"} => ~ TookEffect(u)'
    BY Zenon, <1>2, <1>3, <1>4 DEF ActorInv, EffectFits
  <2>2. \A c \in DOMAIN plan.names : c \in Tickets
    BY Zenon, TicketsAssumption DEF ActorInv, ActorShape, Tickets
  <2>3. AnswersAreTrue'
    BY Zenon, <1>1, <1>2, <1>3, <1>4, <2>2 DEF ActorInv, EffectFits, AnswersAreTrue, Answered
  <2>4. \A e \in effects : e.call \in Tickets /\ e.call # t
    BY Zenon, <1>4 DEF ActorInv, ActorShape, TookEffect
  <2>5. EffectsAreCurrent'
    BY Zenon, <1>1, <1>2, <2>4 DEF ActorInv, EffectFits, EffectsAreCurrent
  <2> QED
    BY Zenon, <2>1, <2>3, <2>5 DEF EffectFits
<1>8. PendingOnce'
  BY Zenon, <1>1, <1>2 DEF ActorInv, PendingOnce
<1>9. RunningIsCurrent'
  <2>1. running # None => running \in Tickets \ {t}
    BY Zenon, <1>4 DEF ActorInv, ActorShape, Pending
  <2> QED
    BY Zenon, <1>1, <1>2, <2>1 DEF ActorInv, RunningIsCurrent
<1>10. ClosedFits'
  BY <1>1 DEF ActorInv, ClosedFits
<1> QED
  BY Zenon, <1>5, <1>6, <1>7, <1>8, <1>9, <1>10 DEF ActorInv

LEMMA AppendFacts ==
  ASSUME mailbox \in Seq(Tickets), NEW t \in Tickets, mailbox' = Append(mailbox, t)
  PROVE  /\ mailbox' \in Seq(Tickets) /\ Len(mailbox') = Len(mailbox) + 1
         /\ \A u : Queued(u)' <=> Queued(u) \/ u = t
         /\ ~ Queued(t) /\ (\A i, j \in 1 .. Len(mailbox) : mailbox[i] = mailbox[j] => i = j)
              => \A i, j \in 1 .. Len(mailbox') : mailbox'[i] = mailbox'[j] => i = j
<1>1. /\ mailbox' \in Seq(Tickets) /\ Len(mailbox') = Len(mailbox) + 1 /\ Len(mailbox) \in Nat
      /\ \A i \in 1 .. Len(mailbox) : mailbox'[i] = mailbox[i]
      /\ mailbox'[Len(mailbox) + 1] = t
      /\ DOMAIN mailbox = 1 .. Len(mailbox) /\ DOMAIN mailbox' = 1 .. (Len(mailbox) + 1)
  OBVIOUS
<1>2. ASSUME NEW u PROVE Queued(u)' <=> Queued(u) \/ u = t
  <2>1. ASSUME Queued(u)' PROVE Queued(u) \/ u = t
    <3>1. PICK i \in 1 .. (Len(mailbox) + 1) : mailbox'[i] = u
      BY Zenon, <1>1, <2>1 DEF Queued
    <3>2. i \in 1 .. Len(mailbox) \/ i = Len(mailbox) + 1
      BY <1>1
    <3> QED
      BY Zenon, <1>1, <3>1, <3>2 DEF Queued
  <2>2. ASSUME Queued(u) PROVE Queued(u)'
    <3>1. PICK i \in 1 .. Len(mailbox) : mailbox[i] = u
      BY Zenon, <1>1, <2>2 DEF Queued
    <3>2. i \in 1 .. (Len(mailbox) + 1) /\ mailbox'[i] = u
      BY <1>1, <3>1
    <3> QED
      BY Zenon, <1>1, <3>2 DEF Queued
  <2>3. Queued(t)'
    <3>1. Len(mailbox) + 1 \in 1 .. (Len(mailbox) + 1)
      BY <1>1
    <3> QED
      BY Zenon, <1>1, <3>1 DEF Queued
  <2> QED
    BY Zenon, <2>1, <2>2, <2>3
<1>3. ASSUME ~ Queued(t), \A i, j \in 1 .. Len(mailbox) : mailbox[i] = mailbox[j] => i = j,
             NEW i \in 1 .. Len(mailbox'), NEW j \in 1 .. Len(mailbox'), mailbox'[i] = mailbox'[j]
      PROVE  i = j
  <2>1. /\ i \in 1 .. Len(mailbox) \/ i = Len(mailbox) + 1
        /\ j \in 1 .. Len(mailbox) \/ j = Len(mailbox) + 1
    BY <1>1, <1>3
  <2>2. \A k \in 1 .. Len(mailbox) : mailbox[k] # t
    BY Zenon, <1>1, <1>3 DEF Queued
  <2> QED
    BY <1>1, <1>3, <2>1, <2>2
<1> QED
  BY Zenon, <1>1, <1>2, <1>3

LEMMA SubmitKeeps ==
  ASSUME ActorInv, NEW t \in Tickets, t \in Calls => t \in DOMAIN plan.names, NEW of \in Calls \cup {None},
         Submit(t, of),
         UNCHANGED <<plan, closeState, late, running, lifecycle, exited, revision, generation, active, tasks,
                     subs, begun, effects>>
  PROVE  ActorInv'
<1>1. /\ plan' = plan /\ running' = running /\ lifecycle' = lifecycle
      /\ exited' = exited /\ revision' = revision /\ generation' = generation /\ active' = active
      /\ tasks' = tasks /\ subs' = subs /\ begun' = begun /\ effects' = effects /\ late' = late
      /\ closeState' = closeState
  BY Zenon
<1>2. /\ ask \in [Tickets -> {"idle", "waiting", "gone"} \cup Answers] /\ sent \in [Tickets -> {None} \cup Envelopes]
      /\ revision \in Nat /\ generation \in Nat /\ mailbox \in Seq(Tickets) /\ Len(mailbox) <= Capacity
  BY Zenon DEF ActorInv, ActorShape
<1>3. Envelope(t, of) \in Envelopes /\ (Cmd(t) \in HubMutations => Envelope(t, of).expected \in Nat)
  <2>1. Cmd(t) \in HubMutations => Cmd(t) \in Submits
    BY Zenon, HubFacts
  <2> QED
    BY Zenon, <1>2, <2>1 DEF Envelope, Envelopes
<1>4. /\ sent' \in [Tickets -> {None} \cup Envelopes]
      /\ \A u \in Tickets : sent'[u] = IF u = t THEN Envelope(t, of) ELSE sent[u]
  BY Zenon, <1>2, <1>3 DEF Submit
<1>5. CASE exited \/ Len(mailbox) >= Capacity
  <2>1. PICK answer \in {"closed", "rejected"} : ask' = [ask EXCEPT ![t] = answer]
    BY Zenon, <1>5 DEF Submit
  <2>2. ask'[t] = answer /\ answer \in Answers \ {"completed"} /\ answer # "waiting"
    BY Zenon, <1>2, <2>1 DEF Answers
  <2>3. mailbox' = mailbox /\ ask[t] = "idle"
    BY Zenon, <2>2 DEF Submit
  <2> QED
    BY Zenon, <1>4, <2>1, <2>2, <2>3, AnsweredAtOnce
<1>6. CASE ~ (exited \/ Len(mailbox) >= Capacity)
  <2>1. ask' = [ask EXCEPT ![t] = "waiting"] /\ ask[t] = "idle"
    BY Zenon, <1>6 DEF Submit
  <2>2. /\ ask' \in [Tickets -> {"idle", "waiting", "gone"} \cup Answers]
        /\ \A u \in Tickets : ask'[u] = IF u = t THEN "waiting" ELSE ask[u]
    BY Zenon, <1>2, <2>1
  <2>3. mailbox' = Append(mailbox, t)
    BY Zenon, <2>2 DEF Submit
  <2>4. ~ Pending(t) /\ ~ TookEffect(t)
    BY Zenon, <2>1 DEF ActorInv, PendingFits, EffectFits
  <2>5. /\ mailbox' \in Seq(Tickets) /\ Len(mailbox') = Len(mailbox) + 1
        /\ \A u : Queued(u)' <=> Queued(u) \/ u = t
        /\ \A i, j \in 1 .. Len(mailbox') : mailbox'[i] = mailbox'[j] => i = j
    BY Zenon, <1>2, <2>3, <2>4, AppendFacts DEF ActorInv, PendingOnce, Pending
  <2>6. \A u : (Pending(u)' <=> Pending(u) \/ u = t) /\ Cmd(u)' = Cmd(u) /\ TookEffect(u)' = TookEffect(u)
    BY Zenon, <1>1, <2>5 DEF Pending, Cmd, TookEffect
  <2>7. Len(mailbox') <= Capacity
    BY <1>2, <1>6, <2>5, LimitsAssumption
  <2>8. ActorShape'
    BY Zenon, <1>1, <1>4, <2>2, <2>5, <2>7 DEF ActorInv, ActorShape
  <2>9. PendingFits'
    <3>1. "waiting" \notin Answers
      BY Zenon DEF Answers
    <3> QED
      BY Zenon, <1>1, <1>3, <1>4, <2>2, <2>4, <2>6, <3>1 DEF ActorInv, PendingFits
  <2>10. EffectFits'
    <3>1. \A u \in Tickets : ask'[u] \in {"idle", "waiting"} => ~ TookEffect(u)'
      BY Zenon, <2>2, <2>4, <2>6 DEF ActorInv, EffectFits
    <3>2. \A c \in DOMAIN plan.names : c \in Tickets
      BY Zenon, TicketsAssumption DEF ActorInv, ActorShape, Tickets
    <3>3. "waiting" \notin Answers /\ "waiting" # "completed"
      BY Zenon DEF Answers
    <3>4. AnswersAreTrue'
      BY Zenon, <1>1, <2>2, <2>6, <3>2, <3>3 DEF ActorInv, EffectFits, AnswersAreTrue, Answered
    <3>5. \A e \in effects : e.call \in Tickets /\ e.call # t
      BY Zenon, <2>4 DEF ActorInv, ActorShape, TookEffect
    <3>6. EffectsAreCurrent'
      BY Zenon, <1>1, <1>4, <2>6, <3>5 DEF ActorInv, EffectFits, EffectsAreCurrent
    <3> QED
      BY Zenon, <3>1, <3>4, <3>6 DEF EffectFits
  <2>11. PendingOnce'
    BY Zenon, <1>1, <2>4, <2>5, <2>6 DEF ActorInv, PendingOnce, Pending
  <2>12. RunningIsCurrent'
    <3>1. running # None => running \in Tickets \ {t}
      BY Zenon, <2>4 DEF ActorInv, ActorShape, Pending
    <3> QED
      BY Zenon, <1>1, <1>4, <2>6, <3>1 DEF ActorInv, RunningIsCurrent
  <2>13. ClosedFits'
    BY <1>1, <1>6 DEF ActorInv, ClosedFits
  <2> QED
    BY Zenon, <2>8, <2>9, <2>10, <2>11, <2>12, <2>13 DEF ActorInv
<1> QED
  BY Zenon, <1>5, <1>6

LEMMA CallKeeps ==
  ASSUME ActorInv, NEW c \in Calls, Call(c)
  PROVE  ActorInv'
<1>1. /\ c \in DOMAIN plan.names /\ ask[c] = "idle" /\ c \in Tickets
      /\ UNCHANGED <<plan, closeState, late, running, lifecycle, exited, revision, generation, active, tasks,
                     subs, begun, effects>>
  BY Zenon DEF Call, Tickets
<1>2. CASE \E answer \in {"closed", "invalid"} : ask' = [ask EXCEPT ![c] = answer] /\ UNCHANGED <<sent, mailbox>>
  <2>1. PICK answer \in {"closed", "invalid"} : ask' = [ask EXCEPT ![c] = answer] /\ UNCHANGED <<sent, mailbox>>
    BY Zenon, <1>2
  <2>2. answer \in Answers \ {"completed"} /\ sent' = sent /\ mailbox' = mailbox
    BY Zenon, <2>1 DEF Answers
  <2>3. sent' \in [Tickets -> {None} \cup Envelopes]
    BY Zenon, <2>2 DEF ActorInv, ActorShape
  <2> QED
    BY Zenon, <1>1, <2>1, <2>2, <2>3, AnsweredAtOnce
<1>3. CASE \E of \in Calls \cup {None} : Submit(c, of)
  BY Zenon, <1>1, <1>3, SubmitKeeps
<1>4. Begins \subseteq Calls
  BY Zenon, TicketsAssumption DEF Begins, ActorInv, ActorShape
<1> QED
  BY Zenon, <1>2, <1>3, <1>4 DEF Call

(***************************************************************************)
(* Taking a command.                                                       *)
(***************************************************************************)
LEMMA TailFacts ==
  ASSUME mailbox \in Seq(Tickets), mailbox # <<>>, NEW t, t = Head(mailbox), mailbox' = Tail(mailbox),
         \A i, j \in 1 .. Len(mailbox) : mailbox[i] = mailbox[j] => i = j
  PROVE  /\ mailbox' \in Seq(Tickets) /\ Len(mailbox') <= Len(mailbox)
         /\ t \in Tickets /\ Queued(t) /\ ~ Queued(t)'
         /\ \A u : Queued(u)' => Queued(u)
         /\ \A i, j \in 1 .. Len(mailbox') : mailbox'[i] = mailbox'[j] => i = j
<1>1. /\ mailbox' \in Seq(Tickets) /\ Len(mailbox) \in Nat \ {0} /\ Len(mailbox') = Len(mailbox) - 1
      /\ \A i \in 1 .. Len(mailbox') : mailbox'[i] = mailbox[i + 1]
      /\ t = mailbox[1]
      /\ DOMAIN mailbox = 1 .. Len(mailbox) /\ DOMAIN mailbox' = 1 .. Len(mailbox')
  OBVIOUS
<1>2. /\ 1 \in 1 .. Len(mailbox) /\ Len(mailbox') <= Len(mailbox)
      /\ \A i \in 1 .. Len(mailbox') : i + 1 \in 1 .. Len(mailbox) /\ i + 1 # 1
  BY <1>1
<1>3. t \in Tickets /\ Queued(t)
  BY <1>1, <1>2 DEF Queued
<1>4. \A u : Queued(u)' => Queued(u)
  BY <1>1, <1>2 DEF Queued
<1>5. ~ Queued(t)'
  <2> SUFFICES ASSUME NEW i \in 1 .. Len(mailbox'), mailbox'[i] = t PROVE FALSE
    BY Zenon, <1>1 DEF Queued
  <2>1. mailbox[i + 1] = mailbox[1] /\ i + 1 \in 1 .. Len(mailbox) /\ i + 1 # 1
    BY Zenon, <1>1, <1>2
  <2> QED
    BY Zenon, <1>2, <2>1
<1>6. ASSUME NEW i \in 1 .. Len(mailbox'), NEW j \in 1 .. Len(mailbox'), mailbox'[i] = mailbox'[j] PROVE i = j
  <2>1. mailbox[i + 1] = mailbox[j + 1] /\ i + 1 \in 1 .. Len(mailbox) /\ j + 1 \in 1 .. Len(mailbox)
    BY Zenon, <1>1, <1>2, <1>6
  <2> QED
    BY <1>1, <2>1
<1> QED
  BY Zenon, <1>1, <1>2, <1>3, <1>4, <1>5, <1>6

\* Replying answers callers who wait, and nobody else.
LEMMA ReplyFacts ==
  ASSUME ActorInv, NEW r, Reply(r), \A t \in DOMAIN r : r[t] \in Answers \cup {"lost"}
  PROVE  /\ ask' \in [Tickets -> {"idle", "waiting", "gone"} \cup Answers]
         /\ \A t \in Tickets :
              \/ ask'[t] = ask[t] /\ (t \notin DOMAIN r \/ ask[t] # "waiting")
              \/ /\ t \in DOMAIN r /\ ask[t] = "waiting" /\ ask'[t] = Told(Cmd(t), r[t]) /\ ask'[t] \in Answers
                 /\ r[t] # "completed" => ask'[t] # "completed"
<1>1. ask \in [Tickets -> {"idle", "waiting", "gone"} \cup Answers]
  BY Zenon DEF ActorInv, ActorShape
<1>2. \A t \in Tickets : ask'[t] = IF t \in DOMAIN r /\ ask[t] = "waiting" THEN Told(Cmd(t), r[t]) ELSE ask[t]
  BY Zenon DEF Reply
<1>3. ASSUME NEW t \in Tickets, t \in DOMAIN r
      PROVE  Told(Cmd(t), r[t]) \in Answers /\ (r[t] # "completed" => Told(Cmd(t), r[t]) # "completed")
  BY Zenon, <1>3, ToldFacts
<1>4. ask' \in [Tickets -> {"idle", "waiting", "gone"} \cup Answers]
  BY Zenon, <1>1, <1>3 DEF Reply
<1> QED
  BY Zenon, <1>2, <1>3, <1>4

LEMMA TakeStep ==
  ASSUME ActorInv, mailbox # <<>>, ~ exited, lifecycle # "closed", running = None,
         mailbox' = Tail(mailbox), NEW t, t = Head(mailbox),
         UNCHANGED <<plan, closeState, late, sent, lifecycle, exited, generation, active, effects>>,
         running' \in {None, t}, tasks' \in {tasks, tasks \cup {t}}, running' = t => tasks' = tasks,
         IsFiniteSet(tasks'), Cardinality(tasks') <= MaxTasks,
         tasks' # tasks => Cmd(t) = "refresh_active_profile",
         revision' \in Nat, subs' \subseteq subs, begun' \subseteq begun \cup {t},
         ask' \in [Tickets -> {"idle", "waiting", "gone"} \cup Answers],
         \A u \in Tickets : Heard(u),
         running' = t /\ Cmd(t) \in HubMutations => sent[t].expected = revision'
  PROVE  ActorInv'
<1>1. /\ plan' = plan /\ sent' = sent /\ lifecycle' = lifecycle /\ exited' = exited /\ late' = late
      /\ generation' = generation /\ active' = active /\ effects' = effects /\ closeState' = closeState
  BY Zenon
<1>2. /\ mailbox' \in Seq(Tickets) /\ Len(mailbox') <= Len(mailbox)
      /\ t \in Tickets /\ Queued(t) /\ ~ Queued(t)'
      /\ \A u : Queued(u)' => Queued(u)
      /\ \A i, j \in 1 .. Len(mailbox') : mailbox'[i] = mailbox'[j] => i = j
  BY Zenon, TailFacts DEF ActorInv, ActorShape, PendingOnce
<1>3. /\ \A u \in Tickets : Pending(u)' => Pending(u)
      /\ \A u : Cmd(u)' = Cmd(u)
  <2>1. None \notin Tickets
    BY Zenon, TicketsAssumption
  <2> QED
    BY Zenon, <1>1, <1>2, <2>1 DEF Pending, Cmd
<1>4. PendingFits' /\ EffectFits'
  BY Zenon, <1>1, <1>3, QuietStep
<1>5. ActorShape'
  <2>1. tasks' \subseteq Calls
    <3>1. t \in Calls => t \in DOMAIN plan.names
      BY Zenon, <1>2 DEF ActorInv, PendingFits, Pending
    <3>2. tasks' # tasks => t \in Calls
      BY Zenon, <1>2, <3>1, TicketFacts DEF ActorInv, ActorShape
    <3> QED
      BY Zenon, <3>2 DEF ActorInv, ActorShape
  <2>2. Len(mailbox') <= Capacity
    BY <1>2, LimitsAssumption DEF ActorInv, ActorShape
  <2>3. begun' \subseteq Tickets /\ subs' \subseteq Observers /\ running' \in Tickets \cup {None}
    BY Zenon, <1>2 DEF ActorInv, ActorShape
  <2> QED
    BY Zenon, <1>1, <1>2, <2>1, <2>2, <2>3 DEF ActorInv, ActorShape
<1>6. PendingOnce'
  <2>1. running' # None => (\A i \in DOMAIN mailbox' : mailbox'[i] # running') /\ running' \notin tasks'
    <3>1. t \notin tasks
      BY Zenon, <1>2 DEF ActorInv, PendingOnce
    <3> QED
      BY <1>2, <3>1 DEF Queued
  <2>2. \A u \in tasks' : ~ Queued(u)' /\ Cmd(u)' = "refresh_active_profile"
    BY Zenon, <1>2, <1>3 DEF ActorInv, PendingOnce
  <2> QED
    BY Zenon, <1>2, <2>1, <2>2 DEF PendingOnce, Queued
<1>7. RunningIsCurrent'
  BY Zenon, <1>1, <1>3 DEF RunningIsCurrent
<1>8. ClosedFits'
  BY <1>1 DEF ActorInv, ClosedFits
<1> QED
  BY Zenon, <1>4, <1>5, <1>6, <1>7, <1>8 DEF ActorInv

LEMMA TakeKeeps ==
  ASSUME ActorInv, NEW live, Take(live)
  PROVE  ActorInv'
<1>0. PICK t : t = Head(mailbox)
  BY Zenon
<1>1. /\ mailbox # <<>> /\ ~ exited /\ lifecycle # "closed" /\ running = None /\ mailbox' = Tail(mailbox)
      /\ UNCHANGED <<plan, closeState, late, sent, lifecycle, exited, generation, active, effects>>
  BY Zenon DEF Take
<1>2. /\ \/ /\ UNCHANGED <<ask, running, tasks, revision, subs, begun>>
         \/ /\ Preflight(t) # "pass" /\ Reply(Receipt(t, Preflight(t)))
            /\ UNCHANGED <<running, tasks, revision, subs, begun>>
         \/ /\ Cmd(t) = "refresh_active_profile"
            /\ StartRefresh(t, live) /\ begun' = begun \cup {t} /\ UNCHANGED running
         \/ /\ Preflight(t) = "pass" /\ running' = t /\ begun' = begun \cup {t}
            /\ UNCHANGED <<ask, tasks, revision, subs>>
  BY Zenon, <1>0 DEF Take
<1>3. /\ t \in Tickets /\ Queued(t) /\ ~ Queued(t)' /\ t # None /\ t \notin tasks
  BY Zenon, <1>0, <1>1, TailFacts, TicketsAssumption DEF ActorInv, ActorShape, PendingOnce
<1>4. /\ IsFiniteSet(tasks) /\ Cardinality(tasks) <= MaxTasks /\ revision \in Nat
      /\ ask \in [Tickets -> {"idle", "waiting", "gone"} \cup Answers]
  BY Zenon DEF ActorInv, ActorShape
<1>5. sent[t].expected \in Nat \/ Cmd(t) \notin HubMutations
  BY Zenon, <1>3 DEF ActorInv, PendingFits, Pending
<1>6. ASSUME NEW result \in Answers, result # "completed" \/ Cmd(t) \notin HubMutations,
             Reply(Receipt(t, result)), running' = None, tasks' = tasks
      PROVE  /\ ask' \in [Tickets -> {"idle", "waiting", "gone"} \cup Answers]
             /\ \A u \in Tickets : Heard(u)
  <2>1. DOMAIN Receipt(t, result) = {t} /\ Receipt(t, result)[t] = result
    BY Zenon DEF Receipt
  <2>2. /\ ask' \in [Tickets -> {"idle", "waiting", "gone"} \cup Answers]
        /\ \A u \in Tickets :
             \/ ask'[u] = ask[u]
             \/ /\ u = t /\ ask[u] = "waiting" /\ ask'[u] \in Answers
                /\ result # "completed" => ask'[u] # "completed"
    BY Zenon, <1>6, <2>1, ReplyFacts
  <2>3. ~ Pending(t)'
    BY Zenon, <1>3, <1>6 DEF Pending
  <2> QED
    BY Zenon, <1>6, <2>2, <2>3 DEF Heard
<1>7. CASE UNCHANGED <<ask, running, tasks, revision, subs, begun>>
  <2>1. \A u \in Tickets : Heard(u)
    BY Zenon, <1>7 DEF Heard
  <2> QED
    BY <1>0, <1>1, <1>3, <1>4, <1>7, <2>1, TakeStep
<1>8. CASE Preflight(t) # "pass" /\ Reply(Receipt(t, Preflight(t))) /\ UNCHANGED <<running, tasks, revision, subs, begun>>
  <2>1. Preflight(t) \in Answers /\ Preflight(t) # "completed"
    BY Zenon, <1>8 DEF Preflight, Answers
  <2>2. /\ ask' \in [Tickets -> {"idle", "waiting", "gone"} \cup Answers]
        /\ \A u \in Tickets : Heard(u)
    BY Zenon, <1>1, <1>6, <1>8, <2>1
  <2> QED
    BY <1>0, <1>1, <1>3, <1>4, <1>8, <2>2, TakeStep
<1>9. CASE Cmd(t) = "refresh_active_profile" /\ StartRefresh(t, live) /\ begun' = begun \cup {t} /\ UNCHANGED running
  <2>1. Cmd(t) \notin HubMutations /\ running' = None
    BY Zenon, <1>1, <1>9, HubFacts
  <2>2. CASE Reply(Receipt(t, IF active THEN "failed" ELSE "completed")) /\ UNCHANGED <<tasks, revision, subs>>
    <3>1. PICK result \in {"failed", "completed"} : Reply(Receipt(t, result))
      BY Zenon, <2>2
    <3>2. result \in Answers
      BY Zenon DEF Answers
    <3>3. /\ ask' \in [Tickets -> {"idle", "waiting", "gone"} \cup Answers]
          /\ \A u \in Tickets : Heard(u)
      BY Zenon, <1>6, <2>1, <2>2, <3>1, <3>2
    <3> QED
      BY Zenon, <1>0, <1>1, <1>3, <1>4, <1>9, <2>1, <2>2, <3>3, TakeStep
  <2>3. CASE /\ active /\ Cardinality(tasks) < MaxTasks
             /\ tasks' = tasks \cup {t} /\ revision' = revision + 1
             /\ Publish(live) /\ UNCHANGED ask
    <3>1. IsFiniteSet(tasks') /\ Cardinality(tasks') = Cardinality(tasks) + 1 /\ Cardinality(tasks) \in Nat
      BY Zenon, <1>3, <1>4, <2>3, FS_AddElement, FS_CardinalityType
    <3>2. Cardinality(tasks') <= MaxTasks
      BY <2>3, <3>1, LimitsAssumption
    <3>3. \A u \in Tickets : Heard(u)
      BY Zenon, <2>3 DEF Heard
    <3>4. revision' \in Nat /\ subs' \subseteq subs /\ ask' = ask
      BY <1>4, <2>3 DEF Publish
    <3>5. running' # t
      BY Zenon, <1>3, <2>1
    <3> QED
      BY Zenon, <1>0, <1>1, <1>3, <1>4, <1>9, <2>1, <2>3, <3>1, <3>2, <3>3, <3>4, <3>5, TakeStep
  <2> QED
    BY Zenon, <1>9, <2>2, <2>3 DEF StartRefresh
<1>10. CASE Preflight(t) = "pass" /\ running' = t /\ begun' = begun \cup {t} /\ UNCHANGED <<ask, tasks, revision, subs>>
  <2>1. \A u \in Tickets : Heard(u)
    BY Zenon, <1>10 DEF Heard
  <2>2. Cmd(t) \in HubMutations => sent[t].expected = revision'
    <3>1. Cmd(t) \in HubMutations => Cmd(t) \notin ReplaysRevision
      BY Zenon, HubFacts DEF ReplaysRevision
    <3>2. Cmd(t) \notin ReplaysRevision => sent[t].expected \in {None, revision}
      BY Zenon, <1>10 DEF Preflight
    <3>3. None \notin Nat
      BY Zenon, TicketsAssumption
    <3> QED
      BY Zenon, <1>5, <1>10, <3>1, <3>2, <3>3
  <2> QED
    BY Zenon, <1>0, <1>1, <1>3, <1>4, <1>10, <2>1, <2>2, TakeStep
<1> QED
  BY Zenon, <1>2, <1>7, <1>8, <1>9, <1>10

(***************************************************************************)
(* Settling a command or a refresh without an effect.                      *)
(***************************************************************************)
LEMMA SettleStep ==
  ASSUME ActorInv, NEW r, Reply(r),
         \A u \in DOMAIN r : r[u] \in Answers \cup {"lost"} /\ (u = running \/ (u \in tasks /\ u \notin tasks')),
         running # None /\ running \in DOMAIN r => Cmd(running) \notin HubMutations \/ r[running] # "completed",
         UNCHANGED <<plan, closeState, late, sent, mailbox, exited, begun, effects>>,
         ~ exited, running' = None, tasks' \subseteq tasks,
         lifecycle' \in {"ready", "fatal", "closed"}, lifecycle' = "closed" => tasks' = {} /\ subs' = {},
         revision' \in Nat, generation' \in Nat, active' \in BOOLEAN, subs' \subseteq Observers
  PROVE  ActorInv'
<1>1. /\ plan' = plan /\ sent' = sent /\ exited' = exited /\ late' = late /\ mailbox' = mailbox
      /\ begun' = begun /\ effects' = effects /\ closeState' = closeState
  BY Zenon
<1>2. None \notin Tickets
  BY Zenon, TicketsAssumption
<1>3. /\ \A u : Queued(u)' = Queued(u) /\ Cmd(u)' = Cmd(u)
      /\ \A u \in Tickets : Pending(u)' => Pending(u)
  BY Zenon, <1>1, <1>2 DEF Pending, Queued, Cmd
<1>4. \A u \in Tickets \cap DOMAIN r : ~ Pending(u)' /\ (Cmd(u) \in HubMutations => r[u] # "completed")
  <2> SUFFICES ASSUME NEW u \in Tickets, u \in DOMAIN r
               PROVE  ~ Pending(u)' /\ (Cmd(u) \in HubMutations => r[u] # "completed")
    BY Zenon
  <2>1. CASE u = running
    BY Zenon, <1>2, <1>3, <2>1 DEF ActorInv, PendingOnce, Pending
  <2>2. CASE u \in tasks /\ u \notin tasks'
    BY Zenon, <1>2, <1>3, <2>2, HubFacts DEF ActorInv, PendingOnce, Pending
  <2> QED
    BY Zenon, <2>1, <2>2
<1>5. /\ ask' \in [Tickets -> {"idle", "waiting", "gone"} \cup Answers]
      /\ \A u \in Tickets :
           \/ ask'[u] = ask[u]
           \/ u \in DOMAIN r /\ ask[u] = "waiting" /\ ask'[u] \in Answers /\ (r[u] # "completed" => ask'[u] # "completed")
  BY Zenon, ReplyFacts
<1>6. \A u \in Tickets : Heard(u)
  BY Zenon, <1>4, <1>5 DEF Heard
<1>7. PendingFits' /\ EffectFits'
  BY Zenon, <1>1, <1>3, <1>6, QuietStep
<1>8. ActorShape'
  <2>1. IsFiniteSet(tasks') /\ Cardinality(tasks') <= Cardinality(tasks) /\ Cardinality(tasks) \in Nat
        /\ Cardinality(tasks') \in Nat
    BY Zenon, FS_Subset, FS_CardinalityType DEF ActorInv, ActorShape
  <2>2. Cardinality(tasks') <= MaxTasks /\ tasks' \subseteq Calls
    BY <2>1, LimitsAssumption DEF ActorInv, ActorShape
  <2> QED
    BY Zenon, <1>1, <1>5, <2>1, <2>2 DEF ActorInv, ActorShape
<1>9. PendingOnce'
  BY Zenon, <1>1, <1>3 DEF ActorInv, PendingOnce
<1>10. RunningIsCurrent' /\ ClosedFits'
  BY <1>1 DEF RunningIsCurrent, ClosedFits
<1> QED
  BY Zenon, <1>7, <1>8, <1>9, <1>10 DEF ActorInv

LEMMA CompleteRefreshKeeps ==
  ASSUME ActorInv, NEW t \in Calls, NEW live, CompleteRefresh(t, live)
  PROVE  ActorInv'
<1>1. /\ UNCHANGED <<plan, closeState, late, sent, mailbox, exited, begun, effects>>
      /\ ~ exited /\ running = None /\ running' = running /\ t \in tasks /\ tasks' = tasks \ {t} /\ MayMove
      /\ lifecycle' = lifecycle /\ generation' = generation /\ active' = active /\ Publish(live)
  BY Zenon DEF CompleteRefresh
<1>2. PICK result \in {"completed", "failed"} : Reply(Receipt(t, result))
  BY Zenon DEF CompleteRefresh
<1>3. DOMAIN Receipt(t, result) = {t} /\ Receipt(t, result)[t] = result /\ result \in Answers
  BY Zenon DEF Receipt, Answers
<1>4. /\ lifecycle' \in {"ready", "fatal", "closed"} /\ lifecycle' # "closed" /\ revision' \in Nat
      /\ generation' \in Nat /\ active' \in BOOLEAN /\ subs' \subseteq Observers
  BY <1>1 DEF ActorInv, ActorShape, ClosedFits, MayMove, Publish
<1> QED
  BY Zenon, <1>1, <1>2, <1>3, <1>4, SettleStep

LEMMA ExitKeeps ==
  ASSUME ActorInv, Exit
  PROVE  ActorInv'
<1> DEFINE r == [t \in {u \in Tickets : Queued(u)} |-> "closed"]
<1>1. /\ plan' = plan /\ sent' = sent /\ exited' = TRUE /\ late' = late /\ mailbox' = <<>> /\ running' = running
      /\ begun' = begun /\ effects' = effects /\ closeState' = closeState /\ lifecycle' = lifecycle
      /\ lifecycle = "closed" /\ revision' = revision /\ generation' = generation /\ active' = active
      /\ tasks' = tasks /\ subs' = subs
  BY Zenon DEF Exit
<1>2. running = None /\ tasks = {} /\ subs = {}
  BY Zenon, <1>1 DEF ActorInv, ClosedFits
<1>3. /\ \A u : ~ Queued(u)' /\ Cmd(u)' = Cmd(u)
      /\ \A u \in Tickets : ~ Pending(u)'
  BY <1>1, <1>2, TicketsAssumption DEF Pending, Queued, Cmd
<1>4. DOMAIN r = {u \in Tickets : Queued(u)} /\ \A u \in DOMAIN r : r[u] = "closed"
  BY Zenon
<1>5. /\ ask' \in [Tickets -> {"idle", "waiting", "gone"} \cup Answers]
      /\ \A u \in Tickets :
           \/ ask'[u] = ask[u]
           \/ u \in DOMAIN r /\ ask[u] = "waiting" /\ ask'[u] \in Answers /\ (r[u] # "completed" => ask'[u] # "completed")
  <2>1. Reply(r)
    BY Zenon DEF Exit
  <2>2. \A u \in DOMAIN r : r[u] \in Answers \cup {"lost"}
    BY Zenon, <1>4 DEF Answers
  <2> HIDE DEF r
  <2> QED
    BY Zenon, <2>1, <2>2, ReplyFacts
<1> HIDE DEF r
<1>6. \A u \in Tickets : Heard(u)
  BY Zenon, <1>3, <1>4, <1>5 DEF Heard
<1>7. PendingFits' /\ EffectFits'
  BY Zenon, <1>1, <1>3, <1>6, QuietStep
<1>8. ActorShape'
  <2>1. mailbox' \in Seq(Tickets) /\ Len(mailbox') <= Capacity
    BY <1>1, LimitsAssumption
  <2> QED
    BY Zenon, <1>1, <1>5, <2>1 DEF ActorInv, ActorShape
<1>9. PendingOnce'
  BY <1>1, <1>2, <1>3 DEF PendingOnce
<1>10. RunningIsCurrent' /\ ClosedFits'
  BY Zenon, <1>1, <1>2 DEF RunningIsCurrent, ClosedFits
<1> QED
  BY Zenon, <1>7, <1>8, <1>9, <1>10 DEF ActorInv

\* The command that ran is answered alone, or with the outstanding refreshes.
LEMMA AloneStep ==
  ASSUME ActorInv, NEW t \in Tickets, running = t, running' = None,
         UNCHANGED <<plan, closeState, late, sent, mailbox, exited, begun, effects>>,
         ~ exited, Cmd(t) \notin HubMutations,
         NEW result \in {"completed", "failed"}, NEW cancelled \in {"completed", "closed"},
         \/ Reply(Receipt(t, result)) /\ tasks' = tasks
         \/ Reply(WithRefreshes(t, result, cancelled)) /\ tasks' = {},
         lifecycle' \in {"ready", "fatal", "closed"}, lifecycle' = "closed" => tasks' = {} /\ subs' = {},
         revision' \in Nat, generation' \in Nat, active' \in BOOLEAN, subs' \subseteq Observers
  PROVE  ActorInv'
<1>1. t # None /\ t \notin tasks
  BY Zenon, TicketsAssumption DEF ActorInv, PendingOnce
<1>2. CASE Reply(Receipt(t, result)) /\ tasks' = tasks
  <2>1. PICK r : r = Receipt(t, result)
    BY Zenon
  <2>2. Reply(r)
    BY Zenon, <1>2, <2>1
  <2>3. \A u \in DOMAIN r : r[u] \in Answers /\ u = running
    BY Zenon, <2>1 DEF Receipt, Answers
  <2> QED
    BY Zenon, <1>2, <2>2, <2>3, SettleStep
<1>3. CASE Reply(WithRefreshes(t, result, cancelled)) /\ tasks' = {}
  <2>1. PICK r : r = WithRefreshes(t, result, cancelled)
    BY Zenon
  <2>2. Reply(r)
    BY Zenon, <1>3, <2>1
  <2>3. \A u \in DOMAIN r : r[u] \in Answers /\ (u = running \/ (u \in tasks /\ u \notin tasks'))
    BY Zenon, <1>3, <2>1 DEF WithRefreshes, Answers
  <2> QED
    BY Zenon, <1>3, <2>2, <2>3, SettleStep
<1> QED
  BY Zenon, <1>2, <1>3

\* Every command but a hub command.
LEMMA FinishQuietly ==
  ASSUME ActorInv, NEW live, NEW t \in Tickets, running = t, running' = None,
         UNCHANGED <<plan, closeState, late, sent, mailbox, exited, begun>>,
         \/ FinishLocal(t, live) \/ FinishSession(t, live) \/ FinishBegin(t, live)
         \/ FinishAcknowledge(t, live) \/ FinishCancel(t, live) \/ FinishSubscribe(t, live)
         \/ FinishUnsubscribe(t, live) \/ FinishClose(t, live)
  PROVE  ActorInv'
<1>1. t # None /\ ~ exited /\ lifecycle \in {"ready", "fatal"}
  BY Zenon, TicketsAssumption DEF ActorInv, ClosedFits, ActorShape
<1>2. revision \in Nat /\ generation \in Nat /\ active \in BOOLEAN /\ subs \subseteq Observers
  BY Zenon DEF ActorInv, ActorShape
<1>3. UNCHANGED <<plan, closeState, late, sent, mailbox, exited, begun>>
  BY Zenon
<1>4. CASE FinishLocal(t, live)
  <2>1. /\ Cmd(t) \notin HubMutations /\ effects' = effects /\ lifecycle' = lifecycle /\ tasks' = tasks
        /\ generation' = generation /\ subs' \subseteq subs
    BY Zenon, <1>4, HubFacts DEF FinishLocal, Publish, RecoveryCommands
  <2>2. PICK result \in {"completed", "failed"} : Reply(Receipt(t, result))
    BY Zenon, <1>4 DEF FinishLocal
  <2>3. revision' \in Nat
    BY <1>2, <1>4 DEF FinishLocal, MayMove
  <2>4. active' \in BOOLEAN
    BY Zenon, <1>2, <1>4 DEF FinishLocal
  <2>5. subs' \subseteq Observers /\ lifecycle' \in {"ready", "fatal", "closed"} /\ lifecycle' # "closed"
    BY Zenon, <1>1, <1>2, <2>1
  <2> QED
    BY Zenon, <1>1, <1>2, <1>3, <2>1, <2>2, <2>3, <2>4, <2>5, AloneStep
<1>5. CASE FinishSession(t, live)
  <2>1. Cmd(t) \notin HubMutations /\ effects' = effects /\ subs' \subseteq subs
    BY Zenon, <1>5, HubFacts DEF FinishSession, Publish
  <2>2. PICK result \in {"completed", "failed"}, cancelled \in {"completed", "closed"} :
          \/ Reply(Receipt(t, result)) /\ tasks' = tasks
          \/ Reply(WithRefreshes(t, result, cancelled)) /\ tasks' = {}
    BY Zenon, <1>5 DEF FinishSession
  <2>3. revision' \in Nat /\ generation' \in Nat
    <3>1. MayMove /\ (generation' = generation + 1 \/ generation' = generation)
      BY Zenon, <1>5 DEF FinishSession
    <3> QED
      BY <1>2, <3>1 DEF MayMove
  <2>4. active' \in BOOLEAN
    <3>1. Cmd(t) \in {"activate_identity", "sign_out", "confirm_identity_removal"}
      BY Zenon, <1>5 DEF FinishSession, ChangesSession
    <3>2. active' \in {TRUE} \/ active' \in {FALSE} \/ active' \in {active, FALSE}
      BY Zenon, <1>5, <3>1 DEF FinishSession
    <3> QED
      BY Zenon, <1>2, <3>2
  <2>5. subs' \subseteq Observers /\ lifecycle' \in {"ready", "fatal", "closed"} /\ lifecycle' # "closed"
    BY Zenon, <1>1, <1>2, <1>5, <2>1 DEF FinishSession
  <2> QED
    BY Zenon, <1>1, <1>3, <2>1, <2>2, <2>3, <2>4, <2>5, AloneStep
<1>6. CASE FinishBegin(t, live)
  <2>1. /\ Cmd(t) \notin HubMutations /\ effects' = effects /\ lifecycle' = lifecycle /\ tasks' = {}
        /\ generation' = generation /\ active' = active /\ subs' \subseteq subs
    BY Zenon, <1>6, HubFacts DEF FinishBegin, Publish, RecoveryCommands
  <2>2. PICK result \in {"completed", "failed"} : Reply(WithRefreshes(t, result, "completed"))
    BY Zenon, <1>6 DEF FinishBegin
  <2>3. revision' \in Nat
    BY <1>2, <1>6 DEF FinishBegin, MayMove
  <2>4. active' \in BOOLEAN
    BY Zenon, <1>2, <2>1
  <2>5. subs' \subseteq Observers /\ lifecycle' \in {"ready", "fatal", "closed"} /\ lifecycle' # "closed"
    BY Zenon, <1>1, <1>2, <2>1
  <2> QED
    BY Zenon, <1>1, <1>2, <1>3, <2>1, <2>2, <2>3, <2>4, <2>5, AloneStep
<1>7. CASE FinishAcknowledge(t, live)
  <2>1. /\ Cmd(t) \notin HubMutations /\ effects' = effects /\ lifecycle' = lifecycle /\ tasks' = tasks
        /\ generation' = generation /\ subs' \subseteq subs
    BY Zenon, <1>7, HubFacts DEF FinishAcknowledge, Publish, RecoveryCommands
  <2>2. PICK result \in {"completed", "failed"} : Reply(Receipt(t, result))
    BY Zenon, <1>7 DEF FinishAcknowledge
  <2>3. revision' \in Nat
    BY <1>2, <1>7 DEF FinishAcknowledge, MayMove
  <2>4. active' \in BOOLEAN
    <3>1. active' = active \/ active' = FALSE
      BY Zenon, <1>7 DEF FinishAcknowledge
    <3> QED
      BY Zenon, <1>2, <3>1
  <2>5. subs' \subseteq Observers /\ lifecycle' \in {"ready", "fatal", "closed"} /\ lifecycle' # "closed"
    BY Zenon, <1>1, <1>2, <2>1
  <2> QED
    BY Zenon, <1>1, <1>2, <1>3, <2>1, <2>2, <2>3, <2>4, <2>5, AloneStep
<1>8. CASE FinishCancel(t, live) \/ FinishSubscribe(t, live) \/ FinishUnsubscribe(t, live)
  <2>1. /\ Cmd(t) \notin HubMutations /\ effects' = effects /\ lifecycle' = lifecycle /\ tasks' = tasks
        /\ generation' = generation /\ revision' = revision /\ active' = active
        /\ Reply(Receipt(t, "completed"))
    BY Zenon, <1>8, HubFacts DEF FinishCancel, FinishSubscribe, FinishUnsubscribe, RecoveryCommands
  <2>2. subs' \subseteq Observers
    <3>1. t \in Calls => t \in DOMAIN plan.names
      BY Zenon DEF ActorInv, PendingFits, Pending
    <3>2. Cmd(t) = "subscribe" => t[1] \in Observers
      <4>1. ASSUME Cmd(t) = "subscribe" PROVE t \notin Calls /\ t \notin Shutdowns \X {"close"}
        <5>1. t \notin Shutdowns \X {"close"}
          BY Zenon, <4>1, TicketsAssumption DEF Cmd
        <5>2. "subscribe" \notin CallNames
          BY Zenon, SurfaceAssumption, HubFacts DEF RecoveryCommands, SessionCommands
        <5>3. t \notin Calls
          BY Zenon, <3>1, <4>1, <5>2, TicketFacts DEF ActorInv, ActorShape
        <5> QED
          BY Zenon, <5>1, <5>3
      <4> QED
        BY Zenon, <4>1 DEF Tickets
    <3> QED
      BY Zenon, <1>2, <1>8, <3>2 DEF FinishCancel, FinishSubscribe, FinishUnsubscribe, Publish
  <2>3. active' \in BOOLEAN
    BY Zenon, <1>2, <2>1
  <2>4. lifecycle' \in {"ready", "fatal", "closed"} /\ lifecycle' # "closed"
    BY Zenon, <1>1, <2>1
  <2> QED
    BY Zenon, <1>1, <1>2, <1>3, <2>1, <2>2, <2>3, <2>4, AloneStep
<1>9. CASE FinishClose(t, live)
  <2>1. /\ Cmd(t) \notin HubMutations /\ effects' = effects /\ tasks' = {}
        /\ generation' = generation /\ revision' = revision /\ active' = active
    BY Zenon, <1>9, HubFacts DEF FinishClose
  <2>2. PICK result \in {"completed", "failed"} : Reply(WithRefreshes(t, result, "closed"))
    BY Zenon, <1>9 DEF FinishClose
  <2>3. /\ lifecycle' \in {"ready", "fatal", "closed"} /\ (lifecycle' = "closed" => subs' = {})
        /\ subs' \subseteq Observers
    BY Zenon, <1>2, <1>9 DEF FinishClose
  <2>4. active' \in BOOLEAN
    BY Zenon, <1>2, <2>1
  <2> QED
    BY Zenon, <1>1, <1>2, <1>3, <2>1, <2>2, <2>3, <2>4, AloneStep
<1> QED
  BY Zenon, <1>4, <1>5, <1>6, <1>7, <1>8, <1>9

\* A hub command that took effect: the only step that adds one.
LEMMA EffectStep ==
  ASSUME ActorInv, NEW t \in Tickets, running = t, running' = None,
         UNCHANGED <<plan, closeState, late, sent, mailbox, exited, begun, lifecycle, revision, generation,
                     active, tasks>>,
         subs' \subseteq subs, Cmd(t) \in HubMutations, HubActor(t),
         NEW result \in {"completed", "lost"}, Reply(Receipt(t, result)),
         effects' = effects \cup {[call |-> t, generation |-> generation, revision |-> revision]}
  PROVE  ActorInv'
<1>1. /\ plan' = plan /\ sent' = sent /\ exited' = exited /\ late' = late /\ mailbox' = mailbox
      /\ begun' = begun /\ closeState' = closeState /\ lifecycle' = lifecycle /\ revision' = revision
      /\ generation' = generation /\ active' = active /\ tasks' = tasks
  BY Zenon
<1>2. t # None /\ t \notin tasks /\ ~ Queued(t)
  BY Zenon, TicketsAssumption DEF ActorInv, PendingOnce
<1>3. /\ \A u : Queued(u)' = Queued(u) /\ Cmd(u)' = Cmd(u) /\ (TookEffect(u)' <=> TookEffect(u) \/ u = t)
      /\ \A u \in Tickets : Pending(u)' => Pending(u) /\ u # t
  <2>1. ASSUME NEW u PROVE TookEffect(u)' <=> TookEffect(u) \/ u = t
    <3>1. PICK e : e = [call |-> t, generation |-> generation, revision |-> revision]
      BY Zenon
    <3>2. effects' = effects \cup {e} /\ e.call = t
      BY Zenon, <3>1
    <3>3. TookEffect(u)' <=> \E f \in effects' : f.call = u
      BY Zenon DEF TookEffect
    <3> QED
      BY Zenon, <3>2, <3>3 DEF TookEffect
  <2> QED
    BY Zenon, <1>1, <1>2, <2>1, TicketsAssumption DEF Pending, Queued, Cmd
<1>4. /\ ask' \in [Tickets -> {"idle", "waiting", "gone"} \cup Answers]
      /\ \A u \in Tickets \ {t} : ask'[u] = ask[u]
      /\ ask'[t] \in {"completed", "unknown", "gone"}
  <2>1. PICK r : r = Receipt(t, result)
    BY Zenon
  <2>2. DOMAIN r = {t} /\ r[t] = result /\ result \in Answers \cup {"lost"}
    BY Zenon, <2>1 DEF Receipt, Answers
  <2>3. Reply(r)
    BY Zenon, <2>1
  <2>4. /\ ask' \in [Tickets -> {"idle", "waiting", "gone"} \cup Answers]
        /\ \A u \in Tickets : \/ ask'[u] = ask[u] /\ (u # t \/ ask[u] # "waiting")
                              \/ u = t /\ ask[u] = "waiting" /\ ask'[u] = Told(Cmd(u), result)
    BY Zenon, <2>2, <2>3, ReplyFacts
  <2>5. Told(Cmd(t), result) \in {"completed", "unknown"} /\ Told(Cmd(t), "timed_out") = "unknown"
    BY Zenon, ToldFacts DEF Answers
  <2>6. ask[t] \in {"waiting", "gone"} \/ ask[t] = Told(Cmd(t), "timed_out")
    BY Zenon DEF ActorInv, ActorShape, PendingFits, Pending
  <2> QED
    BY Zenon, <2>4, <2>5, <2>6
<1>5. ActorShape'
  <2>1. effects' \subseteq [call: Tickets, generation: Nat, revision: Nat]
    BY DEF ActorInv, ActorShape
  <2> QED
    BY Zenon, <1>1, <1>4, <2>1 DEF ActorInv, ActorShape
<1>6. PendingFits'
  BY Zenon, <1>1, <1>3, <1>4 DEF ActorInv, PendingFits
<1>7. EffectFits'
  <2>1. \A u \in Tickets : ask'[u] \in {"idle", "waiting"} => ~ TookEffect(u)'
    BY Zenon, <1>3, <1>4 DEF ActorInv, EffectFits
  <2>2. \A c \in DOMAIN plan.names : c \in Tickets
    BY Zenon, TicketsAssumption DEF ActorInv, ActorShape, Tickets
  <2>3. AnswersAreTrue'
    <3> SUFFICES ASSUME NEW c \in DOMAIN plan.names, plan.names[c] \in HubMutations
                 PROVE  /\ ask'[c] = "completed" => TookEffect(c) \/ c = t
                        /\ ask'[c] \in Answers /\ ask'[c] \notin {"completed", "unknown"} => ~ (TookEffect(c) \/ c = t)
      BY Zenon, <1>1, <1>3 DEF AnswersAreTrue, Answered
    <3>1. CASE c = t
      BY Zenon, <1>4, <3>1 DEF Answers
    <3>2. CASE c # t
      BY Zenon, <1>4, <2>2, <3>2 DEF ActorInv, EffectFits, AnswersAreTrue, Answered
    <3> QED
      BY Zenon, <3>1, <3>2
  <2>4. EffectsAreCurrent'
    <3> SUFFICES ASSUME NEW e \in effects'
                 PROVE  /\ Cmd(e.call) \in HubMutations
                        /\ sent[e.call].generation = e.generation /\ sent[e.call].expected = e.revision
      BY Zenon, <1>1, <1>3 DEF EffectsAreCurrent
    <3>1. CASE e \in effects
      BY Zenon, <3>1 DEF ActorInv, EffectFits, EffectsAreCurrent
    <3>2. CASE e = [call |-> t, generation |-> generation, revision |-> revision]
      BY Zenon, <1>2, <3>2 DEF HubActor, ActorInv, RunningIsCurrent
    <3> QED
      BY Zenon, <3>1, <3>2
  <2> QED
    BY Zenon, <2>1, <2>3, <2>4 DEF EffectFits
<1>8. PendingOnce'
  BY Zenon, <1>1, <1>3 DEF ActorInv, PendingOnce
<1>9. RunningIsCurrent' /\ ClosedFits'
  BY <1>1 DEF ActorInv, RunningIsCurrent, ClosedFits
<1> QED
  BY Zenon, <1>5, <1>6, <1>7, <1>8, <1>9 DEF ActorInv

LEMMA FinishHubKeeps ==
  ASSUME ActorInv, NEW live, NEW t \in Tickets, running = t, running' = None,
         UNCHANGED <<plan, closeState, late, sent, mailbox, exited, begun>>, FinishHub(t, live)
  PROVE  ActorInv'
<1>1. /\ Cmd(t) \in HubCommands /\ subs' \subseteq subs
      /\ UNCHANGED <<plan, closeState, late, sent, mailbox, exited, begun, lifecycle, revision, generation,
                     active, tasks>>
  BY Zenon DEF FinishHub, Publish
<1>2. t # None /\ ~ exited /\ lifecycle \in {"ready", "fatal"}
  BY Zenon, TicketsAssumption DEF ActorInv, ClosedFits, ActorShape
<1>3. PICK o \in IF HubActor(t) THEN Execute(Cmd(t)) ELSE {Refused} :
        /\ Reply(Receipt(t, o.result))
        /\ effects' = IF o.effect THEN effects \cup {[call |-> t, generation |-> generation, revision |-> revision]}
                                  ELSE effects
  BY Zenon DEF FinishHub
<1>4. /\ o.result \in {"completed", "failed", "lost"}
      /\ o.effect => HubActor(t) /\ Cmd(t) \in HubMutations /\ o.result \in {"completed", "lost"}
      /\ ~ o.effect => Cmd(t) \notin HubMutations \/ o.result # "completed"
  <2>1. CASE HubActor(t)
    BY Zenon, <1>1, <1>3, <2>1, ExecuteFacts
  <2>2. CASE ~ HubActor(t)
    <3>1. o = [result |-> "failed", effect |-> FALSE]
      BY Zenon, <1>3, <2>2 DEF Refused
    <3> QED
      BY Zenon, <3>1
  <2> QED
    BY Zenon, <2>1, <2>2
<1>5. CASE o.effect
  <2>1. /\ effects' = effects \cup {[call |-> t, generation |-> generation, revision |-> revision]}
        /\ HubActor(t) /\ Cmd(t) \in HubMutations
    BY Zenon, <1>3, <1>4, <1>5
  <2>2. PICK result \in {"completed", "lost"} : Reply(Receipt(t, result))
    BY Zenon, <1>3, <1>4, <1>5
  <2> QED
    BY Zenon, <1>1, <2>1, <2>2, EffectStep
<1>6. CASE ~ o.effect
  <2>1. effects' = effects
    BY Zenon, <1>3, <1>6
  <2>2. PICK r : r = Receipt(t, o.result)
    BY Zenon
  <2>3. Reply(r)
    BY Zenon, <1>3, <2>2
  <2>4. DOMAIN r = {t} /\ r[t] = o.result /\ o.result \in Answers \cup {"lost"}
    BY Zenon, <1>4, <2>2 DEF Receipt, Answers
  <2>5. /\ revision' \in Nat /\ generation' \in Nat /\ lifecycle' \in {"ready", "fatal", "closed"}
        /\ lifecycle' # "closed" /\ subs' \subseteq Observers
    BY Zenon, <1>1, <1>2 DEF ActorInv, ActorShape
  <2>6. active' \in BOOLEAN
    BY Zenon, <1>1 DEF ActorInv, ActorShape
  <2> QED
    BY Zenon, <1>1, <1>2, <1>4, <1>6, <2>1, <2>3, <2>4, <2>5, <2>6, SettleStep
<1> QED
  BY Zenon, <1>5, <1>6

LEMMA FinishKeeps ==
  ASSUME ActorInv, NEW live, Finish(live)
  PROVE  ActorInv'
<1>1. PICK t : t = running
  BY Zenon
<1>2. t \in Tickets /\ running' = None /\ UNCHANGED <<plan, closeState, late, sent, mailbox, exited, begun>>
  BY Zenon, <1>1 DEF Finish, ActorInv, ActorShape
<1>3. CASE FinishHub(t, live)
  BY Zenon, <1>1, <1>2, <1>3, FinishHubKeeps
<1>4. CASE \/ FinishLocal(t, live) \/ FinishSession(t, live) \/ FinishBegin(t, live)
           \/ FinishAcknowledge(t, live) \/ FinishCancel(t, live) \/ FinishSubscribe(t, live)
           \/ FinishUnsubscribe(t, live) \/ FinishClose(t, live)
  BY Zenon, <1>1, <1>2, <1>4, FinishQuietly
<1> QED
  BY Zenon, <1>1, <1>3, <1>4 DEF Finish
-----------------------------------------------------------------------------
(***************************************************************************)
(* The registry.  A task that runs is among the observers, one that is     *)
(* retired is over; once a shutdown has joined everyone nobody registers   *)
(* any more.                                                               *)
(***************************************************************************)
RegistryShape ==
  /\ reg \in [Observers -> {"idle", "subscribing", "withdrawing", "registered", "refused"}]
  /\ forwarder \in [Observers -> {"none", "waiting", "calling", "leaving", "finished"}]
  /\ observers \subseteq Observers /\ retired \subseteq Observers /\ observers \cap retired = {}
  /\ aborted \subseteq Observers
  /\ handle \in [Observers -> {"none", "held", "dropped"}]
  /\ unsub \in [Observers -> {"idle", "gate", "joining", "asking", "done", "given_up"}]
  /\ shutdown \in [Shutdowns -> {"idle", "gate", "joining", "closing", "workers", "done", "failed", "dropped"}]
  /\ gate \in Observers \cup Shutdowns \cup {None}

Known(o) == forwarder[o] # "none" \/ o \in Registered \/ handle[o] # "none" \/ unsub[o] # "idle"

ObserverFits ==
  \A o \in Observers :
    /\ Known(o) => reg[o] = "registered"
    /\ Running(o) => o \in observers
    /\ o \in retired => forwarder[o] = "finished"
    /\ unsub[o] \in {"asking", "done"} => ~ Running(o)
    /\ o \in observers /\ forwarder[o] = "finished" => o \in aborted

PlacesFit == IsFiniteSet(Holding) /\ Cardinality(Holding) <= MaxObservers

ShutdownFits ==
  /\ \A s \in Shutdowns :
       /\ shutdown[s] # "idle" => closeState # 0
       /\ shutdown[s] \in {"closing", "workers"} => Registered = {}
       /\ shutdown[s] = "workers" => exited
  /\ closeState = 2 => Registered = {} /\ exited

RegistryInv == RegistryShape /\ ObserverFits /\ PlacesFit /\ ShutdownFits

LEMMA RegistryStart == Init => RegistryInv
<1> SUFFICES ASSUME Init PROVE RegistryInv
  BY Zenon
<1>1. RegistryShape
  BY Zenon DEF Init, RegistryShape
<1>2. \A o \in Observers : ~ Known(o) /\ ~ Running(o) /\ ~ Subscribing(o) /\ o \notin Registered
  BY Zenon DEF Init, Known, Running, Subscribing, Registered
<1>3. ObserverFits
  BY Zenon, <1>2 DEF ObserverFits, Registered
<1>4. Holding = {} /\ Registered = {}
  BY Zenon, <1>2 DEF Holding, Init, Registered
<1>5. PlacesFit
  BY <1>4, FS_EmptySet, PlacesAssumption DEF PlacesFit
<1>6. ShutdownFits
  BY DEF Init, ActorInit, ShutdownFits
<1> QED
  BY Zenon, <1>1, <1>3, <1>5, <1>6 DEF RegistryInv

\* Nobody takes a new place.
LEMMA PlacesShrink ==
  ASSUME PlacesFit, Holding' \subseteq Holding
  PROVE  PlacesFit'
<1>1. /\ IsFiniteSet(Holding') /\ Cardinality(Holding') <= Cardinality(Holding)
      /\ Cardinality(Holding') \in Nat /\ Cardinality(Holding) \in Nat
  BY Zenon, FS_Subset, FS_CardinalityType DEF PlacesFit
<1> QED
  BY <1>1, PlacesAssumption DEF PlacesFit

\* A step of the actor.
LEMMA RegistryWaits ==
  ASSUME RegistryInv, UNCHANGED registryVars, closeState' = closeState, exited => exited'
  PROVE  RegistryInv'
<1>1. /\ reg' = reg /\ forwarder' = forwarder /\ observers' = observers /\ retired' = retired
      /\ aborted' = aborted /\ handle' = handle /\ unsub' = unsub /\ shutdown' = shutdown /\ gate' = gate
  BY Zenon DEF registryVars
<1>2. RegistryShape'
  BY Zenon, <1>1 DEF RegistryInv, RegistryShape
<1>3. ObserverFits'
  BY Zenon, <1>1 DEF RegistryInv, ObserverFits, Known, Running, Registered
<1>4. Holding' = Holding
  BY Zenon, <1>1 DEF Holding, Subscribing, Running, Registered
<1>5. PlacesFit'
  BY Zenon, <1>4, PlacesShrink DEF RegistryInv
<1>6. ShutdownFits'
  BY Zenon, <1>1 DEF RegistryInv, ShutdownFits, Registered
<1> QED
  BY Zenon, <1>2, <1>3, <1>5, <1>6 DEF RegistryInv

\* A running task goes on, or ends: told to, or by itself and retired.
LEMMA ForwardStep ==
  ASSUME RegistryInv, NEW o \in Observers, Running(o),
         NEW to \in {"waiting", "calling", "leaving", "finished"}, forwarder' = [forwarder EXCEPT ![o] = to],
         UNCHANGED <<reg, aborted, handle, unsub, shutdown, gate, closeState, exited>>,
         \/ observers' = observers /\ retired' = retired /\ (to = "finished" => o \in aborted)
         \/ to = "finished" /\ observers' = observers \ {o} /\ retired' = retired \cup {o}
  PROVE  RegistryInv'
<1>1. /\ reg' = reg /\ aborted' = aborted /\ handle' = handle /\ unsub' = unsub /\ shutdown' = shutdown
      /\ gate' = gate /\ closeState' = closeState /\ exited' = exited
  BY Zenon
<1>2. /\ forwarder' \in [Observers -> {"none", "waiting", "calling", "leaving", "finished"}]
      /\ \A u \in Observers : forwarder'[u] = IF u = o THEN to ELSE forwarder[u]
  BY Zenon DEF RegistryInv, RegistryShape
<1>3. /\ o \in observers /\ o \notin retired /\ reg[o] = "registered" /\ unsub[o] \notin {"asking", "done"}
      /\ forwarder[o] # "none" /\ forwarder[o] # "finished"
  BY Zenon DEF RegistryInv, RegistryShape, ObserverFits, Known, Running
<1>4. Registered' = Registered
  BY Zenon, <1>3 DEF Registered
<1>5. RegistryShape'
  BY <1>1, <1>2, <1>3 DEF RegistryInv, RegistryShape
<1>6. ObserverFits'
  <2> SUFFICES ASSUME NEW u \in Observers
               PROVE  /\ Known(u)' => reg'[u] = "registered"
                      /\ Running(u)' => u \in observers'
                      /\ u \in retired' => forwarder'[u] = "finished"
                      /\ unsub'[u] \in {"asking", "done"} => ~ Running(u)'
                      /\ u \in observers' /\ forwarder'[u] = "finished" => u \in aborted'
    BY Zenon DEF ObserverFits
  <2>1. CASE u = o
    BY Zenon, <1>1, <1>2, <1>3, <2>1 DEF Running
  <2>2. CASE u # o
    <3>1. (Known(u)' => Known(u)) /\ Running(u)' = Running(u)
      BY Zenon, <1>1, <1>2, <1>4, <2>2 DEF Known, Running
    <3> QED
      BY Zenon, <1>1, <1>2, <2>2, <3>1 DEF RegistryInv, ObserverFits
  <2> QED
    BY Zenon, <2>1, <2>2
<1>7. Holding' \subseteq Holding
  BY Zenon, <1>1, <1>2, <1>4 DEF Holding, Subscribing, Running
<1>8. PlacesFit'
  BY Zenon, <1>7, PlacesShrink DEF RegistryInv
<1>9. ShutdownFits'
  BY <1>1, <1>4 DEF RegistryInv, ShutdownFits
<1> QED
  BY Zenon, <1>5, <1>6, <1>8, <1>9 DEF RegistryInv

\* Handles and unsubscriptions change; tasks and registries stay.
LEMMA HandleStep ==
  ASSUME RegistryInv,
         UNCHANGED <<reg, forwarder, observers, retired, shutdown, closeState, exited>>,
         aborted \subseteq aborted', aborted' \subseteq Observers, gate' \in Observers \cup Shutdowns \cup {None},
         handle' \in [Observers -> {"none", "held", "dropped"}],
         unsub' \in [Observers -> {"idle", "gate", "joining", "asking", "done", "given_up"}],
         \A o \in Observers :
           /\ handle'[o] # "none" \/ unsub'[o] # "idle" => Known(o)
           /\ unsub'[o] \in {"asking", "done"} => unsub[o] \in {"asking", "done"}
  PROVE  RegistryInv'
<1>1. /\ reg' = reg /\ forwarder' = forwarder /\ observers' = observers /\ retired' = retired
      /\ shutdown' = shutdown /\ closeState' = closeState /\ exited' = exited
  BY Zenon
<1>2. RegistryShape'
  BY <1>1 DEF RegistryInv, RegistryShape
<1>3. Registered' = Registered
  BY Zenon, <1>1 DEF Registered
<1>4. \A o \in Observers : (Known(o)' => Known(o)) /\ Running(o)' = Running(o)
  BY Zenon, <1>1, <1>3 DEF Known, Running
<1>5. ObserverFits'
  BY Zenon, <1>1, <1>4 DEF RegistryInv, ObserverFits
<1>6. Holding' \subseteq Holding
  BY Zenon, <1>1, <1>3 DEF Holding, Subscribing, Running
<1>7. PlacesFit'
  BY Zenon, <1>6, PlacesShrink DEF RegistryInv
<1>8. ShutdownFits'
  BY <1>1, <1>3 DEF RegistryInv, ShutdownFits
<1> QED
  BY Zenon, <1>2, <1>5, <1>7, <1>8 DEF RegistryInv

\* A task that is over is joined.
LEMMA JoinStep ==
  ASSUME RegistryInv, NEW o \in Observers, Joined(o),
         observers' = observers \ {o}, retired' = retired \ {o},
         UNCHANGED <<reg, forwarder, aborted, handle, shutdown, gate, closeState, exited>>,
         unsub' = unsub \/ (unsub[o] = "joining" /\ unsub' = [unsub EXCEPT ![o] = "asking"])
  PROVE  RegistryInv'
<1>1. /\ reg' = reg /\ forwarder' = forwarder /\ aborted' = aborted /\ handle' = handle
      /\ shutdown' = shutdown /\ gate' = gate /\ closeState' = closeState /\ exited' = exited
  BY Zenon
<1>2. ~ Running(o)
  BY Zenon DEF RegistryInv, ObserverFits, Joined, Registered, Running
<1>3. /\ unsub' \in [Observers -> {"idle", "gate", "joining", "asking", "done", "given_up"}]
      /\ \A u \in Observers : unsub'[u] = unsub[u] \/ (u = o /\ unsub[u] # "idle")
  BY DEF RegistryInv, RegistryShape
<1>4. Registered' = Registered \ {o}
  BY Zenon DEF Registered
<1>5. RegistryShape'
  BY <1>1, <1>3 DEF RegistryInv, RegistryShape
<1>6. \A u \in Observers : (Known(u)' => Known(u)) /\ Running(u)' = Running(u)
  BY Zenon, <1>1, <1>3, <1>4 DEF Known, Running
<1>7. ObserverFits'
  BY Zenon, <1>1, <1>2, <1>3, <1>6 DEF RegistryInv, ObserverFits
<1>8. Holding' \subseteq Holding
  BY Zenon, <1>1, <1>4 DEF Holding, Subscribing, Running
<1>9. PlacesFit'
  BY Zenon, <1>8, PlacesShrink DEF RegistryInv
<1>10. ShutdownFits'
  BY <1>1, <1>4 DEF RegistryInv, ShutdownFits
<1> QED
  BY Zenon, <1>5, <1>7, <1>9, <1>10 DEF RegistryInv

\* A shutdown moves on.
LEMMA ShutdownStep ==
  ASSUME RegistryInv, NEW s \in Shutdowns,
         NEW to \in {"gate", "joining", "closing", "workers", "done", "failed", "dropped"},
         shutdown' = [shutdown EXCEPT ![s] = to],
         UNCHANGED <<reg, forwarder, observers, retired, handle, unsub>>, exited' = exited,
         aborted \subseteq aborted', aborted' \subseteq Observers, gate' \in Observers \cup Shutdowns \cup {None},
         closeState' # 0, closeState' = 2 => closeState = 2 \/ (Registered = {} /\ exited),
         to \in {"closing", "workers"} => Registered = {}, to = "workers" => exited
  PROVE  RegistryInv'
<1>1. /\ reg' = reg /\ forwarder' = forwarder /\ observers' = observers /\ retired' = retired
      /\ handle' = handle /\ unsub' = unsub
  BY Zenon
<1>2. /\ shutdown' \in [Shutdowns -> {"idle", "gate", "joining", "closing", "workers", "done", "failed", "dropped"}]
      /\ \A u \in Shutdowns : shutdown'[u] = IF u = s THEN to ELSE shutdown[u]
  BY Zenon DEF RegistryInv, RegistryShape
<1>3. RegistryShape'
  BY <1>1, <1>2 DEF RegistryInv, RegistryShape
<1>4. Registered' = Registered
  BY Zenon, <1>1 DEF Registered
<1>5. \A o \in Observers : Known(o)' = Known(o) /\ Running(o)' = Running(o)
  BY Zenon, <1>1, <1>4 DEF Known, Running
<1>6. ObserverFits'
  BY Zenon, <1>1, <1>5 DEF RegistryInv, ObserverFits
<1>7. Holding' \subseteq Holding
  BY Zenon, <1>1, <1>4 DEF Holding, Subscribing, Running
<1>8. PlacesFit'
  BY Zenon, <1>7, PlacesShrink DEF RegistryInv
<1>9. ShutdownFits'
  BY Zenon, <1>2, <1>4 DEF RegistryInv, ShutdownFits
<1> QED
  BY Zenon, <1>3, <1>6, <1>8, <1>9 DEF RegistryInv

\* A registration is refused or given up.
LEMMA RefuseStep ==
  ASSUME RegistryInv, NEW o \in Observers, reg[o] # "registered",
         NEW to \in {"withdrawing", "refused"}, to = "withdrawing" => Subscribing(o),
         reg' = [reg EXCEPT ![o] = to], retired' \subseteq retired,
         \A r \in retired \ retired' : forwarder[r] = "finished",
         UNCHANGED <<forwarder, observers, aborted, handle, unsub, shutdown, gate, closeState, exited>>
  PROVE  RegistryInv'
<1>1. /\ forwarder' = forwarder /\ observers' = observers /\ aborted' = aborted /\ handle' = handle
      /\ unsub' = unsub /\ shutdown' = shutdown /\ gate' = gate /\ closeState' = closeState /\ exited' = exited
  BY Zenon
<1>2. /\ reg' \in [Observers -> {"idle", "subscribing", "withdrawing", "registered", "refused"}]
      /\ \A u \in Observers : reg'[u] = IF u = o THEN to ELSE reg[u]
  BY Zenon DEF RegistryInv, RegistryShape
<1>3. RegistryShape'
  BY <1>1, <1>2 DEF RegistryInv, RegistryShape
<1>4. Registered' \subseteq Registered
  BY Zenon, <1>1 DEF Registered
<1>5. \A u \in Observers : (Known(u)' => Known(u)) /\ Running(u)' = Running(u)
  BY Zenon, <1>1, <1>4 DEF Known, Running
<1>6. ~ Known(o)
  BY Zenon DEF RegistryInv, ObserverFits
<1>7. ObserverFits'
  BY Zenon, <1>1, <1>2, <1>5, <1>6 DEF RegistryInv, ObserverFits
<1>8. Holding' \subseteq Holding
  BY Zenon, <1>1, <1>2, <1>4 DEF Holding, Subscribing, Running
<1>9. PlacesFit'
  BY Zenon, <1>8, PlacesShrink DEF RegistryInv
<1>10. ShutdownFits'
  BY <1>1, <1>4 DEF RegistryInv, ShutdownFits
<1> QED
  BY Zenon, <1>3, <1>7, <1>9, <1>10 DEF RegistryInv

\* A place is taken, once those of the tasks that are over were pruned.
LEMMA PlaceStep ==
  ASSUME RegistryInv, NEW o \in Observers, reg[o] = "idle", reg' = [reg EXCEPT ![o] = "subscribing"],
         NEW kept, kept = {r \in retired : forwarder[r] # "finished"}, retired' = kept,
         Cardinality({h \in Holding : h \notin retired \/ h \in kept}) < MaxObservers,
         UNCHANGED <<forwarder, observers, aborted, handle, unsub, shutdown, gate, closeState, exited>>
  PROVE  RegistryInv'
<1>1. /\ forwarder' = forwarder /\ observers' = observers /\ aborted' = aborted /\ handle' = handle
      /\ unsub' = unsub /\ shutdown' = shutdown /\ gate' = gate /\ closeState' = closeState /\ exited' = exited
  BY Zenon
<1>2. /\ reg' \in [Observers -> {"idle", "subscribing", "withdrawing", "registered", "refused"}]
      /\ \A u \in Observers : reg'[u] = IF u = o THEN "subscribing" ELSE reg[u]
  BY Zenon DEF RegistryInv, RegistryShape
<1>3. RegistryShape'
  BY <1>1, <1>2 DEF RegistryInv, RegistryShape
<1>4. Registered' \subseteq Registered
  BY Zenon, <1>1 DEF Registered
<1>5. \A u \in Observers : (Known(u)' => Known(u)) /\ Running(u)' = Running(u)
  BY Zenon, <1>1, <1>4 DEF Known, Running
<1>6. ~ Known(o)
  BY Zenon DEF RegistryInv, ObserverFits
<1>7. ObserverFits'
  BY Zenon, <1>1, <1>2, <1>5, <1>6 DEF RegistryInv, ObserverFits
<1>8. PlacesFit'
  <2> DEFINE left == {h \in Holding : h \notin retired \/ h \in kept}
  <2>1. Holding' \subseteq left \cup {o}
    <3> SUFFICES ASSUME NEW u \in Holding', u # o PROVE u \in left
      BY Zenon
    <3>1. u \in Observers /\ (Subscribing(u)' \/ Running(u)' \/ u \in observers \cup kept)
      BY Zenon, <1>1 DEF Holding, Registered
    <3>2. Subscribing(u)' => Subscribing(u)
      BY Zenon, <1>2, <3>1 DEF Subscribing
    <3>3. Running(u)' => Running(u)
      BY Zenon, <1>5, <3>1
    <3>4. u \in Holding
      BY Zenon, <3>1, <3>2, <3>3 DEF Holding, Registered
    <3>5. u \in retired => u \in kept
      <4>1. ASSUME u \in retired PROVE ~ Running(u) /\ u \notin observers /\ ~ Subscribing(u)
        BY Zenon, <3>1, <4>1 DEF RegistryInv, RegistryShape, ObserverFits, Known, Registered, Running, Subscribing
      <4> QED
        BY Zenon, <3>1, <3>2, <3>3, <4>1
    <3> QED
      BY Zenon, <3>4, <3>5
  <2>2. left \subseteq Holding
    BY Zenon
  <2>3. Cardinality(left) < MaxObservers
    BY Zenon
  <2> HIDE DEF left
  <2>4. IsFiniteSet(left) /\ Cardinality(left) \in Nat
    BY Zenon, <2>2, FS_Subset, FS_CardinalityType DEF RegistryInv, PlacesFit
  <2>5. IsFiniteSet(left \cup {o}) /\ Cardinality(left \cup {o}) <= Cardinality(left) + 1
    <3>1. /\ IsFiniteSet(left \cup {o})
          /\ Cardinality(left \cup {o}) = IF o \in left THEN Cardinality(left) ELSE Cardinality(left) + 1
      BY Zenon, <2>4, FS_AddElement
    <3> QED
      BY <2>4, <3>1
  <2>6. /\ IsFiniteSet(Holding') /\ Cardinality(Holding') <= Cardinality(left \cup {o})
        /\ Cardinality(Holding') \in Nat /\ Cardinality(left \cup {o}) \in Nat
    BY Zenon, <2>1, <2>5, FS_Subset, FS_CardinalityType
  <2> QED
    BY <2>3, <2>4, <2>5, <2>6, PlacesAssumption DEF PlacesFit
<1>9. ShutdownFits'
  BY <1>1, <1>4 DEF RegistryInv, ShutdownFits
<1> QED
  BY Zenon, <1>3, <1>7, <1>8, <1>9 DEF RegistryInv

\* A subscriber gets its task while the core is open.
LEMMA RegisterStep ==
  ASSUME RegistryInv, NEW o \in Observers, reg[o] = "subscribing", closeState = 0,
         reg' = [reg EXCEPT ![o] = "registered"], forwarder' = [forwarder EXCEPT ![o] = "waiting"],
         observers' = observers \cup {o}, handle' = [handle EXCEPT ![o] = "held"],
         UNCHANGED <<retired, aborted, unsub, shutdown, gate, closeState, exited>>
  PROVE  RegistryInv'
<1>1. /\ retired' = retired /\ aborted' = aborted /\ unsub' = unsub /\ shutdown' = shutdown
      /\ gate' = gate /\ closeState' = closeState /\ exited' = exited
  BY Zenon
<1>2. /\ reg' \in [Observers -> {"idle", "subscribing", "withdrawing", "registered", "refused"}]
      /\ \A u \in Observers : reg'[u] = IF u = o THEN "registered" ELSE reg[u]
      /\ forwarder' \in [Observers -> {"none", "waiting", "calling", "leaving", "finished"}]
      /\ \A u \in Observers : forwarder'[u] = IF u = o THEN "waiting" ELSE forwarder[u]
      /\ handle' \in [Observers -> {"none", "held", "dropped"}]
      /\ \A u \in Observers : handle'[u] = IF u = o THEN "held" ELSE handle[u]
  BY Zenon DEF RegistryInv, RegistryShape
<1>3. ~ Known(o) /\ o \notin retired /\ unsub[o] = "idle" /\ o \in Holding
  BY Zenon DEF RegistryInv, ObserverFits, Known, Registered, Holding, Subscribing
<1>4. RegistryShape'
  BY <1>1, <1>2, <1>3 DEF RegistryInv, RegistryShape
<1>5. Registered' = Registered \cup {o}
  BY Zenon, <1>1 DEF Registered
<1>6. ObserverFits'
  <2> SUFFICES ASSUME NEW u \in Observers
               PROVE  /\ Known(u)' => reg'[u] = "registered"
                      /\ Running(u)' => u \in observers'
                      /\ u \in retired' => forwarder'[u] = "finished"
                      /\ unsub'[u] \in {"asking", "done"} => ~ Running(u)'
                      /\ u \in observers' /\ forwarder'[u] = "finished" => u \in aborted'
    BY Zenon DEF ObserverFits
  <2>1. CASE u = o
    <3>1. /\ reg'[u] = "registered" /\ u \in observers' /\ u \notin retired' /\ unsub'[u] = "idle"
          /\ forwarder'[u] = "waiting"
      BY <1>1, <1>2, <1>3, <2>1
    <3> QED
      BY Zenon, <3>1
  <2>2. CASE u # o
    <3>1. (Known(u)' => Known(u)) /\ Running(u)' = Running(u)
      BY <1>1, <1>2, <1>5, <2>2 DEF Known, Running
    <3> QED
      BY <1>1, <1>2, <2>2, <3>1 DEF RegistryInv, ObserverFits
  <2> QED
    BY Zenon, <2>1, <2>2
<1>7. Holding' \subseteq Holding
  BY <1>1, <1>2, <1>3, <1>5 DEF Holding, Subscribing, Running
<1>8. PlacesFit'
  BY Zenon, <1>7, PlacesShrink DEF RegistryInv
<1>9. ShutdownFits'
  BY <1>1 DEF RegistryInv, ShutdownFits
<1> QED
  BY Zenon, <1>4, <1>6, <1>8, <1>9 DEF RegistryInv

(***************************************************************************)
(* The steps of observers and shutdowns.                                   *)
(***************************************************************************)
BoundaryInv == ActorInv /\ RegistryInv

LEMMA SendFacts ==
  ASSUME NEW o, NEW name,
         (o \in Observers /\ name \in DOMAIN ObserverCommands) \/ (o \in Shutdowns /\ name = "close")
  PROVE  <<o, name>> \in Tickets /\ <<o, name>> \notin Calls
  BY TicketsAssumption DEF Tickets

LEMMA SendsKeeps ==
  ASSUME ActorInv, NEW t \in Tickets \ Calls, Sends(t)
  PROVE  ActorInv' /\ closeState' = closeState /\ exited' = exited
<1>1. /\ Submit(t, None)
      /\ UNCHANGED <<plan, closeState, late, running, lifecycle, exited, revision, generation, active, tasks,
                     subs, begun, effects>>
  BY Zenon DEF Sends
<1>2. ActorInv'
  BY Zenon, <1>1, SubmitKeeps
<1> QED
  BY Zenon, <1>1, <1>2

LEMMA DropsKeeps ==
  ASSUME ActorInv, NEW t \in Tickets, Drops(t)
  PROVE  ActorInv' /\ closeState' = closeState /\ exited' = exited
<1>1. /\ ask' = [ask EXCEPT ![t] = IF @ = "waiting" THEN "gone" ELSE @]
      /\ UNCHANGED <<plan, closeState, late, sent, mailbox, running, lifecycle, exited, revision, generation,
                     active, tasks, subs, begun, effects>>
  BY Zenon DEF Drops
<1>2. ActorInv'
  BY Zenon, <1>1, DropKeeps
<1> QED
  BY Zenon, <1>1, <1>2

LEMMA RestKeeps ==
  ASSUME ActorInv, UNCHANGED actorVars
  PROVE  ActorInv' /\ closeState' = closeState /\ exited' = exited
<1>1. UNCHANGED <<plan, ask, late, sent, mailbox, running, lifecycle, exited, revision, generation,
                  active, tasks, subs, begun, effects>> /\ closeState' = closeState
  BY Zenon DEF actorVars
<1>2. closeState' \in 0 .. 2
  BY Zenon, <1>1 DEF ActorInv, ActorShape
<1>3. ActorInv'
  BY Zenon, <1>1, <1>2, IdleKeeps
<1> QED
  BY Zenon, <1>1, <1>3

LEMMA SubscribeKeeps ==
  ASSUME BoundaryInv, NEW o \in Observers, Subscribe(o)
  PROVE  BoundaryInv'
<1>1. PICK kept : kept = {r \in retired : forwarder[r] # "finished"}
  BY Zenon
<1>2. /\ reg[o] = "idle" /\ retired' = kept
      /\ UNCHANGED <<forwarder, observers, aborted, handle, unsub, shutdown, gate>>
  BY Zenon, <1>1 DEF Subscribe
<1>3. CASE /\ Cardinality({h \in Holding : h \notin retired \/ h \in kept}) < MaxObservers
           /\ reg' = [reg EXCEPT ![o] = "subscribing"] /\ Sends(<<o, "subscribe">>)
  <2>1. <<o, "subscribe">> \in Tickets \ Calls
    BY Zenon, SendFacts DEF ObserverCommands
  <2>2. ActorInv' /\ closeState' = closeState /\ exited' = exited
    BY Zenon, <1>3, <2>1, SendsKeeps DEF BoundaryInv
  <2>3. RegistryInv'
    BY Zenon, <1>1, <1>2, <1>3, <2>2, PlaceStep DEF BoundaryInv
  <2> QED
    BY Zenon, <2>2, <2>3 DEF BoundaryInv
<1>4. CASE reg' = [reg EXCEPT ![o] = "refused"] /\ UNCHANGED actorVars
  <2>1. ActorInv' /\ closeState' = closeState /\ exited' = exited
    BY Zenon, <1>4, RestKeeps DEF BoundaryInv
  <2>2. retired' \subseteq retired /\ \A r \in retired \ retired' : forwarder[r] = "finished"
    BY Zenon, <1>1, <1>2
  <2>3. RegistryInv'
    BY Zenon, <1>2, <1>4, <2>1, <2>2, RefuseStep DEF BoundaryInv
  <2> QED
    BY Zenon, <2>1, <2>3 DEF BoundaryInv
<1> QED
  BY Zenon, <1>1, <1>3, <1>4 DEF Subscribe

LEMMA RegisterKeeps ==
  ASSUME BoundaryInv, NEW o \in Observers, Register(o) \/ RegisterFails(o) \/ SubscribeDropped(o)
  PROVE  BoundaryInv'
<1>1. CASE Register(o)
  <2>1. reg[o] = "subscribing" /\ UNCHANGED <<retired, aborted, unsub, shutdown, gate>>
    BY Zenon, <1>1 DEF Register
  <2>2. CASE /\ Admitted(o) /\ reg' = [reg EXCEPT ![o] = "registered"]
             /\ forwarder' = [forwarder EXCEPT ![o] = "waiting"]
             /\ observers' = observers \cup {o} /\ handle' = [handle EXCEPT ![o] = "held"]
             /\ UNCHANGED actorVars
    <3>1. ActorInv' /\ closeState' = closeState /\ exited' = exited
      BY Zenon, <2>2, RestKeeps DEF BoundaryInv
    <3>2. RegistryInv'
      BY Zenon, <2>1, <2>2, <3>1, RegisterStep DEF BoundaryInv, Admitted
    <3> QED
      BY Zenon, <3>1, <3>2 DEF BoundaryInv
  <2>3. CASE /\ reg' = [reg EXCEPT ![o] = "withdrawing"] /\ Sends(<<o, "withdraw">>)
             /\ UNCHANGED <<forwarder, observers, handle>>
    <3>1. <<o, "withdraw">> \in Tickets \ Calls
      BY Zenon, SendFacts DEF ObserverCommands
    <3>2. ActorInv' /\ closeState' = closeState /\ exited' = exited
      BY Zenon, <2>3, <3>1, SendsKeeps DEF BoundaryInv
    <3>3. RegistryInv'
      BY Zenon, <2>1, <2>3, <3>2, RefuseStep DEF BoundaryInv, Subscribing
    <3> QED
      BY Zenon, <3>2, <3>3 DEF BoundaryInv
  <2> QED
    BY Zenon, <1>1, <2>2, <2>3 DEF Register
<1>2. CASE RegisterFails(o)
  <2>1. /\ reg[o] # "registered" /\ reg' = [reg EXCEPT ![o] = "refused"] /\ UNCHANGED actorVars
        /\ UNCHANGED <<forwarder, observers, retired, aborted, handle, unsub, shutdown, gate>>
    BY Zenon, <1>2 DEF RegisterFails
  <2>2. ActorInv' /\ closeState' = closeState /\ exited' = exited
    BY Zenon, <2>1, RestKeeps DEF BoundaryInv
  <2>3. RegistryInv'
    BY Zenon, <2>1, <2>2, RefuseStep DEF BoundaryInv
  <2> QED
    BY Zenon, <2>2, <2>3 DEF BoundaryInv
<1>3. CASE SubscribeDropped(o)
  <2>1. /\ reg[o] # "registered" /\ reg' = [reg EXCEPT ![o] = "refused"]
        /\ UNCHANGED <<forwarder, observers, retired, aborted, handle, unsub, shutdown, gate>>
    BY Zenon, <1>3 DEF SubscribeDropped, Subscribing
  <2>2. PICK name \in DOMAIN ObserverCommands : Drops(<<o, name>>)
    BY Zenon, <1>3 DEF SubscribeDropped, ObserverCommands
  <2>3. ActorInv' /\ closeState' = closeState /\ exited' = exited
    BY Zenon, <2>2, SendFacts, DropsKeeps DEF BoundaryInv
  <2>4. RegistryInv'
    BY Zenon, <2>1, <2>3, RefuseStep DEF BoundaryInv
  <2> QED
    BY Zenon, <2>3, <2>4 DEF BoundaryInv
<1> QED
  BY Zenon, <1>1, <1>2, <1>3

LEMMA ForwarderKeeps ==
  ASSUME BoundaryInv, NEW o \in Observers, Deliver(o) \/ ForwarderSteps(o) \/ Aborts(o)
  PROVE  BoundaryInv'
<1>1. CASE Deliver(o) \/ Return(o)
  <2>1. /\ UNCHANGED actorVars /\ Running(o)
        /\ UNCHANGED <<reg, aborted, handle, unsub, shutdown, gate, observers, retired>>
    BY Zenon, <1>1 DEF Deliver, Return, Moves, Running
  <2>2. PICK to \in {"calling", "waiting"} : forwarder' = [forwarder EXCEPT ![o] = to]
    BY Zenon, <1>1 DEF Deliver, Return, Moves
  <2>3. ActorInv' /\ closeState' = closeState /\ exited' = exited
    BY Zenon, <2>1, RestKeeps DEF BoundaryInv
  <2>4. RegistryInv'
    BY Zenon, <2>1, <2>2, <2>3, ForwardStep DEF BoundaryInv
  <2> QED
    BY Zenon, <2>3, <2>4 DEF BoundaryInv
<1>2. CASE Leave(o)
  <2>1. /\ Sends(<<o, "leave">>) /\ Running(o) /\ forwarder' = [forwarder EXCEPT ![o] = "leaving"]
        /\ UNCHANGED <<reg, aborted, handle, unsub, shutdown, gate, observers, retired>>
    BY Zenon, <1>2 DEF Leave, Moves, Running
  <2>2. <<o, "leave">> \in Tickets \ Calls
    BY Zenon, SendFacts DEF ObserverCommands
  <2>3. ActorInv' /\ closeState' = closeState /\ exited' = exited
    BY Zenon, <2>1, <2>2, SendsKeeps DEF BoundaryInv
  <2>4. RegistryInv'
    BY Zenon, <2>1, <2>3, ForwardStep DEF BoundaryInv
  <2> QED
    BY Zenon, <2>3, <2>4 DEF BoundaryInv
<1>3. CASE Retire(o)
  <2>1. /\ UNCHANGED actorVars /\ Running(o) /\ forwarder' = [forwarder EXCEPT ![o] = "finished"]
        /\ observers' = observers \ {o} /\ retired' = IF o \in observers THEN retired \cup {o} ELSE retired
        /\ UNCHANGED <<reg, aborted, handle, unsub, shutdown, gate>>
    BY Zenon, <1>3 DEF Retire, Moves, Running
  <2>2. o \in observers
    BY Zenon, <2>1 DEF BoundaryInv, RegistryInv, ObserverFits
  <2>3. ActorInv' /\ closeState' = closeState /\ exited' = exited
    BY Zenon, <2>1, RestKeeps DEF BoundaryInv
  <2>4. RegistryInv'
    BY Zenon, <2>1, <2>2, <2>3, ForwardStep DEF BoundaryInv
  <2> QED
    BY Zenon, <2>3, <2>4 DEF BoundaryInv
<1>4. CASE Aborts(o)
  <2>1. /\ Running(o) /\ forwarder' = [forwarder EXCEPT ![o] = "finished"] /\ o \in aborted
        /\ UNCHANGED <<reg, aborted, handle, unsub, shutdown, gate, observers, retired>>
        /\ UNCHANGED actorVars \/ Drops(<<o, "leave">>)
    BY Zenon, <1>4 DEF Aborts, Moves, Running
  <2>2. <<o, "leave">> \in Tickets
    BY Zenon, SendFacts DEF ObserverCommands
  <2>3. ActorInv' /\ closeState' = closeState /\ exited' = exited
    BY Zenon, <2>1, <2>2, RestKeeps, DropsKeeps DEF BoundaryInv
  <2>4. RegistryInv'
    BY Zenon, <2>1, <2>3, ForwardStep DEF BoundaryInv
  <2> QED
    BY Zenon, <2>3, <2>4 DEF BoundaryInv
<1> QED
  BY Zenon, <1>1, <1>2, <1>3, <1>4 DEF ForwarderSteps

LEMMA HandleKeeps ==
  ASSUME BoundaryInv, NEW o \in Observers,
         \/ DropHandle(o) \/ Unsubscribe(o) \/ UnsubscribeEnters(o) \/ UnsubscribeEnds(o) \/ UnsubscribeDropped(o)
  PROVE  BoundaryInv'
<1> DEFINE Handles == [Observers -> {"none", "held", "dropped"}]
           Unsubs == [Observers -> {"idle", "gate", "joining", "asking", "done", "given_up"}]
           Fair == \A u \in Observers : /\ handle'[u] # "none" \/ unsub'[u] # "idle" => Known(u)
                                        /\ unsub'[u] \in {"asking", "done"} => unsub[u] \in {"asking", "done"}
<1>1. /\ handle \in Handles /\ unsub \in Unsubs /\ aborted \subseteq Observers
      /\ gate \in Observers \cup Shutdowns \cup {None}
  BY Zenon DEF BoundaryInv, RegistryInv, RegistryShape
<1>2. /\ UNCHANGED <<reg, forwarder, observers, retired, shutdown>>
      /\ UNCHANGED actorVars \/ Drops(<<o, "unsubscribe">>)
  BY Zenon DEF DropHandle, Unsubscribe, UnsubscribeEnters, UnsubscribeEnds, UnsubscribeDropped
<1>3. ActorInv' /\ closeState' = closeState /\ exited' = exited
  <2>1. <<o, "unsubscribe">> \in Tickets
    BY Zenon, SendFacts DEF ObserverCommands
  <2> QED
    BY Zenon, <1>2, <2>1, RestKeeps, DropsKeeps DEF BoundaryInv
<1>4. aborted \subseteq aborted' /\ aborted' \subseteq Observers /\ gate' \in Observers \cup Shutdowns \cup {None}
  BY Zenon, <1>1 DEF DropHandle, Unsubscribe, UnsubscribeEnters, UnsubscribeEnds, UnsubscribeDropped, Leaves
<1>5. handle' \in Handles /\ unsub' \in Unsubs /\ Fair
  <2>1. CASE DropHandle(o)
    <3>1. handle[o] = "held" /\ handle' = [handle EXCEPT ![o] = "dropped"] /\ unsub' = unsub
      BY Zenon, <2>1 DEF DropHandle
    <3>2. handle' \in Handles /\ \A u \in Observers : handle'[u] # "none" => handle[u] # "none"
      BY Zenon, <1>1, <3>1
    <3> QED
      BY Zenon, <1>1, <3>1, <3>2 DEF Known
  <2>2. CASE \E to \in {"gate", "joining", "given_up"} :
               /\ unsub' = [unsub EXCEPT ![o] = to] /\ handle' = handle
               /\ handle[o] = "held" \/ unsub[o] # "idle"
    <3>1. PICK to \in {"gate", "joining", "given_up"} :
            unsub' = [unsub EXCEPT ![o] = to] /\ handle' = handle /\ (handle[o] = "held" \/ unsub[o] # "idle")
      BY Zenon, <2>2
    <3>2. unsub' \in Unsubs /\ \A u \in Observers : unsub'[u] = IF u = o THEN to ELSE unsub[u]
      BY Zenon, <1>1, <3>1
    <3> QED
      BY Zenon, <1>1, <3>1, <3>2 DEF Known
  <2>3. CASE unsub[o] = "asking" /\ unsub' = [unsub EXCEPT ![o] = "done"] /\ handle' = handle
    <3>1. unsub' \in Unsubs /\ \A u \in Observers : unsub'[u] = IF u = o THEN "done" ELSE unsub[u]
      BY Zenon, <1>1, <2>3
    <3> QED
      BY Zenon, <1>1, <2>3, <3>1 DEF Known
  <2> QED
    BY Zenon, <2>1, <2>2, <2>3 DEF Unsubscribe, UnsubscribeEnters, UnsubscribeEnds, UnsubscribeDropped
<1>6. RegistryInv'
  BY Zenon, <1>2, <1>3, <1>4, <1>5, HandleStep DEF BoundaryInv
<1> QED
  BY Zenon, <1>3, <1>6 DEF BoundaryInv

LEMMA JoinKeeps ==
  ASSUME BoundaryInv, NEW o \in Observers, UnsubscribeJoins(o) \/ \E s \in Shutdowns : ShutdownJoins(s, o)
  PROVE  BoundaryInv'
<1>1. /\ Joined(o) /\ observers' = observers \ {o} /\ retired' = retired \ {o}
      /\ UNCHANGED <<reg, forwarder, aborted, handle, shutdown, gate>>
      /\ unsub' = unsub \/ (unsub[o] = "joining" /\ unsub' = [unsub EXCEPT ![o] = "asking"])
      /\ UNCHANGED actorVars \/ Sends(<<o, "unsubscribe">>)
  BY Zenon DEF UnsubscribeJoins, ShutdownJoins
<1>2. <<o, "unsubscribe">> \in Tickets \ Calls
  BY Zenon, SendFacts DEF ObserverCommands
<1>3. ActorInv' /\ closeState' = closeState /\ exited' = exited
  BY Zenon, <1>1, <1>2, RestKeeps, SendsKeeps DEF BoundaryInv
<1>4. RegistryInv'
  BY Zenon, <1>1, <1>3, JoinStep DEF BoundaryInv
<1> QED
  BY Zenon, <1>3, <1>4 DEF BoundaryInv

LEMMA ShutdownKeeps ==
  ASSUME BoundaryInv, NEW s \in Shutdowns,
         \/ Shutdown(s) \/ ShutdownEnters(s) \/ ShutdownCloses(s) \/ ShutdownStopsWorkers(s) \/ ShutdownEnds(s)
         \/ ShutdownFails(s) \/ ShutdownDropped(s)
  PROVE  BoundaryInv'
<1>1. /\ aborted \subseteq Observers /\ gate \in Observers \cup Shutdowns \cup {None} /\ Registered \subseteq Observers
      /\ shutdown[s] # "idle" => closeState # 0
      /\ shutdown[s] \in {"closing", "workers"} => Registered = {}
      /\ shutdown[s] = "workers" => exited
      /\ closeState \in 0 .. 2
  BY Zenon DEF BoundaryInv, RegistryInv, RegistryShape, ShutdownFits, Registered, ActorInv, ActorShape
<1>2. UNCHANGED <<reg, forwarder, observers, retired, handle, unsub>>
  BY Zenon DEF Shutdown, ShutdownEnters, ShutdownCloses, ShutdownStopsWorkers, ShutdownEnds, ShutdownFails, ShutdownDropped
<1>3. /\ aborted \subseteq aborted' /\ aborted' \subseteq Observers
      /\ gate' \in Observers \cup Shutdowns \cup {None}
  BY Zenon, <1>1 DEF Shutdown, ShutdownEnters, ShutdownCloses, ShutdownStopsWorkers, ShutdownEnds, ShutdownFails,
    ShutdownDropped, Leaves
<1>4. ActorInv' /\ exited' = exited
  <2>1. CASE Shutdown(s) \/ ShutdownEnds(s)
    <3>1. closeState' \in {closeState, 1, 2}
      BY Zenon, <2>1 DEF Shutdown, ShutdownEnds
    <3>2. closeState' \in 0 .. 2
      BY <1>1, <3>1
    <3>3. UNCHANGED <<plan, ask, late, sent, mailbox, running, lifecycle, exited, revision, generation,
                      active, tasks, subs, begun, effects>>
      BY Zenon, <2>1 DEF Shutdown, ShutdownEnds
    <3> QED
      BY Zenon, <3>2, <3>3, IdleKeeps DEF BoundaryInv
  <2>2. CASE ShutdownEnters(s) \/ ShutdownCloses(s) \/ ShutdownStopsWorkers(s) \/ ShutdownFails(s) \/ ShutdownDropped(s)
    <3>1. UNCHANGED actorVars \/ Sends(<<s, "close">>) \/ Drops(<<s, "close">>)
      BY Zenon, <2>2 DEF ShutdownEnters, ShutdownCloses, ShutdownStopsWorkers, ShutdownFails, ShutdownDropped
    <3>2. <<s, "close">> \in Tickets \ Calls
      BY Zenon, SendFacts
    <3> QED
      BY Zenon, <3>1, <3>2, RestKeeps, SendsKeeps, DropsKeeps DEF BoundaryInv
  <2> QED
    BY Zenon, <2>1, <2>2
<1>5. PICK to \in {"gate", "joining", "closing", "workers", "done", "failed", "dropped"} :
        /\ shutdown' = [shutdown EXCEPT ![s] = to]
        /\ to \in {"closing", "workers"} => Registered = {}
        /\ to = "workers" => exited
        /\ closeState' # 0 /\ (closeState' = 2 => closeState = 2 \/ (Registered = {} /\ exited))
  <2>1. CASE Shutdown(s)
    BY <1>1, <2>1 DEF Shutdown
  <2>2. CASE ShutdownEnds(s)
    BY <1>1, <2>2 DEF ShutdownEnds
  <2>3. CASE ShutdownEnters(s)
    BY Zenon, <1>1, <2>3 DEF ShutdownEnters, actorVars
  <2>4. CASE ShutdownCloses(s)
    <3>1. closeState' = closeState
      BY Zenon, <2>4 DEF ShutdownCloses, Sends, actorVars
    <3> QED
      BY Zenon, <1>1, <2>4, <3>1 DEF ShutdownCloses
  <2>5. CASE ShutdownStopsWorkers(s)
    BY Zenon, <1>1, <2>5 DEF ShutdownStopsWorkers, AwaitExit, actorVars
  <2>6. CASE ShutdownFails(s)
    BY Zenon, <1>1, <2>6 DEF ShutdownFails, actorVars
  <2>7. CASE ShutdownDropped(s)
    BY Zenon, <1>1, <2>7 DEF ShutdownDropped, Drops
  <2> QED
    BY Zenon, <2>1, <2>2, <2>3, <2>4, <2>5, <2>6, <2>7
<1>6. RegistryInv'
  BY Zenon, <1>2, <1>3, <1>4, <1>5, ShutdownStep DEF BoundaryInv
<1> QED
  BY Zenon, <1>4, <1>6 DEF BoundaryInv

LEMMA ActorKeeps ==
  ASSUME BoundaryInv, ActorSteps \/ CallerSteps \/ TimeSteps
  PROVE  BoundaryInv'
<1>1. UNCHANGED registryVars /\ closeState' = closeState /\ (exited => exited')
  <2>1. CASE ActorSteps
    <3>1. ASSUME Take(Live) PROVE closeState' = closeState /\ (exited => exited')
      BY <3>1, Zenon DEF Take
    <3>2. ASSUME Finish(Live) PROVE closeState' = closeState /\ (exited => exited')
      BY <3>2, Zenon DEF Finish
    <3>3. ASSUME Exit PROVE closeState' = closeState /\ (exited => exited')
      BY <3>3, Zenon DEF Exit
    <3>4. ASSUME NEW t \in Calls, CompleteRefresh(t, Live) PROVE closeState' = closeState /\ (exited => exited')
      BY <3>4, Zenon DEF CompleteRefresh
    <3> QED
      BY <2>1, <3>1, <3>2, <3>3, <3>4, Zenon DEF ActorSteps, OfActor
  <2>2. CASE CallerSteps
    BY <2>2 DEF CallerSteps, OfActor, Call, Abandon, StageExpires
  <2>3. CASE TimeSteps
    BY <2>3 DEF TimeSteps, OfActor, Expire, TimeOut
  <2> QED
    BY Zenon, <2>1, <2>2, <2>3
<1>2. RegistryInv'
  BY Zenon, <1>1, RegistryWaits DEF BoundaryInv
<1>3. ActorInv'
  <2>1. CASE ActorSteps
    <3>1. Calls \subseteq Tickets
      BY Zenon DEF Tickets
    <3> QED
      BY Zenon, <2>1, <3>1, TakeKeeps, FinishKeeps, ExitKeeps, CompleteRefreshKeeps DEF ActorSteps, OfActor, BoundaryInv
  <2>2. CASE \E c \in Calls : Call(c)
    BY Zenon, <2>2, CallKeeps DEF BoundaryInv
  <2>3. CASE \E c \in Calls : Abandon(c)
    <3>1. PICK c \in Calls : Abandon(c)
      BY Zenon, <2>3
    <3>2. /\ ask' = [ask EXCEPT ![c] = IF @ = "waiting" THEN "gone" ELSE @] /\ c \in Tickets
          /\ UNCHANGED <<plan, closeState, late, sent, mailbox, running, lifecycle, exited, revision, generation,
                         active, tasks, subs, begun, effects>>
      BY Zenon, <3>1 DEF Abandon, Tickets
    <3> QED
      BY Zenon, <3>2, DropKeeps DEF BoundaryInv
  <2>4. CASE StageExpires
    <3>1. /\ closeState' \in 0 .. 2
          /\ UNCHANGED <<plan, ask, late, sent, mailbox, running, lifecycle, exited, revision, generation,
                         active, tasks, subs, begun, effects>>
      BY Zenon, <2>4 DEF StageExpires, BoundaryInv, ActorInv, ActorShape
    <3> QED
      BY Zenon, <3>1, IdleKeeps DEF BoundaryInv
  <2>5. CASE TimeSteps
    BY Zenon, <2>5, ExpireKeeps, TimeOutKeeps DEF TimeSteps, OfActor, BoundaryInv
  <2> QED
    BY Zenon, <2>1, <2>2, <2>3, <2>4, <2>5 DEF CallerSteps, OfActor
<1> QED
  BY Zenon, <1>2, <1>3 DEF BoundaryInv

LEMMA BoundaryStep == BoundaryInv /\ [Next]_vars => BoundaryInv'
<1> SUFFICES ASSUME BoundaryInv, [Next]_vars PROVE BoundaryInv'
  BY Zenon
<1>1. CASE ActorSteps \/ CallerSteps \/ TimeSteps
  BY Zenon, <1>1, ActorKeeps
<1>2. ASSUME NEW o \in Observers,
             \/ Subscribe(o) \/ RegisterSteps(o) \/ SubscribeDropped(o) \/ Deliver(o) \/ ForwarderSteps(o) \/ Aborts(o)
             \/ DropHandle(o) \/ Unsubscribe(o) \/ UnsubscribeSteps(o) \/ UnsubscribeDropped(o)
      PROVE  BoundaryInv'
  BY Zenon, <1>2, SubscribeKeeps, RegisterKeeps, ForwarderKeeps, HandleKeeps, JoinKeeps DEF RegisterSteps, UnsubscribeSteps
<1>3. ASSUME NEW s \in Shutdowns, Shutdown(s) \/ ShutdownSteps(s) \/ ShutdownDropped(s)
      PROVE  BoundaryInv'
  BY Zenon, <1>3, ShutdownKeeps, JoinKeeps DEF ShutdownSteps
<1>4. CASE UNCHANGED vars
  <2>1. UNCHANGED actorVars /\ UNCHANGED registryVars
    BY Zenon, <1>4 DEF vars
  <2>2. ActorInv' /\ closeState' = closeState /\ exited' = exited
    BY Zenon, <2>1, RestKeeps DEF BoundaryInv
  <2>3. RegistryInv'
    BY Zenon, <2>1, <2>2, RegistryWaits DEF BoundaryInv
  <2> QED
    BY Zenon, <2>2, <2>3 DEF BoundaryInv
<1> QED
  BY Zenon, <1>1, <1>2, <1>3, <1>4 DEF Next

LEMMA BoundaryInvariant == Spec => []BoundaryInv
<1>1. Init => BoundaryInv
  BY Zenon, ActorStart, RegistryStart DEF Init, BoundaryInv
<1> QED
  BY <1>1, BoundaryStep, PTL DEF Spec

(***************************************************************************)
(* What the caller of a hub mutation is told is true of the hub: completed *)
(* means it is there, a refusal that it is not and never will be, however  *)
(* dispatch_with_deadline and the actor race; effects belong to the        *)
(* session and the snapshot of their call; mailbox, refreshes and          *)
(* observers stay within their limits, whatever these are.                 *)
(***************************************************************************)
THEOREM AnswersAreHonest == Spec => []AnswersMatchEffects
<1>1. BoundaryInv => AnswersMatchEffects
  <2> SUFFICES ASSUME BoundaryInv PROVE AnswersMatchEffects
    BY Zenon
  <2>1. AnswersAreTrue /\ EffectsAreCurrent
    BY Zenon DEF BoundaryInv, ActorInv, EffectFits
  <2>2. Range(mailbox) \subseteq Tickets
    BY DEF BoundaryInv, ActorInv, ActorShape, Range
  <2>3. /\ closeState \in 0 .. 2
        /\ \A t \in Tickets : ask[t] \in {"idle", "waiting", "gone"} \cup Answers
        /\ late \subseteq Tickets /\ begun \subseteq Tickets
        /\ Len(mailbox) <= Capacity /\ running \in Tickets \cup {None}
        /\ tasks \subseteq Calls /\ Cardinality(tasks) <= MaxTasks /\ subs \subseteq Observers
    BY Zenon DEF BoundaryInv, ActorInv, ActorShape
  <2>4. exited \in BOOLEAN /\ active \in BOOLEAN
    BY Zenon DEF BoundaryInv, ActorInv, ActorShape
  <2>5. /\ Cardinality(Holding) <= MaxObservers /\ observers \cap retired = {}
        /\ gate \in Observers \cup Shutdowns \cup {None}
    BY Zenon DEF BoundaryInv, RegistryInv, RegistryShape, PlacesFit
  <2> QED
    BY Zenon, <2>1, <2>2, <2>3, <2>4, <2>5 DEF AnswersMatchEffects, TypeOK
<1> QED
  BY <1>1, BoundaryInvariant, PTL

(***************************************************************************)
(* However subscribe_changes_v2, unsubscribe and shutdown_v2 interleave    *)
(* and whichever of them is dropped half way, no forwarder outlives its    *)
(* subscription or the runtime, and none that ended by itself keeps its    *)
(* place.                                                                  *)
(***************************************************************************)
THEOREM ObserversComeToAnEnd == Spec => []ObserversEnd
<1>1. BoundaryInv => ObserversEnd
  <2> SUFFICES ASSUME BoundaryInv PROVE ObserversEnd
    BY Zenon
  <2>1. ShutdownIsComplete
    <3> SUFFICES ASSUME closeState = 2
                 PROVE  /\ exited /\ mailbox = <<>> /\ running = None /\ tasks = {} /\ subs = {}
                        /\ Registered = {} /\ \A o \in Observers : ~ Running(o)
      BY Zenon DEF ShutdownIsComplete
    <3>1. Registered = {} /\ exited
      BY Zenon DEF BoundaryInv, RegistryInv, ShutdownFits
    <3>2. mailbox = <<>> /\ running = None /\ tasks = {} /\ subs = {}
      BY Zenon, <3>1 DEF BoundaryInv, ActorInv, ClosedFits
    <3>3. \A o \in Observers : ~ Running(o)
      BY Zenon, <3>1 DEF BoundaryInv, RegistryInv, ObserverFits, Registered
    <3> QED
      BY Zenon, <3>1, <3>2, <3>3
  <2>2. UnsubscribedIsQuiet
    BY Zenon DEF BoundaryInv, RegistryInv, ObserverFits, UnsubscribedIsQuiet
  <2>3. EndedIsRetired
    BY Zenon DEF BoundaryInv, RegistryInv, RegistryShape, ObserverFits, EndedIsRetired
  <2> QED
    BY Zenon, <2>1, <2>2, <2>3 DEF ObserversEnd
<1> QED
  BY <1>1, BoundaryInvariant, PTL

(***************************************************************************)
(* "An expired queued close cannot later change runtime state", for every  *)
(* command: the actor begins no command whose caller was told an answer,   *)
(* because only a deadline answers a queued command and preflight looks at *)
(* the deadline.                                                           *)
(***************************************************************************)
THEOREM AnsweredNeverBegins == Spec => NothingBeginsAnswered
<1>1. BoundaryInv /\ [Next]_vars => [\A t \in begun' \ begun : ~ Answered(t)]_vars
  <2> SUFFICES ASSUME BoundaryInv, Next
               PROVE  \A t \in begun' \ begun : ~ Answered(t)
    BY Zenon
  <2>1. CASE Take(Live)
    <3>1. PICK t : t = Head(mailbox)
      BY Zenon
    <3>2. /\ mailbox # <<>> /\ mailbox' = Tail(mailbox)
          /\ begun' = begun \/ (Preflight(t) = "pass" /\ begun' = begun \cup {t})
      BY <2>1, <3>1, Zenon DEF Take
    <3>3. t \in Tickets /\ Queued(t)
      BY Zenon, <3>1, <3>2, TailFacts DEF BoundaryInv, ActorInv, ActorShape, PendingOnce
    <3>4. Preflight(t) = "pass" => t \notin late
      BY Zenon DEF Preflight
    <3>5. Preflight(t) = "pass" => ~ Answered(t)
      BY Zenon, <3>3, <3>4 DEF BoundaryInv, ActorInv, PendingFits, Pending, Answered
    <3> QED
      BY Zenon, <3>2, <3>5
  <2>2. ASSUME ~ Take(Live), ActorSteps \/ CallerSteps \/ TimeSteps
        PROVE  begun' = begun
    <3>1. ASSUME Finish(Live) \/ Exit PROVE begun' = begun
      BY <3>1, Zenon DEF Finish, Exit
    <3>2. ASSUME NEW t, CompleteRefresh(t, Live) PROVE begun' = begun
      BY <3>2, Zenon DEF CompleteRefresh
    <3>3. ASSUME NEW c, Call(c) \/ Abandon(c) \/ Expire(c) \/ TimeOut(c) PROVE begun' = begun
      BY <3>3, Zenon DEF Call, Abandon, Expire, TimeOut
    <3>4. ASSUME StageExpires PROVE begun' = begun
      BY <3>4, Zenon DEF StageExpires
    <3> QED
      BY <2>2, <3>1, <3>2, <3>3, <3>4, Zenon DEF ActorSteps, CallerSteps, TimeSteps, OfActor
  <2>3. ASSUME NEW t, Sends(t) \/ Drops(t) \/ UNCHANGED actorVars
        PROVE  begun' = begun
    BY Zenon, <2>3 DEF Sends, Drops, actorVars
  <2>4. ASSUME NEW o \in Observers,
               \/ Subscribe(o) \/ RegisterSteps(o) \/ SubscribeDropped(o) \/ Deliver(o) \/ ForwarderSteps(o) \/ Aborts(o)
               \/ DropHandle(o) \/ Unsubscribe(o) \/ UnsubscribeSteps(o) \/ UnsubscribeDropped(o)
        PROVE  begun' = begun
    <3>1. CASE Subscribe(o) \/ RegisterSteps(o) \/ SubscribeDropped(o)
      BY Zenon, <2>3, <3>1 DEF Subscribe, RegisterSteps, Register, RegisterFails, SubscribeDropped, actorVars
    <3>2. CASE Deliver(o) \/ ForwarderSteps(o) \/ Aborts(o)
      BY Zenon, <2>3, <3>2 DEF Deliver, ForwarderSteps, Return, Leave, Retire, Aborts, actorVars
    <3>3. CASE DropHandle(o) \/ Unsubscribe(o) \/ UnsubscribeSteps(o) \/ UnsubscribeDropped(o)
      BY Zenon, <2>3, <3>3 DEF DropHandle, Unsubscribe, UnsubscribeSteps, UnsubscribeEnters, UnsubscribeJoins,
                        UnsubscribeEnds, UnsubscribeDropped, actorVars
    <3> QED
      BY Zenon, <2>4, <3>1, <3>2, <3>3
  <2>5. ASSUME NEW s \in Shutdowns, Shutdown(s) \/ ShutdownSteps(s) \/ ShutdownDropped(s)
        PROVE  begun' = begun
    <3>1. CASE Shutdown(s) \/ ShutdownEnds(s)
      BY Zenon, <3>1 DEF Shutdown, ShutdownEnds
    <3>2. CASE ShutdownEnters(s) \/ ShutdownCloses(s) \/ \E o \in Observers : ShutdownJoins(s, o)
      BY Zenon, <2>3, <3>2 DEF ShutdownEnters, ShutdownCloses, ShutdownJoins, actorVars
    <3>3. CASE ShutdownStopsWorkers(s) \/ ShutdownFails(s) \/ ShutdownDropped(s)
      BY Zenon, <2>3, <3>3 DEF ShutdownStopsWorkers, ShutdownFails, ShutdownDropped, actorVars
    <3> QED
      BY Zenon, <2>5, <3>1, <3>2, <3>3 DEF ShutdownSteps
  <2> QED
    BY <2>1, <2>2, <2>4, <2>5, Zenon DEF Next
<1> QED
  BY <1>1, BoundaryInvariant, PTL DEF Spec, NothingBeginsAnswered
=============================================================================
