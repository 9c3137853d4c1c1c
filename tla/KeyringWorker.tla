---------------------------- MODULE KeyringWorker ----------------------------
(***************************************************************************)
(* The bounded keyring worker: one thread that owns the OS credential      *)
(* store and serves a bounded queue.  Callers may abandon a request at any *)
(* moment; a compare-and-swap on the request's phase decides whether the   *)
(* caller cancelled it first or the worker started it first.               *)
(***************************************************************************)
EXTENDS Naturals, Sequences, FiniteSets

CONSTANTS Requests,    \* credential operations
          Loads,       \* the ones that only read, which carry no phase
          CloseSignal, \* Request::Close
          QueueLimit   \* KEYRING_QUEUE_CAPACITY

ASSUME WorkerAssumption ==
  /\ Loads \subseteq Requests
  /\ CloseSignal \notin Requests
  /\ QueueLimit \in Nat \ {0}

VARIABLES sender,     \* the worker still accepts requests
          queue,      \* requests waiting for the worker
          phase,      \* OPERATION_* phase of each request
          caller,     \* what each caller knows ("withdrawn": its cancellation won)
          reply,      \* the oneshot answer of each request
          worker,     \* what the thread is doing
          running,    \* the requests the thread is executing (none or one)
          performed,  \* history: requests whose store call took effect
          closer      \* the call that closes the worker

vars == <<sender, queue, phase, caller, reply, worker, running, performed, closer>>

Init ==
  /\ sender = TRUE
  /\ queue = <<>>
  /\ phase = [r \in Requests |-> "queued"]
  /\ caller = [r \in Requests |-> "idle"]
  /\ reply = [r \in Requests |-> "none"]
  /\ worker = "waiting"
  /\ running = {}
  /\ performed = {}
  /\ closer = "idle"

Alive == worker \in {"waiting", "executing"}

Full == Len(queue) >= QueueLimit

(***************************************************************************)
(* submit: refused at once without a sender, with a full queue or with a   *)
(* dead thread; otherwise the caller waits for the answer.                 *)
(***************************************************************************)
Submit(r) ==
  /\ caller[r] = "idle"
  /\ IF sender /\ Alive /\ ~Full
     THEN /\ queue' = Append(queue, r)
          /\ caller' = [caller EXCEPT ![r] = "waiting"]
     ELSE /\ caller' = [caller EXCEPT ![r] = "unavailable"]
          /\ UNCHANGED queue
  /\ UNCHANGED <<sender, phase, reply, worker, running, performed, closer>>

(***************************************************************************)
(* CancellationGuard: dropping the waiting call cancels the request unless *)
(* the worker started it.  A load shares no phase with the worker.         *)
(***************************************************************************)
Cancelled(r) == IF r \notin Loads /\ phase[r] = "queued" THEN "cancelled" ELSE phase[r]

Abandon(r) ==
  /\ caller[r] = "waiting"
  /\ phase' = [phase EXCEPT ![r] = Cancelled(r)]
  /\ caller' = [caller EXCEPT ![r] = IF phase'[r] = "cancelled" THEN "withdrawn" ELSE "abandoned"]
  /\ UNCHANGED <<sender, queue, reply, worker, running, performed, closer>>

(***************************************************************************)
(* The answer, or the error for an answer that was dropped.                *)
(***************************************************************************)
Answered(r) ==
  /\ caller[r] = "waiting"
  /\ reply[r] = "sent"
  /\ caller' = [caller EXCEPT ![r] = "answered"]
  /\ UNCHANGED <<sender, queue, phase, reply, worker, running, performed, closer>>

\* Mutant of DroppedOutcome.
DroppedAsUnavailable(r) == "unavailable"

DroppedOutcome(r) == IF phase[r] \in {"started", "completed"} THEN "recovery" ELSE "unavailable"

Dropped(r) ==
  /\ caller[r] = "waiting"
  /\ reply[r] = "dropped"
  /\ caller' = [caller EXCEPT ![r] = DroppedOutcome(r)]
  /\ UNCHANGED <<sender, queue, phase, reply, worker, running, performed, closer>>

(***************************************************************************)
(* The worker loop.  Taking a request starts it by compare-and-swap; one   *)
(* that was cancelled is dropped.  Close ends the loop and drops whatever  *)
(* is still queued behind it.                                              *)
(***************************************************************************)
\* Mutant of DropAnswers.
KeepAnswers(requests) == reply

DropAnswers(requests) ==
  [r \in Requests |-> IF r \in requests /\ reply[r] = "none" THEN "dropped" ELSE reply[r]]

Queued == {queue[i] : i \in 1 .. Len(queue)} \ {CloseSignal}

\* Mutant of Starts.
StartsUnchecked(r) == TRUE

Starts(r) == r \in Loads \/ phase[r] = "queued"

Take ==
  /\ worker = "waiting"
  /\ queue # <<>>
  /\ Head(queue) # CloseSignal
  /\ queue' = Tail(queue)
  /\ LET r == Head(queue)
     IN IF Starts(r)
        THEN /\ phase' = IF r \in Loads THEN phase ELSE [phase EXCEPT ![r] = "started"]
             /\ worker' = "executing"
             /\ running' = {r}
             /\ UNCHANGED reply
        ELSE /\ reply' = DropAnswers({r})
             /\ UNCHANGED <<phase, worker, running>>
  /\ UNCHANGED <<sender, caller, performed, closer>>

Perform(r) ==
  /\ r \in running \ performed
  /\ performed' = performed \cup {r}
  /\ UNCHANGED <<sender, queue, phase, caller, reply, worker, running, closer>>

Finish(r) ==
  /\ r \in running \cap performed
  /\ phase' = IF r \in Loads THEN phase ELSE [phase EXCEPT ![r] = "completed"]
  /\ reply' = [reply EXCEPT ![r] = "sent"]
  /\ worker' = "waiting"
  /\ running' = {}
  /\ UNCHANGED <<sender, queue, caller, performed, closer>>

(***************************************************************************)
(* The store call panics: the thread dies and every pending answer is      *)
(* dropped with the channel.                                               *)
(***************************************************************************)
Die ==
  /\ worker = "executing"
  /\ worker' = "dead"
  /\ running' = {}
  /\ queue' = <<>>
  /\ reply' = DropAnswers(Queued \cup running)
  /\ UNCHANGED <<sender, phase, caller, performed, closer>>

LoopEnds ==
  \/ queue # <<>> /\ Head(queue) = CloseSignal
  \/ queue = <<>> /\ ~sender

Exit ==
  /\ worker = "waiting"
  /\ LoopEnds
  /\ worker' = "exited"
  /\ queue' = <<>>
  /\ reply' = DropAnswers(Queued)
  /\ UNCHANGED <<sender, phase, caller, running, performed, closer>>

(***************************************************************************)
(* close: the sender is taken once, a close request is queued if there is  *)
(* room, and the caller waits for the thread to finish.  A later call      *)
(* resumes the wait.                                                       *)
(***************************************************************************)
SignalClose == IF Alive /\ ~Full THEN Append(queue, CloseSignal) ELSE queue

Close ==
  /\ closer \in {"idle", "recovery", "unavailable"}
  /\ closer' = "waiting"
  /\ sender' = FALSE
  /\ queue' = IF sender THEN SignalClose ELSE queue
  /\ UNCHANGED <<phase, caller, reply, worker, running, performed>>

\* Mutant of CloseEnds.
CloseEndsEarly ==
  \/ Alive /\ closer' = "ok"
  \/ worker = "dead" /\ closer' = "unavailable"

CloseEnds ==
  \/ worker = "exited" /\ closer' = "ok"
  \/ worker = "dead" /\ closer' = "unavailable"

CloseReturns ==
  /\ closer = "waiting"
  /\ CloseEnds
  /\ UNCHANGED <<sender, queue, phase, caller, reply, worker, running, performed>>

CloseTimesOut ==
  /\ closer = "waiting"
  /\ closer' = "recovery"
  /\ UNCHANGED <<sender, queue, phase, caller, reply, worker, running, performed>>

Worker == Take \/ Exit \/ (\E r \in Requests : Perform(r) \/ Finish(r))

Next ==
  \/ \E r \in Requests : Submit(r) \/ Abandon(r) \/ Answered(r) \/ Dropped(r)
  \/ Worker \/ Die
  \/ Close \/ CloseReturns \/ CloseTimesOut

Spec == Init /\ [][Next]_vars

(***************************************************************************)
(* Fairness: the thread keeps running and a store call returns, and a      *)
(* caller whose answer is there is polled.                                 *)
(***************************************************************************)
Fairness ==
  /\ WF_vars(Worker)
  /\ \A r \in Requests : WF_vars(Answered(r) \/ Dropped(r))

FairSpec == Spec /\ Fairness
-----------------------------------------------------------------------------
(***************************************************************************)
(* Every part has its type, and the queue never exceeds its bound.         *)
(***************************************************************************)
TypeOK ==
  /\ sender \in BOOLEAN
  /\ queue \in Seq(Requests \cup {CloseSignal})
  /\ Len(queue) <= QueueLimit
  /\ phase \in [Requests -> {"queued", "cancelled", "started", "completed"}]
  /\ caller \in [Requests -> {"idle", "waiting", "answered", "recovery", "unavailable",
                           "abandoned", "withdrawn"}]
  /\ reply \in [Requests -> {"none", "sent", "dropped"}]
  /\ worker \in {"waiting", "executing", "exited", "dead"}
  /\ running \subseteq Requests
  /\ performed \subseteq Requests
  /\ closer \in {"idle", "waiting", "ok", "recovery", "unavailable"}

(***************************************************************************)
(* A request its caller cancelled in time never touches the credential     *)
(* store, then or later: the abandoned call and the worker cannot both win *)
(* the phase.                                                              *)
(***************************************************************************)
CancelledNeverRuns ==
  \A r \in Requests : caller[r] = "withdrawn" => r \notin performed \cup running

(***************************************************************************)
(* A caller told that the store is unavailable, which it may retry, holds  *)
(* a request that has not touched the store and never will; only the       *)
(* recovery error leaves that open.  A load changes nothing, so it may be  *)
(* reported either way.                                                    *)
(***************************************************************************)
UnavailableMeansUntouched ==
  \A r \in Requests \ Loads : caller[r] = "unavailable" => r \notin performed \cup running

(***************************************************************************)
(* A successful close leaves nothing behind: the thread has finished, no   *)
(* request is queued or executing, and every caller still waiting has its  *)
(* answer.                                                                 *)
(***************************************************************************)
CloseLeavesNothing ==
  closer = "ok" =>
    /\ worker = "exited"
    /\ queue = <<>> /\ running = {}
    /\ \A r \in Requests : caller[r] = "waiting" => reply[r] = "sent"

(***************************************************************************)
(* The queue stays within its bound, and a close that reported success     *)
(* left no thread, request or unanswered caller.                           *)
(***************************************************************************)
WorkerSound == TypeOK /\ CloseLeavesNothing

(***************************************************************************)
(* Every caller that waits is eventually answered, whatever is closed or   *)
(* dies under it.                                                          *)
(***************************************************************************)
EveryCallReturns ==
  \A r \in Requests : (caller[r] = "waiting") ~> (caller[r] # "waiting")

(***************************************************************************)
(* Once close has taken the sender the thread ends, even if the queue was  *)
(* full and the close request could not be queued.                         *)
(***************************************************************************)
ClosedWorkerEnds == ~sender ~> ~Alive

(***************************************************************************)
(* Nobody waits for ever: every call returns, and a closed worker ends.    *)
(***************************************************************************)
NobodyWaitsForEver == EveryCallReturns /\ ClosedWorkerEnds
=============================================================================
