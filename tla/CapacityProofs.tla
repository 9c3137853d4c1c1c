--------------------------- MODULE CapacityProofs ---------------------------
(***************************************************************************)
(* Proofs about three components that work within a capacity and share no  *)
(* step: the keyring worker and its bounded queue, retained availability   *)
(* evidence, and the stock journal.  Each holds for every value of the     *)
(* constants.                                                              *)
(***************************************************************************)
EXTENDS Integers, KeyringWorker, AvailabilityEvidence, HubJournal, FiniteSetTheorems, TLAPS

(***************************************************************************)
(* The keyring worker, for any requests and any queue bound.               *)
(***************************************************************************)
Waits(r) == \E i \in 1 .. Len(queue) : queue[i] = r

\* A request is queued once, before anything happened to it.
QueueFits ==
  /\ \A i, j \in 1 .. Len(queue) : queue[i] \in Requests /\ queue[i] = queue[j] => i = j
  /\ \A r \in Requests : Waits(r) =>
       /\ caller[r] \in {"waiting", "abandoned", "withdrawn"}
       /\ r \notin running \cup performed
       /\ phase[r] \in {"queued", "cancelled"}

\* A request nobody submitted is untouched.
IdleFits ==
  \A r \in Requests : caller[r] = "idle" =>
    phase[r] = "queued" /\ reply[r] = "none" /\ r \notin running \cup performed

\* The store is touched only by a request the worker started.
StoreFits ==
  /\ \A r \in Requests \ Loads :
       /\ r \in running => phase[r] = "started"
       /\ r \in performed => phase[r] \in {"started", "completed"}
  /\ \A r \in Loads : phase[r] = "queued"

\* Only a request that left the queue and the thread has its answer.
ReplyFits ==
  \A r \in Requests : reply[r] # "none" => ~ Waits(r) /\ r \notin running

\* What the callers' errors rest on.
CallerFits ==
  /\ \A r \in Requests : caller[r] = "withdrawn" => r \notin Loads /\ phase[r] = "cancelled"
  /\ \A r \in Requests \ Loads : caller[r] = "unavailable" =>
       phase[r] \in {"queued", "cancelled"} /\ ~ Waits(r)

WorkerInv == TypeOK /\ QueueFits /\ IdleFits /\ StoreFits /\ ReplyFits /\ CallerFits
-----------------------------------------------------------------------------
LEMMA WorkerInit == Init => WorkerInv
<1> SUFFICES ASSUME Init PROVE WorkerInv
  BY Zenon
<1> USE WorkerAssumption DEF Init
<1>1. TypeOK
  BY DEF TypeOK
<1>2. QueueFits /\ IdleFits /\ StoreFits /\ ReplyFits /\ CallerFits
  BY DEF QueueFits, IdleFits, StoreFits, ReplyFits, CallerFits, Waits
<1> QED
  BY Zenon, <1>1, <1>2 DEF WorkerInv

(***************************************************************************)
(* What the queue holds after each of its changes.                         *)
(***************************************************************************)
LEMMA QueueAppend ==
  ASSUME TypeOK, NEW e \in Requests \cup {CloseSignal}, queue' = Append(queue, e),
         ~ Full
  PROVE  /\ queue' \in Seq(Requests \cup {CloseSignal}) /\ Len(queue') <= QueueLimit
         /\ \A r \in Requests : Waits(r)' => Waits(r) \/ r = e
         /\ \A i \in 1 .. Len(queue') : \/ i \in 1 .. Len(queue) /\ queue'[i] = queue[i]
                                        \/ i = Len(queue) + 1 /\ queue'[i] = e
<1>1. queue \in Seq(Requests \cup {CloseSignal}) /\ Len(queue) < QueueLimit /\ QueueLimit \in Nat
  BY WorkerAssumption DEF TypeOK, Full
<1>2. queue' \in Seq(Requests \cup {CloseSignal}) /\ Len(queue') = Len(queue) + 1
  BY <1>1
<1>3. \A i \in 1 .. Len(queue') : \/ i \in 1 .. Len(queue) /\ queue'[i] = queue[i]
                                  \/ i = Len(queue) + 1 /\ queue'[i] = e
  BY <1>1, <1>2
<1>4. ASSUME NEW r \in Requests, Waits(r)' PROVE Waits(r) \/ r = e
  <2>1. PICK i \in 1 .. Len(queue') : queue'[i] = r
    BY Zenon, <1>4 DEF Waits
  <2> QED
    BY Zenon, <2>1, <1>3 DEF Waits
<1>5. Len(queue') <= QueueLimit
  BY <1>1, <1>2
<1> QED
  BY Zenon, <1>2, <1>3, <1>4, <1>5 DEF Waits

LEMMA QueueTail ==
  ASSUME TypeOK, queue # <<>>, queue' = Tail(queue)
  PROVE  /\ queue' \in Seq(Requests \cup {CloseSignal}) /\ Len(queue') <= QueueLimit
         /\ Head(queue) \in Requests \cup {CloseSignal}
         /\ \A i \in 1 .. Len(queue') : i + 1 \in 1 .. Len(queue) /\ queue'[i] = queue[i + 1]
         /\ Head(queue) = queue[1] /\ 1 \in 1 .. Len(queue)
         /\ \A r \in Requests : Waits(r)' => Waits(r)
BY WorkerAssumption DEF TypeOK, Waits

(***************************************************************************)
(* The callers: submitting, abandoning, and hearing of the outcome.        *)
(***************************************************************************)
LEMMA SubmitStep ==
  ASSUME WorkerInv, NEW r \in Requests, Submit(r)
  PROVE  WorkerInv'
<1> USE DEF WorkerInv
<1>1. UNCHANGED <<sender, phase, reply, worker, running, performed, closer>> /\ caller[r] = "idle"
  BY Zenon DEF Submit
<1>2. phase[r] = "queued" /\ reply[r] = "none" /\ r \notin running \cup performed /\ ~ Waits(r)
  BY Zenon, <1>1 DEF IdleFits, QueueFits
<1>3. CASE sender /\ Alive /\ ~Full
  <2>1. queue' = Append(queue, r) /\ caller' = [caller EXCEPT ![r] = "waiting"]
    BY Zenon, <1>3 DEF Submit
  <2>2. /\ queue' \in Seq(Requests \cup {CloseSignal}) /\ Len(queue') <= QueueLimit
        /\ \A s \in Requests : Waits(s)' => Waits(s) \/ s = r
        /\ \A i \in 1 .. Len(queue') : \/ i \in 1 .. Len(queue) /\ queue'[i] = queue[i]
                                       \/ i = Len(queue) + 1 /\ queue'[i] = r
    BY Zenon, <1>3, <2>1, QueueAppend
  <2>3. TypeOK'
    BY Zenon, <1>1, <2>1, <2>2 DEF TypeOK
  <2>4. \A i, j \in 1 .. Len(queue') : queue'[i] \in Requests /\ queue'[i] = queue'[j] => i = j
    BY <1>2, <2>2 DEF QueueFits, Waits
  <2>5. QueueFits'
    BY <1>1, <1>2, <2>1, <2>2, <2>4 DEF QueueFits, TypeOK
  <2>6. IdleFits' /\ StoreFits' /\ ReplyFits' /\ CallerFits'
    BY <1>1, <1>2, <2>1, <2>2 DEF TypeOK, IdleFits, StoreFits, ReplyFits, CallerFits
  <2> QED
    BY Zenon, <2>3, <2>5, <2>6
<1>4. CASE ~ (sender /\ Alive /\ ~Full)
  <2>1. queue' = queue /\ caller' = [caller EXCEPT ![r] = "unavailable"]
    BY Zenon, <1>4 DEF Submit
  <2>2. TypeOK'
    BY Zenon, <1>1, <2>1 DEF TypeOK
  <2>3. QueueFits' /\ IdleFits' /\ StoreFits' /\ ReplyFits' /\ CallerFits'
    BY <1>1, <1>2, <2>1 DEF TypeOK, QueueFits, IdleFits, StoreFits, ReplyFits, CallerFits, Waits
  <2> QED
    BY Zenon, <2>2, <2>3
<1> QED
  BY Zenon, <1>3, <1>4

LEMMA AbandonStep ==
  ASSUME WorkerInv, NEW r \in Requests, Abandon(r)
  PROVE  WorkerInv'
<1> USE DEF WorkerInv, Abandon, Cancelled
<1>1. TypeOK'
  BY Zenon DEF TypeOK
<1>2. \A s \in Requests : phase'[s] = phase[s] \/ (phase[s] = "queued" /\ phase'[s] = "cancelled")
  BY Zenon DEF TypeOK
<1>3. QueueFits' /\ IdleFits' /\ StoreFits' /\ ReplyFits'
  BY <1>2 DEF TypeOK, QueueFits, IdleFits, StoreFits, ReplyFits, Waits
<1>4. CallerFits'
  <2>1. phase'[r] = "cancelled" => r \notin Loads
    BY Zenon DEF TypeOK, StoreFits
  <2> QED
    BY <1>2, <2>1 DEF TypeOK, CallerFits, Waits
<1> QED
  BY Zenon, <1>1, <1>3, <1>4

LEMMA HearStep ==
  ASSUME WorkerInv, NEW r \in Requests, Answered(r) \/ Dropped(r)
  PROVE  WorkerInv'
<1> USE DEF WorkerInv, Answered, Dropped, DroppedOutcome
<1>1. TypeOK'
  <2>1. PICK known \in {"answered", "recovery", "unavailable"} : caller' = [caller EXCEPT ![r] = known]
    BY Zenon
  <2> QED
    BY Zenon, <2>1 DEF TypeOK
<1>2. ~ Waits(r)
  BY Zenon DEF ReplyFits
<1>3. QueueFits' /\ IdleFits' /\ StoreFits' /\ ReplyFits'
  BY <1>2 DEF TypeOK, QueueFits, IdleFits, StoreFits, ReplyFits, Waits
<1>4. CallerFits'
  BY <1>2 DEF TypeOK, CallerFits, Waits
<1> QED
  BY Zenon, <1>1, <1>3, <1>4

(***************************************************************************)
(* The thread.                                                             *)
(***************************************************************************)
LEMMA TakeStep ==
  ASSUME WorkerInv, Take
  PROVE  WorkerInv'
<1> USE DEF WorkerInv
<1>0. PICK r \in Requests : r = Head(queue)
  BY Zenon, QueueTail DEF Take
<1>1. queue' = Tail(queue) /\ queue # <<>>
      /\ UNCHANGED <<sender, caller, performed, closer>>
  BY Zenon DEF Take
<1>2. /\ queue' \in Seq(Requests \cup {CloseSignal}) /\ Len(queue') <= QueueLimit
      /\ \A i \in 1 .. Len(queue') : i + 1 \in 1 .. Len(queue) /\ queue'[i] = queue[i + 1]
      /\ r = queue[1] /\ 1 \in 1 .. Len(queue)
      /\ \A s \in Requests : Waits(s)' => Waits(s)
  BY Zenon, <1>0, <1>1, QueueTail
<1>3. Waits(r)
  BY Zenon, <1>2 DEF Waits
<1>4. ~ Waits(r)'
  BY <1>2 DEF QueueFits, Waits
<1>5. \A i, j \in 1 .. Len(queue') : queue'[i] \in Requests /\ queue'[i] = queue'[j] => i = j
  <2> TAKE i, j \in 1 .. Len(queue')
  <2> HAVE queue'[i] \in Requests /\ queue'[i] = queue'[j]
  <2>1. /\ i + 1 \in 1 .. Len(queue) /\ j + 1 \in 1 .. Len(queue)
        /\ queue[i + 1] \in Requests /\ queue[i + 1] = queue[j + 1]
    BY Zenon, <1>2
  <2>2. i + 1 = j + 1
    BY Zenon, <2>1 DEF QueueFits
  <2> QED
    BY <2>2
<1>6. /\ caller[r] \in {"waiting", "abandoned", "withdrawn"}
      /\ r \notin running \cup performed /\ phase[r] \in {"queued", "cancelled"}
  BY Zenon, <1>2, <1>3 DEF QueueFits
<1>7. CASE Starts(r)
  <2>1. /\ phase' = IF r \in Loads THEN phase ELSE [phase EXCEPT ![r] = "started"]
        /\ worker' = "executing" /\ running' = {r} /\ reply' = reply
    BY Zenon, <1>0, <1>7 DEF Take
  <2>2. TypeOK'
    BY Zenon, <1>1, <1>2, <2>1 DEF TypeOK
  <2>3. QueueFits'
    BY <1>1, <1>2, <1>4, <1>5, <2>1 DEF QueueFits, TypeOK
  <2>4. IdleFits' /\ StoreFits'
    BY <1>1, <1>2, <1>6, <2>1 DEF TypeOK, IdleFits, StoreFits
  <2>5. ReplyFits'
    BY Zenon, <1>2, <1>3, <1>4, <2>1 DEF ReplyFits
  <2>6. CallerFits'
    BY Zenon, <1>1, <1>2, <1>3, <1>6, <1>7, <2>1 DEF TypeOK, CallerFits, Starts
  <2> QED
    BY Zenon, <2>2, <2>3, <2>4, <2>5, <2>6
<1>8. CASE ~ Starts(r)
  <2>1. reply' = DropAnswers({r}) /\ UNCHANGED <<phase, worker, running>>
    BY Zenon, <1>0, <1>8 DEF Take
  <2>2. \A s \in Requests : reply'[s] = reply[s] \/ (s = r /\ reply'[s] = "dropped")
    BY Zenon, <2>1 DEF DropAnswers
  <2>3. TypeOK'
    BY Zenon, <1>1, <1>2, <2>1 DEF TypeOK, DropAnswers
  <2>4. QueueFits' /\ StoreFits' /\ CallerFits'
    BY Zenon, <1>1, <1>2, <1>5, <2>1 DEF QueueFits, StoreFits, CallerFits
  <2>5. IdleFits' /\ ReplyFits'
    BY Zenon, <1>1, <1>2, <1>4, <1>6, <2>1, <2>2 DEF IdleFits, ReplyFits
  <2> QED
    BY Zenon, <2>3, <2>4, <2>5
<1> QED
  BY Zenon, <1>7, <1>8

LEMMA RunStep ==
  ASSUME WorkerInv, NEW r \in Requests, Perform(r) \/ Finish(r)
  PROVE  WorkerInv'
<1> USE DEF WorkerInv, Perform, Finish
<1>1. TypeOK'
  BY Zenon DEF TypeOK
<1>2. ~ Waits(r) /\ caller[r] # "idle" /\ reply[r] = "none"
  BY Zenon DEF QueueFits, IdleFits, ReplyFits
<1>3. r \notin Loads => phase[r] = "started"
  BY Zenon DEF StoreFits
<1>4. QueueFits'
  BY <1>2 DEF TypeOK, QueueFits, Waits
<1>5. IdleFits' /\ StoreFits'
  BY <1>2, <1>3, WorkerAssumption DEF TypeOK, IdleFits, StoreFits
<1>6. ReplyFits' /\ CallerFits'
  BY <1>2, <1>3 DEF TypeOK, ReplyFits, CallerFits, Waits
<1> QED
  BY Zenon, <1>1, <1>4, <1>5, <1>6

LEMMA EndStep ==
  ASSUME WorkerInv, Die \/ Exit
  PROVE  WorkerInv'
<1> USE DEF WorkerInv
<1>1. /\ queue' = <<>> /\ UNCHANGED <<sender, phase, caller, performed, closer>>
      /\ running' \in {{}, running} /\ worker' \in {"dead", "exited"}
      /\ \E requests \in {Queued, Queued \cup running} :
           reply' = DropAnswers(requests) /\ (running' = running => requests = Queued)
  BY Zenon DEF Die, Exit
<1>2. Queued \subseteq Requests /\ \A r \in Queued : Waits(r)
  BY DEF TypeOK, Queued, Waits
<1>3. \A r \in Requests : ~ Waits(r)'
  BY <1>1 DEF Waits
<1>4. \A r \in Requests : reply'[r] = reply[r] \/ (reply'[r] = "dropped" /\ r \in Queued \cup running)
  BY Zenon, <1>1, <1>2 DEF DropAnswers
<1>5. TypeOK'
  BY <1>1, WorkerAssumption DEF TypeOK, DropAnswers
<1>6. QueueFits' /\ StoreFits' /\ CallerFits'
  BY <1>1, <1>3 DEF QueueFits, StoreFits, CallerFits
<1>7. IdleFits'
  BY Zenon, <1>1, <1>2, <1>4 DEF IdleFits, QueueFits
<1>8. ReplyFits'
  BY <1>1, <1>2, <1>3 DEF ReplyFits, QueueFits, DropAnswers
<1> QED
  BY Zenon, <1>5, <1>6, <1>7, <1>8

LEMMA CloseStep ==
  ASSUME WorkerInv, Close \/ CloseReturns \/ CloseTimesOut
  PROVE  WorkerInv'
<1> USE DEF WorkerInv
<1>1. /\ UNCHANGED <<phase, caller, reply, worker, running, performed>>
      /\ sender' \in BOOLEAN /\ closer' \in {"waiting", "ok", "recovery", "unavailable"}
  BY Zenon DEF Close, CloseReturns, CloseEnds, CloseTimesOut, TypeOK
<1>2. CASE queue' = queue
  BY <1>1, <1>2 DEF TypeOK, QueueFits, IdleFits, StoreFits, ReplyFits, CallerFits, Waits
<1>3. CASE queue' = Append(queue, CloseSignal) /\ ~ Full
  <2>1. /\ queue' \in Seq(Requests \cup {CloseSignal}) /\ Len(queue') <= QueueLimit
        /\ \A s \in Requests : Waits(s)' => Waits(s) \/ s = CloseSignal
        /\ \A i \in 1 .. Len(queue') : \/ i \in 1 .. Len(queue) /\ queue'[i] = queue[i]
                                       \/ i = Len(queue) + 1 /\ queue'[i] = CloseSignal
    BY Zenon, <1>3, QueueAppend
  <2>2. \A s \in Requests : Waits(s)' => Waits(s)
    BY Zenon, <2>1, WorkerAssumption
  <2>3. \A i, j \in 1 .. Len(queue') : queue'[i] \in Requests /\ queue'[i] = queue'[j] => i = j
    BY <2>1, WorkerAssumption DEF QueueFits
  <2>4. TypeOK'
    BY Zenon, <1>1, <2>1 DEF TypeOK
  <2> QED
    BY Zenon, <1>1, <2>2, <2>3, <2>4 DEF QueueFits, IdleFits, StoreFits, ReplyFits, CallerFits
<1> QED
  BY Zenon, <1>2, <1>3 DEF Close, SignalClose, CloseReturns, CloseTimesOut

LEMMA WorkerStep == WorkerInv /\ [Next]_vars => WorkerInv'
<1> SUFFICES ASSUME WorkerInv, [Next]_vars PROVE WorkerInv'
  BY Zenon
<1>1. CASE UNCHANGED vars
  BY <1>1 DEF vars, WorkerInv, TypeOK, QueueFits, IdleFits, StoreFits, ReplyFits, CallerFits, Waits
<1> QED
  BY Zenon, <1>1, SubmitStep, AbandonStep, HearStep, TakeStep, RunStep, EndStep, CloseStep DEF Next, Worker

LEMMA WorkerInvariant == Spec => []WorkerInv
  BY WorkerInit, WorkerStep, PTL DEF Spec

(***************************************************************************)
(* A cancellation that wins is final: the credential store is not touched  *)
(* by that request, then or later.                                         *)
(***************************************************************************)
THEOREM CancellationIsFinal == Spec => []CancelledNeverRuns
<1>1. WorkerInv => CancelledNeverRuns
  BY Zenon DEF WorkerInv, CallerFits, StoreFits, CancelledNeverRuns
<1> QED
  BY <1>1, WorkerInvariant, PTL

(***************************************************************************)
(* A caller told that the store is unavailable may repeat its write: the   *)
(* first one never took effect and never will.                             *)
(***************************************************************************)
THEOREM UnavailableIsClean == Spec => []UnavailableMeansUntouched
<1>1. WorkerInv => UnavailableMeansUntouched
  BY Zenon DEF WorkerInv, CallerFits, StoreFits, UnavailableMeansUntouched
<1> QED
  BY <1>1, WorkerInvariant, PTL

(***************************************************************************)
(* The queue stays within its bound and every part keeps its type.         *)
(***************************************************************************)
THEOREM WorkerTyped == Spec => []TypeOK
<1>1. WorkerInv => TypeOK
  BY Zenon DEF WorkerInv
<1> QED
  BY <1>1, WorkerInvariant, PTL

(***************************************************************************)
(* What a close relies on: the close request is the last one ever queued,  *)
(* a thread that ended left nothing queued or executing, and a caller      *)
(* waits only for what is queued, executing or answered; an answer is      *)
(* dropped under a waiting caller only by the death of the thread.         *)
(***************************************************************************)
CloseFits ==
  /\ \A i \in 1 .. Len(queue) : queue[i] = CloseSignal => i = Len(queue) /\ ~ sender
  /\ worker = "exited" => ~ sender
  /\ ~ Alive => queue = <<>>
  /\ worker # "executing" => running = {}
  /\ \A r, s \in running : r = s
  /\ closer = "ok" => worker = "exited"

WaitFits ==
  \A r \in Requests :
    /\ phase[r] = "cancelled" => caller[r] = "withdrawn"
    /\ caller[r] = "waiting" => Waits(r) \/ r \in running \/ reply[r] # "none"
    /\ caller[r] = "waiting" /\ reply[r] = "dropped" => worker = "dead"

CloseInv == WorkerInv /\ CloseFits /\ WaitFits
-----------------------------------------------------------------------------
LEMMA CloseInit == Init => CloseInv
<1> SUFFICES ASSUME Init PROVE CloseInv
  BY Zenon
<1>1. CloseFits /\ WaitFits
  BY DEF Init, CloseFits, WaitFits, Alive
<1> QED
  BY Zenon, <1>1, WorkerInit DEF CloseInv

(***************************************************************************)
(* The callers: none is queued behind the close request.                   *)
(***************************************************************************)
LEMMA CallerClose ==
  ASSUME CloseInv, NEW r \in Requests, Submit(r) \/ Abandon(r) \/ Answered(r) \/ Dropped(r)
  PROVE  CloseFits' /\ WaitFits'
<1> USE DEF CloseInv, WorkerInv
<1>1. UNCHANGED <<sender, reply, worker, running, performed, closer>>
  BY Zenon DEF Submit, Abandon, Answered, Dropped
<1>2. CASE Submit(r) /\ sender /\ Alive /\ ~Full
  <2>1. queue' = Append(queue, r) /\ caller' = [caller EXCEPT ![r] = "waiting"] /\ phase' = phase
    BY Zenon, <1>2 DEF Submit
  <2>2. \A i \in 1 .. Len(queue') : \/ i \in 1 .. Len(queue) /\ queue'[i] = queue[i]
                                    \/ i = Len(queue) + 1 /\ queue'[i] = r
    BY Zenon, <1>2, <2>1, QueueAppend
  <2>3. \A i \in 1 .. Len(queue) : i \in 1 .. Len(queue') /\ queue'[i] = queue[i]
    BY <2>1 DEF TypeOK
  <2>4. \A i \in 1 .. Len(queue') : queue'[i] # CloseSignal
    BY Zenon, <1>2, <2>2, WorkerAssumption DEF CloseFits
  <2>5. CloseFits'
    BY Zenon, <1>1, <1>2, <2>4 DEF CloseFits, Alive
  <2>6. Waits(r)' /\ \A s \in Requests : Waits(s) => Waits(s)'
    <3>1. Waits(r)'
      <4>1. PICK k \in Nat : k = Len(queue) + 1
        BY DEF TypeOK
      <4>2. k \in 1 .. Len(queue')
        BY <2>1, <4>1 DEF TypeOK
      <4>3. queue'[k] = r
        BY <2>1, <4>1 DEF TypeOK
      <4> QED
        BY Zenon, <4>2, <4>3 DEF Waits
    <3>2. ASSUME NEW s \in Requests, Waits(s) PROVE Waits(s)'
      <4>1. PICK i \in 1 .. Len(queue) : queue[i] = s
        BY Zenon, <3>2 DEF Waits
      <4> QED
        BY Zenon, <2>3, <4>1 DEF Waits
    <3> QED
      BY Zenon, <3>1, <3>2
  <2>7. phase[r] = "queued" /\ reply[r] = "none"
    BY Zenon, <1>2 DEF IdleFits, Submit
  <2>8. WaitFits'
    BY Zenon, <1>1, <2>1, <2>6, <2>7 DEF WaitFits, TypeOK
  <2> QED
    BY Zenon, <2>5, <2>8
<1>3. CASE ~ (Submit(r) /\ sender /\ Alive /\ ~Full)
  <2>1. queue' = queue
    BY Zenon, <1>3 DEF Submit, Abandon, Answered, Dropped
  <2>2. CloseFits'
    BY Zenon, <1>1, <2>1 DEF CloseFits, Alive
  <2>3. \A s \in Requests \ {r} : phase'[s] = phase[s] /\ caller'[s] = caller[s]
    BY Zenon DEF Submit, Abandon, Answered, Dropped, TypeOK
  <2>4. caller'[r] # "waiting"
    BY Zenon, <1>3 DEF Submit, Abandon, Answered, Dropped, DroppedOutcome, TypeOK
  <2>5. phase'[r] = "cancelled" => caller'[r] = "withdrawn"
    <3>1. CASE Abandon(r)
      BY Zenon, <3>1 DEF Abandon, TypeOK
    <3>2. CASE ~ Abandon(r)
      <4>1. phase' = phase /\ caller[r] \in {"idle", "waiting"}
        BY Zenon, <3>2 DEF Submit, Answered, Dropped
      <4> QED
        BY Zenon, <4>1 DEF WaitFits
    <3> QED
      BY Zenon, <3>1, <3>2
  <2>6. \A s \in Requests : Waits(s)' <=> Waits(s)
    BY Zenon, <2>1 DEF Waits
  <2>7. WaitFits'
    BY Zenon, <1>1, <2>3, <2>4, <2>5, <2>6 DEF WaitFits
  <2> QED
    BY Zenon, <2>2, <2>7
<1> QED
  BY Zenon, <1>2, <1>3

(***************************************************************************)
(* The thread: what it drops without starting was cancelled, and nothing   *)
(* is queued behind the close request that ends its loop.                  *)
(***************************************************************************)
LEMMA TakeClose ==
  ASSUME CloseInv, Take
  PROVE  CloseFits' /\ WaitFits'
<1> USE DEF CloseInv, WorkerInv
<1>0. PICK r \in Requests : r = Head(queue)
  BY Zenon, QueueTail DEF Take
<1>1. /\ queue' = Tail(queue) /\ queue # <<>> /\ worker = "waiting"
      /\ UNCHANGED <<sender, caller, performed, closer>>
  BY Zenon DEF Take
<1>2. /\ \A i \in 1 .. Len(queue') : i + 1 \in 1 .. Len(queue) /\ queue'[i] = queue[i + 1]
      /\ r = queue[1] /\ 1 \in 1 .. Len(queue)
  BY Zenon, <1>0, <1>1, QueueTail
<1>3. Len(queue) \in Nat /\ Len(queue') = Len(queue) - 1
      /\ \A i \in 1 .. Len(queue) : i # 1 => i - 1 \in 1 .. Len(queue') /\ queue'[i - 1] = queue[i]
  BY <1>1 DEF TypeOK
<1>4. \A s \in Requests : Waits(s) => Waits(s)' \/ s = r
  BY Zenon, <1>2, <1>3 DEF Waits
<1>5. Waits(r) /\ running = {} /\ closer # "ok" /\ Alive
  BY Zenon, <1>1, <1>2 DEF Waits, CloseFits, Alive
<1>6. phase[r] \in {"queued", "cancelled"}
  BY Zenon, <1>5 DEF QueueFits
<1>7. ASSUME NEW i \in 1 .. Len(queue'), queue'[i] = CloseSignal PROVE i = Len(queue') /\ ~ sender'
  <2>1. PICK j \in 1 .. Len(queue) : j = i + 1 /\ queue[j] = CloseSignal
    BY Zenon, <1>2, <1>7
  <2>2. j = Len(queue) /\ ~ sender
    BY Zenon, <2>1 DEF CloseFits
  <2>3. ~ sender'
    BY Zenon, <1>1, <2>2
  <2>4. i \in Nat /\ Len(queue') \in Int /\ Len(queue') = Len(queue) - 1 /\ Len(queue) = i + 1
    BY <1>3, <2>1, <2>2
  <2>5. i = Len(queue')
    BY <2>4
  <2> QED
    BY Zenon, <2>3, <2>5
<1>8. CASE Starts(r)
  <2>1. /\ phase' = IF r \in Loads THEN phase ELSE [phase EXCEPT ![r] = "started"]
        /\ worker' = "executing" /\ running' = {r} /\ reply' = reply
    BY Zenon, <1>0, <1>8 DEF Take
  <2>2. CloseFits'
    BY Zenon, <1>1, <1>5, <1>7, <2>1 DEF CloseFits, Alive
  <2>3. WaitFits'
    BY Zenon, <1>1, <1>4, <1>5, <1>6, <2>1 DEF WaitFits, TypeOK
  <2> QED
    BY Zenon, <2>2, <2>3
<1>9. CASE ~ Starts(r)
  <2>1. reply' = DropAnswers({r}) /\ UNCHANGED <<phase, worker, running>>
    BY Zenon, <1>0, <1>9 DEF Take
  <2>2. \A s \in Requests : /\ s # r => reply'[s] = reply[s]
                            /\ s = r => reply'[s] # "none"
    BY Zenon, <2>1 DEF DropAnswers
  <2>3. CloseFits'
    BY Zenon, <1>1, <1>5, <1>7, <2>1 DEF CloseFits, Alive
  <2>4. caller[r] # "waiting"
    BY Zenon, <1>6, <1>9 DEF Starts, WaitFits
  <2>5. WaitFits'
    BY Zenon, <1>1, <1>4, <2>1, <2>2, <2>4 DEF WaitFits
  <2> QED
    BY Zenon, <2>3, <2>5
<1> QED
  BY Zenon, <1>8, <1>9

LEMMA RunClose ==
  ASSUME CloseInv, NEW r \in Requests, Perform(r) \/ Finish(r)
  PROVE  CloseFits' /\ WaitFits'
<1> USE DEF CloseInv, WorkerInv
<1>1. r \in running /\ worker = "executing" /\ closer # "ok" /\ UNCHANGED <<sender, queue, caller, closer>>
  BY Zenon DEF Perform, Finish, CloseFits
<1>2. \A s \in Requests : Waits(s)' <=> Waits(s)
  BY Zenon, <1>1 DEF Waits
<1>3. CASE Perform(r)
  BY <1>1, <1>2, <1>3 DEF Perform, CloseFits, WaitFits, Alive
<1>4. CASE Finish(r)
  <2>1. /\ phase' = IF r \in Loads THEN phase ELSE [phase EXCEPT ![r] = "completed"]
        /\ reply' = [reply EXCEPT ![r] = "sent"] /\ worker' = "waiting" /\ running' = {}
    BY Zenon, <1>4 DEF Finish
  <2>2. CloseFits'
    BY Zenon, <1>1, <2>1 DEF CloseFits, Alive
  <2>3. \A s \in running : s = r
    BY Zenon, <1>1 DEF CloseFits
  <2>4. WaitFits'
    BY Zenon, <1>1, <1>2, <2>1, <2>3 DEF WaitFits, TypeOK
  <2> QED
    BY Zenon, <2>2, <2>4
<1> QED
  BY Zenon, <1>3, <1>4

LEMMA EndClose ==
  ASSUME CloseInv, Die \/ Exit
  PROVE  CloseFits' /\ WaitFits'
<1> USE DEF CloseInv, WorkerInv
<1>1. /\ queue' = <<>> /\ UNCHANGED <<sender, phase, caller, performed, closer>>
      /\ Alive /\ ~ Alive'
  BY Zenon DEF Die, Exit, Alive
<1>2. \A r \in Requests : Waits(r) => r \in Queued
  BY Zenon, WorkerAssumption DEF Waits, Queued
<1>3. closer # "ok"
  BY Zenon, <1>1 DEF CloseFits, Alive
<1>4. CASE Die
  <2>1. worker' = "dead" /\ running' = {} /\ reply' = DropAnswers(Queued \cup running)
    BY Zenon, <1>4 DEF Die
  <2>2. CloseFits'
    BY <1>1, <1>3, <2>1 DEF CloseFits
  <2>3. WaitFits'
    BY Zenon, <1>1, <1>2, <2>1 DEF WaitFits, DropAnswers
  <2> QED
    BY Zenon, <2>2, <2>3
<1>5. CASE Exit
  <2>1. worker' = "exited" /\ worker = "waiting" /\ running' = running /\ reply' = DropAnswers(Queued) /\ LoopEnds
    BY Zenon, <1>5 DEF Exit
  <2>2. /\ ~ sender
        /\ \A i \in 1 .. Len(queue) : queue[i] = CloseSignal
    <3>1. CASE queue # <<>> /\ Head(queue) = CloseSignal
      <4>1. Head(queue) = queue[1] /\ 1 \in 1 .. Len(queue) /\ Len(queue) \in Nat
        BY <3>1 DEF TypeOK
      <4>2. Len(queue) = 1 /\ ~ sender
        BY Zenon, <3>1, <4>1 DEF CloseFits
      <4> QED
        BY <3>1, <4>1, <4>2
    <3>2. CASE queue = <<>> /\ ~ sender
      BY <3>2
    <3> QED
      BY Zenon, <2>1, <3>1, <3>2 DEF LoopEnds
  <2>3. Queued = {}
    BY Zenon, <2>2 DEF Queued
  <2>4. \A r \in Requests : reply'[r] = reply[r]
    BY Zenon, <2>1, <2>3 DEF DropAnswers
  <2>5. CloseFits'
    BY <1>1, <1>3, <2>1, <2>2 DEF CloseFits
  <2>6. WaitFits'
    BY Zenon, <1>1, <1>2, <2>1, <2>3, <2>4 DEF WaitFits
  <2> QED
    BY Zenon, <2>5, <2>6
<1> QED
  BY Zenon, <1>4, <1>5

LEMMA CloserClose ==
  ASSUME CloseInv, Close \/ CloseReturns \/ CloseTimesOut
  PROVE  CloseFits' /\ WaitFits'
<1> USE DEF CloseInv, WorkerInv
<1>1. UNCHANGED <<phase, caller, reply, worker, running, performed>>
  BY Zenon DEF Close, CloseReturns, CloseTimesOut
<1>2. closer' = "ok" => worker = "exited"
  BY Zenon DEF Close, CloseReturns, CloseEnds, CloseTimesOut
<1>3. CASE queue' = queue /\ (sender' = sender \/ ~ sender')
  <2>1. \A s \in Requests : Waits(s)' <=> Waits(s)
    BY Zenon, <1>3 DEF Waits
  <2> QED
    BY <1>1, <1>2, <1>3, <2>1 DEF CloseFits, WaitFits, Alive
<1>4. CASE queue' = Append(queue, CloseSignal) /\ ~ sender' /\ sender /\ Alive /\ ~ Full
  <2>1. \A i \in 1 .. Len(queue') : \/ i \in 1 .. Len(queue) /\ queue'[i] = queue[i]
                                    \/ i = Len(queue) + 1 /\ queue'[i] = CloseSignal
    BY Zenon, <1>4, QueueAppend
  <2>2. Len(queue') = Len(queue) + 1 /\ \A i \in 1 .. Len(queue) : i \in 1 .. Len(queue') /\ queue'[i] = queue[i]
    BY <1>4 DEF TypeOK
  <2>3. CloseFits'
    BY Zenon, <1>1, <1>2, <1>4, <2>1, <2>2 DEF CloseFits, Alive
  <2>4. \A s \in Requests : Waits(s) => Waits(s)'
    BY Zenon, <2>2 DEF Waits
  <2>5. WaitFits'
    BY Zenon, <1>1, <2>4 DEF WaitFits
  <2> QED
    BY Zenon, <2>3, <2>5
<1> QED
  BY Zenon, <1>3, <1>4 DEF Close, SignalClose, CloseReturns, CloseTimesOut, TypeOK

LEMMA CloseInvariant == Spec => []CloseInv
<1>1. ASSUME CloseInv, [Next]_vars PROVE CloseInv'
  <2>1. WorkerInv'
    BY Zenon, <1>1, WorkerStep DEF CloseInv
  <2>2. CASE UNCHANGED vars
    BY Zenon, <1>1, <2>1, <2>2 DEF vars, CloseInv, CloseFits, WaitFits, Waits, Alive
  <2>3. CASE Next
    BY Zenon, <1>1, <2>1, <2>3, CallerClose, TakeClose, RunClose, EndClose, CloserClose DEF Next, Worker, CloseInv
  <2> QED
    BY Zenon, <1>1, <2>2, <2>3
<1> QED
  BY <1>1, CloseInit, PTL DEF Spec

(***************************************************************************)
(* The queue keeps its bound, and a close that reported success left no    *)
(* thread, no queued or executing request, and no caller whose answer was  *)
(* dropped: whatever waits behind the close was refused, not lost.         *)
(***************************************************************************)
THEOREM ClosedIsEmpty == Spec => []WorkerSound
<1>1. CloseInv => WorkerSound
  BY DEF CloseInv, WorkerInv, CloseFits, WaitFits, ReplyFits, WorkerSound, CloseLeavesNothing, Waits, Alive, TypeOK
<1> QED
  BY <1>1, CloseInvariant, PTL
-----------------------------------------------------------------------------
(***************************************************************************)
(* Availability evidence.                                                  *)
(***************************************************************************)
\* What a store keeps about the versions it retains.
EvidenceInv ==
  /\ evidence = [e \in DOMAIN evidence |-> evidence[e]]
  /\ IsFiniteSet(DOMAIN evidence) /\ DOMAIN retained = DOMAIN evidence
  /\ \A e \in DOMAIN evidence :
       /\ retained[e] \in EvidenceViews /\ retained[e].event = e
       /\ Admitted(retained[e]) /\ ChargeBounded(retained[e])
       /\ evidence[e] = [view |-> retained[e], charge |-> VersionCharge(retained[e])]
  /\ usage = [count |-> Cardinality(DOMAIN evidence), bytes |-> Charges(evidence)]
  /\ usage.count \in 0 .. VersionCapacity /\ usage.bytes \in 0 .. OrdinaryBytes
  /\ IsFiniteSet(BytesOf([e \in DOMAIN evidence |-> evidence[e].charge]))

\* The bytes of one more row are counted once more.
LEMMA BytesOfOneMore ==
  ASSUME NEW f, NEW e, e \notin DOMAIN f, NEW n \in Nat, IsFiniteSet(BytesOf(f)),
         NEW g, DOMAIN g = DOMAIN f \cup {e}, g[e] = n, \A x \in DOMAIN f : g[x] = f[x]
  PROVE  IsFiniteSet(BytesOf(g)) /\ Cardinality(BytesOf(g)) = Cardinality(BytesOf(f)) + n
<1> DEFINE T == {e} \X (1 .. n)
<1>1. BytesOf(g) = BytesOf(f) \cup T
  BY DEF BytesOf
<1>2. BytesOf(f) \cap T = {}
  BY DEF BytesOf
<1>3. IsFiniteSet(T) /\ Cardinality(T) = n
  <2>1. IsFiniteSet({e}) /\ Cardinality({e}) = 1
    BY Zenon, FS_Singleton
  <2>2. IsFiniteSet(1 .. n) /\ Cardinality(1 .. n) = n
    BY FS_Interval
  <2>3. IsFiniteSet(T) /\ Cardinality(T) = Cardinality({e}) * Cardinality(1 .. n)
    BY Zenon, <2>1, <2>2, FS_Product
  <2> QED
    BY <2>1, <2>2, <2>3
<1>4. Cardinality({}) = 0
  BY Zenon, FS_EmptySet
<1>5. /\ IsFiniteSet(BytesOf(f) \cup T)
      /\ Cardinality(BytesOf(f) \cup T)
           = Cardinality(BytesOf(f)) + Cardinality(T) - Cardinality(BytesOf(f) \cap T)
  BY Zenon, <1>3, FS_Union
<1>6. Cardinality(BytesOf(f)) \in Nat
  BY Zenon, FS_CardinalityType
<1> HIDE DEF T
<1>7. Cardinality(BytesOf(f) \cap T) = 0
  BY Zenon, <1>2, <1>4
<1>8. Cardinality(BytesOf(g)) = Cardinality(BytesOf(f)) + n - 0
  BY Zenon, <1>1, <1>3, <1>5, <1>7
<1> QED
  BY <1>1, <1>5, <1>6, <1>8

LEMMA ChargeType ==
  ASSUME NEW v \in EvidenceViews
  PROVE  VersionCharge(v) \in Nat /\ v.admission = Admission[v.event] /\ v.event \in EvidenceEvents
<1>1. PICK e \in EvidenceEvents, w \in WireSizes, s \in SourceSizes : v = View(e, w, s)
  BY DEF EvidenceViews
<1>2. w \in Nat /\ s \in Nat /\ IdentifierSize \in Nat /\ FixedBytes \in Nat
  BY Zenon, EvidenceAssumption
<1>3. Admission[e] \in [label : Nat, reason : Nat]
  BY Zenon, EvidenceAssumption
<1>4. v.wire = w /\ v.source = s /\ v.admission = Admission[e] /\ v.event = e
  BY Zenon, <1>1 DEF View
<1> QED
  BY <1>2, <1>3, <1>4 DEF VersionCharge

LEMMA EvidenceReads ==
  ASSUME EvidenceInv
  PROVE  EvidenceStands
<1>1. UsageValid
  <2>1. [e \in DOMAIN evidence |-> evidence[e].charge]
          = [e \in DOMAIN evidence |-> VersionCharge(evidence[e].view)]
    BY DEF EvidenceInv
  <2>2. Charges(evidence) = Recomputed(evidence)
    BY Zenon, <2>1 DEF Charges, Recomputed
  <2> QED
    BY <2>2, EvidenceAssumption DEF EvidenceInv, UsageValid
<1>2. ASSUME NEW e \in DOMAIN retained
      PROVE  e \in DOMAIN evidence /\ LoadVersion(e) = retained[e]
  <2>1. DecodesAs(e) /\ evidence[e].view = retained[e]
    BY ChargeType DEF EvidenceInv, DecodesAs
  <2> QED
    BY Zenon, <1>1, <2>1 DEF EvidenceInv, LoadVersion
<1> QED
  BY Zenon, <1>1, <1>2 DEF EvidenceStands

LEMMA EvidenceStarts == EvidenceInit => EvidenceInv
<1> SUFFICES ASSUME EvidenceInit PROVE EvidenceInv
  BY Zenon
<1>1. DOMAIN evidence = {} /\ DOMAIN retained = {} /\ evidence = [e \in {} |-> evidence[e]]
  BY DEF EvidenceInit
<1>2. BytesOf([e \in DOMAIN evidence |-> evidence[e].charge]) = {}
  BY Zenon, <1>1 DEF BytesOf
<1>3. IsFiniteSet({}) /\ Cardinality({}) = 0
  BY Zenon, FS_EmptySet
<1>4. Charges(evidence) = 0 /\ IsFiniteSet(BytesOf([e \in DOMAIN evidence |-> evidence[e].charge]))
  BY Zenon, <1>2, <1>3 DEF Charges
<1>5. usage = [count |-> Cardinality(DOMAIN evidence), bytes |-> Charges(evidence)]
  BY Zenon, <1>1, <1>3, <1>4 DEF EvidenceInit
<1>6. usage.count \in 0 .. VersionCapacity /\ usage.bytes \in 0 .. OrdinaryBytes
  BY EvidenceAssumption DEF EvidenceInit
<1> QED
  BY Zenon, <1>1, <1>3, <1>4, <1>5, <1>6 DEF EvidenceInv

LEMMA RetainKeeps ==
  ASSUME EvidenceInv, NEW v \in EvidenceViews, v.event \notin DOMAIN evidence,
         Admitted(v), ChargeBounded(v), HasRoom(VersionCharge(v)), Insert(v, VersionCharge(v))
  PROVE  EvidenceInv'
<1> DEFINE e == v.event
           c == VersionCharge(v)
           f == [x \in DOMAIN evidence |-> evidence[x].charge]
           g == [x \in DOMAIN evidence' |-> evidence'[x].charge]
<1>1. c \in Nat
  BY Zenon, ChargeType
<1>2. DOMAIN evidence' = DOMAIN evidence \cup {e} /\ DOMAIN retained' = DOMAIN evidence'
  BY Zenon DEF EvidenceInv, Insert, WithRow
<1>3. /\ evidence'[e] = [view |-> v, charge |-> c] /\ retained'[e] = v
      /\ \A x \in DOMAIN evidence : evidence'[x] = evidence[x] /\ retained'[x] = retained[x]
      /\ evidence' = [x \in DOMAIN evidence' |-> evidence'[x]]
  BY Zenon DEF EvidenceInv, Insert, WithRow
<1>4. /\ IsFiniteSet(DOMAIN evidence')
      /\ Cardinality(DOMAIN evidence') = Cardinality(DOMAIN evidence) + 1
  <2>1. IsFiniteSet(DOMAIN evidence)
    BY Zenon DEF EvidenceInv
  <2> QED
    BY <1>2, <2>1, FS_AddElement
<1>5. IsFiniteSet(BytesOf(g)) /\ Cardinality(BytesOf(g)) = Cardinality(BytesOf(f)) + c
  <2>1. DOMAIN f = DOMAIN evidence /\ DOMAIN g = DOMAIN f \cup {e} /\ g[e] = c
    BY <1>2, <1>3
  <2>2. \A x \in DOMAIN f : g[x] = f[x]
    BY Zenon, <1>2, <1>3
  <2>3. IsFiniteSet(BytesOf(f)) /\ e \notin DOMAIN f
    BY Zenon DEF EvidenceInv
  <2> HIDE DEF f, g, c, e
  <2> QED
    BY <1>1, <2>1, <2>2, <2>3, BytesOfOneMore
<1>6. usage' = [count |-> Cardinality(DOMAIN evidence'), bytes |-> Charges(evidence')]
  BY Zenon, <1>4, <1>5 DEF EvidenceInv, Insert, Charges
<1>7. usage'.count \in 0 .. VersionCapacity /\ usage'.bytes \in 0 .. OrdinaryBytes
  BY <1>1, EvidenceAssumption DEF EvidenceInv, Insert, HasRoom
<1>8. \A x \in DOMAIN evidence' :
        /\ retained'[x] \in EvidenceViews /\ retained'[x].event = x
        /\ Admitted(retained'[x]) /\ ChargeBounded(retained'[x])
        /\ evidence'[x] = [view |-> retained'[x], charge |-> VersionCharge(retained'[x])]
  BY Zenon, <1>2, <1>3 DEF EvidenceInv
<1> QED
  BY Zenon, <1>2, <1>3, <1>4, <1>5, <1>6, <1>7, <1>8 DEF EvidenceInv

(***************************************************************************)
(* For every number of events, every limit and every order of arrival, the *)
(* account agrees with the rows and retained evidence is loaded as it      *)
(* first came (retain_availability_version_on, load_availability_version). *)
(***************************************************************************)
THEOREM RetainedEvidenceStands == EvidenceSpec => []EvidenceStands
<1>1. ASSUME EvidenceInv, [EvidenceNext]_evidenceVars PROVE EvidenceInv'
  <2>1. CASE UNCHANGED evidenceVars
    BY Zenon, <1>1, <2>1 DEF evidenceVars, EvidenceInv, Charges
  <2>2. CASE EvidenceNext
    BY Zenon, <1>1, <2>1, <2>2, RetainKeeps DEF EvidenceNext, Retain
  <2> QED
    BY Zenon, <1>1, <2>1, <2>2
<1> QED
  BY <1>1, EvidenceStarts, EvidenceReads, PTL DEF EvidenceSpec
-----------------------------------------------------------------------------
(***************************************************************************)
(* The capacity of the stock journal.                                      *)
(***************************************************************************)
LEMMA JournalStarts == JournalInit => JournalInv
BY JournalAssumption DEF JournalInit, JournalInv, JournalTypeOK, CountersSound, Reserved

\* Fits is the budget of the state after the operation plus its headroom.
LEMMA OrdinaryStep ==
  ASSUME JournalInv, NEW n \in 1 .. 2, Ordinary(n) \/ Decide \/ Attribute
  PROVE  JournalInv'
BY JournalAssumption DEF JournalInv, JournalTypeOK, CountersSound, Reserved, Ordinary, Decide, Attribute,
   OrdinaryFits, MetadataFits, HistoryOpen, Fits, AppendEvents, UnchangedOwed

LEMMA HoldStep ==
  ASSUME JournalInv, PlaceHold \/ ReleaseHold
  PROVE  JournalInv'
BY JournalAssumption DEF JournalInv, JournalTypeOK, CountersSound, Reserved, PlaceHold, ReleaseHold,
   HoldFits, ReleaseFits, HistoryOpen, Fits, AppendEvents, UnchangedOwed

LEMMA PaperStep ==
  ASSUME JournalInv, Issue \/ MarkUnused \/ \E n \in Closures : Depart(n)
  PROVE  JournalInv'
<1>1. CASE Issue \/ MarkUnused
  BY <1>1, JournalAssumption DEF JournalInv, JournalTypeOK, CountersSound, Reserved, Issue, MarkUnused,
     IssueFits, UnusedFits, HistoryOpen, Fits, AppendEvents, UnchangedOwed
<1>2. ASSUME NEW n \in Closures, Depart(n) PROVE JournalInv'
  <2>1. n \in Nat
    BY JournalAssumption DEF Closures
  <2> QED
    BY <1>2, <2>1, JournalAssumption DEF JournalInv, JournalTypeOK, CountersSound, Reserved, Depart,
       DepartFits, HistoryOpen, Fits, AppendEvents, UnchangedOwed
<1> QED
  BY Zenon, <1>1, <1>2

LEMMA ReportStep ==
  ASSUME JournalInv, reports >= actual, Report \/ \E p \in 0 .. 1 : Review(p)
  PROVE  JournalInv' /\ reports' >= actual'
<1>1. CASE Report
  BY <1>1, JournalAssumption DEF JournalInv, JournalTypeOK, CountersSound, Reserved, Report,
     ReportFits, Fits, AppendEvents, UnchangedOwed
<1>2. ASSUME NEW p \in 0 .. 1, Review(p) PROVE JournalInv' /\ reports' >= actual'
  BY <1>2, JournalAssumption DEF JournalInv, JournalTypeOK, CountersSound, Reserved, Review,
     ReviewFits, Fits, AppendEvents, UnchangedOwed
<1> QED
  BY Zenon, <1>1, <1>2

LEMMA ObserveStep ==
  ASSUME JournalInv, NEW e \in Closures \cup {0}, NEW p \in Closures \cup {0},
         Observe(e) \/ Supersede(e, p)
  PROVE  JournalInv'
<1>1. e \in Nat /\ p \in Nat
  BY JournalAssumption DEF Closures
<1>2. CASE Observe(e)
  <2>1. CASE e > 0
    BY <1>1, <1>2, <2>1, JournalAssumption DEF JournalInv, JournalTypeOK, CountersSound, Reserved, Observe,
       ObserveFits, Fits, AppendEvents
  <2>2. CASE e = 0
    BY <1>1, <1>2, <2>2, JournalAssumption DEF JournalInv, JournalTypeOK, CountersSound, Reserved, Observe,
       ObserveFits, Fits, AppendEvents
  <2> QED
    BY <1>1, <2>1, <2>2
<1>3. CASE Supersede(e, p)
  BY <1>1, <1>3, JournalAssumption DEF JournalInv, JournalTypeOK, CountersSound, Reserved, Supersede,
     SupersedeFits, Fits, AppendEvents
<1> QED
  BY Zenon, <1>2, <1>3

LEMMA JournalCloseStep ==
  ASSUME JournalInv, (\E e \in Closures : CloseFound(e)) \/ \E r \in 0 .. 1 : Classify(r)
  PROVE  JournalInv' /\ actual' <= actual
<1>1. ASSUME NEW e \in Closures, CloseFound(e) PROVE JournalInv' /\ actual' <= actual
  <2>1. e \in Nat
    BY JournalAssumption DEF Closures
  <2> QED
    BY <1>1, <2>1, JournalAssumption DEF JournalInv, JournalTypeOK, CountersSound, Reserved, CloseFound,
       FoundFits, Fits, AppendEvents
<1>2. ASSUME NEW r \in 0 .. 1, Classify(r) PROVE JournalInv' /\ actual' <= actual
  BY <1>2, JournalAssumption DEF JournalInv, JournalTypeOK, CountersSound, Reserved, Classify,
     ClassifyFits, Fits, AppendEvents
<1> QED
  BY Zenon, <1>1, <1>2

\* Reports without a review are reports.
ReportsCount == reports >= actual

\* No sequence of hub operations leaves the counters outside the budget that
\* counters_on requires, so no hub is bricked by a full journal.
THEOREM JournalBudget == JournalSpec => [](JournalInv /\ ReportsCount)
<1>1. JournalInit => JournalInv /\ ReportsCount
  BY JournalStarts DEF JournalInit, ReportsCount
<1>2. JournalInv /\ ReportsCount /\ [JournalNext]_journalVars => JournalInv' /\ ReportsCount'
  <2> SUFFICES ASSUME JournalInv, ReportsCount, [JournalNext]_journalVars
               PROVE  JournalInv' /\ ReportsCount'
    BY Zenon
  <2>1. ASSUME NEW n \in 1 .. 2, Ordinary(n) \/ Decide \/ Attribute
        PROVE  JournalInv' /\ ReportsCount'
    BY Zenon, <2>1, OrdinaryStep DEF Ordinary, Decide, Attribute, ReportsCount
  <2>2. CASE PlaceHold \/ ReleaseHold
    BY Zenon, <2>2, HoldStep DEF PlaceHold, ReleaseHold, ReportsCount
  <2>3. CASE Issue \/ MarkUnused \/ \E n \in Closures : Depart(n)
    BY Zenon, <2>3, PaperStep DEF Issue, MarkUnused, Depart, ReportsCount
  <2>4. CASE Report \/ \E p \in 0 .. 1 : Review(p)
    BY Zenon, <2>4, ReportStep DEF ReportsCount
  <2>5. ASSUME NEW e \in Closures \cup {0}, NEW p \in Closures \cup {0}, Observe(e) \/ Supersede(e, p)
        PROVE  JournalInv' /\ ReportsCount'
    BY Zenon, <2>5, ObserveStep DEF Observe, Supersede, ReportsCount
  <2>6. CASE (\E e \in Closures : CloseFound(e)) \/ \E r \in 0 .. 1 : Classify(r)
    <3>1. reports' = reports
      BY Zenon, <2>6 DEF CloseFound, Classify
    <3> QED
      BY <2>6, <3>1, JournalCloseStep DEF ReportsCount, JournalInv, JournalTypeOK
  <2>7. CASE UNCHANGED journalVars
    BY Zenon, <2>7 DEF journalVars, JournalInv, JournalTypeOK, CountersSound, Reserved, ReportsCount
  <2>8. 1 \in 1 .. 2 /\ 0 \in Closures \cup {0}
    OBVIOUS
  <2> QED
    BY Zenon, <2>1, <2>2, <2>3, <2>4, <2>5, <2>6, <2>7, <2>8 DEF JournalNext, OrdinaryWork, Closing
<1> QED
  BY <1>1, <1>2, PTL DEF JournalSpec

\* Every release, document closure, report review and observation closure fits
\* in every reachable journal, at every capacity.
THEOREM ClosuresFit == JournalSpec => []ClosureAlwaysFits
<1>1. JournalInv => ClosureAlwaysFits
  <2> SUFFICES ASSUME JournalInv PROVE ClosureAlwaysFits
    BY Zenon
  <2> USE DEF JournalInv, JournalTypeOK, CountersSound, Reserved, Fits
  <2>1. (open > 0 => ReleaseFits) /\ (issued > 0 => UnusedFits)
    BY JournalAssumption DEF ReleaseFits, UnusedFits
  <2>2. actual > 0 => ReviewFits(0) /\ ReviewFits(1)
    BY JournalAssumption DEF ReviewFits
  <2>3. owedOps > 0 => ClassifyFits(0) /\ (actual > 0 => ClassifyFits(1))
    BY JournalAssumption DEF ClassifyFits
  <2>4. owedOps > 0 /\ owedReviews > 0 => \A e \in Closures : e <= owedEvents => FoundFits(e)
    <3> SUFFICES ASSUME owedOps > 0, owedReviews > 0, NEW e \in Closures, e <= owedEvents
                 PROVE  FoundFits(e)
      BY Zenon
    <3>1. e \in Nat
      BY JournalAssumption DEF Closures
    <3> QED
      BY <3>1, JournalAssumption DEF FoundFits
  <2> QED
    BY Zenon, <2>1, <2>2, <2>3, <2>4 DEF ClosureAlwaysFits
<1> QED
  BY <1>1, JournalBudget, PTL

\* Whenever stock may leave, a hold may still be placed instead.
THEOREM HoldsPrecedeDepartures == JournalSpec => []HoldBeforeDeparture
<1>1. JournalInv => HoldBeforeDeparture
  <2> SUFFICES ASSUME JournalInv,
                      (\E n \in Closures : DepartFits(n)) \/ OrdinaryFits(1)
               PROVE  HoldFits
    BY Zenon DEF HoldBeforeDeparture
  <2> USE DEF JournalInv, JournalTypeOK, Reserved, Fits
  <2>1. ASSUME NEW n \in Closures, DepartFits(n) PROVE HoldFits
    <3>1. n \in Nat /\ n >= 1
      BY JournalAssumption DEF Closures
    <3> QED
      BY <2>1, <3>1, JournalAssumption DEF DepartFits, HoldFits
  <2>2. CASE OrdinaryFits(1)
    BY <2>2, JournalAssumption DEF OrdinaryFits, HoldFits
  <2> QED
    BY Zenon, <2>1, <2>2
<1> QED
  BY <1>1, JournalBudget, PTL

\* Ordinary work leaves the room of a hold and its release, or has just filled
\* the treatment history and so blocked every departure.
THEOREM WorkKeepsHeadroom == JournalSpec => WorkLeavesRoomForAHold
<1>1. JournalInv /\ [JournalNext]_journalVars => [OrdinaryWork => HoldFits' \/ ~ HistoryOpen']_journalVars
  <2> SUFFICES ASSUME JournalInv, OrdinaryWork, HistoryOpen' PROVE HoldFits'
    BY Zenon
  <2> USE DEF JournalInv, JournalTypeOK, Reserved, Fits, AppendEvents, UnchangedOwed, HoldFits
  <2>1. ASSUME NEW n \in 1 .. 2, Ordinary(n) PROVE HoldFits'
    BY <2>1, JournalAssumption DEF Ordinary, OrdinaryFits, HistoryOpen
  <2>2. CASE Decide \/ Attribute
    BY <2>2, JournalAssumption DEF Decide, Attribute, OrdinaryFits, MetadataFits, HistoryOpen
  <2>3. CASE Issue \/ Report
    BY <2>3, JournalAssumption DEF Issue, Report, IssueFits, ReportFits, HistoryOpen
  <2>4. ASSUME NEW n \in Closures, Depart(n) PROVE HoldFits'
    <3>1. n \in Nat
      BY JournalAssumption DEF Closures
    <3> QED
      BY <2>4, <3>1, JournalAssumption DEF Depart, DepartFits, HistoryOpen
  <2>5. ASSUME NEW e \in Closures \cup {0}, Observe(e) PROVE HoldFits'
    <3>1. e \in Nat
      BY JournalAssumption DEF Closures
    <3>2. CASE e > 0
      BY <2>5, <3>1, <3>2, JournalAssumption DEF Observe, ObserveFits, HistoryOpen
    <3>3. CASE e = 0
      BY <2>5, <3>1, <3>3, JournalAssumption DEF Observe, ObserveFits, HistoryOpen
    <3> QED
      BY <3>1, <3>2, <3>3
  <2>6. ASSUME NEW e \in Closures \cup {0}, NEW p \in Closures \cup {0}, Supersede(e, p)
        PROVE  HoldFits'
    <3>1. e \in Nat /\ p \in Nat
      BY JournalAssumption DEF Closures
    <3> QED
      BY <2>6, <3>1, JournalAssumption DEF Supersede, SupersedeFits, HistoryOpen
  <2> QED
    BY Zenon, <2>1, <2>2, <2>3, <2>4, <2>5, <2>6 DEF OrdinaryWork
<1> QED
  BY <1>1, JournalBudget, PTL DEF JournalSpec, WorkLeavesRoomForAHold
=============================================================================
