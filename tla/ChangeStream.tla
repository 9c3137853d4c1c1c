---------------------------- MODULE ChangeStream -----------------------------
(***************************************************************************)
(* The ordered snapshot change stream.  The runtime actor settles a        *)
(* snapshot, replaces the value synchronous readers see, and publishes a   *)
(* change to every subscriber: it first retains the change in the          *)
(* subscriber's watch cell and then offers it to a bounded queue, where it *)
(* is dropped when the queue is full.  Each receiver runs on its own task  *)
(* and interleaves with every one of those steps.                          *)
(***************************************************************************)
EXTENDS SnapshotOrder, Sequences, FiniteSets

CONSTANTS Subscribers,    \* change subscription identifiers
          Runtime,        \* incarnation of the opened runtime
          Capacity,       \* bound of a subscriber's queue
          MaxRevision,    \* bound on settled core revisions
          MaxGeneration,  \* bound on session generations
          None            \* an absent value

ASSUME StreamAssumption ==
  /\ Runtime \in Incarnations
  /\ Capacity \in Nat \ {0}
  /\ MaxRevision \in Nat
  /\ MaxGeneration \in Nat
  /\ None \notin [snapshot: Snapshot, previous: Nat \cup {None}]

VARIABLES published,  \* the snapshot synchronous readers are given
          latest,     \* the snapshot the stream published last
          closed,     \* the stream accepts no more publications
          linked,     \* subscribers whose senders the stream still holds
          sending,    \* the publication under way
          retained,   \* the change held in each subscriber's watch cell
          queue,      \* the changes waiting in each subscriber's queue
          at,         \* where each receiver is in receive()
          delivered,  \* the change each receiver returned last
          log         \* history: every snapshot the stream ever published

streamVars == <<published, latest, closed, linked, sending, retained, queue, at, delivered, log>>

actorVars == <<published, latest, closed, linked, sending, retained, log>>

Settled(revision, generation) ==
  [revision |-> revision, session |-> [incarnation |-> Runtime, generation |-> generation]]

Change(snapshot, previous) == [snapshot |-> snapshot, previous |-> previous]

Idle == [stage |-> "idle"]

Gone(s) == at[s] \in {"none", "gone"}

Init ==
  /\ published = Settled(0, 0)
  /\ latest = Settled(0, 0)
  /\ closed = FALSE
  /\ linked = {}
  /\ sending = Idle
  /\ retained = [s \in Subscribers |-> None]
  /\ queue = [s \in Subscribers |-> <<>>]
  /\ at = [s \in Subscribers |-> "none"]
  /\ delivered = [s \in Subscribers |-> None]
  /\ log = <<Settled(0, 0)>>

(***************************************************************************)
(* RuntimeActor::publish_snapshot replaces the synchronously read snapshot *)
(* and only then hands it to the stream.                                   *)
(***************************************************************************)
\* Mutant of Settle.
SettleWithoutReaders(revision, generation) ==
  /\ ~closed
  /\ sending = Idle
  /\ revision >= latest.revision
  /\ generation >= latest.session.generation
  /\ sending' = [stage |-> "publish", snapshot |-> Settled(revision, generation)]
  /\ UNCHANGED <<published, latest, closed, linked, retained, queue, at, delivered, log>>

Settle(revision, generation) ==
  /\ ~closed
  /\ sending = Idle
  /\ revision >= published.revision
  /\ generation >= published.session.generation
  /\ published' = Settled(revision, generation)
  /\ sending' = [stage |-> "publish", snapshot |-> Settled(revision, generation)]
  /\ UNCHANGED <<latest, closed, linked, retained, queue, at, delivered, log>>

(***************************************************************************)
(* OrderedSnapshotChanges::publish up to its delivery loop: subscribers    *)
(* that dropped their receiver are forgotten, a snapshot that is not newer *)
(* is ignored, and otherwise it becomes the latest.                        *)
(***************************************************************************)
Publish ==
  /\ sending.stage = "publish"
  /\ linked' = {s \in linked : ~Gone(s)}
  /\ IF IsNewerThan(sending.snapshot, latest)
     THEN /\ latest' = sending.snapshot
          /\ log' = Append(log, sending.snapshot)
          /\ sending' = [stage |-> "retain", todo |-> linked',
                         change |-> Change(sending.snapshot, latest.revision)]
     ELSE /\ sending' = Idle
          /\ UNCHANGED <<latest, log>>
  /\ UNCHANGED <<published, closed, retained, queue, at, delivered>>

Retain(s) ==
  /\ sending.stage = "retain"
  /\ s \in sending.todo
  /\ retained' = [retained EXCEPT ![s] = sending.change]
  /\ sending' = [stage |-> "enqueue", todo |-> sending.todo \ {s}, to |-> s, change |-> sending.change]
  /\ UNCHANGED <<published, latest, closed, linked, queue, at, delivered, log>>

(***************************************************************************)
(* try_send: a full queue keeps the subscriber and drops the queued copy;  *)
(* a receiver dropped in the meantime removes the subscriber.              *)
(***************************************************************************)
TrySend(s) ==
  /\ queue' = IF Gone(s) \/ Len(queue[s]) >= Capacity THEN queue
              ELSE [queue EXCEPT ![s] = Append(@, sending.change)]
  /\ linked' = IF Gone(s) THEN linked \ {s} ELSE linked

Enqueue ==
  /\ sending.stage = "enqueue"
  /\ TrySend(sending.to)
  /\ sending' = [stage |-> "retain", todo |-> sending.todo, change |-> sending.change]
  /\ UNCHANGED <<published, latest, closed, retained, at, delivered, log>>

Published ==
  /\ sending.stage = "retain"
  /\ sending.todo = {}
  /\ sending' = Idle
  /\ UNCHANGED <<published, latest, closed, linked, retained, queue, at, delivered, log>>

(***************************************************************************)
(* subscribe, unsubscribe and close run on the actor between publications. *)
(***************************************************************************)
Subscribe(s) ==
  /\ ~closed
  /\ sending = Idle
  /\ at[s] = "none"
  /\ linked' = linked \cup {s}
  /\ retained' = [retained EXCEPT ![s] = Change(latest, None)]
  /\ queue' = [queue EXCEPT ![s] = <<Change(latest, None)>>]
  /\ at' = [at EXCEPT ![s] = "queue"]
  /\ UNCHANGED <<published, latest, closed, sending, delivered, log>>

Unsubscribe(s) ==
  /\ sending = Idle
  /\ s \in linked
  /\ linked' = linked \ {s}
  /\ UNCHANGED <<published, latest, closed, sending, retained, queue, at, delivered, log>>

Close ==
  /\ ~closed
  /\ sending = Idle
  /\ closed' = TRUE
  /\ linked' = {}
  /\ UNCHANGED <<published, latest, sending, retained, queue, at, delivered, log>>

Actor ==
  \/ \E r \in 0 .. MaxRevision, g \in 0 .. MaxGeneration : Settle(r, g)
  \/ Publish
  \/ \E s \in Subscribers : Retain(s)
  \/ Enqueue
  \/ Published
  \/ \E s \in Subscribers : Subscribe(s) \/ Unsubscribe(s)
  \/ Close

(***************************************************************************)
(* SnapshotChangeReceiver::receive.  A change is delivered only when it is *)
(* newer than the last one delivered.                                      *)
(***************************************************************************)
\* Mutant of DeliverNewer.
DeliverAny(s, change) ==
  delivered' = [delivered EXCEPT ![s] = change]

DeliverNewer(s, change) ==
  delivered' = IF delivered[s] = None \/ IsNewerThan(change.snapshot, delivered[s].snapshot)
               THEN [delivered EXCEPT ![s] = change] ELSE delivered

TryReceive(s) ==
  /\ at[s] = "queue"
  /\ queue[s] # <<>>
  /\ DeliverNewer(s, Head(queue[s]))
  /\ queue' = [queue EXCEPT ![s] = Tail(@)]
  /\ UNCHANGED <<actorVars, at>>

QueueDrained(s) ==
  /\ at[s] = "queue"
  /\ queue[s] = <<>>
  /\ at' = [at EXCEPT ![s] = IF s \in linked THEN "latest" ELSE "tail"]
  /\ UNCHANGED <<actorVars, queue, delivered>>

(***************************************************************************)
(* The retained change covers what a full queue dropped and, when every    *)
(* sender is gone, the tail: nothing newer then means the stream ended.    *)
(***************************************************************************)
\* Mutant of ReadRetained.
ReadRetainedNoTail(s) ==
  /\ at[s] \in {"latest", "tail"}
  /\ IF at[s] = "tail" THEN UNCHANGED delivered ELSE DeliverNewer(s, retained[s])
  /\ at' = [at EXCEPT ![s] = IF delivered' # delivered THEN "queue"
                             ELSE IF at[s] = "latest" THEN "wait" ELSE "done"]
  /\ UNCHANGED <<actorVars, queue>>

\* Mutant of ReadRetained.
ReadRetainedNever(s) ==
  /\ at[s] \in {"latest", "tail"}
  /\ at' = [at EXCEPT ![s] = IF @ = "latest" THEN "wait" ELSE "done"]
  /\ UNCHANGED <<actorVars, queue, delivered>>

ReadRetained(s) ==
  /\ at[s] \in {"latest", "tail"}
  /\ DeliverNewer(s, retained[s])
  /\ at' = [at EXCEPT ![s] = IF delivered' # delivered THEN "queue"
                             ELSE IF at[s] = "latest" THEN "wait" ELSE "done"]
  /\ UNCHANGED <<actorVars, queue>>

Await(s) ==
  /\ at[s] = "wait"
  /\ \/ /\ queue[s] # <<>>
        /\ DeliverNewer(s, Head(queue[s]))
        /\ queue' = [queue EXCEPT ![s] = Tail(@)]
     \/ /\ queue[s] = <<>>
        /\ s \notin linked
        /\ UNCHANGED <<queue, delivered>>
  /\ at' = [at EXCEPT ![s] = "queue"]
  /\ UNCHANGED actorVars

Receive(s) == TryReceive(s) \/ QueueDrained(s) \/ ReadRetained(s) \/ Await(s)

(***************************************************************************)
(* The consumer drops its receiver (an aborted or finished forwarder).     *)
(***************************************************************************)
Drop(s) ==
  /\ ~Gone(s)
  /\ at' = [at EXCEPT ![s] = "gone"]
  /\ UNCHANGED <<actorVars, queue, delivered>>

Next == Actor \/ \E s \in Subscribers : Receive(s) \/ Drop(s)

Spec == Init /\ [][Next]_streamVars

(***************************************************************************)
(* Fairness: the actor finishes a publication it started, it is            *)
(* straight-line code without an await, and the executor keeps polling     *)
(* every receiver that can make progress.                                  *)
(***************************************************************************)
Fairness ==
  /\ WF_streamVars(Publish \/ Enqueue \/ Published \/ \E s \in Subscribers : Retain(s))
  /\ \A s \in Subscribers : WF_streamVars(Receive(s))

FairSpec == Spec /\ Fairness
-----------------------------------------------------------------------------
Changes == [snapshot: Snapshot, previous: Nat \cup {None}]

Publications ==
  {Idle} \cup [stage: {"publish"}, snapshot: Snapshot]
         \cup [stage: {"retain"}, todo: SUBSET Subscribers, change: Changes]
         \cup [stage: {"enqueue"}, todo: SUBSET Subscribers, to: Subscribers, change: Changes]

(***************************************************************************)
(* Every part of the stream has its type and no queue exceeds its bound.   *)
(***************************************************************************)
TypeOK ==
  /\ published \in Snapshot
  /\ latest \in Snapshot
  /\ closed \in BOOLEAN
  /\ linked \subseteq Subscribers
  /\ sending \in Publications
  /\ retained \in [Subscribers -> Changes \cup {None}]
  /\ queue \in [Subscribers -> Seq(Changes)]
  /\ \A s \in Subscribers : Len(queue[s]) <= Capacity
  /\ at \in [Subscribers -> {"none", "queue", "latest", "tail", "wait", "done", "gone"}]
  /\ delivered \in [Subscribers -> Changes \cup {None}]
  /\ log \in Seq(Snapshot)

(***************************************************************************)
(* receive() answers that the stream ended only to a receiver that has     *)
(* been given the newest change retained for it, whatever the queue        *)
(* dropped and however the last publication raced the close.               *)
(***************************************************************************)
EndedStreamIsComplete ==
  \A s \in Subscribers : at[s] = "done" => /\ s \notin linked
                                           /\ delivered[s].snapshot = retained[s].snapshot

(***************************************************************************)
(* A receiver that parks on its empty queue has missed nothing: either it  *)
(* has the latest snapshot or a publication that will wake it is under     *)
(* way.                                                                    *)
(***************************************************************************)
ParkedReceiverIsCurrent ==
  \A s \in Subscribers :
    (at[s] = "wait" /\ s \in linked /\ queue[s] = <<>> /\ sending = Idle)
      => delivered[s].snapshot = latest

(***************************************************************************)
(* Synchronous readers never lag the stream: the snapshot they are given   *)
(* is at least as new as anything a receiver may already hold.             *)
(***************************************************************************)
ReadersNeverLag ==
  \A s \in Subscribers : delivered[s] # None => ~IsNewerThan(delivered[s].snapshot, published)

(***************************************************************************)
(* Whatever the order of publications, full queues and the close, the      *)
(* stream keeps its bounds, ends nobody before the tail, parks nobody      *)
(* behind the latest change and overtakes no reader.                       *)
(***************************************************************************)
ReceiversMissNothing == TypeOK /\ EndedStreamIsComplete /\ ParkedReceiverIsCurrent /\ ReadersNeverLag

(***************************************************************************)
(* No receiver stays behind its watch cell for good: again and again it    *)
(* has delivered the change retained for it or a newer one, unless the     *)
(* consumer drops the receiver.  Deliveries only move forward, so every    *)
(* retained change arrives or is overtaken.                                *)
(***************************************************************************)
CaughtUp(s) ==
  \/ at[s] = "gone" \/ retained[s] = None
  \/ delivered[s] # None /\ ~IsNewerThan(retained[s].snapshot, delivered[s].snapshot)

RetainedChangeArrives == \A s \in Subscribers : []<>CaughtUp(s)

(***************************************************************************)
(* The stream implements the abstract feed: every observer moves forward   *)
(* through the one log of published snapshots.                             *)
(***************************************************************************)
LogIndex(change) ==
  IF change = None THEN 0 ELSE CHOOSE i \in 1 .. Len(log) : log[i] = change.snapshot

FeedStatus(s) ==
  CASE at[s] = "none" -> "idle"
    [] at[s] = "gone" -> "left"
    [] at[s] = "done" -> "ended"
    [] OTHER -> IF s \in linked THEN "attached" ELSE "detached"

FeedStatuses == [s \in Subscribers |-> FeedStatus(s)]

FeedSeen == [s \in Subscribers |-> LogIndex(delivered[s])]

FeedHorizon ==
  [s \in Subscribers |-> IF FeedStatus(s) \in {"detached", "ended"} THEN LogIndex(retained[s]) ELSE 0]

Feed == INSTANCE SnapshotFeed WITH
  Observers <- Subscribers, log <- log, status <- FeedStatuses, seen <- FeedSeen, horizon <- FeedHorizon

ImplementsFeed == Feed!Spec
=============================================================================
