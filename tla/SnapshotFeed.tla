---------------------------- MODULE SnapshotFeed -----------------------------
(***************************************************************************)
(* What the change stream promises its observers: one log of snapshots,    *)
(* each newer than the one before it, through which every observer only    *)
(* moves forward.  An observer may skip entries.  It never sees an entry   *)
(* twice, never goes back and never sees a snapshot that was not           *)
(* published.  When its stream ends it has seen the last entry published   *)
(* while it was attached.                                                  *)
(***************************************************************************)
EXTENDS SnapshotOrder, Sequences

CONSTANT Observers

VARIABLES log,      \* the snapshots published so far
          status,   \* idle, attached, detached, ended, or left by the observer itself
          seen,     \* index of the entry each observer saw last, 0 before the first
          horizon   \* last entry owed to a detached observer

Init ==
  /\ Len(log) = 1 /\ log[1] \in Snapshot
  /\ status = [s \in Observers |-> "idle"]
  /\ seen = [s \in Observers |-> 0]
  /\ horizon = [s \in Observers |-> 0]

Publish ==
  /\ Len(log') = Len(log) + 1
  /\ SubSeq(log', 1, Len(log)) = log
  /\ log'[Len(log')] \in Snapshot
  /\ IsNewerThan(log'[Len(log')], log[Len(log)])
  /\ UNCHANGED <<status, seen, horizon>>

Attach(s) ==
  /\ status[s] = "idle"
  /\ status' = [status EXCEPT ![s] = "attached"]
  /\ UNCHANGED <<log, seen, horizon>>

Detach(observers) ==
  /\ \A s \in observers : status[s] = "attached"
  /\ status' = [s \in Observers |-> IF s \in observers THEN "detached" ELSE status[s]]
  /\ horizon' = [s \in Observers |-> IF s \in observers THEN Len(log) ELSE horizon[s]]
  /\ UNCHANGED <<log, seen>>

Observe(s) ==
  /\ status[s] \in {"attached", "detached"}
  /\ \E i \in seen[s] + 1 .. Len(log) : seen' = [seen EXCEPT ![s] = i]
  /\ UNCHANGED <<log, status, horizon>>

End(s) ==
  /\ status[s] = "detached"
  /\ seen[s] = horizon[s]
  /\ status' = [status EXCEPT ![s] = "ended"]
  /\ UNCHANGED <<log, seen, horizon>>

Leave(s) ==
  /\ status[s] \notin {"idle", "left"}
  /\ status' = [status EXCEPT ![s] = "left"]
  /\ horizon' = [horizon EXCEPT ![s] = 0]
  /\ UNCHANGED <<log, seen>>

Next ==
  \/ Publish
  \/ \E observers \in SUBSET Observers : Detach(observers)
  \/ \E s \in Observers : Attach(s) \/ Observe(s) \/ End(s) \/ Leave(s)

Spec == Init /\ [][Next]_<<log, status, seen, horizon>>
=============================================================================
