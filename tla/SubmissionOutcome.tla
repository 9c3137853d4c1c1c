-------------------------- MODULE SubmissionOutcome --------------------------
(***************************************************************************)
(* What a hub submission promises.  An operation is submitted once.  Only  *)
(* while its one chance lasts may it take effect; the chance ends with the *)
(* answer, with the session and with the process, and never comes back.    *)
(* Recorded and rejected are final.                                        *)
(***************************************************************************)
CONSTANT Operations

VARIABLES outcome,   \* absent, pending, recorded or rejected
          live       \* pending operations that may still take effect

outcomeVars == <<outcome, live>>

Init ==
  /\ outcome \in [Operations -> {"absent", "recorded"}]
  /\ live = {}

Admit(op) ==
  /\ outcome[op] = "absent"
  /\ outcome' = [outcome EXCEPT ![op] = "pending"]
  /\ live' \in {live, live \cup {op}}

Record(op) ==
  /\ op \in live
  /\ outcome' = [outcome EXCEPT ![op] = "recorded"]
  /\ live' = live \ {op}

Reject(op) ==
  /\ outcome[op] = "pending" /\ op \notin live
  /\ outcome' = [outcome EXCEPT ![op] = "rejected"]
  /\ UNCHANGED live

EndChances ==
  /\ live' \in SUBSET live
  /\ UNCHANGED outcome

Next == EndChances \/ \E op \in Operations : Admit(op) \/ Record(op) \/ Reject(op)

Spec == Init /\ [][Next]_outcomeVars
=============================================================================
