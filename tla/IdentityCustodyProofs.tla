----------------------- MODULE IdentityCustodyProofs -----------------------
(* Machine-checked proofs about IdentityCustody.                           *)
EXTENDS IdentityCustody, FiniteSetTheorems, WellFoundedInduction, TLAPS

\* None is neither a record of the journal nor a running command.
LEMMA TypeInit == ASSUME Init PROVE TypeOK
<1>1. keyring \in [Keys -> Requests \cup {Legacy, None}]
  BY DEF Init
<1>2. registry \in [Keys -> {"absent", "available", "credential_missing"}]
  BY Zenon, CustodyAssumption DEF Init
<1>3. selected \in Keys \cup {None}
  BY DEF Init, Registered
<1>4. faults \in 0..MaxFaults
  BY CustodyAssumption DEF Init
<1> QED BY <1>1, <1>2, <1>3, <1>4 DEF Init, TypeOK

LEMMA OperationFields ==
  ASSUME TypeOK, NEW r \in Requests, journal[r] # None
  PROVE  journal[r] \in Operation
BY DEF TypeOK

LEMMA TaskFields ==
  ASSUME TypeOK, task # None
  PROVE  task \in Task
BY DEF TypeOK

LEMMA BeginType ==
  ASSUME TypeOK, NEW r \in Requests, NEW k \in Keys, NEW kind \in Kinds,
         NEW sel \in Keys \cup {None},
         NEW avail \in {"absent", "available", "credential_missing"},
         BeginOperation(r, kind, k, sel, avail)
  PROVE  /\ journal' \in [Requests -> Operation \cup {None}]
         /\ spent' \subseteq Requests /\ contested' \subseteq Keys /\ overlapped' \subseteq Requests
<1>1. journal' \in [Requests -> Operation \cup {None}]
      /\ spent' \subseteq Requests /\ contested' \subseteq Keys
  BY DEF BeginOperation, TypeOK, Operation, Phases
<1>2. overlapped' \subseteq Requests
  BY DEF BeginOperation, TypeOK
<1> QED
  BY <1>1, <1>2

LEMMA CommandType == ASSUME TypeOK, Command PROVE TypeOK'
<1>1. ASSUME NEW r \in Requests, NEW k \in Keys, Create(r, k) PROVE TypeOK'
  <2>1. journal' \in [Requests -> Operation \cup {None}]
        /\ spent' \subseteq Requests /\ contested' \subseteq Keys /\ overlapped' \subseteq Requests
    BY <1>1, BeginType DEF Create, Kinds, TypeOK
  <2> QED BY <1>1, <2>1 DEF Create, TypeOK, Run, Task, stores, memory
<1>2. ASSUME NEW r \in Requests, NEW k \in Keys, Import(r, k) PROVE TypeOK'
  <2>1. journal' \in [Requests -> Operation \cup {None}]
        /\ spent' \subseteq Requests /\ contested' \subseteq Keys /\ overlapped' \subseteq Requests
    <3>1. /\ (IF registry[k] = "absent" THEN "import" ELSE "repair") \in Kinds
          /\ registry[k] \in {"absent", "available", "credential_missing"}
          /\ selected \in Keys \cup {None}
      BY DEF Kinds, TypeOK
    <3> QED BY <1>2, <3>1, BeginType DEF Import
  <2> QED BY <1>2, <2>1 DEF Import, TypeOK, Run, Task, stores, memory
<1>3. ASSUME NEW r \in Requests, NEW k \in Keys, Remove(r, k) PROVE TypeOK'
  <2>1. journal' \in [Requests -> Operation \cup {None}]
        /\ spent' \subseteq Requests /\ contested' \subseteq Keys /\ overlapped' \subseteq Requests
    <3>1. PICK sel \in Fallbacks(k) : BeginOperation(r, "remove", k, sel, registry[k])
      BY <1>3 DEF Remove
    <3>2. sel \in Keys \cup {None}
      BY <3>1 DEF Fallbacks, Registered, TypeOK
    <3>3. registry[k] \in {"absent", "available", "credential_missing"}
      BY DEF TypeOK
    <3> QED BY <3>1, <3>2, <3>3, BeginType DEF Kinds
  <2> QED BY <1>3, <2>1 DEF Remove, TypeOK, Run, Task, stores
<1>4. ASSUME NEW k \in Keys, Select(k) PROVE TypeOK'
  BY <1>4 DEF Select, TypeOK, Run, Task, stores, memory, history
<1>5. ASSUME NEW k \in Keys, Activate(k) PROVE TypeOK'
  BY <1>5 DEF Activate, TypeOK, Run, Task, stores, history
<1>6. CASE SignOut
  BY <1>6 DEF SignOut, TypeOK, stores, history
<1> QED BY <1>1, <1>2, <1>3, <1>4, <1>5, <1>6 DEF Command


TypeInv == TypeOK /\ PhasesFit /\ TaskFits

(***************************************************************************)
(* Recovery takes the oldest unfinished operation: request identifiers are *)
(* natural numbers, so there is one.                                       *)
(***************************************************************************)
LEMMA CurrentExists ==
  ASSUME Unfinished # {}
  PROVE  Current \in Unfinished /\ \A q \in Unfinished : Current <= q
<1>1. Unfinished \subseteq Nat /\ Unfinished \subseteq Requests
  BY Zenon, CustodyAssumption DEF Unfinished
<1> DEFINE less == OpToRel(<, Nat)
<1>2. IsWellFoundedOn(less, Nat)
  BY Zenon, NatLessThanWellFounded
<1>3. \A p, q \in Nat : p < q => <<p, q>> \in less
  BY DEF OpToRel
<1> HIDE DEF less
<1>4. PICK r \in Unfinished : \A q \in Unfinished : ~ (<<q, r>> \in less)
  BY Zenon, <1>1, <1>2, WFMin
<1>5. ASSUME NEW q \in Unfinished PROVE r <= q
  <2>1. q \in Nat /\ r \in Nat /\ ~ (q < r)
    BY <1>1, <1>3, <1>4, Zenon
  <2> QED
    BY <2>1
<1> QED
  BY <1>5 DEF Current

LEMMA AdvanceEffect ==
  ASSUME TypeOK, NEW r \in Unfinished, NEW phase \in Phases, Advance(r, phase)
  PROVE  /\ journal' \in [Requests -> Operation \cup {None}]
         /\ journal'[r] = [journal[r] EXCEPT !.phase = phase]
         /\ journal'[r] # None /\ journal'[r].phase = phase
         /\ journal'[r].kind = journal[r].kind /\ journal'[r].key = journal[r].key
         /\ \A q \in Requests \ {r} : journal'[q] = journal[q]
<1>1. r \in Requests /\ journal[r] \in Operation
  BY DEF Unfinished, TypeOK
<1>2. journal' = [journal EXCEPT ![r] = [journal[r] EXCEPT !.phase = phase]]
  BY DEF Advance
<1>3. /\ [journal[r] EXCEPT !.phase = phase] \in Operation
      /\ [journal[r] EXCEPT !.phase = phase].phase = phase
      /\ [journal[r] EXCEPT !.phase = phase].kind = journal[r].kind
      /\ [journal[r] EXCEPT !.phase = phase].key = journal[r].key
  BY <1>1 DEF Operation
<1> QED
  BY <1>1, <1>2, <1>3, CustodyAssumption DEF TypeOK

(***************************************************************************)
(* What beginning an operation leaves in the journal.                      *)
(***************************************************************************)
LEMMA BeginEffect ==
  ASSUME TypeOK, NEW r \in Requests, NEW k \in Keys, NEW kind \in Kinds,
         NEW sel \in Keys \cup {None},
         NEW avail \in {"absent", "available", "credential_missing"},
         BeginOperation(r, kind, k, sel, avail)
  PROVE  /\ journal'[r] # None
         /\ journal'[r].kind = kind /\ journal'[r].key = k
         /\ journal'[r].phase = "intent_recorded"
         /\ journal'[r].priorSel = sel /\ journal'[r].priorAvail = avail
         /\ \A q \in Requests \ {r} : journal'[q] \in {journal[q], None}
<1>1. /\ journal'[r] = [kind |-> kind, key |-> k, phase |-> "intent_recorded",
                        priorSel |-> sel, priorAvail |-> avail]
      /\ \A q \in Requests \ {r} : journal'[q] \in {journal[q], None}
  BY DEF BeginOperation
<1>2. journal'[r] \in Operation
  BY <1>1 DEF Operation, Phases
<1> QED
  BY <1>1, <1>2, CustodyAssumption

LEMMA BeginFits ==
  ASSUME TypeInv, NEW r \in Requests, NEW k \in Keys, NEW kind \in Kinds,
         NEW sel \in Keys \cup {None}, NEW cmd \in {"add", "remove"},
         NEW avail \in {"absent", "available", "credential_missing"},
         BeginOperation(r, kind, k, sel, avail), Run(cmd, r, k),
         kind = "remove" <=> cmd = "remove", mode' = "ready"
  PROVE  PhasesFit' /\ TaskFits'
<1>1. /\ journal'[r] # None
      /\ journal'[r].kind = kind /\ journal'[r].key = k
      /\ journal'[r].phase = "intent_recorded"
      /\ \A q \in Requests \ {r} : journal'[q] \in {journal[q], None}
  BY BeginEffect DEF TypeInv
<1>2. PhasesFit'
  BY <1>1 DEF TypeInv, PhasesFit, RemovePhases, AddPhases
<1>3. task' = [cmd |-> cmd, req |-> r, key |-> k] /\ stage' = 0
  BY DEF Run
<1>4. r \in Unfinished'
  BY <1>1 DEF Unfinished, Terminal
<1>5. TaskFits'
  BY <1>1, <1>3, <1>4 DEF TaskFits, AddPhases
<1> QED
  BY <1>2, <1>5

LEMMA CommandFits == ASSUME TypeInv, Command PROVE TypeInv'
<1> USE DEF TypeInv
<1>1. TypeOK'
  BY CommandType
<1>2. ASSUME NEW r \in Requests, NEW k \in Keys, Create(r, k) PROVE PhasesFit' /\ TaskFits'
  BY <1>2, BeginFits DEF Create, Idle, Kinds, TypeOK
<1>3. ASSUME NEW r \in Requests, NEW k \in Keys, Import(r, k) PROVE PhasesFit' /\ TaskFits'
  <2>1. PICK kind \in Kinds \ {"remove"} : BeginOperation(r, kind, k, selected, registry[k])
    BY <1>3 DEF Import, Kinds
  <2>2. /\ registry[k] \in {"absent", "available", "credential_missing"}
        /\ selected \in Keys \cup {None}
    BY DEF TypeOK
  <2> QED
    BY <1>3, <2>1, <2>2, BeginFits DEF Import, Idle
<1>4. ASSUME NEW r \in Requests, NEW k \in Keys, Remove(r, k) PROVE PhasesFit' /\ TaskFits'
  <2>1. PICK sel \in Fallbacks(k) : BeginOperation(r, "remove", k, sel, registry[k])
    BY <1>4 DEF Remove
  <2>2. /\ registry[k] \in {"absent", "available", "credential_missing"}
        /\ sel \in Keys \cup {None}
    BY <2>1 DEF Fallbacks, Registered, TypeOK
  <2> QED
    BY <1>4, <2>1, <2>2, BeginFits DEF Remove, Idle, Kinds
<1>5. ASSUME NEW k \in Keys, Select(k) \/ Activate(k) PROVE PhasesFit' /\ TaskFits'
  BY <1>5 DEF Select, Activate, Run, Idle, PhasesFit, TaskFits
<1>6. CASE SignOut
  <2>1. task = None /\ task' = None /\ journal' = journal
    BY <1>6 DEF SignOut, Idle
  <2>2. PhasesFit'
    BY <2>1 DEF PhasesFit
  <2>3. TaskFits'
    BY <2>1 DEF TaskFits
  <2> QED
    BY <1>1, <2>2, <2>3
<1> QED
  BY <1>1, <1>2, <1>3, <1>4, <1>5, <1>6 DEF Command

(***************************************************************************)
(* The running command.                                                    *)
(***************************************************************************)
LEMMA RunningTask ==
  ASSUME TypeInv, task # None
  PROVE  /\ task \in Task /\ task.key \in Keys /\ mode = "ready"
         /\ task.cmd \in {"add", "remove"} =>
              /\ task.req \in Unfinished /\ task.req \in Requests
              /\ journal[task.req] \in Operation
BY DEF TypeInv, TypeOK, TaskFits, Task, Unfinished

LEMMA TargetType ==
  ASSUME TypeInv, SelectionDue \/ AddAt("selection_committed", 0) \/ RemoveAt("selection_committed", 0)
  PROVE  Target \in Keys \cup {None}
<1>1. task # None
  BY DEF SelectionDue, AddAt, RemoveAt, Running
<1> QED
  BY <1>1, RunningTask DEF Target, Operation

\* The steps that leave the journal and the task alone.
LEMMA StoreStepType ==
  ASSUME TypeInv,
         PutCredential \/ SaveMetadata \/ DeleteCredential \/ DeleteMetadata \/ SaveSelection
           \/ PublishRegistry \/ LoadCredential
  PROVE  TypeInv'
<1> USE DEF AddAt, RemoveAt, Running
<1>1. task # None /\ UNCHANGED <<journal, mode, task, late, faults, spent, contested, overlapped>>
  BY DEF PutCredential, SaveMetadata, DeleteCredential, DeleteMetadata, SaveSelection, SelectionDue,
       PublishRegistry, LoadCredential, history
<1>2. /\ task.key \in Keys
      /\ task.cmd \in {"add", "remove"} => task.req \in Requests
  BY <1>1, RunningTask
<1>3. stage' \in 0 .. 2 /\ (task.cmd \in {"add", "remove"} => stage' = 1)
  <2>1. CASE PutCredential \/ SaveMetadata \/ DeleteCredential \/ DeleteMetadata \/ PublishRegistry
    BY SMTT(60), <2>1 DEF PutCredential, SaveMetadata, DeleteCredential, DeleteMetadata, PublishRegistry
  <2>2. CASE SaveSelection \/ LoadCredential
    BY SMTT(60), <2>2 DEF SaveSelection, SelectionDue, LoadCredential
  <2> QED
    BY Zenon, <2>1, <2>2
<1>4. keyring' \in [Keys -> Requests \cup {Legacy, None}]
  BY Zenon, <1>2 DEF TypeInv, TypeOK, PutCredential, SaveMetadata, DeleteCredential, DeleteMetadata,
       SaveSelection, PublishRegistry, LoadCredential, stores
<1>5. registry' \in [Keys -> {"absent", "available", "credential_missing"}]
  BY Zenon, <1>2 DEF TypeInv, TypeOK, PutCredential, SaveMetadata, DeleteCredential, DeleteMetadata,
       SaveSelection, PublishRegistry, LoadCredential, RemoveMetadata, stores
<1>6. selected' \in Keys \cup {None}
  BY Zenon, TargetType DEF TypeInv, TypeOK, PutCredential, SaveMetadata, DeleteCredential, DeleteMetadata,
       SaveSelection, PublishRegistry, LoadCredential, RemoveMetadata, stores
<1>7. /\ snapIds' \subseteq Keys /\ snapSel' \in Keys \cup {None}
      /\ active' \in Keys \cup {None} /\ pending' \in Keys \cup {None}
  BY TargetType DEF TypeInv, TypeOK, PutCredential, SaveMetadata, DeleteCredential, DeleteMetadata,
       SaveSelection, PublishRegistry, LoadCredential, Registered, memory
<1>8. TypeOK'
  BY SMTT(60), <1>1, <1>3, <1>4, <1>5, <1>6, <1>7 DEF TypeInv, TypeOK
<1>9. PhasesFit' /\ TaskFits'
  BY Zenon, <1>1, <1>3 DEF TypeInv, PhasesFit, TaskFits, Unfinished
<1> QED
  BY Zenon, <1>8, <1>9 DEF TypeInv

LEMMA EndCommandType ==
  ASSUME TypeInv, PublishSelection \/ ActivationSucceeded \/ Refused
  PROVE  TypeInv'
<1>1. task # None /\ task' = None /\ stage' = 0
      /\ UNCHANGED <<keyring, registry, selected, journal, mode, snapIds, late, faults, spent, contested, overlapped>>
  BY DEF PublishSelection, ActivationSucceeded, Refused, Done, AddAt, RemoveAt, Running, SelectionDue,
       stores, history
<1>2. task.key \in Keys
  BY Zenon, <1>1, RunningTask
<1>3. /\ snapSel' \in Keys \cup {None}
      /\ active' \in Keys \cup {None} /\ pending' \in Keys \cup {None}
  BY <1>2 DEF TypeInv, TypeOK, PublishSelection, ActivationSucceeded, Refused
<1> QED
  BY SMTT(60), <1>1, <1>3 DEF TypeInv, TypeOK, PhasesFit, TaskFits

(***************************************************************************)
(* A journal update of the running command moves its operation along one   *)
(* of the two fixed sequences of phases.                                   *)
(***************************************************************************)
LEMMA NextPhaseFits ==
  ASSUME NEW kind \in Kinds, NEW phase \in Phases \ Terminal,
         kind = "remove" => phase \in RemovePhases,
         kind # "remove" => phase \in AddPhases
  PROVE  /\ NextPhase(kind, phase) \in Phases
         /\ kind = "remove" => NextPhase(kind, phase) \in RemovePhases
         /\ phase # "selection_committed" => NextPhase(kind, phase) \notin Terminal
         /\ kind # "remove" /\ phase # "selection_committed" => NextPhase(kind, phase) \in AddPhases
         /\ kind # "remove" => NextPhase(kind, phase) \in AddPhases \cup UndoPhases
BY DEF Kinds, Phases, Terminal, RemovePhases, AddPhases, UndoPhases, NextPhase

LEMMA JournalType == ASSUME TypeInv, Journal PROVE TypeInv'
<1> DEFINE r == task.req
<1> DEFINE next == NextPhase(journal[r].kind, Phase(r))
<1>1. /\ task # None /\ task.cmd \in {"add", "remove"} /\ Advance(r, next)
      /\ UNCHANGED <<stores, mode, memory, late, faults, history>>
  BY DEF Journal, Running
<1>2. /\ task \in Task /\ mode = "ready" /\ r \in Unfinished /\ r \in Requests
      /\ journal[r] \in Operation
  BY Zenon, <1>1, RunningTask
<1>3. /\ journal[r].kind = "remove" <=> task.cmd = "remove"
      /\ journal[r].kind = "remove" => Phase(r) \in RemovePhases
      /\ journal[r].kind # "remove" => Phase(r) \in AddPhases
      /\ Phase(r) \in Phases \ Terminal /\ journal[r].kind \in Kinds
      /\ journal[r].key = task.key
  BY Zenon, <1>1, <1>2, CustodyAssumption DEF TypeInv, PhasesFit, TaskFits, Unfinished, Operation, Phase
<1>4. /\ next \in Phases
      /\ journal[r].kind = "remove" => next \in RemovePhases
      /\ Phase(r) # "selection_committed" => next \notin Terminal
      /\ journal[r].kind # "remove" /\ Phase(r) # "selection_committed" => next \in AddPhases
      /\ journal[r].kind # "remove" => next \in AddPhases \cup UndoPhases
  BY <1>3, NextPhaseFits
<1>5. PICK q \in Unfinished : q = r
  BY <1>2
<1>6. PICK phase \in Phases : phase = next
  BY <1>4
<1>7. Advance(q, phase)
  BY <1>1, <1>5, <1>6
<1>8. /\ journal' \in [Requests -> Operation \cup {None}]
      /\ journal'[q] # None /\ journal'[q].phase = phase
      /\ journal'[q].kind = journal[q].kind /\ journal'[q].key = journal[q].key
      /\ \A other \in Requests \ {q} : journal'[other] = journal[other]
  BY Zenon, <1>7, AdvanceEffect DEF TypeInv
<1>9. \/ Phase(r) = "selection_committed" /\ task' = None /\ stage' = 0
      \/ Phase(r) # "selection_committed" /\ task' = task /\ stage' = 0
  BY DEF Journal, Done
<1>10. TypeOK'
  BY <1>1, <1>8, <1>9 DEF TypeInv, TypeOK, stores, memory, history
<1>11. PhasesFit'
  BY <1>3, <1>4, <1>5, <1>6, <1>8 DEF TypeInv, PhasesFit
<1>12. TaskFits'
  <2>1. CASE task' = None
    BY Zenon, <2>1 DEF TaskFits
  <2>2. CASE Phase(r) # "selection_committed" /\ task' = task /\ stage' = 0
    <3>1. q \in Unfinished'
      BY <1>2, <1>4, <1>5, <1>6, <1>8, <2>2 DEF Unfinished
    <3> QED
      BY Zenon, <1>1, <1>2, <1>3, <1>4, <1>5, <1>6, <1>8, <2>2, <3>1 DEF TaskFits
  <2> QED
    BY <1>9, <2>1, <2>2
<1> QED
  BY Zenon, <1>10, <1>11, <1>12 DEF TypeInv

LEMMA CommandStepType == ASSUME TypeInv, CommandStep PROVE TypeInv'
BY Zenon, StoreStepType, EndCommandType, JournalType DEF CommandStep

(***************************************************************************)
(* Recovery.                                                               *)
(***************************************************************************)
LEMMA RecoveredOperation ==
  ASSUME TypeInv, Unfinished # {}
  PROVE  /\ Current \in Unfinished /\ Current \in Requests /\ journal[Current] \in Operation
         /\ journal[Current].key \in Keys /\ journal[Current].phase \in Phases \ Terminal
         /\ journal[Current].kind \in Kinds
         /\ journal[Current].kind = "remove" => journal[Current].phase \in RemovePhases
         /\ journal[Current].kind # "remove" => journal[Current].phase \in AddPhases \cup UndoPhases
BY ZenonT(60), CurrentExists, CustodyAssumption DEF TypeInv, TypeOK, PhasesFit, Unfinished, Operation

LEMMA RecoverStoreType ==
  ASSUME TypeInv, RecoverCredential \/ RecoverMetadata \/ RecoverSelection
  PROVE  TypeInv'
<1> USE DEF Recovers
<1>1. /\ mode = "recovering" /\ Unfinished # {} /\ stage' \in 0 .. 3
      /\ UNCHANGED <<journal, mode, memory, task, late, faults, history>>
  BY DEF RecoverCredential, RecoverMetadata, RecoverSelection, RecoverySelectionDue
<1>2. task = None
  BY <1>1 DEF TypeInv, TaskFits
<1>3. journal[Current].key \in Keys /\ journal[Current] \in Operation
  BY <1>1, RecoveredOperation
<1>4. keyring' \in [Keys -> Requests \cup {Legacy, None}]
  BY Zenon, <1>3 DEF TypeInv, TypeOK, RecoverCredential, RecoverMetadata, RecoverSelection
<1>5. registry' \in [Keys -> {"absent", "available", "credential_missing"}]
  <2>1. journal[Current].priorAvail \in {"absent", "available", "credential_missing"}
    BY Zenon, <1>3 DEF Operation
  <2> QED
    BY <1>3, <2>1 DEF TypeInv, TypeOK, RecoverCredential, RecoverMetadata, RecoverSelection, RemoveMetadata
<1>6. selected' \in Keys \cup {None}
  BY Zenon, <1>3 DEF TypeInv, TypeOK, RecoverCredential, RecoverMetadata, RecoverSelection, RemoveMetadata,
       RecoveryTarget, Operation
<1>7. TypeOK'
  BY Zenon, <1>1, <1>4, <1>5, <1>6 DEF TypeInv, TypeOK, memory, history
<1>8. PhasesFit' /\ TaskFits'
  BY Zenon, <1>1, <1>2 DEF TypeInv, PhasesFit, TaskFits
<1> QED
  BY <1>7, <1>8 DEF TypeInv

LEMMA RecoverJournalType == ASSUME TypeInv, RecoverJournal PROVE TypeInv'
<1> DEFINE op == journal[Current]
<1> DEFINE next == RecoveryPhase(op.kind, op.phase, registry[op.key] = "available")
<1>0. /\ UNCHANGED <<keyring, registry, selected, mode, snapIds, snapSel, active, pending,
                     task, late, faults, spent, contested, overlapped>>
      /\ stage' = 0
  BY DEF RecoverJournal, stores, memory, history
<1>1. mode = "recovering" /\ Unfinished # {} /\ Advance(Current, next)
  BY DEF RecoverJournal
<1>2. task = None
  BY <1>1 DEF TypeInv, TaskFits
<1>3. /\ Current \in Unfinished /\ op.phase \in Phases \ Terminal /\ op.kind \in Kinds
      /\ op.kind = "remove" => op.phase \in RemovePhases
  BY Zenon, <1>1, RecoveredOperation
<1>4. /\ next \in Phases
      /\ op.kind = "remove" => next \in RemovePhases
      /\ op.kind # "remove" => next \in AddPhases \cup UndoPhases
  <2>1. CASE op.kind = "remove"
    BY <1>3, <2>1, NextPhaseFits DEF RecoveryPhase
  <2>2. CASE op.kind # "remove"
    BY <1>3, <2>2 DEF RecoveryPhase, Phases, AddPhases, UndoPhases
  <2> QED
    BY <2>1, <2>2
<1>5. PICK q \in Unfinished : q = Current
  BY Zenon, <1>3
<1>6. PICK phase \in Phases : phase = next
  BY Zenon, <1>4
<1>7. Advance(q, phase)
  BY <1>1, <1>5, <1>6
<1>8. /\ journal' \in [Requests -> Operation \cup {None}]
      /\ journal'[q] # None /\ journal'[q].phase = phase
      /\ journal'[q].kind = journal[q].kind
      /\ \A other \in Requests \ {q} : journal'[other] = journal[other]
  BY Zenon, <1>7, AdvanceEffect DEF TypeInv
<1>9. TypeOK'
  BY <1>0, <1>8 DEF TypeInv, TypeOK
<1>10. PhasesFit'
  BY <1>3, <1>4, <1>5, <1>6, <1>8 DEF TypeInv, PhasesFit
<1>11. TaskFits'
  BY <1>0, <1>2 DEF TaskFits
<1> QED
  BY <1>9, <1>10, <1>11 DEF TypeInv

\* A process that stops loses its memory and keeps its tables.
LEMMA HaltType ==
  ASSUME TypeInv, Halt,
         keyring' \in [Keys -> Requests \cup {Legacy, None}],
         late' \in {late, None},
         faults' \in 0 .. MaxFaults,
         UNCHANGED <<registry, selected, journal, spent, contested, overlapped>>
  PROVE  TypeInv'
<1>1. mode' = "closed" /\ task' = None /\ stage' = 0
      /\ snapIds' = {} /\ snapSel' = None /\ active' = None /\ pending' = None
  BY Zenon DEF Halt, Done
<1>2. TypeOK'
  BY SMTT(60), <1>1 DEF TypeInv, TypeOK
<1>3. PhasesFit'
  BY DEF TypeInv, PhasesFit
<1>4. TaskFits'
  BY <1>1 DEF TaskFits
<1> QED
  BY <1>2, <1>3, <1>4 DEF TypeInv

LEMMA RecoveryType == ASSUME TypeInv, Recovery PROVE TypeInv'
<1>1. CASE Bootstrap
  <2>1. task = None
    BY <1>1 DEF Bootstrap, TypeInv, TaskFits
  <2>2. UNCHANGED <<keyring, registry, selected, journal, late, faults, spent, contested, overlapped>>
    BY <1>1 DEF Bootstrap, stores, history
  <2>3. keyring' \in [Keys -> Requests \cup {Legacy, None}] /\ faults' \in 0 .. MaxFaults
    BY <2>2 DEF TypeInv, TypeOK
  <2>4. CASE Halt
    BY Zenon, <2>2, <2>3, <2>4, HaltType
  <2>5. CASE ~ Halt
    <3>1. mode' = "ready" /\ snapIds' = Registered /\ snapSel' = selected
          /\ UNCHANGED <<active, pending, task, stage>>
      BY Zenon, <1>1, <2>5 DEF Bootstrap
    <3>2. TypeOK'
      BY <2>2, <3>1 DEF TypeInv, TypeOK, Registered
    <3> QED
      BY <2>1, <2>2, <3>1, <3>2 DEF TypeInv, PhasesFit, TaskFits
  <2> QED
    BY <2>4, <2>5
<1>2. CASE RecoveryFails
  <2>1. faults' \in 0 .. MaxFaults
    BY <1>2, CustodyAssumption DEF RecoveryFails, Fault, TypeInv, TypeOK
  <2>2. UNCHANGED <<keyring, registry, selected, journal, late, spent, contested, overlapped>> /\ Halt
    BY <1>2 DEF RecoveryFails, stores, history
  <2>3. keyring' \in [Keys -> Requests \cup {Legacy, None}]
    BY <2>2 DEF TypeInv, TypeOK
  <2> QED
    BY Zenon, <2>1, <2>2, <2>3, HaltType
<1> QED
  BY <1>1, <1>2, RecoverStoreType, RecoverJournalType DEF Recovery

(***************************************************************************)
(* Faults, closing and opening.                                            *)
(***************************************************************************)
LEMMA LandedType ==
  ASSUME TypeOK PROVE Landed \in [Keys -> Requests \cup {Legacy, None}]
BY Zenon DEF TypeOK, Landed, Mutation

LEMMA AbandonType == ASSUME TypeInv, Abandon PROVE TypeInv'
<1>1. task # None /\ task' = None /\ stage' = 0 /\ faults' \in 0 .. MaxFaults
      /\ UNCHANGED <<keyring, registry, selected, journal, mode, snapIds, snapSel, active, spent, contested, overlapped>>
  BY CustodyAssumption DEF Abandon, Done, Fault, stores, history, TypeInv, TypeOK
<1>2. pending' \in Keys \cup {None}
  BY DEF Abandon, TypeInv, TypeOK
<1>3. late' \in Mutation \cup {None}
  <2>1. CASE late' = late
    BY <2>1 DEF TypeInv, TypeOK
  <2>2. CASE late' \in InFlight
    <3>1. task.cmd \in {"add", "remove"} /\ late' = [cmd |-> task.cmd, req |-> task.req, key |-> task.key]
      BY Zenon, <2>2 DEF InFlight, AddAt, RemoveAt, Running
    <3>2. task.req \in Requests /\ task.key \in Keys
      BY Zenon, <1>1, <3>1, RunningTask
    <3> QED
      BY <3>1, <3>2 DEF Mutation
  <2> QED
    BY <2>1, <2>2 DEF Abandon
<1>4. TypeOK'
  BY <1>1, <1>2, <1>3 DEF TypeInv, TypeOK
<1> QED
  BY Zenon, <1>1, <1>4 DEF TypeInv, PhasesFit, TaskFits

LEMMA LifecycleType ==
  ASSUME TypeInv, LateCompletion \/ Crash \/ Close \/ Open
  PROVE  TypeInv'
<1>1. Landed \in [Keys -> Requests \cup {Legacy, None}]
  BY LandedType DEF TypeInv
<1>2. keyring \in [Keys -> Requests \cup {Legacy, None}] /\ faults \in 0 .. MaxFaults
  BY Zenon DEF TypeInv, TypeOK
<1>3. CASE LateCompletion
  <2>1. keyring' \in [Keys -> Requests \cup {Legacy, None}] /\ late' = None
    BY Zenon, <1>1, <1>2, <1>3 DEF LateCompletion
  <2>2. UNCHANGED <<registry, selected, journal, mode, snapIds, snapSel, active, pending,
                    task, stage, faults, spent, contested, overlapped>>
    BY Zenon, <1>3 DEF LateCompletion, memory, history
  <2>3. TypeOK'
    BY <2>1, <2>2 DEF TypeInv, TypeOK
  <2> QED
    BY <2>2, <2>3 DEF TypeInv, PhasesFit, TaskFits, Unfinished
<1>4. CASE Crash
  <2>1. faults' \in 0 .. MaxFaults
    BY <1>4, CustodyAssumption DEF Crash, Fault, TypeInv, TypeOK
  <2>2. keyring' \in [Keys -> Requests \cup {Legacy, None}] /\ late' = None
    BY <1>1, <1>2, <1>4 DEF Crash
  <2>3. Halt /\ UNCHANGED <<registry, selected, journal, spent, contested, overlapped>>
    BY <1>4 DEF Crash, history
  <2> QED
    BY Zenon, <2>1, <2>2, <2>3, HaltType
<1>5. CASE Close
  <2>1. Halt /\ UNCHANGED <<keyring, registry, selected, journal, late, faults, spent, contested, overlapped>>
    BY Zenon, <1>5 DEF Close, stores, history
  <2> QED
    BY <1>2, <2>1, HaltType
<1>6. CASE Open
  <2>1. UNCHANGED <<keyring, registry, selected, journal, snapIds, snapSel, active, pending,
                    task, stage, late, faults, spent, contested, overlapped>>
        /\ mode = "closed" /\ mode' = "recovering"
    BY Zenon, <1>6 DEF Open, stores, memory, history
  <2>2. TypeOK'
    BY <2>1 DEF TypeInv, TypeOK
  <2> QED
    BY <2>1, <2>2 DEF TypeInv, PhasesFit, TaskFits
<1> QED
  BY <1>3, <1>4, <1>5, <1>6

LEMMA TypeStep == TypeInv /\ [Next]_vars => TypeInv'
<1> SUFFICES ASSUME TypeInv, [Next]_vars PROVE TypeInv'
  BY Zenon
<1>1. CASE UNCHANGED vars
  BY <1>1 DEF vars, stores, memory, history, TypeInv, TypeOK, PhasesFit, TaskFits, Unfinished
<1> QED
  BY <1>1, CommandFits, CommandStepType, RecoveryType, AbandonType, LifecycleType DEF Next

(***************************************************************************)
(* What the stores hold for one key: they agree when nothing is unfinished *)
(* on it, and otherwise are where its one operation's phase says.          *)
(***************************************************************************)
KeyAgrees(k) ==
  /\ UnfinishedOn(k) = {} => (registry[k] = "available" <=> keyring[k] # None)
  /\ \A r \in UnfinishedOn(k) : UnfinishedOn(k) = {r} /\ OperationAgrees(r)

StoresFit == \A k \in Keys \ contested : KeyAgrees(k)

LEMMA StoresAgree == StoresFit <=> UncontestedAgrees /\ CustodyAgrees
BY DEF StoresFit, KeyAgrees, UncontestedAgrees, CustodyAgrees

LEMMA SameJournal ==
  ASSUME journal' = journal
  PROVE  /\ Unfinished' = Unfinished /\ Finalized' = Finalized /\ Current' = Current
         /\ \A k \in Keys : UnfinishedOn(k)' = UnfinishedOn(k)
<1>1. Unfinished' = Unfinished
  BY DEF Unfinished
<1>2. Finalized' = Finalized
  BY Zenon, <1>1 DEF Finalized
<1>3. Current' = Current
  BY <1>1 DEF Current
<1>4. \A k \in Keys : UnfinishedOn(k)' = UnfinishedOn(k)
  BY <1>1 DEF UnfinishedOn
<1> QED
  BY <1>1, <1>2, <1>3, <1>4

LEMMA StageTypes ==
  ASSUME TypeInv, NEW r \in Requests
  PROVE  CommandStage(r) \in Nat /\ RecoveryStage(r) \in Nat
BY SMTT(60) DEF TypeInv, TypeOK, CommandStage, RecoveryStage

(***************************************************************************)
(* OperationAgrees spelled out over its values: an operation op of request *)
(* r, the row and the credential of its key, and how far a command and     *)
(* recovery have got within its phase.                                     *)
(***************************************************************************)
RemovalOk(phase, row, cred, steps) ==
  /\ phase = "intent_recorded" /\ steps > 0 => cred = None
  /\ phase # "intent_recorded" => cred = None
  /\ phase = "credential_deleted" /\ steps > 0 => row = "absent"
  /\ phase \in {"metadata_deleted", "selection_committed"} => row = "absent"

AdditionOk(phase, prior, r, row, cred, commanded, recovered) ==
  /\ prior # "available" /\ cred \in {None, r}
  /\ phase \in {"intent_recorded", "compensation_pending", "credential_deleted"} => row = prior
  /\ phase = "credential_written" => row \in {prior, "available"}
  /\ phase = "credential_written" /\ commanded = 1 => row = "available"
  /\ phase \in {"metadata_committed", "selection_committed"} => row = "available"
  /\ phase \in {"credential_written", "metadata_committed", "selection_committed"} => cred # None
  /\ phase = "intent_recorded" /\ commanded = 1 => cred # None
  /\ recovered > 0 /\ phase \in {"intent_recorded", "compensation_pending"} => cred = None
  /\ phase = "credential_deleted" => cred = None

OperationOk(op, r, row, cred, commanded, recovered) ==
  IF op.kind = "remove" THEN RemovalOk(op.phase, row, cred, commanded + recovered)
  ELSE AdditionOk(op.phase, op.priorAvail, r, row, cred, commanded, recovered)

LEMMA OperationForm ==
  ASSUME NEW r
  PROVE  /\ OperationAgrees(r) <=> OperationOk(journal[r], r, registry[journal[r].key], keyring[journal[r].key],
                                               CommandStage(r), RecoveryStage(r))
         /\ OperationAgrees(r)' <=> OperationOk(journal'[r], r, registry'[journal'[r].key], keyring'[journal'[r].key],
                                                CommandStage(r)', RecoveryStage(r)')
<1>1. /\ RemovalAgrees(r) <=> RemovalOk(journal[r].phase, registry[journal[r].key], keyring[journal[r].key],
                                        CommandStage(r) + RecoveryStage(r))
      /\ RemovalAgrees(r)' <=> RemovalOk(journal'[r].phase, registry'[journal'[r].key], keyring'[journal'[r].key],
                                         CommandStage(r)' + RecoveryStage(r)')
  BY Zenon DEF RemovalAgrees, RemovalOk
<1>2. AdditionAgrees(r) <=> AdditionOk(journal[r].phase, journal[r].priorAvail, r, registry[journal[r].key],
                                       keyring[journal[r].key], CommandStage(r), RecoveryStage(r))
  BY Zenon DEF AdditionAgrees, AdditionOk
<1>3. AdditionAgrees(r)' <=> AdditionOk(journal'[r].phase, journal'[r].priorAvail, r, registry'[journal'[r].key],
                                        keyring'[journal'[r].key], CommandStage(r)', RecoveryStage(r)')
  BY Zenon DEF AdditionAgrees, AdditionOk
<1> QED
  BY Zenon, <1>1, <1>2, <1>3 DEF OperationAgrees, OperationOk

\* A process that stops leaves its progress within the phase behind.
LEMMA OkWhenStopped ==
  ASSUME NEW op, NEW r, NEW row, NEW cred, NEW c \in Nat, NEW n \in Nat, NEW c2 \in {0, c}, NEW n2 \in {0, n},
         OperationOk(op, r, row, cred, c, n)
  PROVE  OperationOk(op, r, row, cred, c2, n2)
<1>1. c2 + n2 > 0 => c + n > 0
  OBVIOUS
<1>2. (c2 = 1 => c = 1) /\ (n2 > 0 => n > 0)
  OBVIOUS
<1> QED
  BY <1>1, <1>2, Zenon DEF OperationOk, RemovalOk, AdditionOk

\* The moves of an addition or a restoration that recovery may make, from a
\* phase, with the registry row and the completed recovery steps.
RecoveryMoves(at, phase, row, n) ==
  \/ at = "intent_recorded" /\ phase = "failed" /\ n = 1
  \/ at = "credential_written" /\ phase = "metadata_committed" /\ row = "available"
  \/ at = "credential_written" /\ phase = "compensation_pending" /\ row # "available"
  \/ at = "metadata_committed" /\ phase = "selection_committed"
  \/ at = "selection_committed" /\ phase = "completed"
  \/ at = "compensation_pending" /\ phase = "credential_deleted" /\ n = 3
  \/ at = "credential_deleted" /\ phase = "failed"

LEMMA OkBeforeRecoveryMoves ==
  ASSUME NEW at, NEW phase, NEW prior, NEW r, NEW row, NEW cred, NEW n,
         AdditionOk(at, prior, r, row, cred, 0, n), RecoveryMoves(at, phase, row, n)
  PROVE  /\ prior # "available" /\ cred \in {None, r}
         /\ phase \in {"failed", "credential_deleted"} => cred = None /\ row = prior
         /\ phase = "compensation_pending" => row = prior
         /\ phase \in {"metadata_committed", "selection_committed", "completed"} => cred # None /\ row = "available"
BY DEF AdditionOk, RecoveryMoves

LEMMA OkAtIntent ==
  ASSUME NEW op, NEW r, NEW row, NEW cred, op.phase = "intent_recorded",
         op.kind # "remove" => row = op.priorAvail /\ op.priorAvail # "available" /\ cred \in {None, r}
  PROVE  OperationOk(op, r, row, cred, 0, 0)
BY DEF OperationOk, RemovalOk, AdditionOk

LEMMA OkWhenPut ==
  ASSUME NEW op, NEW r, NEW row, NEW cred, NEW c, NEW n, op.phase = "intent_recorded", op.kind # "remove",
         r # None, OperationOk(op, r, row, cred, c, n)
  PROVE  OperationOk(op, r, row, r, 1, 0)
BY DEF OperationOk, AdditionOk

LEMMA OkWhenRecoveryDeletes ==
  ASSUME NEW op, NEW r, NEW row, NEW cred, NEW n, op.phase \in {"intent_recorded", "compensation_pending"},
         op.phase = "compensation_pending" => op.kind # "remove", OperationOk(op, r, row, cred, 0, n)
  PROVE  OperationOk(op, r, row, None, 0, 1)
BY DEF OperationOk, RemovalOk, AdditionOk

LEMMA OkWhenRecoverySelects ==
  ASSUME NEW op, NEW r, NEW row, NEW cred, NEW n, OperationOk(op, r, row, cred, 0, n),
         \/ op.kind = "remove" /\ op.phase = "metadata_deleted"
         \/ op.kind # "remove" /\ op.phase = "metadata_committed"
         \/ op.kind # "remove" /\ op.phase = "compensation_pending" /\ n = 2
  PROVE  OperationOk(op, r, row, cred, 0, n + 1)
BY DEF OperationOk, RemovalOk, AdditionOk

\* A step that touches neither a key nor its operation keeps it in order.
LEMMA KeepsKey ==
  ASSUME TypeInv, NEW k \in Keys, KeyAgrees(k),
         registry'[k] = registry[k], keyring'[k] = keyring[k],
         UnfinishedOn(k)' = UnfinishedOn(k),
         \A r \in UnfinishedOn(k) : /\ journal'[r] = journal[r]
                                    /\ CommandStage(r)' \in {0, CommandStage(r)}
                                    /\ RecoveryStage(r)' \in {0, RecoveryStage(r)}
  PROVE  KeyAgrees(k)'
<1>1. ASSUME NEW r \in UnfinishedOn(k) PROVE OperationAgrees(r)'
  <2>1. r \in Requests /\ journal[r].key = k /\ journal'[r] = journal[r] /\ OperationAgrees(r)
    BY Zenon DEF UnfinishedOn, Unfinished, KeyAgrees
  <2>2. CommandStage(r) \in Nat /\ RecoveryStage(r) \in Nat
    BY Zenon, <2>1, StageTypes
  <2>3. CommandStage(r)' \in {0, CommandStage(r)} /\ RecoveryStage(r)' \in {0, RecoveryStage(r)}
    BY Zenon
  <2>4. OperationOk(journal[r], r, registry[k], keyring[k], CommandStage(r), RecoveryStage(r))
    BY Zenon, <2>1, OperationForm
  <2>5. OperationOk(journal[r], r, registry[k], keyring[k], CommandStage(r)', RecoveryStage(r)')
    BY <2>2, <2>3, <2>4, OkWhenStopped
  <2>6. OperationOk(journal'[r], r, registry'[journal'[r].key], keyring'[journal'[r].key],
                    CommandStage(r)', RecoveryStage(r)')
    BY Zenon, <2>1, <2>5
  <2> QED
    BY Zenon, <2>6, OperationForm
<1> QED
  BY Zenon, <1>1 DEF KeyAgrees

(***************************************************************************)
(* The journal's bounds.                                                   *)
(***************************************************************************)
LEMMA SameJournalFits ==
  ASSUME JournalFits, journal' = journal, spent' = spent
  PROVE  JournalFits'
BY SameJournal DEF JournalFits

LEMMA AdvanceJournalFits ==
  ASSUME TypeInv, JournalFits, NEW r \in Unfinished, NEW phase \in Phases, Advance(r, phase), spent' = spent
  PROVE  /\ JournalFits'
         /\ Unfinished' = IF phase \in Terminal THEN Unfinished \ {r} ELSE Unfinished
<1>1. /\ journal'[r] # None /\ journal'[r].phase = phase /\ r \in Requests
      /\ \A q \in Requests \ {r} : journal'[q] = journal[q]
  BY Zenon, AdvanceEffect DEF TypeInv, Unfinished
<1>2. Unfinished' = IF phase \in Terminal THEN Unfinished \ {r} ELSE Unfinished
  BY Zenon, <1>1 DEF Unfinished
<1>3. (Unfinished \cup Finalized)' = Unfinished \cup Finalized
  BY <1>1 DEF Unfinished, Finalized
<1>4. IsFiniteSet(Unfinished) /\ Unfinished' \subseteq Unfinished
  BY <1>2, FS_Subset DEF JournalFits
<1>5. Cardinality(Unfinished') <= Cardinality(Unfinished) /\ Cardinality(Unfinished) \in Nat
      /\ Cardinality(Unfinished') \in Nat
  BY <1>4, FS_Subset, FS_CardinalityType
<1>6. Cardinality(Unfinished') <= UnfinishedCapacity
  BY SMTT(60), <1>5, CustodyAssumption DEF JournalFits
<1> QED
  BY <1>2, <1>3, <1>6 DEF JournalFits

LEMMA BeginJournalFits ==
  ASSUME TypeInv, JournalFits, NEW r \in Requests, NEW k \in Keys, NEW kind \in Kinds,
         NEW sel \in Keys \cup {None},
         NEW avail \in {"absent", "available", "credential_missing"},
         BeginOperation(r, kind, k, sel, avail)
  PROVE  /\ JournalFits' /\ r \notin Unfinished /\ Unfinished' = Unfinished \cup {r}
         /\ \A q \in Unfinished : journal'[q] = journal[q]
<1>1. PICK expired \in SUBSET Finalized :
        /\ Cardinality(Unfinished) < UnfinishedCapacity
        /\ Cardinality((Unfinished \cup Finalized) \ expired) < OperationCapacity
        /\ journal' = [q \in Requests |->
             IF q = r THEN [kind |-> kind, key |-> k, phase |-> "intent_recorded",
                            priorSel |-> sel, priorAvail |-> avail]
             ELSE IF q \in expired THEN None ELSE journal[q]]
  BY ZenonT(60) DEF BeginOperation
<1>2. r \notin Unfinished /\ r \notin Finalized /\ spent' = spent \cup {r}
  BY DEF BeginOperation, JournalFits
<1>3. journal'[r] # None /\ journal'[r].phase = "intent_recorded"
  BY BeginEffect DEF TypeInv
<1>4. \A q \in Requests \ {r} : journal'[q] = IF q \in expired THEN None ELSE journal[q]
  BY Zenon, <1>1
<1>5. Unfinished' = Unfinished \cup {r}
  BY Zenon, <1>3, <1>4 DEF Unfinished, Finalized, Terminal
<1>6. (Unfinished \cup Finalized)' = ((Unfinished \cup Finalized) \ expired) \cup {r}
  BY <1>3, <1>4, <1>5 DEF Unfinished, Finalized, Terminal
<1> DEFINE kept == (Unfinished \cup Finalized) \ expired
<1>7. IsFiniteSet(kept) /\ IsFiniteSet(Unfinished) /\ r \notin kept
  <2>1. IsFiniteSet(Unfinished \cup Finalized)
    BY DEF JournalFits
  <2>2. kept \subseteq Unfinished \cup Finalized /\ Unfinished \subseteq Unfinished \cup Finalized
    OBVIOUS
  <2> HIDE DEF kept
  <2>3. IsFiniteSet(kept) /\ IsFiniteSet(Unfinished)
    BY Zenon, <2>1, <2>2, FS_Subset
  <2> QED
    BY <1>2, <2>2, <2>3
<1>8. /\ IsFiniteSet(kept \cup {r})
      /\ Cardinality(kept \cup {r}) = Cardinality(kept) + 1
      /\ Cardinality(Unfinished \cup {r}) = Cardinality(Unfinished) + 1
      /\ Cardinality(kept) \in Nat /\ Cardinality(Unfinished) \in Nat
  <2> HIDE DEF kept
  <2> QED
    BY Zenon, <1>2, <1>7, FS_AddElement, FS_CardinalityType
<1>9. JournalFits'
  <2>1. kept \subseteq spent /\ (Unfinished \cup Finalized)' = kept \cup {r}
    BY <1>6 DEF JournalFits
  <2>2. Cardinality(kept) < OperationCapacity /\ Cardinality(Unfinished) < UnfinishedCapacity
    BY Zenon, <1>1
  <2> HIDE DEF kept
  <2>3. Cardinality(kept \cup {r}) <= OperationCapacity /\ Cardinality(Unfinished \cup {r}) <= UnfinishedCapacity
    BY <1>8, <2>2, CustodyAssumption
  <2>4. kept \cup {r} \subseteq spent'
    BY <1>2, <2>1
  <2> QED
    BY Zenon, <1>5, <1>8, <2>1, <2>3, <2>4 DEF JournalFits
<1> QED
  BY Zenon, <1>2, <1>4, <1>5, <1>9 DEF Unfinished, Finalized

\* What is left of CustodyInv besides TypeInv and JournalFits.
Fits == LateFits /\ RecoveryFits /\ StoresFit /\ SessionFits /\ ActiveHasCredential

LEMMA InvParts == CustodyInv <=> TypeInv /\ JournalFits /\ Fits
BY Zenon, StoresAgree DEF CustodyInv, TypeInv, Fits

(***************************************************************************)
(* Beginning an operation.                                                 *)
(***************************************************************************)
LEMMA BeginKeeps ==
  ASSUME TypeInv, JournalFits, Fits, Idle,
         NEW r \in Requests, NEW k \in Keys, NEW kind \in Kinds,
         NEW sel \in Keys \cup {None}, NEW cmd \in {"add", "remove"},
         NEW avail \in {"absent", "available", "credential_missing"},
         BeginOperation(r, kind, k, sel, avail), Run(cmd, r, k),
         kind = "remove" <=> cmd = "remove",
         kind # "remove" => registry[k] = avail /\ avail # "available",
         UNCHANGED <<keyring, registry, mode, late>>,
         active' \in {active, None}, cmd = "remove" => active' # k
  PROVE  JournalFits' /\ Fits'
<1> USE DEF Fits
<1>1. /\ JournalFits' /\ r \notin Unfinished /\ Unfinished' = Unfinished \cup {r}
      /\ \A q \in Unfinished : journal'[q] = journal[q]
  BY Zenon, BeginJournalFits
<1>2. /\ journal'[r].kind = kind /\ journal'[r].key = k
      /\ journal'[r].phase = "intent_recorded" /\ journal'[r].priorAvail = avail
  BY BeginEffect DEF TypeInv
<1>3. /\ mode = "ready" /\ mode' = "ready" /\ task = None
      /\ task' = [cmd |-> cmd, req |-> r, key |-> k] /\ stage' = 0
  BY Zenon DEF Idle, Run
<1>4. task' # None /\ task'.req = r /\ task'.key = k /\ task'.cmd = cmd
  <2>1. task' \in Task
    BY Zenon, <1>3 DEF Task
  <2> QED
    BY Zenon, <1>3, <2>1, CustodyAssumption
<1>5. LateFits'
  BY Zenon, <1>1, <1>3, <1>4 DEF LateFits
<1>6. RecoveryFits'
  BY Zenon, <1>3, <1>4 DEF RecoveryFits
<1>7. SessionFits'
  <2>1. ASSUME late' # None, late'.cmd = "remove", active' # None PROVE late'.key # active'
    BY Zenon, <2>1 DEF SessionFits
  <2> QED
    BY Zenon, <1>3, <1>4, <2>1 DEF SessionFits
<1>8. ActiveHasCredential'
  BY Zenon DEF ActiveHasCredential, Registered
<1>9. ASSUME NEW q \in Requests PROVE RecoveryStage(q)' = 0 /\ CommandStage(q)' = 0
  BY <1>3 DEF RecoveryStage, CommandStage
<1>10. ASSUME NEW other \in Keys \ contested' PROVE KeyAgrees(other)'
  <2>1. other \notin contested /\ (other = k => UnfinishedOn(k) = {})
    BY Zenon, <1>10 DEF BeginOperation
  <2>2. KeyAgrees(other)
    BY Zenon, <2>1 DEF StoresFit
  <2>3. CASE other # k
    <3>1. UnfinishedOn(other)' = UnfinishedOn(other)
      BY ZenonT(60), <1>1, <1>2, <2>3 DEF UnfinishedOn
    <3>2. \A q \in UnfinishedOn(other) : q \in Requests /\ journal'[q] = journal[q]
      BY ZenonT(60), <1>1 DEF UnfinishedOn, Unfinished
    <3> QED
      BY ZenonT(60), <1>9, <2>2, <3>1, <3>2, KeepsKey
  <2>4. CASE other = k
    <3>1. UnfinishedOn(k)' = {r}
      BY Zenon, <1>1, <1>2, <2>1, <2>4 DEF UnfinishedOn
    <3>2. kind # "remove" => keyring[k] = None
      BY Zenon, <2>1, <2>2, <2>4 DEF KeyAgrees
    <3>3. OperationAgrees(r)'
      <4>1. OperationOk(journal'[r], r, registry[k], keyring[k], 0, 0)
        BY Zenon, <1>2, <3>2, OkAtIntent
      <4> QED
        BY Zenon, <1>2, <1>9, <4>1, OperationForm
    <3> QED
      BY ZenonT(60), <2>4, <3>1, <3>3 DEF KeyAgrees
  <2> QED
    BY Zenon, <2>3, <2>4
<1> QED
  BY Zenon, <1>1, <1>5, <1>6, <1>7, <1>8, <1>10 DEF StoresFit

(***************************************************************************)
(* A step that changes neither store nor the journal, and leaves no more   *)
(* than before of the running command's steps, keeps the stores in order.  *)
(***************************************************************************)
LEMMA QuietKeeps ==
  ASSUME TypeInv, JournalFits, StoresFit, UNCHANGED <<keyring, registry, journal, spent, contested>>,
         \A r \in Unfinished : /\ CommandStage(r)' \in {0, CommandStage(r)}
                               /\ RecoveryStage(r)' \in {0, RecoveryStage(r)}
  PROVE  JournalFits' /\ StoresFit'
<1>1. JournalFits'
  BY SameJournalFits
<1>2. ASSUME NEW k \in Keys \ contested' PROVE KeyAgrees(k)'
  <2>1. KeyAgrees(k) /\ UnfinishedOn(k)' = UnfinishedOn(k)
    BY <1>2, SameJournal DEF StoresFit
  <2>2. \A r \in UnfinishedOn(k) : r \in Unfinished
    BY DEF UnfinishedOn
  <2> QED
    BY <2>1, <2>2, KeepsKey
<1> QED
  BY <1>1, <1>2 DEF StoresFit

LEMMA CommandKeeps ==
  ASSUME TypeInv, JournalFits, Fits, Command
  PROVE  JournalFits' /\ Fits'
<1>1. ASSUME NEW r \in Requests, NEW k \in Keys, Create(r, k) PROVE JournalFits' /\ Fits'
  <2>1. /\ Idle /\ BeginOperation(r, "create", k, selected, "absent") /\ Run("add", r, k)
        /\ registry[k] = "absent"
        /\ UNCHANGED <<keyring, registry, mode, late>> /\ active' = active
    BY Zenon, <1>1 DEF Create, stores, memory
  <2>2. selected \in Keys \cup {None} /\ "create" \in Kinds
    BY Zenon DEF TypeInv, TypeOK, Kinds
  <2> QED
    BY Zenon, <2>1, <2>2, BeginKeeps
<1>2. ASSUME NEW r \in Requests, NEW k \in Keys, Import(r, k) PROVE JournalFits' /\ Fits'
  <2>1. /\ Idle /\ Run("add", r, k)
        /\ registry[k] # "available"
        /\ UNCHANGED <<keyring, registry, mode, late>> /\ active' = active
    BY ZenonT(60), <1>2 DEF Import, stores, memory
  <2>2. PICK kind \in Kinds \ {"remove"} : BeginOperation(r, kind, k, selected, registry[k])
    BY Zenon, <1>2 DEF Import, Kinds
  <2>3. PICK avail \in {"absent", "available", "credential_missing"} : avail = registry[k]
    BY DEF TypeInv, TypeOK
  <2>4. PICK sel \in Keys \cup {None} : sel = selected
    BY Zenon DEF TypeInv, TypeOK
  <2> QED
    BY Zenon, <2>1, <2>2, <2>3, <2>4, BeginKeeps
<1>3. ASSUME NEW r \in Requests, NEW k \in Keys, Remove(r, k) PROVE JournalFits' /\ Fits'
  <2>1. /\ Idle /\ Run("remove", r, k)
        /\ UNCHANGED <<keyring, registry, mode, late>> /\ active' \in {active, None} /\ active' # k
    BY Zenon, <1>3, CustodyAssumption DEF Remove, stores
  <2>2. PICK sel \in Fallbacks(k) : BeginOperation(r, "remove", k, sel, registry[k])
    BY Zenon, <1>3 DEF Remove
  <2>3. sel \in Keys \cup {None} /\ "remove" \in Kinds
    BY Zenon, <2>2 DEF Fallbacks, Registered, TypeInv, TypeOK, Kinds
  <2>4. PICK avail \in {"absent", "available", "credential_missing"} : avail = registry[k]
    BY DEF TypeInv, TypeOK
  <2> QED
    BY Zenon, <2>1, <2>2, <2>3, <2>4, BeginKeeps
<1>4. ASSUME NEW k \in Keys, Select(k) \/ Activate(k) PROVE JournalFits' /\ Fits'
  <2>1. /\ Idle /\ k \in Registered /\ stage' = 0
        /\ UNCHANGED <<keyring, registry, journal, mode, active, late, spent, contested>>
    BY Zenon, <1>4 DEF Select, Activate, Run, stores, memory, history
  <2>2. PICK cmd \in {"select", "activate"} : task' = [cmd |-> cmd, req |-> None, key |-> k]
    BY <1>4 DEF Select, Activate, Run
  <2>3. task' # None /\ task'.cmd = cmd /\ task'.req = None /\ task'.key = k
    <3>1. task' \in Task
      BY <2>2 DEF Task
    <3> QED
      BY Zenon, <2>2, <3>1, CustodyAssumption
  <2>4. mode = "ready" /\ task = None
    BY Zenon, <2>1 DEF Idle
  <2>5. \A r \in Unfinished : r \in Requests /\ CommandStage(r)' = 0 /\ RecoveryStage(r)' = 0
    BY Zenon, <2>1, <2>4 DEF CommandStage, RecoveryStage, Unfinished
  <2>6. JournalFits' /\ StoresFit'
    BY Zenon, <2>1, <2>5, QuietKeeps DEF Fits
  <2>7. LateFits'
    <3>1. late # None => late.req \in Requests /\ late.req # None
      BY Zenon, CustodyAssumption DEF TypeInv, TypeOK, Mutation
    <3> QED
      BY Zenon, <2>1, <2>3, <3>1, SameJournal DEF LateFits, Fits
  <2>8. RecoveryFits'
    BY <2>1, <2>3, <2>4 DEF RecoveryFits
  <2>9. SessionFits' /\ ActiveHasCredential'
    BY <2>1, <2>3, <2>4 DEF SessionFits, ActiveHasCredential, Registered, Fits
  <2> QED
    BY Zenon, <2>6, <2>7, <2>8, <2>9 DEF Fits
<1>5. CASE SignOut
  <2>1. /\ mode = "ready" /\ task = None /\ active' = None
        /\ UNCHANGED <<keyring, registry, journal, mode, task, stage, late, spent, contested>>
    BY Zenon, <1>5 DEF SignOut, Idle, stores, history
  <2>2. \A r \in Unfinished : r \in Requests /\ CommandStage(r)' = 0 /\ RecoveryStage(r)' = 0
    BY <2>1 DEF CommandStage, RecoveryStage, Unfinished
  <2>3. JournalFits' /\ StoresFit'
    BY Zenon, <2>1, <2>2, QuietKeeps DEF Fits
  <2>4. LateFits' /\ RecoveryFits' /\ SessionFits' /\ ActiveHasCredential'
    BY Zenon, <2>1, SameJournal DEF LateFits, RecoveryFits, SessionFits, ActiveHasCredential, Fits
  <2> QED
    BY <2>3, <2>4 DEF Fits
<1> QED
  BY <1>1, <1>2, <1>3, <1>4, <1>5 DEF Command

(***************************************************************************)
(* The steps of a running addition or removal touch its own key only.      *)
(***************************************************************************)
LEMMA OtherStages ==
  ASSUME TypeInv, task # None, NEW r \in Unfinished, r # task.req
  PROVE  CommandStage(r) = 0 /\ RecoveryStage(r) = 0
BY Zenon DEF TypeInv, TaskFits, CommandStage, RecoveryStage

LEMMA StoreStepKeeps ==
  ASSUME TypeInv, JournalFits, Fits, task # None, task.cmd \in {"add", "remove"},
         UNCHANGED <<journal, mode, task, late, spent, contested>>,
         \A k \in Keys \ {task.key} : keyring'[k] = keyring[k] /\ registry'[k] = registry[k],
         OperationAgrees(task.req) => OperationAgrees(task.req)'
  PROVE  JournalFits' /\ StoresFit' /\ LateFits' /\ RecoveryFits'
<1>1. /\ task.key \in Keys /\ mode = "ready" /\ task.req \in Unfinished /\ task.req \in Requests
      /\ journal[task.req].key = task.key
  BY Zenon, RunningTask DEF TypeInv, TaskFits
<1>2. JournalFits'
  BY Zenon, SameJournalFits
<1>3. LateFits' /\ RecoveryFits'
  BY Zenon, <1>1, SameJournal DEF LateFits, RecoveryFits, Fits
<1>4. ASSUME NEW k \in Keys \ contested' PROVE KeyAgrees(k)'
  <2>1. KeyAgrees(k) /\ UnfinishedOn(k)' = UnfinishedOn(k)
    BY Zenon, <1>4, SameJournal DEF StoresFit, Fits
  <2>2. CASE k # task.key
    <3>1. ASSUME NEW r \in UnfinishedOn(k) PROVE CommandStage(r)' = 0 /\ RecoveryStage(r)' = 0
      <4>1. r \in Unfinished /\ r # task.req
        BY Zenon, <1>1, <2>2 DEF UnfinishedOn
      <4> QED
        BY Zenon, <1>1, <4>1 DEF CommandStage, RecoveryStage
    <3> QED
      BY Zenon, <2>1, <2>2, <3>1, KeepsKey
  <2>3. CASE k = task.key
    <3>1. task.req \in UnfinishedOn(k)
      BY Zenon, <1>1, <2>3 DEF UnfinishedOn
    <3>2. UnfinishedOn(k) = {task.req} /\ OperationAgrees(task.req)'
      BY Zenon, <2>1, <3>1 DEF KeyAgrees
    <3>3. UnfinishedOn(k)' = {task'.req} /\ task'.req = task.req
      BY Zenon, <2>1, <3>2
    <3> QED
      BY Zenon, <3>2, <3>3 DEF KeyAgrees
  <2> QED
    BY Zenon, <2>2, <2>3
<1> QED
  BY Zenon, <1>2, <1>3, <1>4 DEF StoresFit

\* The step counter of the running command.
LEMMA TaskStages ==
  ASSUME TypeInv, task # None, task.cmd \in {"add", "remove"}, UNCHANGED <<mode, task, journal>>
  PROVE  /\ CommandStage(task.req) = stage /\ CommandStage(task.req)' = stage'
         /\ RecoveryStage(task.req) = 0 /\ RecoveryStage(task.req)' = 0
         /\ stage \in {0, 1} /\ journal[task.req].key = task.key
         /\ journal[task.req].kind = "remove" <=> task.cmd = "remove"
         /\ task.req \in Requests /\ task.key \in Keys
BY RunningTask DEF TypeInv, TaskFits, CommandStage, RecoveryStage

LEMMA PutCredentialKeeps ==
  ASSUME TypeInv, JournalFits, Fits, PutCredential
  PROVE  JournalFits' /\ Fits'
<1>1. /\ task # None /\ task.cmd = "add" /\ stage' = 1
      /\ journal[task.req].phase = "intent_recorded"
      /\ keyring' = [keyring EXCEPT ![task.key] = task.req]
      /\ UNCHANGED <<registry, journal, mode, task, late, spent, contested, active>>
  BY Zenon DEF PutCredential, AddAt, Running, Phase, memory, history
<1>2. /\ CommandStage(task.req)' = 1 /\ RecoveryStage(task.req)' = 0
      /\ journal[task.req].key = task.key /\ journal[task.req].kind # "remove"
      /\ task.req \in Requests /\ task.key \in Keys
  BY Zenon, <1>1, TaskStages
<1>3. keyring'[task.key] = task.req /\ task.req # None
      /\ \A k \in Keys \ {task.key} : keyring'[k] = keyring[k]
  BY ZenonT(60), <1>1, <1>2, CustodyAssumption DEF TypeInv, TypeOK
<1>4. OperationAgrees(task.req) => OperationAgrees(task.req)'
  <2> SUFFICES ASSUME OperationAgrees(task.req) PROVE OperationAgrees(task.req)'
    OBVIOUS
  <2>1. PICK r : r = task.req
    OBVIOUS
  <2>2. OperationOk(journal[r], r, registry[task.key], keyring[task.key], CommandStage(r), RecoveryStage(r))
    BY Zenon, <1>2, <2>1, OperationForm
  <2>3. OperationOk(journal[r], r, registry[task.key], r, 1, 0)
    BY Zenon, <1>1, <1>2, <1>3, <2>1, <2>2, OkWhenPut
  <2>4. CommandStage(r)' = 1 /\ RecoveryStage(r)' = 0
    BY Zenon, <1>1, <1>2, <2>1
  <2>5. OperationAgrees(r)'
    BY Zenon, <1>1, <1>2, <1>3, <2>1, <2>3, <2>4, OperationForm
  <2> QED
    BY Zenon, <1>1, <2>1, <2>5
<1>5. JournalFits' /\ StoresFit' /\ LateFits' /\ RecoveryFits'
  BY Zenon, <1>1, <1>3, <1>4, StoreStepKeeps
<1>6. SessionFits' /\ ActiveHasCredential'
  BY Zenon, <1>1, <1>3 DEF SessionFits, ActiveHasCredential, Registered, Fits, TypeInv, TypeOK
<1> QED
  BY Zenon, <1>5, <1>6 DEF Fits

LEMMA SaveMetadataKeeps ==
  ASSUME TypeInv, JournalFits, Fits, SaveMetadata
  PROVE  JournalFits' /\ Fits'
<1>1. /\ task # None /\ task.cmd = "add" /\ stage' = 1
      /\ journal[task.req].phase = "credential_written"
      /\ registry' = [registry EXCEPT ![task.key] = "available"]
      /\ UNCHANGED <<keyring, journal, mode, task, late, spent, contested, active>>
  BY Zenon DEF SaveMetadata, AddAt, Running, Phase, memory, history
<1>2. /\ CommandStage(task.req)' = 1 /\ RecoveryStage(task.req)' = 0
      /\ journal[task.req].key = task.key /\ journal[task.req].kind # "remove"
      /\ task.req \in Requests /\ task.key \in Keys
  BY Zenon, <1>1, TaskStages
<1>3. registry'[task.key] = "available" /\ \A k \in Keys \ {task.key} : registry'[k] = registry[k]
  BY Zenon, <1>1, <1>2 DEF TypeInv, TypeOK
<1>4. OperationAgrees(task.req) => OperationAgrees(task.req)'
  BY ZenonT(60), <1>1, <1>2, <1>3 DEF OperationAgrees, AdditionAgrees
<1>5. JournalFits' /\ StoresFit' /\ LateFits' /\ RecoveryFits'
  BY ZenonT(60), <1>1, <1>3, <1>4, StoreStepKeeps
<1>6. SessionFits' /\ ActiveHasCredential'
  BY <1>1, <1>3 DEF SessionFits, ActiveHasCredential, Registered, Fits, TypeInv, TypeOK
<1> QED
  BY <1>5, <1>6 DEF Fits

LEMMA DeleteKeeps ==
  ASSUME TypeInv, JournalFits, Fits, DeleteCredential \/ DeleteMetadata
  PROVE  JournalFits' /\ Fits'
<1>1. /\ task # None /\ task.cmd = "remove" /\ stage' = 1
      /\ \/ journal[task.req].phase = "intent_recorded"
            /\ keyring' = [keyring EXCEPT ![task.key] = None] /\ registry' = registry
         \/ journal[task.req].phase = "credential_deleted"
            /\ registry' = [registry EXCEPT ![task.key] = "absent"] /\ keyring' = keyring
      /\ UNCHANGED <<journal, mode, task, late, spent, contested, active>>
  BY Zenon DEF DeleteCredential, DeleteMetadata, RemoveMetadata, RemoveAt, Running, Phase, memory, history
<1>2. /\ CommandStage(task.req)' = 1 /\ RecoveryStage(task.req)' = 0
      /\ journal[task.req].key = task.key /\ journal[task.req].kind = "remove"
      /\ task.req \in Requests /\ task.key \in Keys
  BY Zenon, <1>1, TaskStages
<1>3. \A k \in Keys \ {task.key} : keyring'[k] = keyring[k] /\ registry'[k] = registry[k]
  BY Zenon, <1>1, <1>2 DEF TypeInv, TypeOK
<1>4. OperationAgrees(task.req) => OperationAgrees(task.req)'
  BY ZenonT(60), <1>1, <1>2 DEF OperationAgrees, RemovalAgrees, TypeInv, TypeOK
<1>5. JournalFits' /\ StoresFit' /\ LateFits' /\ RecoveryFits'
  BY Zenon, <1>1, <1>3, <1>4, StoreStepKeeps
<1>6. active # None => active \in Keys \ {task.key}
  BY Zenon, <1>1 DEF SessionFits, Fits, TypeInv, TypeOK
<1>7. SessionFits' /\ ActiveHasCredential'
  BY Zenon, <1>1, <1>3, <1>6 DEF SessionFits, ActiveHasCredential, Registered, Fits
<1> QED
  BY Zenon, <1>5, <1>7 DEF Fits

\* A step of a command after its stores agree: the selection, the snapshot.
LEMMA SettledKeeps ==
  ASSUME TypeInv, JournalFits, Fits, task # None, task.cmd \in {"add", "remove"},
         journal[task.req].phase \in {"metadata_committed", "metadata_deleted", "selection_committed"},
         UNCHANGED <<keyring, registry, journal, mode, task, late, spent, contested>>,
         active' \in {active, None}
  PROVE  JournalFits' /\ Fits'
<1>1. RecoveryStage(task.req)' = 0 /\ journal[task.req].key = task.key
  BY Zenon, TaskStages
<1>2. OperationAgrees(task.req) => OperationAgrees(task.req)'
  BY ZenonT(60), <1>1 DEF OperationAgrees, AdditionAgrees, RemovalAgrees
<1>3. JournalFits' /\ StoresFit' /\ LateFits' /\ RecoveryFits'
  BY ZenonT(60), <1>2, StoreStepKeeps
<1>4. SessionFits' /\ ActiveHasCredential'
  BY DEF SessionFits, ActiveHasCredential, Registered, Fits
<1> QED
  BY Zenon, <1>3, <1>4 DEF Fits

\* A step of a selection or an activation, or the end of any command.
LEMMA QuietCommand ==
  ASSUME TypeInv, JournalFits, Fits, task # None,
         UNCHANGED <<keyring, registry, journal, mode, late, spent, contested>>,
         \/ task.cmd \in {"select", "activate"} /\ task' = task
         \/ task' = None /\ stage' = 0
  PROVE  JournalFits' /\ StoresFit' /\ LateFits' /\ RecoveryFits'
<1>1. mode = "ready" /\ task \in Task
  BY Zenon, RunningTask
<1>2. \A r \in Unfinished : r \in Requests /\ r # None
  BY ZenonT(60), CustodyAssumption DEF Unfinished
<1>3. \A r \in Unfinished : CommandStage(r)' = 0 /\ RecoveryStage(r)' = 0
  BY <1>1, <1>2 DEF TypeInv, TaskFits, CommandStage, RecoveryStage
<1>4. JournalFits' /\ StoresFit'
  BY <1>3, QuietKeeps DEF Fits
<1>5. LateFits'
  BY SameJournal DEF LateFits, Fits
<1>6. RecoveryFits'
  BY <1>1 DEF RecoveryFits
<1> QED
  BY Zenon, <1>4, <1>5, <1>6

LEMMA SelectionKeeps ==
  ASSUME TypeInv, JournalFits, Fits, SaveSelection \/ PublishRegistry \/ LoadCredential
  PROVE  JournalFits' /\ Fits'
<1>1. /\ task # None /\ UNCHANGED <<keyring, registry, journal, mode, task, late, spent, contested>>
      /\ active' \in {active, None}
  BY Zenon DEF SaveSelection, SelectionDue, PublishRegistry, LoadCredential, AddAt, RemoveAt, Running, stores, memory, history
<1>2. task \in Task
  BY Zenon, <1>1, RunningTask
<1>3. CASE task.cmd \in {"add", "remove"}
  <2>1. journal[task.req].phase \in {"metadata_committed", "metadata_deleted", "selection_committed"}
    BY Zenon, <1>3 DEF SaveSelection, SelectionDue, PublishRegistry, LoadCredential, AddAt, RemoveAt, Running, Phase
  <2> QED
    BY Zenon, <1>1, <1>3, <2>1, SettledKeeps
<1>4. CASE task.cmd \in {"select", "activate"}
  <2>1. JournalFits' /\ StoresFit' /\ LateFits' /\ RecoveryFits'
    BY Zenon, <1>1, <1>4, QuietCommand
  <2>2. active' = active /\ (task.cmd = "activate" /\ stage' > 0 => late = None /\ keyring[task.key] # None)
    <3>1. CASE SaveSelection
      BY SMTT(60), <1>4, <3>1 DEF SaveSelection, SelectionDue, AddAt, RemoveAt, Running, memory, SessionFits, Fits
    <3>2. CASE PublishRegistry \/ LoadCredential
      BY ZenonT(60), <1>4, <3>2 DEF PublishRegistry, LoadCredential, AddAt, RemoveAt, Running, memory
    <3> QED
      BY Zenon, <3>1, <3>2
  <2>3. SessionFits' /\ ActiveHasCredential'
    BY Zenon, <1>1, <2>2 DEF SessionFits, ActiveHasCredential, Registered, Fits
  <2> QED
    BY Zenon, <2>1, <2>3 DEF Fits
<1> QED
  BY Zenon, <1>2, <1>3, <1>4 DEF Task

LEMMA EndKeeps ==
  ASSUME TypeInv, JournalFits, Fits, PublishSelection \/ ActivationSucceeded \/ Refused
  PROVE  JournalFits' /\ Fits'
<1>1. task # None /\ task' = None /\ stage' = 0
      /\ UNCHANGED <<keyring, registry, journal, mode, late, spent, contested>>
  BY Zenon DEF PublishSelection, ActivationSucceeded, Refused, Done, AddAt, RemoveAt, Running, SelectionDue, stores, history
<1>2. JournalFits' /\ StoresFit' /\ LateFits' /\ RecoveryFits'
  BY Zenon, <1>1, QuietCommand
<1>3. mode = "ready" /\ task.key \in Keys
  BY Zenon, <1>1, RunningTask
<1>4. CASE ActivationSucceeded
  <2>1. active' = task.key /\ task.cmd = "activate" /\ stage = 2
    BY Zenon, <1>4 DEF ActivationSucceeded, Running
  <2>2. late = None /\ keyring[task.key] # None /\ task.key \in Registered
    BY SMTT(60), <1>1, <2>1 DEF SessionFits, Fits
  <2>3. SessionFits' /\ ActiveHasCredential'
    BY Zenon, <1>1, <1>3, <2>1, <2>2 DEF SessionFits, ActiveHasCredential, Registered
  <2> QED
    BY <1>2, <2>3 DEF Fits
<1>5. CASE PublishSelection \/ Refused
  <2>1. active' = active
    BY ZenonT(60), <1>5 DEF PublishSelection, Refused
  <2>2. SessionFits' /\ ActiveHasCredential'
    BY Zenon, <1>1, <2>1 DEF SessionFits, ActiveHasCredential, Registered, Fits
  <2> QED
    BY <1>2, <2>2 DEF Fits
<1> QED
  BY Zenon, <1>4, <1>5

(***************************************************************************)
(* The journal update of the running command.                              *)
(***************************************************************************)
LEMMA JournalKeeps ==
  ASSUME TypeInv, JournalFits, Fits, Journal
  PROVE  JournalFits' /\ Fits'
<1> DEFINE r == task.req
<1> DEFINE next == NextPhase(journal[r].kind, Phase(r))
<1>1. /\ task # None /\ task.cmd \in {"add", "remove"} /\ stage = 1 /\ Advance(r, next)
      /\ UNCHANGED <<keyring, registry, mode, active, late, spent, contested>>
  BY Zenon DEF Journal, Running, stores, memory, history
<1>2. /\ task \in Task /\ task.key \in Keys /\ mode = "ready" /\ r \in Unfinished /\ r \in Requests
      /\ journal[r] \in Operation
  BY Zenon, <1>1, RunningTask
<1>3. /\ journal[r].kind = "remove" <=> task.cmd = "remove"
      /\ journal[r].kind = "remove" => Phase(r) \in RemovePhases
      /\ journal[r].kind # "remove" => Phase(r) \in AddPhases
      /\ Phase(r) \in Phases \ Terminal /\ journal[r].kind \in Kinds
      /\ journal[r].key = task.key
  BY ZenonT(60), <1>1, <1>2, CustodyAssumption DEF TypeInv, PhasesFit, TaskFits, Unfinished, Operation, Phase
<1>4. PICK q \in Unfinished, phase \in Phases : q = r /\ phase = next /\ Advance(q, phase)
  BY Zenon, <1>1, <1>2, <1>3, NextPhaseFits
<1>5. /\ journal'[q].phase = phase /\ journal'[q].priorAvail = journal[q].priorAvail
      /\ journal'[q].kind = journal[q].kind /\ journal'[q].key = journal[q].key
      /\ \A other \in Requests \ {q} : journal'[other] = journal[other]
  <2>1. /\ journal'[q] = [journal[q] EXCEPT !.phase = phase]
        /\ journal'[q].phase = phase
        /\ journal'[q].kind = journal[q].kind /\ journal'[q].key = journal[q].key
        /\ \A other \in Requests \ {q} : journal'[other] = journal[other]
    BY <1>4, AdvanceEffect DEF TypeInv
  <2>2. journal'[q].priorAvail = journal[q].priorAvail
    BY Zenon, <1>2, <1>4, <2>1 DEF Operation
  <2> QED
    BY <2>1, <2>2
<1>6. /\ JournalFits'
      /\ Unfinished' = IF phase \in Terminal THEN Unfinished \ {q} ELSE Unfinished
  BY ZenonT(60), <1>1, <1>4, AdvanceJournalFits
<1>7. \/ Phase(r) = "selection_committed" /\ task' = None /\ stage' = 0
      \/ Phase(r) # "selection_committed" /\ task' = task /\ stage' = 0
  BY ZenonT(60) DEF Journal, Done
<1>8. LateFits'
  <2>1. late # None => late.req \in Unfinished \ {q} /\ late.req \in Requests
    BY ZenonT(60), <1>1, <1>4 DEF LateFits, Fits, Unfinished
  <2> QED
    BY ZenonT(60), <1>1, <1>5, <1>6, <1>7, <2>1 DEF LateFits, Fits
<1>9. RecoveryFits'
  BY Zenon, <1>1, <1>2, <1>7 DEF RecoveryFits
<1>10. SessionFits' /\ ActiveHasCredential'
  BY ZenonT(60), <1>1, <1>7 DEF SessionFits, ActiveHasCredential, Registered, Fits
<1>11. ASSUME NEW other \in Requests PROVE CommandStage(other)' = 0 /\ RecoveryStage(other)' = 0
  BY Zenon, <1>1, <1>2, <1>7 DEF CommandStage, RecoveryStage
<1>12. ASSUME NEW k \in Keys \ contested' PROVE KeyAgrees(k)'
  <2>1. KeyAgrees(k)
    BY ZenonT(60), <1>1, <1>12 DEF StoresFit, Fits
  <2>2. CASE k # task.key
    <3>1. UnfinishedOn(k)' = UnfinishedOn(k)
      BY ZenonT(60), <1>3, <1>4, <1>5, <1>6, <2>2 DEF UnfinishedOn, Unfinished
    <3>2. \A other \in UnfinishedOn(k) : other \in Requests \ {q}
      BY ZenonT(60), <1>3, <1>4, <2>2 DEF UnfinishedOn, Unfinished
    <3> QED
      BY ZenonT(60), <1>1, <1>5, <1>11, <2>1, <3>1, <3>2, KeepsKey
  <2>3. CASE k = task.key
    <3>1. q \in UnfinishedOn(k) /\ q \in Requests
      BY Zenon, <1>2, <1>3, <1>4, <2>3 DEF UnfinishedOn
    <3>2. UnfinishedOn(k) = {q} /\ OperationAgrees(q)
      BY Zenon, <2>1, <3>1 DEF KeyAgrees
    <3>3. CommandStage(q) = 1
      BY ZenonT(60), <1>1, <1>4 DEF CommandStage
    <3>4. UnfinishedOn(k)' = IF phase \in Terminal THEN {} ELSE {q}
      BY ZenonT(60), <1>3, <1>4, <1>5, <1>6, <2>3, <3>2 DEF UnfinishedOn, Unfinished
    <3>5. CASE journal[q].kind = "remove"
      <4>1. \/ journal[q].phase = "intent_recorded" /\ phase = "credential_deleted"
            \/ journal[q].phase = "credential_deleted" /\ phase = "metadata_deleted"
            \/ journal[q].phase = "metadata_deleted" /\ phase = "selection_committed"
            \/ journal[q].phase = "selection_committed" /\ phase = "completed"
        BY ZenonT(60), <1>3, <1>4, <3>5 DEF NextPhase, Phase, RemovePhases, Terminal
      <4>2. RemovalAgrees(q) /\ journal[q].key = k /\ RecoveryStage(q) \in Nat
        BY ZenonT(60), <1>3, <1>4, <2>3, <3>1, <3>2, <3>5, StageTypes DEF OperationAgrees
      <4>3. keyring[k] = None /\ (journal[q].phase # "intent_recorded" => registry[k] = "absent")
        <5>1. CommandStage(q) + RecoveryStage(q) > 0
          BY <3>3, <4>2
        <5> QED
          BY Zenon, <4>1, <4>2, <5>1 DEF RemovalAgrees
      <4>4. phase # "completed" => RemovalAgrees(q)'
        <5>1. phase # "completed" => RemovalOk(phase, registry[k], keyring[k], 0)
          BY <4>1, <4>3 DEF RemovalOk
        <5>2. CommandStage(q)' + RecoveryStage(q)' = 0
          BY <1>11, <3>1
        <5> QED
          BY Zenon, <1>1, <1>5, <4>2, <5>1, <5>2 DEF RemovalAgrees, RemovalOk
      <4> QED
        BY ZenonT(60), <1>1, <1>5, <3>4, <3>5, <4>1, <4>3, <4>4 DEF KeyAgrees, OperationAgrees, Terminal
    <3>6. CASE journal[q].kind # "remove"
      <4>1. \/ journal[q].phase = "intent_recorded" /\ phase = "credential_written"
            \/ journal[q].phase = "credential_written" /\ phase = "metadata_committed"
            \/ journal[q].phase = "metadata_committed" /\ phase = "selection_committed"
            \/ journal[q].phase = "selection_committed" /\ phase = "completed"
        BY ZenonT(60), <1>3, <1>4, <3>6 DEF NextPhase, Phase, AddPhases
      <4>2. AdditionAgrees(q) /\ journal[q].key = k
        BY ZenonT(60), <1>3, <1>4, <2>3, <3>2, <3>6 DEF OperationAgrees
      <4>3. /\ keyring[k] # None /\ journal[q].priorAvail # "available"
            /\ registry[k] \in {journal[q].priorAvail, "available"}
            /\ journal[q].phase # "intent_recorded" => registry[k] = "available"
        BY ZenonT(60), <3>3, <4>1, <4>2 DEF AdditionAgrees
      <4>4. phase # "completed" => AdditionAgrees(q)'
        <5>1. keyring[k] \in {None, q}
          BY Zenon, <4>2 DEF AdditionAgrees
        <5>2. phase # "completed" => AdditionOk(phase, journal[q].priorAvail, q, registry[k], keyring[k], 0, 0)
          BY <4>1, <4>3, <5>1 DEF AdditionOk
        <5>3. CommandStage(q)' = 0 /\ RecoveryStage(q)' = 0
          BY Zenon, <1>11, <3>1
        <5> QED
          BY Zenon, <1>1, <1>5, <4>2, <5>2, <5>3 DEF AdditionAgrees, AdditionOk
      <4> QED
        BY Zenon, <1>1, <1>5, <3>4, <3>6, <4>1, <4>3, <4>4 DEF KeyAgrees, OperationAgrees, Terminal
    <3> QED
      BY ZenonT(60), <3>5, <3>6
  <2> QED
    BY Zenon, <2>2, <2>3
<1> QED
  BY Zenon, <1>6, <1>8, <1>9, <1>10, <1>12 DEF Fits, StoresFit

(***************************************************************************)
(* Recovery runs alone: no command, no session, no late keyring call.      *)
(***************************************************************************)
LEMMA RecoveringAlone ==
  ASSUME TypeInv, Fits, mode = "recovering"
  PROVE  task = None /\ active = None /\ late = None
BY Zenon DEF TypeInv, TaskFits, Fits, SessionFits, LateFits

LEMMA StepsType ==
  ASSUME NEW kind, NEW phase
  PROVE  RecoverySteps(kind, phase) \in {0, 1, 3}
BY DEF RecoverySteps

LEMMA RecoverStoreKeeps ==
  ASSUME TypeInv, JournalFits, Fits, mode = "recovering", NEW c \in Unfinished, c = Current,
         UNCHANGED <<journal, mode, active, task, late, spent, contested>>,
         stage' <= RecoverySteps(journal[c].kind, journal[c].phase),
         \A k \in Keys \ {journal[c].key} : keyring'[k] = keyring[k] /\ registry'[k] = registry[k],
         OperationAgrees(c) => OperationAgrees(c)'
  PROVE  JournalFits' /\ Fits'
<1>1. task = None /\ active = None /\ late = None
  BY Zenon, RecoveringAlone
<1>2. Unfinished' = Unfinished /\ Current' = c /\ \A k \in Keys : UnfinishedOn(k)' = UnfinishedOn(k)
  BY Zenon, SameJournal
<1>3. JournalFits'
  BY Zenon, SameJournalFits
<1>4. LateFits' /\ SessionFits' /\ ActiveHasCredential'
  BY Zenon, <1>1 DEF LateFits, SessionFits, ActiveHasCredential
<1>5. RecoveryFits'
  BY ZenonT(60), <1>2 DEF RecoveryFits
<1>6. ASSUME NEW k \in Keys \ contested' PROVE KeyAgrees(k)'
  <2>1. KeyAgrees(k) /\ UnfinishedOn(k)' = UnfinishedOn(k)
    BY Zenon, <1>2, <1>6 DEF StoresFit, Fits
  <2>2. CASE k # journal[c].key
    <3>1. ASSUME NEW r \in UnfinishedOn(k) PROVE CommandStage(r)' = 0 /\ RecoveryStage(r)' = 0
      <4>1. r # c
        BY Zenon, <2>2 DEF UnfinishedOn
      <4> QED
        BY ZenonT(60), <1>1, <1>2, <4>1 DEF CommandStage, RecoveryStage
    <3> QED
      BY ZenonT(60), <2>1, <2>2, <3>1, KeepsKey
  <2>3. CASE k = journal[c].key
    <3>1. c \in UnfinishedOn(k)
      BY ZenonT(60), <2>3 DEF UnfinishedOn
    <3>2. UnfinishedOn(k)' = {c} /\ OperationAgrees(c)'
      BY <2>1, <3>1 DEF KeyAgrees
    <3> QED
      BY ZenonT(60), <3>2 DEF KeyAgrees
  <2> QED
    BY ZenonT(60), <2>2, <2>3
<1> QED
  BY Zenon, <1>3, <1>4, <1>5, <1>6 DEF Fits, StoresFit

\* The steps recovery takes in the stores, and what they leave there.
LEMMA RecoverStepKeeps ==
  ASSUME TypeInv, JournalFits, Fits, RecoverCredential \/ RecoverMetadata \/ RecoverSelection
  PROVE  JournalFits' /\ Fits'
<1> USE DEF Recovers
<1>1. /\ mode = "recovering" /\ Unfinished # {}
      /\ UNCHANGED <<journal, mode, active, task, late, spent, contested>>
  BY Zenon DEF RecoverCredential, RecoverMetadata, RecoverSelection, RecoverySelectionDue, memory, history
<1>2. PICK c \in Unfinished : /\ c = Current /\ c \in Requests /\ journal[c].key \in Keys
                              /\ journal[c] \in Operation
  BY <1>1, RecoveredOperation
<1>3. PICK k \in Keys : k = journal[c].key
  BY Zenon, <1>2
<1>4. /\ CommandStage(c) = 0 /\ CommandStage(c)' = 0
      /\ RecoveryStage(c) = stage /\ RecoveryStage(c)' = stage'
  BY Zenon, <1>1, <1>2, RecoveringAlone, SameJournal DEF CommandStage, RecoveryStage
<1>5. keyring \in [Keys -> Requests \cup {Legacy, None}]
      /\ registry \in [Keys -> {"absent", "available", "credential_missing"}]
  BY Zenon DEF TypeInv, TypeOK
<1>6. CASE RecoverCredential
  <2>1. /\ journal[c].phase \in {"intent_recorded", "compensation_pending"}
        /\ journal[c].phase = "compensation_pending" => journal[c].kind # "remove"
        /\ keyring' = [keyring EXCEPT ![k] = None] /\ registry' = registry /\ stage' = 1
    BY Zenon, <1>2, <1>3, <1>6 DEF RecoverCredential, Phase, Additions
  <2>2. keyring'[k] = None /\ \A other \in Keys \ {k} : keyring'[other] = keyring[other]
    BY Zenon, <1>5, <2>1
  <2>3. OperationAgrees(c) => OperationAgrees(c)'
    <3> SUFFICES ASSUME OperationAgrees(c) PROVE OperationAgrees(c)'
      OBVIOUS
    <3>1. OperationOk(journal[c], c, registry[k], keyring[k], 0, stage)
      BY Zenon, <1>3, <1>4, OperationForm
    <3>2. OperationOk(journal[c], c, registry[k], None, 0, 1)
      BY <2>1, <3>1, OkWhenRecoveryDeletes
    <3>3. OperationOk(journal'[c], c, registry'[journal'[c].key], keyring'[journal'[c].key],
                      CommandStage(c)', RecoveryStage(c)')
      BY <1>1, <1>3, <1>4, <2>1, <2>2, <3>2
    <3> QED
      BY Zenon, <3>3, OperationForm
  <2>4. stage' <= RecoverySteps(journal[c].kind, journal[c].phase)
    BY <2>1 DEF RecoverySteps
  <2> QED
    BY ZenonT(60), <1>1, <1>2, <1>3, <2>1, <2>2, <2>3, <2>4, RecoverStoreKeeps
<1>7. CASE RecoverMetadata
  <2>1. \/ /\ journal[c].kind = "remove" /\ journal[c].phase = "credential_deleted" /\ stage = 0
           /\ registry' = [registry EXCEPT ![k] = "absent"]
        \/ /\ journal[c].kind # "remove" /\ journal[c].phase = "compensation_pending" /\ stage = 1
           /\ registry' = IF journal[c].priorAvail = "absent" THEN [registry EXCEPT ![k] = "absent"]
                          ELSE [registry EXCEPT ![k] = IF @ = "absent" THEN @ ELSE journal[c].priorAvail]
    BY ZenonT(60), <1>2, <1>3, <1>7 DEF RecoverMetadata, RemoveMetadata, Phase, Additions
  <2>2. keyring' = keyring /\ stage' = stage + 1
    BY Zenon, <1>7 DEF RecoverMetadata
  <2>3. \A other \in Keys \ {k} : registry'[other] = registry[other]
    BY Zenon, <1>5, <2>1
  <2>4. OperationAgrees(c) => OperationAgrees(c)'
    <3>1. CASE journal[c].kind = "remove"
      BY ZenonT(60), <1>1, <1>3, <1>4, <1>5, <2>1, <2>2, <3>1 DEF OperationAgrees, RemovalAgrees
    <3>2. CASE journal[c].kind # "remove"
      <4>1. journal[c].phase = "compensation_pending" /\ stage = 1 /\ stage' = 2
        BY SMTT(60), <2>1, <2>2, <3>2
      <4>2. AdditionAgrees(c) => registry[k] = journal[c].priorAvail /\ keyring[k] = None
        BY SMTT(60), <1>3, <1>4, <4>1 DEF AdditionAgrees
      <4>3. AdditionAgrees(c) => registry'[k] = journal[c].priorAvail
        BY Zenon, <1>5, <2>1, <3>2, <4>2
      <4>4. AdditionAgrees(c) => AdditionAgrees(c)'
        BY Zenon, <1>1, <1>3, <1>4, <2>2, <4>1, <4>2, <4>3 DEF AdditionAgrees
      <4> QED
        BY Zenon, <1>1, <3>2, <4>4 DEF OperationAgrees
    <3> QED
      BY Zenon, <3>1, <3>2
  <2>5. stage' <= RecoverySteps(journal[c].kind, journal[c].phase)
    BY SMTT(60), <2>1, <2>2 DEF RecoverySteps
  <2> QED
    BY Zenon, <1>1, <1>2, <1>3, <2>2, <2>3, <2>4, <2>5, RecoverStoreKeeps
<1>8. CASE RecoverSelection
  <2>1. \/ journal[c].kind = "remove" /\ journal[c].phase = "metadata_deleted" /\ stage = 0
        \/ journal[c].kind # "remove" /\ journal[c].phase = "metadata_committed" /\ stage = 0
        \/ journal[c].kind # "remove" /\ journal[c].phase = "compensation_pending" /\ stage = 2
    BY Zenon, <1>2, <1>8 DEF RecoverSelection, RecoverySelectionDue, Phase, Additions
  <2>2. keyring' = keyring /\ registry' = registry /\ stage' = stage + 1
    BY Zenon, <1>8 DEF RecoverSelection
  <2>3. OperationAgrees(c) => OperationAgrees(c)'
    <3> SUFFICES ASSUME OperationAgrees(c) PROVE OperationAgrees(c)'
      OBVIOUS
    <3>1. OperationOk(journal[c], c, registry[k], keyring[k], 0, stage)
      BY Zenon, <1>3, <1>4, OperationForm
    <3>2. OperationOk(journal[c], c, registry[k], keyring[k], 0, stage + 1)
      BY Zenon, <2>1, <3>1, OkWhenRecoverySelects
    <3> QED
      BY Zenon, <1>1, <1>3, <1>4, <2>2, <3>2, OperationForm
  <2>4. stage' <= RecoverySteps(journal[c].kind, journal[c].phase)
    BY SMTT(60), <2>1, <2>2 DEF RecoverySteps
  <2> QED
    BY ZenonT(60), <1>1, <1>2, <1>3, <2>2, <2>3, <2>4, RecoverStoreKeeps
<1> QED
  BY Zenon, <1>6, <1>7, <1>8

(***************************************************************************)
(* The journal update of recovery: every phase it leaves promises what the *)
(* stores hold by then.                                                    *)
(***************************************************************************)
LEMMA RecoverJournalKeeps ==
  ASSUME TypeInv, JournalFits, Fits, RecoverJournal
  PROVE  JournalFits' /\ Fits'
<1>1. /\ mode = "recovering" /\ Unfinished # {} /\ stage' = 0
      /\ UNCHANGED <<keyring, registry, mode, active, task, late, spent, contested>>
  BY ZenonT(60) DEF RecoverJournal, stores, memory, history
<1>2. PICK c \in Unfinished :
        /\ c = Current /\ c \in Requests /\ journal[c] \in Operation
        /\ journal[c].key \in Keys /\ journal[c].phase \in Phases \ Terminal /\ journal[c].kind \in Kinds
        /\ journal[c].kind = "remove" => journal[c].phase \in RemovePhases
        /\ journal[c].kind # "remove" => journal[c].phase \in AddPhases \cup UndoPhases
  BY Zenon, <1>1, RecoveredOperation
<1>3. PICK k \in Keys : k = journal[c].key
  BY Zenon, <1>2
<1>4. PICK phase : /\ phase = RecoveryPhase(journal[c].kind, journal[c].phase, registry[k] = "available")
                   /\ Advance(c, phase) /\ stage = RecoverySteps(journal[c].kind, journal[c].phase)
  BY Zenon, <1>2, <1>3 DEF RecoverJournal
<1>5. journal[c].kind = "remove" =>
        \/ journal[c].phase = "intent_recorded" /\ phase = "credential_deleted" /\ stage = 1
        \/ journal[c].phase = "credential_deleted" /\ phase = "metadata_deleted" /\ stage = 1
        \/ journal[c].phase = "metadata_deleted" /\ phase = "selection_committed"
        \/ journal[c].phase = "selection_committed" /\ phase = "completed"
  BY Zenon, <1>2, <1>4 DEF RecoveryPhase, NextPhase, RecoverySteps, RemovePhases, Terminal
<1>6. journal[c].kind # "remove" => RecoveryMoves(journal[c].phase, phase, registry[k], stage)
  BY Zenon, <1>2, <1>4 DEF RecoveryPhase, RecoverySteps, AddPhases, UndoPhases, Terminal, RecoveryMoves
<1>7. phase \in Phases
  BY <1>5, <1>6 DEF Phases, RecoveryMoves
<1>8. /\ journal'[c].phase = phase /\ journal'[c].priorAvail = journal[c].priorAvail
      /\ journal'[c].kind = journal[c].kind /\ journal'[c].key = k
      /\ \A other \in Requests \ {c} : journal'[other] = journal[other]
  <2>1. /\ journal'[c] = [journal[c] EXCEPT !.phase = phase]
        /\ journal'[c].phase = phase
        /\ journal'[c].kind = journal[c].kind /\ journal'[c].key = journal[c].key
        /\ \A other \in Requests \ {c} : journal'[other] = journal[other]
    BY <1>4, <1>7, AdvanceEffect DEF TypeInv
  <2>2. journal'[c].priorAvail = journal[c].priorAvail
    BY Zenon, <1>2, <2>1 DEF Operation
  <2> QED
    BY <1>3, <2>1, <2>2
<1>9. /\ JournalFits'
      /\ Unfinished' = IF phase \in Terminal THEN Unfinished \ {c} ELSE Unfinished
  BY Zenon, <1>1, <1>4, <1>7, AdvanceJournalFits
<1>10. task = None /\ active = None /\ late = None
  BY Zenon, <1>1, RecoveringAlone
<1>11. LateFits' /\ SessionFits' /\ ActiveHasCredential'
  BY Zenon, <1>1, <1>10 DEF LateFits, SessionFits, ActiveHasCredential
<1>12. RecoveryFits'
  BY SMTT(60), <1>1, StepsType DEF RecoveryFits
<1>13. ASSUME NEW r \in Requests PROVE CommandStage(r)' = 0 /\ RecoveryStage(r)' = 0
  BY <1>1, <1>10 DEF CommandStage, RecoveryStage
<1>14. ASSUME NEW other \in Keys \ contested' PROVE KeyAgrees(other)'
  <2>1. KeyAgrees(other)
    BY Zenon, <1>1, <1>14 DEF StoresFit, Fits
  <2>2. CASE other # k
    <3>1. UnfinishedOn(other)' = UnfinishedOn(other)
      BY Zenon, <1>2, <1>3, <1>8, <1>9, <2>2 DEF UnfinishedOn, Unfinished
    <3>2. \A r \in UnfinishedOn(other) : r \in Requests \ {c}
      BY Zenon, <1>3, <2>2 DEF UnfinishedOn, Unfinished
    <3> QED
      BY Zenon, <1>1, <1>8, <1>13, <2>1, <3>1, <3>2, KeepsKey
  <2>3. CASE other = k
    <3>1. c \in UnfinishedOn(k)
      BY Zenon, <1>2, <1>3 DEF UnfinishedOn
    <3>2. UnfinishedOn(k) = {c} /\ OperationAgrees(c)
      BY Zenon, <2>1, <2>3, <3>1 DEF KeyAgrees
    <3>3. CommandStage(c) = 0 /\ RecoveryStage(c) = stage
      BY Zenon, <1>1, <1>2, <1>10 DEF CommandStage, RecoveryStage
    <3>4. CommandStage(c)' = 0 /\ RecoveryStage(c)' = 0
      BY Zenon, <1>2, <1>13
    <3>5. UnfinishedOn(k)' = IF phase \in Terminal THEN {} ELSE {c}
      BY ZenonT(60), <1>2, <1>3, <1>8, <1>9, <3>2 DEF UnfinishedOn, Unfinished
    <3>6. CASE journal[c].kind = "remove"
      <4>1. RemovalAgrees(c)
        BY ZenonT(60), <3>2, <3>6 DEF OperationAgrees
      <4>2. keyring[k] = None /\ (journal[c].phase # "intent_recorded" => registry[k] = "absent")
        BY SMTT(60), <1>3, <1>5, <3>3, <3>6, <4>1 DEF RemovalAgrees
      <4>3. phase # "completed" => RemovalAgrees(c)'
        BY SMTT(60), <1>1, <1>5, <1>8, <3>4, <3>6, <4>2 DEF RemovalAgrees
      <4> QED
        BY ZenonT(60), <1>1, <1>5, <1>8, <2>3, <3>5, <3>6, <4>2, <4>3 DEF KeyAgrees, OperationAgrees, Terminal
    <3>7. CASE journal[c].kind # "remove"
      <4>1. AdditionAgrees(c)
        BY Zenon, <3>2, <3>7 DEF OperationAgrees
      <4>2. /\ journal[c].priorAvail # "available" /\ keyring[k] \in {None, c}
            /\ phase \in {"failed", "credential_deleted"} => keyring[k] = None /\ registry[k] = journal[c].priorAvail
            /\ phase = "compensation_pending" => registry[k] = journal[c].priorAvail
            /\ phase \in {"metadata_committed", "selection_committed", "completed"} =>
                 keyring[k] # None /\ registry[k] = "available"
        <5>1. AdditionOk(journal[c].phase, journal[c].priorAvail, c, registry[k], keyring[k], 0, stage)
          BY Zenon, <1>3, <3>3, <4>1 DEF AdditionAgrees, AdditionOk
        <5>2. RecoveryMoves(journal[c].phase, phase, registry[k], stage)
          BY Zenon, <1>6, <3>7
        <5> QED
          BY SMTT(60), <5>1, <5>2, OkBeforeRecoveryMoves
      <4>3. phase \notin {"completed", "failed"} => AdditionAgrees(c)'
        BY SMTT(60), <1>1, <1>6, <1>8, <3>4, <3>7, <4>2 DEF AdditionAgrees, RecoveryMoves
      <4> QED
        BY ZenonT(60), <1>1, <1>6, <1>8, <2>3, <3>5, <3>7, <4>2, <4>3 DEF KeyAgrees, OperationAgrees, Terminal, RecoveryMoves
    <3> QED
      BY Zenon, <3>6, <3>7
  <2> QED
    BY Zenon, <2>2, <2>3
<1> QED
  BY Zenon, <1>9, <1>11, <1>12, <1>14 DEF Fits, StoresFit

(***************************************************************************)
(* A process that stops: the steps taken so far are forgotten, the phases  *)
(* are not.                                                                *)
(***************************************************************************)
LEMMA HaltKeeps ==
  ASSUME TypeInv, JournalFits, StoresFit, Halt, late' = None,
         UNCHANGED <<keyring, registry, journal, spent, contested>>
  PROVE  JournalFits' /\ Fits'
<1>1. mode' = "closed" /\ task' = None /\ stage' = 0 /\ active' = None
  BY DEF Halt, Done
<1>2. \A r \in Unfinished : CommandStage(r)' = 0 /\ RecoveryStage(r)' = 0
  BY <1>1 DEF CommandStage, RecoveryStage
<1>3. JournalFits' /\ StoresFit'
  BY Zenon, <1>2, QuietKeeps
<1>4. LateFits' /\ RecoveryFits' /\ SessionFits' /\ ActiveHasCredential'
  BY <1>1 DEF LateFits, RecoveryFits, SessionFits, ActiveHasCredential
<1> QED
  BY <1>3, <1>4 DEF Fits

LEMMA RecoveryKeeps ==
  ASSUME TypeInv, JournalFits, Fits, Recovery
  PROVE  JournalFits' /\ Fits'
<1>1. CASE Bootstrap \/ RecoveryFails
  <2>1. /\ mode = "recovering"
        /\ UNCHANGED <<keyring, registry, journal, late, spent, contested>>
    BY <1>1 DEF Bootstrap, RecoveryFails, stores, history
  <2>2. task = None /\ active = None /\ late = None
    BY Zenon, <2>1, RecoveringAlone
  <2>3. CASE Halt
    BY Zenon, <2>1, <2>2, <2>3, HaltKeeps DEF Fits
  <2>4. CASE ~ Halt
    <3>1. mode' = "ready" /\ Unfinished = {} /\ UNCHANGED <<active, task, stage>>
      BY Zenon, <1>1, <2>4 DEF Bootstrap, RecoveryFails
    <3>2. JournalFits' /\ StoresFit'
      BY Zenon, <2>1, <3>1, QuietKeeps DEF Fits
    <3>3. LateFits' /\ RecoveryFits' /\ SessionFits' /\ ActiveHasCredential'
      BY Zenon, <2>1, <2>2, <3>1 DEF LateFits, RecoveryFits, SessionFits, ActiveHasCredential, Fits
    <3> QED
      BY <3>2, <3>3 DEF Fits
  <2> QED
    BY Zenon, <2>3, <2>4
<1> QED
  BY <1>1, RecoverStepKeeps, RecoverJournalKeeps DEF Recovery

(***************************************************************************)
(* A keyring call that outlived its caller lands on a key whose operation  *)
(* is still at its intent, where nothing is promised of the keyring.       *)
(***************************************************************************)
LEMMA LandedKeeps ==
  ASSUME TypeInv, JournalFits, Fits, late # None, keyring' \in {keyring, Landed},
         UNCHANGED <<registry, journal, spent, contested>>,
         \A r \in Unfinished : /\ CommandStage(r)' \in {0, CommandStage(r)}
                               /\ RecoveryStage(r)' \in {0, RecoveryStage(r)}
  PROVE  JournalFits' /\ StoresFit'
<1>1. JournalFits'
  BY Zenon, SameJournalFits
<1>2. /\ late \in Mutation /\ late.key \in Keys /\ late.req \in Requests /\ late.req \in Unfinished
      /\ journal[late.req].key = late.key /\ journal[late.req].phase = "intent_recorded"
      /\ journal[late.req].kind = "remove" <=> late.cmd = "remove"
      /\ mode = "ready" /\ (task # None => task.req # late.req)
  BY Zenon DEF TypeInv, TypeOK, Mutation, LateFits, Fits
<1>3. \A k \in Keys \ {late.key} : keyring'[k] = keyring[k]
  BY Zenon, <1>2 DEF TypeInv, TypeOK, Landed
<1>4. late.cmd # "remove" => keyring'[late.key] \in {keyring[late.key], late.req}
  BY Zenon, <1>2 DEF TypeInv, TypeOK, Landed
<1>5. ASSUME NEW k \in Keys \ contested' PROVE KeyAgrees(k)'
  <2>1. KeyAgrees(k) /\ UnfinishedOn(k)' = UnfinishedOn(k)
    BY Zenon, <1>5, SameJournal DEF StoresFit, Fits
  <2>2. CASE k # late.key
    <3>1. \A r \in UnfinishedOn(k) : r \in Unfinished
      BY Zenon DEF UnfinishedOn
    <3> QED
      BY Zenon, <1>3, <2>1, <2>2, <3>1, KeepsKey
  <2>3. CASE k = late.key
    <3>1. PICK r \in UnfinishedOn(k) : r = late.req
      BY Zenon, <1>2, <2>3 DEF UnfinishedOn
    <3>2. UnfinishedOn(k)' = {r} /\ OperationAgrees(r)
      BY Zenon, <2>1 DEF KeyAgrees
    <3>3. CommandStage(r) = 0 /\ RecoveryStage(r) = 0
      BY Zenon, <1>2, <3>1 DEF CommandStage, RecoveryStage
    <3>4. CommandStage(r)' = 0 /\ RecoveryStage(r)' = 0 /\ journal[r].phase = "intent_recorded"
      BY Zenon, <1>2, <3>1, <3>3
    <3>5. journal[r].kind # "remove" => keyring'[k] \in {keyring[k], r}
      BY Zenon, <1>2, <1>4, <2>3, <3>1
    <3>6. journal[r].key = k
      BY Zenon DEF UnfinishedOn
    <3>7. OperationAgrees(r)'
      <4>1. OperationOk(journal[r], r, registry[k], keyring[k], 0, 0)
        BY Zenon, <3>2, <3>3, <3>6, OperationForm
      <4>2. journal[r].kind # "remove" =>
              /\ registry[k] = journal[r].priorAvail /\ journal[r].priorAvail # "available"
              /\ keyring[k] \in {None, r}
        BY Zenon, <3>4, <4>1 DEF OperationOk, AdditionOk
      <4>3. journal[r].kind # "remove" => keyring'[k] \in {None, r}
        BY Zenon, <3>5, <4>2
      <4>4. OperationOk(journal[r], r, registry[k], keyring'[k], 0, 0)
        BY Zenon, <3>4, <4>2, <4>3, OkAtIntent
      <4> QED
        BY Zenon, <3>4, <3>6, <4>4, OperationForm
    <3> QED
      BY ZenonT(60), <3>2, <3>7 DEF KeyAgrees
  <2> QED
    BY Zenon, <2>2, <2>3
<1> QED
  BY <1>1, <1>5 DEF StoresFit

LEMMA AbandonKeeps ==
  ASSUME TypeInv, JournalFits, Fits, Abandon
  PROVE  JournalFits' /\ Fits'
<1>1. /\ task # None /\ task' = None /\ stage' = 0 /\ mode = "ready" /\ late' \in {late} \cup InFlight
      /\ UNCHANGED <<keyring, registry, journal, mode, active, spent, contested>>
  BY DEF Abandon, Done, stores, history
<1>2. \A r \in Unfinished : CommandStage(r)' = 0 /\ RecoveryStage(r)' = 0
  BY <1>1 DEF CommandStage, RecoveryStage
<1>3. JournalFits' /\ StoresFit'
  BY <1>1, <1>2, QuietKeeps DEF Fits
<1>4. RecoveryFits' /\ ActiveHasCredential'
  BY <1>1 DEF RecoveryFits, ActiveHasCredential, Registered, Fits
<1>5. CASE late' = late
  <2>1. LateFits' /\ SessionFits'
    BY Zenon, <1>1, <1>5, SameJournal DEF LateFits, SessionFits, Fits
  <2> QED
    BY Zenon, <1>3, <1>4, <2>1 DEF Fits
<1>6. CASE late' \in InFlight
  <2>1. /\ task.cmd \in {"add", "remove"} /\ journal[task.req].phase = "intent_recorded"
        /\ late' = [cmd |-> task.cmd, req |-> task.req, key |-> task.key]
    BY ZenonT(60), <1>6 DEF InFlight, AddAt, RemoveAt, Running, Phase
  <2>2. /\ task.req \in Unfinished /\ journal[task.req].key = task.key
        /\ journal[task.req].kind = "remove" <=> task.cmd = "remove"
    BY ZenonT(60), <1>1, <2>1 DEF TypeInv, TaskFits
  <2>3. late'.cmd = task.cmd /\ late'.req = task.req /\ late'.key = task.key
    BY ZenonT(60), <2>1
  <2>4. LateFits'
    BY Zenon, <1>1, <2>1, <2>2, <2>3, SameJournal DEF LateFits
  <2>5. SessionFits'
    BY <1>1, <2>3 DEF SessionFits, Fits
  <2> QED
    BY Zenon, <1>3, <1>4, <2>4, <2>5 DEF Fits
<1> QED
  BY <1>1, <1>5, <1>6

LEMMA LifecycleKeeps ==
  ASSUME TypeInv, JournalFits, Fits, LateCompletion \/ Crash \/ Close \/ Open
  PROVE  JournalFits' /\ Fits'
<1>1. CASE LateCompletion
  <2>1. /\ late # None /\ late' = None /\ keyring' \in {keyring, Landed}
        /\ UNCHANGED <<registry, journal, mode, active, task, stage, spent, contested>>
    BY Zenon, <1>1 DEF LateCompletion, memory, history
  <2>2. \A r \in Unfinished : /\ CommandStage(r)' = CommandStage(r)
                              /\ RecoveryStage(r)' = RecoveryStage(r)
    BY Zenon, <2>1, SameJournal DEF CommandStage, RecoveryStage
  <2>3. JournalFits' /\ StoresFit'
    BY Zenon, <2>1, <2>2, LandedKeeps
  <2>4. LateFits' /\ RecoveryFits'
    BY Zenon, <2>1, SameJournal DEF LateFits, RecoveryFits, Fits
  <2>5. late.key \in Keys /\ late.req # None
    BY Zenon, <2>1, CustodyAssumption DEF TypeInv, TypeOK, Mutation
  <2>6. active # None => keyring'[active] # None
    <3>1. active # None => active \in Keys /\ keyring[active] # None /\ (late.cmd = "remove" => late.key # active)
      BY <2>1 DEF ActiveHasCredential, SessionFits, Fits, TypeInv, TypeOK
    <3> QED
      BY <2>1, <2>5, <3>1 DEF Landed, TypeInv, TypeOK
  <2>7. ~ (task # None /\ task.cmd = "activate" /\ stage > 0)
    BY Zenon, <2>1 DEF SessionFits, Fits
  <2>8. SessionFits' /\ ActiveHasCredential'
    BY <2>1, <2>6, <2>7 DEF SessionFits, ActiveHasCredential, Registered, Fits
  <2> QED
    BY Zenon, <2>3, <2>4, <2>8 DEF Fits
<1>2. CASE Crash
  <2>1. /\ Halt /\ late' = None /\ keyring' \in {keyring, Landed}
        /\ UNCHANGED <<registry, journal, spent, contested>>
    BY Zenon, <1>2 DEF Crash, history
  <2>2. CASE keyring' = keyring
    BY <2>1, <2>2, HaltKeeps DEF Fits
  <2>3. CASE keyring' # keyring
    <3>1. late # None
      BY <2>1, <2>3 DEF Landed
    <3>2. mode' = "closed" /\ task' = None /\ stage' = 0 /\ active' = None
      BY <2>1 DEF Halt, Done
    <3>3. \A r \in Unfinished : CommandStage(r)' = 0 /\ RecoveryStage(r)' = 0
      BY Zenon, <3>2 DEF CommandStage, RecoveryStage
    <3>4. JournalFits' /\ StoresFit'
      BY Zenon, <2>1, <3>1, <3>3, LandedKeeps
    <3>5. LateFits' /\ RecoveryFits' /\ SessionFits' /\ ActiveHasCredential'
      BY Zenon, <2>1, <3>2 DEF LateFits, RecoveryFits, SessionFits, ActiveHasCredential
    <3> QED
      BY Zenon, <3>4, <3>5 DEF Fits
  <2> QED
    BY Zenon, <2>2, <2>3
<1>3. CASE Close
  <2>1. Halt /\ late' = None /\ UNCHANGED <<keyring, registry, journal, spent, contested>>
    BY <1>3 DEF Close, stores, history
  <2> QED
    BY Zenon, <2>1, HaltKeeps DEF Fits
<1>4. CASE Open
  <2>1. /\ UNCHANGED <<keyring, registry, journal, active, task, stage, late, spent, contested>>
        /\ mode = "closed" /\ mode' = "recovering"
    BY Zenon, <1>4 DEF Open, stores, memory, history
  <2>2. task = None /\ active = None /\ late = None /\ stage = 0
    BY Zenon, <2>1 DEF TypeInv, TaskFits, Fits, SessionFits, LateFits, RecoveryFits
  <2>3. \A r \in Unfinished : CommandStage(r)' = 0 /\ RecoveryStage(r)' = 0
    BY Zenon, <2>1, <2>2 DEF CommandStage, RecoveryStage
  <2>4. JournalFits' /\ StoresFit'
    BY Zenon, <2>1, <2>3, QuietKeeps DEF Fits
  <2>5. LateFits' /\ SessionFits' /\ ActiveHasCredential'
    BY Zenon, <2>1, <2>2 DEF LateFits, SessionFits, ActiveHasCredential
  <2>6. RecoveryFits'
    BY SMTT(60), <2>1, <2>2, StepsType DEF RecoveryFits
  <2> QED
    BY Zenon, <2>4, <2>5, <2>6 DEF Fits
<1> QED
  BY Zenon, <1>1, <1>2, <1>3, <1>4

LEMMA CustodyStep == CustodyInv /\ [Next]_vars => CustodyInv'
<1> SUFFICES ASSUME CustodyInv, [Next]_vars PROVE CustodyInv'
  OBVIOUS
<1>0. TypeInv /\ JournalFits /\ Fits /\ TypeInv'
  BY InvParts, TypeStep
<1> SUFFICES JournalFits' /\ Fits'
  BY <1>0, InvParts, PTL
<1>1. CASE UNCHANGED vars
  <2>1. UNCHANGED <<keyring, registry, journal, mode, active, task, stage, late, spent, contested>>
    BY Zenon, <1>1 DEF vars, stores, memory, history
  <2>2. \A r \in Unfinished : /\ CommandStage(r)' = CommandStage(r)
                              /\ RecoveryStage(r)' = RecoveryStage(r)
    BY Zenon, <2>1, SameJournal DEF CommandStage, RecoveryStage
  <2>3. JournalFits' /\ StoresFit'
    BY Zenon, <1>0, <2>1, <2>2, QuietKeeps DEF Fits
  <2>4. LateFits' /\ RecoveryFits' /\ SessionFits' /\ ActiveHasCredential'
    BY Zenon, <1>0, <2>1, SameJournal DEF LateFits, RecoveryFits, SessionFits, ActiveHasCredential, Registered, Fits
  <2> QED
    BY Zenon, <2>3, <2>4 DEF Fits
<1>2. CASE CommandStep
  BY Zenon, <1>0, <1>2, PutCredentialKeeps, SaveMetadataKeeps, DeleteKeeps, SelectionKeeps, JournalKeeps, EndKeeps DEF CommandStep
<1> QED
  BY Zenon, <1>0, <1>1, <1>2, CommandKeeps, RecoveryKeeps, AbandonKeeps, LifecycleKeeps DEF Next

LEMMA CustodyInit == ASSUME Init PROVE CustodyInv
<1>1. TypeOK
  BY Zenon, TypeInit
<1>2. /\ \A r \in Requests : journal[r] = None
      /\ mode = "closed" /\ task = None /\ late = None /\ active = None /\ stage = 0
      /\ spent = {} /\ contested = {}
  BY DEF Init
<1>3. Unfinished = {} /\ Finalized = {}
  BY Zenon, <1>2 DEF Unfinished, Finalized
<1>4. PhasesFit /\ TaskFits /\ LateFits /\ RecoveryFits /\ SessionFits /\ ActiveHasCredential
  BY Zenon, <1>2 DEF PhasesFit, TaskFits, LateFits, RecoveryFits, SessionFits, ActiveHasCredential
<1>5. JournalFits
  <2>1. IsFiniteSet({}) /\ Cardinality({}) = 0 /\ {} \cup {} = {}
    BY Zenon, FS_EmptySet
  <2> QED
    BY SMTT(60), <1>2, <1>3, <2>1, CustodyAssumption DEF JournalFits
<1>6. UncontestedAgrees /\ CustodyAgrees
  BY <1>3, CustodyAssumption DEF UncontestedAgrees, CustodyAgrees, UnfinishedOn, Init, Legacy
<1> QED
  BY <1>1, <1>4, <1>5, <1>6 DEF CustodyInv

(***************************************************************************)
(* Whatever fails, misses its deadline or crashes, the keyring and the     *)
(* registry are at every step where the journalled phase says, so recovery *)
(* may resume from the phase alone; they agree on every key that nothing   *)
(* unfinished touches, and the active identity has its credential.         *)
(***************************************************************************)
THEOREM CustodyInvariant == Spec => []CustodyInv
BY CustodyInit, CustodyStep, PTL DEF Spec

(***************************************************************************)
(* Only a removal takes away the credential of a finished addition.        *)
(***************************************************************************)
\* The steps that write the keyring.
LEMMA KeyringSteps ==
  ASSUME [Next]_vars, keyring' # keyring
  PROVE  PutCredential \/ DeleteCredential \/ RecoverCredential \/ LateCompletion \/ Crash
<1>1. Next
  BY Zenon DEF vars, stores
<1>2. ~ Command
  BY ZenonT(60) DEF Command, Create, Import, Remove, Select, Activate, SignOut, stores
<1>3. CommandStep => PutCredential \/ DeleteCredential
  BY ZenonT(60) DEF CommandStep, SaveMetadata, DeleteMetadata, SaveSelection, Journal, PublishRegistry,
         PublishSelection, LoadCredential, ActivationSucceeded, Refused, stores
<1>4. Recovery => RecoverCredential
  BY Zenon DEF Recovery, RecoverMetadata, RecoverSelection, RecoverJournal, Bootstrap, RecoveryFails, stores
<1>5. ~ Abandon /\ ~ Close /\ ~ Open
  BY Zenon DEF Abandon, Close, Open, stores
<1> QED
  BY Zenon, <1>1, <1>2, <1>3, <1>4, <1>5 DEF Next

\* What a keyring deletion was done for.
LEMMA DeletionHasReason ==
  ASSUME CustodyInv, [Next]_vars, NEW k \in Keys, k \notin contested,
         keyring[k] # None, keyring'[k] = None, keyring[k] \notin Unfinished
  PROVE  \E r \in Unfinished : journal[r].key = k /\ journal[r].kind = "remove"
<1>1. TypeInv /\ Fits /\ keyring \in [Keys -> Requests \cup {Legacy, None}]
  BY InvParts DEF TypeInv, TypeOK
<1>2. KeyAgrees(k)
  BY Zenon, <1>1 DEF Fits, StoresFit
<1>3. CASE PutCredential
  <2>1. task # None /\ AddAt("intent_recorded", 0) /\ keyring' = [keyring EXCEPT ![task.key] = task.req]
    BY Zenon, <1>3 DEF PutCredential, AddAt, Running
  <2>2. task.req \in Requests /\ task.key \in Keys /\ task.req # None
    BY ZenonT(60), <1>1, <2>1, RunningTask, CustodyAssumption DEF AddAt, Running
  <2> QED
    BY Zenon, <1>1, <2>1, <2>2
<1>4. CASE DeleteCredential
  <2>1. task # None /\ task.cmd = "remove" /\ keyring' = [keyring EXCEPT ![task.key] = None]
    BY <1>4 DEF DeleteCredential, RemoveAt, Running
  <2>2. task.req \in Unfinished /\ journal[task.req].key = task.key /\ journal[task.req].kind = "remove"
    BY Zenon, <1>1, <2>1 DEF TypeInv, TaskFits
  <2>3. task.key = k
    BY Zenon, <1>1, <2>1
  <2> QED
    BY <2>2, <2>3
<1>5. CASE LateCompletion \/ Crash
  <2>1. keyring' = Landed
    BY Zenon, <1>5 DEF LateCompletion, Crash
  <2>2. late # None
    BY Zenon, <2>1 DEF Landed
  <2>3. /\ late.req \in Unfinished /\ journal[late.req].key = late.key
        /\ journal[late.req].kind = "remove" <=> late.cmd = "remove"
        /\ late.key \in Keys /\ late.req # None
    BY ZenonT(60), <1>1, <2>2, CustodyAssumption DEF Fits, LateFits, TypeInv, TypeOK, Mutation
  <2>4. late.cmd = "remove" /\ late.key = k
    BY Zenon, <1>1, <2>1, <2>2, <2>3 DEF Landed
  <2> QED
    BY Zenon, <2>3, <2>4
<1>6. CASE RecoverCredential
  <2>1. /\ mode = "recovering" /\ Unfinished # {}
        /\ keyring' = [keyring EXCEPT ![journal[Current].key] = None]
    BY Zenon, <1>6 DEF RecoverCredential, Recovers
  <2>2. PICK c \in Unfinished : c = Current /\ c \in Requests /\ journal[c].key \in Keys
    BY Zenon, <1>1, <2>1, RecoveredOperation
  <2>3. journal[c].key = k
    BY Zenon, <1>1, <2>1, <2>2
  <2>4. OperationAgrees(c)
    BY Zenon, <1>2, <2>3 DEF KeyAgrees, UnfinishedOn
  <2>5. journal[c].kind # "remove" => keyring[k] = c
    BY Zenon, <2>3, <2>4 DEF OperationAgrees, AdditionAgrees
  <2> QED
    BY Zenon, <2>3, <2>5
<1> QED
  BY Zenon, <1>3, <1>4, <1>5, <1>6, KeyringSteps

LEMMA ContestedGrows == ASSUME [Next]_vars PROVE contested \subseteq contested'
<1>1. CASE Command
  BY ZenonT(60), <1>1 DEF Command, Create, Import, Remove, BeginOperation, Select, Activate, SignOut, history
<1>2. CASE CommandStep
  BY Zenon, <1>2 DEF CommandStep, PutCredential, SaveMetadata, DeleteCredential, DeleteMetadata, SaveSelection,
              Journal, PublishRegistry, PublishSelection, LoadCredential, ActivationSucceeded, Refused, history
<1>3. CASE Recovery
  BY ZenonT(60), <1>3 DEF Recovery, RecoverCredential, RecoverMetadata, RecoverSelection, RecoverJournal, Bootstrap,
              RecoveryFails, history
<1>4. CASE Abandon \/ LateCompletion \/ Crash \/ Close \/ Open \/ UNCHANGED vars
  BY <1>4 DEF Abandon, LateCompletion, Crash, Close, Open, vars, history
<1> QED
  BY Zenon, <1>1, <1>2, <1>3, <1>4 DEF Next

\* No step takes the credential of a finished addition out of the keyring
\* but for a removal of its identity that is under way, unless operations on
\* the key overlapped: recovery and compensation delete only what their own
\* request wrote.
THEOREM RemovalsAloneDelete == Spec => OnlyRemovalDeletes
<1>1. CustodyInv /\ [Next]_vars
        => [\A k \in Keys \ contested' :
              keyring[k] # None /\ keyring[k] \notin Unfinished /\ keyring'[k] = None
                => \E r \in Unfinished : journal[r].key = k /\ journal[r].kind = "remove"]_vars
  <2> SUFFICES ASSUME CustodyInv, [Next]_vars, NEW k \in Keys \ contested',
                      keyring[k] # None, keyring[k] \notin Unfinished, keyring'[k] = None
               PROVE  \E r \in Unfinished : journal[r].key = k /\ journal[r].kind = "remove"
    BY Zenon
  <2>1. k \notin contested
    BY Zenon, ContestedGrows
  <2> QED
    BY Zenon, <2>1, DeletionHasReason
<1> QED
  BY Zenon, <1>1, CustodyInvariant, PTL DEF Spec, OnlyRemovalDeletes

(***************************************************************************)
(* Operations that never overlapped leave a selection to come back to.     *)
(***************************************************************************)
\* The part of RestoreInv that a begun overlap voids.
SerialFits ==
  /\ contested = {}
  /\ \A q, r \in Unfinished : q = r
  /\ \A r \in Unfinished : SelectionAgrees(r)
  /\ Unfinished = {} => ValidSnapshot(Registered, selected)
  /\ mode = "ready" /\ Unfinished = {} => SnapshotFits

\* What the running addition or removal has published.
PublishedFits ==
  task # None /\ task.cmd \in {"add", "remove"} /\ stage = 1
    /\ Phase(task.req) = "selection_committed" => SnapshotFits

SelectedFits == selected # None => selected \in Registered

LEMMA RestoreParts ==
  RestoreInv <=> SelectedFits /\ (overlapped = {} => SerialFits /\ PublishedFits)
BY Zenon DEF RestoreInv, SelectedFits, SerialFits, PublishedFits

Staged(r) == CommandStage(r) + RecoveryStage(r) > 0

\* A step of neither the registry nor the journal.
LEMMA StepRestores ==
  ASSUME RestoreInv, UNCHANGED <<registry, journal, contested, overlapped>>,
         selected' # None => selected' \in Registered,
         overlapped = {} /\ ValidSnapshot(Registered, selected) => ValidSnapshot(Registered, selected'),
         \A r \in Unfinished :
           overlapped = {} /\ journal[r].phase \in {"metadata_committed", "metadata_deleted"} /\ Staged(r)'
             => Staged(r) \/ ValidSnapshot(Registered, selected'),
         overlapped = {} /\ mode' = "ready" /\ Unfinished = {} => SnapshotFits',
         overlapped = {} => PublishedFits'
  PROVE  RestoreInv'
<1>1. Unfinished' = Unfinished /\ Registered' = Registered
  BY Zenon, SameJournal DEF Registered
<1>2. SelectedFits'
  BY Zenon, <1>1 DEF SelectedFits
<1>3. ASSUME overlapped = {} PROVE SerialFits'
  <2>1. SerialFits
    BY Zenon, <1>3, RestoreParts
  <2>2. ASSUME NEW r \in Unfinished PROVE SelectionAgrees(r)'
    <3>1. SelectionAgrees(r) /\ SettledWithout(r)' = SettledWithout(r)
      BY ZenonT(60), <1>1, <2>1 DEF SerialFits, SettledWithout
    <3> QED
      BY ZenonT(60), <1>1, <1>3, <3>1 DEF SelectionAgrees, Staged, ValidSnapshot
  <2>3. Unfinished = {} => ValidSnapshot(Registered, selected)'
    BY Zenon, <1>1, <1>3, <2>1 DEF SerialFits, ValidSnapshot
  <2> QED
    BY ZenonT(60), <1>1, <1>3, <2>1, <2>2, <2>3 DEF SerialFits
<1> QED
  BY ZenonT(60), <1>2, <1>3 DEF RestoreInv, SelectedFits, SerialFits, PublishedFits

(***************************************************************************)
(* Beginning an operation.                                                 *)
(***************************************************************************)
LEMMA BeginRestores ==
  ASSUME TypeInv, JournalFits, RestoreInv, Idle,
         NEW r \in Requests, NEW k \in Keys, NEW kind \in Kinds,
         NEW sel \in Keys \cup {None}, NEW cmd \in {"add", "remove"},
         NEW avail \in {"absent", "available", "credential_missing"},
         BeginOperation(r, kind, k, sel, avail), Run(cmd, r, k),
         UNCHANGED <<registry, selected, snapIds, snapSel, mode>>,
         SnapshotFits /\ ValidSnapshot(Registered, selected)
           => ValidSnapshot(IF kind \in Additions /\ avail # "absent"
                            THEN Registered ELSE Registered \ {k}, sel)
  PROVE  RestoreInv'
<1>1. /\ r \notin Unfinished /\ Unfinished' = Unfinished \cup {r}
  BY SMTT(60), BeginJournalFits
<1>2. /\ journal'[r].kind = kind /\ journal'[r].key = k
      /\ journal'[r].priorSel = sel /\ journal'[r].priorAvail = avail
  BY SMTT(60), BeginEffect DEF TypeInv
<1>3. mode = "ready" /\ mode' = "ready" /\ stage' = 0
  BY DEF Idle, Run
<1>4. Registered' = Registered
  BY Zenon DEF Registered
<1>5. SelectedFits' /\ PublishedFits'
  BY SMTT(60), <1>3, <1>4, RestoreParts DEF SelectedFits, PublishedFits
<1>6. ASSUME overlapped' = {} PROVE SerialFits'
  <2>1. overlapped = {} /\ Unfinished = {}
    BY ZenonT(60), <1>6 DEF BeginOperation
  <2>2. contested = {} /\ ValidSnapshot(Registered, selected) /\ SnapshotFits
    BY Zenon, <1>3, <2>1, RestoreParts DEF SerialFits
  <2>3. contested' = {} /\ Unfinished' = {r}
    BY ZenonT(60), <1>1, <2>1, <2>2 DEF BeginOperation, UnfinishedOn
  <2>4. SelectionAgrees(r)'
    <3>1. SettledWithout(r)' = IF kind \in Additions /\ avail # "absent" THEN Registered ELSE Registered \ {k}
      BY ZenonT(60), <1>2, <1>4 DEF SettledWithout
    <3> QED
      BY ZenonT(60), <1>2, <1>4, <2>2, <3>1 DEF SelectionAgrees, ValidSnapshot
  <2> QED
    BY Zenon, <2>3, <2>4 DEF SerialFits
<1> QED
  BY Zenon, <1>5, <1>6 DEF RestoreInv, SelectedFits, SerialFits, PublishedFits

LEMMA CommandRestores ==
  ASSUME TypeInv, JournalFits, RestoreInv, Command
  PROVE  RestoreInv'
<1>1. ASSUME NEW r \in Requests, NEW k \in Keys, Create(r, k) \/ Import(r, k) PROVE RestoreInv'
  <2>1. /\ Idle /\ Run("add", r, k)
        /\ UNCHANGED <<registry, selected, snapIds, snapSel, mode>>
    BY Zenon, <1>1 DEF Create, Import, stores, memory
  <2>2. PICK kind \in Additions, avail \in {"absent", "available", "credential_missing"} :
          avail = registry[k] /\ BeginOperation(r, kind, k, selected, avail)
    BY Zenon, <1>1 DEF Create, Import, Additions, TypeInv, TypeOK
  <2>3. PICK sel \in Keys \cup {None} : sel = selected
    BY Zenon DEF TypeInv, TypeOK
  <2>4. avail = "absent" => Registered \ {k} = Registered
    BY Zenon, <2>2 DEF Registered
  <2>5. kind \in Kinds
    BY <2>2 DEF Kinds, Additions
  <2> QED
    BY ZenonT(60), <2>1, <2>2, <2>3, <2>4, <2>5, BeginRestores
<1>2. ASSUME NEW r \in Requests, NEW k \in Keys, Remove(r, k) PROVE RestoreInv'
  <2>1. /\ Idle /\ Run("remove", r, k) /\ k \in Registered
        /\ UNCHANGED <<registry, selected, snapIds, snapSel, mode>>
    BY <1>2 DEF Remove, stores
  <2>2. PICK sel \in Fallbacks(k) : BeginOperation(r, "remove", k, sel, registry[k])
    BY Zenon, <1>2 DEF Remove
  <2>3. PICK avail \in {"absent", "available", "credential_missing"} : avail = registry[k]
    BY Zenon DEF TypeInv, TypeOK
  <2>4. sel \in Keys \cup {None} /\ "remove" \in Kinds /\ "remove" \notin Additions
    BY Zenon, <2>2 DEF Fallbacks, Registered, TypeInv, TypeOK, Kinds, Additions
  <2>5. SnapshotFits => ValidSnapshot(Registered \ {k}, sel)
    <3> SUFFICES ASSUME SnapshotFits PROVE ValidSnapshot(Registered \ {k}, sel)
      BY Zenon
    <3>1. snapSel # None /\ snapSel \in Registered /\ None \notin Registered
      BY Zenon, <2>1, CustodyAssumption DEF SnapshotFits, ValidSnapshot, Registered
    <3> QED
      BY Zenon, <2>1, <2>2, <3>1 DEF Fallbacks, ValidSnapshot
  <2> QED
    BY ZenonT(60), <2>1, <2>2, <2>3, <2>4, <2>5, BeginRestores
<1>3. ASSUME (\E k \in Keys : Select(k) \/ Activate(k)) \/ SignOut PROVE RestoreInv'
  <2>1. /\ Idle /\ (stage' = 0 \/ task' = None)
        /\ UNCHANGED <<registry, selected, journal, mode, snapIds, snapSel, contested, overlapped>>
    BY Zenon, <1>3 DEF Select, Activate, SignOut, Idle, Run, stores, memory, history
  <2>2. mode = "ready"
    BY Zenon, <2>1 DEF Idle
  <2>3. \A r \in Unfinished : ~ Staged(r)'
    BY SMTT(60), <2>1, <2>2 DEF Staged, CommandStage, RecoveryStage
  <2>4. PublishedFits'
    BY SMTT(60), <2>1 DEF PublishedFits
  <2>5. overlapped = {} /\ Unfinished = {} => SnapshotFits'
    BY Zenon, <2>1, <2>2, RestoreParts DEF SerialFits, SnapshotFits, Registered, ValidSnapshot
  <2> QED
    BY ZenonT(60), <2>1, <2>3, <2>4, <2>5, StepRestores, RestoreParts DEF SelectedFits
<1> QED
  BY Zenon, <1>1, <1>2, <1>3 DEF Command

(***************************************************************************)
(* The steps of a running command.                                         *)
(***************************************************************************)
LEMMA SameSnapshot ==
  ASSUME UNCHANGED <<registry, snapIds, snapSel>>
  PROVE  SnapshotFits' <=> SnapshotFits
BY DEF SnapshotFits, Registered, ValidSnapshot

\* The steps that save no selection.
LEMMA QuietRestores ==
  ASSUME TypeInv, Fits, RestoreInv,
         PutCredential \/ DeleteCredential \/ LoadCredential \/ PublishRegistry
           \/ PublishSelection \/ ActivationSucceeded \/ Refused
  PROVE  RestoreInv'
<1> USE DEF AddAt, RemoveAt, Running
<1>1. /\ mode = "ready" /\ task # None
      /\ UNCHANGED <<registry, selected, journal, mode, contested, overlapped>>
  BY Zenon DEF PutCredential, DeleteCredential, LoadCredential, PublishRegistry, PublishSelection,
         ActivationSucceeded, Refused, SelectionDue, stores, history
<1>2. SelectedFits /\ (overlapped = {} => SerialFits /\ PublishedFits)
  BY Zenon, RestoreParts
<1>3. CASE PutCredential \/ DeleteCredential \/ PublishRegistry
  <2>1. /\ task.cmd \in {"add", "remove"} /\ task' = task
        /\ Phase(task.req) \in {"intent_recorded", "selection_committed"}
    BY ZenonT(60), <1>3 DEF PutCredential, DeleteCredential, PublishRegistry
  <2>2. task.req \in Unfinished
    BY Zenon, <1>1, <2>1, RunningTask
  <2>3. ASSUME NEW r \in Unfinished, journal[r].phase \in {"metadata_committed", "metadata_deleted"}
        PROVE  ~ Staged(r)'
    <3>1. task.req # r
      BY <2>1, <2>3 DEF Phase
    <3> QED
      BY SMTT(60), <1>1, <2>1, <3>1 DEF Staged, CommandStage, RecoveryStage
  <2>4. PublishedFits'
    <3>1. CASE PublishRegistry
      BY ZenonT(60), <1>1, <3>1 DEF PublishRegistry, PublishedFits, SnapshotFits, Registered, ValidSnapshot, stores
    <3>2. CASE PutCredential \/ DeleteCredential
      BY ZenonT(60), <1>1, <2>1, <3>2 DEF PutCredential, DeleteCredential, PublishedFits, Phase
    <3> QED
      BY Zenon, <1>3, <3>1, <3>2
  <2> QED
    BY ZenonT(60), <1>1, <1>2, <2>2, <2>3, <2>4, StepRestores DEF SelectedFits
<1>4. CASE LoadCredential \/ PublishSelection \/ ActivationSucceeded \/ Refused
  <2>1. task' = None \/ (task' = task /\ task.cmd = "activate")
    BY Zenon, <1>4 DEF LoadCredential, PublishSelection, ActivationSucceeded, Refused, Done
  <2>2. ASSUME NEW r \in Unfinished PROVE ~ Staged(r)'
    <3>1. r # None
      BY Zenon, CustodyAssumption DEF Unfinished
    <3>2. task.cmd = "activate" => task.req = None
      BY Zenon, <1>1 DEF TypeInv, TaskFits
    <3> QED
      BY SMTT(60), <1>1, <2>1, <3>1, <3>2 DEF Staged, CommandStage, RecoveryStage
  <2>3. PublishedFits'
    BY <2>1 DEF PublishedFits
  <2>4. ASSUME overlapped = {}, Unfinished = {} PROVE SnapshotFits'
    <3>1. SnapshotFits
      BY Zenon, <1>1, <1>2, <2>4 DEF SerialFits
    <3>2. CASE LoadCredential \/ Refused
      BY ZenonT(60), <1>1, <3>1, <3>2, SameSnapshot DEF LoadCredential, Refused, memory
    <3>3. CASE PublishSelection \/ ActivationSucceeded
      <4>1. snapIds' = snapIds /\ snapSel' = task.key
        BY Zenon, <3>3 DEF PublishSelection, ActivationSucceeded
      <4>2. task.key \in snapIds
        BY ZenonT(60), <3>1, <3>3 DEF PublishSelection, ActivationSucceeded, SnapshotFits, Fits, SessionFits
      <4>3. task.key # None
        BY Zenon, <1>1, RunningTask, CustodyAssumption
      <4> QED
        BY Zenon, <1>1, <3>1, <4>1, <4>2, <4>3 DEF SnapshotFits, ValidSnapshot, Registered
    <3> QED
      BY Zenon, <1>4, <3>2, <3>3
  <2> QED
    BY ZenonT(60), <1>1, <1>2, <2>2, <2>3, <2>4, StepRestores DEF SelectedFits
<1> QED
  BY Zenon, <1>3, <1>4

\* What a removal or an addition that never overlapped left in the registry.
LEMMA SerialOperation ==
  ASSUME TypeInv, Fits, RestoreInv, overlapped = {}, NEW r \in Unfinished
  PROVE  /\ OperationAgrees(r) /\ SelectionAgrees(r)
         /\ \A q \in Unfinished : q = r
         /\ journal[r] \in Operation /\ journal[r].key \in Keys
<1>1. SerialFits
  BY Zenon, RestoreParts
<1>2. journal[r] \in Operation /\ journal[r].key \in Keys
  BY Zenon DEF Unfinished, TypeInv, TypeOK, Operation
<1>3. KeyAgrees(journal[r].key)
  BY Zenon, <1>1, <1>2 DEF SerialFits, Fits, StoresFit
<1>4. OperationAgrees(r)
  BY Zenon, <1>3 DEF KeyAgrees, UnfinishedOn
<1> QED
  BY <1>1, <1>2, <1>4 DEF SerialFits

\* Once a removal's row is gone, or an addition's is as before, the recorded
\* selection is one of the saved identities.
LEMMA PriorSelectionFits ==
  ASSUME NEW r \in Unfinished, SelectionAgrees(r), journal[r] \in Operation,
         \/ journal[r].kind = "remove" /\ registry[journal[r].key] = "absent"
         \/ journal[r].kind # "remove" /\ registry[journal[r].key] = journal[r].priorAvail
  PROVE  ValidSnapshot(Registered, journal[r].priorSel)
<1>1. SettledWithout(r) = Registered
  BY Zenon DEF SettledWithout, Registered, Operation, Kinds, Additions
<1> QED
  BY ZenonT(60), <1>1 DEF SelectionAgrees

LEMMA RegisteredIsValid ==
  ASSUME NEW k \in Registered
  PROVE  ValidSnapshot(Registered, k)
BY Zenon, CustodyAssumption DEF ValidSnapshot, Registered

LEMMA SaveSelectionRestores ==
  ASSUME TypeInv, Fits, RestoreInv, SaveSelection
  PROVE  RestoreInv'
<1> USE DEF AddAt, RemoveAt, Running
<1>1. /\ mode = "ready" /\ task # None /\ SelectionDue /\ CanSelect(Target) /\ selected' = Target
      /\ UNCHANGED <<registry, journal, mode, task, snapIds, snapSel, contested, overlapped>>
  BY DEF SaveSelection, SelectionDue, memory, history
<1>2. SelectedFits /\ (overlapped = {} => SerialFits /\ PublishedFits)
  BY Zenon, RestoreParts
<1>3. selected' # None => selected' \in Registered
  BY <1>1 DEF CanSelect
<1>4. ASSUME overlapped = {} PROVE ValidSnapshot(Registered, selected')
  <2>1. CASE task.cmd = "remove"
    <3>1. task.req \in Unfinished /\ Phase(task.req) = "metadata_deleted" /\ journal[task.req].kind = "remove"
      BY ZenonT(60), <1>1, <2>1 DEF SelectionDue, TypeInv, TaskFits
    <3>2. OperationAgrees(task.req) /\ SelectionAgrees(task.req) /\ journal[task.req] \in Operation
      BY ZenonT(60), <1>4, <3>1, SerialOperation
    <3>3. registry[journal[task.req].key] = "absent"
      BY ZenonT(60), <3>1, <3>2 DEF OperationAgrees, RemovalAgrees, Phase
    <3> QED
      BY ZenonT(60), <1>1, <2>1, <3>1, <3>2, <3>3, PriorSelectionFits DEF Target
  <2>2. CASE task.cmd # "remove"
    <3>1. Target = task.key /\ task.key \in Keys
      BY ZenonT(60), <1>1, <2>2, RunningTask DEF Target
    <3>2. task.key \in Registered
      BY Zenon, <1>1, <3>1, CustodyAssumption DEF CanSelect
    <3> QED
      BY Zenon, <1>1, <3>1, <3>2, RegisteredIsValid
  <2> QED
    BY Zenon, <2>1, <2>2
<1>5. PublishedFits'
  BY Zenon, <1>1 DEF SelectionDue, PublishedFits, Phase
<1>6. overlapped = {} /\ mode' = "ready" /\ Unfinished = {} => SnapshotFits'
  BY Zenon, <1>1, <1>2, SameSnapshot DEF SerialFits
<1> QED
  BY ZenonT(60), <1>1, <1>3, <1>4, <1>5, <1>6, StepRestores

(***************************************************************************)
(* The steps that write the registry, of a command or of recovery.         *)
(***************************************************************************)
LEMMA MetadataRestores ==
  ASSUME TypeInv, Fits, RestoreInv, NEW r \in Unfinished, NEW k \in Keys, k = journal[r].key,
         UNCHANGED <<journal, mode, snapIds, snapSel, contested, overlapped>>,
         registry' \in [Keys -> {"absent", "available", "credential_missing"}],
         \A other \in Keys \ {k} : registry'[other] = registry[other],
         selected' = IF selected = k /\ registry'[k] = "absent" THEN None ELSE selected,
         \/ journal[r].kind # "remove" /\ UNCHANGED registry
         \/ /\ journal[r].kind # "remove" /\ registry'[k] = "available"
            /\ journal[r].phase = "credential_written"
            /\ registry[k] = "absent" <=> journal[r].priorAvail = "absent"
         \/ journal[r].kind = "remove" /\ journal[r].phase = "credential_deleted",
         PublishedFits', journal[r].phase \notin {"metadata_committed", "metadata_deleted"}
  PROVE  RestoreInv'
<1>1. Unfinished' = Unfinished
  BY ZenonT(60), SameJournal
<1>2. \A other \in Keys \ {k} : other \in Registered' <=> other \in Registered
  BY Zenon DEF Registered
<1>3. SelectedFits /\ (overlapped = {} => SerialFits /\ PublishedFits)
  BY Zenon, RestoreParts
<1>4. Registered \subseteq Keys /\ Registered' \subseteq Keys /\ None \notin Keys
  BY Zenon, CustodyAssumption DEF Registered
<1>5. k \in Registered' <=> registry'[k] # "absent"
  BY Zenon DEF Registered
<1>6. SelectedFits'
  BY ZenonT(60), <1>2, <1>3, <1>4, <1>5 DEF SelectedFits
<1>7. ASSUME overlapped = {} PROVE SerialFits'
  <2>1. /\ OperationAgrees(r) /\ SelectionAgrees(r) /\ journal[r] \in Operation
        /\ \A q \in Unfinished : q = r
    BY ZenonT(60), <1>7, SerialOperation
  <2>2. journal[r].kind # "remove" => journal[r].priorAvail # "available" /\ journal[r].kind \in Additions
    BY ZenonT(60), <2>1 DEF OperationAgrees, AdditionAgrees, Operation, Kinds, Additions
  <2>3. SettledWithout(r)' = SettledWithout(r)
    <3>1. Registered' \ {k} = Registered \ {k}
      BY ZenonT(60), <1>2, <1>4
    <3>2. CASE journal[r].kind = "remove"
      BY ZenonT(60), <3>1, <3>2 DEF SettledWithout, Additions
    <3>3. CASE journal[r].kind # "remove"
      <4>1. journal[r].priorAvail # "absent" => Registered' = Registered
        BY ZenonT(60), <3>1, <3>3 DEF Registered
      <4> QED
        BY ZenonT(60), <2>2, <3>1, <3>3, <4>1 DEF SettledWithout
    <3> QED
      BY ZenonT(60), <3>2, <3>3
  <2>4. SelectionAgrees(r)'
    <3>1. CASE journal[r].kind # "remove" /\ UNCHANGED registry
      <4>1. selected' = selected \/ (selected = k /\ k \notin Registered)
        BY ZenonT(60), <1>5, <3>1 DEF Registered
      <4>2. selected' = selected /\ Registered' = Registered
        BY ZenonT(60), <1>3, <1>4, <3>1, <4>1 DEF SelectedFits, Registered
      <4> QED
        BY ZenonT(60), <2>1, <2>3, <3>1, <4>2 DEF SelectionAgrees
    <3>2. CASE journal[r].kind # "remove" /\ registry'[k] = "available" /\ journal[r].phase = "credential_written"
      BY ZenonT(60), <2>1, <2>2, <2>3, <3>2 DEF SelectionAgrees
    <3>3. CASE journal[r].kind = "remove" /\ journal[r].phase = "credential_deleted"
      BY Zenon, <2>1, <2>3, <3>3 DEF SelectionAgrees, Additions
    <3> QED
      BY ZenonT(60), <3>1, <3>2, <3>3
  <2> QED
    BY ZenonT(60), <1>1, <1>3, <1>7, <2>1, <2>4 DEF SerialFits
<1> QED
  BY ZenonT(60), <1>6, <1>7 DEF RestoreInv, SelectedFits, SerialFits, PublishedFits

LEMMA CommandMetadataRestores ==
  ASSUME TypeInv, Fits, RestoreInv, SaveMetadata \/ DeleteMetadata
  PROVE  RestoreInv'
<1> USE DEF AddAt, RemoveAt, Running
<1>1. /\ task # None /\ task.cmd \in {"add", "remove"}
      /\ UNCHANGED <<journal, mode, task, snapIds, snapSel, contested, overlapped>>
  BY Zenon DEF SaveMetadata, DeleteMetadata, memory, history
<1>2. PICK r \in Unfinished : /\ r = task.req /\ journal[r].key = task.key
                              /\ journal[r].kind = "remove" <=> task.cmd = "remove"
  BY ZenonT(60), <1>1 DEF TypeInv, TaskFits
<1>3. PICK k \in Keys : k = task.key
  BY ZenonT(60), <1>1, RunningTask
<1>4. registry \in [Keys -> {"absent", "available", "credential_missing"}]
  BY Zenon DEF TypeInv, TypeOK
<1>5. journal[r].phase = "credential_written" \/ journal[r].phase = "credential_deleted"
  BY ZenonT(60), <1>2 DEF SaveMetadata, DeleteMetadata, Phase
<1>6. PublishedFits'
  BY Zenon, <1>1, <1>2, <1>5 DEF PublishedFits, Phase
<1>7. CASE SaveMetadata
  <2>1. /\ registry' = [registry EXCEPT ![k] = "available"] /\ selected' = selected
        /\ journal[r].phase = "credential_written" /\ journal[r].kind # "remove"
        /\ (registry[k] = "absent") = (journal[r].priorAvail = "absent")
    BY ZenonT(60), <1>2, <1>3, <1>7 DEF SaveMetadata, Phase
  <2>2. /\ registry' \in [Keys -> {"absent", "available", "credential_missing"}]
        /\ registry'[k] = "available" /\ \A other \in Keys \ {k} : registry'[other] = registry[other]
    BY Zenon, <1>4, <2>1
  <2> QED
    BY ZenonT(60), <1>1, <1>2, <1>3, <1>6, <2>1, <2>2, MetadataRestores
<1>8. CASE DeleteMetadata
  <2>1. /\ registry' = [registry EXCEPT ![k] = "absent"]
        /\ selected' = IF selected = k THEN None ELSE selected
        /\ journal[r].phase = "credential_deleted" /\ journal[r].kind = "remove"
    BY ZenonT(60), <1>2, <1>3, <1>8 DEF DeleteMetadata, RemoveMetadata, Phase
  <2>2. /\ registry' \in [Keys -> {"absent", "available", "credential_missing"}]
        /\ registry'[k] = "absent" /\ \A other \in Keys \ {k} : registry'[other] = registry[other]
    BY Zenon, <1>4, <2>1
  <2> QED
    BY ZenonT(60), <1>1, <1>2, <1>3, <1>6, <2>1, <2>2, MetadataRestores
<1> QED
  BY Zenon, <1>7, <1>8

(***************************************************************************)
(* The steps that advance an operation, of a command or of recovery.       *)
(***************************************************************************)
LEMMA AdvanceRestores ==
  ASSUME TypeInv, JournalFits, Fits, RestoreInv,
         NEW r \in Unfinished, NEW phase \in Phases, Advance(r, phase), stage' = 0,
         UNCHANGED <<registry, selected, mode, snapIds, snapSel, spent, contested, overlapped>>,
         overlapped = {} /\ phase \in Terminal \cup {"selection_committed"}
           => ValidSnapshot(Registered, selected),
         overlapped = {} /\ mode = "ready" /\ phase \in Terminal => SnapshotFits
  PROVE  RestoreInv'
<1>1. /\ journal'[r].phase = phase /\ journal'[r].priorAvail = journal[r].priorAvail
      /\ journal'[r].priorSel = journal[r].priorSel
      /\ journal'[r].kind = journal[r].kind /\ journal'[r].key = journal[r].key
  <2>1. journal'[r] = [journal[r] EXCEPT !.phase = phase] /\ journal'[r].phase = phase
    BY Zenon, AdvanceEffect DEF TypeInv
  <2>2. journal[r] \in Operation
    BY Zenon DEF Unfinished, TypeInv, TypeOK
  <2> QED
    BY <2>1, <2>2 DEF Operation
<1>2. Unfinished' = IF phase \in Terminal THEN Unfinished \ {r} ELSE Unfinished
  BY Zenon, AdvanceJournalFits
<1>3. Registered' = Registered
  BY Zenon DEF Registered
<1>4. SelectedFits' /\ PublishedFits'
  BY SMTT(60), <1>3, RestoreParts DEF SelectedFits, PublishedFits
<1>5. ASSUME overlapped = {} PROVE SerialFits'
  <2>1. SerialFits
    BY Zenon, <1>5, RestoreParts
  <2>2. SelectionAgrees(r) /\ \A q \in Unfinished : q = r
    BY Zenon, <1>5, SerialOperation
  <2>3. phase \notin Terminal => SelectionAgrees(r)'
    <3>1. SettledWithout(r)' = SettledWithout(r)
      BY ZenonT(60), <1>1, <1>3 DEF SettledWithout
    <3>2. ~ (CommandStage(r)' + RecoveryStage(r)' > 0)
      BY SMTT(60) DEF CommandStage, RecoveryStage
    <3> QED
      BY ZenonT(60), <1>1, <1>3, <1>5, <2>2, <3>1, <3>2 DEF SelectionAgrees
  <2>4. Unfinished' = {} => phase \in Terminal
    BY Zenon, <1>2
  <2>5. \A q \in Unfinished' : q = r /\ phase \notin Terminal
    BY Zenon, <1>2, <2>2
  <2>6. Unfinished' = {} => ValidSnapshot(Registered, selected)'
    BY Zenon, <1>3, <1>5, <2>4
  <2>7. mode' = "ready" /\ Unfinished' = {} => SnapshotFits'
    BY Zenon, <1>5, <2>4, SameSnapshot
  <2> QED
    BY Zenon, <2>1, <2>3, <2>5, <2>6, <2>7 DEF SerialFits
<1> QED
  BY <1>4, <1>5 DEF RestoreInv, SelectedFits, SerialFits, PublishedFits

LEMMA JournalRestores ==
  ASSUME TypeInv, JournalFits, Fits, RestoreInv, Journal
  PROVE  RestoreInv'
<1> DEFINE r == task.req
<1> DEFINE next == NextPhase(journal[r].kind, Phase(r))
<1>1. /\ task # None /\ task.cmd \in {"add", "remove"} /\ stage = 1 /\ Advance(r, next) /\ stage' = 0
      /\ UNCHANGED <<registry, selected, mode, snapIds, snapSel, spent, contested, overlapped>>
  BY ZenonT(60) DEF Journal, Running, Done, stores, memory, history
<1>2. r \in Unfinished /\ r \in Requests /\ journal[r] \in Operation /\ mode = "ready"
  BY ZenonT(60), <1>1, RunningTask
<1>3. /\ journal[r].kind = "remove" => Phase(r) \in RemovePhases
      /\ journal[r].kind # "remove" => Phase(r) \in AddPhases
      /\ Phase(r) \in Phases \ Terminal /\ journal[r].kind \in Kinds
  BY ZenonT(60), <1>1, <1>2, CustodyAssumption DEF TypeInv, PhasesFit, TaskFits, Unfinished, Operation, Phase
<1>4. PICK q \in Unfinished, phase \in Phases : q = r /\ phase = next /\ Advance(q, phase)
  BY Zenon, <1>1, <1>2, <1>3, NextPhaseFits
<1>5. /\ phase \in Terminal => Phase(q) = "selection_committed"
      /\ phase = "selection_committed" => Phase(q) \in {"metadata_committed", "metadata_deleted"}
  BY Zenon, <1>3, <1>4 DEF NextPhase, RemovePhases, AddPhases, Terminal
<1>6. CommandStage(q) = 1 /\ RecoveryStage(q) = 0
  BY ZenonT(60), <1>1, <1>2, <1>4 DEF CommandStage, RecoveryStage
<1>7. ASSUME overlapped = {}, phase \in Terminal \cup {"selection_committed"}
      PROVE  ValidSnapshot(Registered, selected)
  <2>1. SelectionAgrees(q)
    BY Zenon, <1>7, SerialOperation
  <2> QED
    BY SMTT(60), <1>5, <1>6, <1>7, <2>1 DEF SelectionAgrees, Phase
<1>8. overlapped = {} /\ phase \in Terminal => SnapshotFits
  BY ZenonT(60), <1>1, <1>4, <1>5, RestoreParts DEF PublishedFits
<1> QED
  BY ZenonT(60), <1>1, <1>4, <1>7, <1>8, AdvanceRestores

LEMMA RecoverJournalRestores ==
  ASSUME TypeInv, JournalFits, Fits, RestoreInv, RecoverJournal
  PROVE  RestoreInv'
<1>1. /\ mode = "recovering" /\ Unfinished # {} /\ stage' = 0
      /\ UNCHANGED <<registry, selected, mode, snapIds, snapSel, spent, contested, overlapped>>
  BY ZenonT(60) DEF RecoverJournal, stores, memory, history
<1>2. PICK c \in Unfinished : /\ c = Current /\ c \in Requests /\ journal[c].key \in Keys
                              /\ journal[c] \in Operation
  BY Zenon, <1>1, RecoveredOperation
<1>3. /\ journal[c].kind = "remove" => journal[c].phase \in RemovePhases \ Terminal
      /\ journal[c].kind # "remove" => journal[c].phase \in (AddPhases \cup UndoPhases) \ Terminal
  BY ZenonT(60), <1>1, <1>2 DEF TypeInv, PhasesFit, Unfinished
<1>4. PICK phase : /\ phase = RecoveryPhase(journal[c].kind, journal[c].phase,
                                            registry[journal[c].key] = "available")
                   /\ Advance(c, phase)
                   /\ stage = RecoverySteps(journal[c].kind, journal[c].phase)
  BY Zenon, <1>2 DEF RecoverJournal
<1>5. journal[c].kind = "remove" =>
        /\ phase \in Phases
        /\ phase \in Terminal => journal[c].phase = "selection_committed"
        /\ phase = "selection_committed" => journal[c].phase = "metadata_deleted" /\ stage = 1
  BY Zenon, <1>3, <1>4 DEF RecoveryPhase, NextPhase, RecoverySteps, RemovePhases, Terminal, Phases
<1>6. journal[c].kind # "remove" =>
        /\ phase \in Phases
        /\ phase \in Terminal =>
             journal[c].phase \in {"intent_recorded", "selection_committed", "credential_deleted"}
        /\ phase = "selection_committed" => journal[c].phase = "metadata_committed" /\ stage = 1
  BY Zenon, <1>3, <1>4 DEF RecoveryPhase, RecoverySteps, AddPhases, UndoPhases, Terminal, Phases
<1>7. CommandStage(c) = 0 /\ RecoveryStage(c) = stage
  BY Zenon, <1>1, <1>2, RecoveringAlone DEF CommandStage, RecoveryStage
<1>8. ASSUME overlapped = {}, phase \in Terminal \cup {"selection_committed"}
      PROVE  ValidSnapshot(Registered, selected)
  <2>1. SelectionAgrees(c) /\ OperationAgrees(c)
    BY Zenon, <1>8, SerialOperation
  <2>2. CASE journal[c].kind = "remove"
    <3>1. \/ journal[c].phase = "selection_committed"
          \/ journal[c].phase = "metadata_deleted" /\ stage = 1
      BY Zenon, <1>5, <1>8, <2>2 DEF Terminal
    <3>2. stage = 1 => CommandStage(c) + RecoveryStage(c) > 0
      BY <1>7
    <3> QED
      BY Zenon, <2>1, <3>1, <3>2 DEF SelectionAgrees
  <2>3. CASE journal[c].kind # "remove"
    <3>1. journal[c].kind \in Additions
      BY Zenon, <1>2, <2>3 DEF Operation, Kinds, Additions
    <3>2. journal[c].phase \in {"intent_recorded", "credential_deleted"}
            => registry[journal[c].key] = journal[c].priorAvail
      BY ZenonT(60), <2>1, <2>3 DEF OperationAgrees, AdditionAgrees
    <3> QED
      BY SMTT(60), <1>6, <1>7, <1>8, <2>1, <2>3, <3>1, <3>2 DEF SelectionAgrees
  <2> QED
    BY Zenon, <2>2, <2>3
<1> QED
  BY ZenonT(60), <1>1, <1>4, <1>5, <1>6, <1>8, AdvanceRestores

(***************************************************************************)
(* The other steps of recovery.                                            *)
(***************************************************************************)
LEMMA RecoverMetadataRestores ==
  ASSUME TypeInv, Fits, RestoreInv, RecoverMetadata
  PROVE  RestoreInv'
<1> USE DEF Recovers
<1>1. /\ mode = "recovering" /\ Unfinished # {}
      /\ UNCHANGED <<journal, mode, task, snapIds, snapSel, contested, overlapped>>
  BY Zenon DEF RecoverMetadata, memory, history
<1>2. PICK c \in Unfinished : /\ c = Current /\ c \in Requests /\ journal[c].key \in Keys
                              /\ journal[c] \in Operation
  BY Zenon, <1>1, RecoveredOperation
<1>3. PICK k \in Keys : k = journal[c].key
  BY Zenon, <1>2
<1>4. registry \in [Keys -> {"absent", "available", "credential_missing"}]
      /\ journal[c].priorAvail \in {"absent", "available", "credential_missing"}
  BY ZenonT(60), <1>2 DEF TypeInv, TypeOK, Operation
<1>5. \/ /\ journal[c].kind = "remove" /\ journal[c].phase = "credential_deleted" /\ RemoveMetadata(k)
      \/ /\ journal[c].kind # "remove" /\ journal[c].phase = "compensation_pending"
         /\ journal[c].priorAvail = "absent" /\ RemoveMetadata(k)
      \/ /\ journal[c].kind # "remove" /\ journal[c].phase = "compensation_pending"
         /\ journal[c].priorAvail # "absent" /\ selected' = selected
         /\ registry' = [registry EXCEPT ![k] = IF registry[k] = "absent" THEN registry[k]
                                                                          ELSE journal[c].priorAvail]
  BY ZenonT(60), <1>2, <1>3 DEF RecoverMetadata, Phase, Additions
<1>6. /\ registry' \in [Keys -> {"absent", "available", "credential_missing"}]
      /\ \A other \in Keys \ {k} : registry'[other] = registry[other]
  BY Zenon, <1>4, <1>5 DEF RemoveMetadata
<1>7. task = None
  BY Zenon, <1>1, RecoveringAlone
<1>8. PublishedFits'
  BY Zenon, <1>1, <1>7 DEF PublishedFits
<1>9. SelectedFits /\ Registered \subseteq Keys /\ None \notin Keys
  BY Zenon, RestoreParts, CustodyAssumption DEF Registered
<1>10. CASE journal[c].kind = "remove"
  <2>1. selected' = IF selected = k /\ registry'[k] = "absent" THEN None ELSE selected
    BY ZenonT(60), <1>4, <1>5, <1>10 DEF RemoveMetadata
  <2> QED
    BY Zenon, <1>1, <1>3, <1>5, <1>6, <1>8, <1>10, <2>1, MetadataRestores
<1>11. CASE journal[c].kind # "remove" /\ overlapped = {}
  <2>1. registry[k] = journal[c].priorAvail
    BY ZenonT(60), <1>3, <1>5, <1>11, SerialOperation DEF OperationAgrees, AdditionAgrees
  <2>2. registry' = registry
    BY SMTT(60), <1>4, <1>5, <1>11, <2>1 DEF RemoveMetadata
  <2>3. selected' = IF selected = k /\ registry'[k] = "absent" THEN None ELSE selected
    <3>1. selected = k => registry[k] # "absent"
      BY <1>9 DEF SelectedFits, Registered
    <3> QED
      BY <1>5, <1>11, <2>1, <2>2, <3>1 DEF RemoveMetadata
  <2> QED
    BY ZenonT(60), <1>1, <1>3, <1>5, <1>6, <1>8, <1>11, <2>2, <2>3, MetadataRestores
<1>12. CASE journal[c].kind # "remove" /\ overlapped # {}
  <2>1. \A other \in Keys \ {k} : other \in Registered' <=> other \in Registered
    BY Zenon, <1>6 DEF Registered
  <2>2. journal[c].priorAvail # "absent" => (k \in Registered' <=> k \in Registered)
    BY Zenon, <1>4, <1>5, <1>12 DEF Registered
  <2>3. SelectedFits'
    BY Zenon, <1>5, <1>9, <1>12, <2>1, <2>2 DEF SelectedFits, RemoveMetadata
  <2> QED
    BY ZenonT(60), <1>1, <1>12, <2>3 DEF RestoreInv, SelectedFits
<1> QED
  BY Zenon, <1>10, <1>11, <1>12

LEMMA RecoverSelectionRestores ==
  ASSUME TypeInv, Fits, RestoreInv, RecoverSelection
  PROVE  RestoreInv'
<1> USE DEF Recovers
<1>1. /\ mode = "recovering" /\ Unfinished # {} /\ selected' = RecoveryTarget /\ CanSelect(RecoveryTarget)
      /\ UNCHANGED <<registry, journal, mode, task, contested, overlapped>>
  BY ZenonT(60) DEF RecoverSelection, RecoverySelectionDue, history
<1>2. PICK c \in Unfinished : /\ c = Current /\ c \in Requests /\ journal[c].key \in Keys
                              /\ journal[c] \in Operation
  BY Zenon, <1>1, RecoveredOperation
<1>3. \/ /\ journal[c].kind = "remove" /\ journal[c].phase = "metadata_deleted"
         /\ RecoveryTarget = journal[c].priorSel
      \/ /\ journal[c].kind # "remove" /\ journal[c].phase = "metadata_committed"
         /\ RecoveryTarget = journal[c].key
      \/ /\ journal[c].kind # "remove" /\ journal[c].phase = "compensation_pending"
         /\ RecoveryTarget = journal[c].priorSel
  BY Zenon, <1>2 DEF RecoverSelection, RecoverySelectionDue, RecoveryTarget, Phase, Additions
<1>4. selected' # None => selected' \in Registered
  BY <1>1 DEF CanSelect
<1>5. ASSUME overlapped = {} PROVE ValidSnapshot(Registered, selected')
  <2>1. OperationAgrees(c) /\ SelectionAgrees(c)
    BY Zenon, <1>5, SerialOperation
  <2>2. CASE RecoveryTarget = journal[c].key
    <3>1. journal[c].key \in Registered
      BY Zenon, <1>1, <1>2, <2>2, CustodyAssumption DEF CanSelect
    <3> QED
      BY Zenon, <1>1, <2>2, <3>1, RegisteredIsValid
  <2>3. CASE RecoveryTarget # journal[c].key
    <3>1. \/ journal[c].kind = "remove" /\ registry[journal[c].key] = "absent"
          \/ journal[c].kind # "remove" /\ registry[journal[c].key] = journal[c].priorAvail
      BY Zenon, <1>3, <2>1, <2>3 DEF OperationAgrees, RemovalAgrees, AdditionAgrees
    <3> QED
      BY ZenonT(60), <1>1, <1>2, <1>3, <2>1, <2>3, <3>1, PriorSelectionFits
  <2> QED
    BY Zenon, <2>2, <2>3
<1>6. PublishedFits'
  BY Zenon, <1>1, RecoveringAlone DEF PublishedFits
<1> QED
  BY ZenonT(60), <1>1, <1>4, <1>5, <1>6, StepRestores

\* The steps that take the process down or up, or only answer a caller.
LEMMA LifecycleRestores ==
  ASSUME TypeInv, Fits, RestoreInv,
         RecoverCredential \/ Bootstrap \/ RecoveryFails \/ Abandon \/ LateCompletion
           \/ Crash \/ Close \/ Open \/ UNCHANGED vars
  PROVE  RestoreInv'
<1>1. UNCHANGED <<registry, selected, journal, contested, overlapped>>
  BY Zenon DEF RecoverCredential, Bootstrap, RecoveryFails, Abandon, LateCompletion, Crash, Close, Open,
         vars, stores, history
<1>2. SelectedFits /\ (overlapped = {} => SerialFits /\ PublishedFits)
  BY Zenon, RestoreParts
<1>3. CASE Halt \/ Bootstrap \/ Open
  <2>1. /\ task' = None \/ (mode # "ready" /\ task' = task)
        /\ mode' \in {"closed", "recovering"} \/ (Bootstrap /\ ~ Halt)
    BY ZenonT(60), <1>3 DEF Halt, Done, Bootstrap, Open
  <2>2. task' = None
    BY Zenon, <2>1 DEF TypeInv, TaskFits
  <2>3. ASSUME NEW r \in Unfinished PROVE ~ Staged(r)'
    <3>1. stage' = 0
      BY Zenon, <1>3, RecoveringAlone DEF Halt, Done, Bootstrap, Open, TypeInv, TaskFits, Fits, RecoveryFits
    <3> QED
      BY SMTT(60), <3>1 DEF Staged, CommandStage, RecoveryStage
  <2>4. PublishedFits'
    BY Zenon, <2>2 DEF PublishedFits
  <2>5. mode' = "ready" => SnapshotFits'
    <3>1. mode' = "ready" => Bootstrap /\ ~ Halt
      BY Zenon, <2>1
    <3> QED
      BY Zenon, <1>1, <3>1 DEF Bootstrap, SnapshotFits, ValidSnapshot, Registered
  <2> QED
    BY ZenonT(60), <1>1, <1>2, <2>3, <2>4, <2>5, StepRestores DEF SelectedFits
<1>4. CASE RecoverCredential
  <2>1. /\ mode = "recovering" /\ Unfinished # {} /\ UNCHANGED <<mode, task>>
        /\ journal[Current].phase \in {"intent_recorded", "compensation_pending"}
    BY Zenon, <1>4 DEF RecoverCredential, Recovers, Phase
  <2>2. task = None
    BY Zenon, <2>1, RecoveringAlone
  <2>3. ASSUME NEW r \in Unfinished, journal[r].phase \in {"metadata_committed", "metadata_deleted"}
        PROVE  ~ Staged(r)'
    <3>1. r # Current /\ Current' = Current
      BY Zenon, <1>1, <2>1, <2>3, SameJournal
    <3> QED
      BY SMTT(60), <2>1, <2>2, <3>1 DEF Staged, CommandStage, RecoveryStage
  <2>4. PublishedFits'
    BY Zenon, <2>1, <2>2 DEF PublishedFits
  <2> QED
    BY ZenonT(60), <1>1, <1>2, <2>1, <2>3, <2>4, StepRestores DEF SelectedFits
<1>5. CASE Abandon \/ LateCompletion \/ UNCHANGED vars
  <2>1. /\ UNCHANGED <<mode, snapIds, snapSel>>
        /\ \/ task' = None /\ stage' = 0
           \/ UNCHANGED <<task, stage>>
    BY ZenonT(60), <1>5 DEF Abandon, LateCompletion, Done, vars, memory
  <2>2. ASSUME NEW r \in Unfinished PROVE Staged(r)' => Staged(r)
    BY SMTT(60), <1>1, <2>1, SameJournal DEF Staged, CommandStage, RecoveryStage
  <2>3. overlapped = {} => PublishedFits'
    BY Zenon, <1>1, <1>2, <2>1, SameSnapshot DEF PublishedFits, Phase
  <2>4. overlapped = {} /\ mode' = "ready" /\ Unfinished = {} => SnapshotFits'
    BY Zenon, <1>1, <1>2, <2>1, SameSnapshot DEF SerialFits
  <2> QED
    BY ZenonT(60), <1>1, <1>2, <2>2, <2>3, <2>4, StepRestores DEF SelectedFits
<1> QED
  BY Zenon, <1>3, <1>4, <1>5 DEF RecoveryFails, Crash, Close

LEMMA RestoreStep == CustodyInv /\ RestoreInv /\ [Next]_vars => RestoreInv'
<1> SUFFICES ASSUME CustodyInv, RestoreInv, [Next]_vars PROVE RestoreInv'
  OBVIOUS
<1>1. TypeInv /\ JournalFits /\ Fits
  BY InvParts
<1>2. CASE Command
  BY Zenon, <1>1, <1>2, CommandRestores
<1>3. CASE CommandStep
  BY Zenon, <1>1, <1>3, QuietRestores, CommandMetadataRestores, SaveSelectionRestores, JournalRestores DEF CommandStep
<1>4. CASE Recovery
  BY Zenon, <1>1, <1>4, RecoverMetadataRestores, RecoverSelectionRestores, RecoverJournalRestores,
     LifecycleRestores DEF Recovery
<1> QED
  BY Zenon, <1>1, <1>2, <1>3, <1>4, LifecycleRestores DEF Next

LEMMA RestoreInit == ASSUME Init PROVE RestoreInv
<1>1. /\ \A r \in Requests : journal[r] = None
      /\ mode = "closed" /\ task = None /\ contested = {}
      /\ selected \in Registered \cup {None} /\ (selected = None <=> Registered = {})
  BY DEF Init
<1>2. Unfinished = {}
  BY <1>1 DEF Unfinished
<1> QED
  BY Zenon, <1>1, <1>2 DEF RestoreInv, ValidSnapshot

\* Whatever crashed, was refused or ran out of time, once recovery has
\* settled the journal the registry and the selection are a snapshot that
\* bootstrap accepts, if operations were never begun side by side.
THEOREM SettledStateRestores == Spec => []ReconciledStateRestores
<1>1. RestoreInv => ReconciledStateRestores
  BY DEF RestoreInv, ReconciledStateRestores
<1> QED
  BY Zenon, <1>1, RestoreInit, RestoreStep, CustodyInvariant, PTL DEF Spec
=============================================================================
