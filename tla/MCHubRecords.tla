---------------------------- MODULE MCHubRecords ----------------------------
(***************************************************************************)
(* The stores that share no step with each other: submissions, reference   *)
(* records, digested records, the capacity of the stock journal, the       *)
(* profile cache and availability evidence.  `focus' picks the one a       *)
(* behaviour is about, so that TLC does not multiply their states.         *)
(***************************************************************************)
EXTENDS HubSubmission, HubReference, HubRecords, HubJournal, ProfileCache, AvailabilityEvidence

CONSTANTS start, receive, label, release, report, observe, review

VARIABLE focus

vars == <<focus, hubVars, referenceVars, recordVars, journalVars, profileVars, evidenceVars>>

AllKinds == (start :> "initialize") @@ (receive :> "planned") @@ (label :> "ordinary")
              @@ (release :> "closing") @@ (report :> "report") @@ (observe :> "observation") @@ (review :> "review")

MCAdmission ==
  [e \in EvidenceEvents |-> CASE e = 2 -> [label |-> 2, reason |-> 1]
                              [] e = 3 -> [label |-> 2, reason |-> 2]
                              [] OTHER -> [label |-> 1, reason |-> 0]]

\* A hub that nobody owns and that holds no earlier operation, where another
\* store is the one looked at.
StoresInit ==
  /\ focus \in {"submission", "reference", "record", "journal", "profile", "evidence"}
  /\ Init /\ ReferenceInit /\ RecordInit /\ JournalInit /\ ProfileInit /\ EvidenceInit
  /\ focus # "submission" => owner = None /\ \A op \in Operations : ~ HasRoot(op)

StoresNext ==
  /\ UNCHANGED focus
  /\ \/ /\ focus = "submission" /\ Next
        /\ UNCHANGED <<referenceVars, recordVars, journalVars, profileVars, evidenceVars>>
     \/ /\ focus = "reference" /\ ReferenceNext
        /\ UNCHANGED <<hubVars, recordVars, journalVars, profileVars, evidenceVars>>
     \/ /\ focus = "record" /\ RecordNext
        /\ UNCHANGED <<hubVars, referenceVars, journalVars, profileVars, evidenceVars>>
     \/ /\ focus = "journal" /\ JournalNext
        /\ UNCHANGED <<hubVars, referenceVars, recordVars, profileVars, evidenceVars>>
     \/ /\ focus = "profile" /\ ProfileNext
        /\ UNCHANGED <<hubVars, referenceVars, recordVars, journalVars, evidenceVars>>
     \/ /\ focus = "evidence" /\ EvidenceNext
        /\ UNCHANGED <<hubVars, referenceVars, recordVars, journalVars, profileVars>>

StoresSpec == StoresInit /\ [][StoresNext]_vars

\* Operations and record identifiers, and actors and labels, are the same model
\* values: no behaviour looks at both.
Symmetry == Permutations(Operations) \cup Permutations(Actors)
=============================================================================
