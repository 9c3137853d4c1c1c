---------------------------- MODULE SnapshotOrder ----------------------------
(***************************************************************************)
(* The order on application snapshots, as the native core decides it       *)
(* (AppSnapshot::is_newer_than) and as the shared Kotlin consumer decides  *)
(* it again (ApplicationSnapshot.orderAfter).  A snapshot is abstracted to *)
(* the two dimensions both compare: the core revision and the runtime      *)
(* session it was settled under.                                           *)
(***************************************************************************)
EXTENDS Naturals

CONSTANTS Incarnations,  \* identities of opened runtimes
          Unbound        \* the session of a snapshot that carries no binding

ASSUME UnboundAssumption == Unbound \notin [incarnation: Incarnations, generation: Nat]

Session == [incarnation: Incarnations, generation: Nat]

Snapshot == [revision: Nat, session: Session \cup {Unbound}]

(***************************************************************************)
(* AppSnapshot::is_newer_than(previous).                                   *)
(***************************************************************************)
IsNewerThan(snapshot, previous) ==
  /\ snapshot.revision >= previous.revision
  /\ \/ /\ previous.session = Unbound
        /\ snapshot.session = Unbound
        /\ snapshot.revision > previous.revision
     \/ /\ previous.session = Unbound
        /\ snapshot.session # Unbound
     \/ /\ previous.session # Unbound
        /\ snapshot.session # Unbound
        /\ previous.session.incarnation = snapshot.session.incarnation
        /\ snapshot.session.generation >= previous.session.generation
        /\ \/ snapshot.revision > previous.revision
           \/ snapshot.session.generation > previous.session.generation

(***************************************************************************)
(* ApplicationSnapshot.orderAfter(previous).  The tests are taken in the   *)
(* order of the source: a lost or changed runtime first, then dimensions   *)
(* that disagree, then older, newer and same.                              *)
(***************************************************************************)
Lost(snapshot, previous) ==
  /\ previous.session # Unbound
  /\ \/ snapshot.session = Unbound
     \/ snapshot.session.incarnation # previous.session.incarnation

Generation(snapshot) == IF snapshot.session = Unbound THEN 0 ELSE snapshot.session.generation

BothBound(snapshot, previous) == previous.session # Unbound /\ snapshot.session # Unbound

Crossed(snapshot, previous) ==
  /\ BothBound(snapshot, previous)
  /\ \/ /\ snapshot.revision > previous.revision
        /\ Generation(snapshot) < Generation(previous)
     \/ /\ snapshot.revision < previous.revision
        /\ Generation(snapshot) > Generation(previous)

OrderAfter(snapshot, previous) ==
  CASE Lost(snapshot, previous) \/ Crossed(snapshot, previous) -> "invalid"
    [] OTHER ->
       IF \/ snapshot.revision < previous.revision
          \/ BothBound(snapshot, previous) /\ Generation(snapshot) < Generation(previous)
       THEN "older"
       ELSE IF \/ snapshot.revision > previous.revision
               \/ BothBound(snapshot, previous) /\ Generation(snapshot) > Generation(previous)
               \/ previous.session = Unbound /\ snapshot.session # Unbound
            THEN "newer"
            ELSE "same"
=============================================================================
