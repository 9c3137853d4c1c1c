------------------------ MODULE AvailabilityEvidence ------------------------
(***************************************************************************)
(* Retained availability versions and the one row that accounts for them,  *)
(* public_payload_usage.  A version is charged for its wire, identifier,   *)
(* source, admission label and rejection code.  The same signed event may  *)
(* arrive again in other wire and from another source; the row that came   *)
(* first stays.  Every operation is one transaction and begins by          *)
(* recomputing the account from the rows.                                  *)
(***************************************************************************)
EXTENDS Integers, FiniteSets

CONSTANTS EvidenceEvents,     \* event identifiers
          Admission,          \* what each event is admitted as: [label, reason], lengths in bytes
          WireSizes, SourceSizes, IdentifierSize,
          FixedBytes, VersionCapacity, OrdinaryBytes, TotalBytes,
          WireLimit, SourceLimit, RejectionLimit

ASSUME EvidenceAssumption ==
  /\ WireSizes \subseteq Nat /\ SourceSizes \subseteq Nat
  /\ Admission \in [EvidenceEvents -> [label : Nat, reason : Nat]]
  /\ {IdentifierSize, FixedBytes, VersionCapacity, OrdinaryBytes, TotalBytes} \subseteq Nat
  /\ {WireLimit, SourceLimit, RejectionLimit} \subseteq Nat
  /\ OrdinaryBytes <= TotalBytes

VARIABLES evidence,  \* availability_versions: event -> row
          usage,     \* public_payload_usage
          retained   \* the view each event was first retained with

evidenceVars == <<evidence, usage, retained>>

View(e, wire, source) == [event |-> e, wire |-> wire, source |-> source, admission |-> Admission[e]]

EvidenceViews == {View(e, w, s) : e \in EvidenceEvents, w \in WireSizes, s \in SourceSizes}
-----------------------------------------------------------------------------
\* admission: the reason is bounded, and only a rejected projection has one.
Admitted(v) == v.admission.reason <= RejectionLimit

ChargeBounded(v) == v.wire <= WireLimit /\ v.source \in 1 .. SourceLimit /\ v.admission.label > 0

\* version_charge, and the charge validate_public_usage recomputes in SQL.
VersionCharge(v) ==
  FixedBytes + v.wire + IdentifierSize + v.source + v.admission.label + v.admission.reason

\* A SQL sum of lengths, counted byte by byte.
BytesOf(length) == UNION {{e} \X (1 .. length[e]) : e \in DOMAIN length}

Charges(rows) == Cardinality(BytesOf([e \in DOMAIN rows |-> rows[e].charge]))

Recomputed(rows) == Cardinality(BytesOf([e \in DOMAIN rows |-> VersionCharge(rows[e].view)]))

\* validate_public_usage
UsageValid ==
  /\ usage.count \in 0 .. VersionCapacity /\ usage.bytes \in 0 .. TotalBytes
  /\ usage.count = Cardinality(DOMAIN evidence)
  /\ usage.bytes = Charges(evidence) /\ usage.bytes = Recomputed(evidence)
  /\ \A e \in DOMAIN evidence : evidence[e].charge = VersionCharge(evidence[e].view)

\* decode_availability_row: the wire is verified again and correlated with the row.
DecodesAs(e) ==
  LET v == evidence[e].view IN
  /\ Admitted(v) /\ ChargeBounded(v)
  /\ v.event = e /\ v.admission = Admission[e]
  /\ evidence[e].charge = VersionCharge(v)

LoadVersion(e) == IF UsageValid /\ DecodesAs(e) THEN evidence[e].view ELSE <<>>

\* Mutant of HasRoom: the last place may be taken twice.
HasRoomAtCapacity(charge) == usage.count <= VersionCapacity /\ usage.bytes + charge <= OrdinaryBytes

HasRoom(charge) == usage.count < VersionCapacity /\ usage.bytes + charge <= OrdinaryBytes

WithRow(rows, e, row) == [x \in DOMAIN rows \cup {e} |-> IF x = e THEN row ELSE rows[x]]

Insert(v, charge) ==
  /\ evidence' = WithRow(evidence, v.event, [view |-> v, charge |-> charge])
  /\ usage' = [count |-> usage.count + 1, bytes |-> usage.bytes + charge]
  /\ retained' = WithRow(retained, v.event, v)

\* retain_availability_version_on.  Known evidence is read back and kept.
Retain(v) ==
  /\ UsageValid
  /\ IF v.event \in DOMAIN evidence
       THEN DecodesAs(v.event) /\ UNCHANGED evidenceVars
       ELSE /\ Admitted(v) /\ ChargeBounded(v) /\ HasRoom(VersionCharge(v))
            /\ Insert(v, VersionCharge(v))

EvidenceInit == evidence = <<>> /\ usage = [count |-> 0, bytes |-> 0] /\ retained = <<>>

EvidenceNext == \E v \in EvidenceViews : Retain(v)

EvidenceSpec == EvidenceInit /\ [][EvidenceNext]_evidenceVars
-----------------------------------------------------------------------------
(***************************************************************************)
(* Evidence that was retained is loaded for ever, with the wire and the    *)
(* source it first came with: no later arrival of the same event and no    *)
(* limit, of versions or of bytes, makes the account disagree with the     *)
(* rows (load_availability_version, validate_public_usage).                *)
(***************************************************************************)
EvidenceStands == UsageValid /\ \A e \in DOMAIN retained : e \in DOMAIN evidence /\ LoadVersion(e) = retained[e]
=============================================================================
