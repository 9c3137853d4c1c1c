----------------------------- MODULE HubJournal -----------------------------
(***************************************************************************)
(* The capacity of a hub's stock journal.  Operations and events are       *)
(* appended and never removed, so the end of the journal is a state a hub  *)
(* really reaches; what must not happen is that it is reached with a hold  *)
(* that cannot be released, an issued document that cannot be closed or a  *)
(* report that cannot be reviewed.  Every operation therefore asks         *)
(* check_budget before it writes.  Only the counters it looks at are kept. *)
(***************************************************************************)
EXTENDS Integers

CONSTANTS EventCapacity,      \* HUB_STOCK_EVENT_CAPACITY, for events and for operations
          TreatmentCapacity,  \* HUB_TREATMENT_CAPACITY
          MaxClosure,         \* most events one observation or departure takes (64)
          ReportCapacity,     \* HUB_ACTUAL_REPORT_CAPACITY
          ObservationCapacity \* HUB_CORRECTION_OBSERVATION_CAPACITY

ASSUME JournalAssumption ==
  /\ EventCapacity \in Nat /\ TreatmentCapacity \in Nat
  /\ MaxClosure \in Nat \ {0} /\ ReportCapacity \in Nat /\ ObservationCapacity \in Nat

VARIABLES operations,  \* stock revision - 1
          events,      \* hub_stock_state.event_count
          primary,     \* treatment records other than releases, and initial reviews
          open,        \* holds placed and not released
          issued,      \* preparations whose last version is issued and unused
          actual,      \* reports without a review
          owedOps,     \* unused observations: each owes one closing operation,
          owedEvents,  \*   the events of a found one
          owedReviews, \*   and its initial review
          reports,     \* rows of hub_actual_reports
          observations \* rows of hub_correction_observations

journalVars == <<operations, events, primary, open, issued, actual,
                 owedOps, owedEvents, owedReviews, reports, observations>>

JournalInit ==
  /\ operations = 0 /\ events = 0 /\ primary = 0 /\ open = 0 /\ issued = 0 /\ actual = 0
  /\ owedOps = 0 /\ owedEvents = 0 /\ owedReviews = 0 /\ reports = 0 /\ observations = 0
-----------------------------------------------------------------------------
(***************************************************************************)
(* check_budget: n events now, the change r of the reserved closures, the  *)
(* changes of what observations owe, and h slots of safety headroom.       *)
(***************************************************************************)
Reserved == open + issued + actual

\* Mutant of Fits.
FitsEventsOnly(n, r, owe, oweOps, oweReviews, h) ==
  /\ primary + owedReviews + oweReviews <= TreatmentCapacity
  /\ events + Reserved + owedEvents + n + r + owe + h <= EventCapacity

Fits(n, r, owe, oweOps, oweReviews, h) ==
  /\ primary + owedReviews + oweReviews <= TreatmentCapacity
  /\ events + Reserved + owedEvents + n + r + owe + h <= EventCapacity
  /\ operations + 1 + Reserved + owedOps + r + oweOps + h <= EventCapacity

(***************************************************************************)
(* counters_on: what the counters must satisfy before an operation trusts  *)
(* them; a journal outside this budget is reported as corrupt.             *)
(***************************************************************************)
CountersSound ==
  /\ primary + owedReviews <= TreatmentCapacity
  /\ actual <= ReportCapacity
  /\ operations + Reserved + owedOps <= EventCapacity
  /\ events + Reserved + owedEvents <= EventCapacity

HistoryOpen == primary + owedReviews < TreatmentCapacity

\* Mutants of HoldFits and DepartFits.
HoldFitsUnreserved  == HistoryOpen /\ Fits(1, 0, 0, 0, 0, 0)
DepartFitsAlways(n) == issued > 0 /\ Fits(n, -1, 0, 0, 0, 0)

OrdinaryFits(n)  == HistoryOpen /\ Fits(n, 0, 0, 0, 0, 2)
MetadataFits     == HistoryOpen /\ Fits(0, 0, 0, 0, 0, 2)
HoldFits         == HistoryOpen /\ Fits(1, 1, 0, 0, 0, 0)
ReleaseFits      == open > 0 /\ Fits(1, -1, 0, 0, 0, 0)
IssueFits        == HistoryOpen /\ Fits(1, 1, 0, 0, 0, 2)
UnusedFits       == issued > 0 /\ Fits(1, -1, 0, 0, 0, 0)
DepartFits(n)    == issued > 0 /\ HistoryOpen /\ Fits(n, -1, 0, 0, 0, 2)
ReportFits       == Fits(0, 1, 0, 0, 0, 2)
ReviewFits(p)    == actual > 0 /\ Fits(p, -1, 0, 0, 0, 0)
ObserveFits(e)   == Fits(0, 0, e, 1, IF e > 0 THEN 1 ELSE 0, 2)
FoundFits(e)     == /\ owedOps > 0 /\ owedEvents >= e /\ owedReviews > 0
                    /\ Fits(e, 0, -e, -1, 0, 0)
ClassifyFits(r)  == owedOps > 0 /\ actual >= r /\ Fits(0, -r, 0, -1, 0, 0)

\* A correction of an observation that nothing has used yet keeps its family
\* and transfers its reservation.
SupersedeFits(e, p) ==
  /\ owedOps > 0 /\ p <= owedEvents /\ (p > 0 => owedReviews > 0)
  /\ (e > 0 <=> p > 0)
  /\ Fits(0, 0, e - p, 0, 0, 2)
-----------------------------------------------------------------------------
AppendEvents(n) == operations' = operations + 1 /\ events' = events + n

UnchangedOwed == UNCHANGED <<owedOps, owedEvents, owedReviews, observations>>

\* Receipts, openings, moves, splits, work, discrepancies, counts, returns,
\* dispositions and draft papers; a counted surplus takes two events.
Ordinary(n) ==
  /\ OrdinaryFits(n) /\ AppendEvents(n)
  /\ UNCHANGED <<primary, open, issued, actual, reports>> /\ UnchangedOwed

\* An acceptance or rejection of stock is a primary treatment record.
Decide ==
  /\ OrdinaryFits(1) /\ AppendEvents(1)
  /\ primary' = primary + 1
  /\ UNCHANGED <<open, issued, actual, reports>> /\ UnchangedOwed

\* Source and recipient attributions.
Attribute ==
  /\ MetadataFits /\ AppendEvents(0)
  /\ UNCHANGED <<primary, open, issued, actual, reports>> /\ UnchangedOwed

PlaceHold ==
  /\ HoldFits /\ AppendEvents(1)
  /\ primary' = primary + 1 /\ open' = open + 1
  /\ UNCHANGED <<issued, actual, reports>> /\ UnchangedOwed

ReleaseHold ==
  /\ ReleaseFits /\ AppendEvents(1)
  /\ open' = open - 1
  /\ UNCHANGED <<primary, issued, actual, reports>> /\ UnchangedOwed

Issue ==
  /\ IssueFits /\ AppendEvents(1)
  /\ issued' = issued + 1
  /\ UNCHANGED <<primary, open, actual, reports>> /\ UnchangedOwed

MarkUnused ==
  /\ UnusedFits /\ AppendEvents(1)
  /\ issued' = issued - 1
  /\ UNCHANGED <<primary, open, actual, reports>> /\ UnchangedOwed

Depart(n) ==
  /\ DepartFits(n) /\ AppendEvents(n)
  /\ issued' = issued - 1
  /\ UNCHANGED <<primary, open, actual, reports>> /\ UnchangedOwed

Report ==
  /\ reports < ReportCapacity /\ ReportFits /\ AppendEvents(0)
  /\ actual' = actual + 1 /\ reports' = reports + 1
  /\ UNCHANGED <<primary, open, issued>> /\ UnchangedOwed

\* A review records the departure (one event) or links the report to one that
\* is already recorded (none).
Review(p) ==
  /\ ReviewFits(p) /\ AppendEvents(p)
  /\ actual' = actual - 1
  /\ UNCHANGED <<primary, open, issued, reports>> /\ UnchangedOwed

\* A found observation reserves its e > 0 events, a classification none.
Observe(e) ==
  /\ observations < ObservationCapacity /\ ObserveFits(e) /\ AppendEvents(0)
  /\ owedOps' = owedOps + 1 /\ owedEvents' = owedEvents + e
  /\ owedReviews' = owedReviews + (IF e > 0 THEN 1 ELSE 0)
  /\ observations' = observations + 1
  /\ UNCHANGED <<primary, open, issued, actual, reports>>

Supersede(e, p) ==
  /\ observations < ObservationCapacity /\ SupersedeFits(e, p) /\ AppendEvents(0)
  /\ owedEvents' = owedEvents + e - p
  /\ observations' = observations + 1
  /\ UNCHANGED <<primary, open, issued, actual, reports, owedOps, owedReviews>>

CloseFound(e) ==
  /\ FoundFits(e) /\ AppendEvents(e)
  /\ owedOps' = owedOps - 1 /\ owedEvents' = owedEvents - e
  /\ owedReviews' = owedReviews - 1 /\ primary' = primary + 1
  /\ UNCHANGED <<open, issued, actual, reports, observations>>

Classify(r) ==
  /\ ClassifyFits(r) /\ AppendEvents(0)
  /\ owedOps' = owedOps - 1 /\ actual' = actual - r
  /\ UNCHANGED <<primary, open, issued, reports, owedEvents, owedReviews, observations>>

Closures == 1 .. MaxClosure

OrdinaryWork ==
  \/ \E n \in 1 .. 2 : Ordinary(n)
  \/ Decide \/ Attribute \/ Issue \/ Report
  \/ \E n \in Closures : Depart(n)
  \/ \E e \in Closures \cup {0} : Observe(e)
  \/ \E e, p \in Closures \cup {0} : Supersede(e, p)

Closing ==
  \/ ReleaseHold \/ MarkUnused
  \/ \E p \in 0 .. 1 : Review(p)
  \/ \E e \in Closures : CloseFound(e)
  \/ \E r \in 0 .. 1 : Classify(r)

JournalNext == OrdinaryWork \/ PlaceHold \/ Closing

JournalSpec == JournalInit /\ [][JournalNext]_journalVars
-----------------------------------------------------------------------------
JournalTypeOK ==
  /\ operations \in Nat /\ events \in Nat /\ primary \in Nat
  /\ open \in Nat /\ issued \in Nat /\ actual \in Nat
  /\ owedOps \in Nat /\ owedEvents \in Nat /\ owedReviews \in Nat
  /\ reports \in Nat /\ observations \in Nat

\* No sequence of operations, whatever its order, leaves a journal that
\* counters_on calls corrupt and that could then never be written again.
JournalInv == JournalTypeOK /\ CountersSound

\* However full the journal is, every hold can be released, every issued
\* document closed, every report reviewed with its physical event and every
\* observation closed: check_budget refuses none of them (capacity.rs, "Journal
\* slots remain reserved for outstanding hold and issued-document closure").
ClosureAlwaysFits ==
  /\ open > 0 => ReleaseFits
  /\ issued > 0 => UnusedFits
  /\ actual > 0 => ReviewFits(0) /\ ReviewFits(1)
  /\ owedOps > 0 => ClassifyFits(0) /\ (actual > 0 => ClassifyFits(1))
  /\ owedOps > 0 /\ owedReviews > 0 =>
       \A e \in Closures : e <= owedEvents => FoundFits(e)

\* Stock can leave only while a precautionary hold could still be placed
\* instead: whenever a departure or ordinary work fits, so does a hold.
HoldBeforeDeparture ==
  (\E n \in Closures : DepartFits(n)) \/ OrdinaryFits(1) => HoldFits

\* After a step of ordinary work a hold and its release still fit, unless the
\* step filled the treatment history, which itself blocks every departure
\* ("A precautionary hold and its release must still fit after normal work").
WorkLeavesRoomForAHold ==
  [][OrdinaryWork => HoldFits' \/ ~ HistoryOpen']_journalVars
=============================================================================
