-------------------------- MODULE SnapshotDelivery ---------------------------
(***************************************************************************)
(* From the native change stream to the state the user interface shows.    *)
(* The native forwarder passes each received change to a callback, the     *)
(* Kotlin runtime keeps the first change and conflates the later ones, and *)
(* two coroutines of the presenter accept snapshots: the collector of      *)
(* changes and the command that awaits a native result.  The application   *)
(* runs both on Dispatchers.Default, so their reads and writes of the      *)
(* presenter state interleave; each read and each write is one step here.  *)
(***************************************************************************)
EXTENDS ChangeStream

CONSTANTS Ui,         \* the presenter's subscription
          Dispatchers, \* dispatchers the presenter's scope may be given
          MaxCommands \* bound on presenter commands

ASSUME DeliveryAssumption ==
  /\ Ui \in Subscribers
  /\ Dispatchers \subseteq {"parallel", "confined"}
  /\ MaxCommands \in Nat

VARIABLES first,       \* the initial change, once the callback received it
          emitted,     \* the initial change was handed to the collector
          conflated,   \* the newest later change not yet collected
          shown,       \* the snapshot in the presenter's state
          invalid,     \* the presenter gave the observer up as inconsistent
          collector,   \* the coroutine that collects changes
          command,     \* the coroutine of the command under way
          commands,    \* commands started so far
          working,     \* the actor is executing a command
          refreshing,  \* a profile task is outstanding
          dispatcher   \* what the coroutines of the presenter run on

uiVars == <<shown, invalid, collector, command, commands, dispatcher>>

workVars == <<working, refreshing>>

deliveryVars == <<streamVars, first, emitted, conflated, uiVars, workVars>>

Resting == [step |-> "rest"]

DeliveryInit ==
  /\ Init
  /\ first = None
  /\ emitted = FALSE
  /\ conflated = None
  /\ shown = published
  /\ invalid = FALSE
  /\ collector = Resting
  /\ command = Resting
  /\ commands = 0
  /\ working = FALSE
  /\ refreshing = FALSE
  /\ dispatcher \in Dispatchers

(***************************************************************************)
(* The native side while the observer stays attached.                      *)
(***************************************************************************)
Publishing ==
  /\ Publish \/ Retain(Ui) \/ Enqueue \/ Published
  /\ UNCHANGED <<first, emitted, conflated, uiVars, workVars>>

Subscribing ==
  /\ Subscribe(Ui)
  /\ UNCHANGED <<first, emitted, conflated, uiVars, workVars>>

(***************************************************************************)
(* What the actor settles.  A command may change revision and generation;  *)
(* a new generation cancels the outstanding profile task.  A refresh       *)
(* settles Loading and leaves its task outstanding, and the task's         *)
(* completion settles a revision whenever it arrives, after the command    *)
(* that started it timed out if need be.                                   *)
(***************************************************************************)
Work ==
  /\ working
  /\ \E r \in 0 .. MaxRevision, g \in 0 .. MaxGeneration :
       /\ Settle(r, g)
       /\ refreshing' = (refreshing /\ g = published.session.generation)
  /\ UNCHANGED <<first, emitted, conflated, uiVars, working>>

BeginRefresh ==
  /\ command.step = "native"
  /\ working /\ ~refreshing
  /\ published.revision < MaxRevision
  /\ Settle(published.revision + 1, published.session.generation)
  /\ command' = [step |-> "refresh"]
  /\ refreshing' = TRUE
  /\ working' = FALSE
  /\ UNCHANGED <<first, emitted, conflated, shown, invalid, collector, commands, dispatcher>>

Completion ==
  /\ refreshing
  /\ published.revision < MaxRevision
  /\ Settle(published.revision + 1, published.session.generation)
  /\ refreshing' = FALSE
  /\ UNCHANGED <<first, emitted, conflated, uiVars, working>>

(***************************************************************************)
(* forward_observer: a received change is passed to the callback, which    *)
(* completes the initial change or replaces the conflated one.             *)
(***************************************************************************)
\* Mutant of OnChange.
OnChangeOnlyFirst(change) ==
  IF first = None
  THEN first' = change /\ UNCHANGED conflated
  ELSE UNCHANGED <<first, conflated>>

OnChange(change) ==
  IF first = None
  THEN first' = change /\ UNCHANGED conflated
  ELSE conflated' = change /\ UNCHANGED first

Forward ==
  /\ Receive(Ui)
  /\ IF delivered'[Ui] # delivered[Ui]
     THEN OnChange(delivered'[Ui])
     ELSE UNCHANGED <<first, conflated>>
  /\ UNCHANGED <<emitted, uiVars, workVars>>

(***************************************************************************)
(* NativeHarvestCircleRuntime.changes emits the initial change and then    *)
(* whatever the conflated channel holds; the collector handles one change  *)
(* at a time.                                                              *)
(***************************************************************************)
Collect ==
  /\ ~invalid
  /\ collector.step = "rest"
  /\ \/ /\ first # None /\ ~emitted
        /\ collector' = [step |-> "compare", change |-> first]
        /\ emitted' = TRUE
        /\ UNCHANGED conflated
     \/ /\ emitted /\ conflated # None
        /\ collector' = [step |-> "compare", change |-> conflated]
        /\ conflated' = None
        /\ UNCHANGED emitted
  /\ UNCHANGED <<streamVars, first, shown, invalid, command, commands, dispatcher, workVars>>

(***************************************************************************)
(* acceptChange: only a newer change counts.  One that follows the shown   *)
(* revision directly is accepted; after a gap the runtime is asked for its *)
(* current snapshot, which must not be older than the change.              *)
(***************************************************************************)
Compare ==
  /\ collector.step = "compare"
  /\ LET change == collector.change
         order == OrderAfter(change.snapshot, shown)
     IN /\ invalid' = (invalid \/ order = "invalid")
        /\ collector' = CASE order # "newer" -> Resting
                          [] order = "newer" /\ change.previous = shown.revision ->
                               [step |-> "accept", snapshot |-> change.snapshot]
                          [] OTHER -> [step |-> "refresh", change |-> change]
  /\ UNCHANGED <<streamVars, first, emitted, conflated, shown, command, commands, dispatcher, workVars>>

Refresh ==
  /\ collector.step = "refresh"
  /\ LET inconsistent == OrderAfter(published, collector.change.snapshot) \in {"older", "invalid"}
     IN /\ invalid' = (invalid \/ inconsistent)
        /\ collector' = IF inconsistent THEN Resting ELSE [step |-> "accept", snapshot |-> published]
  /\ UNCHANGED <<streamVars, first, emitted, conflated, shown, command, commands, dispatcher, workVars>>

(***************************************************************************)
(* The presenter runs one command at a time.  The native actor answers     *)
(* with the settled snapshot of that moment, or the command times out      *)
(* while the actor is still working on it.                                 *)
(***************************************************************************)
Command ==
  /\ ~invalid
  /\ command.step = "rest"
  /\ commands < MaxCommands
  /\ command' = [step |-> "native"]
  /\ commands' = commands + 1
  /\ working' = TRUE
  /\ UNCHANGED <<streamVars, first, emitted, conflated, shown, invalid, collector, dispatcher, refreshing>>

Reply ==
  /\ \/ command.step = "native"
     \/ command.step = "refresh" /\ ~refreshing
  /\ sending = Idle
  /\ command' = [step |-> "accept", snapshot |-> published]
  /\ working' = FALSE
  /\ UNCHANGED <<streamVars, first, emitted, conflated, shown, invalid, collector, commands, dispatcher, refreshing>>

TimeOut ==
  /\ command.step \in {"native", "refresh"}
  /\ command' = Resting
  /\ UNCHANGED <<streamVars, first, emitted, conflated, shown, invalid, collector, commands, dispatcher, workVars>>

(***************************************************************************)
(* acceptSnapshot, called from both coroutines: the order is decided       *)
(* against the state read here, and the state is replaced in a later step. *)
(***************************************************************************)
\* Mutant of Accepted.
AcceptedAlways(snapshot) == [step |-> "store", snapshot |-> snapshot]

Accepted(snapshot) ==
  IF ~invalid /\ OrderAfter(snapshot, shown) \in {"same", "newer"}
  THEN [step |-> "store", snapshot |-> snapshot]
  ELSE Resting

AcceptChange ==
  /\ collector.step = "accept"
  /\ collector' = Accepted(collector.snapshot)
  /\ invalid' = (invalid \/ OrderAfter(collector.snapshot, shown) = "invalid")
  /\ UNCHANGED <<streamVars, first, emitted, conflated, shown, command, commands, dispatcher, workVars>>

AcceptReply ==
  /\ command.step = "accept"
  /\ command' = Accepted(command.snapshot)
  /\ invalid' = (invalid \/ OrderAfter(command.snapshot, shown) = "invalid")
  /\ UNCHANGED <<streamVars, first, emitted, conflated, shown, collector, commands, dispatcher, workVars>>

StoreChange ==
  /\ collector.step = "store"
  /\ shown' = IF invalid THEN shown ELSE collector.snapshot
  /\ collector' = Resting
  /\ UNCHANGED <<streamVars, first, emitted, conflated, invalid, command, commands, dispatcher, workVars>>

StoreReply ==
  /\ command.step = "store"
  /\ shown' = IF invalid THEN shown ELSE command.snapshot
  /\ command' = Resting
  /\ UNCHANGED <<streamVars, first, emitted, conflated, invalid, collector, commands, dispatcher, workVars>>

(***************************************************************************)
(* The presenter is given its coroutine scope.  On a parallel dispatcher,  *)
(* the application's, the two coroutines interleave at every step; on a    *)
(* confined one a resumed coroutine runs until it suspends again.          *)
(***************************************************************************)
Collector ==
  /\ dispatcher = "parallel" \/ command.step # "store"
  /\ Collect \/ Compare \/ Refresh \/ AcceptChange \/ StoreChange

Commander ==
  /\ dispatcher = "parallel" \/ collector.step = "rest"
  /\ AcceptReply \/ StoreReply

DeliveryNext ==
  \/ Work \/ BeginRefresh \/ Completion \/ Publishing \/ Subscribing \/ Forward
  \/ Collector \/ Command \/ Reply \/ TimeOut \/ Commander

DeliverySpec == DeliveryInit /\ [][DeliveryNext]_deliveryVars

(***************************************************************************)
(* Fairness: a publication finishes, and the forwarder and both coroutines *)
(* keep running while they can.  The subscription waits in the actor's     *)
(* first-in first-out mailbox, so other commands cannot pass it forever.   *)
(* Nothing forces another settlement or another command.                   *)
(***************************************************************************)
DeliveryFairness ==
  /\ WF_deliveryVars(Publishing)
  /\ SF_deliveryVars(Subscribing)
  /\ WF_deliveryVars(Forward)
  /\ WF_deliveryVars(Collector)
  /\ WF_deliveryVars(Commander)

FairDelivery == DeliverySpec /\ DeliveryFairness
-----------------------------------------------------------------------------
(***************************************************************************)
(* Every part has its type; the callback conflates changes only after it   *)
(* completed the initial one, and only a completed one is emitted.         *)
(***************************************************************************)
DeliveryTypeOK ==
  /\ TypeOK
  /\ first \in Changes \cup {None} /\ conflated \in Changes \cup {None}
  /\ first = None => conflated = None /\ ~emitted
  /\ shown \in Snapshot
  /\ collector.step \in {"rest", "compare", "refresh", "accept", "store"}
  /\ command.step \in {"rest", "native", "refresh", "accept", "store"}
  /\ commands \in 0 .. MaxCommands
  /\ {emitted, invalid, working, refreshing} \subseteq BOOLEAN
  /\ dispatcher \in Dispatchers

(***************************************************************************)
(* The presenter never declares its observer inconsistent: no interleaving *)
(* of publication, conflation, refresh and command results presents it a   *)
(* snapshot it must call invalid, nor a refresh older than the change that *)
(* asked for it.  Declaring it shuts every screen until a restart.         *)
(***************************************************************************)
ObserverStaysConsistent == ~invalid

(***************************************************************************)
(* The callback conflates nothing before the initial change was completed, *)
(* and the presenter never declares its observer inconsistent.             *)
(***************************************************************************)
DeliverySound == DeliveryTypeOK /\ ObserverStaysConsistent

(***************************************************************************)
(* The snapshot on screen never moves backwards, on any dispatcher.        *)
(***************************************************************************)
ShownNeverRegresses ==
  [][OrderAfter(shown', shown) \in {"same", "newer"}]_shown

(***************************************************************************)
(* Where coroutines are confined to one thread, the comparisons of         *)
(* acceptChange and acceptSnapshot keep it from moving backwards.          *)
(***************************************************************************)
ConfinedNeverRegresses ==
  [][dispatcher = "confined" => OrderAfter(shown', shown) \in {"same", "newer"}]_shown

(***************************************************************************)
(* There, once the runtime stops changing, the screen shows its last       *)
(* snapshot for good, whatever was conflated, missed or timed out.         *)
(***************************************************************************)
ConfinedConverges == dispatcher = "confined" => <>[](shown = published)
=============================================================================
