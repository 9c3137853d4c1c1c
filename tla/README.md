# A TLA+ model of HarvestCircle

HarvestCircle is a desktop application for running a local food hub: a Rust core
(`src/core/crates`) behind a Kotlin user interface (`src/app`). This directory
holds TLA+ modules for the parts of it where order matters, the TLC
configurations that check them on small instances, and TLAPS proofs of what
matters most for every value of the constants.

    tlc -workers 2 -config IdentityCustody.cfg IdentityCustody
    tlapm IdentityCustodyProofs.tla

`PROJECT.json` lists the components, the runs, the source lines behind every
definition, the mutants each property is known to catch, the hazards and the
findings.

## The system and its parts

| part | state | operations | interacts with |
|---|---|---|---|
| native interface (`harvestcircle_ffi`) | open or closed, resolution of a generated key | the calls of `HarvestCircleAppCore` | mailbox |
| lifecycle gate and mailbox (`actor.rs`, `bootstrap.rs`) | opening, ready, closing; queued commands | open, submit, expire, close | interface, actor |
| runtime actor (`runtime_actor.rs`) | lifecycle, session generation, foreground binding, profile tasks | one command at a time, each under a deadline; completions of profile tasks; close | everything below |
| core state machine (`state_machine.rs`, `app_core.rs`) | snapshot: identities, selection, session, profile; removal tokens; generated-key stage | transitions that raise the revision | actor |
| identity custody (`identities.rs`, `session.rs`, `recovery.rs`) | journal phase of each durable request | create, import, repair, remove, select, activate; recovery on every open | keyring, SQLite |
| keyring worker (`keyring_worker.rs`, `os_keyring.rs`) | bounded queue, phase of each request | submit, cancel, execute, close | OS credential store |
| SQLite store (`harvestcircle_storage`) | identities, selection, `durable_operations`, hub tables | one transaction at a time | custody, hub |
| hub submissions (`hub/submission`) | admitted originals, rejections, durable session row | admit, execute, reject, read, begin runtime, advance session | actor, food hub |
| food hub (`hub/stock`, `handling`, `treatment`, `dispatch`, `custody`, `counts`, `actuals`, `corrections`) | append-only stock journal; populations, groups, positions, work | some thirty kinds of command, each planned on what strict readers return and read back before it commits | hub submissions, reference records |
| reference records (`hub/reference`) | immutable versions of products, packs, parties, locations | create, revise, replay, history | food hub |
| profile cache, availability evidence | cached rows, retained events and their accounted bytes | save, restore; retain, load | actor, relay client |
| change stream (`change_stream.rs`) | latest snapshot, subscribers' queues and watch cells | publish, subscribe, receive, close | actor, observers |
| observers and client (`observer.rs`, `NativeHarvestCircleRuntime.kt`, `HarvestCirclePresenter.kt`) | registry, forwarder, conflated channel, shown snapshot | subscribe, forward, unsubscribe, shut down, collect, accept | change stream, actor |
| relay client, key codecs, FFI conversion, trace output, screens | little or none | pure functions, network and layout | |

What makes these parts hard: a deadline drops a future wherever it waits, while
a keyring call or a queued command it had started goes on; an identity lives in
two stores without a common transaction; the process may stop between any two
steps; a hub mutation is admitted and executed in different transactions with
the session free to change in between; nothing in the stock journal is ever
removed, and every read computes an original again from tables that have changed
since, so one wrong row stops the hub; snapshots travel through bounded and
conflating queues to two coroutines that run in parallel.

## The modules

| module | models | extends / refines |
|---|---|---|
| `IdentityCustody` | custody, the journal, recovery | |
| `KeyringWorker` | the worker thread and its callers | |
| `RuntimeSession` | session, fence, profile tasks, generated-key stage, removal tokens | |
| `RuntimeCommands` | every call of the interface, its command and its class | |
| `RuntimeActor` | mailbox, deadlines, preflight, execution, close | `RuntimeCommands` |
| `ObserverRegistry` | observers, forwarders, shutdown | composes with `RuntimeActor` |
| `SnapshotOrder` | the order of snapshots in Rust and in Kotlin | |
| `SnapshotFeed` | what a change stream promises (abstract) | |
| `ChangeStream` | the ordered change stream | `SnapshotOrder`, refines `SnapshotFeed` |
| `SnapshotDelivery` | forwarder, Kotlin runtime and presenter | composes `ChangeStream` with its client |
| `SubmissionOutcome` | what a submission promises (abstract) | |
| `HubSubmission` | admission, execution, rejection, fences | refines `SubmissionOutcome` |
| `HubTables` | the stock tables and their strict readers | |
| `HubHandling` | receiving, opening counts, moving, splitting, work, discrepancies | `HubTables` |
| `HubTreatment` | acceptance and holds over captured scopes | `HubHandling` |
| `HubDispatch` | papers and departures | `HubTreatment` |
| `HubCustody` | dispositions and returns | `HubDispatch` |
| `HubCounts` | count observation, review, posting | `HubCustody` |
| `HubActuals` | reports of actual departures and their reviews | `HubCounts` |
| `HubAttribution` | corrections of source and recipient | `HubActuals` |
| `HubCorrections` | found and additional packs | `HubAttribution` |
| `HubLedger` | all of these on one journal | `HubCorrections` |
| `HubJournal` | the capacity of that journal | |
| `HubReference` | versioned reference records | |
| `RecordBytes`, `HubIntents`, `HubSeals`, `HubRecords` | what is hashed, and what is believed because of it | each extends the one before |
| `ProfileCache` | the cached and the shown profile | |
| `AvailabilityEvidence` | retained availability versions and their account | |

Each `MC...` module instantiates one of them for TLC (`MCHubRecords` several);
where a configuration alone gives the constants their values (custody, keyring,
stream, delivery) the module is checked as it is. The `...Proofs`
modules hold the theorems, by component: `IdentityCustodyProofs`,
`ObserverRegistryProofs` and `SnapshotDeliveryProofs` (with the stream it
composes and `SnapshotOrder`) about one each; `RuntimeSessionProofs` about the
session and the profile cache; `CapacityProofs` about the keyring worker,
retained evidence and the capacity of the journal; `HubRequestProofs` about
submissions and reference records; `HubLedgerProofs` about the stock ledger, on
the lemmas of `HubStockProofs`.

### IdentityCustody

`keyring` maps a key to the request whose envelope holds its credential;
`registry`, `selected` and `journal` are the SQLite tables; `snapIds`,
`snapSel`, `active`, `pending` are the published core state. A command is a
sequence of steps: the store calls of the current journal phase, counted by
`stage`, then the journal update, so that anything can happen between any two.
`Create`, `Import`, `Remove`, `Select`, `Activate`, `SignOut` begin commands;
`PutCredential` to `Refused` are their steps. `Abandon` is a failed call or a
missed deadline, and leaves a keyring mutation `late` if the worker had started
it; `LateCompletion` lets it take effect. `Crash` and `Close` end the process;
`Open`, `RecoverCredential` to `RecoverJournal`, `Bootstrap` and `RecoveryFails`
are `recover_durable_operations` and `bootstrap_from`. `contested` and
`overlapped` are history: which keys, and whether any operations, had a second
operation begun before the first was finished.

A replayed request, a stale revision and a refused precondition change nothing
and have no step. Request identifiers are UUIDv7 values; recovery takes them in
identifier order, and since a wall clock makes that order, the model does not
insist that they are begun in it.

### KeyringWorker

One caller per request, one worker thread, one call that closes. The phase of a
request moves by compare-and-swap: `Abandon` may win it from `Take` or lose it.
`Die` is a panic of the store call, `Exit` the end of the loop; both drop every
answer still queued. A load carries no phase. `IdentityCustody` uses this
component as the assumption that a cancelled mutation did not happen and a
started one may still happen: what `CancelledNeverRuns` and
`UnavailableMeansUntouched` establish.

### RuntimeSession

One action per command of the actor that changes the session: the core
transition, the advance of the durable row and of the generation, and the new
foreground binding are one step, because the actor runs no other command
between them; the ways the command can end (fence lost, completion not
recorded, deadline) are actions of their own. `HubActor` is the check a hub
command meets. An import may be of a registered identity too: it then repairs a
missing credential, which this module does not see. Profile tasks complete at
any time.

### RuntimeCommands, RuntimeActor and ObserverRegistry

The boundary in front of the actor. `RuntimeCommands` is the table of the
interface: which calls carry a request context, which command each one submits,
and whether that command is read-only, changes the hub or changes the session.
In `RuntimeActor` a ticket is one command on its way: `Call` submits it,
`Expire`, `TimeOut` and `Abandon` are its deadline, the caller that stops
waiting and the caller that is dropped; `Take` is `Preflight` (expired, stale
revision, closing) and the start of execution, and the `Finish...` actions are
the ways each class ends. A caller that has left leaves its command in the
mailbox. `Resolution` is the one-shot state of a generated key's request.

`ObserverRegistry` adds the two registries of observers, the forwarder tasks and
`shutdown_v2`: subscribing, delivery, retirement, abort at the next await, the
shared gate, joining, closing the actor and stopping the workers, each a step at
which the future may be dropped. `RuntimeSession` models what the session
commands do; here a session command only moves the generation.

### ChangeStream, SnapshotFeed and SnapshotDelivery

A publication is split at every point where a receiver on another thread can
look: settle, publish, retain and enqueue for each subscriber. A receiver's
`receive` is split the same way. `SnapshotFeed` is the promise: one log of
snapshots through which each observer only moves forward, and an end that is
reported only after the tail. `SnapshotDelivery` composes the stream with the
forwarder, the callback, the conflated channel and the presenter's two
coroutines, each read and write of the presenter's state being a step.
`dispatcher` says what those coroutines run on: the application uses
`Dispatchers.Default` ("parallel"), a single-threaded scope is "confined".

### HubSubmission and SubmissionOutcome

`submission`, `rejected` and `root` are the tables, `session` the durable row,
`call` the grants in memory. `Admit`, `Execute` and `RejectOn` are the three
transactions; `EffectGuard`, `UncertainStockGuard` and `ObservedStockGuard` are
the triggers of `schema-v16.sql`, `schema-v17.sql` and `schema-v19.sql` in the
form the last migration leaves them in. What an effect writes is abstracted to
the original it leaves and to the reports and observations it opens or closes
(`openFacts`). `told` and `applied` are history.
`SubmissionOutcome` is the promise: a submission has one chance, which ends with
the answer, the session or the process, and outcomes are final.

### The stock ledger: HubTables to HubLedger

`ops` and `events` are the append-only journal, `pop`, `group`, `pos`, `work`
and `alloc` the tables of populations, groups, positions, requirements and
their allocations to groups. `told` is what each operation was answered with and
`plan` what the last one planned; both are history. A group, a population or a
requirement is named by the operation that made it, and operation `i` leads from
stock revision `i` to `i + 1`.

One action per command: its guard is the domain's plan and validation, its
primed variables are the rows it writes, and `Record` appends the operation, its
events, the answer and the groups it expects to read back. Beside each action
stand its readers (`...Readable`, and `...Original`, which computes the answer
again from what is stored): they are the code that runs whenever the operation
is replayed, reviewed or traced. A reader that fails reports a corrupt store and
stops the hub, so the question throughout is whether any later command can make
an earlier one unreadable. Where a command reads its own row back before it
commits and its reader counts otherwise than its planner, the comparison is a
guard (in `Treat` and `ReturnStock`): such a command is refused and leaves
nothing. `StockGuard` is the part of the triggers on the operations table that
depends on the ledger. A refused, stale or repeated command changes nothing
and is no step. Times are an occurrence, unknown, known or an interval, said
about a command recorded at a clock; the clock may go backwards.

The modules follow the domain: `HubHandling` (receipts, openings, movements,
splits, work, discrepancies), `HubTreatment` (a scope of groups captured at a
revision follows the packs into later groups), `HubDispatch` (papers are
prepared, revised, issued, replaced, marked unused; a departure consumes the
version last issued), `HubCustody` (dispositions; returns, linked to a departure
line only as far as the line allows), `HubCounts` (a review names every reason
not to post), `HubActuals` (a report changes no stock; a review closes it once,
as a departure or as a link), `HubAttribution` (corrections of who, with
everything they affect) and `HubCorrections` (packs found again or additional;
the corrected line itself never changes).

`Programs` is what a behaviour of `HubLedger` explores: a sequence of steps, each
giving the kinds of command it may be, its clock and its occurrence; the
groups, packs, places, labels, papers and lines it is about are all tried. Which
program runs is chosen in `Init`. This replaces a bound on depth, which would
have ended long before a correction of a departure.

### HubJournal

Only the counters `check_budget` looks at: operations, events, treatments, open
holds, issued papers, open reports and what observations are owed. Every command
asks whether it leaves room for everything already owed: a release for each
hold, a closure for each paper, a review for each report, a use for each
observation.

### The stores beside the ledger

`HubReference` keeps the one table of reference versions, the receipt each
request was answered with, the catalogs of the past and a client that pages
through a history. `RecordBytes` says how fields become bytes; `HubIntents` and
`HubSeals` list, for every command and for every sealed result, the fields the
record has and, apart from that, the fields its hasher takes; `HubRecords` is
what rests on it: a command repeated under its request is answered with the
stored result only if the digests agree, and a result is returned only if its
seal does. `ProfileCache` has several refreshes under way at once, which
complete in any order and may be cut between the save and what follows.
`AvailabilityEvidence` retains signed events against a byte account that every
operation computes again. These stores share no step, so `MCHubRecords` has a
`focus`: each behaviour is about one of them, and TLC adds their states up
instead of multiplying them.

## What the runs check

States are distinct states; times are with two workers.

| run | instance | result |
|---|---|---|
| `custody` | 2 keys, 2 requests, both capacities 2, 3 faults; 432,630 states, 1.7 min | the stores agree, the active identity has a credential, only a removal deletes, the inductive invariant holds; without side-by-side abandonment every reconciled state restores and recovery completes |
| `custody_envelope` | 1 key, 2 requests, 1 fault | **violated**: recovery deletes another request's credential |
| `custody_stuck` | 2 keys, 2 requests, 1 fault | **violated**: every open fails at the same step |
| `keyring` | 4 requests (one a load), 2 slots; 105,688 states, 50 s | who wins the phase; an unavailable answer is clean; close leaves nothing; every call returns; a closed worker ends |
| `session` | 2 identities, 2 tasks, revisions to 6, generations to 2; 450,560 states, 40 s | fence, stage, removal impact, visible changes and loading |
| `boundary` | 3 calls, 2 observers for 1 place, 2 shutdowns, 2 mailbox slots, 1 refresh; every call of the interface; 42,698 states, 1.3 min | what a caller is told is what happened, under the session and snapshot of its call; nothing begins after it was answered; unsubscribed and ended observers are quiet; after a shutdown nothing runs, and it returns |
| `stream` | 2 subscribers, 1-slot queues, revisions and generations 0 to 1; 172,734 states, 1.1 min | nobody misses the tail, parks stale or overtakes readers; refinement of the feed; retained changes arrive |
| `delivery` | revisions 0 to 2, generations 0 to 1, 2 commands, both dispatchers; 580,677 states, 2.6 min | the observer is never declared inconsistent; on a confined dispatcher the screen never moves back and converges |
| `delivery_race` | parallel dispatcher | **violated**: the screen moves back |
| `ledger` | 22 programs of 4 to 11 commands, 1 pack variant, 3 places, 3 labels, 2 packs at a time, 4 treatments; 32,200 states, 1.6 min | what these programs leave in the tables is accepted by every reader, every original reads as it was answered, every plan is read back; held stock does not depart; no pack is credited twice; what a correction affects stays affected; two open observations stay open |
| `ledger_release` | one of these programs | **violated**: a hold that can never be released |
| `records` | submissions: 3 operations (each may be one recorded before admissions existed), 2 actors, all 7 kinds, capacities 2 and 1, 1 restart; 3 reference records, 4 requests; one byte layout per command and result; journal of 8 slots, 4 treatments, 2 reports, 3 observations; 2 overlapping refreshes; 5 events against 3 rows and 30 bytes; 288,813 states, 2.5 min | effects once and under their session, answers stay true, a lost submission stops planned work for good, refinement of the promise; receipts, catalogs and history stand; different records have different bytes; every open hold, paper, report and observation can still be closed; the cache keeps the latest event and the screen does not go back; the account of the evidence stays exact |

Several invariants are conjunctions that name their parts (`JournalReadsBack`,
`ObserversEnd`, `ReferenceStands`, `SessionSound`, ...): the parts answer one
question together, and each is stated and commented on its own in its module.

Why the bounds are enough. Two requests give every pair of overlapping
operations, and three faults let both be abandoned and the process crash; two
keys give a selection somewhere to fall back to. Four requests fill a two-slot
queue with one executing and one refused. One-slot queues drop from the second
publication on. Three operations leave two submissions beside any third one,
and capacities of 2 and 1 are reached. Two mailbox slots are filled by the third
call; one place for two observers is taken, freed and taken again. In the ledger
two packs can be split, moved and lost apart; every kind of command occurs in a
program, most of them before and after a split, a departure or a correction of
the same packs. `Backwards` records them on a clock that goes back and
`ReturnedEarlier` returns on a clock before that of the departure;
`FilledByFound` fills the history of a population with the review of a group
found again. What a
program does not contain is not explored: no two departures of one population
are both corrected, and scopes of more than three groups do not occur. A journal
of eight slots with closures of up to two events is filled in every order; the
proofs cover every capacity. Revisions, generations, commands, faults and
restarts are capped by the named `Max...` constants and by nothing else.
Symmetry is used only in runs without liveness (`session`, `ledger`,
`ledger_release`, `records`).

Deadlock is checked in the three custody runs. The other systems may stop:
closed, out of capped revisions, at the end of a program or a journal, or with
nothing left to do.

Fairness. `custody`: command and recovery steps, late keyring calls and
reopening are weakly fair; faults are bounded, so this says that the actor and
the thread keep running and that somebody opens a closed application.
`keyring`: the thread runs, store calls return and a caller with an answer is
polled. `stream`: the actor finishes a publication (straight-line code without
an await) and each receiver is polled. `delivery`: the same, the two coroutines
are scheduled, and the subscription is strongly fair because it waits in the
actor's first-in first-out mailbox. `boundary`: the actor runs, every command
ends (each has a deadline), callbacks return and forwarders are polled; an abort,
an unsubscription and a shutdown are strongly fair, because an aborted task is
polled once more at its next await and the gate is a first-in first-out mutex.
Nothing forces another settlement, call, command, reply, drop or fault.

## Findings

* `custody_envelope`, `custody_stuck`. An abandoned operation stays unfinished
  until the next open, and further operations may begin before that. Recovery
  then acts on each alone: `delete` ignores the request it is given, so an
  abandoned addition takes the credential of a later, finished one for the same
  key with it; and a recorded fallback selection may be gone, which fails every
  open. `OnlyRemovalDeletes`, `ReconciledStateRestores` and
  `SerialRecoveryCompletes` show that both need operations abandoned side by
  side.
* `delivery_race`. `acceptSnapshot` compares and stores in two steps while two
  coroutines run it in parallel; `ConfinedNeverRegresses` and
  `ConfinedConverges` show that on a single-threaded scope the same code keeps
  its order and catches up; in parallel it may also stay behind for good.
* `ledger_release`. The capacity mark of a treatment counts the initial reviews
  of found groups (`treatment/state.rs:206`), its reader counts the treatment
  records only (`treatment/history.rs:257`), and the command runs the reader
  before it commits. They differ only when the history of a population is full
  and part of it is an initial review: from then on every release of a hold on
  it is refused as corrupt storage, although "release and original-result replay
  remain available at primary capacity" (`architecture.md:490` to 492). The same
  disagreement refuses the decision or the hold that would have taken the last
  place. Nothing unreadable is stored: `JournalReadsBack` holds on the same
  program.

Observations that are not runs of their own; each is reproduced by TLC in
seconds:

* `RuntimeSessionRemoval.cfg` with `MCRuntimeSession`: a removal of another
  identity cancels the refreshes of the active one (`runtime_actor.rs:1732`) and
  leaves its profile at Loading with no task (`CancellationSettlesLoading`). With
  `CompletionSettlesLoading` in its place, a completion that arrives after a
  dropped activation is ignored (`runtime_actor.rs:1647`) with the same result.
  `LoadingStaysServed`, in `session`, shows that no step does so other than one
  that changes the registry or one taken while an activation is unfinished.
* `RecoveryLockout.cfg` with `MCObserverRegistry`: `acknowledge_generated_identity`
  marks its request as resolved whatever the actor answered (`commands.rs:1347`
  to 1382), so after an acknowledgement that was refused or expired in the
  mailbox the stage can be neither acknowledged nor cancelled, and an import is
  refused until it expires. The comment there (1345, 1346) says that a failed
  commit "must be recovered by importing the already-saved recovery key".
* `TwoObservationsStay`, in `ledger`: found stock is posted only when its
  observation is the only open one, so two observations opened one after the
  other stay open, and with them every planned kind, from receipts to
  dispositions, stays refused (`StockGuard`).
* `HubLedgerReturn.cfg` with `MCHubLedger` (`UncertainIntakeIsRetained`): after a
  return that was recorded at an earlier clock than its departure, every further
  return that names this departure is refused as corrupt storage. What
  was returned before is added up by `returns_on`, which passes over such a
  return (`corrections/funding.rs:181` to 186), and recounted before the commit
  by `context_on`, which does not (`returns/read.rs:376` to 380).
  `architecture.md:317` says that "Uncertain associations retain the actual new
  intake".
* `LostStopsPlannedWork`, in `records`: one submission whose call was dropped, or
  whose process stopped, between its admission and its outcome stops every
  planned mutation of the hub for good.

## What is proved

TLC explores one small instance of each module; the theorems hold for every
value of the constants that the named assumptions allow: `CustodyAssumption`,
`HubAssumption`, `WorkerAssumption`, `SessionAssumption`, `UnboundAssumption`,
`StreamAssumption`, `DeliveryAssumption`, `LimitsAssumption`,
`TicketsAssumption`, `PlacesAssumption`, `ProfileAssumption`,
`JournalAssumption`, `EvidenceAssumption` and `ReferenceAssumption`. Each only
says what the constants are: numbers are numbers, limits that the code makes
positive are positive and ordered as in the code, the value `None` is no
number, request, ticket or snapshot, event times have an upper bound (they are
integers of fixed width).
No theorem assumes anything about the behaviour of the program.

Every proof has the same plan. An inductive invariant is stated; one lemma per
action shows that the action keeps it, part by part; a last lemma puts the
actions together. Invariants then follow from it in one state, action properties
and refinements in one step.

* `IdentityCustodyProofs`: `CustodyInvariant` (`CustodyInv`),
  `RemovalsAloneDelete` (`OnlyRemovalDeletes`) and `SettledStateRestores`
  (`ReconciledStateRestores`). `CustodyInv` is inductive as it stands in the
  model. Its core is `OperationAgrees`: for every phase of an unfinished
  operation and every store call already made within that phase, what keyring
  and registry may hold. It is needed because recovery knows the phase and
  nothing else. `LateFits` adds that a keyring call which outlived its command
  belongs to an abandoned operation still at its intent; `TaskFits` that the
  running command owns its operation; `SessionFits` that nothing running or in
  flight can take the active credential away. From these, a step that empties a
  keyring cell either belongs to a removal or empties the cell of an unfinished
  addition. `RestoreInv` is the second invariant: an operation that overlapped
  no other has recorded a selection to come back to (`SelectionAgrees`), from
  before its first change to after its last.
* `CapacityProofs`, the keyring worker: `CancellationIsFinal`, `UnavailableIsClean`,
  `WorkerTyped` and `ClosedIsEmpty` (`WorkerSound`). `WorkerInv` ties the phase
  of a request to its place in the queue and to what its caller was told; it is
  needed because whether a cancelled request runs is decided when it is taken,
  long after the call returned. `CloseInv` adds that nothing is queued behind
  the close request and that every waiting caller is queued, running or
  answered.
* `RuntimeSessionProofs`, the session: `SessionIsSound` (`SessionSound`) and the action
  properties `SessionsAreFenced`, `ChangesAdvance`, `RemovalsAreAsShown` and
  `LoadingIsServed`. `SessionInv` adds to `SessionSound` that the fence of the
  foreground binding is the durable row, and that a confirmation made at the
  current revision still shows the impact its removal would have.
* `ObserverRegistryProofs`: `AnswersAreHonest` (`AnswersMatchEffects`),
  `ObserversComeToAnEnd` (`ObserversEnd`) and `AnsweredNeverBegins`
  (`NothingBeginsAnswered`), about mailbox, actor, observers and shutdown
  together. The invariant is `BoundaryInv`. Its actor half says that a command
  still queued, running or outstanding has taken no effect, is in one place
  only, and was answered to its caller at most by the deadline (`PendingFits`,
  `PendingOnce`), and that a running hub mutation still sees the revision it
  was sent with (`RunningIsCurrent`). Its registry half says which steps of
  subscribing, forwarding, unsubscribing and shutting down go together: a
  forwarder that runs is registered, one that is retired is over, one that was
  joined does not run, and from the step at which a shutdown has joined everyone
  both registries stay empty (`ObserverFits`, `PlacesFit`, `ShutdownFits`). `AnsweredNeverBegins` needs exactly that only a deadline
  answers a queued command, and that preflight looks at the deadline.
* `SnapshotDeliveryProofs`, for the stream, its client and the order both use:
  `NewerIsAPartialOrder` (with the exact pairs it leaves unordered),
  `OrdersAgree`, `OlderMirrorsNewer` (Rust's and Kotlin's order agree on every
  pair of snapshots); `StreamMissesNothing`
  (`ReceiversMissNothing`); `StreamIsAFeed` (the refinement of `SnapshotFeed`);
  `ObserverStays` (`DeliverySound`) and `ConfinedScreenAdvances`
  (`ConfinedNeverRegresses`). `StreamInv` says, for each position a receiver
  can have in `receive` and each position the actor can have in a publication,
  how the queue, the watch cell, the last delivery and the latest snapshot are
  ordered. `LogInv` adds that all of these are entries of one strictly
  increasing log. Under it every step of the stream is a step of the feed or
  leaves it alone: what the feed calls seen is the place in the log of the last
  delivery. `DeliveryInv` carries the order on to callback, channel, collector
  and screen; its part `ConfinedFits` holds on a single-threaded dispatcher
  only, which is where the screen is proved not to move back and where
  `delivery_race` finds that in parallel it does.
* `RuntimeSessionProofs`, the profile cache: `CacheIsLatest` (`CacheKeepsTheLatest`) and
  `ShownNeverRegresses` (`ProfileNeverRegresses`). That `SelectLatest` is
  defined at all, the maximum of a set of events by time and identifier, is
  part of it. `ProfileInv` says that the row holds the latest event saved and
  that what is shown was saved.
* `HubRequestProofs`, submissions: `AppliedOnce`, `AnswersAreFinal`, both together as
  `OutcomesStand`, `EffectsFenced`, `LostEndsPlannedWork`
  (`LostStopsPlannedWork`), the refinement
  `SubmissionKeepsPromise`, and `CapacitiesHold` (`TypeOK`). The inductive
  invariant `HubInv` adds to the shape of the tables that a call in flight is a
  submission without an outcome, that a rejection excludes an original, and that
  no submission is from a later session than the current one. It is needed
  because an effect is applied long after its admission was decided: `Execute`
  cannot apply a second time only because a granted call is unresolved, and
  `RejectOn` cannot contradict an answer only because it is too. That a lost
  submission stays lost rests on it as well: an outcome comes only from a call
  that holds a grant, and nothing grants a second one. `RoomInv` adds
  the capacities, with the finiteness that counting needs.
* `CapacityProofs`, the journal: `JournalBudget`, `ClosuresFit`, `HoldsPrecedeDepartures`
  and `WorkKeepsHeadroom`. The invariant says that what is used and what is owed
  together never exceed the capacity, for operations, events and treatments; it
  is inductive because every command is charged for what it will owe when it is
  admitted. From it: whatever is open can be closed, and as long as stock can
  still be handled or depart it can also be held.

* `CapacityProofs`, retained evidence: `RetainedEvidenceStands`
  (`EvidenceStands`). `EvidenceInv` says that every row is the version first
  retained with its charge, and that the usage account is the number of rows and
  the sum of their charges. The sum is the number of bytes as pairs of a row and
  an index (`BytesOf`), so that the lemma about one row more (`BytesOfOneMore`)
  is about the size of a finite set and needs no induction.
* `HubRequestProofs`, reference records: `ReferencesStand` (`ReferenceStands`).
  `ReferenceInv` says that the versions of a record are numbered without a gap in
  the order of the table (`VersionsNumbered`), that the catalog at each revision
  holds the last version of every record before it (`PastKept`), that a receipt
  names its row and the version before it, and that a reader has exactly the
  first versions of its record. Absence of gaps is what makes the strict reader
  (`Gapless`) accept: the rows of a record are in bijection with their revisions
  (`RowsBetween`). The present and every past catalog, replayed receipts and
  pages follow.
* `HubLedgerProofs`, the stock ledger: `HeldStock` (`HeldStockStays`),
  `OpenObservationsStay` (`TwoObservationsStay`) and `SourceScopeGrows`
  (`DownstreamGrows`), for any stock, documents, clocks and order of commands.
  The invariant `TablesFit` says that a group was born by an operation of the
  journal, has the trace of its parent, and that each operation names only
  earlier ones (`GroupFits`, `Stands`). Every command does the same to these
  (`StepFits`): it appends one operation, leaves trace, parent and birth of every
  group alone, hangs new groups below old ones, and appends nothing that its
  guards forbid (`Permitted`). One lemma per command shows this, in
  `HubStockProofs` for all up to counts, in `HubLedgerProofs` for the rest. From
  `StepFits` alone: a departure finds no unreleased hold on any group it takes,
  and a hold covers what was taken off its groups later, because lineage never
  changes; found stock closes an observation only if it is the only open one, and
  superseding opens another; and what is downstream of a population, its
  departures and the document versions issued for it, only grows.
  `PapersShaped` is needed for the last: a paper is what its operations left of
  it, and a later operation on it keeps the versions it had.

Only model-checked:

* all liveness (`SerialRecoveryCompletes`, `NobodyWaitsForEver`,
  `RetainedChangeArrives`, `ConfinedConverges`, `ShutdownReturns`):
  fairness is out of the prover's reach;
* `JournalReadsBack` and `NoPackTwice` of the ledger. The strict readers and the
  quantities are sums over the journal (`MapThenSumSet`); what such a sum is
  after one more operation is an induction over data with an operator as
  parameter, which is out of reach as well;
* `DigestsTellApart`: the byte layouts are recursive operators, about which the
  prover cannot reason.

## Not modelled

The definitions stand for about 33,000 source lines, a third of the Rust and
Kotlin without tests. The rest is, by size, conversion between the layers (FFI
records, row codecs, command decoding), screens, and the following.

* Count explanation and classification. Every entry to that code refuses a
  database before schema 21, and this version creates schema 20
  (`contract.rs:17`). The ledger knows these kinds only as kinds that would close
  a report.
* Opening: the lifecycle stages before a handle exists are a table of what each
  admits. Migration, backup and restore are one straight sequence of calls into
  `radroots_service_sqlite`, which is outside this repository.
* Trace and local output, the availability query: read-only projections.
* Relay traffic and cryptography: a fetch is a task with some result; SHA-256 is
  taken to be injective.
* FFI conversions, product registry, generated code, forms, drafts, navigation
  and layout.

In the modelled parts: replays of a removal request after the same key was
imported again; clock-driven expiry as such (an expired stage or token is
dropped or refused at any time); the refusal of a snapshot after a repeated
activation missed its deadline; exhaustion of 64-bit counters; the cache of
proofs within one transaction (`actuals/proofs.rs`) and originals from before the
qualified mode, which only an upgraded database holds; labels, names and masses
in the ledger. `HubSubmission` and `HubLedger` are not composed: the first
treats the effect of a submission as one original, the second starts from
commands that were admitted. Repair is modelled, but nothing in production saves
an identity as `credential_missing`, so no run reaches it.
