----------------------- MODULE SnapshotDeliveryProofs -----------------------
(***************************************************************************)
(* Machine-checked proofs about the order on snapshots, the change stream  *)
(* and the delivery of its changes to the screen.                          *)
(***************************************************************************)
EXTENDS SnapshotDelivery, Integers, TLAPS

(* What the proofs below use of sequences. *)
LEMMA LogLength ==
  ASSUME NEW S, NEW q \in Seq(S)
  PROVE  /\ Len(q) \in Nat
         /\ DOMAIN q = 1 .. Len(q)
         /\ q \in [1 .. Len(q) -> S]
         /\ \A n \in 1 .. Len(q) : q[n] \in S
OBVIOUS

LEMMA LogEmpty ==
  ASSUME NEW S
  PROVE  /\ << >> \in Seq(S)
         /\ Len(<< >>) = 0
         /\ \A q \in Seq(S) : q # << >> => Len(q) \in Nat \ {0}
OBVIOUS

LEMMA LogTail ==
  ASSUME NEW S, NEW q \in Seq(S), q # << >>
  PROVE  /\ Head(q) \in S
         /\ Tail(q) \in Seq(S)
         /\ Len(Tail(q)) = Len(q) - 1
         /\ \A i \in 1 .. Len(Tail(q)) : Tail(q)[i] = q[i + 1]
OBVIOUS

LEMMA LogAppend ==
  ASSUME NEW S, NEW q \in Seq(S), NEW e \in S
  PROVE  /\ Append(q, e) \in Seq(S)
         /\ Append(q, e) # << >>
         /\ Len(Append(q, e)) = Len(q) + 1
         /\ \A i \in 1 .. Len(q) : Append(q, e)[i] = q[i]
         /\ Append(q, e)[Len(q) + 1] = e
OBVIOUS

LEMMA SessionBound ==
  ASSUME NEW s \in Snapshot, s.session # Unbound
  PROVE  s.session \in Session /\ s.session.generation \in Nat
BY Zenon DEF Snapshot, Session

(***************************************************************************)
(* is_newer_than never calls a snapshot newer than itself, nor two         *)
(* snapshots newer than each other, and it is transitive: a receiver that  *)
(* keeps only newer snapshots cannot be led round in a circle.  The order  *)
(* is partial, and the pairs left out of it are exactly these: equal       *)
(* positions, crossed positions, positions of two runtimes, and an unbound *)
(* snapshot with a bound one of an earlier revision.                       *)
(***************************************************************************)
THEOREM NewerIsAPartialOrder ==
  ASSUME NEW s \in Snapshot, NEW t \in Snapshot, NEW u \in Snapshot
  PROVE  /\ ~ IsNewerThan(s, s)
         /\ IsNewerThan(s, t) => ~ IsNewerThan(t, s)
         /\ IsNewerThan(s, t) /\ IsNewerThan(t, u) => IsNewerThan(s, u)
         /\ ~ IsNewerThan(s, t) /\ ~ IsNewerThan(t, s) <=>
              \/ s.revision = t.revision /\ s.session = t.session
              \/ BothBound(s, t) /\ (Crossed(s, t) \/ Lost(s, t))
              \/ s.session = Unbound /\ t.session # Unbound /\ s.revision > t.revision
              \/ t.session = Unbound /\ s.session # Unbound /\ t.revision > s.revision
<1>1. s.revision \in Nat /\ t.revision \in Nat /\ u.revision \in Nat
  BY Zenon DEF Snapshot
<1>2. /\ s.session # Unbound => s.session.generation \in Nat
      /\ t.session # Unbound => t.session.generation \in Nat
      /\ u.session # Unbound => u.session.generation \in Nat
  BY Zenon, SessionBound
<1>3. /\ ~ IsNewerThan(s, s)
      /\ IsNewerThan(s, t) => ~ IsNewerThan(t, s)
      /\ IsNewerThan(s, t) /\ IsNewerThan(t, u) => IsNewerThan(s, u)
  BY <1>1, <1>2 DEF IsNewerThan
<1>4. ASSUME BothBound(s, t)
      PROVE  s.session = t.session <=> /\ s.session.incarnation = t.session.incarnation
                                       /\ s.session.generation = t.session.generation
  <2>1. s.session \in Session /\ t.session \in Session
    BY Zenon, <1>4, SessionBound DEF BothBound
  <2> QED
    BY <2>1 DEF Session
<1>5. ~ IsNewerThan(s, t) /\ ~ IsNewerThan(t, s) <=>
        \/ s.revision = t.revision /\ s.session = t.session
        \/ BothBound(s, t) /\ (Crossed(s, t) \/ Lost(s, t))
        \/ s.session = Unbound /\ t.session # Unbound /\ s.revision > t.revision
        \/ t.session = Unbound /\ s.session # Unbound /\ t.revision > s.revision
  <2>1. CASE BothBound(s, t)
    BY <1>1, <1>2, <1>4, <2>1 DEF IsNewerThan, BothBound, Crossed, Lost, Generation
  <2>2. CASE ~ BothBound(s, t)
    BY <1>1, <2>2 DEF IsNewerThan, BothBound
  <2> QED
    BY <2>1, <2>2
<1> QED
  BY Zenon, <1>3, <1>5

(***************************************************************************)
(* The screen decides as the core does: orderAfter calls a snapshot newer  *)
(* exactly when is_newer_than does, unbound snapshots and changed runtimes *)
(* included.                                                               *)
(***************************************************************************)
THEOREM OrdersAgree ==
  ASSUME NEW s \in Snapshot, NEW t \in Snapshot
  PROVE  (OrderAfter(s, t) = "newer") <=> IsNewerThan(s, t)
<1>1. s.revision \in Nat /\ t.revision \in Nat
  BY Zenon DEF Snapshot
<1>2. /\ s.session # Unbound => s.session.generation \in Nat
      /\ t.session # Unbound => t.session.generation \in Nat
  BY Zenon, SessionBound
<1> QED
  BY <1>1, <1>2 DEF IsNewerThan, OrderAfter, Lost, Crossed, BothBound, Generation

(***************************************************************************)
(* Among bound snapshots of one runtime the screen is never unable to tell *)
(* what the core can: an invalid pair moves its two dimensions in opposite *)
(* directions, and exchanging an older pair gives a newer one.             *)
(***************************************************************************)
THEOREM OlderMirrorsNewer ==
  ASSUME NEW s \in Snapshot, NEW t \in Snapshot, s.session # Unbound, t.session # Unbound
  PROVE  /\ OrderAfter(s, t) = "older" <=> OrderAfter(t, s) = "newer"
         /\ OrderAfter(s, t) = "invalid" <=> OrderAfter(t, s) = "invalid"
         /\ OrderAfter(s, t) = "same" => s.session = t.session /\ s.revision = t.revision
<1>1. s.revision \in Nat /\ t.revision \in Nat
  BY Zenon DEF Snapshot
<1>2. s.session \in Session /\ t.session \in Session
  BY Zenon, SessionBound
<1>3. s.session.generation \in Nat /\ t.session.generation \in Nat
  BY Zenon, <1>2 DEF Session
<1> USE DEF OrderAfter, Lost, Crossed, BothBound, Generation
<1>4. OrderAfter(s, t) = "older" <=> OrderAfter(t, s) = "newer"
  BY <1>1, <1>3
<1>5. OrderAfter(s, t) = "invalid" <=> OrderAfter(t, s) = "invalid"
  BY Zenon, <1>1, <1>3
<1>6. ASSUME OrderAfter(s, t) = "same" PROVE s.session = t.session /\ s.revision = t.revision
  <2>1. /\ s.revision = t.revision /\ s.session.incarnation = t.session.incarnation
        /\ s.session.generation = t.session.generation
    BY <1>1, <1>3, <1>6
  <2> QED
    BY <1>2, <2>1 DEF Session
<1> QED
  BY Zenon, <1>4, <1>5, <1>6

-----------------------------------------------------------------------------
(***************************************************************************)
(* What one runtime settles is ordered componentwise.                      *)
(***************************************************************************)
Settlements == [revision : Nat, session : [incarnation : {Runtime}, generation : Nat]]

SettledChanges == [snapshot : Settlements, previous : Nat \cup {None}]

NotAfter(a, b) == a.revision <= b.revision /\ a.session.generation <= b.session.generation

(***************************************************************************)
(* The inductive invariant of the stream.                                  *)
(***************************************************************************)
\* The watch cell of s is still to be given the change under way.
Pending(s) == sending.stage \in {"retain", "enqueue"} /\ s \in sending.todo

ActorFits ==
  /\ published \in Settlements /\ latest \in Settlements /\ NotAfter(latest, published)
  /\ closed \in BOOLEAN /\ linked \subseteq Subscribers
  /\ \/ sending = Idle /\ latest = published
     \/ sending = [stage |-> "publish", snapshot |-> published]
     \/ /\ latest = published
        /\ \E todo \in SUBSET linked, previous \in Nat \cup {None} :
             \/ sending = [stage |-> "retain", todo |-> todo, change |-> Change(latest, previous)]
             \/ \E to \in linked \ todo :
                  sending = [stage |-> "enqueue", todo |-> todo, to |-> to,
                             change |-> Change(latest, previous)]

\* A receiver is behind its watch cell, and its watch cell behind the stream.
ReceiverFits(s) ==
  /\ at[s] = "none" => s \notin linked /\ retained[s] = None /\ queue[s] = <<>> /\ delivered[s] = None
  /\ at[s] # "none" => retained[s] \in SettledChanges /\ NotAfter(retained[s].snapshot, latest)
  /\ s \in linked /\ ~Pending(s) => retained[s].snapshot = latest
  /\ \A i \in 1 .. Len(queue[s]) : NotAfter(queue[s][i].snapshot, retained[s].snapshot)
  /\ delivered[s] # None => NotAfter(delivered[s].snapshot, retained[s].snapshot)
  /\ at[s] \in {"tail", "done"} => s \notin linked
  /\ at[s] \in {"done", "wait"} => delivered[s] # None
  /\ at[s] = "done" => delivered[s].snapshot = retained[s].snapshot
  /\ at[s] = "wait" /\ queue[s] = <<>> /\ s \in linked
       => delivered[s].snapshot = retained[s].snapshot
          \/ (sending.stage = "enqueue" /\ sending.to = s)

ReceiversTyped ==
  /\ retained \in [Subscribers -> SettledChanges \cup {None}]
  /\ queue \in [Subscribers -> Seq(SettledChanges)]
  /\ \A s \in Subscribers : Len(queue[s]) <= Capacity
  /\ at \in [Subscribers -> {"none", "queue", "latest", "tail", "wait", "done", "gone"}]
  /\ delivered \in [Subscribers -> SettledChanges \cup {None}]

StreamInv == ActorFits /\ ReceiversTyped /\ \A s \in Subscribers : ReceiverFits(s)

(***************************************************************************)
(* The log: strictly increasing up to the latest snapshot, and everything  *)
(* a receiver holds is an entry of it.                                     *)
(***************************************************************************)
InLog(snapshot) == \E i \in 1 .. Len(log) : log[i] = snapshot

HeldInLog(s) ==
  at[s] # "none" =>
    /\ InLog(retained[s].snapshot)
    /\ \A i \in 1 .. Len(queue[s]) : InLog(queue[s][i].snapshot)
    /\ delivered[s] # None => InLog(delivered[s].snapshot)

LogFits ==
  /\ log \in Seq(Settlements) /\ Len(log) > 0 /\ log[Len(log)] = latest
  /\ \A i, j \in 1 .. Len(log) : i < j => NotAfter(log[i], log[j]) /\ log[i] # log[j]

LogInv == LogFits /\ \A s \in Subscribers : HeldInLog(s)

-----------------------------------------------------------------------------
(* The componentwise order.                                                *)

LEMMA SettledFields ==
  ASSUME NEW a \in Settlements
  PROVE  /\ a.revision \in Nat /\ a.session.generation \in Nat /\ a.session.incarnation = Runtime
         /\ a.session # Unbound /\ a \in Snapshot
         /\ a = Settled(a.revision, a.session.generation)
<1>1. /\ a.revision \in Nat /\ a.session \in [incarnation : {Runtime}, generation : Nat]
      /\ a = [revision |-> a.revision, session |-> a.session]
  BY Zenon DEF Settlements
<1>2. /\ a.session.generation \in Nat /\ a.session.incarnation = Runtime
      /\ a.session = [incarnation |-> a.session.incarnation, generation |-> a.session.generation]
  BY Zenon, <1>1
<1>3. a.session \in Session
  BY Zenon, <1>2, StreamAssumption DEF Session
<1>4. a.session # Unbound
  BY Zenon, <1>3, UnboundAssumption DEF Session
<1>5. a \in Snapshot
  BY Zenon, <1>1, <1>3 DEF Snapshot
<1>6. a = Settled(a.revision, a.session.generation)
  BY Zenon, <1>1, <1>2 DEF Settled
<1> QED
  BY Zenon, <1>1, <1>2, <1>4, <1>5, <1>6

LEMMA SettledType ==
  ASSUME NEW r \in Nat, NEW g \in Nat
  PROVE  /\ Settled(r, g) \in Settlements
         /\ Settled(r, g).revision = r /\ Settled(r, g).session.generation = g
BY Zenon DEF Settled, Settlements

LEMMA NotAfterIsAnOrder ==
  ASSUME NEW a \in Settlements, NEW b \in Settlements, NEW c \in Settlements
  PROVE  /\ NotAfter(a, a)
         /\ NotAfter(a, b) /\ NotAfter(b, c) => NotAfter(a, c)
         /\ NotAfter(a, b) /\ NotAfter(b, a) => a = b
<1>1. /\ a.revision \in Nat /\ b.revision \in Nat /\ c.revision \in Nat
      /\ a.session.generation \in Nat /\ b.session.generation \in Nat /\ c.session.generation \in Nat
      /\ a = Settled(a.revision, a.session.generation) /\ b = Settled(b.revision, b.session.generation)
  BY Zenon, SettledFields
<1>2. NotAfter(a, b) /\ NotAfter(b, a) => a.revision = b.revision /\ a.session.generation = b.session.generation
  BY <1>1 DEF NotAfter
<1>3. NotAfter(a, a) /\ (NotAfter(a, b) /\ NotAfter(b, c) => NotAfter(a, c))
  BY <1>1 DEF NotAfter
<1> QED
  BY Zenon, <1>1, <1>2, <1>3

\* What one runtime settles is newer exactly when it is not equal and not before.
LEMMA SettledNewer ==
  ASSUME NEW a \in Settlements, NEW b \in Settlements
  PROVE  IsNewerThan(a, b) <=> NotAfter(b, a) /\ a # b
<1>1. /\ a.revision \in Nat /\ b.revision \in Nat
      /\ a.session.generation \in Nat /\ b.session.generation \in Nat
      /\ a.session # Unbound /\ b.session # Unbound
      /\ a.session.incarnation = Runtime /\ b.session.incarnation = Runtime
      /\ a = Settled(a.revision, a.session.generation) /\ b = Settled(b.revision, b.session.generation)
  BY Zenon, SettledFields
<1>2. a # b <=> a.revision # b.revision \/ a.session.generation # b.session.generation
  BY Zenon, <1>1
<1> QED
  BY <1>1, <1>2 DEF IsNewerThan, NotAfter

LEMMA ChangeFields ==
  ASSUME NEW c \in SettledChanges
  PROVE  c # None /\ c.snapshot \in Settlements /\ c \in Changes
<1>1. c.snapshot \in Settlements /\ c.previous \in Nat \cup {None}
      /\ c = [snapshot |-> c.snapshot, previous |-> c.previous]
  BY Zenon DEF SettledChanges
<1>2. c.snapshot \in Snapshot
  BY Zenon, <1>1, SettledFields
<1>3. c \in [snapshot: Snapshot, previous: Nat \cup {None}]
  BY Zenon, <1>1, <1>2
<1> QED
  BY Zenon, <1>1, <1>3, StreamAssumption DEF Changes

LEMMA ChangeType ==
  ASSUME NEW a \in Settlements, NEW previous \in Nat \cup {None}
  PROVE  Change(a, previous) \in SettledChanges /\ Change(a, previous).snapshot = a
BY Zenon DEF Change, SettledChanges

\* What is left of a queue whose head was taken.
LEMMA TailElements ==
  ASSUME NEW S, NEW q \in Seq(S), q # <<>>
  PROVE  /\ Len(q) \in Nat \ {0} /\ Head(q) = q[1] /\ Head(q) \in S
         /\ Tail(q) \in Seq(S) /\ Len(Tail(q)) = Len(q) - 1
         /\ \A i \in 1 .. Len(Tail(q)) : i + 1 \in 1 .. Len(q) /\ Tail(q)[i] = q[i + 1]
<1>1. Len(q) \in Nat \ {0}
  BY Zenon, LogEmpty, LogLength
<1> QED
  BY <1>1, LogTail

-----------------------------------------------------------------------------
(* The stream keeps its invariant: the actor's steps.                      *)

LEMMA SendingFields ==
  ASSUME ActorFits
  PROVE  /\ sending.stage \in {"idle", "publish", "retain", "enqueue"}
         /\ sending = Idle <=> sending.stage = "idle"
         /\ sending.stage = "idle" => latest = published
         /\ sending.stage = "publish" => sending.snapshot = published
         /\ sending.stage \in {"retain", "enqueue"} =>
              /\ latest = published /\ sending.todo \subseteq linked
              /\ \E previous \in Nat \cup {None} : sending.change = Change(latest, previous)
         /\ sending.stage = "enqueue" => sending.to \in linked \ sending.todo
<1>1. CASE sending = Idle /\ latest = published
  BY Zenon, <1>1 DEF Idle
<1>2. CASE sending = [stage |-> "publish", snapshot |-> published]
  BY Zenon, <1>2 DEF Idle
<1>3. CASE /\ latest = published
           /\ \E todo \in SUBSET linked, previous \in Nat \cup {None} :
                \/ sending = [stage |-> "retain", todo |-> todo, change |-> Change(latest, previous)]
                \/ \E to \in linked \ todo :
                     sending = [stage |-> "enqueue", todo |-> todo, to |-> to,
                                change |-> Change(latest, previous)]
  <2>1. PICK todo \in SUBSET linked, previous \in Nat \cup {None} :
          \/ sending = [stage |-> "retain", todo |-> todo, change |-> Change(latest, previous)]
          \/ \E to \in linked \ todo :
               sending = [stage |-> "enqueue", todo |-> todo, to |-> to, change |-> Change(latest, previous)]
    BY Zenon, <1>3
  <2>2. CASE sending = [stage |-> "retain", todo |-> todo, change |-> Change(latest, previous)]
    BY Zenon, <1>3, <2>2 DEF Idle
  <2>3. CASE \E to \in linked \ todo :
               sending = [stage |-> "enqueue", todo |-> todo, to |-> to, change |-> Change(latest, previous)]
    BY <1>3, <2>3 DEF Idle
  <2> QED
    BY Zenon, <2>1, <2>2, <2>3
<1> QED
  BY Zenon, <1>1, <1>2, <1>3 DEF ActorFits

SendsTo(s) == sending.stage = "enqueue" /\ sending.to = s

\* A receiver that a step leaves alone.
LEMMA SameReceiver ==
  ASSUME ReceiversTyped, NEW s \in Subscribers, ReceiverFits(s),
         latest \in Settlements, latest' \in Settlements, NotAfter(latest, latest'),
         at'[s] = at[s], retained'[s] = retained[s], queue'[s] = queue[s], delivered'[s] = delivered[s],
         s \in linked' => s \in linked,
         s \in linked' /\ ~Pending(s)' => retained[s].snapshot = latest',
         SendsTo(s) => SendsTo(s)' \/ at[s] # "wait" \/ queue[s] # <<>>
  PROVE  ReceiverFits(s)'
<1>1. at[s] # "none" => NotAfter(retained[s].snapshot, latest')
  <2>1. at[s] # "none" => retained[s].snapshot \in Settlements /\ NotAfter(retained[s].snapshot, latest)
    BY Zenon, ChangeFields DEF ReceiverFits
  <2> QED
    BY Zenon, <2>1, NotAfterIsAnOrder
<1> QED
  BY Zenon, <1>1 DEF ReceiverFits, SendsTo

LEMMA SettleKeeps ==
  ASSUME StreamInv, NEW r \in Nat, NEW g \in Nat, Settle(r, g)
  PROVE  StreamInv'
<1>1. /\ sending.stage = "idle" /\ latest = published /\ published' = Settled(r, g)
      /\ sending' = [stage |-> "publish", snapshot |-> published']
      /\ r >= published.revision /\ g >= published.session.generation
      /\ UNCHANGED <<latest, closed, linked, retained, queue, at, delivered>>
  BY Zenon, SendingFields DEF Settle, StreamInv
<1>2. published \in Settlements
  BY Zenon DEF StreamInv, ActorFits
<1>3. /\ published' \in Settlements /\ published'.revision = r /\ published'.session.generation = g
  BY Zenon, <1>1, <1>2, SettledType
<1>4. NotAfter(latest, published')
  BY Zenon, <1>1, <1>3 DEF NotAfter
<1>5. ActorFits'
  BY Zenon, <1>1, <1>3, <1>4 DEF ActorFits, StreamInv
<1>6. ReceiversTyped'
  BY Zenon, <1>1 DEF ReceiversTyped, StreamInv
<1>7. ASSUME NEW s \in Subscribers PROVE ReceiverFits(s)'
  <2>1. ~ Pending(s) /\ ~ SendsTo(s) /\ latest \in Settlements /\ NotAfter(latest, latest)
    BY Zenon, <1>1, NotAfterIsAnOrder DEF Pending, SendsTo, StreamInv, ActorFits
  <2>2. ReceiverFits(s) /\ ReceiversTyped
    BY Zenon DEF StreamInv
  <2>3. s \in linked => retained[s].snapshot = latest
    BY Zenon, <2>1, <2>2 DEF ReceiverFits
  <2> QED
    BY Zenon, <1>1, <2>1, <2>2, <2>3, SameReceiver
<1> QED
  BY Zenon, <1>5, <1>6, <1>7 DEF StreamInv

LEMMA PublishKeeps == ASSUME StreamInv, Publish PROVE StreamInv'
<1>1. /\ sending.stage = "publish" /\ sending.snapshot = published /\ linked' = {s \in linked : ~Gone(s)}
      /\ UNCHANGED <<published, closed, retained, queue, at, delivered>>
  BY Zenon, SendingFields DEF Publish, StreamInv
<1>2. published \in Settlements /\ latest \in Settlements /\ NotAfter(latest, published)
      /\ linked' \subseteq linked /\ linked' \subseteq Subscribers
  BY Zenon, <1>1 DEF StreamInv, ActorFits
<1>3. ReceiversTyped'
  BY Zenon, <1>1 DEF ReceiversTyped, StreamInv
<1>4. ASSUME NEW s \in Subscribers
      PROVE  /\ ReceiverFits(s) /\ ReceiversTyped /\ ~SendsTo(s)
             /\ s \in linked => retained[s].snapshot = latest
  <2>1. ReceiverFits(s) /\ ReceiversTyped
    BY Zenon DEF StreamInv
  <2> QED
    BY Zenon, <1>1, <2>1 DEF ReceiverFits, Pending, SendsTo
<1>5. CASE IsNewerThan(published, latest)
  <2>1. /\ latest' = published
        /\ sending' = [stage |-> "retain", todo |-> linked', change |-> Change(published, latest.revision)]
    BY Zenon, <1>1, <1>5 DEF Publish
  <2>2. latest.revision \in Nat \cup {None}
    BY Zenon, <1>2, SettledFields
  <2>3. sending' = [stage |-> "retain", todo |-> linked', change |-> Change(latest', latest.revision)]
    BY Zenon, <2>1
  <2>4. \E todo \in SUBSET linked', previous \in Nat \cup {None} :
          sending' = [stage |-> "retain", todo |-> todo, change |-> Change(latest', previous)]
    BY Zenon, <2>2, <2>3
  <2>5. NotAfter(published, published)
    BY Zenon, <1>2, NotAfterIsAnOrder
  <2>6. ActorFits'
    BY Zenon, <1>1, <1>2, <2>1, <2>4, <2>5 DEF ActorFits, StreamInv
  <2>7. ASSUME NEW s \in Subscribers PROVE ReceiverFits(s)'
    <3>1. s \in linked' => Pending(s)'
      BY Zenon, <2>1 DEF Pending
    <3> QED
      BY Zenon, <1>1, <1>2, <1>4, <2>1, <3>1, SameReceiver
  <2> QED
    BY Zenon, <1>3, <2>6, <2>7 DEF StreamInv
<1>6. CASE ~IsNewerThan(published, latest)
  <2>1. latest' = latest /\ sending' = Idle
    BY Zenon, <1>1, <1>6 DEF Publish
  <2>2. latest = published
    BY Zenon, <1>2, <1>6, SettledNewer
  <2>3. NotAfter(latest, latest)
    BY Zenon, <1>2, NotAfterIsAnOrder
  <2>4. ActorFits'
    BY Zenon, <1>1, <1>2, <2>1, <2>2 DEF ActorFits, StreamInv
  <2>5. ASSUME NEW s \in Subscribers PROVE ReceiverFits(s)'
    BY Zenon, <1>1, <1>2, <1>4, <2>1, <2>3, SameReceiver
  <2> QED
    BY Zenon, <1>3, <2>4, <2>5 DEF StreamInv
<1> QED
  BY Zenon, <1>5, <1>6

LEMMA RetainKeeps == ASSUME StreamInv, NEW s \in Subscribers, Retain(s) PROVE StreamInv'
<1>1. /\ sending.stage = "retain" /\ s \in sending.todo
      /\ retained' = [retained EXCEPT ![s] = sending.change]
      /\ sending' = [stage |-> "enqueue", todo |-> sending.todo \ {s}, to |-> s, change |-> sending.change]
      /\ UNCHANGED <<published, latest, closed, linked, queue, at, delivered>>
  BY Zenon DEF Retain
<1>2. latest = published /\ sending.todo \subseteq linked /\ latest \in Settlements /\ linked \subseteq Subscribers
  BY Zenon, <1>1, SendingFields DEF StreamInv, ActorFits
<1>3. PICK previous \in Nat \cup {None} : sending.change = Change(latest, previous)
  BY Zenon, <1>1, SendingFields DEF StreamInv
<1>4. sending.change \in SettledChanges /\ sending.change.snapshot = latest
  BY Zenon, <1>2, <1>3, ChangeType
<1>5. NotAfter(latest, latest)
  BY Zenon, <1>2, NotAfterIsAnOrder
<1>6. s \in linked \ (sending.todo \ {s}) /\ (sending.todo \ {s}) \in SUBSET linked
  BY Zenon, <1>1, <1>2
<1>7. ActorFits'
  BY Zenon, <1>1, <1>2, <1>3, <1>5, <1>6 DEF ActorFits, StreamInv
<1>8. ReceiversTyped'
  BY Zenon, <1>1, <1>4 DEF ReceiversTyped, StreamInv
<1>9. retained'[s] = sending.change /\ \A t \in Subscribers \ {s} : retained'[t] = retained[t]
  BY Zenon, <1>1 DEF ReceiversTyped, StreamInv
<1>10. ASSUME NEW t \in Subscribers PROVE ReceiverFits(t)'
  <2>1. ReceiverFits(t) /\ ReceiversTyped
    BY Zenon DEF StreamInv
  <2>2. CASE t # s
    <3>1. Pending(t)' <=> Pending(t)
      BY Zenon, <1>1, <2>2 DEF Pending
    <3>2. ~SendsTo(t)
      BY Zenon, <1>1 DEF SendsTo
    <3>3. t \in linked /\ ~Pending(t) => retained[t].snapshot = latest
      BY Zenon, <2>1 DEF ReceiverFits
    <3> QED
      BY Zenon, <1>1, <1>2, <1>5, <1>9, <2>1, <2>2, <3>1, <3>2, <3>3, SameReceiver
  <2>3. CASE t = s
    <3>1. s \in linked /\ at[s] # "none" /\ at[s] \notin {"tail", "done"}
      BY Zenon, <1>1, <1>2, <2>1, <2>3 DEF ReceiverFits
    <3>2. retained[s] \in SettledChanges /\ NotAfter(retained[s].snapshot, latest)
      BY Zenon, <2>1, <2>3, <3>1 DEF ReceiverFits
    <3>3. retained[s].snapshot \in Settlements
      BY Zenon, <3>2, ChangeFields
    <3>4. ASSUME NEW i \in 1 .. Len(queue[s]) PROVE NotAfter(queue[s][i].snapshot, latest)
      <4>1. queue[s][i] \in SettledChanges
        BY <2>1, <2>3 DEF ReceiversTyped
      <4>2. NotAfter(queue[s][i].snapshot, retained[s].snapshot)
        BY Zenon, <2>1, <2>3 DEF ReceiverFits
      <4> QED
        BY <1>2, <3>2, <3>3, <4>1, <4>2, ChangeFields, NotAfterIsAnOrder
    <3>5. delivered[s] # None => NotAfter(delivered[s].snapshot, latest)
      <4>1. delivered[s] # None => delivered[s] \in SettledChanges
        BY Zenon DEF ReceiversTyped, StreamInv
      <4>2. delivered[s] # None => NotAfter(delivered[s].snapshot, retained[s].snapshot)
        BY Zenon, <2>1, <2>3 DEF ReceiverFits
      <4> QED
        BY <1>2, <3>2, <3>3, <4>1, <4>2, ChangeFields, NotAfterIsAnOrder
    <3>6. at[s] \in {"done", "wait"} => delivered[s] # None
      BY Zenon, <2>1, <2>3 DEF ReceiverFits
    <3>7. sending'.stage = "enqueue" /\ sending'.to = s
      BY Zenon, <1>1
    <3> QED
      BY Zenon, <1>1, <1>4, <1>5, <1>9, <2>3, <3>1, <3>4, <3>5, <3>6, <3>7 DEF ReceiverFits
  <2> QED
    BY Zenon, <2>2, <2>3
<1> QED
  BY Zenon, <1>7, <1>8, <1>10 DEF StreamInv

LEMMA EnqueueKeeps == ASSUME StreamInv, Enqueue PROVE StreamInv'
<1>0. PICK s : s = sending.to
  BY Zenon
<1>1. /\ sending.stage = "enqueue"
      /\ queue' = IF Gone(s) \/ Len(queue[s]) >= Capacity THEN queue
                  ELSE [queue EXCEPT ![s] = Append(@, sending.change)]
      /\ linked' = IF Gone(s) THEN linked \ {s} ELSE linked
      /\ sending' = [stage |-> "retain", todo |-> sending.todo, change |-> sending.change]
      /\ UNCHANGED <<published, latest, closed, retained, at, delivered>>
  BY Zenon, <1>0 DEF Enqueue, TrySend
<1>2. /\ latest = published /\ sending.todo \subseteq linked /\ latest \in Settlements /\ linked \subseteq Subscribers
      /\ s \in linked /\ s \notin sending.todo /\ s \in Subscribers
  BY Zenon, <1>0, <1>1, SendingFields DEF StreamInv, ActorFits
<1>3. PICK previous \in Nat \cup {None} : sending.change = Change(latest, previous)
  BY Zenon, <1>1, SendingFields DEF StreamInv
<1>4. sending.change \in SettledChanges /\ sending.change.snapshot = latest
  BY <1>2, <1>3, ChangeType
<1>5. NotAfter(latest, latest)
  BY Zenon, <1>2, NotAfterIsAnOrder
<1>6. sending.todo \in SUBSET linked' /\ linked' \subseteq linked
  BY Zenon, <1>1, <1>2
<1>7. ActorFits'
  BY Zenon, <1>1, <1>2, <1>3, <1>5, <1>6 DEF ActorFits, StreamInv
<1>8. /\ queue[s] \in Seq(SettledChanges) /\ Len(queue[s]) <= Capacity /\ Len(queue[s]) \in Nat
      /\ Append(queue[s], sending.change) \in Seq(SettledChanges)
      /\ Len(Append(queue[s], sending.change)) = Len(queue[s]) + 1
      /\ \A i \in 1 .. Len(queue[s]) : Append(queue[s], sending.change)[i] = queue[s][i]
      /\ Append(queue[s], sending.change)[Len(queue[s]) + 1] = sending.change
  <2>1. queue[s] \in Seq(SettledChanges) /\ Len(queue[s]) <= Capacity
    BY Zenon, <1>2 DEF StreamInv, ReceiversTyped
  <2> QED
    BY <1>4, <2>1, LogAppend, LogLength
<1>9. /\ \A t \in Subscribers \ {s} : queue'[t] = queue[t]
      /\ \/ queue'[s] = queue[s] /\ (Gone(s) \/ Len(queue[s]) >= Capacity)
         \/ queue'[s] = Append(queue[s], sending.change) /\ Len(queue[s]) < Capacity
      /\ queue' \in [Subscribers -> Seq(SettledChanges)]
      /\ Len(queue'[s]) <= Capacity
  BY <1>1, <1>2, <1>8, StreamAssumption DEF StreamInv, ReceiversTyped
<1>10. ReceiversTyped'
  BY Zenon, <1>1, <1>9 DEF StreamInv, ReceiversTyped
<1>11. ASSUME NEW t \in Subscribers PROVE ReceiverFits(t)'
  <2>1. ReceiverFits(t) /\ ReceiversTyped
    BY Zenon DEF StreamInv
  <2>2. Pending(t)' <=> Pending(t)
    BY Zenon, <1>1 DEF Pending
  <2>3. t \in linked /\ ~Pending(t) => retained[t].snapshot = latest
    BY Zenon, <2>1 DEF ReceiverFits
  <2>4. CASE t # s
    <3>1. ~SendsTo(t)
      BY Zenon, <1>0, <2>4 DEF SendsTo
    <3> QED
      BY Zenon, <1>1, <1>2, <1>5, <1>6, <1>9, <2>1, <2>2, <2>3, <2>4, <3>1, SameReceiver
  <2>5. CASE t = s /\ queue'[s] = queue[s]
    <3>1. SendsTo(t) => at[t] # "wait" \/ queue[t] # <<>>
      BY <1>8, <1>9, <2>5, StreamAssumption, LogEmpty DEF Gone
    <3> QED
      BY Zenon, <1>1, <1>2, <1>5, <1>6, <2>1, <2>2, <2>3, <2>5, <3>1, SameReceiver
  <2>6. CASE t = s /\ queue'[s] = Append(queue[s], sending.change)
    <3>1. queue'[s] # <<>>
      BY <1>8, <2>6
    <3>2. retained[s].snapshot = latest
      BY Zenon, <1>2, <2>3, <2>6 DEF Pending
    <3>3. \A i \in 1 .. Len(queue'[s]) : NotAfter(queue'[s][i].snapshot, retained[s].snapshot)
      <4>1. ASSUME NEW i \in 1 .. Len(queue'[s]) PROVE NotAfter(queue'[s][i].snapshot, retained[s].snapshot)
        <5>1. CASE i \in 1 .. Len(queue[s])
          BY Zenon, <1>8, <2>1, <2>6, <5>1 DEF ReceiverFits
        <5>2. CASE i = Len(queue[s]) + 1
          BY Zenon, <1>4, <1>5, <1>8, <2>6, <3>2, <5>2
        <5> QED
          BY <1>8, <2>6, <5>1, <5>2
      <4> QED
        BY Zenon, <4>1
    <3>4. at[s] # "none" /\ (s \in linked' => s \in linked)
      BY Zenon, <1>2, <1>6, <2>1, <2>6 DEF ReceiverFits
    <3> QED
      BY Zenon, <1>1, <1>5, <2>1, <2>6, <3>1, <3>2, <3>3, <3>4 DEF ReceiverFits
  <2> QED
    BY Zenon, <1>9, <2>4, <2>5, <2>6
<1> QED
  BY Zenon, <1>7, <1>10, <1>11 DEF StreamInv

\* Steps between publications that touch no receiver: the end of one,
\* unsubscribe and close.
LEMMA ActorTurnKeeps ==
  ASSUME StreamInv, latest = published, sending.stage \in {"idle", "retain"}, ~\E s \in Subscribers : Pending(s),
         sending' = Idle, linked' \subseteq linked, closed' \in BOOLEAN,
         UNCHANGED <<published, latest, retained, queue, at, delivered>>
  PROVE  StreamInv'
<1>1. latest \in Settlements /\ NotAfter(latest, latest) /\ linked \subseteq Subscribers
  BY Zenon, NotAfterIsAnOrder DEF StreamInv, ActorFits
<1>2. ActorFits'
  BY Zenon, <1>1 DEF ActorFits, StreamInv
<1>3. ReceiversTyped'
  BY Zenon DEF ReceiversTyped, StreamInv
<1>4. ASSUME NEW s \in Subscribers PROVE ReceiverFits(s)'
  <2>1. ReceiverFits(s) /\ ReceiversTyped /\ ~SendsTo(s)
    BY Zenon DEF StreamInv, SendsTo
  <2>2. s \in linked => retained[s].snapshot = latest
    BY Zenon, <2>1 DEF ReceiverFits
  <2> QED
    BY Zenon, <1>1, <2>1, <2>2, SameReceiver
<1> QED
  BY Zenon, <1>2, <1>3, <1>4 DEF StreamInv

LEMMA PublishedKeeps == ASSUME StreamInv, Published PROVE StreamInv'
<1>1. sending.stage = "retain" /\ sending.todo = {} /\ sending' = Idle
      /\ UNCHANGED <<published, latest, closed, linked, retained, queue, at, delivered>>
  BY Zenon DEF Published
<1>2. latest = published /\ closed \in BOOLEAN /\ ~\E s \in Subscribers : Pending(s)
  BY Zenon, <1>1, SendingFields DEF StreamInv, ActorFits, Pending
<1> QED
  BY Zenon, <1>1, <1>2, ActorTurnKeeps

LEMMA DetachKeeps ==
  ASSUME StreamInv, sending = Idle, linked' \subseteq linked, closed' \in BOOLEAN,
         UNCHANGED <<published, latest, sending, retained, queue, at, delivered>>
  PROVE  StreamInv'
<1>1. latest = published /\ sending.stage = "idle" /\ ~\E s \in Subscribers : Pending(s)
  BY Zenon, SendingFields DEF StreamInv, Pending
<1> QED
  BY Zenon, <1>1, ActorTurnKeeps

LEMMA SubscribeKeeps == ASSUME StreamInv, NEW s \in Subscribers, Subscribe(s) PROVE StreamInv'
<1>0. PICK change : change = Change(latest, None)
  BY Zenon
<1>1. /\ sending = Idle /\ at[s] = "none" /\ linked' = linked \cup {s}
      /\ retained' = [retained EXCEPT ![s] = change]
      /\ queue' = [queue EXCEPT ![s] = <<change>>]
      /\ at' = [at EXCEPT ![s] = "queue"]
      /\ UNCHANGED <<published, latest, closed, sending, delivered>>
  BY Zenon, <1>0 DEF Subscribe
<1>2. latest = published /\ sending.stage = "idle" /\ latest \in Settlements /\ linked' \subseteq Subscribers
  BY Zenon, <1>1, SendingFields DEF StreamInv, ActorFits
<1>3. change \in SettledChanges /\ change.snapshot = latest /\ NotAfter(latest, latest)
  BY Zenon, <1>0, <1>2, ChangeType, NotAfterIsAnOrder
<1>4. <<change>> \in Seq(SettledChanges) /\ Len(<<change>>) = 1 /\ <<change>>[1] = change /\ <<change>> # <<>>
  BY <1>3
<1>5. ActorFits'
  BY Zenon, <1>1, <1>2, <1>3 DEF ActorFits, StreamInv
<1>6. /\ retained'[s] = change /\ queue'[s] = <<change>> /\ at'[s] = "queue"
      /\ \A t \in Subscribers \ {s} : retained'[t] = retained[t] /\ queue'[t] = queue[t] /\ at'[t] = at[t]
      /\ retained' \in [Subscribers -> SettledChanges \cup {None}]
      /\ queue' \in [Subscribers -> Seq(SettledChanges)]
      /\ at' \in [Subscribers -> {"none", "queue", "latest", "tail", "wait", "done", "gone"}]
  BY Zenon, <1>1, <1>3, <1>4 DEF StreamInv, ReceiversTyped
<1>7. \A t \in Subscribers : Len(queue'[t]) <= Capacity
  <2>1. Len(queue'[s]) = 1 /\ 1 <= Capacity
    BY <1>4, <1>6, StreamAssumption
  <2>2. \A t \in Subscribers \ {s} : queue'[t] = queue[t] /\ Len(queue[t]) <= Capacity
    BY Zenon, <1>6 DEF StreamInv, ReceiversTyped
  <2> QED
    BY Zenon, <2>1, <2>2
<1>8. ReceiversTyped'
  BY Zenon, <1>1, <1>6, <1>7 DEF StreamInv, ReceiversTyped
<1>9. ASSUME NEW t \in Subscribers PROVE ReceiverFits(t)'
  <2>1. ReceiverFits(t) /\ ReceiversTyped /\ ~SendsTo(t) /\ ~Pending(t) /\ ~Pending(t)'
    BY Zenon, <1>1, <1>2 DEF StreamInv, SendsTo, Pending
  <2>2. CASE t # s
    <3>1. t \in linked => retained[t].snapshot = latest
      BY Zenon, <2>1 DEF ReceiverFits
    <3> QED
      BY <1>1, <1>2, <1>3, <1>6, <2>1, <2>2, <3>1, SameReceiver
  <2>3. CASE t = s
    <3>1. delivered[s] = None
      BY Zenon, <1>1, <2>1, <2>3 DEF ReceiverFits
    <3>2. \A i \in 1 .. Len(queue'[s]) : NotAfter(queue'[s][i].snapshot, latest)
      BY <1>3, <1>4, <1>6
    <3> QED
      BY Zenon, <1>1, <1>3, <1>6, <2>3, <3>1, <3>2 DEF ReceiverFits
  <2> QED
    BY Zenon, <2>2, <2>3
<1> QED
  BY Zenon, <1>5, <1>8, <1>9 DEF StreamInv

-----------------------------------------------------------------------------
(* The stream keeps its invariant: the receivers' steps.                   *)

\* A step of s alone: the actor and the other receivers are as they were.
LEMMA ReceiverStep ==
  ASSUME StreamInv, NEW s \in Subscribers,
         UNCHANGED <<published, latest, closed, linked, sending, retained>>,
         ReceiversTyped', ReceiverFits(s)',
         \A t \in Subscribers \ {s} : queue'[t] = queue[t] /\ at'[t] = at[t] /\ delivered'[t] = delivered[t]
  PROVE  StreamInv'
<1>1. ActorFits'
  BY Zenon DEF StreamInv, ActorFits
<1>2. ASSUME NEW t \in Subscribers \ {s} PROVE ReceiverFits(t)'
  BY DEF StreamInv, ReceiverFits, Pending
<1> QED
  BY Zenon, <1>1, <1>2 DEF StreamInv

\* What a receiver holds after it was offered a change its watch cell covers.
LEMMA DeliverFits ==
  ASSUME StreamInv, NEW s \in Subscribers, NEW change \in SettledChanges, DeliverNewer(s, change),
         NotAfter(change.snapshot, retained[s].snapshot), at[s] # "none"
  PROVE  /\ delivered' \in [Subscribers -> SettledChanges \cup {None}]
         /\ \A t \in Subscribers \ {s} : delivered'[t] = delivered[t]
         /\ delivered'[s] # None /\ NotAfter(delivered'[s].snapshot, retained[s].snapshot)
         /\ delivered'[s] \in {delivered[s], change}
         /\ delivered' # delivered => delivered'[s] = change
              /\ (delivered[s] # None => IsNewerThan(change.snapshot, delivered[s].snapshot))
         /\ delivered' = delivered => delivered[s] # None /\ ~IsNewerThan(change.snapshot, delivered[s].snapshot)
<1>1. /\ delivered \in [Subscribers -> SettledChanges \cup {None}] /\ change # None
      /\ change.snapshot \in Settlements
      /\ delivered[s] # None => NotAfter(delivered[s].snapshot, retained[s].snapshot)
                                /\ delivered[s].snapshot \in Settlements
  BY Zenon, ChangeFields DEF StreamInv, ReceiversTyped, ReceiverFits
<1>2. CASE delivered[s] = None \/ IsNewerThan(change.snapshot, delivered[s].snapshot)
  <2>1. delivered' = [delivered EXCEPT ![s] = change]
    BY Zenon, <1>2 DEF DeliverNewer
  <2>2. delivered[s] # None => change.snapshot # delivered[s].snapshot
    BY Zenon, <1>1, <1>2, SettledNewer
  <2>3. delivered' # delivered
    BY Zenon, <1>1, <2>1, <2>2
  <2> QED
    BY Zenon, <1>1, <1>2, <2>1, <2>3
<1>3. CASE ~(delivered[s] = None \/ IsNewerThan(change.snapshot, delivered[s].snapshot))
  <2>1. delivered' = delivered
    BY Zenon, <1>3 DEF DeliverNewer
  <2> QED
    BY Zenon, <1>1, <1>3, <2>1
<1> QED
  BY Zenon, <1>2, <1>3

LEMMA TakeHead ==
  ASSUME StreamInv, NEW s \in Subscribers, at[s] \in {"queue", "wait"}, queue[s] # <<>>,
         DeliverNewer(s, Head(queue[s])), queue' = [queue EXCEPT ![s] = Tail(@)],
         at' = [at EXCEPT ![s] = "queue"],
         UNCHANGED <<published, latest, closed, linked, sending, retained>>
  PROVE  StreamInv'
<1>1. /\ ReceiversTyped /\ ReceiverFits(s) /\ queue[s] \in Seq(SettledChanges)
      /\ Len(queue[s]) <= Capacity /\ at[s] # "none"
  BY Zenon DEF StreamInv, ReceiversTyped
<1>2. /\ Len(queue[s]) \in Nat \ {0} /\ Head(queue[s]) = queue[s][1] /\ Head(queue[s]) \in SettledChanges
      /\ Tail(queue[s]) \in Seq(SettledChanges) /\ Len(Tail(queue[s])) = Len(queue[s]) - 1
      /\ \A i \in 1 .. Len(Tail(queue[s])) : i + 1 \in 1 .. Len(queue[s]) /\ Tail(queue[s])[i] = queue[s][i + 1]
  BY Zenon, <1>1, TailElements
<1>3. NotAfter(Head(queue[s]).snapshot, retained[s].snapshot)
  <2>1. 1 \in 1 .. Len(queue[s])
    BY <1>2
  <2> QED
    BY Zenon, <1>1, <1>2, <2>1 DEF ReceiverFits
<1>4. /\ delivered' \in [Subscribers -> SettledChanges \cup {None}]
      /\ \A t \in Subscribers \ {s} : delivered'[t] = delivered[t]
      /\ delivered'[s] # None /\ NotAfter(delivered'[s].snapshot, retained[s].snapshot)
  BY Zenon, <1>1, <1>2, <1>3, DeliverFits
<1>5. /\ queue' \in [Subscribers -> Seq(SettledChanges)] /\ queue'[s] = Tail(queue[s])
      /\ at' \in [Subscribers -> {"none", "queue", "latest", "tail", "wait", "done", "gone"}] /\ at'[s] = "queue"
      /\ \A t \in Subscribers \ {s} : queue'[t] = queue[t] /\ at'[t] = at[t]
  BY Zenon, <1>1, <1>2 DEF ReceiversTyped
<1>6. \A t \in Subscribers : Len(queue'[t]) <= Capacity
  <2>1. Len(queue'[s]) <= Capacity
    BY <1>1, <1>2, <1>5, StreamAssumption
  <2> QED
    BY Zenon, <1>1, <1>5, <2>1 DEF ReceiversTyped
<1>7. ReceiversTyped'
  BY Zenon, <1>1, <1>4, <1>5, <1>6 DEF ReceiversTyped
<1>8. \A i \in 1 .. Len(queue'[s]) : NotAfter(queue'[s][i].snapshot, retained[s].snapshot)
  BY <1>1, <1>2, <1>5 DEF ReceiverFits
<1>9. ReceiverFits(s)'
  <2>1. /\ at[s] # "none" => retained[s] \in SettledChanges /\ NotAfter(retained[s].snapshot, latest)
        /\ s \in linked /\ ~Pending(s) => retained[s].snapshot = latest
        /\ Pending(s)' <=> Pending(s)
    BY Zenon, <1>1 DEF ReceiverFits, Pending
  <2> QED
    BY Zenon, <1>1, <1>4, <1>5, <1>8, <2>1 DEF ReceiverFits
<1> QED
  BY Zenon, <1>4, <1>5, <1>7, <1>9, ReceiverStep

\* A move that delivers nothing.
LEMMA MoveKeeps ==
  ASSUME StreamInv, NEW s \in Subscribers, NEW to \in {"queue", "latest", "tail", "wait", "done", "gone"},
         at[s] # "none",
         at' = [at EXCEPT ![s] = to],
         UNCHANGED <<published, latest, closed, linked, sending, retained, queue, delivered>>,
         to \in {"tail", "done"} => s \notin linked,
         to \in {"wait", "done"} => delivered[s] # None /\ delivered[s].snapshot = retained[s].snapshot
  PROVE  StreamInv'
<1>1. ReceiversTyped /\ ReceiverFits(s)
  BY Zenon DEF StreamInv
<1>2. /\ at' \in [Subscribers -> {"none", "queue", "latest", "tail", "wait", "done", "gone"}] /\ at'[s] = to
      /\ \A t \in Subscribers \ {s} : at'[t] = at[t]
  BY Zenon, <1>1 DEF ReceiversTyped
<1>3. ReceiversTyped'
  BY Zenon, <1>1, <1>2 DEF ReceiversTyped
<1>4. ReceiverFits(s)'
  BY Zenon, <1>1, <1>2 DEF ReceiverFits, Pending
<1> QED
  BY Zenon, <1>2, <1>3, <1>4, ReceiverStep

LEMMA ReadRetainedKeeps == ASSUME StreamInv, NEW s \in Subscribers, ReadRetained(s) PROVE StreamInv'
<1>1. /\ at[s] \in {"latest", "tail"} /\ DeliverNewer(s, retained[s])
      /\ at' = [at EXCEPT ![s] = IF delivered' # delivered THEN "queue"
                                 ELSE IF at[s] = "latest" THEN "wait" ELSE "done"]
      /\ UNCHANGED <<published, latest, closed, linked, sending, retained, queue>>
  BY Zenon DEF ReadRetained, actorVars
<1>2. ReceiversTyped /\ ReceiverFits(s)
  BY Zenon DEF StreamInv
<1>3. retained[s] \in SettledChanges /\ (at[s] = "tail" => s \notin linked)
  BY Zenon, <1>1, <1>2 DEF ReceiverFits
<1>4. retained[s].snapshot \in Settlements /\ NotAfter(retained[s].snapshot, retained[s].snapshot)
  BY Zenon, <1>3, ChangeFields, NotAfterIsAnOrder
<1>5. /\ delivered' \in [Subscribers -> SettledChanges \cup {None}]
      /\ \A t \in Subscribers \ {s} : delivered'[t] = delivered[t]
      /\ delivered'[s] # None /\ NotAfter(delivered'[s].snapshot, retained[s].snapshot)
      /\ delivered' = delivered => delivered[s] # None /\ ~IsNewerThan(retained[s].snapshot, delivered[s].snapshot)
  BY Zenon, <1>1, <1>3, <1>4, DeliverFits
<1>6. CASE delivered' = delivered
  <2>1. delivered[s].snapshot \in Settlements /\ NotAfter(delivered[s].snapshot, retained[s].snapshot)
    BY Zenon, <1>2, <1>5, <1>6, ChangeFields DEF ReceiversTyped
  <2>2. delivered[s].snapshot = retained[s].snapshot
    BY Zenon, <1>4, <1>5, <1>6, <2>1, SettledNewer
  <2>3. at' = [at EXCEPT ![s] = IF at[s] = "latest" THEN "wait" ELSE "done"]
    BY Zenon, <1>1, <1>6
  <2>4. CASE at[s] = "latest"
    <3>1. at' = [at EXCEPT ![s] = "wait"]
      BY Zenon, <2>3, <2>4
    <3> QED
      BY Zenon, <1>1, <1>5, <1>6, <2>2, <2>4, <3>1, MoveKeeps
  <2>5. CASE at[s] = "tail"
    <3>1. at' = [at EXCEPT ![s] = "done"]
      BY Zenon, <2>3, <2>5
    <3> QED
      BY Zenon, <1>1, <1>3, <1>5, <1>6, <2>2, <2>5, <3>1, MoveKeeps
  <2> QED
    BY Zenon, <1>1, <2>4, <2>5
<1>7. CASE delivered' # delivered
  <2>1. at' = [at EXCEPT ![s] = "queue"]
    BY Zenon, <1>1, <1>7
  <2>2. /\ at' \in [Subscribers -> {"none", "queue", "latest", "tail", "wait", "done", "gone"}] /\ at'[s] = "queue"
        /\ \A t \in Subscribers \ {s} : at'[t] = at[t]
    BY Zenon, <1>2, <2>1 DEF ReceiversTyped
  <2>3. ReceiversTyped'
    BY Zenon, <1>1, <1>2, <1>5, <2>2 DEF ReceiversTyped
  <2>4. ReceiverFits(s)'
    <3>1. /\ NotAfter(retained[s].snapshot, latest) /\ (Pending(s)' <=> Pending(s))
          /\ s \in linked /\ ~Pending(s) => retained[s].snapshot = latest
          /\ \A i \in 1 .. Len(queue[s]) : NotAfter(queue[s][i].snapshot, retained[s].snapshot)
      BY Zenon, <1>1, <1>2 DEF ReceiverFits, Pending
    <3> QED
      BY Zenon, <1>1, <1>3, <1>5, <2>2, <3>1 DEF ReceiverFits
  <2> QED
    BY Zenon, <1>1, <1>5, <2>2, <2>3, <2>4, ReceiverStep
<1> QED
  BY Zenon, <1>6, <1>7

LEMMA ReceiveKeeps == ASSUME StreamInv, NEW s \in Subscribers, Receive(s) PROVE StreamInv'
<1>0. at \in [Subscribers -> {"none", "queue", "latest", "tail", "wait", "done", "gone"}]
  BY Zenon DEF StreamInv, ReceiversTyped
<1>1. CASE TryReceive(s)
  <2>1. at' = [at EXCEPT ![s] = "queue"]
    BY Zenon, <1>0, <1>1 DEF TryReceive
  <2> QED
    BY Zenon, <1>1, <2>1, TakeHead DEF TryReceive, actorVars
<1>2. CASE QueueDrained(s)
  <2>1. PICK to \in {"latest", "tail"} : at' = [at EXCEPT ![s] = to] /\ (to = "tail" => s \notin linked)
    BY Zenon, <1>2 DEF QueueDrained
  <2> QED
    BY Zenon, <1>2, <2>1, MoveKeeps DEF QueueDrained, actorVars
<1>3. CASE ReadRetained(s)
  BY Zenon, <1>3, ReadRetainedKeeps
<1>4. CASE Await(s)
  <2>1. /\ at[s] = "wait" /\ at' = [at EXCEPT ![s] = "queue"]
        /\ UNCHANGED <<published, latest, closed, linked, sending, retained>>
    BY Zenon, <1>4 DEF Await, actorVars
  <2>2. CASE queue[s] # <<>> /\ DeliverNewer(s, Head(queue[s])) /\ queue' = [queue EXCEPT ![s] = Tail(@)]
    BY Zenon, <2>1, <2>2, TakeHead
  <2>3. CASE UNCHANGED <<queue, delivered>>
    BY Zenon, <2>1, <2>3, MoveKeeps
  <2> QED
    BY Zenon, <1>4, <2>2, <2>3 DEF Await
<1> QED
  BY Zenon, <1>1, <1>2, <1>3, <1>4 DEF Receive

LEMMA DropKeeps == ASSUME StreamInv, NEW s \in Subscribers, Drop(s) PROVE StreamInv'
BY Zenon, MoveKeeps DEF Drop, Gone, actorVars

LEMMA StreamStart == Init => StreamInv
<1> SUFFICES ASSUME Init PROVE StreamInv
  BY Zenon
<1>1. /\ published = Settled(0, 0) /\ latest = Settled(0, 0) /\ closed = FALSE /\ linked = {} /\ sending = Idle
      /\ retained = [s \in Subscribers |-> None] /\ queue = [s \in Subscribers |-> <<>>]
      /\ at = [s \in Subscribers |-> "none"] /\ delivered = [s \in Subscribers |-> None]
  BY Zenon DEF Init
<1>2. Settled(0, 0) \in Settlements /\ NotAfter(Settled(0, 0), Settled(0, 0))
  BY Zenon, SettledType, NotAfterIsAnOrder
<1>3. ActorFits
  BY Zenon, <1>1, <1>2 DEF ActorFits
<1>4. <<>> \in Seq(SettledChanges) /\ Len(<<>>) = 0
  OBVIOUS
<1>5. ReceiversTyped
  BY <1>1, <1>4, StreamAssumption DEF ReceiversTyped
<1>6. ASSUME NEW s \in Subscribers PROVE ReceiverFits(s)
  BY <1>1, <1>4 DEF ReceiverFits
<1> QED
  BY Zenon, <1>3, <1>5, <1>6 DEF StreamInv

LEMMA StreamStep == StreamInv /\ [Next]_streamVars => StreamInv'
<1> SUFFICES ASSUME StreamInv, [Next]_streamVars PROVE StreamInv'
  BY Zenon
<1>1. CASE \E r \in 0 .. MaxRevision, g \in 0 .. MaxGeneration : Settle(r, g)
  <2>1. PICK r \in 0 .. MaxRevision, g \in 0 .. MaxGeneration : Settle(r, g)
    BY Zenon, <1>1
  <2>2. r \in Nat /\ g \in Nat
    BY StreamAssumption
  <2> QED
    BY Zenon, <2>1, <2>2, SettleKeeps
<1>2. CASE Publish
  BY Zenon, <1>2, PublishKeeps
<1>3. CASE \E s \in Subscribers : Retain(s)
  BY Zenon, <1>3, RetainKeeps
<1>4. CASE Enqueue
  BY Zenon, <1>4, EnqueueKeeps
<1>5. CASE Published
  BY Zenon, <1>5, PublishedKeeps
<1>6. CASE \E s \in Subscribers : Subscribe(s)
  BY Zenon, <1>6, SubscribeKeeps
<1>7. CASE \E s \in Subscribers : Unsubscribe(s)
  <2>1. linked' \subseteq linked /\ closed' \in BOOLEAN
    BY Zenon, <1>7 DEF Unsubscribe, StreamInv, ActorFits
  <2> QED
    BY Zenon, <1>7, <2>1, DetachKeeps DEF Unsubscribe
<1>8. CASE Close
  BY Zenon, <1>8, DetachKeeps DEF Close
<1>9. CASE \E s \in Subscribers : Receive(s)
  BY Zenon, <1>9, ReceiveKeeps
<1>10. CASE \E s \in Subscribers : Drop(s)
  BY Zenon, <1>10, DropKeeps
<1>11. CASE UNCHANGED streamVars
  <2>1. UNCHANGED <<published, latest, closed, linked, sending, retained, queue, at, delivered>>
    BY Zenon, <1>11 DEF streamVars
  <2>2. ActorFits' /\ ReceiversTyped'
    BY Zenon, <2>1 DEF StreamInv, ActorFits, ReceiversTyped
  <2>3. ASSUME NEW s \in Subscribers PROVE ReceiverFits(s)'
    BY Zenon, <2>1 DEF StreamInv, ReceiverFits, Pending
  <2> QED
    BY Zenon, <2>2, <2>3 DEF StreamInv
<1> QED
  BY Zenon, <1>1, <1>2, <1>3, <1>4, <1>5, <1>6, <1>7, <1>8, <1>9, <1>10, <1>11 DEF Next, Actor

-----------------------------------------------------------------------------
(* The stream keeps its log.                                               *)

\* A newer snapshot is appended.
LEMMA LogGrows ==
  ASSUME LogFits, NEW snapshot \in Settlements, NotAfter(latest, snapshot), snapshot # latest,
         log' = Append(log, snapshot), latest' = snapshot
  PROVE  /\ LogFits' /\ Len(log') = Len(log) + 1 /\ log'[Len(log) + 1] = snapshot
         /\ Len(log) \in Nat /\ \A i \in 1 .. Len(log) : log'[i] = log[i]
         /\ ~ InLog(snapshot)
<1>1. log \in Seq(Settlements) /\ Len(log) \in Nat /\ Len(log) > 0 /\ log[Len(log)] = latest /\ latest \in Settlements
  BY LogLength DEF LogFits
<1>2. /\ log' \in Seq(Settlements) /\ Len(log') = Len(log) + 1 /\ log'[Len(log) + 1] = snapshot
      /\ \A i \in 1 .. Len(log) : log'[i] = log[i]
  BY <1>1, LogAppend
<1>3. ASSUME NEW i \in 1 .. Len(log) PROVE NotAfter(log[i], snapshot) /\ log[i] # snapshot
  <2>1. log[i] \in Settlements
    BY Zenon, <1>1, LogLength
  <2>2. NotAfter(log[i], latest)
    BY <1>1, <2>1, NotAfterIsAnOrder DEF LogFits
  <2> QED
    BY <1>1, <2>1, <2>2, NotAfterIsAnOrder
<1>4. ASSUME NEW i \in 1 .. Len(log'), NEW j \in 1 .. Len(log'), i < j
      PROVE  NotAfter(log'[i], log'[j]) /\ log'[i] # log'[j]
  <2>1. i \in 1 .. Len(log)
    BY <1>1, <1>2, <1>4
  <2>2. CASE j \in 1 .. Len(log)
    BY Zenon, <1>2, <1>4, <2>1, <2>2 DEF LogFits
  <2>3. CASE j = Len(log) + 1
    BY Zenon, <1>2, <1>3, <2>1, <2>3
  <2> QED
    BY <1>1, <1>2, <2>2, <2>3
<1>5. LogFits'
  BY <1>1, <1>2, <1>4 DEF LogFits
<1> QED
  BY Zenon, <1>1, <1>2, <1>3, <1>5 DEF InLog

LEMMA PublishKeepsLog == ASSUME StreamInv, LogInv, Publish PROVE LogInv'
<1>1. /\ sending.stage = "publish" /\ sending.snapshot = published
      /\ UNCHANGED <<retained, queue, at, delivered>>
  BY Zenon, SendingFields DEF Publish, StreamInv
<1>2. published \in Settlements /\ latest \in Settlements /\ NotAfter(latest, published)
  BY Zenon DEF StreamInv, ActorFits
<1>3. CASE IsNewerThan(published, latest)
  <2>1. latest' = published /\ log' = Append(log, published) /\ published # latest
    BY Zenon, <1>1, <1>2, <1>3, SettledNewer DEF Publish
  <2>2. LogFits' /\ Len(log') = Len(log) + 1 /\ Len(log) \in Nat /\ \A i \in 1 .. Len(log) : log'[i] = log[i]
    BY Zenon, <1>2, <2>1, LogGrows DEF LogInv
  <2>3. ASSUME NEW snapshot, InLog(snapshot) PROVE InLog(snapshot)'
    BY <2>2, <2>3 DEF InLog
  <2>4. ASSUME NEW s \in Subscribers PROVE HeldInLog(s)'
    BY Zenon, <1>1, <2>3 DEF LogInv, HeldInLog
  <2> QED
    BY Zenon, <2>2, <2>4 DEF LogInv
<1>4. CASE ~IsNewerThan(published, latest)
  <2>1. UNCHANGED <<latest, log>>
    BY Zenon, <1>1, <1>4 DEF Publish
  <2> QED
    BY <1>1, <2>1 DEF LogInv, LogFits, HeldInLog, InLog
<1> QED
  BY Zenon, <1>3, <1>4

\* A step that appends nothing, and after which s holds what is in the log.
LEMMA LogStays ==
  ASSUME LogInv, UNCHANGED <<latest, log>>, NEW s \in Subscribers, HeldInLog(s)',
         \A t \in Subscribers \ {s} :
           at'[t] = at[t] /\ retained'[t] = retained[t] /\ queue'[t] = queue[t] /\ delivered'[t] = delivered[t]
  PROVE  LogInv'
<1>1. LogFits'
  BY Zenon DEF LogInv, LogFits
<1>2. ASSUME NEW t \in Subscribers \ {s} PROVE HeldInLog(t)'
  BY DEF LogInv, HeldInLog, InLog
<1> QED
  BY Zenon, <1>1, <1>2 DEF LogInv

LEMMA LatestInLog == ASSUME LogInv PROVE InLog(latest) /\ Len(log) \in 1 .. Len(log)
<1>1. Len(log) \in Nat /\ Len(log) > 0 /\ log[Len(log)] = latest
  BY Zenon, LogLength DEF LogInv, LogFits
<1> QED
  BY <1>1 DEF InLog

LEMMA ActorKeepsLog ==
  ASSUME StreamInv, LogInv, NEW s \in Subscribers, Retain(s) \/ Subscribe(s)
  PROVE  LogInv'
<1>1. ReceiversTyped /\ HeldInLog(s) /\ InLog(latest)
  BY Zenon, LatestInLog DEF StreamInv, LogInv
<1>2. CASE Retain(s)
  <2>1. /\ sending.stage = "retain" /\ retained' = [retained EXCEPT ![s] = sending.change]
        /\ UNCHANGED <<latest, log, queue, at, delivered>>
    BY Zenon, <1>2 DEF Retain
  <2>2. PICK previous \in Nat \cup {None} : sending.change = Change(latest, previous)
    BY Zenon, <2>1, SendingFields DEF StreamInv
  <2>3. retained'[s].snapshot = latest /\ \A t \in Subscribers \ {s} : retained'[t] = retained[t]
    BY <1>1, <2>1, <2>2 DEF Change, ReceiversTyped
  <2>4. HeldInLog(s)'
    BY Zenon, <1>1, <2>1, <2>3 DEF HeldInLog, InLog
  <2> QED
    BY Zenon, <2>1, <2>3, <2>4, LogStays
<1>3. CASE Subscribe(s)
  <2>1. /\ retained' = [retained EXCEPT ![s] = Change(latest, None)]
        /\ queue' = [queue EXCEPT ![s] = <<Change(latest, None)>>]
        /\ at' = [at EXCEPT ![s] = "queue"] /\ at[s] = "none"
        /\ UNCHANGED <<latest, log, delivered>>
    BY Zenon, <1>3 DEF Subscribe
  <2>2. /\ retained'[s].snapshot = latest /\ queue'[s] = <<Change(latest, None)>>
        /\ Len(queue'[s]) = 1 /\ queue'[s][1].snapshot = latest
        /\ \A t \in Subscribers \ {s} :
             retained'[t] = retained[t] /\ queue'[t] = queue[t] /\ at'[t] = at[t]
    BY Zenon, <1>1, <2>1 DEF Change, ReceiversTyped
  <2>3. delivered[s] = None
    BY Zenon, <2>1 DEF StreamInv, ReceiverFits
  <2>4. HeldInLog(s)'
    BY <1>1, <2>1, <2>2, <2>3 DEF HeldInLog, InLog
  <2> QED
    BY Zenon, <2>1, <2>2, <2>4, LogStays
<1> QED
  BY Zenon, <1>2, <1>3

LEMMA EnqueueKeepsLog == ASSUME StreamInv, LogInv, Enqueue PROVE LogInv'
<1>0. PICK s : s = sending.to
  BY Zenon
<1>1. /\ sending.stage = "enqueue"
      /\ queue' = IF Gone(s) \/ Len(queue[s]) >= Capacity THEN queue
                  ELSE [queue EXCEPT ![s] = Append(@, sending.change)]
      /\ UNCHANGED <<latest, log, retained, at, delivered>>
  BY Zenon, <1>0 DEF Enqueue, TrySend
<1>2. s \in Subscribers /\ latest \in Settlements
  BY Zenon, <1>0, <1>1, SendingFields DEF StreamInv, ActorFits
<1>3. PICK previous \in Nat \cup {None} : sending.change = Change(latest, previous)
  BY Zenon, <1>1, SendingFields DEF StreamInv
<1>4. sending.change \in SettledChanges /\ sending.change.snapshot = latest
  BY Zenon, <1>2, <1>3, ChangeType
<1>5. ReceiversTyped /\ HeldInLog(s) /\ InLog(latest)
  BY Zenon, <1>2, LatestInLog DEF StreamInv, LogInv
<1>6. /\ queue[s] \in Seq(SettledChanges) /\ Len(queue[s]) \in Nat
      /\ Len(Append(queue[s], sending.change)) = Len(queue[s]) + 1
      /\ \A i \in 1 .. Len(queue[s]) : Append(queue[s], sending.change)[i] = queue[s][i]
      /\ Append(queue[s], sending.change)[Len(queue[s]) + 1] = sending.change
  <2>1. queue[s] \in Seq(SettledChanges)
    BY Zenon, <1>2, <1>5 DEF ReceiversTyped
  <2> QED
    BY <1>4, <2>1, LogAppend, LogLength
<1>7. /\ \A t \in Subscribers \ {s} : queue'[t] = queue[t]
      /\ queue'[s] \in {queue[s], Append(queue[s], sending.change)}
  BY Zenon, <1>1, <1>2, <1>5 DEF ReceiversTyped
<1>8. ASSUME at[s] # "none", NEW i \in 1 .. Len(queue'[s]) PROVE InLog(queue'[s][i].snapshot)
  <2>1. CASE i \in 1 .. Len(queue[s])
    <3>1. queue'[s][i] = queue[s][i]
      BY Zenon, <1>6, <1>7, <2>1
    <3> QED
      BY Zenon, <1>5, <1>8, <2>1, <3>1 DEF HeldInLog
  <2>2. CASE i \notin 1 .. Len(queue[s])
    <3>1. queue'[s] = Append(queue[s], sending.change) /\ i = Len(queue[s]) + 1
      BY <1>6, <1>7, <2>2
    <3> QED
      BY Zenon, <1>4, <1>5, <1>6, <3>1
  <2> QED
    BY Zenon, <2>1, <2>2
<1>9. HeldInLog(s)'
  BY Zenon, <1>1, <1>5, <1>8 DEF HeldInLog, InLog
<1> QED
  BY Zenon, <1>1, <1>2, <1>7, <1>9, LogStays

\* A receiver is offered only what the log has.
LEMMA DeliverInLog ==
  ASSUME StreamInv, NEW s \in Subscribers, NEW change \in SettledChanges, DeliverNewer(s, change),
         InLog(change.snapshot), delivered[s] # None => InLog(delivered[s].snapshot), log' = log
  PROVE  /\ delivered'[s] # None => InLog(delivered'[s].snapshot)
         /\ \A t \in Subscribers \ {s} : delivered'[t] = delivered[t]
BY Zenon DEF DeliverNewer, StreamInv, ReceiversTyped

LEMMA ReceiveKeepsLog ==
  ASSUME StreamInv, LogInv, NEW s \in Subscribers, Receive(s) \/ Drop(s)
  PROVE  LogInv'
<1>1. ReceiversTyped /\ HeldInLog(s) /\ ReceiverFits(s)
  BY Zenon DEF StreamInv, LogInv
<1>2. at[s] # "none" /\ UNCHANGED <<latest, log, retained>> /\ \A t \in Subscribers \ {s} : at'[t] = at[t]
  BY Zenon, <1>1 DEF Receive, TryReceive, QueueDrained, ReadRetained, Await, Drop, Gone, actorVars, ReceiversTyped
<1>3. /\ InLog(retained[s].snapshot) /\ \A i \in 1 .. Len(queue[s]) : InLog(queue[s][i].snapshot)
      /\ delivered[s] # None => InLog(delivered[s].snapshot)
  BY Zenon, <1>1, <1>2 DEF HeldInLog
<1>4. CASE queue[s] # <<>> /\ DeliverNewer(s, Head(queue[s])) /\ queue' = [queue EXCEPT ![s] = Tail(@)]
  <2>1. queue[s] \in Seq(SettledChanges)
    BY Zenon, <1>1 DEF ReceiversTyped
  <2>2. /\ Len(queue[s]) \in Nat \ {0} /\ Head(queue[s]) = queue[s][1] /\ Head(queue[s]) \in SettledChanges
        /\ \A i \in 1 .. Len(Tail(queue[s])) : i + 1 \in 1 .. Len(queue[s]) /\ Tail(queue[s])[i] = queue[s][i + 1]
    BY Zenon, <1>4, <2>1, TailElements
  <2>3. 1 \in 1 .. Len(queue[s])
    BY <2>2
  <2>4. InLog(Head(queue[s]).snapshot)
    BY Zenon, <1>3, <2>2, <2>3
  <2>5. /\ delivered'[s] # None => InLog(delivered'[s].snapshot)
        /\ \A t \in Subscribers \ {s} : delivered'[t] = delivered[t]
    BY Zenon, <1>2, <1>3, <1>4, <2>2, <2>4, DeliverInLog
  <2>6. queue'[s] = Tail(queue[s]) /\ \A t \in Subscribers \ {s} : queue'[t] = queue[t]
    BY Zenon, <1>1, <1>4 DEF ReceiversTyped
  <2>7. \A i \in 1 .. Len(queue'[s]) : InLog(queue'[s][i].snapshot)
    BY <1>3, <2>2, <2>6
  <2>8. HeldInLog(s)'
    BY Zenon, <1>2, <1>3, <2>5, <2>7 DEF HeldInLog, InLog
  <2> QED
    BY Zenon, <1>2, <2>5, <2>6, <2>8, LogStays
<1>5. CASE DeliverNewer(s, retained[s]) /\ UNCHANGED queue
  <2>1. retained[s] \in SettledChanges
    BY Zenon, <1>1, <1>2 DEF ReceiverFits
  <2>2. /\ delivered'[s] # None => InLog(delivered'[s].snapshot)
        /\ \A t \in Subscribers \ {s} : delivered'[t] = delivered[t]
    BY Zenon, <1>2, <1>3, <1>5, <2>1, DeliverInLog
  <2>3. HeldInLog(s)'
    BY Zenon, <1>2, <1>3, <1>5, <2>2 DEF HeldInLog, InLog
  <2> QED
    BY Zenon, <1>2, <1>5, <2>2, <2>3, LogStays
<1>6. CASE UNCHANGED <<queue, delivered>>
  <2>1. HeldInLog(s)'
    BY Zenon, <1>2, <1>3, <1>6 DEF HeldInLog, InLog
  <2> QED
    BY Zenon, <1>2, <1>6, <2>1, LogStays
<1> QED
  BY Zenon, <1>4, <1>5, <1>6 DEF Receive, TryReceive, QueueDrained, ReadRetained, Await, Drop

LEMMA LogStart == Init => LogInv
<1> SUFFICES ASSUME Init PROVE LogInv
  BY Zenon
<1>1. latest = Settled(0, 0) /\ log = <<Settled(0, 0)>> /\ at = [s \in Subscribers |-> "none"]
  BY Zenon DEF Init
<1>2. Settled(0, 0) \in Settlements
  BY Zenon, SettledType
<1>3. log \in Seq(Settlements) /\ Len(log) = 1 /\ log[1] = latest
  BY <1>1, <1>2
<1> QED
  BY <1>1, <1>3 DEF LogInv, LogFits, HeldInLog

LEMMA LogStep == StreamInv /\ LogInv /\ [Next]_streamVars => LogInv'
<1> SUFFICES ASSUME StreamInv, LogInv, [Next]_streamVars PROVE LogInv'
  BY Zenon
<1>1. CASE Publish
  BY Zenon, <1>1, PublishKeepsLog
<1>2. CASE \E s \in Subscribers : Retain(s) \/ Subscribe(s)
  BY Zenon, <1>2, ActorKeepsLog
<1>3. CASE Enqueue
  BY Zenon, <1>3, EnqueueKeepsLog
<1>4. CASE \E s \in Subscribers : Receive(s) \/ Drop(s)
  BY Zenon, <1>4, ReceiveKeepsLog
<1>5. CASE UNCHANGED <<latest, log, retained, queue, at, delivered>>
  BY <1>5 DEF LogInv, LogFits, HeldInLog, InLog
<1> QED
  BY Zenon, <1>1, <1>2, <1>3, <1>4, <1>5 DEF Next, Actor, Settle, Published, Unsubscribe, Close, streamVars

-----------------------------------------------------------------------------
LEMMA StreamInvariant == Spec => [](StreamInv /\ LogInv)
<1>1. Init => StreamInv /\ LogInv
  BY Zenon, StreamStart, LogStart
<1>2. StreamInv /\ LogInv /\ [Next]_streamVars => (StreamInv /\ LogInv)'
  BY Zenon, StreamStep, LogStep
<1> QED
  BY <1>1, <1>2, PTL DEF Spec

LEMMA SettledSeq ==
  ASSUME NEW S, NEW T, S \subseteq T, NEW q \in Seq(S)
  PROVE  q \in Seq(T)
OBVIOUS

LEMMA StreamTyped == StreamInv /\ LogInv => TypeOK
<1> SUFFICES ASSUME StreamInv, LogInv PROVE TypeOK
  BY Zenon
<1>1. published \in Snapshot /\ latest \in Snapshot /\ closed \in BOOLEAN /\ linked \subseteq Subscribers
  BY Zenon, SettledFields DEF StreamInv, ActorFits
<1>2. SettledChanges \subseteq Changes /\ Settlements \subseteq Snapshot
  BY Zenon, ChangeFields, SettledFields
<1>3. sending \in Publications
  <2>1. CASE sending = Idle
    BY Zenon, <2>1 DEF Publications
  <2>2. CASE sending = [stage |-> "publish", snapshot |-> published]
    BY Zenon, <1>1, <2>2 DEF Publications
  <2>3. CASE \E todo \in SUBSET linked, previous \in Nat \cup {None} :
               sending = [stage |-> "retain", todo |-> todo, change |-> Change(latest, previous)]
    <3>1. PICK todo \in SUBSET linked, previous \in Nat \cup {None} :
            sending = [stage |-> "retain", todo |-> todo, change |-> Change(latest, previous)]
      BY Zenon, <2>3
    <3>2. Change(latest, previous) \in Changes
      BY Zenon, <1>1 DEF Change, Changes
    <3> QED
      BY Zenon, <1>1, <3>1, <3>2 DEF Publications
  <2>4. CASE \E todo \in SUBSET linked, previous \in Nat \cup {None}, to \in linked :
               sending = [stage |-> "enqueue", todo |-> todo, to |-> to, change |-> Change(latest, previous)]
    <3>1. PICK todo \in SUBSET linked, previous \in Nat \cup {None}, to \in linked :
            sending = [stage |-> "enqueue", todo |-> todo, to |-> to, change |-> Change(latest, previous)]
      BY Zenon, <2>4
    <3>2. Change(latest, previous) \in Changes
      BY Zenon, <1>1 DEF Change, Changes
    <3> QED
      BY Zenon, <1>1, <3>1, <3>2 DEF Publications
  <2> QED
    BY Zenon, <2>1, <2>2, <2>3, <2>4 DEF StreamInv, ActorFits
<1>4. ReceiversTyped
  BY Zenon DEF StreamInv
<1>5. queue \in [Subscribers -> Seq(Changes)]
  BY Zenon, <1>2, <1>4, SettledSeq DEF ReceiversTyped
<1>6. log \in Seq(Snapshot)
  BY Zenon, <1>2, SettledSeq DEF LogInv, LogFits
<1>7. /\ retained \in [Subscribers -> Changes \cup {None}]
      /\ delivered \in [Subscribers -> Changes \cup {None}]
      /\ \A s \in Subscribers : Len(queue[s]) <= Capacity
      /\ at \in [Subscribers -> {"none", "queue", "latest", "tail", "wait", "done", "gone"}]
  BY Zenon, <1>2, <1>4 DEF ReceiversTyped
<1> QED
  BY Zenon, <1>1, <1>3, <1>5, <1>6, <1>7 DEF TypeOK

(***************************************************************************)
(* Whatever the order of settled snapshots, full queues, dropped receivers *)
(* and the close, the stream keeps its bounds, receive() reports the end   *)
(* only after the tail, no receiver parks behind the latest change, and    *)
(* the snapshot read synchronously is never behind one already delivered.  *)
(***************************************************************************)
THEOREM StreamMissesNothing == Spec => []ReceiversMissNothing
<1>1. StreamInv /\ LogInv => ReceiversMissNothing
  <2> SUFFICES ASSUME StreamInv, LogInv PROVE ReceiversMissNothing
    BY Zenon
  <2>1. EndedStreamIsComplete
    BY Zenon DEF EndedStreamIsComplete, StreamInv, ReceiverFits
  <2>2. ParkedReceiverIsCurrent
    <3> SUFFICES ASSUME NEW s \in Subscribers, at[s] = "wait", s \in linked, queue[s] = <<>>, sending = Idle
                 PROVE  delivered[s].snapshot = latest
      BY Zenon DEF ParkedReceiverIsCurrent
    <3>1. ReceiverFits(s) /\ sending.stage = "idle"
      BY Zenon DEF StreamInv, Idle
    <3> QED
      BY Zenon, <3>1 DEF ReceiverFits, Pending
  <2>3. ReadersNeverLag
    <3> SUFFICES ASSUME NEW s \in Subscribers, delivered[s] # None
                 PROVE  ~IsNewerThan(delivered[s].snapshot, published)
      BY Zenon DEF ReadersNeverLag
    <3>1. /\ delivered[s] \in SettledChanges /\ at[s] # "none" /\ retained[s] \in SettledChanges
          /\ NotAfter(delivered[s].snapshot, retained[s].snapshot) /\ NotAfter(retained[s].snapshot, latest)
      BY Zenon DEF StreamInv, ReceiversTyped, ReceiverFits
    <3>2. latest \in Settlements /\ published \in Settlements /\ NotAfter(latest, published)
      BY Zenon DEF StreamInv, ActorFits
    <3>3. delivered[s].snapshot \in Settlements /\ retained[s].snapshot \in Settlements
      BY Zenon, <3>1, ChangeFields
    <3>4. NotAfter(delivered[s].snapshot, published)
      BY <3>1, <3>2, <3>3, NotAfterIsAnOrder
    <3> QED
      BY Zenon, <3>2, <3>3, <3>4, SettledNewer, NotAfterIsAnOrder
  <2> QED
    BY Zenon, <2>1, <2>2, <2>3, StreamTyped DEF ReceiversMissNothing
<1> QED
  BY <1>1, StreamInvariant, PTL

-----------------------------------------------------------------------------
(* The stream implements the abstract feed.                                *)

\* A change has one place in the log.
LEMMA IndexIs ==
  ASSUME LogFits, NEW change, change # None, InLog(change.snapshot)
  PROVE  /\ LogIndex(change) \in 1 .. Len(log) /\ log[LogIndex(change)] = change.snapshot
         /\ \A i \in 1 .. Len(log) : log[i] = change.snapshot => i = LogIndex(change)
<1>1. LogIndex(change) \in 1 .. Len(log) /\ log[LogIndex(change)] = change.snapshot
  BY Zenon DEF LogIndex, InLog
<1>2. ASSUME NEW i \in 1 .. Len(log), NEW j \in 1 .. Len(log), log[i] = log[j] PROVE i = j
  <2>1. ~(i < j) /\ ~(j < i) /\ i \in Int /\ j \in Int
    BY <1>2 DEF LogFits
  <2> QED
    BY <2>1
<1> QED
  BY Zenon, <1>1, <1>2

\* The place stays the same while the log grows.
LEMMA IndexStays ==
  ASSUME LogFits, LogFits', Len(log) \in Nat, Len(log') \in Nat, Len(log) <= Len(log'),
         \A i \in 1 .. Len(log) : log'[i] = log[i],
         NEW change, change # None => InLog(change.snapshot)
  PROVE  (IF change = None THEN 0 ELSE CHOOSE i \in 1 .. Len(log') : log'[i] = change.snapshot) = LogIndex(change)
<1>1. CASE change = None
  BY Zenon, <1>1 DEF LogIndex
<1>2. CASE change # None
  <2>1. LogIndex(change) \in 1 .. Len(log) /\ log[LogIndex(change)] = change.snapshot
    BY Zenon, <1>2, IndexIs
  <2>2. LogIndex(change) \in 1 .. Len(log') /\ log'[LogIndex(change)] = change.snapshot
    BY <2>1
  <2>3. ASSUME NEW i \in 1 .. Len(log'), log'[i] = change.snapshot PROVE i = LogIndex(change)
    <3>1. ~(i < LogIndex(change)) /\ ~(LogIndex(change) < i)
      BY <2>2, <2>3 DEF LogFits
    <3> QED
      BY <2>2, <3>1
  <2>4. \A i \in 1 .. Len(log') : log'[i] = change.snapshot <=> i = LogIndex(change)
    BY Zenon, <2>2, <2>3
  <2>5. (CHOOSE i \in 1 .. Len(log') : log'[i] = change.snapshot) = LogIndex(change)
    BY Zenon, <2>2, <2>4
  <2> QED
    BY Zenon, <1>2, <2>5
<1> QED
  BY Zenon, <1>1, <1>2

\* Later in the log is newer, and the other way round.
LEMMA NewerIsLater ==
  ASSUME LogFits, NEW c \in SettledChanges, NEW d \in SettledChanges, InLog(c.snapshot), InLog(d.snapshot),
         IsNewerThan(c.snapshot, d.snapshot)
  PROVE  LogIndex(c) > LogIndex(d)
<1>1. c # None /\ d # None /\ c.snapshot \in Settlements /\ d.snapshot \in Settlements
  BY Zenon, ChangeFields
<1>2. NotAfter(d.snapshot, c.snapshot) /\ c.snapshot # d.snapshot
  BY Zenon, <1>1, SettledNewer
<1>3. /\ LogIndex(c) \in 1 .. Len(log) /\ log[LogIndex(c)] = c.snapshot
      /\ LogIndex(d) \in 1 .. Len(log) /\ log[LogIndex(d)] = d.snapshot
  BY Zenon, <1>1, IndexIs
<1>4. LogIndex(c) # LogIndex(d)
  BY Zenon, <1>2, <1>3
<1>5. ~(LogIndex(c) < LogIndex(d))
  <2>1. LogIndex(c) < LogIndex(d) => NotAfter(c.snapshot, d.snapshot)
    BY Zenon, <1>3 DEF LogFits
  <2> QED
    BY Zenon, <1>1, <1>2, <2>1, NotAfterIsAnOrder
<1> QED
  BY <1>3, <1>4, <1>5

\* What a step does to the mapped state, receiver by receiver.
SameStatus(s) == FeedStatus(s)' = FeedStatus(s)

LEMMA MappedSame ==
  ASSUME \A s \in Subscribers : SameStatus(s)
  PROVE  UNCHANGED FeedStatuses
BY Zenon DEF FeedStatuses, SameStatus

LEMMA MappedOne ==
  ASSUME NEW s \in Subscribers, NEW v, FeedStatus(s)' = v, \A t \in Subscribers \ {s} : SameStatus(t)
  PROVE  FeedStatuses' = [FeedStatuses EXCEPT ![s] = v]
BY Zenon DEF FeedStatuses, SameStatus

LogKept ==
  /\ LogFits /\ LogFits' /\ Len(log) \in Nat /\ Len(log') \in Nat /\ Len(log) <= Len(log')
  /\ \A i \in 1 .. Len(log) : log'[i] = log[i]

LEMMA SeenSame ==
  ASSUME LogInv, StreamInv, LogKept, UNCHANGED delivered
  PROVE  UNCHANGED FeedSeen
<1>1. ASSUME NEW s \in Subscribers PROVE LogIndex(delivered[s])' = LogIndex(delivered[s])
  <2>1. delivered[s] # None => InLog(delivered[s].snapshot)
    BY Zenon DEF LogInv, HeldInLog, StreamInv, ReceiverFits
  <2>2. (IF delivered[s] = None THEN 0 ELSE CHOOSE i \in 1 .. Len(log') : log'[i] = delivered[s].snapshot)
          = LogIndex(delivered[s])
    BY Zenon, <2>1, IndexStays DEF LogKept
  <2> QED
    BY Zenon, <2>2 DEF LogIndex
<1> QED
  BY Zenon, <1>1 DEF FeedSeen

\* The status of a receiver that was never subscribed is idle.
LEMMA StatusFits ==
  ASSUME StreamInv, NEW s \in Subscribers
  PROVE  /\ FeedStatus(s) \in {"idle", "attached", "detached", "ended", "left"}
         /\ FeedStatus(s) = "idle" <=> at[s] = "none"
         /\ FeedStatus(s) = "left" <=> at[s] = "gone"
         /\ FeedStatus(s) = "ended" <=> at[s] = "done"
         /\ FeedStatus(s) = "attached" <=> s \in linked /\ at[s] \notin {"none", "gone", "done"}
         /\ FeedStatus(s) = "detached" <=> s \notin linked /\ at[s] \notin {"none", "gone", "done"}
BY Zenon DEF FeedStatus

LEMMA HorizonOne ==
  ASSUME LogInv, StreamInv, LogKept, NEW s \in Subscribers, SameStatus(s),
         retained'[s] = retained[s] \/ FeedStatus(s) \notin {"detached", "ended"}
  PROVE  FeedHorizon'[s] = FeedHorizon[s]
<1>1. FeedHorizon[s] = IF FeedStatus(s) \in {"detached", "ended"} THEN LogIndex(retained[s]) ELSE 0
  BY Zenon DEF FeedHorizon
<1>2. FeedHorizon'[s] = IF FeedStatus(s) \in {"detached", "ended"} THEN LogIndex(retained[s])' ELSE 0
  BY Zenon DEF FeedHorizon, SameStatus
<1>3. CASE FeedStatus(s) \in {"detached", "ended"}
  <2>1. retained[s] # None => InLog(retained[s].snapshot)
    BY Zenon DEF LogInv, HeldInLog, StreamInv, ReceiverFits
  <2>2. (IF retained[s] = None THEN 0 ELSE CHOOSE i \in 1 .. Len(log') : log'[i] = retained[s].snapshot)
          = LogIndex(retained[s])
    BY Zenon, <2>1, IndexStays DEF LogKept
  <2>3. LogIndex(retained[s])' = LogIndex(retained[s])
    BY Zenon, <1>3, <2>2 DEF LogIndex
  <2> QED
    BY <1>1, <1>2, <2>3
<1> QED
  BY Zenon, <1>1, <1>2, <1>3

LEMMA HorizonSame ==
  ASSUME \A s \in Subscribers : FeedHorizon'[s] = FeedHorizon[s]
  PROVE  UNCHANGED FeedHorizon
BY Zenon DEF FeedHorizon

LEMMA LogUnchanged == ASSUME LogInv, LogInv', log' = log PROVE LogKept
<1>1. log \in Seq(Settlements)
  BY Zenon DEF LogInv, LogFits
<1>2. Len(log) \in Nat
  BY Zenon, <1>1, LogLength
<1> QED
  BY <1>2 DEF LogKept, LogInv

LEMMA Stutters ==
  ASSUME StreamInv, LogInv, LogInv', UNCHANGED <<log, delivered>>,
         \A s \in Subscribers :
           SameStatus(s) /\ (retained'[s] = retained[s] \/ FeedStatus(s) \notin {"detached", "ended"})
  PROVE  UNCHANGED <<log, FeedStatuses, FeedSeen, FeedHorizon>>
<1>1. LogKept
  BY Zenon, LogUnchanged
<1>2. \A s \in Subscribers : FeedHorizon'[s] = FeedHorizon[s]
  BY Zenon, <1>1, HorizonOne
<1> QED
  BY Zenon, <1>1, <1>2, MappedSame, SeenSame, HorizonSame

\* A publication is an entry more, or nothing at all.
LEMMA PublishMaps ==
  ASSUME StreamInv, LogInv, LogInv', Publish
  PROVE  Feed!Publish \/ UNCHANGED <<log, FeedStatuses, FeedSeen, FeedHorizon>>
<1>1. /\ sending.stage = "publish" /\ sending.snapshot = published /\ linked' = {s \in linked : ~Gone(s)}
      /\ UNCHANGED <<retained, queue, at, delivered>>
  BY Zenon, SendingFields DEF Publish, StreamInv
<1>2. published \in Settlements /\ latest \in Settlements /\ NotAfter(latest, published)
  BY Zenon DEF StreamInv, ActorFits
<1>3. ASSUME NEW s \in Subscribers PROVE SameStatus(s) /\ retained'[s] = retained[s]
  BY Zenon, <1>1 DEF SameStatus, FeedStatus, Gone
<1>4. CASE ~IsNewerThan(published, latest)
  BY Zenon, <1>1, <1>3, <1>4, Stutters DEF Publish
<1>5. CASE IsNewerThan(published, latest)
  <2>1. latest' = published /\ log' = Append(log, published) /\ published # latest
    BY Zenon, <1>1, <1>2, <1>5, SettledNewer DEF Publish
  <2>2. /\ LogFits' /\ Len(log') = Len(log) + 1 /\ log'[Len(log) + 1] = published
        /\ Len(log) \in Nat /\ \A i \in 1 .. Len(log) : log'[i] = log[i]
    BY Zenon, <1>2, <2>1, LogGrows DEF LogInv
  <2>3. LogKept
    BY <2>2 DEF LogKept, LogInv
  <2>4. UNCHANGED <<FeedStatuses, FeedSeen, FeedHorizon>>
    BY Zenon, <1>1, <1>3, <2>3, MappedSame, SeenSame, HorizonOne, HorizonSame
  <2>5. log \in Seq(Settlements) /\ log[Len(log)] = latest
    BY Zenon DEF LogInv, LogFits
  <2>6. SubSeq(log', 1, Len(log)) = log
    <3>1. SubSeq(Append(log, published), 1, Len(log)) = log
      BY <1>2, <2>5
    <3> QED
      BY Zenon, <2>1, <3>1
  <2>7. published \in Snapshot
    BY Zenon, <1>2, SettledFields
  <2>8. Feed!IsNewerThan(published, latest)
    BY Zenon, <1>5 DEF IsNewerThan, Feed!IsNewerThan
  <2>9. published \in Feed!Snapshot
    BY Zenon, <2>7 DEF Snapshot, Feed!Snapshot, Session, Feed!Session
  <2> QED
    BY Zenon, <2>2, <2>4, <2>5, <2>6, <2>8, <2>9 DEF Feed!Publish
<1> QED
  BY Zenon, <1>4, <1>5

\* Retaining and queueing a change moves nobody.
LEMMA SendingMaps ==
  ASSUME StreamInv, LogInv, LogInv', Enqueue \/ \E s \in Subscribers : Retain(s)
  PROVE  UNCHANGED <<log, FeedStatuses, FeedSeen, FeedHorizon>>
<1>1. CASE Enqueue
  <2>1. /\ linked' = IF Gone(sending.to) THEN linked \ {sending.to} ELSE linked
        /\ UNCHANGED <<log, retained, at, delivered>>
    BY Zenon, <1>1 DEF Enqueue, TrySend
  <2>2. ASSUME NEW s \in Subscribers PROVE SameStatus(s)
    BY Zenon, <2>1 DEF SameStatus, FeedStatus, Gone
  <2> QED
    BY Zenon, <2>1, <2>2, Stutters
<1>2. CASE \E s \in Subscribers : Retain(s)
  <2>1. PICK s \in Subscribers : Retain(s)
    BY Zenon, <1>2
  <2>2. /\ sending.stage = "retain" /\ s \in sending.todo /\ retained' = [retained EXCEPT ![s] = sending.change]
        /\ UNCHANGED <<linked, log, at, delivered>>
    BY Zenon, <2>1 DEF Retain
  <2>3. s \in linked
    BY Zenon, <2>2, SendingFields DEF StreamInv
  <2>4. FeedStatus(s) \notin {"detached", "ended"}
    BY Zenon, <2>3, StatusFits DEF StreamInv, ReceiverFits
  <2>5. \A t \in Subscribers : SameStatus(t)
    BY Zenon, <2>2 DEF SameStatus, FeedStatus
  <2>6. \A t \in Subscribers \ {s} : retained'[t] = retained[t]
    BY Zenon, <2>2 DEF StreamInv, ReceiversTyped
  <2> QED
    BY Zenon, <2>2, <2>4, <2>5, <2>6, Stutters
<1> QED
  BY Zenon, <1>1, <1>2

LEMMA SubscribeMaps ==
  ASSUME StreamInv, LogInv, LogInv', NEW s \in Subscribers, Subscribe(s)
  PROVE  Feed!Attach(s)
<1>1. /\ at[s] = "none" /\ linked' = linked \cup {s} /\ at' = [at EXCEPT ![s] = "queue"]
      /\ retained' = [retained EXCEPT ![s] = Change(latest, None)]
      /\ UNCHANGED <<log, delivered>>
  BY Zenon DEF Subscribe
<1>2. /\ at'[s] = "queue" /\ \A t \in Subscribers \ {s} : at'[t] = at[t] /\ retained'[t] = retained[t]
  BY Zenon, <1>1 DEF StreamInv, ReceiversTyped
<1>3. FeedStatus(s) = "idle" /\ FeedStatus(s)' = "attached"
  BY Zenon, <1>1, <1>2 DEF FeedStatus
<1>4. \A t \in Subscribers \ {s} : SameStatus(t)
  BY Zenon, <1>1, <1>2 DEF SameStatus, FeedStatus
<1>5. FeedStatuses' = [FeedStatuses EXCEPT ![s] = "attached"] /\ FeedStatuses[s] = "idle"
  BY Zenon, <1>3, <1>4, MappedOne DEF FeedStatuses
<1>6. LogKept
  BY Zenon, <1>1, LogUnchanged
<1>7. UNCHANGED FeedSeen
  BY Zenon, <1>1, <1>6, SeenSame
<1>8. FeedHorizon'[s] = FeedHorizon[s]
  BY Zenon, <1>3 DEF FeedHorizon
<1>9. UNCHANGED FeedHorizon
  BY Zenon, <1>2, <1>4, <1>6, <1>8, HorizonOne, HorizonSame
<1> QED
  BY Zenon, <1>1, <1>5, <1>7, <1>9 DEF Feed!Attach

\* Unsubscribe and close detach the receivers that still listen; each is
\* owed the last entry.
LEMMA DetachMaps ==
  ASSUME StreamInv, LogInv, LogInv', sending = Idle, linked' \subseteq linked,
         UNCHANGED <<log, latest, retained, at, delivered>>
  PROVE  Feed!Next
<1> DEFINE observers == {s \in linked \ linked' : at[s] \notin {"none", "gone", "done"}}
<1>1. observers \subseteq Subscribers /\ linked \subseteq Subscribers
  BY Zenon DEF StreamInv, ActorFits
<1>2. LogKept /\ Len(log) \in 1 .. Len(log) /\ log[Len(log)] = latest
  BY Zenon, LogUnchanged, LatestInLog DEF LogInv, LogFits
<1>3. ASSUME NEW s \in Subscribers, s \notin observers PROVE SameStatus(s)
  BY Zenon, <1>3 DEF SameStatus, FeedStatus
<1>4. ASSUME NEW s \in Subscribers, s \in observers
      PROVE  FeedStatus(s) = "attached" /\ FeedStatus(s)' = "detached"
  BY Zenon, <1>4 DEF FeedStatus
<1>5. ASSUME NEW s \in Subscribers, s \in observers PROVE FeedHorizon'[s] = Len(log)
  <2>1. /\ s \in linked /\ at[s] # "none" /\ retained[s] \in SettledChanges /\ retained[s].snapshot = latest
        /\ InLog(retained[s].snapshot)
    BY Zenon, <1>5 DEF StreamInv, ReceiverFits, LogInv, HeldInLog, Pending, Idle
  <2>2. LogIndex(retained[s]) = Len(log)
    <3>1. retained[s] # None
      BY Zenon, <2>1, ChangeFields
    <3> QED
      BY Zenon, <1>2, <2>1, <3>1, IndexIs DEF LogInv
  <2>3. LogIndex(retained[s])' = LogIndex(retained[s])
    BY DEF LogIndex
  <2> QED
    BY Zenon, <1>4, <1>5, <2>2, <2>3 DEF FeedHorizon
<1>6. ASSUME NEW s \in Subscribers, s \notin observers PROVE FeedHorizon'[s] = FeedHorizon[s]
  BY Zenon, <1>2, <1>3, <1>6, HorizonOne
<1>7. UNCHANGED FeedSeen
  BY Zenon, <1>2, SeenSame
<1> HIDE DEF observers
<1>8. \A s \in observers : FeedStatuses[s] = "attached"
  BY Zenon, <1>1, <1>4 DEF FeedStatuses
<1>9. FeedStatuses' = [s \in Subscribers |-> IF s \in observers THEN "detached" ELSE FeedStatuses[s]]
  BY Zenon, <1>3, <1>4 DEF FeedStatuses, SameStatus
<1>10. FeedHorizon' = [s \in Subscribers |-> IF s \in observers THEN Len(log) ELSE FeedHorizon[s]]
  BY Zenon, <1>5, <1>6 DEF FeedHorizon
<1>11. Feed!Detach(observers)
  BY Zenon, <1>7, <1>8, <1>9, <1>10 DEF Feed!Detach
<1> QED
  BY Zenon, <1>1, <1>11 DEF Feed!Next

\* The place of what a receiver holds after a step that appends nothing.
LEMMA IndexNow ==
  ASSUME LogFits, log' = log, NEW t \in Subscribers, NEW change, delivered'[t] = change,
         change # None => InLog(change.snapshot)
  PROVE  LogIndex(delivered[t])' = LogIndex(change)
<1>1. CASE change = None
  BY Zenon, <1>1 DEF LogIndex
<1>2. CASE change # None
  <2>1. \E i \in 1 .. Len(log') : log'[i] = delivered'[t].snapshot
    BY Zenon, <1>2 DEF InLog
  <2>2. LogIndex(delivered[t])' \in 1 .. Len(log') /\ log'[LogIndex(delivered[t])'] = delivered'[t].snapshot
    BY Zenon, <1>2, <2>1 DEF LogIndex
  <2>3. LogIndex(delivered[t])' \in 1 .. Len(log) /\ log[LogIndex(delivered[t])'] = change.snapshot
    BY Zenon, <2>2
  <2> QED
    BY Zenon, <1>2, <2>3, IndexIs
<1> QED
  BY Zenon, <1>1, <1>2

\* A delivery is a move forward in the log, or none.
LEMMA DeliverMaps ==
  ASSUME StreamInv, LogInv, LogInv', NEW s \in Subscribers, NEW change \in SettledChanges,
         DeliverNewer(s, change), InLog(change.snapshot), NotAfter(change.snapshot, retained[s].snapshot),
         at[s] \notin {"none", "gone", "done"}, \A t \in Subscribers : SameStatus(t),
         UNCHANGED <<log, retained>>
  PROVE  Feed!Observe(s) \/ UNCHANGED <<log, FeedStatuses, FeedSeen, FeedHorizon>>
<1>1. LogKept /\ LogFits
  BY Zenon, LogUnchanged DEF LogInv
<1>2. UNCHANGED FeedStatuses /\ FeedStatuses[s] \in {"attached", "detached"}
  BY Zenon, MappedSame, StatusFits DEF FeedStatuses
<1>3. UNCHANGED FeedHorizon
  BY Zenon, <1>1, HorizonOne, HorizonSame
<1>4. /\ \A t \in Subscribers \ {s} : delivered'[t] = delivered[t]
      /\ delivered' # delivered => delivered'[s] = change
           /\ (delivered[s] # None => IsNewerThan(change.snapshot, delivered[s].snapshot))
      /\ delivered \in [Subscribers -> SettledChanges \cup {None}]
      /\ delivered[s] # None => InLog(delivered[s].snapshot)
  BY Zenon, DeliverFits DEF StreamInv, ReceiversTyped, LogInv, HeldInLog
<1>5. CASE delivered' = delivered
  BY Zenon, <1>1, <1>2, <1>3, <1>5, SeenSame
<1>6. CASE delivered' # delivered
  <2>1. PICK i : i = LogIndex(change)
    BY Zenon
  <2>2. i \in 1 .. Len(log)
    BY Zenon, <1>1, <2>1, IndexIs, ChangeFields
  <2>3. i > LogIndex(delivered[s]) /\ LogIndex(delivered[s]) \in Nat
    <3>1. CASE delivered[s] = None
      BY <2>2, <3>1 DEF LogIndex
    <3>2. CASE delivered[s] # None
      <4>1. delivered[s] \in SettledChanges /\ IsNewerThan(change.snapshot, delivered[s].snapshot)
        BY Zenon, <1>4, <1>6, <3>2
      <4>2. LogIndex(delivered[s]) \in 1 .. Len(log)
        BY Zenon, <1>1, <1>4, <3>2, IndexIs
      <4> QED
        BY <1>1, <1>4, <2>1, <3>2, <4>1, <4>2, NewerIsLater
    <3> QED
      BY Zenon, <3>1, <3>2
  <2>4. FeedSeen[s] = LogIndex(delivered[s])
    BY Zenon DEF FeedSeen
  <2>5. FeedSeen'[s] = i /\ \A t \in Subscribers \ {s} : FeedSeen'[t] = FeedSeen[t]
    <3>1. \A t \in Subscribers : FeedSeen'[t] = LogIndex(delivered[t])' /\ FeedSeen[t] = LogIndex(delivered[t])
      BY Zenon DEF FeedSeen
    <3>2. LogIndex(delivered[s])' = LogIndex(change)
      BY Zenon, <1>1, <1>4, <1>6, ChangeFields, IndexNow
    <3>3. ASSUME NEW t \in Subscribers \ {s} PROVE LogIndex(delivered[t])' = LogIndex(delivered[t])
      <4>1. delivered[t] # None => InLog(delivered[t].snapshot)
        BY Zenon DEF LogInv, HeldInLog, StreamInv, ReceiverFits
      <4> QED
        BY Zenon, <1>1, <1>4, <4>1, IndexNow
    <3> QED
      BY Zenon, <2>1, <3>1, <3>2, <3>3
  <2>6. FeedSeen' = [FeedSeen EXCEPT ![s] = i]
    BY Zenon, <2>5 DEF FeedSeen
  <2>7. i \in FeedSeen[s] + 1 .. Len(log)
    BY <2>2, <2>3, <2>4
  <2> QED
    BY Zenon, <1>2, <1>3, <2>6, <2>7 DEF Feed!Observe
<1> QED
  BY Zenon, <1>5, <1>6

\* A receiver moves within receive() without delivering.
LEMMA MoveMaps ==
  ASSUME StreamInv, LogInv, LogInv', NEW s \in Subscribers, NEW to \in {"queue", "latest", "tail", "wait"},
         at[s] \notin {"none", "gone", "done"}, at' = [at EXCEPT ![s] = to],
         UNCHANGED <<log, linked, retained, delivered>>
  PROVE  UNCHANGED <<log, FeedStatuses, FeedSeen, FeedHorizon>>
<1>1. at'[s] = to /\ \A t \in Subscribers \ {s} : at'[t] = at[t]
  BY Zenon DEF StreamInv, ReceiversTyped
<1>2. ASSUME NEW t \in Subscribers PROVE SameStatus(t)
  BY Zenon, <1>1 DEF SameStatus, FeedStatus
<1> QED
  BY Zenon, <1>2, Stutters

LEMMA TakeMaps ==
  ASSUME StreamInv, LogInv, LogInv', NEW s \in Subscribers, at[s] \in {"queue", "wait"}, queue[s] # <<>>,
         DeliverNewer(s, Head(queue[s])), at' = [at EXCEPT ![s] = "queue"],
         UNCHANGED <<log, linked, retained>>
  PROVE  Feed!Observe(s) \/ UNCHANGED <<log, FeedStatuses, FeedSeen, FeedHorizon>>
<1>1. PICK change : change = Head(queue[s])
  BY Zenon
<1>2. queue[s] \in Seq(SettledChanges)
  BY Zenon DEF StreamInv, ReceiversTyped
<1>3. Len(queue[s]) \in Nat \ {0} /\ change = queue[s][1] /\ change \in SettledChanges
  BY Zenon, <1>1, <1>2, TailElements
<1>4. 1 \in 1 .. Len(queue[s])
  BY <1>3
<1>5. InLog(change.snapshot) /\ NotAfter(change.snapshot, retained[s].snapshot)
  BY Zenon, <1>3, <1>4 DEF StreamInv, ReceiverFits, LogInv, HeldInLog
<1>6. at'[s] = "queue" /\ \A t \in Subscribers \ {s} : at'[t] = at[t]
  BY Zenon DEF StreamInv, ReceiversTyped
<1>7. ASSUME NEW t \in Subscribers PROVE SameStatus(t)
  BY Zenon, <1>6 DEF SameStatus, FeedStatus
<1> QED
  BY Zenon, <1>1, <1>3, <1>5, <1>7, DeliverMaps

LEMMA ReadRetainedMaps ==
  ASSUME StreamInv, LogInv, LogInv', NEW s \in Subscribers, ReadRetained(s)
  PROVE  Feed!Observe(s) \/ Feed!End(s) \/ UNCHANGED <<log, FeedStatuses, FeedSeen, FeedHorizon>>
<1>1. /\ at[s] \in {"latest", "tail"} /\ DeliverNewer(s, retained[s])
      /\ at' = [at EXCEPT ![s] = IF delivered' # delivered THEN "queue"
                                 ELSE IF at[s] = "latest" THEN "wait" ELSE "done"]
      /\ UNCHANGED <<linked, log, retained>>
  BY Zenon DEF ReadRetained, actorVars
<1>2. /\ retained[s] \in SettledChanges /\ (at[s] = "tail" => s \notin linked) /\ InLog(retained[s].snapshot)
      /\ delivered[s] # None => NotAfter(delivered[s].snapshot, retained[s].snapshot)
      /\ delivered[s] \in SettledChanges \cup {None}
  BY Zenon, <1>1 DEF StreamInv, ReceiversTyped, ReceiverFits, LogInv, HeldInLog
<1>3. PICK change : change = retained[s]
  BY Zenon
<1>4. change.snapshot \in Settlements /\ NotAfter(change.snapshot, change.snapshot)
  BY Zenon, <1>2, <1>3, ChangeFields, NotAfterIsAnOrder
<1>5. \A t \in Subscribers \ {s} : at'[t] = at[t]
  BY Zenon, <1>1 DEF StreamInv, ReceiversTyped
<1>6. CASE delivered' # delivered
  <2>1. at'[s] = "queue"
    BY Zenon, <1>1, <1>6 DEF StreamInv, ReceiversTyped
  <2>2. ASSUME NEW t \in Subscribers PROVE SameStatus(t)
    BY Zenon, <1>1, <1>5, <2>1 DEF SameStatus, FeedStatus
  <2>3. change \in SettledChanges /\ DeliverNewer(s, change) /\ InLog(change.snapshot)
        /\ NotAfter(change.snapshot, retained[s].snapshot)
    BY Zenon, <1>1, <1>2, <1>3, <1>4
  <2> QED
    BY Zenon, <1>1, <2>2, <2>3, DeliverMaps
<1>7. CASE delivered' = delivered /\ at[s] = "latest"
  <2>1. at' = [at EXCEPT ![s] = "wait"]
    BY Zenon, <1>1, <1>7
  <2> QED
    BY Zenon, <1>1, <1>7, <2>1, MoveMaps
<1>8. CASE delivered' = delivered /\ at[s] = "tail"
  <2>1. delivered[s] # None /\ ~IsNewerThan(retained[s].snapshot, delivered[s].snapshot)
    BY Zenon, <1>1, <1>2, <1>3, <1>4, <1>8, DeliverFits
  <2>2. delivered[s].snapshot = retained[s].snapshot
    <3>1. delivered[s].snapshot \in Settlements /\ retained[s].snapshot \in Settlements
      BY Zenon, <1>2, <1>3, <1>4, <2>1, ChangeFields
    <3> QED
      BY Zenon, <1>2, <2>1, <3>1, SettledNewer
  <2>3. at'[s] = "done"
    BY Zenon, <1>1, <1>8 DEF StreamInv, ReceiversTyped
  <2>4. FeedStatus(s) = "detached" /\ FeedStatus(s)' = "ended"
    BY Zenon, <1>1, <1>2, <1>8, <2>3 DEF FeedStatus
  <2>5. \A t \in Subscribers \ {s} : SameStatus(t)
    BY Zenon, <1>1, <1>5 DEF SameStatus, FeedStatus
  <2>6. FeedStatuses' = [FeedStatuses EXCEPT ![s] = "ended"] /\ FeedStatuses[s] = "detached"
    BY Zenon, <2>4, <2>5, MappedOne DEF FeedStatuses
  <2>7. LogKept
    BY Zenon, <1>1, LogUnchanged
  <2>8. UNCHANGED FeedSeen
    BY Zenon, <1>8, <2>7, SeenSame
  <2>9. FeedHorizon'[s] = FeedHorizon[s]
    <3>1. LogIndex(retained[s])' = LogIndex(retained[s])
      BY <1>1 DEF LogIndex
    <3> QED
      BY Zenon, <2>4, <3>1 DEF FeedHorizon
  <2>10. UNCHANGED FeedHorizon
    BY Zenon, <1>1, <2>5, <2>7, <2>9, HorizonOne, HorizonSame
  <2>11. FeedSeen[s] = FeedHorizon[s]
    <3>1. LogIndex(delivered[s]) = LogIndex(retained[s])
      <4>1. retained[s] # None
        BY Zenon, <1>2, ChangeFields
      <4> QED
        BY <2>1, <2>2, <4>1 DEF LogIndex
    <3> QED
      BY Zenon, <2>4, <3>1 DEF FeedSeen, FeedHorizon
  <2> QED
    BY Zenon, <1>1, <2>6, <2>8, <2>10, <2>11 DEF Feed!End
<1> QED
  BY Zenon, <1>1, <1>6, <1>7, <1>8

LEMMA DropMaps ==
  ASSUME StreamInv, LogInv, LogInv', NEW s \in Subscribers, Drop(s)
  PROVE  Feed!Leave(s)
<1>1. /\ at[s] \notin {"none", "gone"} /\ at' = [at EXCEPT ![s] = "gone"]
      /\ UNCHANGED <<linked, log, retained, delivered>>
  BY Zenon DEF Drop, Gone, actorVars
<1>2. at'[s] = "gone" /\ \A t \in Subscribers \ {s} : at'[t] = at[t]
  BY Zenon, <1>1 DEF StreamInv, ReceiversTyped
<1>3. FeedStatus(s) \notin {"idle", "left"} /\ FeedStatus(s)' = "left"
  <2>1. FeedStatus(s) \notin {"idle", "left"}
    BY Zenon, <1>1, StatusFits
  <2> QED
    BY Zenon, <1>2, <2>1 DEF FeedStatus
<1>4. \A t \in Subscribers \ {s} : SameStatus(t)
  BY Zenon, <1>1, <1>2 DEF SameStatus, FeedStatus
<1>5. FeedStatuses' = [FeedStatuses EXCEPT ![s] = "left"] /\ FeedStatuses[s] \notin {"idle", "left"}
  BY Zenon, <1>3, <1>4, MappedOne DEF FeedStatuses
<1>6. LogKept
  BY Zenon, <1>1, LogUnchanged
<1>7. UNCHANGED FeedSeen
  BY Zenon, <1>1, <1>6, SeenSame
<1>8. FeedHorizon'[s] = 0 /\ \A t \in Subscribers \ {s} : FeedHorizon'[t] = FeedHorizon[t]
  <2>1. FeedHorizon'[s] = 0
    BY Zenon, <1>3 DEF FeedHorizon
  <2> QED
    BY Zenon, <1>1, <1>4, <1>6, <2>1, HorizonOne
<1>9. FeedHorizon' = [FeedHorizon EXCEPT ![s] = 0]
  BY Zenon, <1>8 DEF FeedHorizon
<1> QED
  BY Zenon, <1>1, <1>5, <1>7, <1>9 DEF Feed!Leave

LEMMA ReceiveMaps ==
  ASSUME StreamInv, LogInv, LogInv', NEW s \in Subscribers, Receive(s)
  PROVE  Feed!Next \/ UNCHANGED <<log, FeedStatuses, FeedSeen, FeedHorizon>>
<1>1. CASE TryReceive(s)
  <2>1. at' = [at EXCEPT ![s] = "queue"] /\ at[s] = "queue" /\ queue[s] # <<>> /\ DeliverNewer(s, Head(queue[s]))
        /\ UNCHANGED <<log, linked, retained>>
    BY Zenon, <1>1 DEF TryReceive, actorVars, StreamInv, ReceiversTyped
  <2> QED
    BY Zenon, <2>1, TakeMaps DEF Feed!Next
<1>2. CASE QueueDrained(s)
  <2>1. PICK to \in {"latest", "tail"} : at' = [at EXCEPT ![s] = to]
    BY Zenon, <1>2 DEF QueueDrained
  <2>2. at[s] = "queue" /\ UNCHANGED <<log, linked, retained, delivered>>
    BY Zenon, <1>2 DEF QueueDrained, actorVars
  <2> QED
    BY Zenon, <2>1, <2>2, MoveMaps
<1>3. CASE ReadRetained(s)
  BY Zenon, <1>3, ReadRetainedMaps DEF Feed!Next
<1>4. CASE Await(s)
  <2>1. at[s] = "wait" /\ at' = [at EXCEPT ![s] = "queue"] /\ UNCHANGED <<log, linked, retained>>
    BY Zenon, <1>4 DEF Await, actorVars
  <2>2. CASE queue[s] # <<>> /\ DeliverNewer(s, Head(queue[s]))
    BY Zenon, <2>1, <2>2, TakeMaps DEF Feed!Next
  <2>3. CASE UNCHANGED delivered
    BY Zenon, <2>1, <2>3, MoveMaps
  <2> QED
    BY Zenon, <1>4, <2>2, <2>3 DEF Await
<1> QED
  BY Zenon, <1>1, <1>2, <1>3, <1>4 DEF Receive

LEMMA FeedStart == Init => Feed!Init
<1> SUFFICES ASSUME Init PROVE Feed!Init
  BY Zenon
<1>1. log = <<Settled(0, 0)>> /\ at = [s \in Subscribers |-> "none"] /\ delivered = [s \in Subscribers |-> None]
  BY Zenon DEF Init
<1>2. Settled(0, 0) \in Snapshot
  BY Zenon, SettledType, SettledFields
<1>3. Settled(0, 0) \in Feed!Snapshot
  BY Zenon, <1>2 DEF Snapshot, Feed!Snapshot, Session, Feed!Session
<1>4. \A s \in Subscribers : FeedStatus(s) = "idle" /\ LogIndex(delivered[s]) = 0
  BY Zenon, <1>1 DEF FeedStatus, LogIndex
<1>5. /\ FeedStatuses = [s \in Subscribers |-> "idle"] /\ FeedSeen = [s \in Subscribers |-> 0]
      /\ FeedHorizon = [s \in Subscribers |-> 0]
  BY Zenon, <1>4 DEF FeedStatuses, FeedSeen, FeedHorizon
<1>6. Len(log) = 1 /\ log[1] \in Feed!Snapshot
  BY Zenon, <1>1, <1>3
<1> QED
  BY Zenon, <1>5, <1>6 DEF Feed!Init

LEMMA FeedStep ==
  ASSUME StreamInv, LogInv, LogInv', [Next]_streamVars
  PROVE  [Feed!Next]_<<log, FeedStatuses, FeedSeen, FeedHorizon>>
<1>1. CASE Publish
  BY Zenon, <1>1, PublishMaps DEF Feed!Next
<1>2. CASE Enqueue \/ \E s \in Subscribers : Retain(s)
  BY Zenon, <1>2, SendingMaps
<1>3. CASE \E s \in Subscribers : Subscribe(s)
  BY Zenon, <1>3, SubscribeMaps DEF Feed!Next
<1>4. CASE Close \/ \E s \in Subscribers : Unsubscribe(s)
  <2>1. /\ sending = Idle /\ linked' \subseteq linked /\ UNCHANGED <<log, latest, retained, at, delivered>>
    BY Zenon, <1>4 DEF Close, Unsubscribe
  <2> QED
    BY Zenon, <2>1, DetachMaps
<1>5. CASE \E s \in Subscribers : Receive(s)
  BY Zenon, <1>5, ReceiveMaps
<1>6. CASE \E s \in Subscribers : Drop(s)
  BY Zenon, <1>6, DropMaps DEF Feed!Next
<1>7. CASE UNCHANGED <<log, linked, retained, at, delivered>>
  <2>1. \A s \in Subscribers : SameStatus(s) /\ retained'[s] = retained[s]
    BY Zenon, <1>7 DEF SameStatus, FeedStatus
  <2> QED
    BY Zenon, <1>7, <2>1, Stutters
<1> QED
  BY Zenon, <1>1, <1>2, <1>3, <1>4, <1>5, <1>6, <1>7 DEF Next, Actor, Settle, Published, streamVars

(***************************************************************************)
(* The stream implements the feed: whatever its queues drop, every         *)
(* receiver only moves forward through one log of snapshots, each newer    *)
(* than the one before, and receive() reports the end only to a receiver   *)
(* that has the last snapshot published while it was subscribed.           *)
(***************************************************************************)
THEOREM StreamIsAFeed == Spec => ImplementsFeed
<1>1. StreamInv /\ LogInv /\ (StreamInv /\ LogInv)' /\ [Next]_streamVars
        => [Feed!Next]_<<log, FeedStatuses, FeedSeen, FeedHorizon>>
  BY Zenon, FeedStep
<1> QED
  BY <1>1, FeedStart, StreamInvariant, PTL DEF Spec, ImplementsFeed, Feed!Spec

-----------------------------------------------------------------------------
(***************************************************************************)
(* From the stream to the screen.  Everything on the way is a snapshot of  *)
(* the log or the one published last, so any two are comparable.           *)
(***************************************************************************)
Known(x) == x \in Settlements /\ (InLog(x) \/ x = published)

KnownChange(c) == c \in SettledChanges /\ Known(c.snapshot)

CallbackFits ==
  /\ first # None => KnownChange(first)
  /\ conflated # None => KnownChange(conflated)
  /\ first = None => conflated = None /\ ~emitted
  /\ emitted \in BOOLEAN

CollectorFits ==
  /\ collector.step \in {"rest", "compare", "refresh", "accept", "store"}
  /\ collector.step \in {"compare", "refresh"} => KnownChange(collector.change)
  /\ collector.step \in {"accept", "store"} => Known(collector.snapshot)

CommandFits ==
  /\ command.step \in {"rest", "native", "refresh", "accept", "store"}
  /\ command.step \in {"accept", "store"} => Known(command.snapshot)

\* What a confined coroutine is about to store is not behind the screen.
ConfinedFits ==
  dispatcher = "confined" =>
    /\ collector.step = "store" => NotAfter(shown, collector.snapshot)
    /\ command.step = "store" => NotAfter(shown, command.snapshot)

ScreenFits ==
  /\ Known(shown) /\ invalid = FALSE /\ commands \in 0 .. MaxCommands
  /\ working \in BOOLEAN /\ refreshing \in BOOLEAN /\ dispatcher \in Dispatchers

DeliveryInv ==
  /\ StreamInv /\ LogInv
  /\ CallbackFits /\ CollectorFits /\ CommandFits /\ ConfinedFits /\ ScreenFits

LEMMA SettledOrder ==
  ASSUME NEW a \in Settlements, NEW b \in Settlements, NotAfter(a, b) \/ NotAfter(b, a)
  PROVE  /\ OrderAfter(a, b) # "invalid"
         /\ OrderAfter(a, b) \in {"same", "newer"} <=> NotAfter(b, a)
<1>1. /\ a.revision \in Nat /\ b.revision \in Nat
      /\ a.session.generation \in Nat /\ b.session.generation \in Nat
      /\ a.session # Unbound /\ b.session # Unbound
      /\ a.session.incarnation = Runtime /\ b.session.incarnation = Runtime
  BY Zenon, SettledFields
<1> QED
  BY <1>1 DEF OrderAfter, Lost, Crossed, BothBound, Generation, NotAfter

LEMMA KnownOrder ==
  ASSUME StreamInv, LogInv, NEW x, NEW y, Known(x), Known(y)
  PROVE  /\ x \in Settlements /\ NotAfter(x, published)
         /\ OrderAfter(x, y) # "invalid"
         /\ OrderAfter(x, y) \in {"same", "newer"} <=> NotAfter(y, x)
<1>1. /\ x \in Settlements /\ y \in Settlements /\ published \in Settlements /\ latest \in Settlements
      /\ NotAfter(latest, published) /\ LogFits
  BY Zenon DEF Known, StreamInv, ActorFits, LogInv
<1>2. ASSUME NEW z \in Settlements, Known(z) PROVE NotAfter(z, published)
  <2>1. CASE z = published
    BY Zenon, <1>1, <2>1, NotAfterIsAnOrder
  <2>2. CASE InLog(z)
    <3>1. PICK i \in 1 .. Len(log) : log[i] = z
      BY Zenon, <2>2 DEF InLog
    <3>2. NotAfter(z, latest)
      <4>1. Len(log) \in 1 .. Len(log) /\ log[Len(log)] = latest
        BY Zenon, LatestInLog, <1>1 DEF LogFits
      <4>2. CASE i = Len(log)
        BY Zenon, <1>1, <3>1, <4>1, <4>2, NotAfterIsAnOrder
      <4>3. CASE i < Len(log)
        BY Zenon, <1>1, <3>1, <4>1, <4>3 DEF LogFits
      <4> QED
        BY <4>1, <4>2, <4>3
    <3> QED
      BY Zenon, <1>1, <3>2, NotAfterIsAnOrder
  <2> QED
    BY Zenon, <1>2, <2>1, <2>2 DEF Known
<1>3. NotAfter(x, y) \/ NotAfter(y, x)
  <2>1. CASE x = published \/ y = published
    BY Zenon, <1>1, <1>2, <2>1
  <2>2. CASE InLog(x) /\ InLog(y)
    <3>1. PICK i \in 1 .. Len(log) : log[i] = x
      BY Zenon, <2>2 DEF InLog
    <3>2. PICK j \in 1 .. Len(log) : log[j] = y
      BY Zenon, <2>2 DEF InLog
    <3>3. CASE i = j
      BY Zenon, <1>1, <3>1, <3>2, <3>3, NotAfterIsAnOrder
    <3>4. CASE i < j \/ j < i
      BY Zenon, <1>1, <3>1, <3>2, <3>4 DEF LogFits
    <3> QED
      BY <3>3, <3>4
  <2> QED
    BY Zenon, <2>1, <2>2 DEF Known
<1> QED
  BY Zenon, <1>1, <1>2, <1>3, SettledOrder

\* What is known stays known while the runtime goes on.
LEMMA KnownStays ==
  ASSUME StreamInv, LogInv, LogInv', NEW x, Known(x),
         \/ UNCHANGED <<published, log>>
         \/ published = latest /\ log' = log
         \/ Publish
  PROVE  Known(x)'
<1>1. CASE UNCHANGED <<published, log>>
  BY Zenon, <1>1 DEF Known, InLog
<1>2. CASE published = latest /\ log' = log
  BY Zenon, <1>2, LatestInLog DEF Known, InLog
<1>3. CASE Publish
  <2>1. UNCHANGED published /\ sending.snapshot = published /\ (log' = log \/ log' = Append(log, published))
    BY Zenon, <1>3, SendingFields DEF Publish, StreamInv
  <2>2. log \in Seq(Settlements) /\ published \in Settlements
    BY Zenon DEF LogInv, LogFits, StreamInv, ActorFits
  <2>3. ASSUME InLog(x) PROVE InLog(x)'
    <3>1. CASE log' = log
      BY Zenon, <2>3, <3>1 DEF InLog
    <3>2. CASE log' = Append(log, published)
      <4>1. /\ Len(log) \in Nat /\ Len(log') = Len(log) + 1
            /\ \A i \in 1 .. Len(log) : log'[i] = log[i]
        BY <2>2, <3>2, LogAppend, LogLength
      <4> QED
        BY <2>3, <4>1 DEF InLog
    <3> QED
      BY Zenon, <2>1, <3>1, <3>2
  <2> QED
    BY Zenon, <2>1, <2>3 DEF Known
<1> QED
  BY Zenon, <1>1, <1>2, <1>3

\* The stream's part of every delivery step.
LEMMA DeliveryStream ==
  ASSUME StreamInv, LogInv, [DeliveryNext]_deliveryVars
  PROVE  /\ StreamInv' /\ LogInv'
         /\ \/ UNCHANGED <<published, log>>
            \/ published = latest /\ log' = log
            \/ Publish
<1>0. Ui \in Subscribers
  BY Zenon, DeliveryAssumption
<1>1. CASE \E r \in Nat, g \in Nat : Settle(r, g)
  <2>1. PICK r \in Nat, g \in Nat : Settle(r, g)
    BY Zenon, <1>1
  <2>2. published = latest
    BY Zenon, <2>1, SendingFields DEF Settle, StreamInv
  <2>3. LogInv'
    BY <2>1 DEF Settle, LogInv, LogFits, HeldInLog, InLog
  <2> QED
    BY Zenon, <2>1, <2>2, <2>3, SettleKeeps DEF Settle
<1>2. CASE UNCHANGED streamVars
  BY Zenon, <1>2, StreamStep, LogStep DEF streamVars
<1>3. CASE Publishing
  <2>1. [Next]_streamVars
    BY Zenon, <1>0, <1>3 DEF Publishing, Next, Actor
  <2> QED
    BY Zenon, <1>3, <2>1, StreamStep, LogStep DEF Publishing, Retain, Enqueue, Published
<1>4. CASE Subscribing
  <2>1. [Next]_streamVars
    BY Zenon, <1>0, <1>4 DEF Subscribing, Next, Actor
  <2> QED
    BY Zenon, <1>4, <2>1, StreamStep, LogStep DEF Subscribing, Subscribe
<1>5. CASE Forward
  <2>1. [Next]_streamVars
    BY Zenon, <1>0, <1>5 DEF Forward, Next
  <2>2. UNCHANGED <<published, log>>
    BY Zenon, <1>5 DEF Forward, Receive, TryReceive, QueueDrained, ReadRetained, Await, actorVars
  <2> QED
    BY Zenon, <2>1, <2>2, StreamStep, LogStep
<1>6. CASE Work
  <2>1. \E r \in Nat, g \in Nat : Settle(r, g)
    BY <1>6, StreamAssumption DEF Work
  <2> QED
    BY Zenon, <1>1, <2>1
<1>7. CASE BeginRefresh \/ Completion
  <2>1. published.revision + 1 \in Nat /\ published.session.generation \in Nat
    BY SettledFields DEF StreamInv, ActorFits
  <2>2. Settle(published.revision + 1, published.session.generation)
    BY Zenon, <1>7 DEF BeginRefresh, Completion
  <2> QED
    BY Zenon, <1>1, <2>1, <2>2
<1>8. CASE Collector \/ Command \/ Reply \/ TimeOut \/ Commander \/ UNCHANGED deliveryVars
  BY Zenon, <1>2, <1>8 DEF Collector, Collect, Compare, Refresh, AcceptChange, StoreChange, Command, Reply, TimeOut,
     Commander, AcceptReply, StoreReply, deliveryVars
<1> QED
  BY Zenon, <1>3, <1>4, <1>5, <1>6, <1>7, <1>8 DEF DeliveryNext

\* Steps that leave callback, collector and screen alone.
LEMMA ScreenStays ==
  ASSUME DeliveryInv, [DeliveryNext]_deliveryVars,
         UNCHANGED <<first, emitted, conflated, shown, invalid, collector, commands, dispatcher>>,
         command' = command \/ command'.step \in {"rest", "native", "refresh"},
         working' \in BOOLEAN, refreshing' \in BOOLEAN
  PROVE  DeliveryInv'
<1>1. /\ StreamInv' /\ LogInv'
      /\ (UNCHANGED <<published, log>> \/ (published = latest /\ log' = log) \/ Publish)
  BY Zenon, DeliveryStream DEF DeliveryInv
<1>2. ASSUME NEW x, Known(x) PROVE Known(x)'
  BY Zenon, <1>1, <1>2, KnownStays DEF DeliveryInv
<1>3. CallbackFits'
  BY Zenon, <1>2 DEF DeliveryInv, CallbackFits, KnownChange
<1>4. CollectorFits'
  BY Zenon, <1>2 DEF DeliveryInv, CollectorFits, KnownChange
<1>5. CommandFits' /\ ConfinedFits'
  <2>1. CASE command' = command
    BY Zenon, <1>2, <2>1 DEF DeliveryInv, CommandFits, ConfinedFits
  <2>2. CASE command'.step \in {"rest", "native", "refresh"}
    BY Zenon, <2>2 DEF DeliveryInv, CommandFits, ConfinedFits
  <2> QED
    BY Zenon, <2>1, <2>2
<1>6. ScreenFits'
  BY Zenon, <1>2 DEF DeliveryInv, ScreenFits
<1> QED
  BY Zenon, <1>1, <1>3, <1>4, <1>5, <1>6 DEF DeliveryInv

LEMMA SettlingKeeps ==
  ASSUME DeliveryInv, Work \/ BeginRefresh \/ Completion \/ Publishing \/ Subscribing \/ TimeOut
  PROVE  DeliveryInv'
<1>1. /\ UNCHANGED <<first, emitted, conflated, shown, invalid, collector, commands, dispatcher>>
      /\ command' = command \/ command'.step \in {"rest", "native", "refresh"}
  BY DEF Work, BeginRefresh, Completion, Publishing, Subscribing, TimeOut, uiVars, Resting
<1>2. working' \in BOOLEAN /\ refreshing' \in BOOLEAN
  BY Zenon DEF Work, BeginRefresh, Completion, Publishing, Subscribing, TimeOut, workVars, DeliveryInv, ScreenFits
<1>3. [DeliveryNext]_deliveryVars
  BY Zenon DEF DeliveryNext
<1> QED
  BY Zenon, <1>1, <1>2, <1>3, ScreenStays

\* What the forwarder passes on is a change of the log.
LEMMA ForwardedIsKnown ==
  ASSUME StreamInv, LogInv, StreamInv', LogInv', NEW s \in Subscribers, Receive(s), delivered'[s] # delivered[s]
  PROVE  KnownChange(delivered[s])'
<1>1. PICK change \in SettledChanges : DeliverNewer(s, change)
  <2>1. CASE at[s] \in {"latest", "tail"} /\ DeliverNewer(s, retained[s])
    BY Zenon, <2>1 DEF StreamInv, ReceiverFits
  <2>2. CASE queue[s] # <<>> /\ DeliverNewer(s, Head(queue[s]))
    <3>1. queue[s] \in Seq(SettledChanges)
      BY Zenon DEF StreamInv, ReceiversTyped
    <3>2. Head(queue[s]) \in SettledChanges
      BY Zenon, <2>2, <3>1, TailElements
    <3> QED
      BY Zenon, <2>2, <3>2
  <2> QED
    BY Zenon, <2>1, <2>2 DEF Receive, TryReceive, QueueDrained, ReadRetained, Await
<1>2. delivered'[s] = change /\ change # None /\ change.snapshot \in Settlements
  BY Zenon, <1>1, ChangeFields DEF DeliverNewer, StreamInv, ReceiversTyped
<1>3. at'[s] # "none"
  BY Zenon, <1>2 DEF StreamInv, ReceiverFits
<1>4. InLog(delivered[s].snapshot)'
  BY Zenon, <1>2, <1>3 DEF LogInv, HeldInLog
<1> QED
  BY Zenon, <1>2, <1>4 DEF KnownChange, Known

LEMMA ForwardKeeps == ASSUME DeliveryInv, Forward PROVE DeliveryInv'
<1>1. /\ Receive(Ui) /\ Ui \in Subscribers
      /\ UNCHANGED <<emitted, shown, invalid, collector, command, commands, dispatcher, working, refreshing>>
  BY Zenon, DeliveryAssumption DEF Forward, uiVars, workVars
<1>2. StreamInv' /\ LogInv' /\ UNCHANGED <<published, log>>
  <2>1. [DeliveryNext]_deliveryVars
    BY Zenon DEF DeliveryNext
  <2>2. UNCHANGED <<published, log>>
    BY Zenon, <1>1 DEF Receive, TryReceive, QueueDrained, ReadRetained, Await, actorVars
  <2> QED
    BY Zenon, <2>1, <2>2, DeliveryStream DEF DeliveryInv
<1>3. ASSUME NEW x, Known(x) PROVE Known(x)'
  BY Zenon, <1>2, <1>3, KnownStays DEF DeliveryInv
<1>4. CollectorFits' /\ CommandFits' /\ ConfinedFits' /\ ScreenFits'
  <2>1. CollectorFits'
    BY Zenon, <1>1, <1>3 DEF DeliveryInv, CollectorFits, KnownChange
  <2>2. CommandFits'
    BY Zenon, <1>1, <1>3 DEF DeliveryInv, CommandFits
  <2>3. ConfinedFits'
    BY Zenon, <1>1 DEF DeliveryInv, ConfinedFits
  <2>4. ScreenFits'
    BY Zenon, <1>1, <1>3 DEF DeliveryInv, ScreenFits
  <2> QED
    BY Zenon, <2>1, <2>2, <2>3, <2>4
<1>5. CallbackFits'
  <2>1. CallbackFits
    BY Zenon DEF DeliveryInv
  <2>2. CASE delivered'[Ui] # delivered[Ui]
    <3>1. PICK change : change = delivered'[Ui]
      BY Zenon
    <3>2. change \in SettledChanges /\ change # None /\ Known(change.snapshot)'
      <4>1. KnownChange(delivered[Ui])'
        BY Zenon, <1>1, <1>2, <2>2, ForwardedIsKnown DEF DeliveryInv
      <4> QED
        BY Zenon, <3>1, <4>1, ChangeFields DEF KnownChange
    <3>3. CASE first = None
      <4>1. first' = change /\ conflated' = conflated
        BY Zenon, <2>2, <3>1, <3>3 DEF Forward, OnChange
      <4> QED
        BY Zenon, <1>1, <2>1, <3>2, <3>3, <4>1 DEF CallbackFits, KnownChange
    <3>4. CASE first # None
      <4>1. first' = first /\ conflated' = change
        BY Zenon, <2>2, <3>1, <3>4 DEF Forward, OnChange
      <4> QED
        BY Zenon, <1>1, <1>3, <2>1, <3>2, <3>4, <4>1 DEF CallbackFits, KnownChange
    <3> QED
      BY Zenon, <3>3, <3>4
  <2>3. CASE delivered'[Ui] = delivered[Ui]
    <3>1. UNCHANGED <<first, conflated>>
      BY Zenon, <2>3 DEF Forward
    <3> QED
      BY Zenon, <1>1, <1>3, <2>1, <3>1 DEF CallbackFits, KnownChange
  <2> QED
    BY Zenon, <2>2, <2>3
<1> QED
  BY Zenon, <1>2, <1>4, <1>5 DEF DeliveryInv

-----------------------------------------------------------------------------
(* The presenter's own steps; the stream stands still.                     *)

LEMMA StillKnown ==
  ASSUME DeliveryInv, UNCHANGED streamVars
  PROVE  StreamInv' /\ LogInv' /\ \A x : Known(x) => Known(x)'
<1>1. StreamInv' /\ LogInv'
  BY Zenon, StreamStep, LogStep DEF DeliveryInv
<1>2. UNCHANGED <<published, log>>
  BY Zenon DEF streamVars
<1> QED
  BY Zenon, <1>1, <1>2 DEF Known, InLog

LEMMA CollectKeeps == ASSUME DeliveryInv, Collect PROVE DeliveryInv'
<1>1. /\ collector.step = "rest" /\ emitted' \in BOOLEAN /\ (emitted' => first # None)
      /\ conflated' \in {conflated, None}
      /\ \E change \in {first, conflated} : change # None /\ collector' = [step |-> "compare", change |-> change]
      /\ UNCHANGED streamVars
      /\ UNCHANGED <<first, shown, invalid, command, commands, dispatcher, working, refreshing>>
  BY Zenon DEF Collect, workVars, DeliveryInv, CallbackFits
<1>2. StreamInv' /\ LogInv' /\ \A x : Known(x) => Known(x)'
  BY Zenon, <1>1, StillKnown
<1>3. PICK change \in {first, conflated} : change # None /\ collector' = [step |-> "compare", change |-> change]
  BY Zenon, <1>1
<1>4. change \in SettledChanges /\ Known(change.snapshot)
  BY <1>3 DEF DeliveryInv, CallbackFits, KnownChange
<1>5. CollectorFits'
  BY Zenon, <1>2, <1>3, <1>4 DEF CollectorFits, KnownChange
<1>6. CallbackFits'
  BY Zenon, <1>1, <1>2 DEF DeliveryInv, CallbackFits, KnownChange
<1>7. CommandFits' /\ ConfinedFits'
  BY Zenon, <1>1, <1>2, <1>3 DEF DeliveryInv, CommandFits, ConfinedFits
<1>8. ScreenFits'
  BY Zenon, <1>1, <1>2 DEF DeliveryInv, ScreenFits
<1> QED
  BY Zenon, <1>2, <1>5, <1>6, <1>7, <1>8 DEF DeliveryInv

\* The collector compares or refreshes: never inconsistent.
LEMMA AcceptChangeKeeps == ASSUME DeliveryInv, Compare \/ Refresh PROVE DeliveryInv'
<1>1. /\ UNCHANGED streamVars
      /\ UNCHANGED <<first, emitted, conflated, shown, command, commands, dispatcher, working, refreshing>>
  BY Zenon DEF Compare, Refresh, workVars
<1>2. StreamInv' /\ LogInv' /\ \A x : Known(x) => Known(x)'
  BY Zenon, <1>1, StillKnown
<1>3. Known(shown) /\ invalid = FALSE /\ StreamInv /\ LogInv /\ published \in Settlements /\ Known(published)
  BY Zenon DEF DeliveryInv, ScreenFits, StreamInv, ActorFits, Known
<1>4. PICK change : change = collector.change
  BY Zenon
<1>5. change \in SettledChanges /\ Known(change.snapshot)
  BY Zenon, <1>4 DEF Compare, Refresh, DeliveryInv, CollectorFits, KnownChange
<1>6. /\ invalid' = FALSE
      /\ \/ collector' = Resting
         \/ collector' = [step |-> "refresh", change |-> change]
         \/ \E x : Known(x) /\ collector' = [step |-> "accept", snapshot |-> x]
  <2>1. CASE Compare
    <3>1. OrderAfter(change.snapshot, shown) # "invalid"
      BY Zenon, <1>3, <1>5, KnownOrder
    <3> QED
      BY Zenon, <1>3, <1>4, <1>5, <2>1, <3>1 DEF Compare
  <2>2. CASE Refresh
    <3>1. /\ OrderAfter(published, change.snapshot) # "invalid"
          /\ OrderAfter(published, change.snapshot) \in {"same", "newer"} <=> NotAfter(change.snapshot, published)
          /\ NotAfter(change.snapshot, published)
      BY Zenon, <1>3, <1>5, KnownOrder
    <3>2. OrderAfter(published, change.snapshot) \notin {"older", "invalid"}
      BY Zenon, <3>1
    <3> QED
      BY Zenon, <1>3, <1>4, <2>2, <3>2 DEF Refresh
  <2> QED
    BY Zenon, <2>1, <2>2
<1>7. CollectorFits' /\ collector'.step # "store"
  <2>1. CASE collector' = Resting
    BY Zenon, <2>1 DEF CollectorFits, Resting
  <2>2. CASE collector' = [step |-> "refresh", change |-> change]
    BY Zenon, <1>2, <1>5, <2>2 DEF CollectorFits, KnownChange
  <2>3. CASE \E x : Known(x) /\ collector' = [step |-> "accept", snapshot |-> x]
    <3>1. PICK x : Known(x) /\ collector' = [step |-> "accept", snapshot |-> x]
      BY Zenon, <2>3
    <3> QED
      BY Zenon, <1>2, <3>1 DEF CollectorFits
  <2> QED
    BY Zenon, <1>6, <2>1, <2>2, <2>3
<1>8. CallbackFits'
  BY Zenon, <1>1, <1>2 DEF DeliveryInv, CallbackFits, KnownChange
<1>9. CommandFits' /\ ConfinedFits'
  BY Zenon, <1>1, <1>2, <1>7 DEF DeliveryInv, CommandFits, ConfinedFits
<1>10. ScreenFits'
  BY Zenon, <1>1, <1>2, <1>6 DEF DeliveryInv, ScreenFits
<1> QED
  BY Zenon, <1>2, <1>7, <1>8, <1>9, <1>10 DEF DeliveryInv

\* acceptSnapshot lets through what is not behind the screen it read.
LEMMA AcceptedFits ==
  ASSUME DeliveryInv, NEW x, Known(x)
  PROVE  /\ OrderAfter(x, shown) # "invalid"
         /\ \/ Accepted(x) = Resting
            \/ Accepted(x) = [step |-> "store", snapshot |-> x] /\ NotAfter(shown, x)
<1>1. StreamInv /\ LogInv /\ Known(shown)
  BY Zenon DEF DeliveryInv, ScreenFits
<1> QED
  BY Zenon, <1>1, KnownOrder DEF Accepted

LEMMA AcceptingKeeps ==
  ASSUME DeliveryInv, \/ AcceptChange /\ (dispatcher = "parallel" \/ command.step # "store")
                      \/ AcceptReply /\ (dispatcher = "parallel" \/ collector.step = "rest")
  PROVE  DeliveryInv'
<1>1. UNCHANGED streamVars /\ UNCHANGED <<first, emitted, conflated, shown, commands, dispatcher, working, refreshing>>
  BY Zenon DEF AcceptChange, AcceptReply, workVars
<1>2. StreamInv' /\ LogInv' /\ \A x : Known(x) => Known(x)'
  BY Zenon, <1>1, StillKnown
<1>3. CallbackFits'
  BY Zenon, <1>1, <1>2 DEF DeliveryInv, CallbackFits, KnownChange
<1>4. CASE AcceptChange
  <2>1. PICK x : x = collector.snapshot
    BY Zenon
  <2>2. Known(x)
    BY Zenon, <1>4, <2>1 DEF AcceptChange, DeliveryInv, CollectorFits
  <2>3. /\ invalid' = FALSE /\ command' = command
        /\ collector' = Resting \/ (collector' = [step |-> "store", snapshot |-> x] /\ NotAfter(shown, x))
    BY Zenon, <1>4, <2>1, <2>2, AcceptedFits DEF AcceptChange, DeliveryInv, ScreenFits
  <2>4. CollectorFits' /\ (collector'.step = "store" => NotAfter(shown, collector'.snapshot))
    BY <1>2, <2>2, <2>3 DEF CollectorFits, Resting
  <2>5. CommandFits' /\ ConfinedFits'
    BY Zenon, <1>1, <1>2, <2>3, <2>4 DEF DeliveryInv, CommandFits, ConfinedFits
  <2>6. ScreenFits'
    BY Zenon, <1>1, <1>2, <2>3 DEF DeliveryInv, ScreenFits
  <2> QED
    BY Zenon, <1>2, <1>3, <2>4, <2>5, <2>6 DEF DeliveryInv
<1>5. CASE AcceptReply
  <2>1. PICK x : x = command.snapshot
    BY Zenon
  <2>2. Known(x)
    BY Zenon, <1>5, <2>1 DEF AcceptReply, DeliveryInv, CommandFits
  <2>3. /\ invalid' = FALSE /\ collector' = collector
        /\ command' = Resting \/ (command' = [step |-> "store", snapshot |-> x] /\ NotAfter(shown, x))
    BY Zenon, <1>5, <2>1, <2>2, AcceptedFits DEF AcceptReply, DeliveryInv, ScreenFits
  <2>4. CommandFits' /\ (command'.step = "store" => NotAfter(shown, command'.snapshot))
    BY <1>2, <2>2, <2>3 DEF CommandFits, Resting
  <2>5. CollectorFits'
    BY Zenon, <1>2, <2>3 DEF DeliveryInv, CollectorFits, KnownChange
  <2>6. ConfinedFits'
    BY Zenon, <1>1, <2>3, <2>4 DEF DeliveryInv, ConfinedFits
  <2>7. ScreenFits'
    BY Zenon, <1>1, <1>2, <2>3 DEF DeliveryInv, ScreenFits
  <2> QED
    BY Zenon, <1>2, <1>3, <2>4, <2>5, <2>6, <2>7 DEF DeliveryInv
<1> QED
  BY Zenon, <1>4, <1>5

LEMMA StoringKeeps ==
  ASSUME DeliveryInv, \/ StoreChange /\ (dispatcher = "parallel" \/ command.step # "store")
                      \/ StoreReply /\ (dispatcher = "parallel" \/ collector.step = "rest")
  PROVE  /\ DeliveryInv'
         /\ dispatcher = "confined" => OrderAfter(shown', shown) \in {"same", "newer"}
<1>1. /\ UNCHANGED streamVars
      /\ UNCHANGED <<first, emitted, conflated, invalid, commands, dispatcher, working, refreshing>>
  BY Zenon DEF StoreChange, StoreReply, workVars
<1>2. StreamInv' /\ LogInv' /\ \A x : Known(x) => Known(x)'
  BY Zenon, <1>1, StillKnown
<1>3. CallbackFits'
  BY Zenon, <1>1, <1>2 DEF DeliveryInv, CallbackFits, KnownChange
<1>4. StreamInv /\ LogInv /\ Known(shown) /\ invalid = FALSE
  BY Zenon DEF DeliveryInv, ScreenFits
<1>5. PICK x : x = shown'
  BY Zenon
<1>6. Known(x) /\ (dispatcher = "confined" => NotAfter(shown, x))
  <2>1. CASE StoreChange
    BY Zenon, <1>4, <1>5, <2>1 DEF StoreChange, DeliveryInv, CollectorFits, ConfinedFits
  <2>2. CASE StoreReply
    BY Zenon, <1>4, <1>5, <2>2 DEF StoreReply, DeliveryInv, CommandFits, ConfinedFits
  <2> QED
    BY Zenon, <2>1, <2>2
<1>7. dispatcher = "confined" => OrderAfter(shown', shown) \in {"same", "newer"}
  BY Zenon, <1>4, <1>5, <1>6, KnownOrder
<1>8. ScreenFits'
  BY Zenon, <1>1, <1>2, <1>5, <1>6 DEF DeliveryInv, ScreenFits
<1>9. CollectorFits' /\ CommandFits'
  <2>1. CASE StoreChange
    <3>1. collector' = Resting /\ command' = command
      BY Zenon, <2>1 DEF StoreChange
    <3> QED
      BY Zenon, <1>2, <3>1 DEF DeliveryInv, CollectorFits, CommandFits, Resting
  <2>2. CASE StoreReply
    <3>1. command' = Resting /\ collector' = collector
      BY Zenon, <2>2 DEF StoreReply
    <3>2. CollectorFits'
      BY Zenon, <1>2, <3>1 DEF DeliveryInv, CollectorFits, KnownChange
    <3> QED
      BY Zenon, <3>1, <3>2 DEF CommandFits, Resting
  <2> QED
    BY Zenon, <2>1, <2>2
<1>10. ConfinedFits'
  <2>1. dispatcher = "confined" => collector'.step # "store" /\ command'.step # "store"
    BY DEF StoreChange, StoreReply, Resting
  <2> QED
    BY Zenon, <1>1, <2>1 DEF ConfinedFits
<1> QED
  BY Zenon, <1>2, <1>3, <1>7, <1>8, <1>9, <1>10 DEF DeliveryInv

LEMMA CommandKeeps == ASSUME DeliveryInv, Command \/ Reply PROVE DeliveryInv'
<1>1. /\ UNCHANGED streamVars /\ working' \in BOOLEAN
      /\ UNCHANGED <<first, emitted, conflated, shown, invalid, collector, dispatcher, refreshing>>
  BY Zenon DEF Command, Reply
<1>2. StreamInv' /\ LogInv' /\ \A x : Known(x) => Known(x)'
  BY Zenon, <1>1, StillKnown
<1>3. CallbackFits'
  BY Zenon, <1>1, <1>2 DEF DeliveryInv, CallbackFits, KnownChange
<1>4. CollectorFits'
  BY Zenon, <1>1, <1>2 DEF DeliveryInv, CollectorFits, KnownChange
<1>5. Known(published)
  BY Zenon DEF DeliveryInv, StreamInv, ActorFits, Known
<1>6. CommandFits' /\ command'.step # "store"
  <2>1. CASE Command
    BY Zenon, <2>1 DEF Command, CommandFits
  <2>2. CASE Reply
    BY Zenon, <1>2, <1>5, <2>2 DEF Reply, CommandFits
  <2> QED
    BY Zenon, <2>1, <2>2
<1>7. ConfinedFits'
  BY Zenon, <1>1, <1>6 DEF DeliveryInv, ConfinedFits
<1>8. commands' \in 0 .. MaxCommands
  BY DeliveryAssumption DEF Command, Reply, DeliveryInv, ScreenFits
<1>9. ScreenFits'
  BY Zenon, <1>1, <1>2, <1>8 DEF DeliveryInv, ScreenFits
<1> QED
  BY Zenon, <1>2, <1>3, <1>4, <1>6, <1>7, <1>9 DEF DeliveryInv

LEMMA DeliveryStart == DeliveryInit => DeliveryInv
<1> SUFFICES ASSUME DeliveryInit PROVE DeliveryInv
  BY Zenon
<1>1. StreamInv /\ LogInv /\ shown = published /\ published \in Settlements
  BY Zenon, StreamStart, LogStart DEF DeliveryInit, StreamInv, ActorFits
<1>2. CallbackFits /\ CollectorFits /\ CommandFits /\ ConfinedFits
  <2>1. /\ first = None /\ conflated = None /\ emitted = FALSE
        /\ collector.step = "rest" /\ command.step = "rest"
    BY Zenon DEF DeliveryInit, Resting
  <2>2. CallbackFits
    BY Zenon, <2>1 DEF CallbackFits
  <2> QED
    BY Zenon, <2>1, <2>2 DEF CollectorFits, CommandFits, ConfinedFits
<1>3. ScreenFits
  <2>1. Known(shown)
    BY Zenon, <1>1 DEF Known
  <2>2. commands \in 0 .. MaxCommands
    BY DeliveryAssumption DEF DeliveryInit
  <2>3. invalid = FALSE /\ working \in BOOLEAN /\ refreshing \in BOOLEAN /\ dispatcher \in Dispatchers
    BY Zenon DEF DeliveryInit
  <2> QED
    BY Zenon, <2>1, <2>2, <2>3 DEF ScreenFits
<1> QED
  BY Zenon, <1>1, <1>2, <1>3 DEF DeliveryInv

LEMMA DeliveryStep ==
  DeliveryInv /\ [DeliveryNext]_deliveryVars
    => /\ DeliveryInv'
       /\ dispatcher = "confined" /\ shown' # shown => OrderAfter(shown', shown) \in {"same", "newer"}
<1> SUFFICES ASSUME DeliveryInv, [DeliveryNext]_deliveryVars
             PROVE  /\ DeliveryInv'
                    /\ dispatcher = "confined" /\ shown' # shown => OrderAfter(shown', shown) \in {"same", "newer"}
  BY Zenon
<1>1. CASE Work \/ BeginRefresh \/ Completion \/ Publishing \/ Subscribing \/ TimeOut
  <2>1. shown' = shown
    BY Zenon, <1>1 DEF Work, BeginRefresh, Completion, Publishing, Subscribing, TimeOut, uiVars
  <2> QED
    BY Zenon, <1>1, <2>1, SettlingKeeps
<1>2. CASE Forward
  <2>1. shown' = shown
    BY Zenon, <1>2 DEF Forward, uiVars
  <2> QED
    BY Zenon, <1>2, <2>1, ForwardKeeps
<1>3. CASE Command \/ Reply
  <2>1. shown' = shown
    BY Zenon, <1>3 DEF Command, Reply
  <2> QED
    BY Zenon, <1>3, <2>1, CommandKeeps
<1>4. CASE Collector
  <2>1. CASE Collect \/ Compare \/ Refresh
    <3>1. shown' = shown
      BY Zenon, <2>1 DEF Collect, Compare, Refresh
    <3> QED
      BY Zenon, <2>1, <3>1, CollectKeeps, AcceptChangeKeeps
  <2>2. CASE AcceptChange
    <3>1. shown' = shown
      BY Zenon, <2>2 DEF AcceptChange
    <3> QED
      BY Zenon, <1>4, <2>2, <3>1, AcceptingKeeps DEF Collector
  <2>3. CASE StoreChange
    BY Zenon, <1>4, <2>3, StoringKeeps DEF Collector
  <2> QED
    BY Zenon, <1>4, <2>1, <2>2, <2>3 DEF Collector
<1>5. CASE Commander
  <2>1. CASE AcceptReply
    <3>1. shown' = shown
      BY Zenon, <2>1 DEF AcceptReply
    <3> QED
      BY Zenon, <1>5, <2>1, <3>1, AcceptingKeeps DEF Commander
  <2>2. CASE StoreReply
    BY Zenon, <1>5, <2>2, StoringKeeps DEF Commander
  <2> QED
    BY Zenon, <1>5, <2>1, <2>2 DEF Commander
<1>6. CASE UNCHANGED deliveryVars
  <2>1. /\ UNCHANGED <<first, emitted, conflated, shown, invalid, collector, command, commands, dispatcher>>
        /\ UNCHANGED <<working, refreshing>>
    BY Zenon, <1>6 DEF deliveryVars, uiVars, workVars
  <2>2. working' \in BOOLEAN /\ refreshing' \in BOOLEAN
    BY Zenon, <2>1 DEF DeliveryInv, ScreenFits
  <2> QED
    BY Zenon, <2>1, <2>2, ScreenStays
<1> QED
  BY Zenon, <1>1, <1>2, <1>3, <1>4, <1>5, <1>6 DEF DeliveryNext

LEMMA DeliveryInvariant == DeliverySpec => []DeliveryInv
<1>1. DeliveryInv /\ [DeliveryNext]_deliveryVars => DeliveryInv'
  BY Zenon, DeliveryStep
<1> QED
  BY <1>1, DeliveryStart, PTL DEF DeliverySpec

(***************************************************************************)
(* Whatever is conflated, refreshed, answered late or timed out, the       *)
(* callback keeps to its order and the presenter never meets a snapshot it *)
(* must call invalid, nor a refresh older than the change that asked for   *)
(* it: it never gives its observer up.                                     *)
(***************************************************************************)
THEOREM ObserverStays == DeliverySpec => []DeliverySound
<1>1. DeliveryInv => DeliverySound
  <2> SUFFICES ASSUME DeliveryInv PROVE DeliverySound
    BY Zenon
  <2>1. TypeOK
    BY Zenon, StreamTyped DEF DeliveryInv
  <2>2. first \in Changes \cup {None} /\ conflated \in Changes \cup {None}
        /\ (first = None => conflated = None /\ ~emitted)
    BY Zenon, ChangeFields DEF DeliveryInv, CallbackFits, KnownChange
  <2>3. shown \in Snapshot /\ dispatcher \in Dispatchers /\ commands \in 0 .. MaxCommands
    BY Zenon, SettledFields DEF DeliveryInv, ScreenFits, Known
  <2>4. {emitted, invalid, working, refreshing} \subseteq BOOLEAN /\ ~invalid
    <3>1. emitted \in BOOLEAN /\ invalid = FALSE /\ working \in BOOLEAN /\ refreshing \in BOOLEAN
      BY Zenon DEF DeliveryInv, CallbackFits, ScreenFits
    <3> QED
      BY Zenon, <3>1
  <2>5. /\ collector.step \in {"rest", "compare", "refresh", "accept", "store"}
        /\ command.step \in {"rest", "native", "refresh", "accept", "store"}
    BY Zenon DEF DeliveryInv, CollectorFits, CommandFits
  <2> QED
    BY Zenon, <2>1, <2>2, <2>3, <2>4, <2>5 DEF DeliverySound, DeliveryTypeOK, ObserverStaysConsistent
<1> QED
  BY <1>1, DeliveryInvariant, PTL

(***************************************************************************)
(* On a confined dispatcher the collector of changes and the command that  *)
(* awaits its result together never move the screen backwards.             *)
(***************************************************************************)
THEOREM ConfinedScreenAdvances == DeliverySpec => ConfinedNeverRegresses
<1>1. DeliveryInv /\ [DeliveryNext]_deliveryVars
        => [dispatcher = "confined" => OrderAfter(shown', shown) \in {"same", "newer"}]_shown
  BY Zenon, DeliveryStep
<1> QED
  BY <1>1, DeliveryInvariant, PTL DEF DeliverySpec, ConfinedNeverRegresses
=============================================================================
