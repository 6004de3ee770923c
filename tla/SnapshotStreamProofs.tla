------------------------- MODULE SnapshotStreamProofs -------------------------
(***************************************************************************)
(* Proofs about SnapshotStream, for any set of streams, peers and          *)
(* sections and any bound on the number of writes.                         *)
(***************************************************************************)
EXTENDS SnapshotStream, TLAPS

(* Offering to a queue of at most one item leaves exactly the offered one: *)
(* what _notify's drop-oldest loop does to one subscriber.                  *)
LEMMA OfferReplaces ==
    ASSUME NEW q \in Queues, NEW v
    PROVE  Offer(q, v) = <<v>>
<1>1. CASE q = << >>
  BY <1>1 DEF Offer
<1>2. CASE q # << >>
  <2>1. PICK w \in 0..MaxVersion : q = <<w>>
    BY <1>2 DEF Queues
  <2>2. Len(q) = 1 /\ Tail(q) = << >>
    BY <2>1
  <2>3. Offer(q, v) = Append(<< >>, v)
    BY <2>2, Zenon DEF Offer
  <2> QED
    BY <2>3
<1> QED
  BY <1>1, <1>2

(* Taking the item of such a queue empties it.                              *)
LEMMA TailEmpties ==
    ASSUME NEW q \in Queues, q # << >>
    PROVE  Tail(q) = << >>
<1>1. PICK w \in 0..MaxVersion : q = <<w>>
  BY DEF Queues
<1> QED
  BY <1>1

(* What every write has in common.                                         *)
LEMMA BumpStep ==
    ASSUME TypeOK, Bump
    PROVE  /\ version' = version + 1
           /\ version' \in 1..MaxVersion
           /\ queue' = [s \in Streams |-> IF s \in subscribers THEN <<version'>> ELSE queue[s]]
           /\ UNCHANGED <<subscribers, phase, payload, view, connected, server>>
<1>1. version' = version + 1 /\ version' \in 1..MaxVersion
  BY StoreAssumption DEF TypeOK, Bump
<1>2. \A s \in Streams : Offer(queue[s], version') = <<version'>>
  BY OfferReplaces DEF TypeOK
<1> QED
  BY <1>1, <1>2 DEF Bump, Notify

-----------------------------------------------------------------------------
(* Type correctness of the store, the queues and the generators.           *)
THEOREM TypeCorrect == Spec => []TypeOK
<1>1. Init => TypeOK
  BY StoreAssumption DEF Init, TypeOK, Queues, Phase, Server, Snapshots, Stamps, NoView, NoStamps
<1>2. TypeOK /\ [Next]_vars => TypeOK'
  <2> SUFFICES ASSUME TypeOK, [Next]_vars
               PROVE  TypeOK'
    OBVIOUS
  <2>s. Snapshot \in Snapshots
    BY DEF TypeOK, Snapshot, Snapshots, Nodes
  <2>t. NoView \in Snapshots
    BY StoreAssumption DEF NoView, NoStamps, Snapshots, Stamps
  <2>b. ASSUME Bump PROVE /\ version' \in 0..MaxVersion
                          /\ queue' \in [Streams -> Queues]
    BY <2>b, BumpStep DEF TypeOK, Queues
  <2>1. ASSUME NEW x \in Sections, Put(x) PROVE TypeOK'
    <3>1. sections' \in [Nodes -> Stamps]
      BY <2>1, <2>b DEF TypeOK, Put, Nodes, Stamps
    <3> QED
      BY <2>1, <2>b, <3>1, BumpStep DEF TypeOK, Put
  <2>2. ASSUME NEW p \in Peers, PutNode(p) PROVE TypeOK'
    BY <2>2, <2>b, BumpStep DEF TypeOK, PutNode
  <2>3. ASSUME NEW p \in Peers, NEW xs \in SUBSET Sections, PutMany(p, xs) PROVE TypeOK'
    <3>1. sections' \in [Nodes -> Stamps]
      BY <2>3, <2>b DEF TypeOK, PutMany, Nodes, Stamps
    <3> QED
      BY <2>3, <2>b, <3>1, BumpStep DEF TypeOK, PutMany
  <2>4. ASSUME NEW s \in Streams, Open(s) PROVE TypeOK'
    BY <2>4, <2>s DEF TypeOK, Open, YieldSnapshot, GoTo, Phase, Queues
  <2>5. ASSUME NEW s \in Streams, Send(s) PROVE TypeOK'
    BY <2>5, <2>t DEF TypeOK, Send, GoTo, Phase
  <2>6. ASSUME NEW s \in Streams, Disconnect(s) PROVE TypeOK'
    BY <2>6 DEF TypeOK, Disconnect
  <2>7. ASSUME NEW s \in Streams, Loop(s) PROVE TypeOK'
    BY <2>7 DEF TypeOK, Loop, Unsubscribe, GoTo, Phase, Queues
  <2>8. ASSUME NEW s \in Streams, Receive(s) PROVE TypeOK'
    <3>1. Tail(queue[s]) \in Queues
      BY <2>8, TailEmpties DEF TypeOK, Receive, Queues
    <3> QED
      BY <2>8, <3>1 DEF TypeOK, Receive, GoTo, Phase
  <2>9. ASSUME NEW s \in Streams, Emit(s) PROVE TypeOK'
    BY <2>9, <2>s DEF TypeOK, Emit, YieldSnapshot, GoTo, Phase
  <2>10. ASSUME NEW s \in Streams, Timeout(s) PROVE TypeOK'
    BY <2>10 DEF TypeOK, Timeout, GoTo, Phase
  <2>11. ASSUME NEW s \in Streams, Abort(s) PROVE TypeOK'
    BY <2>11, <2>t DEF TypeOK, Abort, Unsubscribe, GoTo, Phase, Queues
  <2>12. ASSUME NEW s \in Streams, Finalise(s) PROVE TypeOK'
    BY <2>12 DEF TypeOK, Finalise, Unsubscribe, GoTo, Phase, Queues
  <2>13. CASE Lifecycle
    BY <2>13 DEF TypeOK, Lifecycle, Signal, StopListening, DrainTimeout, Stop, store, streams, Server
  <2>14. CASE UNCHANGED vars
    BY <2>14 DEF TypeOK, vars
  <2> QED
    BY <2>1, <2>2, <2>3, <2>4, <2>5, <2>6, <2>7, <2>8, <2>9, <2>10, <2>11, <2>12, <2>13, <2>14
       DEF Next, Write, Generator, Framework
<1> QED
  BY <1>1, <1>2, PTL DEF Spec

-----------------------------------------------------------------------------
(* Every write leaves every open stream a reminder, and only makes the      *)
(* stored snapshot newer.                                                   *)
LEMMA WriteKeeps ==
    ASSUME TypeOK, StreamInv, Write
    PROVE  StreamInv'
<1>1. /\ Bump
      /\ \A n \in Nodes, x \in Sections : sections'[n][x] \in {sections[n][x], version'}
  BY DEF Write, Put, PutNode, PutMany, TypeOK, Nodes, Stamps
<1>2. /\ version \in Nat
      /\ version' = version + 1
      /\ queue' = [s \in Streams |-> IF s \in subscribers THEN <<version'>> ELSE queue[s]]
      /\ UNCHANGED <<subscribers, phase, payload, view>>
  BY <1>1, BumpStep DEF TypeOK
<1>3. \A n \in Nodes, x \in Sections : /\ sections[n][x] \in Nat
                                       /\ sections[n][x] <= version
  BY DEF StreamInv, TypeOK, Stamps
<1>4. \A n \in Nodes, x \in Sections : /\ sections'[n][x] \in Nat
                                       /\ sections[n][x] <= sections'[n][x]
                                       /\ sections'[n][x] <= version'
  BY <1>1, <1>2, <1>3
<1>5. \A s \in Streams : queue'[s] # << >> => s \in subscribers /\ queue'[s] = <<version'>>
  BY <1>2 DEF StreamInv
<1>6. \A s \in Streams : phase[s] # "closed" => queue'[s] = <<version'>>
  BY <1>2 DEF StreamInv, NoSubscriberLeak
<1>7. ASSUME NEW v \in Snapshots, NotOlder(v, Snapshot) PROVE NotOlder(v, Snapshot')
  BY <1>7, <1>2, <1>3, <1>4 DEF NotOlder, Snapshot, Nodes, Snapshots, Stamps
<1>8. \A s \in Streams : InOrder(s)'
  BY <1>2, <1>7 DEF StreamInv, InOrder, TypeOK, NotOlder
<1>9. \A s \in Streams : Reminded(s)'
  BY <1>2, <1>6 DEF Reminded
<1> QED
  BY <1>2, <1>4, <1>5, <1>8, <1>9 DEF StreamInv, NoSubscriberLeak, QueueHoldsNewest

(* A step of one stream cannot disturb another: its own parts are what has  *)
(* to be shown.                                                             *)
LEMMA StreamStepKeeps ==
    ASSUME TypeOK, StreamInv,
           NEW s \in Streams,
           UNCHANGED <<version, sections>>,
           \A r \in Streams \ {s} : /\ queue'[r] = queue[r]
                                    /\ phase'[r] = phase[r]
                                    /\ payload'[r] = payload[r]
                                    /\ view'[r] = view[r],
           subscribers' \ {s} = subscribers \ {s},
           subscribers' \subseteq Streams,
           s \in subscribers' <=> phase'[s] # "closed",
           queue'[s] # << >> => s \in subscribers' /\ queue'[s] = <<version>>,
           Reminded(s)',
           InOrder(s)'
    PROVE  StreamInv'
<1>1. Snapshot' = Snapshot
  BY DEF Snapshot
<1>2. \A r \in Streams : Reminded(r)'
  BY <1>1 DEF StreamInv, Reminded
<1>3. \A r \in Streams : InOrder(r)'
  BY <1>1 DEF StreamInv, InOrder, NotOlder
<1>4. NoSubscriberLeak'
  BY DEF StreamInv, NoSubscriberLeak
<1>5. QueueHoldsNewest' /\ \A r \in Streams : queue'[r] # << >> => r \in subscribers'
  BY DEF StreamInv, QueueHoldsNewest
<1> QED
  BY <1>2, <1>3, <1>4, <1>5 DEF StreamInv

-----------------------------------------------------------------------------
(* The inductive invariant: initially true and kept by every step.          *)
LEMMA StreamInvInit == Init => StreamInv
  BY StoreAssumption
     DEF Init, StreamInv, NoSubscriberLeak, QueueHoldsNewest, Reminded, InOrder, NotOlder,
         Snapshot, NoView, NoStamps, Nodes

LEMMA StreamInvStep == TypeOK /\ StreamInv /\ [Next]_vars => StreamInv'
<1> SUFFICES ASSUME TypeOK, StreamInv, [Next]_vars
             PROVE  StreamInv'
  OBVIOUS
<1>s. Snapshot \in Snapshots /\ NotOlder(Snapshot, Snapshot)
  BY DEF TypeOK, Snapshot, Snapshots, Nodes, Stamps, NotOlder
<1>1. CASE Write
  BY <1>1, WriteKeeps
<1>2. ASSUME NEW s \in Streams, Open(s) PROVE StreamInv'
  <2>1. Reminded(s)'
    BY <1>2 DEF Open, YieldSnapshot, GoTo, TypeOK, Reminded, Snapshot
  <2>2. InOrder(s)'
    BY <1>2, <1>s DEF Open, YieldSnapshot, GoTo, TypeOK, InOrder, StreamInv, Snapshot, NotOlder
  <2> QED
    BY <1>2, <2>1, <2>2, StreamStepKeeps DEF Open, YieldSnapshot, GoTo, TypeOK
<1>3. ASSUME NEW s \in Streams, Send(s) PROVE StreamInv'
  <2>1. s \in subscribers /\ (queue[s] # << >> => queue[s] = <<version>>)
    BY <1>3 DEF Send, StreamInv, NoSubscriberLeak, QueueHoldsNewest
  <2>2. Reminded(s)' /\ InOrder(s)'
    BY <1>3 DEF Send, GoTo, TypeOK, StreamInv, Reminded, InOrder, Snapshot, NotOlder
  <2> QED
    BY <1>3, <2>1, <2>2, StreamStepKeeps DEF Send, GoTo, TypeOK
<1>4. ASSUME NEW s \in Streams, Disconnect(s) PROVE StreamInv'
  BY <1>4 DEF Disconnect, StreamInv, NoSubscriberLeak, QueueHoldsNewest, Reminded, InOrder,
              NotOlder, Snapshot
<1>5. ASSUME NEW s \in Streams, Unsubscribe(s), UNCHANGED <<version, sections, view>>,
             \A r \in Streams \ {s} : payload'[r] = payload[r]
      PROVE  StreamInv'
  <2>1. Reminded(s)' /\ InOrder(s)'
    BY <1>5 DEF Unsubscribe, GoTo, TypeOK, StreamInv, Reminded, InOrder, Snapshot, NotOlder
  <2> QED
    BY <1>5, <2>1, StreamStepKeeps DEF Unsubscribe, GoTo, TypeOK
<1>6. ASSUME NEW s \in Streams, Loop(s) PROVE StreamInv'
  <2>1. CASE ShuttingDown \/ ~connected[s]
    BY <1>6, <2>1, <1>5 DEF Loop
  <2>2. CASE ~(ShuttingDown \/ ~connected[s])
    <3>1. s \in subscribers /\ (queue[s] # << >> => queue[s] = <<version>>)
      BY <1>6 DEF Loop, StreamInv, NoSubscriberLeak, QueueHoldsNewest
    <3>2. Reminded(s)' /\ InOrder(s)'
      BY <1>6, <2>2 DEF Loop, GoTo, TypeOK, StreamInv, Reminded, InOrder, Snapshot, NotOlder
    <3> QED
      BY <1>6, <2>2, <3>1, <3>2, StreamStepKeeps DEF Loop, GoTo, TypeOK
  <2> QED
    BY <2>1, <2>2
<1>7. ASSUME NEW s \in Streams, Receive(s) PROVE StreamInv'
  <2>1. s \in subscribers /\ Tail(queue[s]) = << >>
    BY <1>7, TailEmpties DEF Receive, StreamInv, NoSubscriberLeak, TypeOK
  <2>2. Reminded(s)' /\ InOrder(s)'
    BY <1>7 DEF Receive, GoTo, TypeOK, StreamInv, Reminded, InOrder, Snapshot, NotOlder
  <2> QED
    BY <1>7, <2>1, <2>2, StreamStepKeeps DEF Receive, GoTo, TypeOK
<1>8. ASSUME NEW s \in Streams, Emit(s) PROVE StreamInv'
  <2>1. s \in subscribers /\ (queue[s] # << >> => queue[s] = <<version>>)
    BY <1>8 DEF Emit, StreamInv, NoSubscriberLeak, QueueHoldsNewest
  <2>2. Reminded(s)'
    BY <1>8 DEF Emit, YieldSnapshot, GoTo, TypeOK, Reminded, Snapshot
  <2>3. InOrder(s)'
    BY <1>8, <1>s DEF Emit, YieldSnapshot, GoTo, TypeOK, InOrder, StreamInv, Snapshot, NotOlder
  <2> QED
    BY <1>8, <2>1, <2>2, <2>3, StreamStepKeeps DEF Emit, YieldSnapshot, GoTo, TypeOK
<1>9. ASSUME NEW s \in Streams, Timeout(s) PROVE StreamInv'
  <2>1. s \in subscribers
    BY <1>9 DEF Timeout, StreamInv, NoSubscriberLeak
  <2>2. Reminded(s)' /\ InOrder(s)'
    BY <1>9 DEF Timeout, GoTo, TypeOK, StreamInv, Reminded, InOrder, Snapshot, NotOlder
  <2> QED
    BY <1>9, <2>1, <2>2, StreamStepKeeps DEF Timeout, GoTo, TypeOK
<1>10. ASSUME NEW s \in Streams, Abort(s) PROVE StreamInv'
  <2>0. \A r \in Streams \ {s} : payload'[r] = payload[r]
    BY <1>10 DEF Abort, TypeOK
  <2>1. CASE Unsubscribe(s)
    BY <1>10, <2>0, <2>1, <1>5 DEF Abort
  <2>2. CASE ~Unsubscribe(s)
    <3>1. s \in subscribers /\ (queue[s] # << >> => queue[s] = <<version>>)
      BY <1>10, <2>2 DEF Abort, StreamInv, NoSubscriberLeak, QueueHoldsNewest
    <3>2. Reminded(s)' /\ InOrder(s)'
      BY <1>10, <2>2 DEF Abort, GoTo, TypeOK, StreamInv, Reminded, InOrder, Snapshot, NotOlder
    <3> QED
      BY <1>10, <2>0, <2>2, <3>1, <3>2, StreamStepKeeps DEF Abort, GoTo, TypeOK
  <2> QED
    BY <2>1, <2>2
<1>11. ASSUME NEW s \in Streams, Finalise(s) PROVE StreamInv'
  BY <1>11, <1>5 DEF Finalise
<1>12. CASE Lifecycle
  BY <1>12 DEF Lifecycle, Signal, StopListening, DrainTimeout, Stop, store, streams,
               StreamInv, NoSubscriberLeak, QueueHoldsNewest, Reminded, InOrder, NotOlder, Snapshot
<1>13. CASE UNCHANGED vars
  BY <1>13 DEF vars, StreamInv, NoSubscriberLeak, QueueHoldsNewest, Reminded, InOrder, NotOlder,
               Snapshot
<1> QED
  BY <1>1, <1>2, <1>3, <1>4, <1>6, <1>7, <1>8, <1>9, <1>10, <1>11, <1>12, <1>13
     DEF Next, Generator, Framework

THEOREM StreamInvariant == Spec => []StreamInv
  BY StreamInvInit, StreamInvStep, TypeCorrect, PTL DEF Spec

(* No lost update, for any number of browsers and any writers.              *)
THEOREM NoLostUpdate == Spec => []IdleClientIsCurrent
<1>1. StreamInv => IdleClientIsCurrent
  BY DEF StreamInv, IdleClientIsCurrent, Reminded
<1> QED
  BY <1>1, StreamInvariant, PTL

(* However a stream ends, its queue goes with it.                           *)
THEOREM SubscribersExact == Spec => []NoSubscriberLeak
<1>1. StreamInv => NoSubscriberLeak
  BY DEF StreamInv
<1> QED
  BY <1>1, StreamInvariant, PTL

-----------------------------------------------------------------------------
(* Only Send changes a view, to the snapshot that was being yielded.        *)
LEMMA ViewStep ==
    ASSUME TypeOK, [Next]_vars, NEW s \in Streams
    PROVE  \/ view'[s] = view[s]
           \/ Send(s) /\ phase[s] = "yielding" /\ view' = [view EXCEPT ![s] = payload[s]]
<1>1. CASE Write
  BY <1>1 DEF Write, Put, PutNode, PutMany, Bump
<1>2. ASSUME NEW r \in Streams, Send(r)
      PROVE  \/ view'[s] = view[s]
             \/ Send(s) /\ phase[s] = "yielding" /\ view' = [view EXCEPT ![s] = payload[s]]
  BY <1>2 DEF Send, TypeOK
<1>3. ASSUME NEW r \in Streams, Open(r) \/ Disconnect(r) \/ Generator(r) \/ Framework(r)
      PROVE  view' = view
  BY <1>3 DEF Open, Disconnect, Generator, Framework, Loop, Receive, Emit, Timeout, Abort, Finalise
<1>4. CASE Lifecycle
  BY <1>4 DEF Lifecycle, Signal, StopListening, DrainTimeout, Stop, streams
<1>5. CASE UNCHANGED vars
  BY <1>5 DEF vars
<1> QED
  BY <1>1, <1>2, <1>3, <1>4, <1>5 DEF Next

(* A browser never sees the store go back.                                  *)
THEOREM ViewMonotonic == Spec => ViewNeverGoesBack
<1>1. TypeOK /\ StreamInv /\ [Next]_vars => [\A s \in Streams : NotOlder(view[s], view'[s])]_vars
  <2> SUFFICES ASSUME TypeOK, StreamInv, [Next]_vars, NEW s \in Streams
               PROVE  NotOlder(view[s], view'[s])
    OBVIOUS
  <2>1. CASE view'[s] = view[s]
    BY <2>1 DEF NotOlder, TypeOK, Snapshots, Stamps
  <2>2. CASE view'[s] = payload[s] /\ phase[s] = "yielding"
    BY <2>2 DEF StreamInv, InOrder
  <2> QED
    BY <2>1, <2>2, ViewStep DEF TypeOK
<1> QED
  BY <1>1, TypeCorrect, StreamInvariant, PTL DEF Spec, ViewNeverGoesBack

(***************************************************************************)
(* The streams implement LatestValueFeed: a write is a publication, the    *)
(* transport's taking of a snapshot is a delivery, and what starts or ends *)
(* a wait with an empty queue makes the reader rest or stir.               *)
(***************************************************************************)
seenBar == [s \in Streams |-> view[s].version]
restBar == {s \in Streams : phase[s] = "waiting" /\ queue[s] = << >>}

(* A step of stream s that writes nothing and delivers nothing is, for the  *)
(* feed, s coming to rest, s stirring, or nothing.                          *)
LEMMA QuietStep ==
    ASSUME TypeOK, StreamInv, StreamInv', NEW s \in Streams,
           UNCHANGED <<version, sections, view>>,
           \A r \in Streams \ {s} : queue'[r] = queue[r] /\ phase'[r] = phase[r]
    PROVE  [Feed!Next]_(Feed!vars)
<1>1. UNCHANGED <<version, seenBar>> /\ (s \in restBar' => seenBar[s] = version)
  BY DEF seenBar, restBar, StreamInv, Reminded, Snapshot
<1>2. CASE s \in restBar'
  <2>1. restBar' = restBar \cup {s}
    BY <1>2 DEF restBar
  <2> QED
    BY <1>1, <1>2, <2>1 DEF Feed!Next, Feed!Rest, seenBar, restBar
<1>3. CASE s \notin restBar'
  <2>1. restBar' = restBar \ {s}
    BY <1>3 DEF restBar
  <2> QED
    BY <1>1, <2>1 DEF Feed!Next, Feed!Stir, seenBar, restBar
<1> QED
  BY <1>2, <1>3

(* Every behaviour of the streams is one the feed allows.                   *)
THEOREM StreamsImplementFeed == Spec => ImplementsFeed
<1>1. Init => Feed!Init
  BY DEF Init, Feed!Init, NoView
<1>2. TypeOK /\ StreamInv /\ StreamInv' /\ [Next]_vars => [Feed!Next]_(Feed!vars)
  <2> SUFFICES ASSUME TypeOK, StreamInv, StreamInv', [Next]_vars
               PROVE  [Feed!Next]_(Feed!vars)
    OBVIOUS
  <2>1. CASE Write
    <3>1. Bump
      BY <2>1 DEF Write, Put, PutNode, PutMany
    <3>2. \A s \in Streams : phase[s] # "closed" => queue'[s] = <<version'>>
      BY <3>1, BumpStep DEF StreamInv, NoSubscriberLeak
    <3>3. restBar' = {} /\ UNCHANGED seenBar /\ version < MaxVersion /\ version' = version + 1
      BY <3>1, <3>2, BumpStep DEF restBar, seenBar, Bump
    <3> QED
      BY <3>3 DEF Feed!Next, Feed!Publish, restBar, seenBar
  <2>2. ASSUME NEW s \in Streams, Send(s) PROVE [Feed!Next]_(Feed!vars)
    <3>1. CASE phase[s] = "pinging"
      BY <2>2, <3>1, QuietStep DEF Send, GoTo, TypeOK
    <3>2. CASE phase[s] = "yielding"
      <4>1. /\ view' = [view EXCEPT ![s] = payload[s]]
            /\ UNCHANGED <<version, queue>>
            /\ phase'[s] \in {"looping", "pinging"}
            /\ \A r \in Streams \ {s} : phase'[r] = phase[r]
        BY <2>2, <3>2 DEF Send, GoTo, TypeOK
      <4>2. restBar' = restBar /\ s \notin restBar
        BY <3>2, <4>1 DEF restBar
      <4>3. payload[s].version \in view[s].version..version
        BY <3>2 DEF StreamInv, InOrder, NotOlder, Snapshot, TypeOK, Snapshots
      <4>4. seenBar' = [seenBar EXCEPT ![s] = payload[s].version]
        BY <4>1 DEF seenBar, TypeOK
      <4>5. payload[s].version \in seenBar[s]..version
        BY <4>3 DEF seenBar
      <4> QED
        BY <4>1, <4>2, <4>4, <4>5 DEF Feed!Next, Feed!Deliver, restBar, seenBar
    <3> QED
      BY <2>2, <3>1, <3>2 DEF Send
  <2>3. ASSUME NEW s \in Streams, Open(s) PROVE [Feed!Next]_(Feed!vars)
    BY <2>3, QuietStep DEF Open, YieldSnapshot, GoTo, TypeOK
  <2>4. ASSUME NEW s \in Streams, Disconnect(s) PROVE [Feed!Next]_(Feed!vars)
    BY <2>4, QuietStep DEF Disconnect
  <2>5. ASSUME NEW s \in Streams, Generator(s) PROVE [Feed!Next]_(Feed!vars)
    BY <2>5, QuietStep DEF Generator, Loop, Receive, Emit, Timeout, Unsubscribe, YieldSnapshot,
                           GoTo, TypeOK
  <2>6. ASSUME NEW s \in Streams, Framework(s) PROVE [Feed!Next]_(Feed!vars)
    BY <2>6, QuietStep DEF Framework, Abort, Finalise, Unsubscribe, GoTo, TypeOK
  <2>7. CASE Lifecycle
    BY <2>7 DEF Lifecycle, Signal, StopListening, DrainTimeout, Stop, store, streams, Feed!vars
  <2>8. CASE UNCHANGED vars
    BY <2>8 DEF vars, Feed!vars
  <2> QED
    BY <2>1, <2>2, <2>3, <2>4, <2>5, <2>6, <2>7, <2>8 DEF Next
<1> QED
  BY <1>1, <1>2, TypeCorrect, StreamInvariant, PTL DEF Spec, ImplementsFeed, Feed!Spec

=============================================================================
