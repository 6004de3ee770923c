--------------------------- MODULE SnapshotStream ---------------------------
(***************************************************************************)
(* The snapshot store (store.py) and the server-sent-event streams that    *)
(* follow it (GET /api/stream in api/routes.py), up to and including the   *)
(* shutdown of the server (main.py, uvicorn).                              *)
(*                                                                         *)
(* Everything runs on one asyncio event loop, so an action is what one     *)
(* task does between two awaits.  The store's asyncio.Lock is held over    *)
(* code without an await: it is never contended, and put, put_node and     *)
(* put_many, with the _notify that ends them, are one action each.         *)
(* An envelope is abstracted to the store version at which it was written. *)
(***************************************************************************)
EXTENDS Integers, Sequences, FiniteSets

CONSTANTS Streams,     \* browser connections
          Local,       \* the id of this node (Settings.node_id)
          Peers,       \* the ids of the federated nodes
          Sections,    \* section names ("gpu", "containers", ...)
          MaxVersion   \* bound on the number of writes to the store

ASSUME StoreAssumption == /\ MaxVersion \in Nat
                          /\ Local \notin Peers

Nodes == Peers \cup {Local}

VARIABLES version,      \* SnapshotStore._version
          sections,     \* SnapshotStore._sections: node -> section -> stamp, 0 = absent
          subscribers,  \* SnapshotStore._subscribers, one queue per open stream
          queue,        \* the subscriber queues, asyncio.Queue(maxsize=1)
          phase,        \* where each stream's generator is suspended
          payload,      \* the snapshot a generator is yielding, NoView when none
          view,         \* the last snapshot each browser received
          connected,    \* whether the browser is still there
          server        \* the uvicorn server's life

store   == <<version, sections>>
streams == <<subscribers, queue, phase, payload, view, connected>>
vars    == <<version, sections, subscribers, queue, phase, payload, view, connected, server>>

Phase  == {"closed",     \* no generator
           "yielding",   \* at a yield of a snapshot, the transport has not taken it
           "pinging",    \* at the yield of a ping
           "looping",    \* at the top of the while loop
           "waiting",    \* in wait_for(queue.get(), 1.0)
           "woken",      \* got an item, the task has not run yet
           "abandoned"}  \* cancelled at a yield, not finalised by the loop yet
Server == {"serving", "signalled", "draining", "expired", "stopped"}

Stamps   == [Sections -> 0..MaxVersion]
Snapshots == [version : 0..MaxVersion, sections : Stamps]
Queues   == {<< >>} \cup {<<v>> : v \in 0..MaxVersion}
NoStamps == [x \in Sections |-> 0]
NoView   == [version |-> 0, sections |-> NoStamps]

(* app.state.shutting_down, set by the signal handler *)
ShuttingDown == server # "serving"

(* SnapshotStore.snapshot() of the local node *)
Snapshot == [version |-> version, sections |-> sections[Local]]

(***************************************************************************)
(* The store                                                               *)
(***************************************************************************)
\* mutant: the new item is dropped
OfferDropsNewest(q, v) == IF Len(q) = 1 THEN q ELSE Append(q, v)

(* one subscriber's queue after _notify: full means drop the oldest item *)
Offer(q, v) == Append(IF Len(q) = 1 THEN Tail(q) ELSE q, v)

\* mutant: _notify stops after the first subscriber
NotifyOne(v) ==
    queue' = [s \in Streams |-> IF subscribers # {} /\ s = (CHOOSE x \in subscribers : TRUE)
                               THEN Offer(queue[s], v) ELSE queue[s]]

Notify(v) ==
    queue' = [s \in Streams |-> IF s \in subscribers THEN Offer(queue[s], v) ELSE queue[s]]

(* what every write does besides its own assignment *)
Bump ==
    /\ server # "stopped"          \* poller.stop() has ended every writer
    /\ version < MaxVersion
    /\ version' = version + 1
    /\ Notify(version')
    /\ UNCHANGED <<subscribers, phase, payload, view, connected, server>>

(* a local collector's envelope *)
Put(x) ==
    /\ Bump
    /\ sections' = [sections EXCEPT ![Local][x] = version']

\* mutant: put_node does not notify
PutNodeSilently(p) ==
    /\ server # "stopped" /\ version < MaxVersion
    /\ version' = version + 1
    /\ UNCHANGED <<sections, streams, server>>

(* a peer's NodeInfo: the version moves, no section does *)
PutNode(p) ==
    /\ Bump
    /\ UNCHANGED sections

\* mutant: put_many forgets the node and replaces its sections
PutManyReplaces(p, xs) ==
    /\ Bump
    /\ sections' = [sections EXCEPT ![Local] = [x \in Sections |->
                       IF x \in xs THEN version' ELSE 0]]

(* a peer's sections; those it no longer reports stay *)
PutMany(p, xs) ==
    /\ Bump
    /\ sections' = [sections EXCEPT ![p] = [x \in Sections |->
                       IF x \in xs THEN version' ELSE sections[p][x]]]

(***************************************************************************)
(* The generator of one stream                                             *)
(***************************************************************************)
GoTo(s, p) == phase' = [phase EXCEPT ![s] = p]

(* the finally clause of subscribe() *)
Unsubscribe(s) ==
    /\ subscribers' = subscribers \ {s}
    /\ queue' = [queue EXCEPT ![s] = << >>]
    /\ GoTo(s, "closed")

YieldSnapshot(s) ==
    /\ payload' = [payload EXCEPT ![s] = Snapshot]
    /\ GoTo(s, "yielding")

(* A browser connects: the generator subscribes and, without an await in    *)
(* between, takes the first snapshot.  The sockets are listening until      *)
(* uvicorn's shutdown begins, a little after the signal.                    *)
Open(s) ==
    /\ server \in {"serving", "signalled"}
    /\ phase[s] = "closed"
    /\ connected' = [connected EXCEPT ![s] = TRUE]
    /\ subscribers' = subscribers \cup {s}
    /\ queue' = [queue EXCEPT ![s] = << >>]
    /\ YieldSnapshot(s)
    /\ UNCHANGED <<version, sections, view, server>>

(* The transport takes the yielded text and a connected browser gets it.    *)
(* The first snapshot goes straight to the loop; after a later one a ping   *)
(* may be due (SSE_PING_SECONDS is not modelled, only that it may).         *)
Send(s) ==
    /\ connected[s]
    /\ \/ /\ phase[s] = "yielding"
          /\ view' = [view EXCEPT ![s] = payload[s]]
          /\ payload' = [payload EXCEPT ![s] = NoView]
          /\ \/ GoTo(s, "looping")
             \/ GoTo(s, "pinging")
       \/ /\ phase[s] = "pinging"
          /\ GoTo(s, "looping")
          /\ UNCHANGED <<view, payload>>
    /\ UNCHANGED <<version, sections, subscribers, queue, connected, server>>

\* mutant: the loop does not look at shutting_down
LoopIgnoresShutdown(s) ==
    /\ phase[s] = "looping"
    /\ IF ~connected[s]
       THEN Unsubscribe(s)
       ELSE GoTo(s, "waiting") /\ UNCHANGED <<subscribers, queue>>
    /\ UNCHANGED <<version, sections, payload, view, connected, server>>

(* top of the loop: return on shutdown, return when disconnected, else wait *)
Loop(s) ==
    /\ phase[s] = "looping"
    /\ IF ShuttingDown \/ ~connected[s]
       THEN Unsubscribe(s)
       ELSE GoTo(s, "waiting") /\ UNCHANGED <<subscribers, queue>>
    /\ UNCHANGED <<version, sections, payload, view, connected, server>>

(* queue.get() returns an item.  Under Python 3.11 wait_for runs get() in a *)
(* task of its own, so writes may come before the generator runs again;     *)
(* under 3.12 the next step follows at once, which this allows too.         *)
Receive(s) ==
    /\ phase[s] = "waiting"
    /\ queue[s] # << >>
    /\ queue' = [queue EXCEPT ![s] = Tail(@)]
    /\ GoTo(s, "woken")
    /\ UNCHANGED <<version, sections, subscribers, payload, view, connected, server>>

Emit(s) ==
    /\ phase[s] = "woken"
    /\ YieldSnapshot(s)
    /\ UNCHANGED <<version, sections, subscribers, queue, view, connected, server>>

\* mutant: giving up loses an item that get() has already taken
TimeoutLosesItem(s) ==
    /\ phase[s] = "waiting"
    /\ queue' = [queue EXCEPT ![s] = << >>]
    /\ GoTo(s, "looping")
    /\ UNCHANGED <<version, sections, subscribers, payload, view, connected, server>>

(* wait_for gives up after a second without an item; get() returns an item  *)
(* that is there at once, and one put while wait_for gives up stays.        *)
Timeout(s) ==
    /\ phase[s] = "waiting"
    /\ queue[s] = << >>
    /\ \/ GoTo(s, "looping")
       \/ GoTo(s, "pinging")
    /\ UNCHANGED <<version, sections, subscribers, queue, payload, view, connected, server>>

(***************************************************************************)
(* The browser, the HTTP framework and the server                          *)
(***************************************************************************)
Disconnect(s) ==
    /\ phase[s] # "closed"
    /\ connected[s]
    /\ connected' = [connected EXCEPT ![s] = FALSE]
    /\ UNCHANGED <<version, sections, subscribers, queue, phase, payload, view, server>>

(* The framework cancels the response's task, of a browser that left or of  *)
(* one that outlived the graceful shutdown.  Inside the generator the       *)
(* cancellation runs its finally; at a yield it leaves the generator        *)
(* suspended, subscribed, until the loop finalises it.                      *)
Abort(s) ==
    /\ ~connected[s] \/ server \in {"expired", "stopped"}
    /\ \/ /\ phase[s] \in {"waiting", "woken", "looping"}
          /\ Unsubscribe(s)
       \/ /\ phase[s] \in {"yielding", "pinging"}
          /\ GoTo(s, "abandoned")
          /\ UNCHANGED <<subscribers, queue>>
    /\ payload' = [payload EXCEPT ![s] = NoView]
    /\ UNCHANGED <<version, sections, view, connected, server>>

Finalise(s) ==
    /\ phase[s] = "abandoned"
    /\ Unsubscribe(s)
    /\ UNCHANGED <<version, sections, payload, view, connected, server>>

(* SIGTERM or SIGINT: the chained handler sets shutting_down first *)
Signal ==
    /\ server = "serving"
    /\ server' = "signalled"
    /\ UNCHANGED <<store, streams>>

(* uvicorn's main loop notices the signal and closes the sockets *)
StopListening ==
    /\ server = "signalled"
    /\ server' = "draining"
    /\ UNCHANGED <<store, streams>>

\* mutant: no timeout_graceful_shutdown, the server waits for its responses
DrainTimeoutWaits ==
    /\ server = "draining"
    /\ \A s \in Streams : phase[s] \in {"closed", "abandoned"}
    /\ server' = "expired"
    /\ UNCHANGED <<store, streams>>

(* timeout_graceful_shutdown: the remaining responses are cancelled *)
DrainTimeout ==
    /\ server = "draining"
    /\ server' = "expired"
    /\ UNCHANGED <<store, streams>>

(* the lifespan's shutdown: poller.stop(), history.close() *)
Stop ==
    /\ \/ /\ server = "draining"
          /\ \A s \in Streams : phase[s] \in {"closed", "abandoned"}
       \/ server = "expired"
    /\ server' = "stopped"
    /\ UNCHANGED <<store, streams>>

-----------------------------------------------------------------------------
Init ==
    /\ version = 0
    /\ sections = [n \in Nodes |-> NoStamps]
    /\ subscribers = {}
    /\ queue = [s \in Streams |-> << >>]
    /\ phase = [s \in Streams |-> "closed"]
    /\ payload = [s \in Streams |-> NoView]
    /\ view = [s \in Streams |-> NoView]
    /\ connected = [s \in Streams |-> FALSE]
    /\ server = "serving"

Write ==
    \/ \E x \in Sections : Put(x)
    \/ \E p \in Peers : PutNode(p)
    \/ \E p \in Peers, xs \in SUBSET Sections : PutMany(p, xs)

Generator(s) == Loop(s) \/ Receive(s) \/ Emit(s) \/ Timeout(s)

Framework(s) == Abort(s) \/ Finalise(s)

Lifecycle == Signal \/ StopListening \/ DrainTimeout \/ Stop

Next ==
    \/ Write
    \/ \E s \in Streams : \/ Open(s) \/ Send(s) \/ Disconnect(s)
                          \/ Generator(s) \/ Framework(s)
    \/ Lifecycle

Spec == Init /\ [][Next]_vars

(* Fairness.  The event loop runs every task that can run, and uvicorn its  *)
(* main loop.  Nothing is assumed of when a browser connects or leaves, of  *)
(* the signal, or of how often anything is written; what a liveness         *)
(* property needs besides is its premise: browsers that read, or the        *)
(* graceful-shutdown timeout.                                               *)
RunningLoop ==
    /\ \A s \in Streams : WF_vars(Generator(s)) /\ WF_vars(Framework(s))
    /\ WF_vars(StopListening)
ReadingClients == \A s \in Streams : WF_vars(Send(s))
Patience == WF_vars(DrainTimeout) /\ WF_vars(Stop)

FairSpec == Spec /\ RunningLoop

-----------------------------------------------------------------------------
TypeOK ==
    /\ version \in 0..MaxVersion
    /\ sections \in [Nodes -> Stamps]
    /\ subscribers \subseteq Streams
    /\ queue \in [Streams -> Queues]
    /\ phase \in [Streams -> Phase]
    /\ payload \in [Streams -> Snapshots]
    /\ view \in [Streams -> Snapshots]
    /\ connected \in [Streams -> BOOLEAN]
    /\ server \in Server

(* However a stream ends (shutdown, disconnection, cancellation inside the  *)
(* generator or at a yield), its queue leaves the set of subscribers, and   *)
(* no stream that is still open loses its own (subscribe, store.py:77-84).  *)
NoSubscriberLeak == subscribers = {s \in Streams : phase[s] # "closed"}

(* A subscriber's queue never holds anything but the newest version: the    *)
(* oldest item is dropped, not the newest (_notify, store.py:49-59).        *)
QueueHoldsNewest ==
    \A s \in Streams : queue[s] # << >> => queue[s] = <<version>>

(* No lost update: a browser whose stream waits with an empty queue has     *)
(* already received the sections as they are now.  No write can slip        *)
(* between subscribing and the first snapshot, between taking an item from  *)
(* the queue and taking the snapshot, or into a dropped item.               *)
IdleClientIsCurrent ==
    \A s \in Streams :
        phase[s] = "waiting" /\ queue[s] = << >> => view[s] = Snapshot

(* A browser never sees the store go back: not over one connection, and not *)
(* over a reconnection, in the version or in any section's stamp.           *)
NotOlder(old, new) ==
    /\ old.version <= new.version
    /\ \A x \in Sections : old.sections[x] <= new.sections[x]
ViewNeverGoesBack == [][\A s \in Streams : NotOlder(view[s], view'[s])]_vars

(* The inductive invariant behind these: what a stream shows or is about to *)
(* show is the newest snapshot or its queue still holds the reminder that   *)
(* it is not, and what is shown, what is being yielded and what is stored   *)
(* are in this order of age.                                                *)
Reminded(s) ==
    /\ phase[s] = "yielding" => payload[s] = Snapshot \/ queue[s] # << >>
    /\ phase[s] \in {"pinging", "looping", "waiting"} => view[s] = Snapshot \/ queue[s] # << >>
InOrder(s) ==
    /\ NotOlder(view[s], Snapshot)
    /\ phase[s] = "yielding" => /\ NotOlder(view[s], payload[s])
                                /\ NotOlder(payload[s], Snapshot)
StreamInv ==
    /\ NoSubscriberLeak
    /\ QueueHoldsNewest
    /\ \A s \in Streams : queue[s] # << >> => s \in subscribers
    /\ \A s \in Streams : Reminded(s)
    /\ \A s \in Streams : InOrder(s)
    /\ \A n \in Nodes, x \in Sections : sections[n][x] <= version

(* Every write reaches every browser that stays: once v is written, a       *)
(* stream that is open shows v or something newer, unless its browser       *)
(* leaves or the server is told to stop.                                    *)
EveryWriteIsShown == ReadingClients =>
    \A s \in Streams : \A v \in 1..MaxVersion :
        (phase[s] # "closed" /\ version >= v
            ~> view[s].version >= v \/ ~connected[s] \/ ShuttingDown)

(* After a stop signal every stream to a browser that reads ends by itself, *)
(* without the graceful-shutdown timeout (routes.py:151-154, main.py:40-52) *)
StreamsEndPromptly ==
    ReadingClients => (ShuttingDown ~> \A s \in Streams : phase[s] = "closed")

(* A browser that never reads cannot hold the server open either: the       *)
(* timeout cancels its stream and the server stops (cli.py:51-54).          *)
ServerStopsAnyway ==
    Patience =>
        (ShuttingDown ~> server = "stopped" /\ \A s \in Streams : phase[s] = "closed")

(* The streams implement the feed.                                          *)
Feed == INSTANCE LatestValueFeed WITH
            Readers <- Streams,
            seen    <- [s \in Streams |-> view[s].version],
            resting <- {s \in Streams : phase[s] = "waiting" /\ queue[s] = << >>}
ImplementsFeed == Feed!Spec

=============================================================================
