------------------------------- MODULE NodeView -------------------------------
(***************************************************************************)
(* A browser on an aggregating instance: the poller's view of the peers    *)
(* (Federation), what the browser makes of it (BrowserStream), and the     *)
(* service between them, which may restart, with a new token perhaps.      *)
(***************************************************************************)
EXTENDS Federation

CONSTANTS MaxEffects, MaxPolls

ASSUME BrowserAssumption == MaxEffects \in Nat \ {0} /\ MaxPolls \in Nat \ {0}

VARIABLES selected, effect, stream, poll, shown, conn, arrived,
          locked,   \* the running service asks for a token the browser does not have
          leaked    \* history: an EventSource was opened for an effect that had ended

(* The service as the browser meets it *)
Server == CASE stopping            -> "down"
            [] ~stopping /\ locked  -> "locked"
            [] ~stopping /\ ~locked -> "up"

Browser == INSTANCE BrowserStream WITH Remotes <- Peers, served <- Served, server <- Server

browserVars == <<selected, effect, stream, poll, shown, conn, arrived>>

viewVars == <<federationVars, browserVars, locked, leaked>>

ViewInit ==
    /\ FederationInit
    /\ Browser!BrowserInit
    /\ locked = FALSE
    /\ leaked = FALSE

PollerStep ==
    /\ \E p \in Peers : RemoteLoop(p) \/ Replies(p) \/ PeerChanges(p)
    /\ UNCHANGED <<browserVars, locked, leaked>>

ServiceStops == PollerStops /\ Browser!Severed /\ UNCHANGED <<locked, leaked>>

(* The token is read once, at the start *)
ServiceStarts ==
    /\ PollerStarts
    /\ locked' \in BOOLEAN
    /\ UNCHANGED <<browserVars, leaked>>

BrowserStep ==
    /\ Browser!BrowserNext
    /\ leaked' = (leaked \/ \E k \in Browser!Effects : stream'[k] = "open" /\ k # effect')
    /\ UNCHANGED <<federationVars, locked>>

ViewNext == PollerStep \/ ServiceStops \/ ServiceStarts \/ BrowserStep

ViewSpec == ViewInit /\ [][ViewNext]_viewVars

-----------------------------------------------------------------------------
(* The event loop of the service and the browser's run what can run, and a  *)
(* peer that is up answers.  Nothing says that peers come up, that anyone   *)
(* starts the service, or that the user does anything.                      *)
Alone(A) == A /\ UNCHANGED <<browserVars, locked, leaked>>

BrowserAlone(A) ==
    /\ A
    /\ leaked' = (leaked \/ \E k \in Browser!Effects : stream'[k] = "open" /\ k # effect')
    /\ UNCHANGED <<federationVars, locked>>

ViewFairness ==
    /\ \A p \in Peers : WF_viewVars(Alone(RemoteLoop(p))) /\ WF_viewVars(Alone(Replies(p)))
    /\ \A k \in 1..MaxEffects : WF_viewVars(BrowserAlone(Browser!StreamStep(k)))
    /\ \A i \in 1..MaxPolls : WF_viewVars(BrowserAlone(Browser!PollStep(i)))

FairViewSpec == ViewSpec /\ ViewFairness

-----------------------------------------------------------------------------
(* The values the variables range over. *)
ViewTypeOK ==
    /\ FederationType
    /\ Browser!BrowserType
    /\ locked \in BOOLEAN
    /\ leaked \in BOOLEAN

(* Once the effect of a selection has set the snapshot, the page shows the   *)
(* selected node and no other, whatever late answers, errors and restarts    *)
(* come (stream.tsx: closed, cancelled), unless an EventSource was opened    *)
(* for a selection that had ended: connect() does not look at closed after   *)
(* it has waited for its ticket, and that EventSource is never closed.       *)
ShownIsSelected == arrived /\ ~leaked => shown.node = selected

(* While the service runs, what the store holds of a peer never becomes      *)
(* older, and a peer that cannot be reached keeps its last known sections    *)
(* (_poll_remote, SnapshotStore.put_node and put_many).                      *)
PeerDataIsMonotone == [][restarts' = restarts => \A p \in Peers : data'[p] >= data[p]]_viewVars

(* If the service stays up, connections last and the local node stays        *)
(* selected, the page is live again and again, or it stays with the demand   *)
(* for a token, which only the user ends (schedule, and the 401 branch that  *)
(* schedules nothing).                                                       *)
LocalViewRecovers ==
    <>[](Server = "up" /\ selected = "local" /\ ~\E k \in 1..MaxEffects : stream[k] = "broken") =>
        \/ []<>(conn = "live" /\ shown.node = "local")
        \/ <>[](conn = "unauthorized")

(* What a reachable peer says last is shown to a browser that selects it,    *)
(* through the aggregator's poll and the browser's, as long as the peer's    *)
(* loop has not died: nothing restarts one that has.                         *)
PeerDataReachesBrowser ==
    \A p \in Peers :
        <>[](Server = "up" /\ selected = p /\ peer[p] = "up" /\ loop[p] # "dead") =>
            []<>(shown = [node |-> p, data |-> current[p]])

(* A peer that stays out of reach is reported as unreachable                 *)
(* (docs/architecture.md: "never an exception").                             *)
UnreachableIsReported ==
    \A p \in Peers : <>[](peer[p] = "down" /\ ~stopping) => <>[](info[p] = "unreachable")

=============================================================================
