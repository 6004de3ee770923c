---------------------------- MODULE BrowserStream ----------------------------
(***************************************************************************)
(* The browser's one data source (StreamProvider, web/src/api/stream.tsx): *)
(* an EventSource while the local node is selected, a REST poll every five *)
(* seconds while a peer is.  A selection or a reconnect ends the running   *)
(* effect and starts the next.  Effects are numbered; the code's `closed`  *)
(* and `cancelled` say that a later one runs.  The order of snapshots on   *)
(* one EventSource is SnapshotStream's subject: here every event of the    *)
(* local node is alike.  "connecting" and "retrying", which differ by the  *)
(* attempt count alone, are one state, and the backoff delays are free.    *)
(***************************************************************************)
EXTENDS Integers

CONSTANTS Remotes,     \* the ids of the peers
          MaxEffects,  \* bound on the selections and reconnects
          MaxPolls     \* bound on the polls in flight

VARIABLES served,    \* what /api/snapshot?node= finds for each peer, -1 = 404
          server,    \* the service for this browser: "up", "down" or "locked" (it asks
                     \* for a token the browser does not have)
          selected,  \* nodeId
          effect,    \* the number of the running effect
          stream,    \* effect -> its connect(): "none", "ticket" (awaits streamUrl), "open"
                     \* (its EventSource exists), "broken", "backoff" or "gone"
          poll,      \* slot -> a REST poll in flight
          shown,     \* snapshot, the node it is of and its data
          conn,      \* "waiting", "live" or "unauthorized"
          arrived    \* history: the running effect has set the snapshot

browserVars == <<selected, effect, stream, poll, shown, conn, arrived>>

Effects == 1..MaxEffects
Slots   == 1..MaxPolls
Pending == -3
Failure == -2  \* request throws: an answer that is no 2xx, or none
NoPoll  == [effect |-> 0, node |-> "local", reply |-> Pending]

Closed(k) == k # effect
Set(k, s) == stream' = [stream EXCEPT ![k] = s]

(***************************************************************************)
(* Effects                                                                 *)
(***************************************************************************)
(* The cleanup closes an EventSource that exists and clears a timer; a      *)
(* connect() that awaits its ticket goes on.                                *)
Cleanup == [k \in Effects |-> IF k = effect /\ stream[k] \in {"open", "broken", "backoff"}
                              THEN "gone" ELSE stream[k]]

(* setNodeId, or reconnect() when the node stays *)
Switch(n) ==
    /\ effect < MaxEffects
    /\ selected' = n
    /\ effect' = effect + 1
    /\ arrived' = FALSE
    /\ IF n = "local"
       THEN stream' = [Cleanup EXCEPT ![effect + 1] = "ticket"] /\ conn' = "waiting"
       ELSE stream' = Cleanup /\ UNCHANGED conn
    /\ UNCHANGED <<poll, shown>>

(***************************************************************************)
(* The local node                                                          *)
(***************************************************************************)
Schedule(k) ==
    IF Closed(k) THEN Set(k, "gone") /\ UNCHANGED conn
    ELSE Set(k, "backoff") /\ conn' = "waiting"

(* streamUrl answers or throws; connect() does not look at closed again *)
TicketAnswers(k) ==
    /\ stream[k] = "ticket"
    /\ \/ server = "up" /\ Set(k, "open") /\ UNCHANGED conn
       \/ server = "locked" /\ Set(k, "gone") /\ conn' = "unauthorized"
       \/ server = "down" /\ Schedule(k)
    /\ UNCHANGED <<selected, effect, poll, shown, arrived>>

Event(k) ==
    /\ stream[k] = "open"
    /\ shown' = [node |-> "local", data |-> 0]
    /\ conn' = "live"
    /\ arrived' = (arrived \/ ~Closed(k))
    /\ UNCHANGED <<selected, effect, stream, poll>>

\* mutant: an EventSource that breaks is not opened again
BreaksForGood(k) ==
    /\ stream[k] = "broken"
    /\ Set(k, "gone")
    /\ conn' = "waiting"
    /\ UNCHANGED <<selected, effect, poll, shown, arrived>>

(* onerror *)
Breaks(k) ==
    /\ stream[k] = "broken"
    /\ Schedule(k)
    /\ UNCHANGED <<selected, effect, poll, shown, arrived>>

Retry(k) ==
    /\ stream[k] = "backoff"
    /\ Set(k, "ticket")
    /\ conn' = "waiting"
    /\ UNCHANGED <<selected, effect, poll, shown, arrived>>

(***************************************************************************)
(* A peer                                                                  *)
(***************************************************************************)
(* poll() at once and then every interval, whether or not the last answered *)
SendPoll(i) ==
    /\ selected # "local"
    /\ poll[i] = NoPoll
    /\ poll' = [poll EXCEPT ![i] = [effect |-> effect, node |-> selected, reply |-> Pending]]
    /\ UNCHANGED <<selected, effect, stream, shown, conn, arrived>>

Serve(i) ==
    /\ poll[i] # NoPoll
    /\ poll[i].reply = Pending
    /\ poll' = [poll EXCEPT ![i].reply =
           IF server = "up" /\ served[poll[i].node] >= 0 THEN served[poll[i].node] ELSE Failure]
    /\ UNCHANGED <<selected, effect, stream, shown, conn, arrived>>

\* mutant: the answer to an effect that has ended is shown all the same
PollAnswersAnyway(i) ==
    /\ poll[i].reply # Pending
    /\ poll' = [poll EXCEPT ![i] = NoPoll]
    /\ IF poll[i].reply # Failure
       THEN /\ shown' = [node |-> poll[i].node, data |-> poll[i].reply]
            /\ conn' = "live"
            /\ arrived' = TRUE
       ELSE conn' = "waiting" /\ UNCHANGED <<shown, arrived>>
    /\ UNCHANGED <<selected, effect, stream>>

(* The answers arrive in any order; a cancelled effect's change nothing *)
PollAnswers(i) ==
    /\ poll[i].reply # Pending
    /\ poll' = [poll EXCEPT ![i] = NoPoll]
    /\ \/ Closed(poll[i].effect) /\ UNCHANGED <<shown, conn, arrived>>
       \/ /\ ~Closed(poll[i].effect) /\ poll[i].reply # Failure
          /\ shown' = [node |-> poll[i].node, data |-> poll[i].reply]
          /\ conn' = "live"
          /\ arrived' = TRUE
       \/ /\ ~Closed(poll[i].effect) /\ poll[i].reply = Failure
          /\ conn' = "waiting" /\ UNCHANGED <<shown, arrived>>
    /\ UNCHANGED <<selected, effect, stream>>

(* External: the network loses a connection *)
Drops(k) ==
    /\ stream[k] = "open"
    /\ Set(k, "broken")
    /\ UNCHANGED <<selected, effect, poll, shown, conn, arrived>>

(* External: the service goes away and every connection to it breaks *)
Severed ==
    /\ stream' = [k \in Effects |-> IF stream[k] = "open" THEN "broken" ELSE stream[k]]
    /\ UNCHANGED <<selected, effect, poll, shown, conn, arrived>>

BrowserInit ==
    /\ selected = "local"
    /\ effect = 1
    /\ stream = [k \in Effects |-> IF k = 1 THEN "ticket" ELSE "none"]
    /\ poll = [i \in Slots |-> NoPoll]
    /\ shown = [node |-> "none", data |-> 0]
    /\ conn = "waiting"
    /\ arrived = FALSE

StreamStep(k) == TicketAnswers(k) \/ Event(k) \/ Breaks(k) \/ Retry(k)
PollStep(i)   == SendPoll(i) \/ Serve(i) \/ PollAnswers(i)

BrowserNext ==
    \/ \E n \in Remotes \cup {"local"} : Switch(n)
    \/ \E k \in Effects : StreamStep(k) \/ Drops(k)
    \/ \E i \in Slots : PollStep(i)

BrowserType ==
    /\ selected \in Remotes \cup {"local"}
    /\ effect \in Effects
    /\ stream \in [Effects -> {"none", "ticket", "open", "broken", "backoff", "gone"}]
    /\ poll \in [Slots -> [effect : Effects, node : Remotes, reply : Int] \cup {NoPoll}]
    /\ shown \in [node : Remotes \cup {"local", "none"}, data : Int]
    /\ conn \in {"waiting", "live", "unauthorized"}
    /\ arrived \in BOOLEAN

=============================================================================
