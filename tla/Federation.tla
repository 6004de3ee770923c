------------------------------ MODULE Federation ------------------------------
(***************************************************************************)
(* The peers of an aggregating instance: one _remote_loop per configured   *)
(* node, which polls the peer's /api/snapshot and writes what it learns to *)
(* the store (poller.py), under the peer's id.  put_node and put_many meet *)
(* no await that suspends: one poll's writes are one step.  The store is   *)
(* in memory: a restart of the service begins with nothing.                *)
(***************************************************************************)
EXTENDS Integers

CONSTANTS Peers,       \* Settings.nodes
          Faults,      \* what may be wrong with a peer besides being down
          MaxData,     \* bound on the states a peer is ever in
          MaxRestarts  \* bound on the restarts of the service

ASSUME FederationAssumption ==
    Faults \subseteq {"garbled", "sealed"} /\ MaxData \in Nat \ {0} /\ MaxRestarts \in Nat

Missing == -1

VARIABLES peer,      \* "up", "down", "garbled" (it answers what is no snapshot) or
                     \* "sealed" (the token file kept for it cannot be read)
          current,   \* the peer's own data, numbered by age
          loop,      \* its _remote_loop: "interval", "asked", "answered", "ended" or "dead"
          reply,     \* the answer it has received
          info,      \* the store's NodeInfo: "unknown", "reachable" or "unreachable"
          data,      \* the store's sections of the peer, 0 = none
          stopping,  \* Poller._stopping: the service is stopping or stopped
          restarts

federationVars == <<peer, current, loop, reply, info, data, stopping, restarts>>

(* What GET /api/snapshot?node=p finds; a 404 before the first poll has ended *)
Served == [p \in Peers |-> IF info[p] = "unknown" THEN Missing ELSE data[p]]

(* resolve_token raises when the file it is to read cannot be read *)
ResolvesToken(p) == peer[p] # "sealed"

(* resolve_token comes before the try: what it raises ends the task *)
Poll(p) ==
    /\ loop[p] = "interval"
    /\ loop' = [loop EXCEPT ![p] = IF ResolvesToken(p) THEN "asked" ELSE "dead"]
    /\ UNCHANGED <<peer, current, reply, info, data, stopping, restarts>>

Replies(p) ==
    /\ loop[p] = "asked"
    /\ peer[p] \in {"up", "garbled"}
    /\ loop' = [loop EXCEPT ![p] = "answered"]
    /\ reply' = [reply EXCEPT ![p] = IF peer[p] = "up" THEN current[p] ELSE Missing]
    /\ UNCHANGED <<peer, current, info, data, stopping, restarts>>

\* mutant: what the peer answered is stored as it came
StoreAnything(p) ==
    /\ loop[p] = "answered"
    /\ info' = [info EXCEPT ![p] = "reachable"]
    /\ data' = [data EXCEPT ![p] = reply[p]]
    /\ loop' = [loop EXCEPT ![p] = "interval"]
    /\ reply' = [reply EXCEPT ![p] = Missing]
    /\ UNCHANGED <<peer, current, stopping, restarts>>

Store(p) ==
    /\ loop[p] = "answered"
    /\ reply[p] # Missing
    /\ info' = [info EXCEPT ![p] = "reachable"]
    /\ data' = [data EXCEPT ![p] = reply[p]]
    /\ loop' = [loop EXCEPT ![p] = "interval"]
    /\ reply' = [reply EXCEPT ![p] = Missing]
    /\ UNCHANGED <<peer, current, stopping, restarts>>

(* building the Envelopes comes after the try: what they refuse ends the task *)
Choke(p) ==
    /\ loop[p] = "answered"
    /\ reply[p] = Missing
    /\ loop' = [loop EXCEPT ![p] = "dead"]
    /\ UNCHANGED <<peer, current, reply, info, data, stopping, restarts>>

\* mutant: a poll that fails forgets what the peer said last
FailClears(p) ==
    /\ loop[p] = "asked"
    /\ peer[p] # "up"
    /\ info' = [info EXCEPT ![p] = "unreachable"]
    /\ data' = [data EXCEPT ![p] = 0]
    /\ loop' = [loop EXCEPT ![p] = "interval"]
    /\ UNCHANGED <<peer, current, reply, stopping, restarts>>

\* mutant: a poll that fails ends the loop
FailEnds(p) ==
    /\ loop[p] = "asked"
    /\ peer[p] # "up"
    /\ info' = [info EXCEPT ![p] = "unreachable"]
    /\ loop' = [loop EXCEPT ![p] = "ended"]
    /\ UNCHANGED <<peer, current, reply, data, stopping, restarts>>

(* refused, reset, an HTTP error, no JSON, or ten seconds without an answer: *)
(* the sections stay as they were                                            *)
Fail(p) ==
    /\ loop[p] = "asked"
    /\ peer[p] # "up"
    /\ info' = [info EXCEPT ![p] = "unreachable"]
    /\ loop' = [loop EXCEPT ![p] = "interval"]
    /\ UNCHANGED <<peer, current, reply, data, stopping, restarts>>

PollerStops ==
    /\ ~stopping
    /\ restarts < MaxRestarts
    /\ stopping' = TRUE
    /\ loop' = [p \in Peers |-> "ended"]
    /\ reply' = [p \in Peers |-> Missing]
    /\ UNCHANGED <<peer, current, info, data, restarts>>

PollerStarts ==
    /\ stopping
    /\ stopping' = FALSE
    /\ restarts' = restarts + 1
    /\ loop' = [p \in Peers |-> "interval"]
    /\ info' = [p \in Peers |-> "unknown"]
    /\ data' = [p \in Peers |-> 0]
    /\ UNCHANGED <<peer, current, reply>>

(* External: the machine of the peer *)
PeerChanges(p) ==
    /\ \/ /\ peer' \in {[peer EXCEPT ![p] = x] : x \in {"up", "down"} \cup Faults}
          /\ UNCHANGED current
       \/ /\ current[p] < MaxData
          /\ current' = [current EXCEPT ![p] = @ + 1]
          /\ UNCHANGED peer
    /\ UNCHANGED <<loop, reply, info, data, stopping, restarts>>

FederationInit ==
    /\ peer = [p \in Peers |-> "up"]
    /\ current = [p \in Peers |-> 1]
    /\ loop = [p \in Peers |-> "interval"]
    /\ reply = [p \in Peers |-> Missing]
    /\ info = [p \in Peers |-> "unknown"]
    /\ data = [p \in Peers |-> 0]
    /\ stopping = FALSE
    /\ restarts = 0

RemoteLoop(p) == Poll(p) \/ Store(p) \/ Choke(p) \/ Fail(p)

FederationNext ==
    \/ \E p \in Peers : RemoteLoop(p) \/ Replies(p) \/ PeerChanges(p)
    \/ PollerStops
    \/ PollerStarts

FederationType ==
    /\ peer \in [Peers -> {"up", "down", "garbled", "sealed"}]
    /\ current \in [Peers -> 1..MaxData]
    /\ loop \in [Peers -> {"interval", "asked", "answered", "ended", "dead"}]
    /\ reply \in [Peers -> {Missing} \cup 1..MaxData]
    /\ info \in [Peers -> {"unknown", "reachable", "unreachable"}]
    /\ data \in [Peers -> 0..MaxData]
    /\ stopping \in BOOLEAN
    /\ restarts \in 0..MaxRestarts

=============================================================================
