--------------------------- MODULE LatestValueFeed ---------------------------
(***************************************************************************)
(* What the live stream promises a browser, whatever the store, the queues *)
(* and the HTTP framework do underneath: the snapshots a reader sees never *)
(* go back, and a reader that is at rest (its stream has nothing left to   *)
(* deliver and waits) has seen the newest one.                             *)
(***************************************************************************)
EXTENDS Integers

CONSTANTS Readers, MaxVersion

VARIABLES version,  \* the newest published version
          seen,     \* the version each reader saw last
          resting   \* the readers whose stream waits for the next publication

vars == <<version, seen, resting>>

Init ==
    /\ version = 0
    /\ seen = [r \in Readers |-> 0]
    /\ resting = {}

(* a publication wakes every resting reader *)
Publish ==
    /\ version < MaxVersion
    /\ version' = version + 1
    /\ resting' = {}
    /\ UNCHANGED seen

(* intermediate versions may be skipped, none is shown after a newer one *)
Deliver(r) ==
    /\ r \notin resting
    /\ \E v \in seen[r]..version : seen' = [seen EXCEPT ![r] = v]
    /\ UNCHANGED <<version, resting>>

Rest(r) ==
    /\ seen[r] = version
    /\ resting' = resting \cup {r}
    /\ UNCHANGED <<version, seen>>

Stir(r) ==
    /\ resting' = resting \ {r}
    /\ UNCHANGED <<version, seen>>

Next == Publish \/ \E r \in Readers : Deliver(r) \/ Rest(r) \/ Stir(r)

Spec == Init /\ [][Next]_vars

=============================================================================
