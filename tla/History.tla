------------------------------- MODULE History -------------------------------
(***************************************************************************)
(* The history (history.py), with what calls it: the poller's records on   *)
(* the event loop, its prune loop, whose work is done in a thread, and the *)
(* application that closes it (poller.py, main.py).                        *)
(*                                                                         *)
(* The metrics of all collectors share one table.  A row is its metric and *)
(* its age in ticks of the clock; of the rows that left the window, which  *)
(* no chart shows and the next prune deletes, only the number matters.     *)
(* The file is as large as the most rows it ever held: SQLite reuses the   *)
(* pages of deleted rows and, with WAL set before auto_vacuum,             *)
(* incremental_vacuum returns none.                                        *)
(***************************************************************************)
EXTENDS Integers, FiniteSets

CONSTANTS Recorders,  \* those that are recorded, each the set of its metrics
          Window,      \* window_seconds
          PruneEvery,  \* the wait of the prune loop
          PruneLate,   \* how much later a thread may come to it
          Ceiling,     \* max_bytes
          MaxStarts    \* bound on the starts of the service

ASSUME HistoryAssumption ==
    /\ IsFiniteSet(UNION Recorders)
    /\ Window \in Nat \ {0} /\ PruneEvery \in Nat \ {0} /\ PruneLate \in Nat
    /\ Ceiling \in Nat /\ MaxStarts \in Nat \ {0}

VARIABLES rows,      \* <<metric, age>>: the committed rows of the window
          expired,   \* how many rows of the table have left it
          fileSize,  \* size of the database file, in rows
          samples,   \* <<metric, age>>: what was recorded in the window; no code reads it
          recorded,  \* the metrics of the collectors recorded in this tick
          pruner,    \* what the prune loop, or its thread holding the lock, does next
          waited,    \* how long the prune loop has waited
          service,   \* "up", "down"
          starts     \* how often the service was started

historyVars == <<rows, expired, fileSize, samples, recorded, pruner, waited, service, starts>>

Metrics == UNION Recorders
Ages    == 0..Window

(* what series(metric) returns for the window *)
Series(metric) == {r \in rows : r[1] = metric}

TableSize == Cardinality(rows) + expired

OneTickOlder(table)   == {<<r[1], r[2] + 1>> : r \in {q \in table : q[2] < Window}}
Leaving(table) == {r \in table : r[2] = Window}

Locked == pruner # "waiting"

(***************************************************************************)
(* The store                                                               *)
(***************************************************************************)
(* record_many: the values a collector has, in one insert and its commit *)
Record(collector) ==
    /\ service = "up" /\ ~Locked
    /\ collector \cap recorded = {}
    /\ \E metrics \in (SUBSET collector) \ {{}} :
          /\ rows' = rows \cup (metrics \X {0})
          /\ samples' = samples \cup (metrics \X {0})
    /\ recorded' = recorded \cup collector
    /\ UNCHANGED <<expired, pruner, waited, service, starts>>
    /\ fileSize' = IF TableSize' > fileSize THEN TableSize' ELSE fileSize

(* the lock is taken once the wait is over and a thread is free *)
PruneBegins ==
    /\ service = "up" /\ ~Locked
    /\ waited >= PruneEvery
    /\ pruner' = "deleting"
    /\ UNCHANGED <<rows, expired, fileSize, samples, recorded, waited, service, starts>>

\* mutant: the wait begins one tick late
PruneEndsLate == pruner' = "waiting" /\ waited' = -1

PruneEnds == pruner' = "waiting" /\ waited' = 0

\* mutant: one row at a time
DeleteOldOne ==
    /\ pruner = "deleting"
    /\ expired' = IF expired = 0 THEN 0 ELSE expired - 1
    /\ IF fileSize > Ceiling THEN pruner' = "halving" /\ UNCHANGED waited ELSE PruneEnds
    /\ UNCHANGED <<rows, fileSize, samples, recorded, service, starts>>

(* the rows that left the window; the commit; the look at the file *)
DeleteOld ==
    /\ pruner = "deleting"
    /\ expired' = 0
    /\ IF fileSize > Ceiling THEN pruner' = "halving" /\ UNCHANGED waited ELSE PruneEnds
    /\ UNCHANGED <<rows, fileSize, samples, recorded, service, starts>>

\* mutant: the half is rounded up
OldestHalfUp(n) == (n + 1) \div 2

(* the LIMIT of the second DELETE *)
OldestHalf(n) == n \div 2

(* over the ceiling: the oldest half of what remains, of rows of one age any; *)
(* the vacuum has no effect                                                  *)
DeleteHalf ==
    /\ pruner = "halving"
    /\ \E oldest \in SUBSET rows :
          /\ Cardinality(oldest) = OldestHalf(Cardinality(rows))
          /\ \A r \in oldest, q \in rows \ oldest : r[2] >= q[2]
          /\ rows' = rows \ oldest
    /\ PruneEnds
    /\ UNCHANGED <<expired, fileSize, samples, recorded, service, starts>>

(***************************************************************************)
(* The service around it                                                   *)
(***************************************************************************)
(* close() waits for the lock.  A prune still waiting for its thread fails  *)
(* on the closed connection.                                                *)
Close ==
    /\ service = "up" /\ ~Locked
    /\ service' = "down"
    /\ UNCHANGED <<rows, expired, fileSize, samples, recorded, pruner, waited, starts>>

(* what is committed stays *)
Crash ==
    /\ service = "up"
    /\ service' = "down"
    /\ pruner' = "waiting"
    /\ UNCHANGED <<rows, expired, fileSize, samples, recorded, waited, starts>>

(* the prune loop of a new process begins with a whole wait *)
Start ==
    /\ service = "down" /\ starts < MaxStarts
    /\ service' = "up"
    /\ starts' = starts + 1
    /\ waited' = 0
    /\ UNCHANGED <<rows, expired, fileSize, samples, recorded, pruner>>

(* a prune is over within its tick and not later than PruneLate *)
HistoryTick ==
    /\ ~Locked
    /\ service = "up" => waited < PruneEvery + PruneLate
    /\ waited' = IF service = "up" THEN waited + 1 ELSE 0
    /\ rows' = OneTickOlder(rows)
    /\ expired' = expired + Cardinality(Leaving(rows))
    /\ samples' = OneTickOlder(samples)
    /\ recorded' = {}
    /\ UNCHANGED <<fileSize, pruner, service, starts>>

-----------------------------------------------------------------------------
HistoryInit ==
    /\ rows = {} /\ samples = {}
    /\ expired = 0 /\ fileSize = 0
    /\ recorded = {}
    /\ pruner = "waiting" /\ waited = 0
    /\ service = "up" /\ starts = 1

HistoryNext ==
    \/ \E collector \in Recorders : Record(collector)
    \/ PruneBegins \/ DeleteOld \/ DeleteHalf
    \/ Close \/ Crash \/ Start \/ HistoryTick

-----------------------------------------------------------------------------
HistoryType ==
    /\ rows \subseteq Metrics \X Ages /\ samples \subseteq Metrics \X Ages
    /\ expired \in Nat /\ fileSize \in Nat
    /\ recorded \subseteq Metrics
    /\ pruner \in {"waiting", "deleting", "halving"}
    /\ waited \in 0..PruneEvery + PruneLate
    /\ service \in {"up", "down"} /\ starts \in 1..MaxStarts

(* The charts miss nothing but the oldest of all that was recorded in the   *)
(* window: a chart that shows a sample of some age misses nothing newer, and *)
(* no other chart does; they show all of it as long as the file has not      *)
(* passed its ceiling, and of something never nothing, whatever crashes and  *)
(* restarts come between, and however many prunes halve a table whose file   *)
(* does not shrink (history.py:76-90).  One metric's chart may be emptied:   *)
(* the half is of the rows of all.                                           *)
ChartsLoseTheOldest ==
    /\ \A m \in Metrics : Series(m) \subseteq samples
    /\ \A m \in Metrics : \A r \in Series(m) :
          \A s \in samples : s[2] < r[2] => s \in Series(s[1])
    /\ fileSize <= Ceiling => \A s \in samples : s \in Series(s[1])
    /\ samples # {} => \E m \in Metrics : Series(m) # {}

(* The file is bounded by the window and by what the collectors record until *)
(* the next prune, which every restart puts off by a whole wait              *)
(* (poller.py:104-112).                                                      *)
FileIsBounded ==
    fileSize <= Cardinality(Metrics) * (Window + starts * (PruneEvery + PruneLate + 1))

=============================================================================
