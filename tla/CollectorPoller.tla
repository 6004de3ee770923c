--------------------------- MODULE CollectorPoller ---------------------------
(***************************************************************************)
(* The poller's loops, the collectors' run() and the thread pool they      *)
(* share (poller.py, collectors/base.py, the available() and collect() of  *)
(* the concrete collectors).                                               *)
(*                                                                         *)
(* A collector's blocking work is a job of asyncio.to_thread, which runs   *)
(* in the loop's one default executor: a FIFO of jobs and a fixed number   *)
(* of threads.  wait_for gives up on a job; nothing ends its thread.  The  *)
(* prune of the history, due every five minutes, is a job of the same      *)
(* executor, without a timeout; what it deletes is in History.             *)
(* What a collector reads is abstracted to how its source behaves.         *)
(***************************************************************************)
EXTENDS Integers, Sequences, SequencesExt

CONSTANTS Collectors,
          DependsOn,   \* Collector.depends_on: collector -> set of collectors
          Probing,     \* those whose available() asks the source, in a thread
          Connecting,  \* of those, the ones that ask only until a first answer
                       \* (docker_client.get_client keeps its client)
          Absent,      \* those whose source does not exist on this host
          MayHang,     \* those whose source may be slow or stop answering
          Threads,     \* the threads of the default executor
          MaxRuns      \* runs are numbered up to this, later ones alike

ASSUME PollerAssumption ==
    /\ DependsOn \in [Collectors -> SUBSET Collectors]
    /\ Connecting \subseteq Probing /\ Probing \subseteq Collectors
    /\ Absent \subseteq Probing /\ MayHang \subseteq Collectors
    /\ MaxRuns \in Nat \ {0}
    /\ "history-prune" \notin Collectors

VARIABLES where,        \* what each collector's loop awaits
          job,          \* what has become of the job it awaits
          run,          \* number of its current run
          lastGood,     \* Collector._last_good: the run it comes from, 0 = None
          sticky,       \* Collector._unavailable_reason is set
          opened,       \* the kept client of a Connecting collector exists
          section,      \* SnapshotStore.section: the last envelope
          source,       \* how the source behaves: "up", "down" or "hung"
          pool,         \* thread -> the job it runs, Idle when none
          waiting,      \* the executor's queue
          pruning,      \* the prune loop awaits its interval or its thread, or ended
          stopping,     \* Poller._stopping
          lastOk        \* history: the run of the last ok envelope, 0 = none

vars == <<where, job, run, lastGood, sticky, opened, section, source, pool, waiting,
          pruning, stopping, lastOk>>

Where  == {"dependencies", "interval", "probe", "collect", "ended"}
Job    == {"none", "queued", "running", "ok", "failed"}
Idle   == [owner |-> "nobody", awaited |-> FALSE]
Prune  == "history-prune"
Owners == Collectors \cup {Prune}

(* An envelope: its data is the run it was collected in, 0 = None *)
Envelope(status, data) == [status |-> status, data |-> data]
NoEnvelope == Envelope("none", 0)
Reported(c) == section[c] # NoEnvelope

(***************************************************************************)
(* The thread pool                                                         *)
(***************************************************************************)
Submit(c) == waiting' = Append(waiting, c) /\ job' = [job EXCEPT ![c] = "queued"]

(* Leaving a job: a queued one is cancelled, a running one goes on *)
Leave(o) ==
    /\ \/ o \notin ToSet(waiting) /\ UNCHANGED waiting
       \/ \E i \in DOMAIN waiting : waiting[i] = o /\ waiting' = RemoveAt(waiting, i)
    /\ pool' = [t \in Threads |-> IF pool[t].owner = o THEN [pool[t] EXCEPT !.awaited = FALSE]
                                  ELSE pool[t]]

GiveUp(c) == Leave(c) /\ job' = [job EXCEPT ![c] = "none"]

ThreadTakes(t) ==
    /\ pool[t] = Idle
    /\ waiting # << >>
    /\ pool' = [pool EXCEPT ![t] = [owner |-> Head(waiting), awaited |-> TRUE]]
    /\ job' = [c \in Collectors |-> IF c = Head(waiting) THEN "running" ELSE job[c]]
    /\ waiting' = Tail(waiting)
    /\ UNCHANGED <<where, run, lastGood, sticky, opened, section, source, pruning, stopping,
                   lastOk>>

(* A job may take longer than any timeout when its source is slow, or when   *)
(* slow ones hold every thread; the others are done in time.                 *)
Slow(c) ==
    \/ job[c] = "queued" /\ \A t \in Threads : pool[t].owner \in MayHang
    \/ job[c] = "running" /\ c \in MayHang

(* a probe of a kept client does not ask the source *)
Answers(c) ==
    IF where[c] = "probe" /\ c \in Connecting /\ opened[c] THEN "up" ELSE source[c]

ThreadEnds(t) ==
    /\ pool[t].owner \in Collectors
    /\ LET c == pool[t].owner
       IN IF pool[t].awaited
          THEN /\ Answers(c) # "hung"
               /\ job' = [job EXCEPT ![c] = IF Answers(c) = "up" THEN "ok" ELSE "failed"]
          ELSE source[c] # "hung" /\ UNCHANGED job
    /\ pool' = [pool EXCEPT ![t] = Idle]
    /\ UNCHANGED <<where, run, lastGood, sticky, opened, section, source, waiting, pruning,
                   stopping, lastOk>>

(***************************************************************************)
(* One collector: Poller._loop and Collector.run                           *)
(***************************************************************************)
(* _record: the history takes what it keeps from ok envelopes alone *)
Recorded(c, e) ==
    IF e.status = "ok" THEN [lastOk EXCEPT ![c] = e.data] ELSE lastOk

(* store.put and _record, then the wait for the interval or for the stop *)
Publish(c, e) ==
    /\ section' = [section EXCEPT ![c] = e]
    /\ where' = [where EXCEPT ![c] = IF stopping THEN "ended" ELSE "interval"]
    /\ lastOk' = Recorded(c, e)

\* mutant: a failure without data
FailureBlank(c) == Envelope("error", 0)

(* _failure: the last good payload under an error label *)
Failure(c) == Envelope("error", lastGood[c])

(* _await_dependencies, satisfied by any envelope whatever its status *)
DependenciesReport(c) ==
    /\ where[c] = "dependencies"
    /\ ~stopping
    /\ \A d \in DependsOn[c] : Reported(d)
    /\ where' = [where EXCEPT ![c] = "interval"]
    /\ UNCHANGED <<job, run, lastGood, sticky, opened, section, source, pool, waiting,
                   pruning, stopping, lastOk>>

(* ... or given up after 60 seconds, which the timeouts of a dependency's    *)
(* own run leave only to one that is slow in available()                     *)
DependenciesLimit(c) ==
    /\ where[c] = "dependencies"
    /\ ~stopping
    /\ \E d \in DependsOn[c] : ~Reported(d) /\ where[d] = "probe" /\ Slow(d)
    /\ where' = [where EXCEPT ![c] = "interval"]
    /\ UNCHANGED <<job, run, lastGood, sticky, opened, section, source, pool, waiting,
                   pruning, stopping, lastOk>>

(* run(): a collector once found unavailable never asks its source again *)
Begin(c) ==
    /\ where[c] = "interval"
    /\ ~stopping
    /\ run' = [run EXCEPT ![c] = IF @ < MaxRuns THEN @ + 1 ELSE @]
    /\ IF sticky[c]
       THEN /\ Publish(c, Envelope("unavailable", 0))
            /\ UNCHANGED <<job, waiting>>
       ELSE /\ Submit(c)
            /\ where' = [where EXCEPT ![c] = IF c \in Probing THEN "probe" ELSE "collect"]
            /\ UNCHANGED <<section, lastOk>>
    /\ UNCHANGED <<lastGood, sticky, opened, source, pool, pruning, stopping>>

(* available() answers, with no timeout around it *)
Probed(c) ==
    /\ where[c] = "probe"
    /\ ~stopping
    /\ job[c] \in {"ok", "failed"}
    /\ IF job[c] = "ok"
       THEN /\ Submit(c)
            /\ where' = [where EXCEPT ![c] = "collect"]
            /\ opened' = [opened EXCEPT ![c] = c \in Connecting]
            /\ UNCHANGED <<sticky, section, lastOk>>
       ELSE /\ Publish(c, Envelope("unavailable", 0))
            /\ sticky' = [sticky EXCEPT ![c] = TRUE]
            /\ job' = [job EXCEPT ![c] = "none"]
            /\ UNCHANGED <<opened, waiting>>
    /\ UNCHANGED <<run, lastGood, source, pool, pruning, stopping>>

(* collect() returns or raises in time *)
Collected(c) ==
    /\ where[c] = "collect"
    /\ job[c] \in {"ok", "failed"}
    /\ job' = [job EXCEPT ![c] = "none"]
    /\ IF job[c] = "ok"
       THEN /\ lastGood' = [lastGood EXCEPT ![c] = run[c]]
            /\ Publish(c, Envelope("ok", run[c]))
       ELSE /\ Publish(c, Failure(c))
            /\ UNCHANGED lastGood
    /\ UNCHANGED <<run, sticky, opened, source, pool, waiting, pruning, stopping>>

\* mutant: the timeout runs from the moment a thread takes the job
TimesOutRunning(c) ==
    /\ where[c] = "collect"
    /\ ~stopping
    /\ job[c] = "running" /\ c \in MayHang
    /\ GiveUp(c)
    /\ Publish(c, Failure(c))
    /\ UNCHANGED <<run, lastGood, sticky, opened, source, pruning, stopping>>

(* wait_for gives up on a job, taken by a thread or not *)
TimesOut(c) ==
    /\ where[c] = "collect"
    /\ ~stopping
    /\ Slow(c)
    /\ GiveUp(c)
    /\ Publish(c, Failure(c))
    /\ UNCHANGED <<run, lastGood, sticky, opened, source, pruning, stopping>>

(***************************************************************************)
(* The prune loop                                                          *)
(***************************************************************************)
(* five minutes have passed *)
PruneDue ==
    /\ pruning = "interval"
    /\ ~stopping
    /\ waiting' = Append(waiting, Prune)
    /\ pruning' = "thread"
    /\ UNCHANGED <<where, job, run, lastGood, sticky, opened, section, source, pool, stopping,
                   lastOk>>

\* mutant: a prune that raises ends the loop
AfterPruneRaises(raised) == IF stopping \/ raised THEN "ended" ELSE "interval"

(* what it raises, on a locked or full disk, is suppressed *)
AfterPrune(raised) == IF stopping THEN "ended" ELSE "interval"

PruneThreadEnds(t) ==
    /\ pool[t].owner = Prune
    /\ pool' = [pool EXCEPT ![t] = Idle]
    /\ \E raised \in BOOLEAN :
          pruning' = IF pool[t].awaited THEN AfterPrune(raised) ELSE pruning
    /\ UNCHANGED <<where, job, run, lastGood, sticky, opened, section, source, waiting, stopping,
                   lastOk>>

(* The loop ends at once, its thread goes on and may delete after stop(): the *)
(* history is closed only once it has left the lock (Close of History).      *)
PruneCancelled ==
    /\ stopping
    /\ pruning # "ended"
    /\ Leave(Prune)
    /\ pruning' = "ended"
    /\ UNCHANGED <<where, job, run, lastGood, sticky, opened, section, source, stopping, lastOk>>

PruneLoop == PruneDue \/ PruneCancelled

(***************************************************************************)
(* stop()                                                                  *)
(***************************************************************************)
Stop ==
    /\ ~stopping
    /\ stopping' = TRUE
    /\ UNCHANGED <<where, job, run, lastGood, sticky, opened, section, source, pool, waiting,
                   pruning, lastOk>>

\* mutant: the loop waits for the thread of its job
CancelledWaits(c) ==
    /\ stopping
    /\ where[c] # "ended"
    /\ job[c] # "running"
    /\ GiveUp(c)
    /\ where' = [where EXCEPT ![c] = "ended"]
    /\ UNCHANGED <<run, lastGood, sticky, opened, section, source, pruning, stopping, lastOk>>

(* The cancellation reaches the loop at its await.  When the awaited job is  *)
(* already done wait_for may swallow it: Collected is then the last step.    *)
Cancelled(c) ==
    /\ stopping
    /\ where[c] # "ended"
    /\ GiveUp(c)
    /\ where' = [where EXCEPT ![c] = "ended"]
    /\ UNCHANGED <<run, lastGood, sticky, opened, section, source, pruning, stopping, lastOk>>

SourceChanges(c) ==
    /\ c \notin Absent
    /\ source' \in {[source EXCEPT ![c] = x] : x \in {"up", "down"} \cup
                                                     (IF c \in MayHang THEN {"hung"} ELSE {})}
    /\ source' # source
    /\ UNCHANGED <<where, job, run, lastGood, sticky, opened, section, pool, waiting,
                   pruning, stopping, lastOk>>

-----------------------------------------------------------------------------
Init ==
    /\ where = [c \in Collectors |-> IF DependsOn[c] = {} THEN "interval" ELSE "dependencies"]
    /\ job = [c \in Collectors |-> "none"]
    /\ run = [c \in Collectors |-> 0]
    /\ lastGood = [c \in Collectors |-> 0]
    /\ sticky = [c \in Collectors |-> FALSE]
    /\ opened = [c \in Collectors |-> FALSE]
    /\ section = [c \in Collectors |-> NoEnvelope]
    /\ source \in [Collectors -> {"up", "down"}]
    /\ \A c \in Absent : source[c] = "down"
    /\ pool = [t \in Threads |-> Idle]
    /\ waiting = << >>
    /\ pruning = "interval"
    /\ stopping = FALSE
    /\ lastOk = [c \in Collectors |-> 0]

Loop(c) ==
    \/ DependenciesReport(c) \/ DependenciesLimit(c)
    \/ Begin(c) \/ Probed(c) \/ Collected(c) \/ TimesOut(c) \/ Cancelled(c)

Next ==
    \/ \E c \in Collectors : Loop(c) \/ SourceChanges(c)
    \/ PruneLoop
    \/ \E t \in Threads : ThreadTakes(t) \/ ThreadEnds(t) \/ PruneThreadEnds(t)
    \/ Stop

Spec == Init /\ [][Next]_vars

(* Fairness.  The event loop runs every loop that can run, a timeout and a  *)
(* cancellation included, and a thread takes and ends a job it can end.     *)
(* Nothing is assumed of the sources or of the stop.                        *)
Fairness ==
    /\ \A c \in Collectors : WF_vars(Loop(c))
    /\ WF_vars(PruneLoop)
    /\ \A t \in Threads :
          WF_vars(ThreadTakes(t)) /\ WF_vars(ThreadEnds(t)) /\ WF_vars(PruneThreadEnds(t))

FairSpec == Spec /\ Fairness

-----------------------------------------------------------------------------
Envelopes == [status : {"none", "ok", "error", "unavailable"}, data : 0..MaxRuns]

TypeOK ==
    /\ where \in [Collectors -> Where]
    /\ job \in [Collectors -> Job]
    /\ run \in [Collectors -> 0..MaxRuns]
    /\ lastGood \in [Collectors -> 0..MaxRuns]
    /\ sticky \in [Collectors -> BOOLEAN]
    /\ opened \in [Collectors -> BOOLEAN]
    /\ section \in [Collectors -> Envelopes]
    /\ source \in [Collectors -> {"up", "down", "hung"}]
    /\ pool \in [Threads -> {Idle} \cup [owner : Owners, awaited : BOOLEAN]]
    /\ waiting \in Seq(Owners)
    /\ pruning \in {"interval", "thread", "ended"}
    /\ stopping \in BOOLEAN
    /\ lastOk \in [Collectors -> 0..MaxRuns]

(* An error envelope carries the data of the last ok one, never that of a   *)
(* run the poller had given up on and whose thread ended later              *)
(* (architecture.md:113-114, base.py:107-124).                              *)
ErrorKeepsLastGood ==
    \A c \in Collectors : section[c].status \in {"ok", "error"} => section[c].data = lastOk[c]

(* A hung source never holds stop() up: the cancellation ends the wait, not *)
(* the thread (poller.py:55-62).                                            *)
Stopped == stopping /\ pruning = "ended" /\ \A c \in Collectors : where[c] = "ended"
StopCompletes == stopping ~> Stopped

(* Every run ends and every wait for dependencies too, hung sources and an  *)
(* exhausted pool notwithstanding; where there is a probe, which has no     *)
(* timeout, they end if no source stays hung for good (base.py:84-103,      *)
(* poller.py:68-85).                                                        *)
Leaves(c, w) == where[c] = w ~> where[c] # w

EveryRunEnds ==
    /\ \A c \in Collectors \ Probing : Leaves(c, "dependencies") /\ Leaves(c, "collect")
    /\ (\A c \in Collectors : <>[](source[c] # "hung")) =>
           \A c \in Probing : \A w \in {"dependencies", "probe", "collect"} : Leaves(c, w)

(* The history is pruned again and again until the stop, if no source stays *)
(* hung for good: the prune queues behind the jobs of every collector, those *)
(* the poller gave up on and whose threads are not back included, and it     *)
(* outlives a prune that raises (poller.py:104-112).                         *)
PruningGoesOn ==
    (\A c \in Collectors : <>[](source[c] # "hung")) =>
        <>stopping \/ ([]<>(pruning = "interval") /\ []<>(pruning = "thread"))

=============================================================================
