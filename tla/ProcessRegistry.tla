--------------------------- MODULE ProcessRegistry ---------------------------
(***************************************************************************)
(* Launching, finding, stopping and killing host processes: the registry   *)
(* file of processes.py, find_running of catalog.py and the process        *)
(* actions of actions/runner.py.                                           *)
(*                                                                         *)
(* A request runs partly on the event loop and partly in to_thread, so two *)
(* of them interleave at every access to the registry file, which no lock  *)
(* protects; only what runs on the loop excludes the rest of the loop.     *)
(* A process is an instance, numbered by birth: (pid, create_time) in the  *)
(* code.  Every entry has a port of its own, named after it.               *)
(***************************************************************************)
EXTENDS Integers, FiniteSets

CONSTANTS Requests,     \* control requests that may be in flight
          Entries,      \* catalog entries of kind "process", and declared services
          Declared,     \* of those, the services of the configuration
          Interpreted,  \* those started by a shared interpreter (BARE_INTERPRETERS)
          Strangers,    \* kinds of processes that are of no entry
          Hidden,       \* of those, the ones another user runs
          Names,        \* entry or stranger -> the entries whose executable is one of
                        \* the arguments it was started with
          Pids,
          MaxBirths     \* bound on the processes ever started

ASSUME RegistryAssumption ==
    /\ Declared \subseteq Entries /\ Interpreted \subseteq Entries
    /\ Hidden \subseteq Strangers /\ Strangers \cap Entries = {}
    /\ "nothing" \notin Entries \cup Strangers
    /\ Names \in [Entries \cup Strangers -> SUBSET Entries]
    /\ MaxBirths \in Nat

Instances == 1..MaxBirths
Kinds     == Entries \cup Strangers \cup {"nothing"}
None      == 0
NoRecords == [e \in Entries |-> None]

VARIABLES
    life,       \* instance -> "unborn", "alive", "zombie" or "gone"
    pid,        \* instance -> its pid
    runs,       \* instance -> the entry it is an instance of, or a stranger
    child,      \* the instances this service started
    port,       \* entry -> the instance listening on its port
    file,       \* processes.json
    tmp,        \* processes.tmp
    handle,     \* request -> what its open temporary file has become
    pc,         \* request -> its next step
    op, entry,  \* request -> the action and its target
    target,     \* request -> the instance it found, started or signals
    data,       \* request -> the registry it is about to save
    after,      \* request -> its step once saved
    answer,     \* request -> ActionResult: what the last one answered
    logged,     \* request -> it wrote its line to the action log
    \* history, for the properties
    effect,     \* request -> it started or signalled a process
    deadAt,     \* request -> the instances dead when its launch began
    announced,  \* the instances reported as launched
    stopped,    \* <<entry, instance>> signalled by a stop of the entry
    overlapped  \* two requests have been in flight at a time

processes == <<life, pid, runs, child, port>>
disk      == <<file, tmp, handle>>
request   == <<op, entry, deadAt>>
outcome   == <<answer, logged>>
history   == <<effect, announced, stopped, overlapped>>
vars == <<processes, disk, pc, request, target, data, after, outcome, history>>

(* A file: a JSON text, one just truncated, a mixture of two, or none *)
File(kind, records) == [kind |-> kind, records |-> records]

(* _load: what does not parse is an empty registry *)
Loaded(f) == IF f.kind = "json" THEN f.records ELSE NoRecords

Living == {i \in Instances : life[i] = "alive"}
Held(p) == {i \in Instances : life[i] \in {"alive", "zombie"} /\ pid[i] = p}

\* mutant: the start time is not compared
AnyStart(i, j) == TRUE

(* _alive: the pid's process started when the record says *)
SameStart(i, j) == i = j
Alive(i) == \E j \in Held(pid[i]) : life[j] = "alive" /\ SameStart(i, j)

(***************************************************************************)
(* Saving the registry: open, write, rename over the old one               *)
(***************************************************************************)
(* on the loop: the prune of a stop, its check of the target, every forget *)
OnLoop(r) ==
    \/ pc[r] = "signal" /\ op[r] = "stop"
    \/ pc[r] \in {"open", "write", "replace"} /\ after[r] \in {"signal", "answer"}
LoopFree(r) == \A q \in Requests \ {r} : ~OnLoop(q)

GoTo(r, l) == pc' = [pc EXCEPT ![r] = l]

Save(r, records, next) ==
    /\ data' = [data EXCEPT ![r] = records]
    /\ after' = [after EXCEPT ![r] = next]
    /\ GoTo(r, "open")

OpenTmp(r) ==
    /\ pc[r] = "open"
    /\ tmp' = File("empty", NoRecords)
    /\ handle' = [handle EXCEPT ![r] = "tmp"]
    /\ GoTo(r, "write")
    /\ UNCHANGED <<processes, file, request, target, data, after, outcome, history>>

(* a text written over another leaves some of it when it is shorter *)
Written(f, records) ==
    {File("json", records)} \cup
    (IF f.kind = "empty" \/ Loaded(f) = records THEN {} ELSE {File("torn", NoRecords)})

WriteTmp(r) ==
    /\ pc[r] = "write"
    /\ CASE handle[r] = "tmp"  -> tmp' \in Written(tmp, data[r]) /\ UNCHANGED file
         [] handle[r] = "file" -> file' \in Written(file, data[r]) /\ UNCHANGED tmp
         [] OTHER              -> UNCHANGED <<file, tmp>>
    /\ GoTo(r, "replace")
    /\ UNCHANGED <<processes, handle, request, target, data, after, outcome, history>>

\* mutant: a failure is not logged
FinishLogsSuccess(r, a) ==
    /\ answer' = [answer EXCEPT ![r] = a]
    /\ logged' = [logged EXCEPT ![r] = a = "ok"]
    /\ GoTo(r, "idle")

(* An answer, which every path but ActionDenied writes to the log *)
Finish(r, a) ==
    /\ answer' = [answer EXCEPT ![r] = a]
    /\ logged' = [logged EXCEPT ![r] = a # "denied" /\ op[r] # "list"]
    /\ GoTo(r, "idle")

Renamed(h) == CASE h = "tmp" -> "file" [] h = "file" -> "lost" [] OTHER -> h

(* chmod and replace find the temporary file, or raise when another saver    *)
(* has renamed it                                                            *)
Replace(r) ==
    /\ pc[r] = "replace"
    /\ IF tmp.kind # "absent"
       THEN /\ file' = tmp
            /\ tmp' = File("absent", NoRecords)
            /\ handle' = [q \in Requests |-> IF q = r THEN "none" ELSE Renamed(handle[q])]
            /\ IF after[r] = "answer"
               THEN Finish(r, IF op[r] \in {"stop", "list"} THEN "ok" ELSE "failed")
               ELSE GoTo(r, after[r]) /\ UNCHANGED outcome
       ELSE /\ handle' = [handle EXCEPT ![r] = "none"]
            /\ Finish(r, "failed")
            /\ UNCHANGED <<file, tmp>>
    /\ data' = [data EXCEPT ![r] = NoRecords]
    /\ after' = [after EXCEPT ![r] = "answer"]
    /\ UNCHANGED <<processes, request, target, history>>

(***************************************************************************)
(* The steps of the actions                                                *)
(***************************************************************************)
(* a request arrives; kill names a pid, which some instance has or had *)
Begin(r, o, e, i) ==
    /\ pc[r] = "idle"
    /\ CASE o = "launch"         -> e \notin Declared /\ i = None
         [] o = "launch_service" -> e \in Declared /\ i = None
         [] o = "kill"           -> i # None /\ life[i] # "unborn" /\ e = entry[r]
         [] OTHER                -> i = None
    /\ GoTo(r, CASE o = "launch_service" -> "spawn" [] o = "kill" -> "signal"
                 [] OTHER -> "prune")
    /\ op' = [op EXCEPT ![r] = o]
    /\ entry' = [entry EXCEPT ![r] = e]
    /\ target' = [target EXCEPT ![r] = i]
    /\ deadAt' = [deadAt EXCEPT ![r] =
                   IF o = "launch" THEN {j \in Instances : life[j] \in {"zombie", "gone"}} ELSE {}]
    /\ effect' = [effect EXCEPT ![r] = FALSE]
    /\ answer' = [answer EXCEPT ![r] = "none"]
    /\ logged' = [logged EXCEPT ![r] = FALSE]
    /\ overlapped' = (overlapped \/ \E q \in Requests : pc[q] # "idle")
    /\ UNCHANGED <<processes, disk, data, after, announced, stopped>>

\* mutants: dead processes stay; those that do not listen yet go
LiveUnpruned(records) == records
LiveListening(records) == [e \in Entries |-> IF records[e] # None /\ port[e] = records[e]
                                             THEN records[e] ELSE None]

Live(records) == [e \in Entries |-> IF records[e] # None /\ Alive(records[e])
                                    THEN records[e] ELSE None]

(* tracked: prune, of which launch and list run in a thread, stop on the loop *)
Prune(r) ==
    /\ pc[r] = "prune"
    /\ op[r] = "stop" => LoopFree(r)
    /\ LET records == Loaded(file)
           next == CASE op[r] = "launch" -> "check" [] op[r] = "stop" -> "signal"
                     [] OTHER -> "answer"
       IN /\ target' = [target EXCEPT ![r] = Live(records)[entry[r]]]
          /\ IF Live(records) # records
             THEN Save(r, Live(records), next) /\ UNCHANGED outcome
             ELSE /\ UNCHANGED <<data, after>>
                  /\ IF next = "answer" THEN Finish(r, "ok")
                     ELSE GoTo(r, next) /\ UNCHANGED outcome
    /\ UNCHANGED <<processes, disk, request, history>>

(* find_external takes a process that has the executable among its arguments *)
(* for the entry: the listener of the port, even when the executable is a    *)
(* shared interpreter; with nobody on the port, any process of any user,     *)
(* unless it is one.  A listener of another user is taken for the entry      *)
(* whatever it runs (RunningInstance(pid=None)).                             *)
External(e) ==
    IF port[e] # None
    THEN {i \in {port[e]} : runs[i] \in Hidden \/ e \in Names[runs[i]]}
    ELSE IF e \in Interpreted THEN {} ELSE {i \in Living : e \in Names[runs[i]]}

Check(r) ==
    /\ pc[r] = "check"
    /\ IF target[r] # None
       THEN Finish(r, "running") /\ UNCHANGED target
       ELSE IF External(entry[r]) # {}
       THEN /\ \E i \in External(entry[r]) : target' = [target EXCEPT ![r] = i]
            /\ Finish(r, "running")
       ELSE GoTo(r, "conflict") /\ UNCHANGED <<target, outcome>>
    /\ UNCHANGED <<processes, disk, request, data, after, history>>

(* _port_conflict sees the listeners of this user only *)
Conflict(r) ==
    /\ pc[r] = "conflict"
    /\ IF port[entry[r]] # None /\ runs[port[entry[r]]] \notin Hidden
       THEN Finish(r, "conflict")
       ELSE GoTo(r, "spawn") /\ UNCHANGED outcome
    /\ UNCHANGED <<processes, disk, request, target, data, after, history>>

(* The next instance, under a pid that is free and that no action in flight  *)
(* is about to signal: pids are handed out in turn.                          *)
Born(i, what) ==
    /\ i \in Instances /\ life[i] = "unborn" /\ \A j \in 1..(i - 1) : life[j] # "unborn"
    /\ \E p \in Pids :
          /\ Held(p) = {}
          /\ \A r \in Requests : pc[r] # "idle" /\ target[r] # None => pid[target[r]] # p
          /\ pid' = [pid EXCEPT ![i] = p]
    /\ life' = [life EXCEPT ![i] = "alive"]
    /\ runs' = [runs EXCEPT ![i] = what]
    /\ UNCHANGED port

(* build_process_spec and Popen succeed, or one of them raises *)
Spawn(r) ==
    /\ pc[r] = "spawn"
    /\ \/ /\ \E i \in Instances :
                /\ Born(i, entry[r])
                /\ child' = child \cup {i}
                /\ target' = [target EXCEPT ![r] = i]
          /\ effect' = [effect EXCEPT ![r] = TRUE]
          /\ GoTo(r, "record")
          /\ UNCHANGED outcome
       \/ /\ Finish(r, "failed")
          /\ UNCHANGED <<processes, target, effect>>
    /\ UNCHANGED <<disk, request, data, after, announced, stopped, overlapped>>

Record(r) ==
    /\ pc[r] = "record"
    /\ Save(r, [Loaded(file) EXCEPT ![entry[r]] = target[r]], "settle")
    /\ UNCHANGED <<processes, disk, request, target, outcome, history>>

(* 1.5 seconds later the pid still exists, if only as a zombie, or the       *)
(* registry forgets the entry                                                *)
Settle(r) ==
    /\ pc[r] = "settle"
    /\ IF Held(pid[target[r]]) # {}
       THEN Finish(r, "ok") /\ announced' = announced \cup {target[r]}
       ELSE GoTo(r, "forget") /\ UNCHANGED <<outcome, announced>>
    /\ UNCHANGED <<processes, disk, request, target, data, after, effect, stopped, overlapped>>

(* forget: whatever instance the registry holds for the entry now *)
Forget(r) ==
    /\ pc[r] = "forget"
    /\ LoopFree(r)
    /\ IF Loaded(file)[entry[r]] # None
       THEN Save(r, [Loaded(file) EXCEPT ![entry[r]] = None], "answer") /\ UNCHANGED outcome
       ELSE /\ Finish(r, IF op[r] = "stop" THEN "ok" ELSE "failed")
            /\ UNCHANGED <<data, after>>
    /\ UNCHANGED <<processes, disk, request, target, history>>

(* assert_killable and terminate.  Without a process, or with another        *)
(* user's, the action is denied; a zombie raises.                            *)
Signal(r) ==
    /\ pc[r] = "signal"
    /\ LoopFree(r)
    /\ LET held == IF target[r] = None THEN {} ELSE Held(pid[target[r]])
       IN CASE target[r] = None -> Finish(r, "failed") /\ UNCHANGED <<target, effect, stopped>>
            [] target[r] # None /\ (held = {} \/ \E i \in held : runs[i] \in Hidden) ->
                  Finish(r, "denied") /\ UNCHANGED <<target, effect, stopped>>
            [] OTHER -> \E i \in held :
                  /\ target' = [target EXCEPT ![r] = i]
                  /\ IF life[i] = "zombie"
                     THEN Finish(r, "failed") /\ UNCHANGED <<effect, stopped>>
                     ELSE /\ effect' = [effect EXCEPT ![r] = TRUE]
                          /\ stopped' = IF op[r] = "stop" THEN stopped \cup {<<entry[r], i>>}
                                        ELSE stopped
                          /\ GoTo(r, "grace")
                          /\ UNCHANGED outcome
    /\ UNCHANGED <<processes, disk, request, data, after, announced, overlapped>>

Signalled(r) ==
    IF op[r] = "stop" THEN GoTo(r, "forget") /\ UNCHANGED outcome ELSE Finish(r, "ok")

Die(i, how) ==
    /\ life' = [life EXCEPT ![i] = how]
    /\ port' = [e \in Entries |-> IF port[e] = i THEN None ELSE port[e]]
    /\ UNCHANGED <<pid, runs, child>>

(* proc.wait returns, reaping a child, or gives up on a process that lives *)
Wait(r) ==
    /\ pc[r] = "grace"
    /\ IF life[target[r]] = "alive"
       THEN GoTo(r, "sigkill") /\ UNCHANGED <<processes, outcome>>
       ELSE Die(target[r], "gone") /\ Signalled(r)
    /\ UNCHANGED <<disk, request, target, data, after, history>>

(* os.kill raises when the process has gone since *)
SigKill(r) ==
    /\ pc[r] = "sigkill"
    /\ CASE life[target[r]] = "alive" ->
               /\ Die(target[r], IF target[r] \in child THEN "zombie" ELSE "gone")
               /\ Signalled(r)
         [] life[target[r]] = "zombie" -> Signalled(r) /\ UNCHANGED processes
         [] OTHER -> Finish(r, "failed") /\ UNCHANGED processes
    /\ UNCHANGED <<disk, request, target, data, after, history>>

(***************************************************************************)
(* The host                                                                *)
(***************************************************************************)
Exit(i) ==
    /\ life[i] = "alive"
    /\ Die(i, IF i \in child THEN "zombie" ELSE "gone")
    /\ UNCHANGED <<disk, pc, request, target, data, after, outcome, history>>

(* the next Popen of the service reaps its dead children *)
Reap(i) ==
    /\ life[i] = "zombie"
    /\ Die(i, "gone")
    /\ UNCHANGED <<disk, pc, request, target, data, after, outcome, history>>

Listen(i, e) ==
    /\ i \in Living /\ port[e] = None
    /\ runs[i] \in Entries => runs[i] = e
    /\ port' = [port EXCEPT ![e] = i]
    /\ UNCHANGED <<life, pid, runs, child, disk, pc, request, target, data, after, outcome, history>>

(* started from a terminal, by NVIDIA Sync, or by anyone else *)
StartedOutside(i, what) ==
    /\ Born(i, what)
    /\ UNCHANGED <<child, disk, pc, request, target, data, after, outcome, history>>

(* The service stops or crashes and is started again: systemd ends its whole *)
(* control group, the files stay.                                            *)
Restart ==
    /\ life' = [i \in Instances |-> IF i \in child /\ life[i] # "unborn" THEN "gone" ELSE life[i]]
    /\ port' = [e \in Entries |-> IF port[e] \in child THEN None ELSE port[e]]
    /\ pc' = [r \in Requests |-> "idle"]
    /\ target' = [r \in Requests |-> None]
    /\ answer' = [r \in Requests |-> "none"]
    /\ logged' = [r \in Requests |-> FALSE]
    /\ handle' = [r \in Requests |-> "none"]
    /\ data' = [r \in Requests |-> NoRecords]
    /\ after' = [r \in Requests |-> "answer"]
    /\ effect' = [r \in Requests |-> FALSE]
    /\ deadAt' = [r \in Requests |-> {}]
    /\ UNCHANGED <<pid, runs, child, file, tmp, op, entry, announced, stopped, overlapped>>

-----------------------------------------------------------------------------
Init ==
    /\ life = [i \in Instances |-> "unborn"]
    /\ pid \in {[i \in Instances |-> p] : p \in Pids}
    /\ runs = [i \in Instances |-> "nothing"]
    /\ child = {}
    /\ port = [e \in Entries |-> None]
    /\ file = File("json", NoRecords)
    /\ tmp = File("absent", NoRecords)
    /\ handle = [r \in Requests |-> "none"]
    /\ pc = [r \in Requests |-> "idle"]
    /\ op = [r \in Requests |-> "list"]
    /\ entry \in {[r \in Requests |-> e] : e \in Entries}
    /\ target = [r \in Requests |-> None]
    /\ data = [r \in Requests |-> NoRecords]
    /\ after = [r \in Requests |-> "answer"]
    /\ answer = [r \in Requests |-> "none"]
    /\ logged = [r \in Requests |-> FALSE]
    /\ effect = [r \in Requests |-> FALSE]
    /\ deadAt = [r \in Requests |-> {}]
    /\ announced = {}
    /\ stopped = {}
    /\ overlapped = FALSE

Operations == {"launch", "launch_service", "stop", "kill", "list"}

Step(r) ==
    \/ OpenTmp(r) \/ WriteTmp(r) \/ Replace(r)
    \/ Prune(r) \/ Check(r) \/ Conflict(r) \/ Spawn(r) \/ Record(r) \/ Settle(r)
    \/ Forget(r) \/ Signal(r) \/ Wait(r) \/ SigKill(r)

Host ==
    \/ \E i \in Instances : Exit(i) \/ Reap(i)
    \/ \E i \in Instances, e \in Entries : Listen(i, e)
    \/ \E i \in Instances, w \in Entries \cup Strangers : StartedOutside(i, w)

Next ==
    \/ \E r \in Requests, o \in Operations, e \in Entries, i \in Instances \cup {None} :
          Begin(r, o, e, i)
    \/ \E r \in Requests : Step(r)
    \/ Host
    \/ Restart

Spec == Init /\ [][Next]_vars

-----------------------------------------------------------------------------
Files == [kind : {"absent", "empty", "json", "torn"},
          records : [Entries -> Instances \cup {None}]]
Answers == {"none", "ok", "failed", "denied", "running", "conflict"}

ProcessesOK ==
    /\ life \in [Instances -> {"unborn", "alive", "zombie", "gone"}]
    /\ pid \in [Instances -> Pids]
    /\ runs \in [Instances -> Kinds]
    /\ child \subseteq Instances
    /\ port \in [Entries -> Instances \cup {None}]
FilesOK ==
    /\ file \in Files /\ tmp \in Files
    /\ handle \in [Requests -> {"none", "tmp", "file", "lost"}]
    /\ data \in [Requests -> [Entries -> Instances \cup {None}]]
RequestsOK ==
    /\ pc \in [Requests -> {"idle", "prune", "open", "write", "replace", "check", "conflict",
                            "spawn", "record", "settle", "forget", "signal", "grace",
                            "sigkill"}]
    /\ op \in [Requests -> Operations]
    /\ entry \in [Requests -> Entries]
    /\ target \in [Requests -> Instances \cup {None}]
    /\ after \in [Requests -> {"check", "signal", "settle", "answer"}]
OutcomeOK ==
    /\ answer \in [Requests -> Answers]
    /\ logged \in [Requests -> BOOLEAN]
HistoryOK ==
    /\ effect \in [Requests -> BOOLEAN]
    /\ deadAt \in [Requests -> SUBSET Instances]
    /\ announced \subseteq Instances
    /\ stopped \subseteq Entries \X Instances
    /\ overlapped \in BOOLEAN

TypeOK == ProcessesOK /\ FilesOK /\ RequestsOK /\ OutcomeOK /\ HistoryOK

(* The Stop button reaches only what this service started for that entry:   *)
(* whatever happened to the registry file in between (a restart, a lost or  *)
(* torn save, a reused pid), no stranger and no instance started outside is *)
(* ever signalled (processes.py:53-61, runner.py:266-276).                  *)
StopHitsOwnInstance ==
    \A s \in stopped : s[2] \in child /\ runs[s[2]] = s[1]

(* A launch refused because the entry runs already names a process that was *)
(* up while the refusal was worked out, whatever became of the registry and *)
(* of its pid: an instance this service started for the entry, or a process *)
(* that has the entry's executable among its arguments, or another user's.  *)
(* The last two need not be of the entry (find_running, catalog.py:135-153; *)
(* processes.py:153-166, 198).                                              *)
RefusalNamesLiveInstance ==
    \A r \in Requests : answer[r] = "running" =>
        /\ target[r] \notin deadAt[r]
        /\ \/ target[r] \in child /\ runs[target[r]] = entry[r]
           \/ runs[target[r]] \in Hidden \/ entry[r] \in Names[runs[target[r]]]

(* What a request did to a process is in the action log once it is answered *)
(* whichever step raised on the way (run, runner.py:98-110).  A request cut  *)
(* short by the end of the service is never answered, and leaves no line.   *)
EffectsLogged ==
    \A r \in Requests : answer[r] # "none" /\ effect[r] => logged[r]

(* While no two requests overlap, over any sequence of them, of deaths, of  *)
(* reused pids and of restarts, the registry is exact: the service runs at  *)
(* most one instance of a catalog entry, and an instance whose launch was   *)
(* reported stays recorded while it runs.                                   *)
LaunchedByUs == {i \in child \cap Living : runs[i] \notin Declared}
SerialRegistryIsExact ==
    ~overlapped =>
        /\ \A i, j \in LaunchedByUs : runs[i] = runs[j] => i = j
        /\ \A i \in LaunchedByUs \cap announced : Loaded(file)[runs[i]] = i

(***************************************************************************)
(* What the README says of the launches                                    *)
(***************************************************************************)
(* "An instance already running is adopted, not duplicated" (README.md:105) *)
NoDuplicate ==
    \A i, j \in LaunchedByUs : runs[i] = runs[j] => i = j

=============================================================================
