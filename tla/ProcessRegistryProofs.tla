------------------------- MODULE ProcessRegistryProofs -------------------------
(***************************************************************************)
(* Proofs about ProcessRegistry, for any requests in flight, entries, pids *)
(* and number of processes ever started.                                   *)
(***************************************************************************)
EXTENDS ProcessRegistry, TLAPS

Registry == [Entries -> Instances \cup {None}]

(* A request that has started or signalled a process knows which.            *)
Targeted ==
    \A r \in Requests :
        \/ pc[r] \in {"record", "settle", "grace", "sigkill"}
        \/ pc[r] \in {"open", "write", "replace"} /\ after[r] = "settle"
        => target[r] \in Instances

-----------------------------------------------------------------------------
(* What is loaded from a file, what is left of it when the dead are pruned,  *)
(* and what is made a file of.                                               *)
LEMMA LoadedTyped ==
    ASSUME NEW f \in Files
    PROVE  Loaded(f) \in Registry /\ Live(Loaded(f)) \in Registry
BY DEF Loaded, Live, Files, NoRecords, Registry

LEMMA FileTyped ==
    ASSUME NEW kind \in {"absent", "empty", "json", "torn"}, NEW records \in Registry
    PROVE  File(kind, records) \in Files
BY DEF File, Files, Registry

LEMMA NoRecordsTyped == NoRecords \in Registry
BY DEF NoRecords, Registry

(* A save in the making.                                                     *)
LEMMA SaveTyped ==
    ASSUME TypeOK, NEW r \in Requests, NEW records \in Registry,
           NEW next \in {"check", "signal", "settle", "answer"}, Save(r, records, next)
    PROVE  /\ data' \in [Requests -> Registry]
           /\ after' \in [Requests -> {"check", "signal", "settle", "answer"}]
           /\ pc' = [pc EXCEPT ![r] = "open"]
BY DEF TypeOK, FilesOK, RequestsOK, Save, GoTo, Registry

(* An answer.                                                                *)
LEMMA FinishTyped ==
    ASSUME TypeOK, NEW r \in Requests, NEW a \in Answers, Finish(r, a)
    PROVE  OutcomeOK' /\ pc' = [pc EXCEPT ![r] = "idle"]
<1>1. answer' \in [Requests -> Answers]
  BY DEF TypeOK, OutcomeOK, Finish
<1>2. \A b \in BOOLEAN : [logged EXCEPT ![r] = b] \in [Requests -> BOOLEAN]
  BY DEF TypeOK, OutcomeOK
<1>3. (a # "denied" /\ op[r] # "list") \in BOOLEAN
  OBVIOUS
<1>4. logged' = [logged EXCEPT ![r] = a # "denied" /\ op[r] # "list"]
  BY DEF Finish
<1>5. logged' \in [Requests -> BOOLEAN]
  BY <1>2, <1>3, <1>4, Zenon
<1> QED
  BY <1>1, <1>5 DEF OutcomeOK, Finish, GoTo

(* A birth and a death.                                                      *)
LEMMA BornTyped ==
    ASSUME TypeOK, NEW i \in Instances, NEW what \in Entries \cup Strangers, Born(i, what)
    PROVE  /\ life' \in [Instances -> {"unborn", "alive", "zombie", "gone"}]
           /\ pid' \in [Instances -> Pids]
           /\ runs' \in [Instances -> Kinds]
           /\ port' = port
BY DEF TypeOK, ProcessesOK, Born, Kinds

LEMMA DieTyped ==
    ASSUME TypeOK, NEW i \in Instances, NEW how \in {"zombie", "gone"}, Die(i, how)
    PROVE  ProcessesOK'
BY DEF TypeOK, ProcessesOK, Die

(* The types at first.                                                       *)
LEMMA RegistryInit == Init => TypeOK
<1> SUFFICES ASSUME Init
             PROVE  TypeOK
  OBVIOUS
<1>1. PICK p \in Pids : pid = [i \in Instances |-> p]
  BY DEF Init
<1>2. PICK e \in Entries : entry = [r \in Requests |-> e]
  BY DEF Init
<1>3. ProcessesOK
  BY <1>1 DEF Init, ProcessesOK, Kinds
<1>4. FilesOK
  BY FileTyped, NoRecordsTyped DEF Init, FilesOK, Registry
<1>5. RequestsOK
  BY <1>2 DEF Init, RequestsOK, Operations
<1>6. OutcomeOK /\ HistoryOK
  BY DEF Init, OutcomeOK, HistoryOK, Answers
<1> QED
  BY <1>3, <1>4, <1>5, <1>6 DEF TypeOK

(* The types.                                                                *)
THEOREM RegistryTypeCorrect == Spec => [](TypeOK /\ Targeted)
<1>1. TypeOK /\ Targeted /\ [Next]_vars => TypeOK'
  <2> SUFFICES ASSUME TypeOK, Targeted, [Next]_vars
               PROVE  TypeOK'
    OBVIOUS
  <2> USE DEF processes, disk, request, outcome, history
  <2>1. ASSUME NEW r \in Requests, NEW o \in Operations, NEW e \in Entries,
               NEW i \in Instances \cup {None}, Begin(r, o, e, i)
        PROVE  TypeOK'
    <3>1. ProcessesOK' /\ FilesOK'
      BY <2>1 DEF TypeOK, ProcessesOK, FilesOK, Begin
    <3>2. RequestsOK'
      BY <2>1 DEF TypeOK, RequestsOK, Begin, GoTo
    <3>3. OutcomeOK'
      BY <2>1 DEF TypeOK, OutcomeOK, Begin, Answers
    <3>4. HistoryOK'
      <4>1. overlapped' \in BOOLEAN /\ UNCHANGED <<announced, stopped>>
        BY <2>1 DEF Begin, TypeOK, HistoryOK
      <4>2. effect' \in [Requests -> BOOLEAN] /\ deadAt' \in [Requests -> SUBSET Instances]
        BY <2>1 DEF Begin, TypeOK, HistoryOK
      <4> QED
        BY <4>1, <4>2 DEF TypeOK, HistoryOK
    <3> QED
      BY <3>1, <3>2, <3>3, <3>4 DEF TypeOK
  <2>2. ASSUME NEW r \in Requests, OpenTmp(r)
        PROVE  TypeOK'
    <3>1. FilesOK'
      BY <2>2, FileTyped, NoRecordsTyped DEF TypeOK, FilesOK, OpenTmp
    <3>2. RequestsOK'
      BY <2>2 DEF TypeOK, RequestsOK, OpenTmp, GoTo
    <3> QED
      BY <2>2, <3>1, <3>2 DEF TypeOK, ProcessesOK, OutcomeOK, HistoryOK, OpenTmp
  <2>3. ASSUME NEW r \in Requests, WriteTmp(r)
        PROVE  TypeOK'
    <3>1. \A f \in Files : Written(f, data[r]) \subseteq Files
      BY FileTyped, NoRecordsTyped DEF TypeOK, FilesOK, Written, Registry
    <3>2. FilesOK'
      BY <2>3, <3>1 DEF TypeOK, FilesOK, WriteTmp
    <3>3. RequestsOK'
      BY <2>3 DEF TypeOK, RequestsOK, WriteTmp, GoTo
    <3> QED
      BY <2>3, <3>2, <3>3 DEF TypeOK, ProcessesOK, OutcomeOK, HistoryOK, WriteTmp
  <2>4. ASSUME NEW r \in Requests, Replace(r)
        PROVE  TypeOK'
    <3>1. data' \in [Requests -> Registry] /\ after' \in [Requests -> {"check", "signal", "settle", "answer"}]
      BY <2>4, NoRecordsTyped DEF TypeOK, FilesOK, RequestsOK, Replace, Registry
    <3>2. handle' \in [Requests -> {"none", "tmp", "file", "lost"}]
      BY <2>4 DEF TypeOK, FilesOK, Replace, Renamed
    <3>3. file' \in Files /\ tmp' \in Files
      BY <2>4, FileTyped, NoRecordsTyped DEF TypeOK, FilesOK, Replace
    <3>4. UNCHANGED outcome \/ \E a \in Answers : Finish(r, a)
      BY <2>4 DEF Replace, Answers
    <3>5. OutcomeOK'
      BY <3>4, FinishTyped DEF TypeOK, OutcomeOK
    <3>6. \/ pc' = [pc EXCEPT ![r] = "idle"]
          \/ pc' = [pc EXCEPT ![r] = after[r]] /\ after[r] # "answer"
      BY <2>4 DEF Replace, Finish, GoTo
    <3>7. RequestsOK'
      BY <2>4, <3>1, <3>6 DEF TypeOK, RequestsOK, Replace
    <3> QED
      BY <2>4, <3>1, <3>2, <3>3, <3>5, <3>7 DEF TypeOK, ProcessesOK, FilesOK, HistoryOK, Replace, Registry
  <2>5. ASSUME NEW r \in Requests, Prune(r)
        PROVE  TypeOK'
    <3>1. target' \in [Requests -> Instances \cup {None}]
      BY <2>5, LoadedTyped DEF TypeOK, FilesOK, RequestsOK, Prune, Registry
    <3>2. PICK next \in {"check", "signal", "answer"} :
              \/ Save(r, Live(Loaded(file)), next) /\ UNCHANGED outcome
              \/ UNCHANGED <<data, after>> /\ Finish(r, "ok")
              \/ next # "answer" /\ UNCHANGED <<data, after>> /\ GoTo(r, next) /\ UNCHANGED outcome
      BY <2>5 DEF Prune
    <3>3. UNCHANGED <<processes, disk, request, history>>
      BY <2>5 DEF Prune
    <3>4. OutcomeOK'
      BY <3>2, FinishTyped DEF TypeOK, OutcomeOK, Answers
    <3>5. /\ data' \in [Requests -> Registry]
          /\ after' \in [Requests -> {"check", "signal", "settle", "answer"}]
      BY <3>2, SaveTyped, LoadedTyped DEF TypeOK, FilesOK, RequestsOK, Registry
    <3>6. \E l \in {"open", "idle", "check", "signal"} : pc' = [pc EXCEPT ![r] = l]
      BY <3>2 DEF Save, Finish, GoTo
    <3>7. RequestsOK'
      BY <3>1, <3>3, <3>5, <3>6 DEF TypeOK, RequestsOK
    <3> QED
      BY <3>3, <3>4, <3>5, <3>7 DEF TypeOK, ProcessesOK, FilesOK, HistoryOK, Registry
  <2>6. ASSUME NEW r \in Requests, Check(r)
        PROVE  TypeOK'
    <3>1. External(entry[r]) \subseteq Instances
      BY DEF TypeOK, ProcessesOK, RequestsOK, External, Living
    <3>2. target' \in [Requests -> Instances \cup {None}]
      BY <2>6, <3>1 DEF TypeOK, RequestsOK, Check
    <3>3. (UNCHANGED outcome /\ pc' = [pc EXCEPT ![r] = "conflict"]) \/ Finish(r, "running")
      BY <2>6 DEF Check, GoTo
    <3>4. OutcomeOK' /\ \E l \in {"conflict", "idle"} : pc' = [pc EXCEPT ![r] = l]
      BY <3>3, FinishTyped DEF TypeOK, OutcomeOK, Answers
    <3> QED
      BY <2>6, <3>2, <3>4 DEF TypeOK, ProcessesOK, FilesOK, RequestsOK, HistoryOK, Check
  <2>7. ASSUME NEW r \in Requests, Conflict(r)
        PROVE  TypeOK'
    <3>1. (UNCHANGED outcome /\ pc' = [pc EXCEPT ![r] = "spawn"]) \/ Finish(r, "conflict")
      BY <2>7 DEF Conflict, GoTo
    <3>2. OutcomeOK' /\ \E l \in {"spawn", "idle"} : pc' = [pc EXCEPT ![r] = l]
      BY <3>1, FinishTyped DEF TypeOK, OutcomeOK, Answers
    <3> QED
      BY <2>7, <3>2 DEF TypeOK, ProcessesOK, FilesOK, RequestsOK, HistoryOK, Conflict
  <2>8. ASSUME NEW r \in Requests, Spawn(r)
        PROVE  TypeOK'
    <3>1. UNCHANGED <<disk, request, data, after, announced, stopped, overlapped>>
      BY <2>8 DEF Spawn
    <3>2. CASE Finish(r, "failed") /\ UNCHANGED <<processes, target, effect>>
      <4>1. OutcomeOK' /\ pc' = [pc EXCEPT ![r] = "idle"]
        BY <3>2, FinishTyped DEF Answers
      <4> QED
        BY <3>1, <3>2, <4>1 DEF TypeOK, ProcessesOK, FilesOK, RequestsOK, HistoryOK
    <3>3. ASSUME NEW i \in Instances, Born(i, entry[r]), child' = child \cup {i},
                 target' = [target EXCEPT ![r] = i], effect' = [effect EXCEPT ![r] = TRUE],
                 GoTo(r, "record"), UNCHANGED outcome
          PROVE  TypeOK'
      <4>1. entry[r] \in Entries
        BY DEF TypeOK, RequestsOK
      <4>2. ProcessesOK'
        BY <3>3, <4>1, BornTyped DEF TypeOK, ProcessesOK
      <4>3. RequestsOK'
        BY <3>1, <3>3 DEF TypeOK, RequestsOK, GoTo
      <4> QED
        BY <3>1, <3>3, <4>2, <4>3 DEF TypeOK, FilesOK, OutcomeOK, HistoryOK
    <3> QED
      BY <2>8, <3>2, <3>3 DEF Spawn
  <2>9. ASSUME NEW r \in Requests, Record(r)
        PROVE  TypeOK'
    <3>1. [Loaded(file) EXCEPT ![entry[r]] = target[r]] \in Registry
      BY LoadedTyped DEF TypeOK, FilesOK, RequestsOK, Registry
    <3>2. Save(r, [Loaded(file) EXCEPT ![entry[r]] = target[r]], "settle")
      BY <2>9 DEF Record
    <3>3. /\ data' \in [Requests -> Registry] /\ pc' = [pc EXCEPT ![r] = "open"]
          /\ after' \in [Requests -> {"check", "signal", "settle", "answer"}]
      BY <3>1, <3>2, SaveTyped
    <3> QED
      BY <2>9, <3>3 DEF TypeOK, ProcessesOK, FilesOK, RequestsOK, OutcomeOK, HistoryOK, Record, Registry
  <2>10. ASSUME NEW r \in Requests, Settle(r)
         PROVE  TypeOK'
    <3>1. \/ Finish(r, "ok") /\ announced' = announced \cup {target[r]} /\ Held(pid[target[r]]) # {}
          \/ pc' = [pc EXCEPT ![r] = "forget"] /\ UNCHANGED <<outcome, announced>>
      BY <2>10 DEF Settle, GoTo
    <3>2. target[r] \in Instances
      BY <2>10 DEF Targeted, Settle
    <3>3. OutcomeOK' /\ \E l \in {"forget", "idle"} : pc' = [pc EXCEPT ![r] = l]
      BY <3>1, FinishTyped DEF TypeOK, OutcomeOK, Answers
    <3> QED
      BY <2>10, <3>1, <3>2, <3>3 DEF TypeOK, ProcessesOK, FilesOK, RequestsOK, HistoryOK, Settle
  <2>11. ASSUME NEW r \in Requests, Forget(r)
         PROVE  TypeOK'
    <3>1. [Loaded(file) EXCEPT ![entry[r]] = None] \in Registry
      BY LoadedTyped DEF TypeOK, FilesOK, RequestsOK, Registry
    <3>2. \/ Save(r, [Loaded(file) EXCEPT ![entry[r]] = None], "answer") /\ UNCHANGED outcome
          \/ (\E a \in Answers : Finish(r, a)) /\ UNCHANGED <<data, after>>
      BY <2>11 DEF Forget, Answers
    <3>3. /\ data' \in [Requests -> Registry]
          /\ after' \in [Requests -> {"check", "signal", "settle", "answer"}]
          /\ \E l \in {"open", "idle"} : pc' = [pc EXCEPT ![r] = l]
      BY <3>1, <3>2, SaveTyped, FinishTyped DEF TypeOK, FilesOK, RequestsOK, Registry
    <3>4. OutcomeOK'
      BY <3>2, FinishTyped DEF TypeOK, OutcomeOK
    <3> QED
      BY <2>11, <3>3, <3>4 DEF TypeOK, ProcessesOK, FilesOK, RequestsOK, HistoryOK, Forget, Registry
  <2>12. ASSUME NEW r \in Requests, Signal(r)
         PROVE  TypeOK'
    <3>1. UNCHANGED <<processes, disk, request, data, after, announced, overlapped>>
      BY <2>12 DEF Signal
    <3>2. CASE (\E a \in Answers : Finish(r, a)) /\ UNCHANGED <<effect, stopped>>
               /\ (UNCHANGED target \/ \E i \in Instances : target' = [target EXCEPT ![r] = i])
      <4>1. OutcomeOK' /\ pc' = [pc EXCEPT ![r] = "idle"]
        BY <3>2, FinishTyped
      <4>2. target' \in [Requests -> Instances \cup {None}]
        BY <3>2 DEF TypeOK, RequestsOK
      <4> QED
        BY <3>1, <3>2, <4>1, <4>2 DEF TypeOK, ProcessesOK, FilesOK, RequestsOK, HistoryOK
    <3>3. ASSUME NEW i \in Instances, target' = [target EXCEPT ![r] = i],
                 effect' = [effect EXCEPT ![r] = TRUE],
                 stopped' \in {stopped, stopped \cup {<<entry[r], i>>}},
                 GoTo(r, "grace"), UNCHANGED outcome
          PROVE  TypeOK'
      <4>1. RequestsOK'
        BY <3>1, <3>3 DEF TypeOK, RequestsOK, GoTo
      <4>2. HistoryOK'
        BY <3>1, <3>3 DEF TypeOK, HistoryOK, RequestsOK
      <4> QED
        BY <3>1, <3>3, <4>1, <4>2 DEF TypeOK, ProcessesOK, FilesOK, OutcomeOK
    <3> QED
      BY <2>12, <3>2, <3>3 DEF Signal, Held, Answers
  <2>13. ASSUME NEW r \in Requests, Wait(r) \/ SigKill(r)
         PROVE  TypeOK'
    <3>1. UNCHANGED <<disk, request, target, data, after, history>>
      BY <2>13 DEF Wait, SigKill
    <3>2. target[r] \in Instances
      BY <2>13 DEF Targeted, Wait, SigKill
    <3>3. UNCHANGED processes \/ Die(target[r], "gone") \/ Die(target[r], "zombie")
      BY <2>13 DEF Wait, SigKill
    <3>4. ProcessesOK'
      BY <3>2, <3>3, DieTyped DEF TypeOK, ProcessesOK
    <3>5. \/ UNCHANGED outcome /\ \E l \in {"sigkill", "forget"} : pc' = [pc EXCEPT ![r] = l]
          \/ Finish(r, "ok") \/ Finish(r, "failed")
      BY <2>13 DEF Wait, SigKill, Signalled, GoTo
    <3>6. OutcomeOK' /\ \E l \in {"sigkill", "forget", "idle"} : pc' = [pc EXCEPT ![r] = l]
      BY <3>5, FinishTyped DEF TypeOK, OutcomeOK, Answers
    <3> QED
      BY <3>1, <3>4, <3>6 DEF TypeOK, FilesOK, RequestsOK, HistoryOK
  <2>14. CASE Host
    <3>1. UNCHANGED <<disk, pc, request, target, data, after, outcome, history>>
      BY <2>14 DEF Host, Exit, Reap, Listen, StartedOutside
    <3>2. ProcessesOK'
      <4>1. ASSUME NEW i \in Instances, Exit(i) \/ Reap(i)
            PROVE  ProcessesOK'
        BY <4>1, DieTyped DEF Exit, Reap
      <4>2. ASSUME NEW i \in Instances, NEW e \in Entries, Listen(i, e)
            PROVE  ProcessesOK'
        BY <4>2 DEF TypeOK, ProcessesOK, Listen
      <4>3. ASSUME NEW i \in Instances, NEW w \in Entries \cup Strangers, StartedOutside(i, w)
            PROVE  ProcessesOK'
        BY <4>3, BornTyped DEF TypeOK, ProcessesOK, StartedOutside
      <4> QED
        BY <2>14, <4>1, <4>2, <4>3 DEF Host
    <3> QED
      BY <3>1, <3>2 DEF TypeOK, FilesOK, RequestsOK, OutcomeOK, HistoryOK
  <2>15. CASE Restart
    <3>1. UNCHANGED <<pid, runs, child, file, tmp, op, entry, announced, stopped, overlapped>>
      BY <2>15 DEF Restart
    <3>2. ProcessesOK'
      BY <2>15 DEF TypeOK, ProcessesOK, Restart
    <3>3. FilesOK'
      BY <2>15, NoRecordsTyped DEF TypeOK, FilesOK, Restart, Registry
    <3>4. RequestsOK' /\ OutcomeOK'
      BY <2>15 DEF TypeOK, RequestsOK, OutcomeOK, Restart, Answers
    <3>5. effect' \in [Requests -> BOOLEAN] /\ deadAt' \in [Requests -> SUBSET Instances]
      BY <2>15 DEF Restart
    <3> QED
      BY <3>1, <3>2, <3>3, <3>4, <3>5 DEF TypeOK, HistoryOK
  <2>16. CASE UNCHANGED vars
    BY <2>16 DEF vars, TypeOK, ProcessesOK, FilesOK, RequestsOK, OutcomeOK, HistoryOK
  <2> QED
    BY <2>1, <2>2, <2>3, <2>4, <2>5, <2>6, <2>7, <2>8, <2>9, <2>10, <2>11, <2>12, <2>13, <2>14,
       <2>15, <2>16 DEF Next, Step
<1>2. TypeOK /\ Targeted /\ [Next]_vars => Targeted'
  <2> SUFFICES ASSUME TypeOK, Targeted, [Next]_vars
               PROVE  Targeted'
    OBVIOUS
  <2> USE DEF Targeted, TypeOK, RequestsOK, GoTo, Finish, Save, Signalled
  <2>1. ASSUME NEW r \in Requests, NEW o \in Operations, NEW e \in Entries,
               NEW i \in Instances \cup {None}, Begin(r, o, e, i)
        PROVE  Targeted'
    BY <2>1 DEF Begin
  <2>2. ASSUME NEW r \in Requests, OpenTmp(r) \/ WriteTmp(r)
        PROVE  Targeted'
    BY <2>2 DEF OpenTmp, WriteTmp, request
  <2>3. ASSUME NEW r \in Requests, Replace(r)
        PROVE  Targeted'
    BY <2>3 DEF Replace, request
  <2>4. ASSUME NEW r \in Requests, Prune(r)
        PROVE  Targeted'
    BY <2>4 DEF Prune
  <2>5. ASSUME NEW r \in Requests, Check(r) \/ Conflict(r)
        PROVE  Targeted'
    BY <2>5 DEF Check, Conflict
  <2>6. ASSUME NEW r \in Requests, Spawn(r)
        PROVE  Targeted'
    BY <2>6 DEF Spawn
  <2>7. ASSUME NEW r \in Requests, Record(r) \/ Settle(r) \/ Forget(r)
        PROVE  Targeted'
    BY <2>7 DEF Record, Settle, Forget
  <2>8. ASSUME NEW r \in Requests, Signal(r)
        PROVE  Targeted'
    BY <2>8 DEF Signal, Held
  <2>9. ASSUME NEW r \in Requests, Wait(r) \/ SigKill(r)
        PROVE  Targeted'
    BY <2>9 DEF Wait, SigKill
  <2>10. CASE Host \/ UNCHANGED vars
    BY <2>10 DEF Host, Exit, Reap, Listen, StartedOutside, vars
  <2>11. CASE Restart
    BY <2>11 DEF Restart
  <2> QED
    BY <2>1, <2>2, <2>3, <2>4, <2>5, <2>6, <2>7, <2>8, <2>9, <2>10, <2>11 DEF Next, Step
<1>3. Init => Targeted
  BY DEF Init, Targeted
<1> QED
  BY <1>1, <1>2, <1>3, RegistryInit, PTL DEF Spec

-----------------------------------------------------------------------------
(* An instance this service started for the entry.                           *)
Own(e, i) == i \in child /\ runs[i] = e /\ life[i] # "unborn"

(* Two processes never have one pid.                                         *)
PidsDiffer ==
    \A i, j \in Instances :
        life[i] \in {"alive", "zombie"} /\ life[j] \in {"alive", "zombie"} /\ pid[i] = pid[j]
            => i = j

(* What is recorded, on disk or about to be, the service has started.        *)
RecordsOwn ==
    \A e \in Entries :
        /\ file.records[e] # None => Own(e, file.records[e])
        /\ tmp.records[e] # None => Own(e, tmp.records[e])
        /\ \A r \in Requests : data[r][e] # None => Own(e, data[r][e])

(* So is what a launch is about to record, and what a stop is about to       *)
(* signal, whose pid nothing else has meanwhile.                             *)
TargetOwn(r) ==
    /\ pc[r] = "record" => Own(entry[r], target[r])
    /\ pc[r] # "idle" /\ op[r] = "stop" /\ target[r] # None =>
           /\ Own(entry[r], target[r])
           /\ Held(pid[target[r]]) \subseteq {target[r]}

TargetsOwn == \A r \in Requests : TargetOwn(r)

(* A stop comes to no step of a launch.                                      *)
StopsStop ==
    \A r \in Requests : op[r] = "stop" =>
        /\ pc[r] \notin {"check", "conflict", "spawn", "record", "settle"}
        /\ pc[r] \in {"open", "write", "replace"} => after[r] \in {"signal", "answer"}

StoppedOwn == \A s \in stopped : Own(s[1], s[2])

OwnInv == PidsDiffer /\ RecordsOwn /\ StopsStop /\ TargetsOwn /\ StoppedOwn

(* What a step does to the processes: one is born, under a pid that no       *)
(* process has and no request is about, and the others keep what they are    *)
(* and hold no pid they did not hold.                                        *)
Ages ==
    \A i \in Instances :
        /\ life[i] # "unborn" => /\ life'[i] # "unborn" /\ runs'[i] = runs[i] /\ pid'[i] = pid[i]
                                 /\ i \in child => i \in child'
                                 /\ life'[i] \in {"alive", "zombie"} => life[i] \in {"alive", "zombie"}
                                 /\ life'[i] = "alive" => life[i] = "alive"
        /\ life[i] = "unborn" /\ life'[i] \in {"alive", "zombie"} =>
               /\ Held(pid'[i]) = {}
               /\ \A r \in Requests : pc[r] # "idle" /\ target[r] # None => pid[target[r]] # pid'[i]
               /\ \A j \in Instances : j # i => life'[j] = life[j] /\ pid'[j] = pid[j]

LEMMA BornAges ==
    ASSUME TypeOK, NEW i \in Instances, NEW what, Born(i, what), child \subseteq child'
    PROVE  Ages
BY DEF TypeOK, ProcessesOK, Born, Ages, Held

LEMMA DieAges ==
    ASSUME TypeOK, NEW i \in Instances, NEW how \in {"zombie", "gone"}, Die(i, how),
           life[i] \in {"alive", "zombie"} \/ how = "gone"
    PROVE  Ages
BY DEF TypeOK, ProcessesOK, Die, Ages

LEMMA StillAges == ASSUME UNCHANGED processes PROVE Ages
BY DEF processes, Ages

(* Every step.                                                               *)
LEMMA EveryStepAges ==
    ASSUME TypeOK, Targeted, [Next]_vars
    PROVE  Ages
<1>1. CASE UNCHANGED processes
  BY <1>1, StillAges
<1>2. ASSUME NEW r \in Requests, Spawn(r), ~UNCHANGED processes
      PROVE  Ages
  BY <1>2, BornAges DEF Spawn
<1>3. ASSUME NEW r \in Requests, Wait(r) \/ SigKill(r), ~UNCHANGED processes
      PROVE  Ages
  <2>1. target[r] \in Instances
    BY <1>3 DEF Targeted, Wait, SigKill
  <2>2. \E how \in {"zombie", "gone"} :
            Die(target[r], how) /\ (life[target[r]] \in {"alive", "zombie"} \/ how = "gone")
    BY <1>3 DEF Wait, SigKill
  <2> QED
    BY <2>1, <2>2, DieAges
<1>4. CASE Host
  <2>1. ASSUME NEW i \in Instances, Exit(i) \/ Reap(i)
        PROVE  Ages
    BY <2>1, DieAges DEF Exit, Reap
  <2>2. ASSUME NEW i \in Instances, NEW e \in Entries, Listen(i, e)
        PROVE  Ages
    BY <2>2 DEF Listen, Ages
  <2>3. ASSUME NEW i \in Instances, NEW w \in Entries \cup Strangers, StartedOutside(i, w)
        PROVE  Ages
    BY <2>3, BornAges DEF StartedOutside
  <2> QED
    BY <1>4, <2>1, <2>2, <2>3 DEF Host
<1>5. CASE Restart
  BY <1>5 DEF Restart, Ages, TypeOK, ProcessesOK
<1>6. ASSUME NEW r \in Requests,
             \/ OpenTmp(r) \/ WriteTmp(r) \/ Replace(r) \/ Prune(r) \/ Check(r) \/ Conflict(r)
             \/ Record(r) \/ Settle(r) \/ Forget(r) \/ Signal(r)
      PROVE  UNCHANGED processes
  BY <1>6 DEF OpenTmp, WriteTmp, Replace, Prune, Check, Conflict, Record, Settle, Forget, Signal
<1>7. ASSUME NEW r \in Requests, NEW o \in Operations, NEW e \in Entries,
             NEW i \in Instances \cup {None}, Begin(r, o, e, i)
      PROVE  UNCHANGED processes
  BY <1>7 DEF Begin
<1> QED
  BY <1>1, <1>2, <1>3, <1>4, <1>5, <1>6, <1>7 DEF Next, Step, vars

(* What was started for an entry stays that.                                 *)
LEMMA OwnStays ==
    ASSUME TypeOK, Ages, NEW e \in Entries, NEW i, Own(e, i)
    PROVE  Own(e, i)'
BY DEF TypeOK, ProcessesOK, Ages, Own

(* Where a record comes from: a file, a save in the making, or a launch.     *)
LEMMA RecordsMove ==
    ASSUME TypeOK, Targeted, [Next]_vars, NEW e \in Entries
    PROVE  LET Known == {file.records[e], tmp.records[e], None} \cup {data[r][e] : r \in Requests}
           IN  /\ file'.records[e] \in Known /\ tmp'.records[e] \in Known
               /\ \A q \in Requests :
                     \/ data'[q][e] \in Known
                     \/ pc[q] = "record" /\ e = entry[q] /\ data'[q][e] = target[q]
<1> DEFINE Known == {file.records[e], tmp.records[e], None} \cup {data[r][e] : r \in Requests}
<1>1. CASE UNCHANGED <<file, tmp, data>>
  BY <1>1
<1>2. ASSUME NEW r \in Requests, OpenTmp(r)
      PROVE  file'.records[e] \in Known /\ tmp'.records[e] \in Known /\ UNCHANGED data
  BY <1>2 DEF OpenTmp, File, NoRecords
<1>3. ASSUME NEW r \in Requests, WriteTmp(r)
      PROVE  file'.records[e] \in Known /\ tmp'.records[e] \in Known /\ UNCHANGED data
  BY <1>3 DEF WriteTmp, Written, File, NoRecords
<1>4. ASSUME NEW r \in Requests, Replace(r)
      PROVE  /\ file'.records[e] \in Known /\ tmp'.records[e] \in Known
             /\ \A q \in Requests : data'[q][e] \in Known
  BY <1>4 DEF Replace, File, NoRecords, TypeOK, FilesOK
<1>5. Loaded(file)[e] \in {file.records[e], None} /\ Live(Loaded(file))[e] \in {file.records[e], None}
  BY DEF Loaded, Live, NoRecords
<1>6. ASSUME NEW r \in Requests, Prune(r) \/ Record(r) \/ Forget(r), ~UNCHANGED data
      PROVE  \A q \in Requests :
                 \/ data'[q][e] \in Known
                 \/ pc[q] = "record" /\ e = entry[q] /\ data'[q][e] = target[q]
  <2>1. CASE Prune(r)
    BY <1>5, <1>6, <2>1 DEF Prune, Save, TypeOK, FilesOK
  <2>2. CASE Record(r)
    <3>1. [Loaded(file) EXCEPT ![entry[r]] = target[r]][e] = IF e = entry[r] THEN target[r] ELSE Loaded(file)[e]
      BY LoadedTyped DEF TypeOK, FilesOK, Registry
    <3> QED
      BY <1>5, <2>2, <3>1 DEF Record, Save, TypeOK, FilesOK
  <2>3. CASE Forget(r)
    <3>1. [Loaded(file) EXCEPT ![entry[r]] = None][e] \in {None, Loaded(file)[e]}
      BY LoadedTyped DEF TypeOK, FilesOK, Registry
    <3> QED
      BY <1>5, <1>6, <2>3, <3>1 DEF Forget, Save, TypeOK, FilesOK
  <2> QED
    BY <1>6, <2>1, <2>2, <2>3
<1>7. ASSUME NEW r \in Requests, Prune(r) \/ Record(r) \/ Forget(r)
      PROVE  UNCHANGED <<file, tmp>>
  BY <1>7 DEF Prune, Record, Forget, disk
<1>8. CASE Restart
  BY <1>8 DEF Restart, NoRecords
<1>9. ASSUME NEW r \in Requests,
             Check(r) \/ Conflict(r) \/ Spawn(r) \/ Settle(r) \/ Signal(r) \/ Wait(r) \/ SigKill(r)
      PROVE  UNCHANGED <<file, tmp, data>>
  BY <1>9 DEF Check, Conflict, Spawn, Settle, Signal, Wait, SigKill, disk
<1>10. CASE Host
  BY <1>10 DEF Host, Exit, Reap, Listen, StartedOutside, disk
<1>11. ASSUME NEW r \in Requests, NEW o \in Operations, NEW f \in Entries,
              NEW i \in Instances \cup {None}, Begin(r, o, f, i)
       PROVE  UNCHANGED <<file, tmp, data>>
  BY <1>11 DEF Begin, disk
<1> QED
  BY <1>1, <1>2, <1>3, <1>4, <1>6, <1>7, <1>8, <1>9, <1>10, <1>11 DEF Next, Step, vars, disk

(* The pid of a process that a request is about goes to no other.            *)
LEMMA HeldStays ==
    ASSUME TypeOK, Ages, NEW r \in Requests, pc[r] # "idle", target[r] # None,
           NEW i \in Instances, i = target[r], life[i] # "unborn", Held(pid[i]) \subseteq {i}
    PROVE  Held(pid[i])' \subseteq {i}
BY DEF TypeOK, ProcessesOK, Ages, Held

(* A request that goes on with what it is about.                             *)
Same(r) ==
    /\ target'[r] = target[r] /\ entry'[r] = entry[r] /\ op'[r] = op[r]
    /\ pc'[r] # "idle" => pc[r] # "idle"
    /\ pc'[r] = "record" => pc[r] = "record"

LEMMA SameStaysOwn ==
    ASSUME TypeOK, Ages, NEW r \in Requests, TargetOwn(r), Same(r)
    PROVE  TargetOwn(r)'
<1>1. PICK i \in Instances \cup {None} : i = target[r]
  BY DEF TypeOK, RequestsOK
<1>2. PICK e \in Entries : e = entry[r]
  BY DEF TypeOK, RequestsOK
<1>3. Own(e, i) => Own(e, i)'
  BY OwnStays
<1>4. ASSUME pc[r] # "idle", op[r] = "stop", i # None
      PROVE  Held(pid[i])' \subseteq {i}
  <2>1. life[i] # "unborn" /\ Held(pid[i]) \subseteq {i}
    BY <1>1, <1>4 DEF TargetOwn, Own
  <2> QED
    BY <1>1, <1>4, <2>1, HeldStays
<1>5. target'[r] = i /\ entry'[r] = e
  BY <1>1, <1>2 DEF Same
<1>6. pc'[r] = "record" => Own(e, i)'
  BY <1>1, <1>2, <1>3 DEF TargetOwn, Same
<1>7. pc'[r] # "idle" /\ op'[r] = "stop" /\ i # None => Own(e, i)' /\ Held(pid[i])' \subseteq {i}
  BY <1>1, <1>2, <1>3, <1>4 DEF TargetOwn, Same
<1> QED
  BY <1>5, <1>6, <1>7 DEF TargetOwn, Own, Held

(* What a launch or a stop is about.                                         *)
LEMMA TargetsStayOwn ==
    ASSUME TypeOK, Targeted, OwnInv, Ages, [Next]_vars
    PROVE  TargetsOwn'
<1> SUFFICES ASSUME NEW q \in Requests, ~Same(q)
             PROVE  TargetOwn(q)'
  BY SameStaysOwn DEF OwnInv, TargetsOwn
<1> USE DEF GoTo, Finish, Save, request
<1>1. ASSUME NEW o \in Operations, NEW e \in Entries, NEW i \in Instances \cup {None},
             NEW r \in Requests, Begin(r, o, e, i)
      PROVE  TargetOwn(q)'
  <2>1. q = r
    BY <1>1 DEF Begin, Same, TypeOK, RequestsOK
  <2>2. pc'[r] # "record" /\ (op'[r] = "stop" => target'[r] = None)
    BY <1>1 DEF Begin, TypeOK, RequestsOK
  <2> QED
    BY <2>1, <2>2 DEF TargetOwn
<1>2. ASSUME NEW r \in Requests, OpenTmp(r) \/ WriteTmp(r) \/ Replace(r)
      PROVE  FALSE
  BY <1>2 DEF OpenTmp, WriteTmp, Replace, Same, TypeOK, RequestsOK
<1>3. ASSUME NEW r \in Requests, Check(r) \/ Conflict(r)
      PROVE  TargetOwn(q)'
  <2>1. q = r
    BY <1>3 DEF Check, Conflict, Same, TypeOK, RequestsOK
  <2>2. pc'[r] # "record" /\ op'[r] # "stop"
    BY <1>3 DEF Check, Conflict, OwnInv, StopsStop, TypeOK, RequestsOK
  <2> QED
    BY <2>1, <2>2 DEF TargetOwn
<1>4. ASSUME NEW r \in Requests, Prune(r)
      PROVE  TargetOwn(q)'
  <2>1. q = r
    BY <1>4 DEF Prune, Same, TypeOK, RequestsOK
  <2>2. PICK e \in Entries : e = entry[r]
    BY DEF TypeOK, RequestsOK
  <2>3. PICK i \in Instances \cup {None} : i = Live(Loaded(file))[e]
    BY <2>2, LoadedTyped DEF TypeOK, FilesOK, Registry
  <2>4. target'[r] = i /\ entry'[r] = e /\ pc'[r] # "record" /\ UNCHANGED processes
    BY <1>4, <2>2, <2>3 DEF Prune, TypeOK, RequestsOK
  <2>5. ASSUME i # None
        PROVE  Own(e, i) /\ Held(pid[i]) \subseteq {i}
    <3>1. i = file.records[e] /\ Alive(i)
      BY <2>3, <2>5 DEF Live, Loaded, NoRecords
    <3>2. Own(e, i)
      BY <2>5, <3>1 DEF OwnInv, RecordsOwn
    <3>3. life[i] = "alive" /\ i \in Instances
      BY <2>5, <3>1 DEF Alive, SameStart
    <3> QED
      BY <3>2, <3>3 DEF OwnInv, PidsDiffer, Held
  <2> QED
    BY <2>1, <2>4, <2>5 DEF TargetOwn, Own, Held, processes
<1>5. ASSUME NEW r \in Requests, Spawn(r)
      PROVE  TargetOwn(q)'
  <2>1. q = r
    BY <1>5 DEF Spawn, Same, TypeOK, RequestsOK
  <2>2. PICK i \in Instances : /\ Born(i, entry[r]) /\ child' = child \cup {i}
                               /\ target' = [target EXCEPT ![r] = i]
    BY <1>5, <2>1 DEF Spawn, Same, TypeOK, RequestsOK
  <2>3. op'[r] # "stop" /\ entry'[r] = entry[r]
    BY <1>5 DEF Spawn, OwnInv, StopsStop
  <2>4. target'[r] = i /\ i \in child' /\ runs'[i] = entry[r] /\ life'[i] = "alive"
    BY <2>2 DEF Born, TypeOK, ProcessesOK, RequestsOK
  <2> QED
    BY <2>1, <2>3, <2>4 DEF TargetOwn, Own
<1>6. ASSUME NEW r \in Requests, Record(r) \/ Settle(r) \/ Forget(r) \/ Wait(r) \/ SigKill(r)
      PROVE  FALSE
  BY <1>6 DEF Record, Settle, Forget, Wait, SigKill, Signalled, Same, TypeOK, RequestsOK
<1>7. ASSUME NEW r \in Requests, Signal(r)
      PROVE  TargetOwn(q)'
  <2>1. q = r /\ ~UNCHANGED target
    BY <1>7 DEF Signal, Same, TypeOK, RequestsOK
  <2>2. PICK i \in Held(pid[target[r]]) : target' = [target EXCEPT ![r] = i] /\ target[r] # None
    BY <1>7, <2>1 DEF Signal
  <2>3. target'[r] = i /\ UNCHANGED <<entry, op>> /\ pc'[r] # "record" /\ pc[r] # "idle"
    BY <1>7, <2>2 DEF Signal, TypeOK, RequestsOK
  <2>4. op[r] = "stop" => i = target[r]
    BY <2>2, <2>3 DEF OwnInv, TargetsOwn, TargetOwn
  <2>5. op[r] = "stop" => Same(r)
    BY <2>3, <2>4 DEF Same
  <2> QED
    BY <2>1, <2>3, <2>5 DEF TargetOwn
<1>8. CASE Host \/ UNCHANGED vars
  BY <1>8 DEF Host, Exit, Reap, Listen, StartedOutside, Same, vars
<1>9. CASE Restart
  BY <1>9 DEF Restart, TargetOwn
<1> QED
  BY <1>1, <1>2, <1>3, <1>4, <1>5, <1>6, <1>7, <1>8, <1>9 DEF Next, Step

(* The steps of a stop.                                                      *)
LEMMA StopsGoOn ==
    ASSUME TypeOK, StopsStop, [Next]_vars
    PROVE  StopsStop'
<1> USE DEF StopsStop, TypeOK, RequestsOK, GoTo, Finish, Save, request
<1>1. ASSUME NEW o \in Operations, NEW e \in Entries, NEW i \in Instances \cup {None},
             NEW r \in Requests, Begin(r, o, e, i)
      PROVE  StopsStop'
  BY <1>1 DEF Begin
<1>2. ASSUME NEW r \in Requests, OpenTmp(r) \/ WriteTmp(r) \/ Replace(r)
      PROVE  StopsStop'
  BY <1>2 DEF OpenTmp, WriteTmp, Replace
<1>3. ASSUME NEW r \in Requests, Prune(r)
      PROVE  StopsStop'
  BY <1>3 DEF Prune
<1>4. ASSUME NEW r \in Requests, Check(r) \/ Conflict(r) \/ Spawn(r) \/ Record(r) \/ Settle(r)
      PROVE  StopsStop'
  BY <1>4 DEF Check, Conflict, Spawn, Record, Settle
<1>5. ASSUME NEW r \in Requests, Forget(r) \/ Signal(r) \/ Wait(r) \/ SigKill(r)
      PROVE  StopsStop'
  BY <1>5 DEF Forget, Signal, Wait, SigKill, Signalled
<1>6. CASE Host \/ UNCHANGED vars
  BY <1>6 DEF Host, Exit, Reap, Listen, StartedOutside, vars
<1>7. CASE Restart
  BY <1>7 DEF Restart
<1> QED
  BY <1>1, <1>2, <1>3, <1>4, <1>5, <1>6, <1>7 DEF Next, Step

(* What a stop signals.                                                      *)
LEMMA StopsAddOwn ==
    ASSUME TypeOK, OwnInv, [Next]_vars, NEW s \in stopped', s \notin stopped
    PROVE  s \in Entries \X Instances /\ Own(s[1], s[2])
<1>1. PICK r \in Requests : Signal(r)
  BY DEF Next, Step, Begin, OpenTmp, WriteTmp, Replace, Prune, Check, Conflict, Spawn, Record,
         Settle, Forget, Wait, SigKill, Host, Exit, Reap, Listen, StartedOutside, Restart, vars,
         history
<1>2. PICK i \in Held(pid[target[r]]) : s = <<entry[r], i>> /\ op[r] = "stop" /\ target[r] # None
  BY <1>1 DEF Signal
<1>3. i = target[r] /\ Own(entry[r], target[r])
  BY <1>1, <1>2 DEF OwnInv, TargetsOwn, TargetOwn, Signal
<1> QED
  BY <1>2, <1>3 DEF TypeOK, RequestsOK, Held

(* The inductive invariant.                                                  *)
THEOREM OnlyOwnIsTargeted == Spec => []OwnInv
<1>1. Init => OwnInv
  BY DEF Init, OwnInv, PidsDiffer, RecordsOwn, StopsStop, TargetsOwn, TargetOwn, StoppedOwn, File,
         NoRecords
<1>2. TypeOK /\ Targeted /\ OwnInv /\ [Next]_vars => OwnInv'
  <2> SUFFICES ASSUME TypeOK, Targeted, OwnInv, [Next]_vars
               PROVE  OwnInv'
    OBVIOUS
  <2>1. Ages
    BY EveryStepAges
  <2>2. PidsDiffer'
    BY <2>1 DEF OwnInv, PidsDiffer, Ages, Held, TypeOK, ProcessesOK
  <2>3. ASSUME NEW e \in Entries
        PROVE  /\ (file.records[e] # None => Own(e, file.records[e]))'
               /\ (tmp.records[e] # None => Own(e, tmp.records[e]))'
               /\ \A q \in Requests : (data[q][e] # None => Own(e, data[q][e]))'
    <3> DEFINE Known == {file.records[e], tmp.records[e], None} \cup {data[r][e] : r \in Requests}
    <3>1. ASSUME NEW i \in Known, i # None
          PROVE  Own(e, i)'
      <4>1. Own(e, i)
        BY <3>1 DEF OwnInv, RecordsOwn
      <4> QED
        BY <2>1, <4>1, OwnStays
    <3>2. ASSUME NEW q \in Requests, pc[q] = "record", e = entry[q], NEW i, i = target[q]
          PROVE  Own(e, i)'
      <4>1. Own(e, i)
        BY <3>2 DEF OwnInv, TargetsOwn, TargetOwn
      <4> QED
        BY <2>1, <4>1, OwnStays
    <3>3. /\ file'.records[e] \in Known /\ tmp'.records[e] \in Known
          /\ \A q \in Requests :
                \/ data'[q][e] \in Known
                \/ pc[q] = "record" /\ e = entry[q] /\ data'[q][e] = target[q]
      BY RecordsMove
    <3> HIDE DEF Known
    <3> QED
      BY <3>1, <3>2, <3>3 DEF Own
  <2>4. RecordsOwn'
    BY <2>3 DEF RecordsOwn
  <2>5. StopsStop' /\ TargetsOwn'
    BY <2>1, StopsGoOn, TargetsStayOwn DEF OwnInv
  <2>6. StoppedOwn'
    <3>1. ASSUME NEW s \in stopped'
          PROVE  s \in Entries \X Instances /\ Own(s[1], s[2])
      BY <3>1, StopsAddOwn DEF OwnInv, StoppedOwn, TypeOK, HistoryOK
    <3>2. ASSUME NEW s \in stopped'
          PROVE  Own(s[1], s[2])'
      BY <2>1, <3>1, OwnStays
    <3> QED
      BY <3>2 DEF StoppedOwn
  <2> QED
    BY <2>2, <2>4, <2>5, <2>6 DEF OwnInv
<1> QED
  BY <1>1, <1>2, RegistryTypeCorrect, PTL DEF Spec

(* A stop signals no process but one that this service started for the entry *)
(* it is about, whatever became of the file, the pids and the service.       *)
THEOREM StopsHitOwn == Spec => []StopHitsOwnInstance
<1>1. OwnInv => StopHitsOwnInstance
  BY DEF OwnInv, StoppedOwn, Own, StopHitsOwnInstance
<1> QED
  BY <1>1, OnlyOwnIsTargeted, PTL

-----------------------------------------------------------------------------
Saving(r) == pc[r] \in {"open", "write", "replace"}

(* A request that has started or signalled a process comes to no step that   *)
(* may deny it, and listing does neither.                                    *)
Logging(r) ==
    /\ answer[r] # "none" => pc[r] = "idle"
    /\ op[r] = "list" => pc[r] \in {"idle", "prune"} \/ (Saving(r) /\ after[r] = "answer")
    /\ effect[r] => /\ op[r] # "list" /\ pc[r] \notin {"prune", "signal"}
                    /\ Saving(r) => after[r] # "signal"
    /\ answer[r] # "none" /\ effect[r] => logged[r]

(* What a request did to a process is in the action log when it is answered, *)
(* whichever way it failed, and whatever the requests beside it did.         *)
THEOREM EffectsAreLogged == Spec => []EffectsLogged
<1> DEFINE Inv == \A r \in Requests : Logging(r)
<1>1. Init => Inv
  BY DEF Init, Logging
<1>2. TypeOK /\ Inv /\ [Next]_vars => Inv'
  <2> SUFFICES ASSUME TypeOK, Inv, [Next]_vars, NEW q \in Requests
               PROVE  Logging(q)'
    OBVIOUS
  <2> USE DEF Logging, Saving, GoTo, request, outcome, history
  <2>1. ASSUME pc'[q] = pc[q], op'[q] = op[q], after'[q] = after[q],
               answer'[q] = answer[q], effect'[q] = effect[q], logged'[q] = logged[q]
        PROVE  Logging(q)'
    BY <2>1
  <2>2. ASSUME NEW a, Finish(q, a), UNCHANGED <<op, effect>>, a = "denied" => ~effect[q], pc[q] # "idle"
        PROVE  Logging(q)'
    BY <2>2 DEF Finish, TypeOK, RequestsOK, OutcomeOK, HistoryOK
  <2>3. ASSUME NEW r \in Requests, NEW o \in Operations, NEW e \in Entries,
               NEW i \in Instances \cup {None}, Begin(r, o, e, i)
        PROVE  Logging(q)'
    BY <2>1, <2>3 DEF Begin, TypeOK, RequestsOK, OutcomeOK, HistoryOK
  <2>4. ASSUME NEW r \in Requests, Step(r)
        PROVE  Logging(q)'
    <3>1. CASE r # q
      BY <2>1, <2>4, <3>1 DEF Step, OpenTmp, WriteTmp, Replace, Prune, Check, Conflict, Spawn, Record,
         Settle, Forget, Signal, Wait, SigKill, Signalled, Finish, Save, TypeOK, RequestsOK, OutcomeOK, HistoryOK
    <3>2. CASE r = q /\ (OpenTmp(r) \/ WriteTmp(r) \/ Record(r))
      BY <3>2 DEF OpenTmp, WriteTmp, Record, Save, TypeOK, RequestsOK
    <3>3. CASE r = q /\ Replace(r)
      BY <2>2, <3>3 DEF Replace, TypeOK, RequestsOK
    <3>4. CASE r = q /\ Prune(r)
      BY <2>2, <3>4 DEF Prune, Save, TypeOK, RequestsOK
    <3>5. CASE r = q /\ (Check(r) \/ Conflict(r))
      BY <2>2, <3>5 DEF Check, Conflict, TypeOK, RequestsOK
    <3>6. CASE r = q /\ Spawn(r)
      BY <2>2, <3>6 DEF Spawn, TypeOK, RequestsOK
    <3>7. CASE r = q /\ Settle(r)
      BY <2>2, <3>7 DEF Settle, TypeOK, RequestsOK
    <3>8. CASE r = q /\ Forget(r)
      BY <2>2, <3>8 DEF Forget, Save, TypeOK, RequestsOK
    <3>9. CASE r = q /\ Signal(r)
      BY <2>2, <3>9 DEF Signal, TypeOK, RequestsOK, HistoryOK
    <3>10. CASE r = q /\ (Wait(r) \/ SigKill(r))
      BY <2>2, <3>10 DEF Wait, SigKill, Signalled, TypeOK, RequestsOK
    <3> QED
      BY <2>4, <3>1, <3>2, <3>3, <3>4, <3>5, <3>6, <3>7, <3>8, <3>9, <3>10 DEF Step
  <2>5. CASE Host \/ UNCHANGED vars
    BY <2>1, <2>5 DEF Host, Exit, Reap, Listen, StartedOutside, vars
  <2>6. CASE Restart
    BY <2>6 DEF Restart
  <2> QED
    BY <2>3, <2>4, <2>5, <2>6 DEF Next
<1>3. Inv => EffectsLogged
  BY DEF Logging, EffectsLogged
<1> QED
  BY <1>1, <1>2, <1>3, RegistryTypeCorrect, PTL DEF Spec

-----------------------------------------------------------------------------
(* What listens is alive, and what was dead when a launch began is dead.     *)
PortsLive == \A e \in Entries : port[e] # None => life[port[e]] = "alive"

DeadSince == \A r \in Requests : \A i \in deadAt[r] : life[i] \in {"zombie", "gone"}

(* An instance that a refusal may name, and where it is the target.          *)
Nameable(r, e, i) ==
    /\ i \in Instances /\ i \notin deadAt[r] /\ life[i] # "unborn"
    /\ (i \in child /\ runs[i] = e) \/ runs[i] \in Hidden \/ e \in Names[runs[i]]

Checked(r) == pc[r] = "check" \/ (Saving(r) /\ after[r] = "check")

Named(r) ==
    /\ answer[r] = "running" => pc[r] = "idle" /\ Nameable(r, entry[r], target[r])
    /\ Checked(r) /\ target[r] # None => Nameable(r, entry[r], target[r])

NamesInv == PortsLive /\ DeadSince /\ \A r \in Requests : Named(r)

(* A process listens while it lives.                                         *)
LEMMA ListenersLive ==
    ASSUME TypeOK, Targeted, PortsLive, [Next]_vars
    PROVE  PortsLive'
<1> USE DEF PortsLive, TypeOK, ProcessesOK
<1>1. ASSUME NEW i \in Instances, NEW how, Die(i, how)
      PROVE  PortsLive'
  BY <1>1 DEF Die
<1>2. ASSUME NEW i \in Instances, NEW what, Born(i, what)
      PROVE  PortsLive'
  BY <1>2 DEF Born
<1>3. ASSUME NEW r \in Requests, NEW o \in Operations, NEW e \in Entries,
             NEW i \in Instances \cup {None}, Begin(r, o, e, i)
      PROVE  PortsLive'
  BY <1>3 DEF Begin, processes
<1>4. ASSUME NEW r \in Requests, Step(r)
      PROVE  PortsLive'
  <2>1. CASE UNCHANGED processes
    BY <2>1 DEF processes
  <2>2. CASE Spawn(r)
    BY <1>2, <2>1, <2>2 DEF Spawn
  <2>3. CASE Wait(r) \/ SigKill(r)
    <3>1. target[r] \in Instances
      BY <2>3 DEF Targeted, Wait, SigKill
    <3> QED
      BY <1>1, <2>1, <2>3, <3>1 DEF Wait, SigKill
  <2> QED
    BY <1>4, <2>1, <2>2, <2>3 DEF Step, OpenTmp, WriteTmp, Replace, Prune, Check, Conflict, Record, Settle,
       Forget, Signal
<1>5. CASE Host
  BY <1>1, <1>2, <1>5 DEF Host, Exit, Reap, Listen, StartedOutside, Living
<1>6. CASE Restart
  BY <1>6 DEF Restart
<1>7. CASE UNCHANGED vars
  BY <1>7 DEF vars, processes
<1> QED
  BY <1>3, <1>4, <1>5, <1>6, <1>7 DEF Next

(* A launch that is refused names what was not dead when it began: what was  *)
(* launched for the entry, what has its executable among its arguments, or   *)
(* another user's process.                                                   *)
THEOREM RefusalsNameLive == Spec => []RefusalNamesLiveInstance
<1>1. Init => NamesInv
  BY DEF Init, NamesInv, PortsLive, DeadSince, Named, Checked, Saving
<1>2. TypeOK /\ TypeOK' /\ Targeted /\ OwnInv /\ NamesInv /\ [Next]_vars => NamesInv'
  <2> SUFFICES ASSUME TypeOK, TypeOK', Targeted, OwnInv, NamesInv, [Next]_vars
               PROVE  NamesInv'
    OBVIOUS
  <2>1. Ages
    BY EveryStepAges
  <2>2. PortsLive'
    BY ListenersLive DEF NamesInv
  <2>3. DeadSince'
    <3>1. ASSUME NEW r \in Requests, NEW o \in Operations, NEW e \in Entries,
                 NEW i \in Instances \cup {None}, Begin(r, o, e, i)
          PROVE  DeadSince'
      BY <3>1 DEF Begin, DeadSince, NamesInv, TypeOK, HistoryOK, processes
    <3>2. CASE Restart
      BY <3>2 DEF Restart, DeadSince
    <3>3. CASE UNCHANGED deadAt
      BY <2>1, <3>3 DEF DeadSince, NamesInv, Ages, TypeOK, HistoryOK, ProcessesOK
    <3> QED
      BY <3>1, <3>2, <3>3 DEF Next, Step, Host, OpenTmp, WriteTmp, Replace, Prune, Check, Conflict, Spawn,
         Record, Settle, Forget, Signal, Wait, SigKill, Exit, Reap, Listen, StartedOutside, vars, request
  <2>4. ASSUME NEW q \in Requests
        PROVE  Named(q)'
    <3>1. ASSUME NEW e, NEW i, Nameable(q, e, i), deadAt'[q] = deadAt[q]
          PROVE  Nameable(q, e, i)'
      BY <2>1, <3>1 DEF Nameable, Ages
    <3>2. CASE /\ pc'[q] = pc[q] /\ after'[q] = after[q] /\ answer'[q] = answer[q]
               /\ entry'[q] = entry[q] /\ deadAt'[q] = deadAt[q] /\ target'[q] = target[q]
      BY <3>1, <3>2 DEF NamesInv, Named, Checked, Saving
    <3>3. CASE answer'[q] # "running" /\ ~Checked(q)'
      BY <3>3 DEF Named
    <3> USE DEF GoTo, request, outcome, TypeOK, RequestsOK, OutcomeOK
    <3>4. ASSUME NEW r \in Requests, NEW o \in Operations, NEW e \in Entries,
                 NEW i \in Instances \cup {None}, Begin(r, o, e, i)
          PROVE  Named(q)'
      <4>1. CASE r = q
        <5>1. answer'[q] = "none" /\ pc'[q] \in {"spawn", "signal", "prune"}
          BY <3>4, <4>1 DEF Begin
        <5> QED
          BY <3>3, <5>1 DEF Checked, Saving
      <4>2. CASE r # q
        BY <3>2, <3>4, <4>2 DEF Begin, HistoryOK
      <4> QED
        BY <4>1, <4>2
    <3>5. ASSUME NEW r \in Requests, Step(r), r # q
          PROVE  Named(q)'
      BY <3>2, <3>5 DEF Step, OpenTmp, WriteTmp, Replace, Prune, Check, Conflict, Spawn, Record,
         Settle, Forget, Signal, Wait, SigKill, Signalled, Finish, Save
    <3>6. ASSUME NEW a, Finish(q, a), a # "running"
          PROVE  Named(q)'
      BY <3>3, <3>6 DEF Finish, Checked, Saving
    <3>7. pc[q] # "idle" => answer[q] # "running"
      BY DEF NamesInv, Named
    <3>8. CASE OpenTmp(q) \/ WriteTmp(q) \/ Replace(q)
      <4>1. CASE \E a : Finish(q, a) /\ a # "running"
        BY <3>6, <4>1
      <4>2. CASE ~\E a : Finish(q, a) /\ a # "running"
        <5>1. answer'[q] # "running" /\ UNCHANGED <<entry, deadAt, target>>
          BY <3>7, <3>8, <4>2 DEF OpenTmp, WriteTmp, Replace
        <5>2. Checked(q)' => Checked(q)
          BY <3>8, <4>2 DEF OpenTmp, WriteTmp, Replace, Checked, Saving
        <5> QED
          BY <3>1, <5>1, <5>2 DEF NamesInv, Named
      <4> QED
        BY <4>1, <4>2
    <3>9. CASE Prune(q)
      <4>1. CASE Finish(q, "ok")
        BY <3>6, <4>1
      <4>2. CASE ~Finish(q, "ok")
        <5>1. PICK e \in Entries : e = entry[q]
          OBVIOUS
        <5>2. PICK i \in Instances \cup {None} : i = Live(Loaded(file))[e]
          BY LoadedTyped DEF FilesOK, Registry
        <5>3. /\ answer'[q] # "running" /\ UNCHANGED <<entry, deadAt, life, runs, child>>
              /\ target'[q] = i
          BY <3>7, <3>9, <4>2, <5>1, <5>2 DEF Prune, processes
        <5>4. i # None => Own(e, i) /\ life[i] = "alive"
          BY <5>2 DEF Live, Loaded, NoRecords, Alive, SameStart, OwnInv, RecordsOwn
        <5>5. i # None => Nameable(q, e, i)
          BY <5>4 DEF Own, Nameable, NamesInv, DeadSince
        <5> QED
          BY <5>1, <5>3, <5>5 DEF Named, Nameable
      <4> QED
        BY <4>1, <4>2
    <3>10. CASE Check(q)
      <4>1. CASE target[q] # None
        <5>1. Nameable(q, entry[q], target[q])
          BY <3>10, <4>1 DEF Check, NamesInv, Named, Checked
        <5> QED
          BY <3>1, <3>10, <4>1, <5>1 DEF Check, Finish, Named, Checked, Saving
      <4>2. CASE target[q] = None /\ External(entry[q]) # {}
        <5>1. PICK i \in External(entry[q]) : target' = [target EXCEPT ![q] = i]
          BY <3>10, <4>2 DEF Check
        <5>2. /\ i \in Instances /\ life[i] = "alive"
              /\ runs[i] \in Hidden \/ entry[q] \in Names[runs[i]]
          BY <5>1 DEF External, Living, NamesInv, PortsLive, ProcessesOK
        <5>3. Nameable(q, entry[q], i)
          BY <5>2 DEF Nameable, NamesInv, DeadSince
        <5> QED
          BY <3>1, <3>10, <4>2, <5>1, <5>3 DEF Check, Finish, Named, Checked, Saving
      <4>3. CASE target[q] = None /\ External(entry[q]) = {}
        BY <3>3, <3>7, <3>10, <4>3 DEF Check, Checked, Saving
      <4> QED
        BY <4>1, <4>2, <4>3
    <3>11. CASE Conflict(q) \/ Spawn(q) \/ Record(q) \/ Settle(q) \/ Forget(q) \/ Signal(q)
                \/ Wait(q) \/ SigKill(q)
      <4>1. CASE \E a : Finish(q, a) /\ a # "running"
        BY <3>6, <4>1
      <4>2. CASE ~\E a : Finish(q, a) /\ a # "running"
        <5>1. answer'[q] # "running" /\ ~Checked(q)'
          BY <3>7, <3>11, <4>2 DEF Conflict, Spawn, Record, Settle, Forget, Signal, Wait, SigKill, Signalled,
             Save, Checked, Saving
        <5> QED
          BY <3>3, <5>1
      <4> QED
        BY <4>1, <4>2
    <3>12. CASE Host \/ UNCHANGED vars
      BY <3>2, <3>12 DEF Host, Exit, Reap, Listen, StartedOutside, vars
    <3>13. CASE Restart
      BY <3>3, <3>13 DEF Restart, Checked, Saving
    <3> QED
      BY <3>4, <3>5, <3>8, <3>9, <3>10, <3>11, <3>12, <3>13 DEF Next, Step
  <2> QED
    BY <2>2, <2>3, <2>4 DEF NamesInv
<1>3. NamesInv => RefusalNamesLiveInstance
  BY DEF NamesInv, Named, Nameable, RefusalNamesLiveInstance
<1> QED
  BY <1>1, <1>2, <1>3, RegistryTypeCorrect, OnlyOwnIsTargeted, PTL DEF Spec

-----------------------------------------------------------------------------
Recording(r) == pc[r] = "record" \/ (Saving(r) /\ after[r] = "settle")

(* What the service started, reported or is about to record was born, and    *)
(* what it started is of an entry.                                           *)
Births ==
    /\ \A i \in child \cup announced : life[i] # "unborn"
    /\ \A i \in child : runs[i] \in Entries
    /\ \A r \in Requests : Recording(r) \/ pc[r] = "settle" => life[target[r]] # "unborn"

THEOREM EverythingWasBorn == Spec => []Births
<1>1. Init => Births
  BY DEF Init, Births, Recording, Saving
<1>2. TypeOK /\ Targeted /\ Births /\ [Next]_vars => Births'
  <2> SUFFICES ASSUME TypeOK, Targeted, Births, [Next]_vars
               PROVE  Births'
    OBVIOUS
  <2>1. Ages
    BY EveryStepAges
  <2> USE DEF Births, Recording, Saving, TypeOK, RequestsOK, HistoryOK, GoTo, Finish, request, history
  <2>2. ASSUME child' = child \/ \E i \in Instances : /\ child' = child \cup {i}
                                                    /\ life'[i] # "unborn" /\ runs'[i] \in Entries,
               announced' = announced \/ \E q \in Requests : pc[q] = "settle" /\ announced' = announced \cup {target[q]},
               \A q \in Requests : (Recording(q) \/ pc[q] = "settle")' =>
                   \/ life'[target'[q]] # "unborn"
                   \/ (Recording(q) \/ pc[q] = "settle") /\ target'[q] = target[q]
        PROVE  Births'
    <3>1. \A i \in Instances : life[i] # "unborn" => life'[i] # "unborn" /\ runs'[i] = runs[i]
      BY <2>1 DEF Ages
    <3>2. child \subseteq Instances
      BY DEF ProcessesOK
    <3>3. \A q \in Requests : Recording(q) \/ pc[q] = "settle" => target[q] \in Instances
      BY DEF Targeted
    <3> QED
      BY <2>2, <3>1, <3>2, <3>3
  <2> HIDE DEF Births
  <2>3. ASSUME NEW r \in Requests, NEW o \in Operations, NEW e \in Entries,
               NEW i \in Instances \cup {None}, Begin(r, o, e, i)
        PROVE  Births'
    <3>1. \A q \in Requests : (q # r => pc'[q] = pc[q] /\ target'[q] = target[q])
                              /\ (q = r => pc'[q] \in {"spawn", "signal", "prune"})
      BY <2>3 DEF Begin
    <3>2. UNCHANGED <<child, announced, after>>
      BY <2>3 DEF Begin, processes
    <3> QED
      BY <2>2, <3>1, <3>2
  <2>4. ASSUME NEW r \in Requests, Spawn(r)
        PROVE  Births'
    BY <2>2, <2>4 DEF Spawn, Born, ProcessesOK, processes
  <2>5. ASSUME NEW r \in Requests, Prune(r) \/ Check(r) \/ Signal(r)
        PROVE  Births'
    BY <2>2, <2>5 DEF Prune, Check, Signal, Save, processes
  <2>6. ASSUME NEW r \in Requests,
               \/ OpenTmp(r) \/ WriteTmp(r) \/ Replace(r) \/ Conflict(r) \/ Record(r)
               \/ Settle(r) \/ Forget(r)
        PROVE  Births'
    BY <2>2, <2>6 DEF OpenTmp, WriteTmp, Replace, Conflict, Record, Settle, Forget, Save, processes
  <2>7. ASSUME NEW r \in Requests, Wait(r) \/ SigKill(r)
        PROVE  Births'
    BY <2>2, <2>7 DEF Wait, SigKill, Signalled, Die, processes
  <2>8. CASE Host \/ UNCHANGED vars
    BY <2>2, <2>8 DEF Host, Exit, Reap, Listen, StartedOutside, Die, Born, vars, processes
  <2>9. CASE Restart
    BY <2>2, <2>9 DEF Restart
  <2> QED
    BY <2>3, <2>4, <2>5, <2>6, <2>7, <2>8, <2>9 DEF Next, Step
<1> QED
  BY <1>1, <1>2, RegistryTypeCorrect, PTL DEF Spec

-----------------------------------------------------------------------------
(* The instances of an entry that this service started and that live.        *)
Ours(e) == {i \in LaunchedByUs : runs[i] = e}

(* Which steps a request comes to, and what it is about there.               *)
Launches(r) ==
    /\ pc[r] \in {"conflict", "spawn"} => target[r] = None
    /\ Recording(r) => target[r] \notin announced
    /\ op[r] = "list" => pc[r] = "prune" \/ (Saving(r) /\ after[r] = "answer")
    /\ op[r] = "kill" => pc[r] \in {"signal", "grace", "sigkill"}
    /\ pc[r] = "prune" => op[r] \in {"launch", "stop", "list"}
    /\ pc[r] = "signal" => op[r] \in {"stop", "kill"}
    /\ Saving(r) /\ after[r] = "signal" => op[r] = "stop"

(* No instance of its entry lives but the one it is about; and that one does *)
(* not when the entry is to be forgotten.                                    *)
Mine(r) ==
    /\ pc[r] # "prune" /\ op[r] \notin {"kill", "list"} => Ours(entry[r]) \subseteq {target[r]}
    /\ pc[r] = "forget" \/ (Saving(r) /\ after[r] = "answer" /\ op[r] # "list")
           => Ours(entry[r]) = {}

(* The file that is being saved will be whole, and hold what the other does. *)
SavesWhole(r) ==
    /\ pc[r] = "write"   => handle[r] = "tmp" /\ tmp.kind = "empty"
    /\ pc[r] = "replace" => tmp = File("json", data[r])
    /\ Saving(r) => \A i \in LaunchedByUs : data[r][runs[i]] = i

(* What lives is in the file, but for what is about to be recorded.          *)
RecordedBut(r) ==
    \A i \in LaunchedByUs :
        Loaded(file)[runs[i]] = i \/ (Recording(r) /\ target[r] = i /\ entry[r] = runs[i])

Serially(r) == file.kind = "json" /\ Launches(r) /\ Mine(r) /\ SavesWhole(r) /\ RecordedBut(r)

Resting == file.kind = "json" /\ \A i \in LaunchedByUs : Loaded(file)[runs[i]] = i

SerialInv ==
    ~overlapped =>
        /\ \A q, r \in Requests : pc[q] # "idle" /\ pc[r] # "idle" => q = r
        /\ \A r \in Requests : pc[r] # "idle" => Serially(r)
        /\ (\A r \in Requests : pc[r] = "idle") => Resting

(* Where a request that goes on alone is after a step.                       *)
GoesOn(r) == IF pc'[r] = "idle" THEN Resting' ELSE Serially(r)'

(* Nothing but a launch adds to what the service started.                    *)
LEMMA OursShrink ==
    ASSUME TypeOK, Ages, Births, UNCHANGED child
    PROVE  /\ \A i \in LaunchedByUs' : i \in LaunchedByUs /\ runs'[i] = runs[i]
           /\ \A e : Ours(e)' \subseteq Ours(e)
<1>1. \A i \in LaunchedByUs' : i \in LaunchedByUs /\ runs'[i] = runs[i]
  BY DEF TypeOK, ProcessesOK, Ages, Births, LaunchedByUs, Living
<1> QED
  BY <1>1 DEF Ours

(* Deaths, births outside and listeners change nothing of it.                *)
LEMMA HostKeepsSerial ==
    ASSUME TypeOK, Ages, Births, UNCHANGED <<child, disk, pc, request, target, data, after, announced>>
    PROVE  /\ Resting => Resting'
           /\ \A r \in Requests : Serially(r) => Serially(r)'
<1>1. \A i \in LaunchedByUs' : i \in LaunchedByUs /\ runs'[i] = runs[i]
  BY OursShrink
<1>2. \A e : Ours(e)' \subseteq Ours(e)
  BY OursShrink
<1> USE DEF disk, request, Loaded
<1>3. Resting => Resting'
  BY <1>1 DEF Resting
<1>4. ASSUME NEW r \in Requests, Serially(r)
      PROVE  Serially(r)'
  <2> USE DEF Recording, Saving
  <2>1. Launches(r)'
    BY <1>4 DEF Serially, Launches
  <2>2. Mine(r)'
    BY <1>2, <1>4 DEF Serially, Mine
  <2>3. SavesWhole(r)'
    BY <1>1, <1>4 DEF Serially, SavesWhole
  <2>4. RecordedBut(r)'
    BY <1>1, <1>4 DEF Serially, RecordedBut
  <2> QED
    BY <1>4, <2>1, <2>2, <2>3, <2>4 DEF Serially
<1> QED
  BY <1>3, <1>4

(* What stays as it is when no process is born or dies.                      *)
LEMMA SameProcesses ==
    ASSUME UNCHANGED processes
    PROVE  LaunchedByUs' = LaunchedByUs /\ runs' = runs /\ \A e : Ours(e)' = Ours(e)
BY DEF processes, LaunchedByUs, Living, Ours

(* What is recorded of those that live survives a pruning.                   *)
LEMMA LiveKeeps ==
    ASSUME TypeOK, NEW i \in LaunchedByUs, NEW records \in Registry, records[runs[i]] = i,
           runs[i] \in Entries
    PROVE  Live(records)[runs[i]] = i
BY DEF Live, Alive, SameStart, Held, LaunchedByUs, Living, None, Instances, TypeOK, ProcessesOK

(* A save: the file is opened, written and renamed.                          *)
LEMMA SavingSerially ==
    ASSUME TypeOK, NEW r \in Requests, Serially(r), OpenTmp(r) \/ WriteTmp(r) \/ Replace(r)
    PROVE  GoesOn(r)
<1> USE DEF GoTo, request, Saving, Recording
<1>1. UNCHANGED processes
  BY DEF OpenTmp, WriteTmp, Replace
<1>2. LaunchedByUs' = LaunchedByUs /\ runs' = runs /\ \A e : Ours(e)' = Ours(e)
  BY <1>1, SameProcesses
<1>3. data[r] \in Registry /\ file \in Files
  BY DEF TypeOK, FilesOK, Registry
<1>4. CASE OpenTmp(r)
  <2>1. pc'[r] = "write" /\ pc[r] = "open" /\ handle'[r] = "tmp" /\ tmp'.kind = "empty"
    BY <1>4 DEF OpenTmp, TypeOK, RequestsOK, FilesOK, File
  <2>2. UNCHANGED <<file, op, entry, target, data, after, announced>>
    BY <1>4 DEF OpenTmp, history
  <2> QED
    BY <1>2, <2>1, <2>2 DEF GoesOn, Serially, Launches, Mine, SavesWhole, RecordedBut, Loaded
<1>5. CASE WriteTmp(r)
  <2>1. pc'[r] = "replace" /\ pc[r] = "write"
    BY <1>5 DEF WriteTmp, TypeOK, RequestsOK
  <2>2. tmp' = File("json", data[r]) /\ UNCHANGED file
    BY <1>5, <2>1 DEF WriteTmp, Written, Serially, SavesWhole
  <2>3. UNCHANGED <<op, entry, target, data, after, announced>>
    BY <1>5 DEF WriteTmp, history
  <2> QED
    BY <1>2, <2>1, <2>2, <2>3 DEF GoesOn, Serially, Launches, Mine, SavesWhole, RecordedBut, Loaded
<1>6. CASE Replace(r)
  <2>1. pc[r] = "replace" /\ tmp = File("json", data[r])
    BY <1>6 DEF Replace, Serially, SavesWhole
  <2>2. file' = File("json", data[r]) /\ UNCHANGED <<op, entry, target, announced>>
    BY <1>6, <2>1 DEF Replace, File, history
  <2>3. file'.kind = "json" /\ \A i \in LaunchedByUs' : Loaded(file')[runs'[i]] = i
    BY <1>2, <2>1, <2>2 DEF Loaded, File, Serially, SavesWhole
  <2>4. pc'[r] = IF after[r] = "answer" THEN "idle" ELSE after[r]
    BY <1>6, <2>1 DEF Replace, File, Finish, TypeOK, RequestsOK
  <2>5. CASE after[r] = "answer"
    BY <2>3, <2>4, <2>5 DEF GoesOn, Resting, Loaded
  <2>6. CASE after[r] # "answer"
    <3>1. pc'[r] = after[r] /\ after[r] \in {"check", "signal", "settle"}
      BY <2>4, <2>6 DEF TypeOK, RequestsOK
    <3>2. Launches(r)' /\ Mine(r)' /\ SavesWhole(r)'
      BY <1>2, <2>1, <2>2, <3>1 DEF Serially, Launches, Mine, SavesWhole
    <3> QED
      BY <2>3, <3>1, <3>2 DEF GoesOn, Serially, RecordedBut, Loaded
  <2> QED
    BY <2>5, <2>6
<1> QED
  BY <1>4, <1>5, <1>6

(* A launch, a stop and a list read the registry, and save what is left of   *)
(* it.                                                                       *)
LEMMA PruningSerially ==
    ASSUME TypeOK, Births, NEW r \in Requests, Serially(r), Prune(r)
    PROVE  GoesOn(r)
<1> USE DEF GoTo, request, Saving, Recording
<1>1. UNCHANGED processes
  BY DEF Prune
<1>2. LaunchedByUs' = LaunchedByUs /\ runs' = runs /\ \A e : Ours(e)' = Ours(e)
  BY <1>1, SameProcesses
<1>3. PICK e \in Entries : e = entry[r]
  BY DEF TypeOK, RequestsOK
<1>4. Loaded(file) \in Registry
  BY LoadedTyped DEF TypeOK, FilesOK
<1>5. \A i \in LaunchedByUs : Loaded(file)[runs[i]] = i
  BY DEF Prune, Serially, RecordedBut
<1>6. \A i \in LaunchedByUs : Live(Loaded(file))[runs[i]] = i
  BY <1>4, <1>5, LiveKeeps DEF Births, LaunchedByUs
<1>7. target'[r] = Live(Loaded(file))[e] /\ UNCHANGED <<file, op, entry, announced>> /\ pc[r] = "prune"
  BY <1>3 DEF Prune, disk, history, TypeOK, RequestsOK
<1>8. Ours(e)' \subseteq {target'[r]}
  BY <1>2, <1>6, <1>7 DEF Ours
<1>9. Resting'
  BY <1>2, <1>5, <1>7 DEF Resting, Serially, Loaded
<1>10. op[r] \in {"launch", "stop", "list"}
  BY <1>7 DEF Serially, Launches
<1>11. CASE Live(Loaded(file)) # Loaded(file)
  <2>1. /\ pc'[r] = "open" /\ data'[r] = Live(Loaded(file))
        /\ after'[r] = CASE op[r] = "launch" -> "check" [] op[r] = "stop" -> "signal" [] OTHER -> "answer"
    BY <1>11 DEF Prune, Save, TypeOK, RequestsOK, FilesOK
  <2>2. Launches(r)' /\ Mine(r)'
    BY <1>3, <1>7, <1>8, <1>10, <2>1 DEF Launches, Mine
  <2>3. SavesWhole(r)'
    BY <1>2, <1>6, <2>1 DEF SavesWhole
  <2> QED
    BY <1>9, <2>1, <2>2, <2>3 DEF GoesOn, Serially, RecordedBut, Resting
<1>12. CASE Live(Loaded(file)) = Loaded(file)
  <2>1. CASE op[r] = "list"
    <3>1. pc'[r] = "idle"
      BY <1>12, <2>1 DEF Prune, Finish, TypeOK, RequestsOK
    <3> QED
      BY <1>9, <3>1 DEF GoesOn
  <2>2. CASE op[r] # "list"
    <3>1. CASE op[r] = "launch"
      <4>1. pc'[r] = "check"
        BY <1>12, <3>1 DEF Prune, TypeOK, RequestsOK
      <4> QED
        BY <1>3, <1>7, <1>8, <1>9, <3>1, <4>1
           DEF Launches, Mine, SavesWhole, GoesOn, Serially, RecordedBut, Resting
    <3>2. CASE op[r] = "stop"
      <4>1. pc'[r] = "signal"
        BY <1>12, <3>2 DEF Prune, TypeOK, RequestsOK
      <4> QED
        BY <1>3, <1>7, <1>8, <1>9, <3>2, <4>1
           DEF Launches, Mine, SavesWhole, GoesOn, Serially, RecordedBut, Resting
    <3> QED
      BY <1>10, <2>2, <3>1, <3>2
  <2> QED
    BY <2>1, <2>2
<1> QED
  BY <1>11, <1>12

(* A request that ends, with no save and no launch under way.                *)
LEMMA EndingSerially ==
    ASSUME TypeOK, NEW r \in Requests, Serially(r), ~Recording(r), pc'[r] = "idle",
           UNCHANGED file, UNCHANGED processes
    PROVE  GoesOn(r)
<1>1. LaunchedByUs' = LaunchedByUs /\ runs' = runs
  BY SameProcesses
<1> QED
  BY <1>1 DEF GoesOn, Resting, Serially, RecordedBut, Loaded

(* A launch that looks for an instance and for its port.                     *)
LEMMA CheckingSerially ==
    ASSUME TypeOK, NEW r \in Requests, Serially(r), Check(r) \/ Conflict(r)
    PROVE  GoesOn(r)
<1> USE DEF GoTo, request, Saving, Recording
<1>1. UNCHANGED <<processes, file, op, entry, announced>> /\ pc[r] \in {"check", "conflict"}
  BY DEF Check, Conflict, disk, history
<1>2. CASE pc'[r] = "idle"
  BY <1>1, <1>2, EndingSerially
<1>3. CASE pc'[r] # "idle"
  <2>1. pc'[r] \in {"conflict", "spawn"} /\ target[r] = None /\ UNCHANGED target
    BY <1>3 DEF Check, Conflict, Finish, TypeOK, RequestsOK, Serially, Launches
  <2>2. LaunchedByUs' = LaunchedByUs /\ runs' = runs /\ \A e : Ours(e)' = Ours(e)
    BY <1>1, SameProcesses
  <2>3. Launches(r)' /\ Mine(r)' /\ SavesWhole(r)'
    BY <1>1, <2>1, <2>2 DEF Serially, Launches, Mine, SavesWhole
  <2> QED
    BY <1>1, <1>3, <2>1, <2>2, <2>3 DEF GoesOn, Serially, RecordedBut, Loaded
<1> QED
  BY <1>2, <1>3

(* The instance that is born is the only one of its entry.                   *)
LEMMA SpawningSerially ==
    ASSUME TypeOK, Births, NEW r \in Requests, Serially(r), Spawn(r)
    PROVE  GoesOn(r)
<1> USE DEF GoTo, request, Saving, Recording
<1>1. UNCHANGED <<file, op, entry, announced>> /\ pc[r] = "spawn"
  BY DEF Spawn, disk
<1>2. CASE Finish(r, "failed") /\ UNCHANGED <<processes, target, effect>>
  <2>1. pc'[r] = "idle"
    BY <1>2 DEF Finish, TypeOK, RequestsOK
  <2> QED
    BY <1>1, <1>2, <2>1, EndingSerially
<1>3. ASSUME NEW i \in Instances, Born(i, entry[r]), child' = child \cup {i},
             target' = [target EXCEPT ![r] = i], GoTo(r, "record")
      PROVE  GoesOn(r)
  <2>1. target'[r] = i /\ pc'[r] = "record" /\ runs'[i] = entry[r] /\ life[i] = "unborn"
    BY <1>3 DEF Born, TypeOK, ProcessesOK, RequestsOK
  <2>2. \A j \in LaunchedByUs' : j = i \/ (j \in LaunchedByUs /\ runs'[j] = runs[j])
    BY <1>3 DEF Born, TypeOK, ProcessesOK, LaunchedByUs, Living
  <2>3. \A j \in LaunchedByUs : Loaded(file)[runs[j]] = j
    BY <1>1 DEF Serially, RecordedBut
  <2>4. op[r] \notin {"kill", "list"} /\ Ours(entry[r]) = {}
    <3>1. op[r] \notin {"kill", "list"}
      BY <1>1 DEF Serially, Launches
    <3>2. Ours(entry[r]) \subseteq {None}
      BY <1>1, <3>1 DEF Serially, Launches, Mine
    <3> QED
      BY <3>1, <3>2 DEF Ours, LaunchedByUs, Living, Instances, None
  <2>5. Ours(entry[r])' \subseteq {i}
    BY <1>1, <2>2, <2>4 DEF Ours
  <2>6. i \notin announced
    BY <2>1 DEF Births
  <2>7. Launches(r)' /\ Mine(r)' /\ SavesWhole(r)'
    BY <1>1, <2>1, <2>4, <2>5, <2>6 DEF Launches, Mine, SavesWhole
  <2>8. RecordedBut(r)'
    BY <1>1, <2>1, <2>2, <2>3 DEF RecordedBut, Loaded
  <2> QED
    BY <1>1, <2>1, <2>7, <2>8 DEF GoesOn, Serially
<1> QED
  BY <1>2, <1>3 DEF Spawn

(* What is to be recorded is the one that lives.                             *)
LEMMA RecordingSerially ==
    ASSUME TypeOK, Births, NEW r \in Requests, Serially(r), Record(r)
    PROVE  GoesOn(r)
<1> USE DEF GoTo, request, Saving, Recording
<1>1. UNCHANGED <<processes, file, op, entry, target, announced>> /\ pc[r] = "record"
  BY DEF Record, disk, history
<1>2. /\ pc'[r] = "open" /\ after'[r] = "settle"
      /\ data'[r] = [Loaded(file) EXCEPT ![entry[r]] = target[r]]
  BY DEF Record, Save, TypeOK, RequestsOK, FilesOK
<1>3. LaunchedByUs' = LaunchedByUs /\ runs' = runs /\ \A e : Ours(e)' = Ours(e)
  BY <1>1, SameProcesses
<1>4. op[r] \notin {"kill", "list"} /\ Ours(entry[r]) \subseteq {target[r]} /\ target[r] \notin announced
  BY <1>1 DEF Serially, Launches, Mine
<1>5. ASSUME NEW i \in LaunchedByUs
      PROVE  data'[r][runs[i]] = i
  <2>1. CASE runs[i] = entry[r]
    <3>1. i = target[r]
      BY <1>4, <2>1 DEF Ours
    <3> QED
      BY <1>2, <2>1, <3>1, LoadedTyped DEF TypeOK, FilesOK, RequestsOK, Registry
  <2>2. CASE runs[i] # entry[r]
    <3>1. Loaded(file)[runs[i]] = i
      BY <2>2 DEF Serially, RecordedBut
    <3>2. runs[i] \in Entries
      BY DEF Births, LaunchedByUs
    <3> QED
      BY <1>2, <2>2, <3>1, <3>2, LoadedTyped DEF TypeOK, FilesOK, Registry
  <2> QED
    BY <2>1, <2>2
<1>6. SavesWhole(r)' /\ Launches(r)' /\ Mine(r)'
  BY <1>1, <1>2, <1>3, <1>4, <1>5 DEF SavesWhole, Launches, Mine
<1>7. RecordedBut(r)'
  BY <1>1, <1>2, <1>3 DEF Serially, RecordedBut, Loaded
<1> QED
  BY <1>1, <1>2, <1>6, <1>7 DEF GoesOn, Serially

(* When the pid is gone, so is the instance.                                 *)
LEMMA SettlingSerially ==
    ASSUME TypeOK, NEW r \in Requests, Serially(r), Settle(r)
    PROVE  GoesOn(r)
<1> USE DEF GoTo, request, Saving, Recording
<1>1. UNCHANGED <<processes, file, op, entry, target>> /\ pc[r] = "settle"
  BY DEF Settle, disk
<1>2. CASE Held(pid[target[r]]) # {}
  <2>1. pc'[r] = "idle"
    BY <1>2 DEF Settle, Finish, TypeOK, RequestsOK
  <2> QED
    BY <1>1, <2>1, EndingSerially
<1>3. CASE Held(pid[target[r]]) = {}
  <2>1. pc'[r] = "forget" /\ UNCHANGED announced
    BY <1>3 DEF Settle, TypeOK, RequestsOK
  <2>2. LaunchedByUs' = LaunchedByUs /\ runs' = runs /\ \A e : Ours(e)' = Ours(e)
    BY <1>1, SameProcesses
  <2>3. op[r] \notin {"kill", "list"} /\ Ours(entry[r]) \subseteq {target[r]}
    BY <1>1 DEF Serially, Launches, Mine
  <2>4. target[r] \notin Ours(entry[r])
    BY <1>3 DEF Ours, LaunchedByUs, Living, Held
  <2>5. Launches(r)' /\ Mine(r)' /\ SavesWhole(r)'
    BY <1>1, <2>1, <2>2, <2>3, <2>4 DEF Launches, Mine, SavesWhole
  <2>6. RecordedBut(r)'
    BY <1>1, <2>1, <2>2 DEF Serially, RecordedBut, Loaded
  <2> QED
    BY <1>1, <2>1, <2>5, <2>6 DEF GoesOn, Serially
<1> QED
  BY <1>2, <1>3

(* What is forgotten does not live.                                          *)
LEMMA ForgettingSerially ==
    ASSUME TypeOK, Births, NEW r \in Requests, Serially(r), Forget(r)
    PROVE  GoesOn(r)
<1> USE DEF GoTo, request, Saving, Recording
<1>1. UNCHANGED <<processes, file, op, entry, target, announced>> /\ pc[r] = "forget"
  BY DEF Forget, disk, history
<1>2. CASE Loaded(file)[entry[r]] = None
  <2>1. pc'[r] = "idle"
    BY <1>2 DEF Forget, Finish, TypeOK, RequestsOK
  <2> QED
    BY <1>1, <2>1, EndingSerially
<1>3. CASE Loaded(file)[entry[r]] # None
  <2>1. /\ pc'[r] = "open" /\ after'[r] = "answer"
        /\ data'[r] = [Loaded(file) EXCEPT ![entry[r]] = None]
    BY <1>3 DEF Forget, Save, TypeOK, RequestsOK, FilesOK
  <2>2. LaunchedByUs' = LaunchedByUs /\ runs' = runs /\ \A e : Ours(e)' = Ours(e)
    BY <1>1, SameProcesses
  <2>3. op[r] \notin {"kill", "list"} /\ Ours(entry[r]) = {}
    BY <1>1 DEF Serially, Launches, Mine
  <2>4. \A i \in LaunchedByUs : Loaded(file)[runs[i]] = i /\ runs[i] # entry[r]
    BY <1>1, <2>3 DEF Ours, Serially, RecordedBut
  <2>5. \A i \in LaunchedByUs : data'[r][runs[i]] = i
    <3>1. \A i \in LaunchedByUs : runs[i] \in Entries
      BY DEF Births, LaunchedByUs
    <3> QED
      BY <2>1, <2>4, <3>1, LoadedTyped DEF TypeOK, FilesOK, Registry
  <2>6. Launches(r)' /\ Mine(r)' /\ SavesWhole(r)'
    BY <1>1, <2>1, <2>2, <2>3, <2>5 DEF Launches, Mine, SavesWhole
  <2>7. RecordedBut(r)'
    BY <1>1, <2>2, <2>4 DEF RecordedBut, Loaded
  <2> QED
    BY <1>1, <2>1, <2>6, <2>7 DEF GoesOn, Serially
<1> QED
  BY <1>2, <1>3

(* A stop signals what it found.                                             *)
LEMMA SignallingSerially ==
    ASSUME TypeOK, OwnInv, NEW r \in Requests, Serially(r), Signal(r)
    PROVE  GoesOn(r)
<1> USE DEF GoTo, request, Saving, Recording
<1>1. UNCHANGED <<processes, file, op, entry, announced>> /\ pc[r] = "signal"
  BY DEF Signal, disk
<1>2. CASE pc'[r] = "idle"
  BY <1>1, <1>2, EndingSerially
<1>3. CASE pc'[r] # "idle"
  <2>1. pc'[r] = "grace" /\ target[r] # None /\ target'[r] \in Held(pid[target[r]])
    BY <1>3 DEF Signal, Finish, TypeOK, RequestsOK
  <2>2. op[r] = "stop" => target'[r] = target[r]
    BY <1>1, <2>1 DEF OwnInv, TargetsOwn, TargetOwn
  <2>3. LaunchedByUs' = LaunchedByUs /\ runs' = runs /\ \A e : Ours(e)' = Ours(e)
    BY <1>1, SameProcesses
  <2>4. op[r] \in {"stop", "kill"}
    BY <1>1 DEF Serially, Launches
  <2>5. Launches(r)' /\ Mine(r)' /\ SavesWhole(r)'
    BY <1>1, <2>1, <2>2, <2>3, <2>4 DEF Serially, Launches, Mine, SavesWhole
  <2>6. RecordedBut(r)'
    BY <1>1, <2>3 DEF Serially, RecordedBut, Loaded
  <2> QED
    BY <1>1, <1>3, <2>5, <2>6 DEF GoesOn, Serially
<1> QED
  BY <1>2, <1>3

(* When a stop has signalled it the instance is dead, or about to be killed. *)
LEMMA WaitingSerially ==
    ASSUME TypeOK, Targeted, Ages, Births, NEW r \in Requests, Serially(r), Wait(r) \/ SigKill(r)
    PROVE  GoesOn(r)
<1> USE DEF GoTo, request, Saving, Recording
<1>1. UNCHANGED <<file, op, entry, target, data, announced, child>> /\ pc[r] \in {"grace", "sigkill"}
  BY DEF Wait, SigKill, Die, disk, history, processes
<1>2. \A i \in LaunchedByUs' : i \in LaunchedByUs /\ runs'[i] = runs[i]
  BY <1>1, OursShrink
<1>3. Ours(entry[r])' \subseteq Ours(entry[r])
  BY <1>1, OursShrink
<1>4. \A i \in LaunchedByUs' : Loaded(file')[runs'[i]] = i
  BY <1>1, <1>2 DEF Serially, RecordedBut
<1>5. pc'[r] \in {"sigkill", "forget", "idle"} /\ (pc'[r] = "forget" => op[r] = "stop")
  BY DEF Wait, SigKill, Signalled, Finish, TypeOK, RequestsOK
<1>6. pc'[r] = "forget" => life'[target[r]] # "alive"
  <2>1. target[r] \in Instances
    BY <1>1 DEF Targeted
  <2> QED
    BY <2>1 DEF Wait, SigKill, Signalled, Die, processes, TypeOK, RequestsOK, ProcessesOK
<1>7. CASE pc'[r] = "idle"
  BY <1>1, <1>4, <1>7 DEF GoesOn, Serially, Resting, Loaded
<1>8. CASE pc'[r] = "sigkill"
  <2>1. Launches(r)' /\ Mine(r)' /\ SavesWhole(r)'
    BY <1>1, <1>3, <1>8 DEF Serially, Launches, Mine, SavesWhole
  <2> QED
    BY <1>1, <1>4, <1>8, <2>1 DEF GoesOn, Serially, RecordedBut, Loaded
<1>9. CASE pc'[r] = "forget"
  <2>1. Ours(entry[r]) \subseteq {target[r]} /\ op[r] = "stop"
    BY <1>1, <1>5, <1>9 DEF Serially, Mine
  <2>2. target[r] \notin Ours(entry[r])'
    BY <1>6, <1>9 DEF Ours, LaunchedByUs, Living
  <2>3. Launches(r)' /\ Mine(r)' /\ SavesWhole(r)'
    BY <1>1, <1>3, <1>9, <2>1, <2>2 DEF Launches, Mine, SavesWhole
  <2> QED
    BY <1>1, <1>4, <1>9, <2>3 DEF GoesOn, Serially, RecordedBut, Loaded
<1> QED
  BY <1>5, <1>7, <1>8, <1>9

(* Any step of a request that is alone.                                      *)
LEMMA StepsSerially ==
    ASSUME TypeOK, Targeted, OwnInv, Births, Ages, NEW r \in Requests, Serially(r), Step(r)
    PROVE  GoesOn(r)
BY SavingSerially, PruningSerially, CheckingSerially, SpawningSerially, RecordingSerially,
   SettlingSerially, ForgettingSerially, SignallingSerially, WaitingSerially DEF Step

(* A request that arrives when there is no other.                            *)
LEMMA BeginsSerially ==
    ASSUME TypeOK, Resting, NEW r \in Requests, NEW o \in Operations, NEW e \in Entries,
           NEW i \in Instances \cup {None}, Begin(r, o, e, i)
    PROVE  GoesOn(r)
<1> USE DEF GoTo, request, Saving, Recording
<1>1. UNCHANGED <<processes, file, announced>>
  BY DEF Begin, disk
<1>2. op'[r] = o /\ entry'[r] = e /\ target'[r] = i
  BY DEF Begin, TypeOK, RequestsOK
<1>3. \/ pc'[r] = "spawn" /\ o = "launch_service" /\ i = None /\ e \in Declared
      \/ pc'[r] = "signal" /\ o = "kill"
      \/ pc'[r] = "prune" /\ o \in {"launch", "stop", "list"}
  BY DEF Begin, TypeOK, RequestsOK, Operations
<1>4. LaunchedByUs' = LaunchedByUs /\ runs' = runs /\ \A f : Ours(f)' = Ours(f)
  BY <1>1, SameProcesses
<1>5. e \in Declared => Ours(e) = {}
  BY DEF Ours, LaunchedByUs
<1>6. Launches(r)' /\ Mine(r)' /\ SavesWhole(r)'
  BY <1>2, <1>3, <1>4, <1>5 DEF Launches, Mine, SavesWhole
<1> QED
  BY <1>1, <1>3, <1>4, <1>6 DEF GoesOn, Serially, RecordedBut, Resting, Loaded

(* The invariant of requests that come one at a time.                        *)
THEOREM SerialRequestsRecord == Spec => []SerialInv
<1>1. Init => SerialInv
  <2> SUFFICES ASSUME Init
               PROVE  SerialInv
    OBVIOUS
  <2>1. \A r \in Requests : pc[r] = "idle"
    BY DEF Init
  <2>2. Resting
    BY DEF Init, Resting, LaunchedByUs, File
  <2> QED
    BY <2>1, <2>2 DEF SerialInv
<1>2. TypeOK /\ Targeted /\ OwnInv /\ Births /\ SerialInv /\ [Next]_vars => SerialInv'
  <2> SUFFICES ASSUME TypeOK, Targeted, OwnInv, Births, SerialInv, [Next]_vars, ~overlapped'
               PROVE  SerialInv'
    BY DEF SerialInv
  <2>1. Ages
    BY EveryStepAges
  <2>2. ~overlapped
    BY DEF Next, Begin, Step, OpenTmp, WriteTmp, Replace, Prune, Check, Conflict, Spawn, Record, Settle,
           Forget, Signal, Wait, SigKill, Host, Exit, Reap, Listen, StartedOutside, Restart, vars, history
  <2>3. ASSUME NEW r \in Requests, GoesOn(r), \A q \in Requests \ {r} : pc'[q] = "idle"
        PROVE  SerialInv'
    BY <2>3 DEF SerialInv, GoesOn
  <2>4. ASSUME NEW r \in Requests, NEW o \in Operations, NEW e \in Entries,
               NEW i \in Instances \cup {None}, Begin(r, o, e, i)
        PROVE  SerialInv'
    <3>1. \A q \in Requests : pc[q] = "idle"
      BY <2>4 DEF Begin
    <3>2. Resting
      BY <2>2, <3>1 DEF SerialInv
    <3>3. \A q \in Requests \ {r} : pc'[q] = "idle"
      BY <2>4, <3>1 DEF Begin, GoTo, TypeOK, RequestsOK
    <3> QED
      BY <2>3, <2>4, <3>2, <3>3, BeginsSerially
  <2>5. ASSUME NEW r \in Requests, Step(r)
        PROVE  SerialInv'
    <3>1. pc[r] # "idle"
      BY <2>5 DEF Step, OpenTmp, WriteTmp, Replace, Prune, Check, Conflict, Spawn, Record, Settle,
         Forget, Signal, Wait, SigKill
    <3>2. Serially(r) /\ \A q \in Requests \ {r} : pc[q] = "idle"
      BY <2>2, <3>1 DEF SerialInv
    <3>3. \A q \in Requests \ {r} : pc'[q] = pc[q]
      BY <2>5 DEF Step, OpenTmp, WriteTmp, Replace, Prune, Check, Conflict, Spawn, Record, Settle,
         Forget, Signal, Wait, SigKill, Signalled, Finish, Save, GoTo, TypeOK, RequestsOK
    <3> QED
      BY <2>1, <2>3, <2>5, <3>2, <3>3, StepsSerially
  <2>6. CASE Host \/ UNCHANGED vars
    <3>1. UNCHANGED <<child, disk, pc, request, target, data, after, announced>>
      BY <2>6 DEF Host, Exit, Reap, Listen, StartedOutside, Die, Born, vars, processes, history
    <3>2. (Resting => Resting') /\ \A r \in Requests : Serially(r) => Serially(r)'
      BY <2>1, <3>1, HostKeepsSerial
    <3> QED
      BY <2>2, <3>1, <3>2 DEF SerialInv
  <2>7. CASE Restart
    <3>1. \A r \in Requests : pc'[r] = "idle"
      BY <2>7 DEF Restart
    <3>2. file.kind = "json"
      BY <2>2 DEF SerialInv, Resting, Serially
    <3>3. LaunchedByUs' = {}
      BY <2>7 DEF Restart, LaunchedByUs, Living, Births, TypeOK, ProcessesOK
    <3> QED
      BY <2>7, <3>1, <3>2, <3>3 DEF Restart, SerialInv, Resting
  <2> QED
    BY <2>4, <2>5, <2>6, <2>7 DEF Next
<1> QED
  BY <1>1, <1>2, RegistryTypeCorrect, OnlyOwnIsTargeted, EverythingWasBorn, PTL DEF Spec

(* Without overlap the registry is exact: no second instance of an entry,    *)
(* and no instance that was reported and lives is missing from the file.     *)
THEOREM SerialRegistryExact == Spec => []SerialRegistryIsExact
<1>1. SerialInv => SerialRegistryIsExact
  <2> SUFFICES ASSUME SerialInv, ~overlapped
               PROVE  /\ \A i, j \in LaunchedByUs : runs[i] = runs[j] => i = j
                      /\ \A i \in LaunchedByUs \cap announced : Loaded(file)[runs[i]] = i
    BY DEF SerialRegistryIsExact
  <2>1. CASE \A r \in Requests : pc[r] = "idle"
    BY <2>1 DEF SerialInv, Resting
  <2>2. ASSUME NEW r \in Requests, pc[r] # "idle"
        PROVE  /\ \A i, j \in LaunchedByUs : runs[i] = runs[j] => i = j
               /\ \A i \in LaunchedByUs \cap announced : Loaded(file)[runs[i]] = i
    <3>1. Serially(r)
      BY <2>2 DEF SerialInv
    <3>2. \A i \in LaunchedByUs \cap announced : Loaded(file)[runs[i]] = i
      BY <3>1 DEF Serially, RecordedBut, Launches
    <3>3. CASE ~Recording(r)
      BY <3>1, <3>3 DEF Serially, RecordedBut
    <3>4. CASE Recording(r)
      <4>1. Ours(entry[r]) \subseteq {target[r]}
        BY <3>1, <3>4 DEF Serially, Launches, Mine, Recording, Saving
      <4> QED
        BY <3>1, <3>2, <4>1 DEF Serially, RecordedBut, Ours
    <3> QED
      BY <3>2, <3>3, <3>4
  <2> QED
    BY <2>1, <2>2
<1> QED
  BY <1>1, SerialRequestsRecord, PTL

=============================================================================
