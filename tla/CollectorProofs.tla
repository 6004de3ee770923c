---------------------------- MODULE CollectorProofs ----------------------------
(***************************************************************************)
(* Proofs about the collectors: CollectorPoller, which runs them, for any  *)
(* collectors and dependencies between them, any number of threads and     *)
(* whatever the sources do; and Measurements, what they keep from one      *)
(* collection to the next, for any roots and models, any limits and any    *)
(* number of restarts.                                                     *)
(***************************************************************************)
EXTENDS CollectorPoller, Measurements, SequenceTheorems, FiniteSetTheorems, TLAPS

(***************************************************************************)
(* The poller of the collectors                                            *)
(***************************************************************************)

(* What is left of the queue when one job is taken out of it.               *)
LEMMA RemoveAtTyped ==
    ASSUME NEW S, NEW s \in Seq(S), NEW i \in 1..Len(s)
    PROVE  RemoveAt(s, i) \in Seq(S)
<1>1. Len(s) \in Nat /\ \A k \in 1..Len(s) : s[k] \in S
  OBVIOUS
<1>2. SubSeq(s, 1, i - 1) \in Seq(S)
  BY <1>1, SubSeqProperties
<1>3. SubSeq(s, i + 1, Len(s)) \in Seq(S)
  BY <1>1, SubSeqProperties
<1> QED
  BY <1>2, <1>3, ConcatProperties DEF RemoveAt

(* The assumptions, in the form the proofs use.                             *)
LEMMA PollerBounds == MaxRuns \in Nat /\ MaxRuns > 0
<1>1. MaxRuns \in Nat \ {0}
  BY PollerAssumption
<1> QED
  BY <1>1

(* Leaving a job keeps the types of the pool.                               *)
LEMMA LeaveTyped ==
    ASSUME TypeOK, NEW o \in Owners, Leave(o)
    PROVE  /\ waiting' \in Seq(Owners)
           /\ pool' \in [Threads -> {Idle} \cup [owner : Owners, awaited : BOOLEAN]]
<1>1. waiting' \in Seq(Owners)
  <2>1. waiting \in Seq(Owners) /\ DOMAIN waiting = 1..Len(waiting)
    BY DEF TypeOK
  <2>2. waiting' = waiting \/ \E i \in DOMAIN waiting : waiting' = RemoveAt(waiting, i)
    BY DEF Leave
  <2> QED
    BY <2>1, <2>2, RemoveAtTyped
<1>2. ASSUME NEW t \in Threads
      PROVE  pool[t].owner = o =>
                 [pool[t] EXCEPT !.awaited = FALSE] \in {Idle} \cup [owner : Owners, awaited : BOOLEAN]
  <2>1. CASE pool[t] = Idle
    BY <2>1 DEF Idle
  <2>2. CASE pool[t] \in [owner : Owners, awaited : BOOLEAN]
    BY <2>2
  <2> QED
    BY <2>1, <2>2 DEF TypeOK
<1>3. \A t \in Threads : pool'[t] \in {Idle} \cup [owner : Owners, awaited : BOOLEAN]
  BY <1>2 DEF TypeOK, Leave
<1>4. pool' \in [Threads -> {Idle} \cup [owner : Owners, awaited : BOOLEAN]]
  BY <1>3 DEF Leave
<1> QED
  BY <1>1, <1>4

LEMMA GiveUpTyped ==
    ASSUME TypeOK, NEW c \in Collectors, GiveUp(c)
    PROVE  /\ waiting' \in Seq(Owners)
           /\ pool' \in [Threads -> {Idle} \cup [owner : Owners, awaited : BOOLEAN]]
           /\ job' \in [Collectors -> Job]
<1>1. c \in Owners /\ Leave(c)
  BY DEF Owners, GiveUp
<1> QED
  BY <1>1, LeaveTyped DEF TypeOK, GiveUp, Job

(* Submitting one does.                                                     *)
LEMMA SubmitTyped ==
    ASSUME TypeOK, NEW c \in Collectors, Submit(c)
    PROVE  waiting' \in Seq(Owners) /\ job' \in [Collectors -> Job]
BY DEF TypeOK, Submit, Job, Owners

(* Publishing an envelope keeps the types of what it is recorded in.         *)
LEMMA PublishTyped ==
    ASSUME TypeOK, NEW c \in Collectors, NEW e \in Envelopes, Publish(c, e)
    PROVE  /\ section' \in [Collectors -> Envelopes]
           /\ where' \in [Collectors -> Where]
           /\ lastOk' \in [Collectors -> 0..MaxRuns]
<1>1. e.data \in 0..MaxRuns
  BY DEF Envelopes
<1> QED
  BY <1>1 DEF TypeOK, Publish, Recorded, Where

(* The envelopes there are.                                                  *)
LEMMA EnvelopesTyped ==
    ASSUME NEW status \in {"none", "ok", "error", "unavailable"}, NEW data \in 0..MaxRuns
    PROVE  Envelope(status, data) \in Envelopes
BY DEF Envelope, Envelopes

(* The types.                                                                *)
THEOREM PollerTypeCorrect == Spec => []TypeOK
<1>1. Init => TypeOK
  <2> SUFFICES ASSUME Init
               PROVE  TypeOK
    OBVIOUS
  <2>1. NoEnvelope \in Envelopes
    BY PollerBounds, EnvelopesTyped DEF NoEnvelope
  <2>2. source \in [Collectors -> {"up", "down", "hung"}]
    BY DEF Init
  <2>3. /\ where \in [Collectors -> Where] /\ job \in [Collectors -> Job]
        /\ run \in [Collectors -> 0..MaxRuns] /\ lastGood \in [Collectors -> 0..MaxRuns]
        /\ lastOk \in [Collectors -> 0..MaxRuns]
    BY PollerBounds DEF Init, Where, Job
  <2>4. /\ sticky \in [Collectors -> BOOLEAN] /\ opened \in [Collectors -> BOOLEAN]
        /\ stopping \in BOOLEAN
    BY DEF Init
  <2>5. /\ section \in [Collectors -> Envelopes] /\ waiting \in Seq(Owners)
        /\ pool \in [Threads -> {Idle} \cup [owner : Owners, awaited : BOOLEAN]]
        /\ pruning \in {"interval", "thread", "ended"}
    BY <2>1 DEF Init
  <2> QED
    BY <2>2, <2>3, <2>4, <2>5 DEF TypeOK
<1>2. TypeOK /\ [Next]_vars => TypeOK'
  <2> SUFFICES ASSUME TypeOK, [Next]_vars
               PROVE  TypeOK'
    OBVIOUS
  <2> USE PollerBounds
  <2>1. ASSUME NEW c \in Collectors, Loop(c)
        PROVE  TypeOK'
    <3>1. CASE DependenciesReport(c) \/ DependenciesLimit(c)
      BY <3>1 DEF TypeOK, DependenciesReport, DependenciesLimit, Where
    <3>2. CASE Begin(c)
      <4>1. run' \in [Collectors -> 0..MaxRuns]
        BY <3>2 DEF TypeOK, Begin
      <4>2. CASE sticky[c]
        <5>1. Envelope("unavailable", 0) \in Envelopes
          BY EnvelopesTyped
        <5>2. Publish(c, Envelope("unavailable", 0)) /\ UNCHANGED <<job, waiting>>
          BY <3>2, <4>2 DEF Begin
        <5>3. UNCHANGED <<lastGood, sticky, opened, source, pool, pruning, stopping>>
          BY <3>2 DEF Begin
        <5> QED
          BY <4>1, <5>1, <5>2, <5>3, PublishTyped DEF TypeOK
      <4>3. CASE ~sticky[c]
        <5>1. where' \in [Collectors -> Where]
          BY <3>2, <4>3 DEF TypeOK, Begin, Where
        <5> QED
          BY <3>2, <4>1, <4>3, <5>1, SubmitTyped DEF TypeOK, Begin
      <4> QED
        BY <4>2, <4>3
    <3>3. CASE Probed(c)
      <4>1. CASE job[c] = "ok"
        <5>1. where' \in [Collectors -> Where]
          BY <3>3, <4>1 DEF TypeOK, Probed, Where
        <5>2. opened' = [opened EXCEPT ![c] = c \in Connecting]
          BY <3>3, <4>1 DEF Probed
        <5>3. \A known \in BOOLEAN : [opened EXCEPT ![c] = known] \in [Collectors -> BOOLEAN]
          BY DEF TypeOK
        <5>4. (c \in Connecting) \in BOOLEAN
          OBVIOUS
        <5>5. opened' \in [Collectors -> BOOLEAN]
          BY <5>2, <5>3, <5>4, Zenon
        <5> QED
          BY <3>3, <4>1, <5>1, <5>5, SubmitTyped DEF TypeOK, Probed
      <4>2. CASE job[c] # "ok"
        <5>1. Envelope("unavailable", 0) \in Envelopes
          BY EnvelopesTyped
        <5>2. sticky' \in [Collectors -> BOOLEAN] /\ job' \in [Collectors -> Job]
          BY <3>3, <4>2 DEF TypeOK, Probed, Job
        <5> QED
          BY <3>3, <4>2, <5>1, <5>2, PublishTyped DEF TypeOK, Probed
      <4> QED
        BY <4>1, <4>2
    <3>4. CASE Collected(c)
      <4>1. job' \in [Collectors -> Job] /\ lastGood' \in [Collectors -> 0..MaxRuns]
        BY <3>4 DEF TypeOK, Collected, Job
      <4>2. Envelope("ok", run[c]) \in Envelopes /\ Failure(c) \in Envelopes
        BY EnvelopesTyped DEF TypeOK, Failure
      <4> QED
        BY <3>4, <4>1, <4>2, PublishTyped DEF TypeOK, Collected
    <3>5. CASE TimesOut(c)
      <4>1. Failure(c) \in Envelopes
        BY EnvelopesTyped DEF TypeOK, Failure
      <4> QED
        BY <3>5, <4>1, PublishTyped, GiveUpTyped DEF TypeOK, TimesOut
    <3>6. CASE Cancelled(c)
      <4>1. where' \in [Collectors -> Where]
        BY <3>6 DEF TypeOK, Cancelled, Where
      <4> QED
        BY <3>6, <4>1, GiveUpTyped DEF TypeOK, Cancelled
    <3> QED
      BY <2>1, <3>1, <3>2, <3>3, <3>4, <3>5, <3>6 DEF Loop
  <2>2. ASSUME NEW c \in Collectors, SourceChanges(c)
        PROVE  TypeOK'
    <3>1. \E x \in {"up", "down", "hung"} : source' = [source EXCEPT ![c] = x]
      BY <2>2 DEF SourceChanges
    <3>2. source' \in [Collectors -> {"up", "down", "hung"}]
      BY <3>1 DEF TypeOK
    <3> QED
      BY <2>2, <3>2 DEF TypeOK, SourceChanges
  <2>3. ASSUME NEW t \in Threads, ThreadTakes(t)
        PROVE  TypeOK'
    <3>1. Head(waiting) \in Owners /\ Tail(waiting) \in Seq(Owners)
      BY <2>3, HeadTailProperties DEF TypeOK, ThreadTakes
    <3> QED
      BY <2>3, <3>1 DEF TypeOK, ThreadTakes, Job
  <2>4. ASSUME NEW t \in Threads, ThreadEnds(t)
        PROVE  TypeOK'
    BY <2>4 DEF TypeOK, ThreadEnds, Job
  <2>7. ASSUME NEW t \in Threads, PruneThreadEnds(t)
        PROVE  TypeOK'
    BY <2>7 DEF TypeOK, PruneThreadEnds, AfterPrune
  <2>8. CASE PruneLoop
    <3>1. CASE PruneDue
      BY <3>1 DEF TypeOK, PruneDue, Owners
    <3>2. CASE PruneCancelled
      <4>1. Prune \in Owners /\ Leave(Prune)
        BY <3>2 DEF PruneCancelled, Owners
      <4> QED
        BY <3>2, <4>1, LeaveTyped DEF TypeOK, PruneCancelled
    <3> QED
      BY <2>8, <3>1, <3>2 DEF PruneLoop
  <2>5. CASE Stop
    BY <2>5 DEF TypeOK, Stop
  <2>6. CASE UNCHANGED vars
    BY <2>6 DEF TypeOK, vars
  <2> QED
    BY <2>1, <2>2, <2>3, <2>4, <2>5, <2>6, <2>7, <2>8 DEF Next
<1> QED
  BY <1>1, <1>2, PTL DEF Spec

-----------------------------------------------------------------------------
(* What a collector keeps is what it last published as ok.                   *)
KeepsLastOk == \A c \in Collectors : lastGood[c] = lastOk[c]

(* An envelope is published with the last ok run's data, or as that run.     *)
LEMMA PublishKeeps ==
    ASSUME TypeOK, ErrorKeepsLastGood, NEW c \in Collectors, NEW e \in Envelopes,
           Publish(c, e), e.status \in {"error", "unavailable", "ok"},
           e.status = "error" => e.data = lastOk[c]
    PROVE  /\ ErrorKeepsLastGood'
           /\ lastOk' = IF e.status = "ok" THEN [lastOk EXCEPT ![c] = e.data] ELSE lastOk
BY DEF TypeOK, ErrorKeepsLastGood, Publish, Recorded

(* For every number of runs: an error envelope has the data of the last ok   *)
(* one, whatever became of the runs and the threads in between.              *)
THEOREM ErrorsKeepLastGood == Spec => []ErrorKeepsLastGood
<1>1. Init => KeepsLastOk /\ ErrorKeepsLastGood
  BY DEF Init, KeepsLastOk, ErrorKeepsLastGood, NoEnvelope, Envelope
<1>2. TypeOK /\ KeepsLastOk /\ ErrorKeepsLastGood /\ [Next]_vars
          => (KeepsLastOk /\ ErrorKeepsLastGood)'
  <2> SUFFICES ASSUME TypeOK, KeepsLastOk, ErrorKeepsLastGood, [Next]_vars
               PROVE  (KeepsLastOk /\ ErrorKeepsLastGood)'
    OBVIOUS
  <2>1. CASE UNCHANGED <<section, lastOk, lastGood>>
    BY <2>1 DEF KeepsLastOk, ErrorKeepsLastGood
  <2>2. ASSUME NEW c \in Collectors, Loop(c), ~UNCHANGED <<section, lastOk, lastGood>>
        PROVE  (KeepsLastOk /\ ErrorKeepsLastGood)'
    <3>1. ASSUME Publish(c, Envelope("unavailable", 0)), UNCHANGED lastGood
          PROVE  (KeepsLastOk /\ ErrorKeepsLastGood)'
      <4>1. Envelope("unavailable", 0) \in Envelopes
        BY PollerBounds, EnvelopesTyped
      <4> QED
        BY <3>1, <4>1, PublishKeeps DEF KeepsLastOk, Envelope
    <3>2. ASSUME Publish(c, Failure(c)), UNCHANGED lastGood
          PROVE  (KeepsLastOk /\ ErrorKeepsLastGood)'
      <4>1. Failure(c) \in Envelopes
        BY EnvelopesTyped DEF TypeOK, Failure
      <4>2. Failure(c).status = "error" /\ Failure(c).data = lastOk[c]
        BY DEF Failure, Envelope, KeepsLastOk
      <4> QED
        BY <3>2, <4>1, <4>2, PublishKeeps DEF KeepsLastOk
    <3>3. ASSUME Publish(c, Envelope("ok", run[c])), lastGood' = [lastGood EXCEPT ![c] = run[c]]
          PROVE  (KeepsLastOk /\ ErrorKeepsLastGood)'
      <4>1. Envelope("ok", run[c]) \in Envelopes
        BY EnvelopesTyped DEF TypeOK
      <4>2. ErrorKeepsLastGood' /\ lastOk' = [lastOk EXCEPT ![c] = run[c]]
        BY <3>3, <4>1, PublishKeeps DEF Envelope
      <4> QED
        BY <3>3, <4>2 DEF KeepsLastOk, TypeOK
    <3> QED
      BY <2>2, <3>1, <3>2, <3>3
         DEF Loop, DependenciesReport, DependenciesLimit, Begin, Probed, Collected, TimesOut, Cancelled
  <2>3. ASSUME NEW c \in Collectors, SourceChanges(c)
        PROVE  UNCHANGED <<section, lastOk, lastGood>>
    BY <2>3 DEF SourceChanges
  <2>4. ASSUME NEW t \in Threads, ThreadTakes(t) \/ ThreadEnds(t) \/ PruneThreadEnds(t)
        PROVE  UNCHANGED <<section, lastOk, lastGood>>
    BY <2>4 DEF ThreadTakes, ThreadEnds, PruneThreadEnds
  <2>6. CASE PruneLoop
    BY <2>1, <2>6 DEF PruneLoop, PruneDue, PruneCancelled
  <2>5. CASE Stop \/ UNCHANGED vars
    BY <2>1, <2>5 DEF Stop, vars
  <2> QED
    BY <2>1, <2>2, <2>3, <2>4, <2>5, <2>6 DEF Next
<1> QED
  BY <1>1, <1>2, PollerTypeCorrect, PTL DEF Spec

(***************************************************************************)
(* The sizes of the models                                                 *)
(***************************************************************************)

(* What a sequence holds after its first entry.                             *)
LEMMA TailHolds ==
    ASSUME NEW S, NEW s \in Seq(S), s # << >>
    PROVE  /\ Head(s) \in S /\ Head(s) = s[1] /\ 1 \in DOMAIN s /\ Tail(s) \in Seq(S)
           /\ \A i \in DOMAIN s : s[i] = Head(s) \/ \E j \in DOMAIN Tail(s) : Tail(s)[j] = s[i]
<1>1. Head(s) \in S /\ Head(s) = s[1] /\ Tail(s) \in Seq(S)
  BY HeadTailProperties
<1>2. Len(s) \in Nat \ {0} /\ Len(Tail(s)) = Len(s) - 1
  BY HeadTailProperties, EmptySeq
<1>3. \A j \in 1..Len(Tail(s)) : Tail(s)[j] = s[j + 1]
  BY HeadTailProperties
<1>4. DOMAIN s = 1..Len(s) /\ DOMAIN Tail(s) = 1..Len(Tail(s))
  BY <1>1, LenProperties
<1>5. ASSUME NEW i \in 1..Len(s), i # 1
      PROVE  \E j \in 1..Len(Tail(s)) : Tail(s)[j] = s[i]
  <2>1. i - 1 \in 1..Len(Tail(s)) /\ (i - 1) + 1 = i
    BY <1>2, <1>5
  <2> QED
    BY <1>3, <2>1
<1>6. ASSUME NEW i \in DOMAIN s
      PROVE  s[i] = Head(s) \/ \E j \in DOMAIN Tail(s) : Tail(s)[j] = s[i]
  <2>1. CASE i = 1
    BY <1>1, <2>1
  <2>2. CASE i # 1
    BY <1>4, <1>5, <2>2
  <2> QED
    BY <2>1, <2>2
<1>7. 1 \in DOMAIN s
  BY <1>2, <1>4
<1> QED
  BY <1>1, <1>6, <1>7

(* Whatever is known of an entry, in the cache or in a walk, was seen at or *)
(* after the mtime it is known under.                                       *)
SeenAfterMtime ==
    /\ \A e \in Dirs : content[e] >= mtime[e] /\ scanCache[e].seen >= scanCache[e].mtime
    /\ \A w \in Walkers : walker[w].from >= walker[w].mtime

(* The thread that a scan awaits walks the entry at its head, as that was   *)
(* when the scan began or later.                                            *)
AwaitsItsHead ==
    scan.awaits # 0 =>
        /\ scan.left # << >>
        /\ walker[scan.awaits].entry = Head(scan.left)
        /\ walker[scan.awaits].mtime >= scan.since[Head(scan.left)]

(* And whatever a scan has not left was found as it was then, or later.     *)
FoundSinceItBegan ==
    /\ \A e \in Dirs : mtime[e] >= scan.since[e]
    /\ scan.stage = "due" => scan.left = << >>
    /\ scan.stage = "begun" => \A e \in Dirs : \/ \E i \in DOMAIN scan.left : scan.left[i] = e
                                               \/ scan.found[e] >= scan.since[e]

ModelsInv == ModelsType /\ SeenAfterMtime /\ AwaitsItsHead /\ FoundSinceItBegan /\ ScanIsCurrent

(* An entry is found as it was seen, and leaves what is left of the scan.   *)
LEMMA FoundKeeps ==
    ASSUME ModelsInv, scan.left # << >>, NEW v \in Versions \cup {NotScanned},
           v >= scan.since[Head(scan.left)], scan' = Found(Head(scan.left), v)
    PROVE  /\ scan' \in [left : Seq(Dirs), found : Shown, awaits : Walkers \cup {0},
                         since : [Dirs -> Versions], stage : {"due", "begun"}]
           /\ scan'.awaits = 0 /\ scan'.since = scan.since /\ scan'.stage = "begun"
           /\ \A e \in Dirs : \/ \E i \in DOMAIN scan'.left : scan'.left[i] = e
                              \/ scan'.found[e] >= scan'.since[e]
<1> DEFINE h == Head(scan.left)
<1>1. /\ scan.left \in Seq(Dirs) /\ scan.found \in Shown /\ scan.since \in [Dirs -> Versions]
      /\ scan.stage = "begun"
      /\ scan = [left |-> scan.left, found |-> scan.found, awaits |-> scan.awaits,
                 since |-> scan.since, stage |-> scan.stage]
  BY DEF ModelsInv, ModelsType, FoundSinceItBegan
<1>2. /\ h \in Dirs /\ Tail(scan.left) \in Seq(Dirs)
      /\ \A i \in DOMAIN scan.left :
             scan.left[i] = h \/ \E j \in DOMAIN Tail(scan.left) : Tail(scan.left)[j] = scan.left[i]
  BY <1>1, TailHolds
<1> DEFINE rest  == Tail(scan.left)
           found == [scan.found EXCEPT ![h] = v]
<1>3. scan' = [left |-> rest, found |-> found, awaits |-> 0, since |-> scan.since, stage |-> "begun"]
  BY <1>1 DEF Found
<1>4. found \in Shown /\ rest \in Seq(Dirs)
  BY <1>1, <1>2 DEF Shown
<1>5. \A e \in Dirs : (\E i \in DOMAIN rest : rest[i] = e) \/ found[e] >= scan.since[e]
  <2> SUFFICES ASSUME NEW e \in Dirs, ~\E i \in DOMAIN rest : rest[i] = e
               PROVE  found[e] >= scan.since[e]
    OBVIOUS
  <2>1. CASE e = h
    BY <1>1, <1>2, <2>1 DEF Shown
  <2>2. CASE e # h
    <3>1. ~\E i \in DOMAIN scan.left : scan.left[i] = e
      BY <1>2, <2>2
    <3>2. scan.found[e] >= scan.since[e]
      BY <1>1, <3>1 DEF ModelsInv, FoundSinceItBegan
    <3> QED
      BY <1>1, <2>2, <3>2 DEF Shown
  <2> QED
    BY <2>1, <2>2
<1> HIDE DEF rest, found
<1>6. /\ scan'.left = rest /\ scan'.found = found /\ scan'.awaits = 0
      /\ scan'.since = scan.since /\ scan'.stage = "begun"
  BY <1>3
<1>7. scan' \in [left : Seq(Dirs), found : Shown, awaits : Walkers \cup {0},
                 since : [Dirs -> Versions], stage : {"due", "begun"}]
  BY <1>1, <1>3, <1>4
<1> QED
  BY <1>5, <1>6, <1>7

(* A scan that rests has left nothing and found nothing.                    *)
LEMMA RestingTyped ==
    ASSUME mtime \in [Dirs -> Versions], scan' = Resting
    PROVE  /\ scan' \in [left : Seq(Dirs), found : Shown, awaits : Walkers \cup {0},
                         since : [Dirs -> Versions], stage : {"due", "begun"}]
           /\ scan'.left = << >> /\ scan'.awaits = 0 /\ scan'.since = mtime /\ scan'.stage = "due"
<1>1. NothingShown \in Shown /\ << >> \in Seq(Dirs)
  BY DEF NothingShown, Shown
<1> QED
  BY <1>1 DEF Resting

(* Each step of a scan, of a thread or of a download keeps what is seen no  *)
(* older than its mtime.                                                    *)
LEMMA ModelsStep ==
    ASSUME ModelsInv, ModelsNext \/ UNCHANGED modelVars
    PROVE  ModelsInv'
<1> DEFINE Scans == [left : Seq(Dirs), found : Shown, awaits : Walkers \cup {0},
                     since : [Dirs -> Versions], stage : {"due", "begun"}]
           Walks == [entry : Dirs, mtime : Versions, from : Versions]
           h     == Head(scan.left)
<1>1. /\ content \in [Dirs -> Versions] /\ mtime \in [Dirs -> Versions]
      /\ scanCache \in [Dirs -> [mtime : Versions, seen : Versions] \cup {NoCache}]
      /\ walker \in [Walkers -> Walks \cup {NoWalk}] /\ scan \in Scans
      /\ modelSection \in [status : {"none", "ok", "error"}, shown : Shown, since : [Dirs -> Versions]]
      /\ Versions \subseteq Int /\ Walkers \subseteq Nat \ {0}
  BY ModelsAssumption DEF ModelsInv, ModelsType, Versions
<1>2. scan.left # << >> => h \in Dirs
  BY <1>1, TailHolds
<1>3. CASE ScanBegins
  <2>1. /\ scan' = [left |-> Entries, found |-> NothingShown, awaits |-> 0, since |-> mtime,
                    stage |-> "begun"]
        /\ UNCHANGED <<content, mtime, scanCache, walker, modelSection>>
    BY <1>3 DEF ScanBegins
  <2>2. NothingShown \in Shown
    BY DEF NothingShown, Shown
  <2>3. scan' \in Scans
    BY <1>1, <2>1, <2>2, ModelsAssumption
  <2>4. \A e \in Dirs : \E i \in DOMAIN Entries : Entries[i] = e
    BY DEF Dirs
  <2>5. /\ scan'.left = Entries /\ scan'.awaits = 0 /\ scan'.since = mtime /\ scan'.stage = "begun"
    BY <2>1
  <2>6. SeenAfterMtime' /\ AwaitsItsHead'
    BY <2>1, <2>5 DEF ModelsInv, SeenAfterMtime, AwaitsItsHead
  <2>7. FoundSinceItBegan'
    <3>1. ASSUME NEW e \in Dirs
          PROVE  mtime'[e] >= scan'.since[e]
      <4>1. mtime[e] \in Int /\ mtime'[e] = mtime[e] /\ scan'.since[e] = mtime[e]
        BY <1>1, <2>1, <2>5
      <4> QED
        BY <4>1
    <3>2. \A e \in Dirs : \E i \in DOMAIN scan'.left : scan'.left[i] = e
      BY <2>4, <2>5, Zenon
    <3> QED
      BY <2>5, <3>1, <3>2 DEF FoundSinceItBegan
  <2> QED
    BY <2>1, <2>3, <2>6, <2>7 DEF ModelsInv, ModelsType, ScanIsCurrent
<1>4. CASE EntryLookup
  <2>1. /\ scan.left # << >> /\ scan.awaits = 0 /\ h \in Dirs /\ scan.stage = "begun"
        /\ UNCHANGED <<content, mtime, scanCache, modelSection>>
    BY <1>1, <1>2, <1>4 DEF EntryLookup, Scanning, ModelsInv, FoundSinceItBegan
  <2>2. mtime[h] \in Int /\ scan.since[h] \in Int /\ mtime[h] >= scan.since[h]
    BY <1>1, <2>1 DEF ModelsInv, FoundSinceItBegan
  <2>3. CASE scanCache[h].mtime = mtime[h]
    <3>1. scan' = Found(h, scanCache[h].seen) /\ walker' = walker
      BY <1>4, <2>3 DEF EntryLookup
    <3>2. scanCache[h].seen \in Versions \cup {NotScanned}
      BY <1>1, <2>1 DEF NoCache
    <3>3. scanCache[h].seen >= scanCache[h].mtime
      BY <2>1 DEF ModelsInv, SeenAfterMtime
    <3>4. scanCache[h].seen >= scan.since[h]
      <4>1. scanCache[h].seen \in Int
        <5>1. Versions \subseteq Int /\ NotScanned \in Int
          BY <1>1 DEF NotScanned
        <5> QED
          BY <3>2, <5>1
      <4> QED
        BY <2>2, <2>3, <3>3, <4>1
    <3>5. /\ scan' \in Scans
          /\ scan'.awaits = 0 /\ scan'.since = scan.since /\ scan'.stage = "begun"
          /\ \A e \in Dirs : \/ \E i \in DOMAIN scan'.left : scan'.left[i] = e
                             \/ scan'.found[e] >= scan'.since[e]
      BY <2>1, <3>1, <3>2, <3>4, FoundKeeps
    <3>6. SeenAfterMtime' /\ AwaitsItsHead'
      BY <2>1, <3>1, <3>5 DEF ModelsInv, SeenAfterMtime, AwaitsItsHead
    <3>7. FoundSinceItBegan'
      BY <2>1, <3>5 DEF ModelsInv, FoundSinceItBegan
    <3> QED
      BY <2>1, <3>1, <3>5, <3>6, <3>7 DEF ModelsInv, ModelsType, ScanIsCurrent
  <2>4. CASE scanCache[h].mtime # mtime[h]
    <3> DEFINE walk == [entry |-> h, mtime |-> mtime[h], from |-> content[h]]
    <3>1. PICK w \in Walkers : walker' = [walker EXCEPT ![w] = walk] /\ scan' = [scan EXCEPT !.awaits = w]
      BY <1>4, <2>4 DEF EntryLookup
    <3>2. /\ walk \in Walks /\ walk.from >= walk.mtime
          /\ walk.entry = h /\ walk.mtime = mtime[h]
      BY <1>1, <2>1 DEF ModelsInv, SeenAfterMtime
    <3> HIDE DEF walk
    <3>3. /\ scan' \in Scans /\ scan'.awaits = w
          /\ scan'.left = scan.left /\ scan'.since = scan.since /\ scan'.stage = scan.stage
          /\ scan'.found = scan.found
      BY <1>1, <3>1
    <3>4. /\ walker' \in [Walkers -> Walks \cup {NoWalk}]
          /\ walker'[w] = walk /\ \A u \in Walkers : u # w => walker'[u] = walker[u]
      BY <1>1, <3>1, <3>2
    <3>5. SeenAfterMtime'
      BY <2>1, <3>2, <3>4 DEF ModelsInv, SeenAfterMtime
    <3>6. AwaitsItsHead'
      BY <2>1, <2>2, <3>2, <3>3, <3>4 DEF AwaitsItsHead
    <3>7. FoundSinceItBegan'
      BY <2>1, <3>3 DEF ModelsInv, FoundSinceItBegan
    <3> QED
      BY <2>1, <3>3, <3>4, <3>5, <3>6, <3>7 DEF ModelsInv, ModelsType, ScanIsCurrent
  <2> QED
    BY <2>3, <2>4
<1>5. ASSUME NEW w \in Walkers, WalkEnds(w)
      PROVE  ModelsInv'
  <2> DEFINE e == walker[w].entry
  <2>1. walker[w] \in Walks /\ e \in Dirs
    BY <1>1, <1>5 DEF WalkEnds, Walking
  <2>2. PICK v \in walker[w].from..content[e] :
            /\ scanCache' = [scanCache EXCEPT ![e] = [mtime |-> walker[w].mtime, seen |-> v]]
            /\ scan' = IF scan.awaits = w THEN Found(e, v) ELSE scan
    BY <1>5 DEF WalkEnds
  <2>3. v \in Versions /\ v >= walker[w].from /\ v >= walker[w].mtime
    <3>1. /\ walker[w].from \in 0..MaxContent /\ walker[w].mtime \in 0..MaxContent
          /\ content[e] \in 0..MaxContent /\ walker[w].from >= walker[w].mtime
      BY <1>1, <2>1 DEF Versions, ModelsInv, SeenAfterMtime
    <3> QED
      BY <2>2, <3>1, ModelsAssumption DEF Versions
  <2>4. walker' = [walker EXCEPT ![w] = NoWalk] /\ UNCHANGED <<content, mtime, modelSection>>
    BY <1>5 DEF WalkEnds
  <2> DEFINE entry == [mtime |-> walker[w].mtime, seen |-> v]
  <2>5. entry \in [mtime : Versions, seen : Versions] /\ entry.seen >= entry.mtime
    BY <2>1, <2>3
  <2> HIDE DEF entry
  <2>6. /\ scanCache' \in [Dirs -> [mtime : Versions, seen : Versions] \cup {NoCache}]
        /\ scanCache'[e] = entry /\ \A d \in Dirs : d # e => scanCache'[d] = scanCache[d]
    BY <1>1, <2>1, <2>2, <2>5 DEF entry
  <2>7. /\ walker' \in [Walkers -> Walks \cup {NoWalk}]
        /\ walker'[w] = NoWalk /\ \A u \in Walkers : u # w => walker'[u] = walker[u]
    BY <1>1, <2>4
  <2>8. SeenAfterMtime'
    <3>1. \A d \in Dirs : content'[d] >= mtime'[d] /\ scanCache'[d].seen >= scanCache'[d].mtime
      BY <2>4, <2>5, <2>6 DEF ModelsInv, SeenAfterMtime
    <3>2. NoWalk.from >= NoWalk.mtime
      BY DEF NoWalk
    <3>3. \A u \in Walkers : walker'[u].from >= walker'[u].mtime
      BY <2>7, <3>2 DEF ModelsInv, SeenAfterMtime
    <3> QED
      BY <3>1, <3>3 DEF SeenAfterMtime
  <2>9. CASE scan.awaits = w
    <3>1. /\ scan.left # << >> /\ e = h /\ walker[w].mtime >= scan.since[h]
      BY <1>1, <2>9 DEF ModelsInv, AwaitsItsHead
    <3>2. scan' = Found(h, v) /\ v >= scan.since[h]
      BY <1>1, <2>1, <2>2, <2>3, <2>9, <3>1 DEF Versions
    <3>3. /\ scan' \in Scans
          /\ scan'.awaits = 0 /\ scan'.since = scan.since /\ scan'.stage = "begun"
          /\ \A d \in Dirs : \/ \E i \in DOMAIN scan'.left : scan'.left[i] = d
                             \/ scan'.found[d] >= scan'.since[d]
      BY <2>3, <3>1, <3>2, FoundKeeps
    <3>4. AwaitsItsHead' /\ FoundSinceItBegan'
      BY <2>4, <3>3 DEF ModelsInv, AwaitsItsHead, FoundSinceItBegan
    <3> QED
      BY <2>4, <2>6, <2>7, <2>8, <3>3, <3>4 DEF ModelsInv, ModelsType, ScanIsCurrent
  <2>10. CASE scan.awaits # w
    <3>1. scan' = scan
      BY <2>2, <2>10
    <3>2. AwaitsItsHead'
      BY <1>1, <2>7, <2>10, <3>1 DEF ModelsInv, AwaitsItsHead
    <3> QED
      BY <2>4, <2>6, <2>7, <2>8, <3>1, <3>2 DEF ModelsInv, ModelsType, FoundSinceItBegan, ScanIsCurrent
  <2> QED
    BY <2>9, <2>10
<1>6. CASE ScanEnds
  <2>1. /\ scan.left = << >> /\ scan.stage = "begun" /\ scan' = Resting
        /\ modelSection' = [status |-> "ok", shown |-> scan.found, since |-> scan.since]
        /\ UNCHANGED <<content, mtime, scanCache, walker>>
    BY <1>1, <1>6 DEF ScanEnds, Scanning
  <2>2. \A e \in Dirs : scan.found[e] >= scan.since[e]
    <3>1. DOMAIN scan.left = {}
      BY <2>1
    <3> QED
      BY <2>1, <3>1 DEF ModelsInv, FoundSinceItBegan
  <2>3. modelSection'.shown = scan.found /\ modelSection'.since = scan.since
    BY <2>1
  <2>4. modelSection' \in [status : {"none", "ok", "error"}, shown : Shown, since : [Dirs -> Versions]]
    BY <1>1, <2>1
  <2>5. scan' \in Scans /\ scan'.left = << >> /\ scan'.awaits = 0 /\ scan'.since = mtime
        /\ scan'.stage = "due"
    BY <1>1, <2>1, RestingTyped
  <2>6. SeenAfterMtime' /\ AwaitsItsHead'
    BY <2>1, <2>5 DEF ModelsInv, SeenAfterMtime, AwaitsItsHead
  <2>7. FoundSinceItBegan'
    <3>1. ASSUME NEW e \in Dirs
          PROVE  mtime'[e] >= scan'.since[e]
      <4>1. mtime[e] \in Int /\ mtime'[e] = mtime[e] /\ scan'.since[e] = mtime[e]
        BY <1>1, <2>1, <2>5
      <4> QED
        BY <4>1
    <3> QED
      BY <2>5, <3>1 DEF FoundSinceItBegan
  <2>8. ScanIsCurrent'
    BY <2>2, <2>3 DEF ScanIsCurrent
  <2> QED
    BY <2>1, <2>4, <2>5, <2>6, <2>7, <2>8 DEF ModelsInv, ModelsType
<1>7. CASE ScanTimesOut
  <2>1. scan' = Resting /\ modelSection' = [modelSection EXCEPT !.status = "error"]
        /\ UNCHANGED <<content, mtime, scanCache, walker>>
    BY <1>7 DEF ScanTimesOut
  <2>2. /\ modelSection' \in [status : {"none", "ok", "error"}, shown : Shown, since : [Dirs -> Versions]]
        /\ modelSection'.status # "ok"
    BY <1>1, <2>1
  <2>3. scan' \in Scans /\ scan'.left = << >> /\ scan'.awaits = 0 /\ scan'.since = mtime
        /\ scan'.stage = "due"
    BY <1>1, <2>1, RestingTyped
  <2>4. SeenAfterMtime' /\ AwaitsItsHead'
    BY <2>1, <2>3 DEF ModelsInv, SeenAfterMtime, AwaitsItsHead
  <2>5. FoundSinceItBegan' /\ ScanIsCurrent'
    <3>1. ASSUME NEW e \in Dirs
          PROVE  mtime'[e] >= scan'.since[e]
      <4>1. mtime[e] \in Int /\ mtime'[e] = mtime[e] /\ scan'.since[e] = mtime[e]
        BY <1>1, <2>1, <2>3
      <4> QED
        BY <4>1
    <3> QED
      BY <2>2, <2>3, <3>1 DEF FoundSinceItBegan, ScanIsCurrent
  <2> QED
    BY <2>1, <2>2, <2>3, <2>4, <2>5 DEF ModelsInv, ModelsType
<1>8. ASSUME NEW e \in Dirs, Download(e)
      PROVE  ModelsInv'
  <2>1. /\ content[e] < MaxContent /\ content' = [content EXCEPT ![e] = @ + 1]
        /\ mtime' = mtime \/ mtime' = [mtime EXCEPT ![e] = content'[e]]
        /\ UNCHANGED <<scanCache, walker, scan, modelSection>>
    BY <1>8 DEF Download
  <2>2. content'[e] = content[e] + 1 /\ content[e] \in Nat /\ content'[e] \in Versions
    BY <1>1, <2>1, ModelsAssumption DEF Versions
  <2>3. content' \in [Dirs -> Versions] /\ mtime' \in [Dirs -> Versions]
    BY <1>1, <2>1, <2>2
  <2>4. ASSUME NEW d \in Dirs
        PROVE  content'[d] >= mtime'[d] /\ mtime'[d] >= mtime[d] /\ mtime[d] >= scan.since[d]
    <3>1. content[d] >= mtime[d] /\ mtime[d] >= scan.since[d]
      BY DEF ModelsInv, SeenAfterMtime, FoundSinceItBegan
    <3>2. content[d] \in Int /\ mtime[d] \in Int
      BY <1>1
    <3>3. d = e => content'[d] = content[d] + 1 /\ mtime'[d] \in {mtime[d], content'[d]}
      BY <1>1, <2>1, <2>2
    <3>4. d # e => content'[d] = content[d] /\ mtime'[d] = mtime[d]
      BY <1>1, <2>1
    <3> QED
      BY <3>1, <3>2, <3>3, <3>4
  <2>5. SeenAfterMtime' /\ AwaitsItsHead'
    BY <2>1, <2>4 DEF ModelsInv, SeenAfterMtime, AwaitsItsHead
  <2>6. FoundSinceItBegan'
    <3>1. ASSUME NEW d \in Dirs
          PROVE  mtime'[d] >= scan.since[d]
      <4>1. mtime'[d] \in Int /\ mtime[d] \in Int /\ scan.since[d] \in Int
        BY <1>1, <2>3
      <4> QED
        BY <2>4, <4>1
    <3> QED
      BY <2>1, <3>1 DEF ModelsInv, FoundSinceItBegan
  <2> QED
    BY <2>1, <2>3, <2>5, <2>6 DEF ModelsInv, ModelsType, ScanIsCurrent
<1>9. CASE UNCHANGED modelVars
  BY <1>9 DEF modelVars, ModelsInv, ModelsType, SeenAfterMtime, AwaitsItsHead, FoundSinceItBegan, ScanIsCurrent
<1> QED
  BY <1>3, <1>4, <1>5, <1>6, <1>7, <1>8, <1>9 DEF ModelsNext, ScanStep

(***************************************************************************)
(* The sizes of the roots                                                  *)
(***************************************************************************)

(* A tick makes a size older by one, up to where it tells nothing more.     *)
LEMMA OlderByOne ==
    /\ MaxAge \in Nat /\ MaxAge + 1 \in Nat /\ MaxAge >= DuTtl /\ MaxAge >= DuLimit
    /\ \A age \in 0..MaxAge + 1 : Older(age) \in 0..MaxAge + 1 /\ Older(age) <= age + 1
BY DiskAssumption DEF MaxAge, Older

LEMMA AgedTyped ==
    ASSUME NEW roots \in SizedRoots
    PROVE  /\ Aged(roots) \in SizedRoots
           /\ \A p \in Paths : Aged(roots)[p].source = "du" =>
                  roots[p].source = "du" /\ Aged(roots)[p].age <= roots[p].age + 1
<1> DEFINE Entry == [source : {"none", "du", "docker-api", "error"}, age : 0..MaxAge + 1]
<1>1. ASSUME NEW p \in Paths
      PROVE  /\ Aged(roots)[p] \in Entry
             /\ Aged(roots)[p].source = "du" =>
                    roots[p].source = "du" /\ Aged(roots)[p].age <= roots[p].age + 1
  <2>1. roots[p] \in Entry
    BY DEF SizedRoots
  <2>2. CASE roots[p].source = "du"
    <3>1. Aged(roots)[p] = [source |-> "du", age |-> Older(roots[p].age)]
      BY <2>2 DEF Aged, Sized
    <3>2. roots[p].age \in 0..MaxAge + 1
      BY <2>1
    <3>3. Older(roots[p].age) \in 0..MaxAge + 1 /\ Older(roots[p].age) <= roots[p].age + 1
      BY <3>2, OlderByOne
    <3> QED
      BY <2>2, <3>1, <3>3
  <2>3. CASE roots[p].source # "du"
    <3>1. Aged(roots)[p] = roots[p]
      BY <2>3 DEF Aged
    <3> QED
      BY <2>1, <2>3, <3>1
  <2> QED
    BY <2>2, <2>3
<1>2. Aged(roots) = [p \in Paths |-> Aged(roots)[p]]
  BY DEF Aged
<1> QED
  BY <1>1, <1>2 DEF SizedRoots

(* A cached size that has not expired is as old as its stamp.               *)
StampIsAge == \A p \in Paths : duCache[p].stamp < DuTtl => duCache[p].age = duCache[p].stamp

(* Whoever measures has a root to measure.                                  *)
MeasuresItsHead == \A t \in DiskThreads : Measuring(t) => Busy(t) /\ diskThread[t].left # << >>

(* Nothing is waited for longer than it may be.                             *)
WaitIsBounded == diskWait.since <= (IF diskWait.for = "interval" THEN DiskInterval ELSE DiskTimeout)

(* The one thread that the poller waits for has taken what had not expired  *)
(* from the cache since it began, or measured it since.                     *)
ThreadIsRecent ==
    /\ \A t \in DiskThreads : diskThread[t].for = "poller" =>
           /\ diskWait.for = "collection"
           /\ diskThread[t].du <= diskWait.since
           /\ \A p \in Paths : diskThread[t].sized[p].source = "du" =>
                  diskThread[t].sized[p].age <= (DuTtl - 1) + diskWait.since
    /\ \A t, u \in DiskThreads :
           diskThread[t].for = "poller" /\ diskThread[u].for = "poller" => t = u

(* A section that says ok is as old as its collection, and the wait since.  *)
SectionIsRecent ==
    diskSection.status = "ok" =>
        \A p \in Paths : diskSection.roots[p].source = "du" =>
            diskSection.roots[p].age <= (DuTtl - 1) + DiskTimeout + diskWait.since
                                        + (IF diskWait.for = "interval" THEN 0 ELSE DiskInterval)

DiskInv == DiskType /\ StampIsAge /\ MeasuresItsHead /\ WaitIsBounded /\ ThreadIsRecent /\ SectionIsRecent

(* What is shown then is within the limit.                                  *)
LEMMA SectionWithinLimit == DiskInv => SizesAreRecent
<1> SUFFICES ASSUME DiskInv, diskSection.status = "ok", NEW p \in Paths,
                    diskSection.roots[p].source = "du"
             PROVE  diskSection.roots[p].age <= MaxAge
  BY DEF SizesAreRecent
<1>1. diskSection.roots[p].age \in Nat /\ diskWait.since \in Nat
      /\ diskWait.for \in {"interval", "collection"}
  <2>1. diskSection.roots \in SizedRoots
    BY DEF DiskInv, DiskType
  <2>2. diskSection.roots[p] \in [source : {"none", "du", "docker-api", "error"}, age : 0..MaxAge + 1]
    BY <2>1 DEF SizedRoots
  <2>3. diskSection.roots[p].age \in Nat
    BY <2>2, OlderByOne
  <2>4. diskWait.since \in Nat /\ diskWait.for \in {"interval", "collection"}
    BY DiskAssumption DEF DiskInv, DiskType
  <2> QED
    BY <2>3, <2>4
<1>2. diskWait.since <= (IF diskWait.for = "interval" THEN DiskInterval ELSE DiskTimeout)
  BY DEF DiskInv, WaitIsBounded
<1>3. diskSection.roots[p].age <= (DuTtl - 1) + DiskTimeout + diskWait.since
                                  + (IF diskWait.for = "interval" THEN 0 ELSE DiskInterval)
  BY DEF DiskInv, SectionIsRecent
<1> QED
  BY <1>1, <1>2, <1>3, DiskAssumption DEF MaxAge

(* A root that is done with leaves the thread its entry and the next root.  *)
LEMMA DoneDoes ==
    ASSUME DiskType, NEW t \in DiskThreads, diskThread[t].left # << >>,
           NEW entry \in [source : {"none", "du", "docker-api", "error"}, age : 0..MaxAge + 1],
           Done(t, entry)
    PROVE  /\ Current(t) \in Paths
           /\ diskThread' \in [DiskThreads -> [left : Seq(Paths), du : -1..DuLimit, sized : SizedRoots,
                                               df : BOOLEAN, for : {"nobody", "poller", "past"}]]
           /\ diskThread'[t].du = -1 /\ diskThread'[t].for = diskThread[t].for
           /\ diskThread'[t].sized[Current(t)] = entry
           /\ \A p \in Paths : p # Current(t) => diskThread'[t].sized[p] = diskThread[t].sized[p]
           /\ \A u \in DiskThreads : u # t => diskThread'[u] = diskThread[u]
<1> DEFINE ThreadStates == [left : Seq(Paths), du : -1..DuLimit, sized : SizedRoots,
                       df : BOOLEAN, for : {"nobody", "poller", "past"}]
           c     == Current(t)
           rest  == Tail(diskThread[t].left)
           sized == [diskThread[t].sized EXCEPT ![c] = entry]
<1>1. diskThread \in [DiskThreads -> ThreadStates] /\ diskThread[t] \in ThreadStates
  BY DEF DiskType
<1>2. c \in Paths /\ rest \in Seq(Paths)
  BY <1>1, TailHolds DEF Current
<1>3. sized \in SizedRoots
  BY <1>1, <1>2 DEF SizedRoots
<1>4. /\ sized[c] = entry
      /\ \A p \in Paths : p # c => sized[p] = diskThread[t].sized[p]
  BY <1>1, <1>2 DEF SizedRoots
<1>5. -1 \in -1..DuLimit
  BY DiskAssumption
<1>6. diskThread' = [diskThread EXCEPT ![t] = [left |-> rest, du |-> -1, sized |-> sized,
                                               df |-> diskThread[t].df, for |-> diskThread[t].for]]
  BY DEF Done
<1> HIDE DEF c, rest, sized
<1>7. diskThread'[t] = [left |-> rest, du |-> -1, sized |-> sized,
                        df |-> diskThread[t].df, for |-> diskThread[t].for]
  BY <1>1, <1>6
<1>8. \A u \in DiskThreads : u # t => diskThread'[u] = diskThread[u]
  BY <1>1, <1>6
<1>9. diskThread' \in [DiskThreads -> ThreadStates]
  BY <1>1, <1>2, <1>3, <1>5, <1>6
<1>10. diskThread'[t].du = -1 /\ diskThread'[t].for = diskThread[t].for /\ diskThread'[t].sized = sized
  BY <1>7
<1> QED
  BY <1>2, <1>4, <1>8, <1>9, <1>10 DEF c

(* It keeps the thread as recent as its entry is.                           *)
LEMMA DoneKeepsRecent ==
    ASSUME DiskInv, NEW t \in DiskThreads, Busy(t), diskThread[t].left # << >>,
           NEW entry \in [source : {"none", "du", "docker-api", "error"}, age : 0..MaxAge + 1],
           Done(t, entry), diskWait' = diskWait,
           diskThread[t].for = "poller" /\ entry.source = "du" =>
               entry.age <= (DuTtl - 1) + diskWait.since
    PROVE  MeasuresItsHead' /\ ThreadIsRecent'
<1>1. /\ diskThread'[t].du = -1 /\ diskThread'[t].for = diskThread[t].for
      /\ diskThread'[t].sized[Current(t)] = entry
      /\ \A p \in Paths : p # Current(t) => diskThread'[t].sized[p] = diskThread[t].sized[p]
      /\ \A u \in DiskThreads : u # t => diskThread'[u] = diskThread[u]
  BY DoneDoes DEF DiskInv
<1>2. -1 <= diskWait.since /\ ~(-1 >= 0)
  BY DiskAssumption DEF DiskInv, DiskType
<1>3. MeasuresItsHead'
  BY <1>1, <1>2 DEF DiskInv, MeasuresItsHead, Measuring, Busy
<1>4. \A u \in DiskThreads : diskThread'[u].for = diskThread[u].for
  BY <1>1
<1>5. ASSUME NEW u \in DiskThreads, diskThread'[u].for = "poller"
      PROVE  /\ diskWait'.for = "collection"
             /\ diskThread'[u].du <= diskWait'.since
             /\ \A p \in Paths : diskThread'[u].sized[p].source = "du" =>
                    diskThread'[u].sized[p].age <= (DuTtl - 1) + diskWait'.since
  <2>1. /\ diskWait.for = "collection" /\ diskThread[u].du <= diskWait.since
        /\ \A p \in Paths : diskThread[u].sized[p].source = "du" =>
               diskThread[u].sized[p].age <= (DuTtl - 1) + diskWait.since
    BY <1>4, <1>5 DEF DiskInv, ThreadIsRecent
  <2>2. CASE u = t
    BY <1>1, <1>2, <1>4, <1>5, <2>1, <2>2
  <2>3. CASE u # t
    BY <1>1, <2>1, <2>3
  <2> QED
    BY <2>2, <2>3
<1>6. \A u, v \in DiskThreads : diskThread'[u].for = "poller" /\ diskThread'[v].for = "poller" => u = v
  BY <1>4 DEF DiskInv, ThreadIsRecent
<1> QED
  BY <1>3, <1>5, <1>6 DEF ThreadIsRecent

(* What the parts of the invariant read of a thread.                        *)
LEMMA ThreadTyped ==
    ASSUME DiskType, NEW t \in DiskThreads
    PROVE  /\ diskThread[t] \in [left : Seq(Paths), du : -1..DuLimit, sized : SizedRoots,
                                 df : BOOLEAN, for : {"nobody", "poller", "past"}]
           /\ diskThread[t].left \in Seq(Paths) /\ diskThread[t].du \in Int
           /\ diskThread[t].sized \in SizedRoots
           /\ diskThread[t].for \in {"nobody", "poller", "past"}
BY DiskAssumption DEF DiskType

LEMMA WaitTyped ==
    ASSUME DiskInv
    PROVE  /\ diskWait.since \in Nat /\ diskWait.for \in {"interval", "collection"}
           /\ diskWait = [for |-> diskWait.for, since |-> diskWait.since]
           /\ (DuTtl - 1) + diskWait.since \in Nat
BY DiskAssumption DEF DiskInv, DiskType

(* A thread's turn, its measurement and its end.                            *)
LEMMA TurnsKeepDisk ==
    ASSUME DiskInv, NEW t \in DiskThreads, TurnToRoot(t)
    PROVE  DiskInv'
<1> USE DEF DiskInv
<1>1. /\ Busy(t) /\ diskThread[t].left # << >> /\ ~Measuring(t)
      /\ duCache' = duCache /\ diskWait' = diskWait /\ diskSection' = diskSection
  BY DEF TurnToRoot
<1>2. Current(t) \in Paths
  BY <1>1, ThreadTyped, TailHolds DEF Current
<1>3. duCache[Current(t)] \in [stamp : 0..DuTtl, age : 0..MaxAge + 1]
  BY <1>2 DEF DiskType
<1>4. StampIsAge' /\ WaitIsBounded' /\ SectionIsRecent'
  BY <1>1 DEF StampIsAge, WaitIsBounded, SectionIsRecent
<1>5. CASE duCache[Current(t)].stamp < DuTtl
  <2> DEFINE entry == Sized("du", duCache[Current(t)].age)
  <2>1. Done(t, entry)
    BY <1>5 DEF TurnToRoot
  <2>2. entry \in [source : {"none", "du", "docker-api", "error"}, age : 0..MaxAge + 1]
    BY <1>3 DEF Sized
  <2>3. entry.age <= (DuTtl - 1) + diskWait.since
    <3>1. duCache[Current(t)].age = duCache[Current(t)].stamp
      BY <1>2, <1>5 DEF StampIsAge
    <3> QED
      BY <1>3, <1>5, <3>1, WaitTyped, DiskAssumption DEF Sized
  <2> HIDE DEF entry
  <2>4. MeasuresItsHead' /\ ThreadIsRecent'
    BY <1>1, <2>1, <2>2, <2>3, DoneKeepsRecent
  <2>5. DiskType'
    BY <1>1, <2>1, <2>2, DoneDoes DEF DiskType
  <2> QED
    BY <1>4, <2>4, <2>5
<1>6. CASE ~(duCache[Current(t)].stamp < DuTtl)
  <2>1. diskThread' = [diskThread EXCEPT ![t].du = 0]
    BY <1>6 DEF TurnToRoot
  <2>2. 0 \in -1..DuLimit
    BY DiskAssumption
  <2>3. DiskType'
    BY <1>1, <2>1, <2>2 DEF DiskType
  <2>4. /\ diskThread'[t].du = 0 /\ diskThread'[t].for = diskThread[t].for
        /\ diskThread'[t].left = diskThread[t].left /\ diskThread'[t].sized = diskThread[t].sized
        /\ \A u \in DiskThreads : u # t => diskThread'[u] = diskThread[u]
    BY <2>1 DEF DiskType
  <2>5. MeasuresItsHead'
    BY <1>1, <2>4 DEF MeasuresItsHead, Measuring, Busy
  <2>6. \A u \in DiskThreads : /\ diskThread'[u].for = diskThread[u].for
                               /\ diskThread'[u].sized = diskThread[u].sized
                               /\ diskThread'[u].du = IF u = t THEN 0 ELSE diskThread[u].du
    BY <2>4
  <2>7. ThreadIsRecent'
    BY <1>1, <2>6, WaitTyped DEF ThreadIsRecent
  <2> QED
    BY <1>4, <2>3, <2>5, <2>7
<1> QED
  BY <1>5, <1>6

LEMMA MeasurementsKeepDisk ==
    ASSUME DiskInv, NEW t \in DiskThreads, DuEnds(t) \/ DuFails(t)
    PROVE  DiskInv'
<1> USE DEF DiskInv
<1>1. Measuring(t) /\ diskWait' = diskWait /\ diskSection' = diskSection
  BY DEF DuEnds, DuFails
<1>2. Busy(t) /\ diskThread[t].left # << >>
  BY <1>1 DEF MeasuresItsHead
<1>3. Current(t) \in Paths
  BY <1>2, ThreadTyped, TailHolds DEF Current
<1>4. WaitIsBounded' /\ SectionIsRecent'
  BY <1>1 DEF WaitIsBounded, SectionIsRecent
<1>5. diskThread[t].du \in 0..DuLimit
  BY <1>1, ThreadTyped, DiskAssumption DEF Measuring
<1>6. CASE DuEnds(t)
  <2> DEFINE entry == Sized("du", diskThread[t].du)
  <2>1. Done(t, entry) /\ duCache' = [duCache EXCEPT ![Current(t)] = Cached(diskThread[t].du)]
    BY <1>6 DEF DuEnds
  <2>2. /\ entry \in [source : {"none", "du", "docker-api", "error"}, age : 0..MaxAge + 1]
        /\ Cached(diskThread[t].du) \in [stamp : 0..DuTtl, age : 0..MaxAge + 1]
        /\ Cached(diskThread[t].du).stamp = Cached(diskThread[t].du).age
    <3>1. diskThread[t].du \in 0..MaxAge + 1 /\ diskThread[t].du \in 0..DuTtl
      <4>1. DuLimit \in Nat /\ DuTtl \in Nat /\ DuLimit < DuTtl
        BY DiskAssumption
      <4>2. MaxAge \in Nat /\ MaxAge >= DuTtl
        BY OlderByOne
      <4> QED
        BY <1>5, <4>1, <4>2
    <3> QED
      BY <3>1 DEF Sized, Cached
  <2>3. diskThread[t].for = "poller" => entry.age <= (DuTtl - 1) + diskWait.since
    <3>1. diskThread[t].for = "poller" => diskThread[t].du <= diskWait.since
      BY DEF ThreadIsRecent
    <3> QED
      BY <1>5, <3>1, WaitTyped, DiskAssumption DEF Sized
  <2>4. duCache' \in [Paths -> [stamp : 0..DuTtl, age : 0..MaxAge + 1]]
    BY <1>3, <2>1, <2>2 DEF DiskType
  <2>5. StampIsAge'
    <3> DEFINE new == Cached(diskThread[t].du)
    <3>1. new.stamp = new.age /\ duCache' = [duCache EXCEPT ![Current(t)] = new]
      BY <2>1, <2>2
    <3> HIDE DEF new
    <3>2. \A p \in Paths : duCache'[p] = IF p = Current(t) THEN new ELSE duCache[p]
      BY <1>3, <3>1 DEF DiskType
    <3> QED
      BY <3>1, <3>2 DEF StampIsAge
  <2> HIDE DEF entry
  <2>6. MeasuresItsHead' /\ ThreadIsRecent'
    BY <1>1, <1>2, <2>1, <2>2, <2>3, DoneKeepsRecent
  <2>7. DiskType'
    BY <1>1, <1>2, <2>1, <2>2, <2>4, DoneDoes DEF DiskType
  <2> QED
    BY <1>4, <2>5, <2>6, <2>7
<1>7. CASE DuFails(t)
  <2> DEFINE entry == IF Current(t) = DockerRoot /\ diskThread[t].df
                      THEN Sized("docker-api", 0) ELSE Sized("error", 0)
  <2>1. Done(t, entry) /\ duCache' = duCache
    BY <1>7 DEF DuFails
  <2>2. /\ entry \in [source : {"none", "du", "docker-api", "error"}, age : 0..MaxAge + 1]
        /\ entry.source # "du"
    <3>1. entry = Sized("docker-api", 0) \/ entry = Sized("error", 0)
      OBVIOUS
    <3>2. 0 \in 0..MaxAge + 1
      BY OlderByOne
    <3> HIDE DEF entry
    <3> QED
      BY <3>1, <3>2 DEF Sized
  <2> HIDE DEF entry
  <2>3. StampIsAge'
    BY <2>1 DEF StampIsAge
  <2>4. MeasuresItsHead' /\ ThreadIsRecent'
    BY <1>1, <1>2, <2>1, <2>2, DoneKeepsRecent
  <2>5. DiskType'
    BY <1>1, <1>2, <2>1, <2>2, DoneDoes DEF DiskType
  <2> QED
    BY <1>4, <2>3, <2>4, <2>5
<1> QED
  BY <1>6, <1>7

LEMMA EndsKeepDisk ==
    ASSUME DiskInv, NEW t \in DiskThreads, CollectionEnds(t)
    PROVE  DiskInv'
<1> USE DEF DiskInv
<1>1. diskThread' = [diskThread EXCEPT ![t] = NoThread] /\ duCache' = duCache
  BY DEF CollectionEnds
<1>2. /\ diskThread'[t] = NoThread
      /\ \A u \in DiskThreads : u # t => diskThread'[u] = diskThread[u]
  BY <1>1 DEF DiskType
<1>3. NoThread.for = "nobody" /\ NoThread.du = -1
  BY DEF NoThread
<1>4. NotShown \in SizedRoots
  BY OlderByOne DEF NotShown, SizedRoots, Sized
<1>5. NoThread \in [left : Seq(Paths), du : -1..DuLimit, sized : SizedRoots,
                    df : BOOLEAN, for : {"nobody", "poller", "past"}]
  <2>1. << >> \in Seq(Paths) /\ FALSE \in BOOLEAN /\ -1 \in -1..DuLimit
    BY DiskAssumption
  <2> QED
    BY <1>4, <2>1 DEF NoThread
<1>6. diskThread' \in [DiskThreads -> [left : Seq(Paths), du : -1..DuLimit, sized : SizedRoots,
                                       df : BOOLEAN, for : {"nobody", "poller", "past"}]]
  BY <1>1, <1>5 DEF DiskType
<1>7. StampIsAge'
  BY <1>1 DEF StampIsAge
<1>8. MeasuresItsHead'
  <2>1. ~(-1 >= 0)
    OBVIOUS
  <2>2. \A u \in DiskThreads : Measuring(u)' => u # t
    BY <1>2, <1>3, <2>1 DEF Measuring
  <2> QED
    BY <1>2, <2>2 DEF MeasuresItsHead, Measuring, Busy
<1>9. CASE diskThread[t].for = "poller"
  <2>1. /\ diskSection' = [status |-> "ok", roots |-> diskThread[t].sized]
        /\ diskWait' = [for |-> "interval", since |-> 0]
    BY <1>9 DEF CollectionEnds
  <2>2. /\ diskSection'.roots = diskThread[t].sized
        /\ diskWait'.for = "interval" /\ diskWait'.since = 0
    BY <2>1
  <2>3. DiskType'
    <3>1. diskSection' \in [status : {"none", "ok", "error"}, roots : SizedRoots]
      BY <2>1, ThreadTyped
    <3>2. diskWait' \in [for : {"interval", "collection"}, since : 0..DiskTimeout + DiskInterval]
      BY <2>1, DiskAssumption
    <3> QED
      BY <1>1, <1>6, <3>1, <3>2 DEF DiskType
  <2>4. ThreadIsRecent'
    <3>1. \A u \in DiskThreads : diskThread'[u].for # "poller"
      BY <1>2, <1>3, <1>9 DEF ThreadIsRecent
    <3> QED
      BY <3>1 DEF ThreadIsRecent
  <2>5. WaitIsBounded'
    BY <2>2, DiskAssumption DEF WaitIsBounded
  <2>6. SectionIsRecent'
    <3>1. ASSUME NEW p \in Paths, diskThread[t].sized[p].source = "du"
          PROVE  diskThread[t].sized[p].age <= (DuTtl - 1) + DiskTimeout
      <4>1. diskThread[t].sized[p] \in [source : {"none", "du", "docker-api", "error"}, age : 0..MaxAge + 1]
        BY ThreadTyped DEF SizedRoots
      <4>2. diskThread[t].sized[p].age \in Int
        BY <4>1
      <4>3. diskWait.for = "collection" /\ diskThread[t].sized[p].age <= (DuTtl - 1) + diskWait.since
        BY <1>9, <3>1 DEF ThreadIsRecent
      <4>4. diskWait.since <= DiskTimeout
        BY <4>3 DEF WaitIsBounded
      <4> QED
        BY <4>2, <4>3, <4>4, WaitTyped, DiskAssumption
    <3>2. (DuTtl - 1) + DiskTimeout + 0 + 0 = (DuTtl - 1) + DiskTimeout
      BY DiskAssumption
    <3> QED
      BY <2>2, <3>1, <3>2 DEF SectionIsRecent
  <2> QED
    BY <1>7, <1>8, <2>3, <2>4, <2>5, <2>6
<1>10. CASE diskThread[t].for # "poller"
  <2>1. diskSection' = diskSection /\ diskWait' = diskWait
    BY <1>10 DEF CollectionEnds
  <2>2. DiskType' /\ WaitIsBounded' /\ SectionIsRecent'
    BY <1>1, <1>6, <2>1 DEF DiskType, WaitIsBounded, SectionIsRecent
  <2>3. \A u \in DiskThreads : diskThread'[u].for = "poller" =>
            diskThread[u].for = "poller" /\ diskThread'[u] = diskThread[u]
    BY <1>2, <1>3
  <2>4. ThreadIsRecent'
    BY <2>1, <2>3 DEF ThreadIsRecent
  <2> QED
    BY <1>7, <1>8, <2>2, <2>4
<1> QED
  BY <1>9, <1>10

(* The poller's side: a new collection, and one that is given up.           *)
LEMMA LoopKeepsDisk ==
    ASSUME DiskInv, DiskLoop
    PROVE  DiskInv'
<1> USE DEF DiskInv
<1>1. duCache' = duCache
  BY DEF DiskLoop, CollectionBegins, CollectionTimesOut
<1>2. StampIsAge'
  BY <1>1 DEF StampIsAge
<1>3. ASSUME NEW t \in DiskThreads, NEW info \in BOOLEAN, NEW df \in BOOLEAN,
             CollectionBegins(t, info, df)
      PROVE  DiskInv'
  <2> DEFINE dataRoot == IF info /\ \A i \in DOMAIN Roots : Roots[i] # DockerRoot
                         THEN <<DockerRoot>> ELSE << >>
             thread == [left |-> Roots \o dataRoot, du |-> -1, sized |-> NotShown,
                        df |-> (info /\ df), for |-> "poller"]
  <2>1. /\ diskWait = [for |-> "interval", since |-> DiskInterval]
        /\ diskThread' = [diskThread EXCEPT ![t] = thread]
        /\ diskWait' = [for |-> "collection", since |-> 0]
        /\ diskSection' = diskSection
    BY <1>3 DEF CollectionBegins
  <2>2. (info /\ df) \in BOOLEAN
    BY Zenon
  <2>3. Roots \o dataRoot \in Seq(Paths)
    <3>1. DockerRoot \in Paths
      BY DEF Paths
    <3>2. <<DockerRoot>> \in Seq(Paths) /\ << >> \in Seq(Paths)
      BY <3>1
    <3>3. dataRoot = <<DockerRoot>> \/ dataRoot = << >>
      BY Zenon
    <3> HIDE DEF dataRoot
    <3>4. Roots \in Seq(Paths)
      BY DiskAssumption
    <3>5. dataRoot \in Seq(Paths)
      BY <3>2, <3>3
    <3> QED
      BY <3>4, <3>5
  <2>4. NotShown \in SizedRoots
    BY OlderByOne DEF NotShown, SizedRoots, Sized
  <2>5. -1 \in -1..DuLimit
    BY DiskAssumption
  <2>6. thread \in [left : Seq(Paths), du : -1..DuLimit, sized : SizedRoots,
                    df : BOOLEAN, for : {"nobody", "poller", "past"}]
    <3> DEFINE left == Roots \o dataRoot
               both == info /\ df
    <3>1. left \in Seq(Paths) /\ both \in BOOLEAN
      BY <2>2, <2>3
    <3>2. thread = [left |-> left, du |-> -1, sized |-> NotShown, df |-> both, for |-> "poller"]
      BY Zenon
    <3> HIDE DEF left, both, thread
    <3> QED
      BY <2>4, <2>5, <3>1, <3>2
  <2>7. /\ thread.du = -1 /\ thread.for = "poller"
        /\ \A p \in Paths : thread.sized[p].source # "du"
    <3>1. thread.du = -1 /\ thread.for = "poller" /\ thread.sized = NotShown
      BY Zenon
    <3> QED
      BY <3>1 DEF NotShown, Sized
  <2> HIDE DEF thread, dataRoot
  <2>8. /\ diskThread'[t] = thread
        /\ \A u \in DiskThreads : u # t => diskThread'[u] = diskThread[u]
    BY <2>1 DEF DiskType
  <2>9. \A u \in DiskThreads : diskThread[u].for # "poller"
    BY <2>1 DEF ThreadIsRecent
  <2>10. DiskType'
    <3>1. diskThread' \in [DiskThreads -> [left : Seq(Paths), du : -1..DuLimit, sized : SizedRoots,
                                           df : BOOLEAN, for : {"nobody", "poller", "past"}]]
      BY <2>1, <2>6 DEF DiskType
    <3>2. diskWait' \in [for : {"interval", "collection"}, since : 0..DiskTimeout + DiskInterval]
      BY <2>1, DiskAssumption
    <3> QED
      BY <1>1, <2>1, <3>1, <3>2 DEF DiskType
  <2>11. MeasuresItsHead'
    <3>1. ~(-1 >= 0)
      OBVIOUS
    <3>2. \A u \in DiskThreads : Measuring(u)' => u # t
      BY <2>7, <2>8, <3>1 DEF Measuring
    <3> QED
      BY <2>8, <3>2 DEF MeasuresItsHead, Measuring, Busy
  <2>12. diskWait'.for = "collection" /\ diskWait'.since = 0
    BY <2>1
  <2>13. \A u \in DiskThreads : diskThread'[u].for = "poller" => u = t
    BY <2>8, <2>9
  <2>14. ThreadIsRecent'
    BY <2>7, <2>8, <2>12, <2>13 DEF ThreadIsRecent
  <2>15. WaitIsBounded'
    BY <2>12, DiskAssumption DEF WaitIsBounded
  <2>16. diskWait.for = "interval" /\ diskWait.since = DiskInterval
    BY <2>1
  <2>17. SectionIsRecent'
    <3>1. (DuTtl - 1) + DiskTimeout + DiskInterval + 0 = (DuTtl - 1) + DiskTimeout + 0 + DiskInterval
      BY DiskAssumption
    <3> QED
      BY <2>1, <2>12, <2>16, <3>1 DEF SectionIsRecent
  <2> QED
    BY <1>2, <2>10, <2>11, <2>14, <2>15, <2>17
<1>4. CASE CollectionTimesOut
  <2>1. /\ diskSection' = [diskSection EXCEPT !.status = "error"]
        /\ diskWait' = [for |-> "interval", since |-> 0]
        /\ diskThread' = [t \in DiskThreads |-> IF Busy(t) THEN [diskThread[t] EXCEPT !.for = "past"]
                                                ELSE diskThread[t]]
    BY <1>4 DEF CollectionTimesOut
  <2>2. \A t \in DiskThreads :
            /\ diskThread'[t].left = diskThread[t].left /\ diskThread'[t].du = diskThread[t].du
            /\ Busy(t)' <=> Busy(t)
            /\ diskThread'[t].for # "poller"
    <3> SUFFICES ASSUME NEW t \in DiskThreads
                 PROVE  /\ diskThread'[t].left = diskThread[t].left /\ diskThread'[t].du = diskThread[t].du
                        /\ Busy(t)' <=> Busy(t)
                        /\ diskThread'[t].for # "poller"
      OBVIOUS
    <3>1. CASE Busy(t)
      <4>1. diskThread'[t] = [diskThread[t] EXCEPT !.for = "past"]
        BY <2>1, <3>1
      <4> QED
        BY <3>1, <4>1, ThreadTyped DEF Busy
    <3>2. CASE ~Busy(t)
      <4>1. diskThread'[t] = diskThread[t]
        BY <2>1, <3>2
      <4> QED
        BY <3>2, <4>1 DEF Busy
    <3> QED
      BY <3>1, <3>2
  <2>3. diskThread' \in [DiskThreads -> [left : Seq(Paths), du : -1..DuLimit, sized : SizedRoots,
                                         df : BOOLEAN, for : {"nobody", "poller", "past"}]]
    BY <2>1 DEF DiskType
  <2>4. /\ diskSection' \in [status : {"none", "ok", "error"}, roots : SizedRoots]
        /\ diskSection'.status = "error"
    BY <2>1 DEF DiskType
  <2>5. diskWait' \in [for : {"interval", "collection"}, since : 0..DiskTimeout + DiskInterval]
    BY <2>1, DiskAssumption
  <2>6. DiskType'
    BY <1>1, <2>3, <2>4, <2>5 DEF DiskType
  <2>7. MeasuresItsHead' /\ ThreadIsRecent'
    BY <2>2 DEF MeasuresItsHead, ThreadIsRecent, Measuring
  <2>8. diskWait'.for = "interval" /\ diskWait'.since = 0
    BY <2>1
  <2>9. WaitIsBounded' /\ SectionIsRecent'
    BY <2>4, <2>8, DiskAssumption DEF WaitIsBounded, SectionIsRecent
  <2> QED
    BY <1>2, <2>6, <2>7, <2>9
<1> QED
  BY <1>3, <1>4 DEF DiskLoop

(* A tick of the clock makes the sizes older, and what waits for them.      *)
LEMMA TickKeepsDisk ==
    ASSUME DiskInv, DiskTick
    PROVE  DiskInv'
<1> USE DEF DiskInv
<1> DEFINE Entry == [source : {"none", "du", "docker-api", "error"}, age : 0..MaxAge + 1]
           limit == IF diskWait.for = "interval" THEN DiskInterval ELSE DiskTimeout
           since == diskWait.since
<1>1. /\ since < limit
      /\ \A t \in DiskThreads : Busy(t) => Measuring(t) /\ diskThread[t].du < DuLimit
      /\ diskWait' = [diskWait EXCEPT !.since = @ + 1]
      /\ duCache' = [p \in Paths |->
            IF duCache[p].stamp + 1 < DuTtl
            THEN [stamp |-> duCache[p].stamp + 1, age |-> Older(duCache[p].age)] ELSE NotCached]
      /\ diskThread' = [t \in DiskThreads |->
            IF Busy(t) THEN [diskThread[t] EXCEPT !.du = @ + 1, !.sized = Aged(@)] ELSE NoThread]
      /\ diskSection' = [diskSection EXCEPT !.roots = Aged(@)]
  BY DEF DiskTick
<1>2. /\ since \in Nat /\ limit \in Nat /\ DuTtl \in Nat /\ DuLimit \in Nat
      /\ since + 1 \in 0..DiskTimeout + DiskInterval
      /\ (DuTtl - 1) \in Int /\ DiskTimeout \in Nat /\ DiskInterval \in Nat
  <2>1. since \in Nat /\ diskWait.for \in {"interval", "collection"}
    BY WaitTyped
  <2>2. DuTtl \in Nat /\ DuLimit \in Nat /\ DiskTimeout \in Nat /\ DiskInterval \in Nat
    BY DiskAssumption
  <2>3. limit = DiskInterval \/ limit = DiskTimeout
    OBVIOUS
  <2>4. since < limit
    BY <1>1
  <2> HIDE DEF limit, since
  <2> QED
    BY <2>1, <2>2, <2>3, <2>4
<1>3. diskWait' = [for |-> diskWait.for, since |-> since + 1]
  BY <1>1, WaitTyped
<1>4. diskWait'.for = diskWait.for /\ diskWait'.since = since + 1
  BY <1>3
<1>5. WaitIsBounded'
  <2>1. since + 1 <= limit
    <3>1. since < limit
      BY <1>1
    <3> HIDE DEF since, limit
    <3> QED
      BY <1>2, <3>1
  <2> QED
    BY <1>4, <2>1 DEF WaitIsBounded
<1>6. /\ duCache' \in [Paths -> [stamp : 0..DuTtl, age : 0..MaxAge + 1]]
      /\ StampIsAge'
  <2>1. ASSUME NEW p \in Paths
        PROVE  /\ duCache'[p] \in [stamp : 0..DuTtl, age : 0..MaxAge + 1]
               /\ duCache'[p].stamp < DuTtl => duCache'[p].age = duCache'[p].stamp
    <3>1. duCache[p].stamp \in 0..DuTtl /\ duCache[p].age \in 0..MaxAge + 1
      BY DEF DiskType
    <3>2. CASE duCache[p].stamp + 1 < DuTtl
      <4>1. duCache'[p] = [stamp |-> duCache[p].stamp + 1, age |-> Older(duCache[p].age)]
        BY <1>1, <3>2
      <4>2. duCache[p].age = duCache[p].stamp
        BY <1>2, <3>1, <3>2 DEF StampIsAge
      <4>3. Older(duCache[p].age) = duCache[p].stamp + 1
        BY <1>2, <3>1, <3>2, <4>2, OlderByOne DEF Older
      <4>4. Older(duCache[p].age) \in 0..MaxAge + 1
        BY <3>1, OlderByOne
      <4>5. duCache[p].stamp + 1 \in 0..DuTtl
        BY <1>2, <3>1, <3>2
      <4> QED
        BY <4>1, <4>3, <4>4, <4>5
    <3>3. CASE ~(duCache[p].stamp + 1 < DuTtl)
      <4>1. duCache'[p] = [stamp |-> DuTtl, age |-> 0]
        BY <1>1, <3>3 DEF NotCached
      <4>2. DuTtl \in 0..DuTtl /\ 0 \in 0..MaxAge + 1 /\ ~(DuTtl < DuTtl)
        BY <1>2, OlderByOne
      <4> QED
        BY <4>1, <4>2
    <3> QED
      BY <3>2, <3>3
  <2> QED
    BY <1>1, <2>1 DEF StampIsAge
<1>7. NoThread \in [left : Seq(Paths), du : -1..DuLimit, sized : SizedRoots,
                    df : BOOLEAN, for : {"nobody", "poller", "past"}]
  <2>1. << >> \in Seq(Paths) /\ FALSE \in BOOLEAN /\ -1 \in -1..DuLimit
    BY <1>2
  <2>2. NotShown \in SizedRoots
    BY OlderByOne DEF NotShown, SizedRoots, Sized
  <2> QED
    BY <2>1, <2>2 DEF NoThread
<1>8. NoThread.for = "nobody" /\ NoThread.du = -1
  BY DEF NoThread
<1>9. ASSUME NEW t \in DiskThreads, Busy(t)
      PROVE  /\ diskThread'[t] \in [left : Seq(Paths), du : -1..DuLimit, sized : SizedRoots,
                                    df : BOOLEAN, for : {"nobody", "poller", "past"}]
             /\ diskThread'[t].left = diskThread[t].left /\ diskThread'[t].for = diskThread[t].for
             /\ diskThread'[t].du = diskThread[t].du + 1
             /\ diskThread'[t].sized = Aged(diskThread[t].sized)
  <2>1. diskThread'[t] = [diskThread[t] EXCEPT !.du = @ + 1, !.sized = Aged(@)]
    BY <1>1, <1>9
  <2>2. diskThread[t].du + 1 \in -1..DuLimit
    <3>1. diskThread[t].du >= 0 /\ diskThread[t].du < DuLimit
      BY <1>1, <1>9 DEF Measuring
    <3>2. diskThread[t].du \in Int
      BY ThreadTyped
    <3> QED
      BY <1>2, <3>1, <3>2
  <2>3. Aged(diskThread[t].sized) \in SizedRoots
    BY AgedTyped, ThreadTyped
  <2> QED
    BY <2>1, <2>2, <2>3, ThreadTyped
<1>10. ASSUME NEW t \in DiskThreads, ~Busy(t)
       PROVE  diskThread'[t] = NoThread
  BY <1>1, <1>10
<1>11. DiskType'
  <2>1. diskThread' \in [DiskThreads -> [left : Seq(Paths), du : -1..DuLimit, sized : SizedRoots,
                                         df : BOOLEAN, for : {"nobody", "poller", "past"}]]
    <3>1. ASSUME NEW t \in DiskThreads
          PROVE  diskThread'[t] \in [left : Seq(Paths), du : -1..DuLimit, sized : SizedRoots,
                                     df : BOOLEAN, for : {"nobody", "poller", "past"}]
      BY <1>7, <1>9, <1>10
    <3>2. diskThread' = [t \in DiskThreads |-> diskThread'[t]]
      BY <1>1
    <3> QED
      BY <3>1, <3>2
  <2>2. diskWait' \in [for : {"interval", "collection"}, since : 0..DiskTimeout + DiskInterval]
    BY <1>2, <1>3, WaitTyped
  <2>3. diskSection' \in [status : {"none", "ok", "error"}, roots : SizedRoots]
    BY <1>1, AgedTyped DEF DiskType
  <2> QED
    BY <1>6, <2>1, <2>2, <2>3 DEF DiskType
<1>12. MeasuresItsHead'
  <2> SUFFICES ASSUME NEW t \in DiskThreads, diskThread'[t].du >= 0
               PROVE  diskThread'[t].for # "nobody" /\ diskThread'[t].left # << >>
    BY DEF MeasuresItsHead, Measuring, Busy
  <2>1. ~(-1 >= 0)
    OBVIOUS
  <2>2. Busy(t)
    BY <1>8, <1>10, <2>1
  <2>3. diskThread[t].left # << >>
    BY <1>1, <2>2 DEF MeasuresItsHead
  <2> QED
    BY <1>9, <2>2, <2>3 DEF Busy
<1>13. ThreadIsRecent'
  <2>1. ASSUME NEW t \in DiskThreads, diskThread'[t].for = "poller"
        PROVE  diskThread[t].for = "poller" /\ Busy(t)
    BY <1>8, <1>9, <1>10, <2>1 DEF Busy
  <2>2. ASSUME NEW t \in DiskThreads, diskThread'[t].for = "poller"
        PROVE  /\ diskWait'.for = "collection" /\ diskThread'[t].du <= diskWait'.since
               /\ \A p \in Paths : diskThread'[t].sized[p].source = "du" =>
                      diskThread'[t].sized[p].age <= (DuTtl - 1) + diskWait'.since
    <3>1. /\ diskWait.for = "collection" /\ diskThread[t].du <= since
          /\ \A p \in Paths : diskThread[t].sized[p].source = "du" =>
                 diskThread[t].sized[p].age <= (DuTtl - 1) + since
      BY <2>1, <2>2 DEF ThreadIsRecent
    <3>2. diskThread'[t].du = diskThread[t].du + 1 /\ diskThread'[t].sized = Aged(diskThread[t].sized)
      BY <1>9, <2>1, <2>2
    <3>3. diskThread[t].du \in Int /\ diskThread[t].sized \in SizedRoots
      BY ThreadTyped
    <3>4. diskThread'[t].du <= diskWait'.since
      BY <1>2, <1>4, <3>1, <3>2, <3>3
    <3>5. ASSUME NEW p \in Paths, diskThread'[t].sized[p].source = "du"
          PROVE  diskThread'[t].sized[p].age <= (DuTtl - 1) + diskWait'.since
      <4>1. /\ diskThread[t].sized[p].source = "du"
            /\ diskThread'[t].sized[p].age <= diskThread[t].sized[p].age + 1
        BY <3>2, <3>3, <3>5, AgedTyped
      <4>2. diskThread[t].sized[p] \in Entry /\ diskThread'[t].sized[p] \in Entry
        BY <3>2, <3>3, AgedTyped DEF SizedRoots
      <4>3. diskThread[t].sized[p].age \in Int /\ diskThread'[t].sized[p].age \in Int
        BY <4>2
      <4>4. diskThread[t].sized[p].age <= (DuTtl - 1) + since
        BY <3>1, <4>1
      <4> QED
        BY <1>2, <1>4, <4>1, <4>3, <4>4
    <3> QED
      BY <1>4, <3>1, <3>4, <3>5
  <2>3. \A t, u \in DiskThreads :
            diskThread'[t].for = "poller" /\ diskThread'[u].for = "poller" => t = u
    BY <2>1 DEF ThreadIsRecent
  <2> QED
    BY <2>2, <2>3 DEF ThreadIsRecent
<1>14. SectionIsRecent'
  <2> SUFFICES ASSUME diskSection'.status = "ok", NEW p \in Paths,
                      diskSection'.roots[p].source = "du"
               PROVE  diskSection'.roots[p].age <= (DuTtl - 1) + DiskTimeout + diskWait'.since
                                       + (IF diskWait'.for = "interval" THEN 0 ELSE DiskInterval)
    BY DEF SectionIsRecent
  <2>1. /\ diskSection'.roots = Aged(diskSection.roots) /\ diskSection'.status = diskSection.status
        /\ diskSection.roots \in SizedRoots
    BY <1>1 DEF DiskType
  <2>2. /\ diskSection.roots[p].source = "du"
        /\ diskSection'.roots[p].age <= diskSection.roots[p].age + 1
    BY <2>1, AgedTyped
  <2>3. diskSection.roots[p] \in Entry /\ diskSection'.roots[p] \in Entry
    BY <2>1, AgedTyped DEF SizedRoots
  <2>4. diskSection.roots[p].age \in Int /\ diskSection'.roots[p].age \in Int
    BY <2>3
  <2> DEFINE extra == IF diskWait.for = "interval" THEN 0 ELSE DiskInterval
  <2>5. diskSection.roots[p].age <= (DuTtl - 1) + DiskTimeout + since + extra
    BY <2>1, <2>2 DEF SectionIsRecent
  <2>6. extra \in Int
    BY <1>2
  <2>7. extra = IF diskWait'.for = "interval" THEN 0 ELSE DiskInterval
    BY <1>4
  <2> HIDE DEF extra
  <2> QED
    BY <1>2, <1>4, <2>2, <2>4, <2>5, <2>6, <2>7
<1> QED
  BY <1>5, <1>6, <1>11, <1>12, <1>13, <1>14

(* Every step of the disk section keeps its sizes recent.                   *)
LEMMA DiskStep == DiskInv /\ (DiskNext \/ UNCHANGED diskVars) => DiskInv'
<1> SUFFICES ASSUME DiskInv, DiskNext \/ UNCHANGED diskVars
             PROVE  DiskInv'
  OBVIOUS
<1>1. CASE DiskLoop
  BY <1>1, LoopKeepsDisk
<1>2. CASE DiskTick
  BY <1>2, TickKeepsDisk
<1>3. ASSUME NEW t \in DiskThreads, DiskThreadStep(t)
      PROVE  DiskInv'
  BY <1>3, TurnsKeepDisk, MeasurementsKeepDisk, EndsKeepDisk DEF DiskThreadStep
<1>4. CASE UNCHANGED diskVars
  BY <1>4 DEF diskVars, DiskInv, DiskType, StampIsAge, MeasuresItsHead, WaitIsBounded, ThreadIsRecent,
              SectionIsRecent, Busy, Measuring
<1> QED
  BY <1>1, <1>2, <1>3, <1>4 DEF DiskNext

LEMMA DiskBegins == DiskInit => DiskInv
<1> SUFFICES ASSUME DiskInit PROVE DiskInv
  OBVIOUS
<1>1. NotShown \in SizedRoots
  BY OlderByOne DEF NotShown, SizedRoots, Sized
<1>2. NoThread \in [left : Seq(Paths), du : -1..DuLimit, sized : SizedRoots,
                    df : BOOLEAN, for : {"nobody", "poller", "past"}]
  <2>1. << >> \in Seq(Paths) /\ FALSE \in BOOLEAN /\ -1 \in -1..DuLimit
    BY DiskAssumption
  <2> QED
    BY <1>1, <2>1 DEF NoThread
<1>3. NoThread.for = "nobody" /\ NoThread.du = -1 /\ ~(-1 >= 0)
  BY DEF NoThread
<1>4. NotCached \in [stamp : 0..DuTtl, age : 0..MaxAge + 1] /\ ~(NotCached.stamp < DuTtl)
  <2>1. DuTtl \in 0..DuTtl /\ 0 \in 0..MaxAge + 1 /\ ~(DuTtl < DuTtl)
    BY DiskAssumption, OlderByOne
  <2> QED
    BY <2>1 DEF NotCached
<1>5. diskWait \in [for : {"interval", "collection"}, since : 0..DiskTimeout + DiskInterval]
  <2>1. DiskInterval \in 0..DiskTimeout + DiskInterval
    BY DiskAssumption
  <2> QED
    BY <2>1 DEF DiskInit
<1>6. diskSection \in [status : {"none", "ok", "error"}, roots : SizedRoots]
      /\ diskSection.status # "ok"
  BY <1>1 DEF DiskInit
<1>7. DiskType /\ StampIsAge
  BY <1>2, <1>4, <1>5, <1>6 DEF DiskInit, DiskType, StampIsAge
<1>8. MeasuresItsHead /\ ThreadIsRecent
  BY <1>3 DEF DiskInit, MeasuresItsHead, ThreadIsRecent, Measuring
<1>9. diskWait.since = DiskInterval /\ diskWait.for = "interval"
  BY DEF DiskInit
<1>10. WaitIsBounded
  BY <1>9, DiskAssumption DEF WaitIsBounded
<1> QED
  BY <1>6, <1>7, <1>8, <1>10 DEF DiskInv, SectionIsRecent

(***************************************************************************)
(* The history                                                             *)
(***************************************************************************)
(* The rows that a number of ticks may record; the ticks from a start until  *)
(* its first prune is over.                                                 *)
Ticks(n) == Cardinality(Metrics) * n
Until == PruneEvery + PruneLate + 1

(* A row of this tick is of a collector that was recorded in it.            *)
FreshAreRecorded == \A r \in rows : r[2] = 0 => r[1] \in recorded

(* Rows and samples agree from the newest on: in all that is newer than some *)
(* row, in something of something, and in everything until the file passes  *)
(* its ceiling.                                                             *)
RowsAreSamples ==
    /\ rows \subseteq samples
    /\ \A r \in rows, s \in samples : s[2] < r[2] => s \in rows
    /\ fileSize <= Ceiling => rows = samples
    /\ samples # {} => rows # {}

(* The table grows by the rows until the next prune, which halves only what *)
(* is over the ceiling, and after it has deleted.                           *)
TableIsBounded ==
    /\ TableSize <= fileSize
    /\ service = "up" =>
           TableSize + Cardinality(Metrics) - Cardinality(recorded)
               <= Ticks(Window + (starts - 1) * Until + waited + 1)
    /\ service = "down" => TableSize <= Ticks(Window + starts * Until)
    /\ pruner = "halving" => fileSize > Ceiling /\ expired = 0

HistoryInv ==
    /\ HistoryType /\ FileIsBounded
    /\ FreshAreRecorded /\ RowsAreSamples /\ TableIsBounded

(* A collector has the more rows the more ticks.                            *)
LEMMA TicksAddUp ==
    /\ Cardinality(Metrics) \in Nat
    /\ \A n \in Nat : Ticks(n) \in Nat /\ Ticks(n + 1) = Ticks(n) + Cardinality(Metrics)
    /\ \A m, n \in Nat : m <= n => Ticks(m) <= Ticks(n)
<1> DEFINE k == Cardinality(Metrics)
<1>1. k \in Nat
  BY HistoryAssumption, FS_CardinalityType DEF Metrics
<1> HIDE DEF k
<1>2. \A n \in Nat : k * n \in Nat /\ k * (n + 1) = k * n + k
  BY <1>1
<1>3. \A m, n \in Nat : m <= n => k * m <= k * n
  <2> SUFFICES ASSUME NEW m \in Nat, NEW n \in Nat, m <= n
               PROVE  k * m <= k * n
    OBVIOUS
  <2>1. PICK d \in Nat : n = m + d
    <3>1. n - m \in Nat /\ n = m + (n - m)
      OBVIOUS
    <3> QED
      BY <3>1
  <2>2. k * n = k * m + k * d /\ k * d \in Nat /\ k * m \in Nat
    BY <1>1, <2>1
  <2> QED
    BY <2>2
<1> QED
  BY <1>1, <1>2, <1>3 DEF Ticks, k

(* Tables are finite, and so is what is recorded.                           *)
LEMMA HistoryNumbers ==
    ASSUME HistoryType
    PROVE  /\ Window \in Nat /\ Until \in Nat \ {0} /\ waited \in Nat /\ waited < Until
           /\ starts \in Nat \ {0}
           /\ \A S \in SUBSET (Metrics \X Ages) : IsFiniteSet(S) /\ Cardinality(S) \in Nat
           /\ \A S \in SUBSET Metrics : IsFiniteSet(S) /\ Cardinality(S) \in 0..Cardinality(Metrics)
           /\ TableSize \in Nat
<1>1. /\ Window \in Nat /\ Until \in Nat \ {0} /\ waited \in Nat /\ waited < Until
      /\ starts \in Nat \ {0}
  BY HistoryAssumption DEF HistoryType, Until
<1>2. IsFiniteSet(Metrics) /\ IsFiniteSet(Ages) /\ IsFiniteSet(Metrics \X Ages)
  <2>1. IsFiniteSet(Metrics)
    BY HistoryAssumption DEF Metrics
  <2>2. IsFiniteSet(Ages)
    <3>1. 0 \in Int /\ Window \in Int
      BY <1>1
    <3> QED
      BY <3>1, FS_Interval DEF Ages
  <2> QED
    BY <2>1, <2>2, FS_Product
<1>3. \A S \in SUBSET (Metrics \X Ages) : IsFiniteSet(S) /\ Cardinality(S) \in Nat
  BY <1>2, FS_Subset, FS_CardinalityType
<1>4. \A S \in SUBSET Metrics : IsFiniteSet(S) /\ Cardinality(S) \in 0..Cardinality(Metrics)
  <2> SUFFICES ASSUME NEW S \in SUBSET Metrics
               PROVE  IsFiniteSet(S) /\ Cardinality(S) \in 0..Cardinality(Metrics)
    OBVIOUS
  <2>1. IsFiniteSet(S) /\ Cardinality(S) <= Cardinality(Metrics)
    BY <1>2, FS_Subset
  <2>2. Cardinality(S) \in Nat /\ Cardinality(Metrics) \in Nat
    BY <1>2, <2>1, FS_CardinalityType
  <2> QED
    BY <2>1, <2>2
<1>5. TableSize \in Nat
  BY <1>3 DEF HistoryType, TableSize
<1> QED
  BY <1>1, <1>3, <1>4, <1>5

(* The window holds no more rows than its ticks and this one recorded.      *)
LEMMA WindowIsBounded ==
    ASSUME HistoryType, FreshAreRecorded
    PROVE  Cardinality(rows) <= Ticks(Window) + Cardinality(recorded)
<1> DEFINE past  == Metrics \X (1..Window)
           fresh == recorded \X {0}
<1>1. Window \in Nat /\ IsFiniteSet(Metrics) /\ IsFiniteSet(recorded)
  BY HistoryAssumption, HistoryNumbers DEF HistoryType, Metrics
<1>2. IsFiniteSet(past) /\ Cardinality(past) = Ticks(Window)
  <2>1. IsFiniteSet(1..Window) /\ Cardinality(1..Window) = Window
    BY <1>1, FS_Interval
  <2> QED
    BY <1>1, <2>1, FS_Product DEF Ticks
<1>3. IsFiniteSet(fresh) /\ Cardinality(fresh) = Cardinality(recorded)
  <2>1. IsFiniteSet({0}) /\ Cardinality({0}) = 1
    BY FS_Singleton
  <2>2. Cardinality(recorded) \in Nat
    BY <1>1, FS_CardinalityType
  <2> QED
    BY <1>1, <2>1, <2>2, FS_Product
<1>4. rows \subseteq past \cup fresh
  <2> SUFFICES ASSUME NEW r \in rows PROVE r \in past \cup fresh
    OBVIOUS
  <2>1. PICK m \in Metrics, a \in 0..Window : r = <<m, a>>
    BY DEF HistoryType, Ages
  <2>2. CASE a = 0
    BY <2>1, <2>2 DEF FreshAreRecorded
  <2>3. CASE a # 0
    BY <1>1, <2>1, <2>3
  <2> QED
    BY <2>2, <2>3
<1> HIDE DEF past, fresh
<1>5. Cardinality(past \cup fresh) <= Cardinality(past) + Cardinality(fresh)
  <2>1. IsFiniteSet(past \cap fresh) /\ Cardinality(past \cap fresh) \in Nat
    BY <1>2, FS_Intersection, FS_CardinalityType
  <2>2. Cardinality(past \cup fresh)
            = Cardinality(past) + Cardinality(fresh) - Cardinality(past \cap fresh)
    BY <1>2, <1>3, FS_Union
  <2>3. Cardinality(past) \in Nat /\ Cardinality(fresh) \in Nat
    BY <1>2, <1>3, FS_CardinalityType
  <2> QED
    BY <2>1, <2>2, <2>3
<1>6. IsFiniteSet(past \cup fresh)
  BY <1>2, <1>3, FS_Union
<1>7. Cardinality(rows) <= Cardinality(past \cup fresh)
  BY <1>4, <1>6, FS_Subset
<1>8. Cardinality(rows) \in Nat /\ Cardinality(past \cup fresh) \in Nat
      /\ Cardinality(past) \in Nat /\ Cardinality(fresh) \in Nat
  BY <1>2, <1>3, <1>6, HistoryNumbers, FS_CardinalityType DEF HistoryType
<1> QED
  BY <1>2, <1>3, <1>5, <1>7, <1>8

(* What is recorded joins the rows and the samples as the newest, and fills *)
(* no more than its place in this tick.                                     *)
LEMMA RecordKeepsHistory ==
    ASSUME HistoryInv, NEW c \in Recorders, Record(c)
    PROVE  HistoryInv'
<1> PICK metrics \in (SUBSET c) \ {{}} :
        rows' = rows \cup (metrics \X {0}) /\ samples' = samples \cup (metrics \X {0})
  BY DEF Record
<1> DEFINE new == metrics \X {0}
<1>1. /\ service = "up" /\ pruner = "waiting" /\ c \cap recorded = {}
      /\ recorded' = recorded \cup c
      /\ UNCHANGED <<expired, pruner, waited, service, starts>>
      /\ fileSize' = IF TableSize' > fileSize THEN TableSize' ELSE fileSize
  BY DEF Record, Locked
<1>2. /\ c \subseteq Metrics /\ metrics \subseteq c /\ metrics \subseteq Metrics
      /\ new \subseteq Metrics \X Ages
  BY HistoryAssumption DEF Metrics, Ages
<1>3. rows' \subseteq Metrics \X Ages /\ samples' \subseteq Metrics \X Ages /\ recorded' \subseteq Metrics
  BY <1>1, <1>2 DEF HistoryInv, HistoryType
<1>4. HistoryType
  BY DEF HistoryInv
<1>5. Cardinality(rows') <= Cardinality(rows) + Cardinality(metrics)
  <2>1. IsFiniteSet(metrics) /\ Cardinality(metrics) \in Nat /\ IsFiniteSet(rows)
    BY <1>2, <1>4, HistoryNumbers DEF HistoryType
  <2>2. IsFiniteSet(new) /\ Cardinality(new) = Cardinality(metrics)
    <3>1. IsFiniteSet({0}) /\ Cardinality({0}) = 1
      BY FS_Singleton
    <3>2. IsFiniteSet(new) /\ Cardinality(new) = Cardinality(metrics) * Cardinality({0})
      BY <2>1, <3>1, FS_Product
    <3> HIDE DEF new
    <3> QED
      BY <2>1, <3>1, <3>2
  <2>3. Cardinality(rows \cap new) \in Nat
    BY <2>1, FS_Intersection, FS_CardinalityType
  <2>4. Cardinality(rows \cup new) = Cardinality(rows) + Cardinality(new) - Cardinality(rows \cap new)
    BY <2>1, <2>2, FS_Union
  <2>5. Cardinality(rows) \in Nat
    BY <2>1, FS_CardinalityType
  <2> QED
    BY <2>1, <2>2, <2>3, <2>4, <2>5
<1>6. Cardinality(recorded') = Cardinality(recorded) + Cardinality(c) /\ Cardinality(metrics) <= Cardinality(c)
  <2>1. IsFiniteSet(recorded) /\ IsFiniteSet(c) /\ Cardinality(recorded) \in Nat /\ Cardinality(c) \in Nat
    BY <1>2, <1>4, HistoryNumbers DEF HistoryType
  <2>2. Cardinality(recorded \cap c) = 0
    <3>1. recorded \cap c = {}
      BY <1>1
    <3> QED
      BY <3>1, FS_EmptySet
  <2>3. Cardinality(recorded \cup c) = Cardinality(recorded) + Cardinality(c) - Cardinality(recorded \cap c)
    BY <2>1, FS_Union
  <2>4. Cardinality(metrics) <= Cardinality(c)
    BY <1>2, <2>1, FS_Subset
  <2> QED
    BY <1>1, <2>1, <2>2, <2>3, <2>4
<1>7. /\ Cardinality(rows) \in Nat /\ Cardinality(rows') \in Nat /\ Cardinality(metrics) \in Nat
      /\ Cardinality(c) \in Nat /\ Cardinality(recorded) \in Nat
      /\ Cardinality(recorded') \in 0..Cardinality(Metrics) /\ expired \in Nat /\ fileSize \in Nat
      /\ waited \in Nat /\ waited + 1 <= Until /\ Until \in Nat /\ Window \in Nat /\ starts \in Nat \ {0}
  BY <1>2, <1>3, <1>4, HistoryNumbers DEF HistoryType
<1>8. TableSize' = Cardinality(rows') + expired /\ TableSize = Cardinality(rows) + expired
  BY <1>1 DEF TableSize
<1>9. fileSize' \in Nat /\ TableSize' <= fileSize' /\ fileSize <= fileSize' /\ TableSize' \in Nat
  BY <1>1, <1>7, <1>8
<1>10. HistoryType'
  BY <1>1, <1>3, <1>4, <1>9 DEF HistoryType
<1>11. FreshAreRecorded'
  BY <1>1, <1>2 DEF HistoryInv, FreshAreRecorded
<1>12. RowsAreSamples'
  <2>1. rows' \subseteq samples' /\ rows' # {}
    <3>1. PICK m \in metrics : TRUE
      OBVIOUS
    <3>2. <<m, 0>> \in rows'
      OBVIOUS
    <3> QED
      BY <3>2 DEF HistoryInv, RowsAreSamples
  <2>2. ASSUME NEW r \in rows', NEW s \in samples', s[2] < r[2]
        PROVE  s \in rows'
    <3>1. s[2] \in Nat /\ r[2] \in Nat
      BY <1>3, <1>7 DEF Ages
    <3>2. r \in rows
      BY <2>2, <3>1
    <3> QED
      BY <2>2, <3>2 DEF HistoryInv, RowsAreSamples
  <2>3. fileSize' <= Ceiling => rows' = samples'
    BY <1>7, <1>9, HistoryAssumption DEF HistoryInv, RowsAreSamples
  <2> QED
    BY <2>1, <2>2, <2>3 DEF RowsAreSamples
<1> DEFINE before == (starts - 1) * Until
           bound  == Ticks(Window + before + waited + 1)
<1>13. TableSize' + Cardinality(Metrics) - Cardinality(recorded') <= bound /\ bound' = bound
  <2>1. TableSize + Cardinality(Metrics) - Cardinality(recorded) <= bound
    BY <1>1 DEF HistoryInv, TableIsBounded
  <2>2. Cardinality(Metrics) \in Nat /\ before \in Nat
    <3>1. starts - 1 \in Nat /\ Until \in Nat
      BY <1>7
    <3>2. before \in Nat
      BY <3>1
    <3> QED
      BY <3>2, TicksAddUp
  <2>3. bound \in Nat
    <3> HIDE DEF before
    <3>1. Window + before + waited + 1 \in Nat
      BY <1>7, <2>2
    <3> QED
      BY <3>1, TicksAddUp
  <2> HIDE DEF bound
  <2>4. TableSize' + Cardinality(Metrics) - Cardinality(recorded') <= bound
    BY <1>5, <1>6, <1>7, <1>8, <2>1, <2>2, <2>3
  <2>5. bound' = bound
    BY <1>1 DEF bound, Ticks, Until
  <2> QED
    BY <2>4, <2>5
<1>14. bound <= Ticks(Window + starts * Until) /\ bound \in Nat /\ Ticks(Window + starts * Until) \in Nat
  <2>1. before \in Nat /\ starts * Until = before + Until
    BY <1>7
  <2> HIDE DEF before
  <2>2. /\ Window + before + waited + 1 \in Nat /\ Window + starts * Until \in Nat
        /\ Window + before + waited + 1 <= Window + starts * Until
    BY <1>7, <2>1
  <2> QED
    BY <2>2, TicksAddUp
<1>15. FileIsBounded'
  <2>1. fileSize <= Ticks(Window + starts * Until)
    BY DEF HistoryInv, FileIsBounded, Ticks, Until
  <2>2. TableSize' <= bound
    <3> HIDE DEF bound
    <3> QED
      BY <1>7, <1>9, <1>13, <1>14, TicksAddUp
  <2>3. fileSize' <= Ticks(Window + starts * Until)
    <3> HIDE DEF bound
    <3> QED
      BY <1>1, <1>7, <1>9, <1>14, <2>1, <2>2
  <2> QED
    BY <1>1, <2>3 DEF FileIsBounded, Ticks, Until
<1>16. TableIsBounded'
  BY <1>1, <1>9, <1>13 DEF TableIsBounded, Until
<1> QED
  BY <1>10, <1>11, <1>12, <1>15, <1>16 DEF HistoryInv

(* What a prune must leave, which the window bounds once the rows that left  *)
(* it are deleted.                                                          *)
LEMMA PruneKeepsHistory ==
    ASSUME HistoryInv, HistoryType', FreshAreRecorded', RowsAreSamples', rows' \subseteq rows,
           expired' = 0, UNCHANGED <<fileSize, recorded, service, starts>>,
           pruner' = "halving" => fileSize > Ceiling
    PROVE  HistoryInv'
<1>1. HistoryType
  BY DEF HistoryInv
<1>2. /\ Cardinality(rows) \in Nat /\ Cardinality(rows') \in Nat /\ fileSize \in Nat /\ expired \in Nat
      /\ Cardinality(recorded) \in 0..Cardinality(Metrics)
      /\ waited' \in Nat /\ Until \in Nat /\ Window \in Nat /\ starts \in Nat \ {0}
  BY <1>1, HistoryNumbers, HistoryAssumption DEF HistoryType
<1>3. Cardinality(rows') <= Cardinality(rows)
  BY <1>1, HistoryNumbers, FS_Subset DEF HistoryType
<1>4. TableSize' = Cardinality(rows') /\ TableSize = Cardinality(rows) + expired /\ TableSize <= fileSize
  BY <1>2 DEF TableSize, HistoryInv, TableIsBounded
<1>5. TableSize' <= fileSize' /\ TableSize' \in Nat
  BY <1>2, <1>3, <1>4
<1> DEFINE before == (starts - 1) * Until
<1>6. service = "up" => TableSize' + Cardinality(Metrics) - Cardinality(recorded)
                            <= Ticks(Window + before + waited' + 1)
  <2>1. Cardinality(rows) <= Ticks(Window) + Cardinality(recorded)
    BY <1>1, WindowIsBounded DEF HistoryInv
  <2>2. /\ Ticks(Window) \in Nat /\ Ticks(Window + 1) = Ticks(Window) + Cardinality(Metrics)
        /\ Cardinality(Metrics) \in Nat
    BY <1>2, TicksAddUp
  <2>3. before \in Nat
    BY <1>2
  <2> HIDE DEF before
  <2>4. /\ Window + before + waited' + 1 \in Nat /\ Window + 1 \in Nat
        /\ Window + 1 <= Window + before + waited' + 1
    <3>1. Window \in Nat /\ waited' \in Nat
      BY <1>2
    <3>2. \A v, b, w \in Nat : v + b + w + 1 \in Nat /\ v + 1 \in Nat /\ v + 1 <= v + b + w + 1
      OBVIOUS
    <3> QED
      BY <2>3, <3>1, <3>2
  <2>5. Ticks(Window + 1) <= Ticks(Window + before + waited' + 1)
        /\ Ticks(Window + before + waited' + 1) \in Nat
    BY <2>4, TicksAddUp
  <2> QED
    BY <1>2, <1>3, <1>4, <2>1, <2>2, <2>5
<1>7. service = "down" => TableSize' <= Ticks(Window + starts * Until)
  <2>1. service = "down" => TableSize <= Ticks(Window + starts * Until)
    BY DEF HistoryInv, TableIsBounded
  <2>2. Ticks(Window + starts * Until) \in Nat
    <3>1. Window + starts * Until \in Nat
      BY <1>2
    <3> QED
      BY <3>1, TicksAddUp
  <2> QED
    BY <1>2, <1>3, <1>4, <2>1, <2>2
<1>8. TableIsBounded'
  <2>1. Until' = Until
    BY DEF Until
  <2> QED
    BY <1>5, <1>6, <1>7, <2>1 DEF TableIsBounded, Ticks
<1>9. FileIsBounded'
  BY DEF HistoryInv, FileIsBounded
<1> QED
  BY <1>8, <1>9 DEF HistoryInv

LEMMA DeleteOldKeepsHistory ==
    ASSUME HistoryInv, DeleteOld
    PROVE  HistoryInv'
<1>1. /\ UNCHANGED <<rows, fileSize, samples, recorded, service, starts>> /\ expired' = 0
      /\ pruner' = "halving" => fileSize > Ceiling
      /\ (pruner' = "halving" /\ waited' = waited) \/ (pruner' = "waiting" /\ waited' = 0)
  BY DEF DeleteOld, PruneEnds
<1>2. HistoryType'
  BY <1>1, HistoryAssumption DEF HistoryInv, HistoryType
<1>3. FreshAreRecorded' /\ RowsAreSamples'
  BY <1>1 DEF HistoryInv, FreshAreRecorded, RowsAreSamples
<1> QED
  BY <1>1, <1>2, <1>3, PruneKeepsHistory

(* Half of something is not all of it, and the oldest half leaves what is    *)
(* newer than anything it leaves.                                           *)
LEMMA DeleteHalfKeepsHistory ==
    ASSUME HistoryInv, DeleteHalf
    PROVE  HistoryInv'
<1> PICK oldest \in SUBSET rows :
          /\ Cardinality(oldest) = OldestHalf(Cardinality(rows))
          /\ \A r \in oldest, q \in rows \ oldest : r[2] >= q[2]
          /\ rows' = rows \ oldest
  BY DEF DeleteHalf
<1>1. /\ UNCHANGED <<expired, fileSize, samples, recorded, service, starts>>
      /\ pruner = "halving" /\ pruner' = "waiting" /\ waited' = 0
  BY DEF DeleteHalf, PruneEnds
<1>2. expired = 0 /\ fileSize > Ceiling
  BY <1>1 DEF HistoryInv, TableIsBounded
<1>3. HistoryType'
  BY <1>1, HistoryAssumption DEF HistoryInv, HistoryType
<1>4. FreshAreRecorded'
  BY <1>1 DEF HistoryInv, FreshAreRecorded
<1>5. rows # {} => rows' # {}
  <2> SUFFICES ASSUME rows # {}, rows' = {} PROVE FALSE
    OBVIOUS
  <2>1. oldest = rows
    OBVIOUS
  <2>2. IsFiniteSet(rows) /\ Cardinality(rows) \in Nat
    BY HistoryNumbers DEF HistoryInv, HistoryType
  <2>3. Cardinality(rows) = Cardinality(rows) \div 2
    BY <2>1 DEF OldestHalf
  <2>4. Cardinality(rows) = 0
    BY <2>2, <2>3
  <2> QED
    BY <2>2, <2>4, FS_EmptySet
<1>6. RowsAreSamples'
  <2>1. ASSUME NEW r \in rows', NEW s \in samples', s[2] < r[2]
        PROVE  s \in rows'
    <3>1. s \in rows
      BY <1>1, <2>1 DEF HistoryInv, RowsAreSamples
    <3>2. s[2] \in Int /\ r[2] \in Int
      BY <3>1, HistoryAssumption DEF HistoryInv, HistoryType, Ages
    <3>3. s \notin oldest
      BY <2>1, <3>1, <3>2
    <3> QED
      BY <3>1, <3>3
  <2>2. rows' \subseteq samples' /\ (samples' # {} => rows' # {})
    BY <1>1, <1>5 DEF HistoryInv, RowsAreSamples
  <2>3. ~(fileSize' <= Ceiling)
    BY <1>1, <1>2, HistoryAssumption DEF HistoryInv, HistoryType
  <2> QED
    BY <2>1, <2>2, <2>3 DEF RowsAreSamples
<1> QED
  BY <1>1, <1>2, <1>3, <1>4, <1>6, PruneKeepsHistory

(* The lock, the service's end and its start leave the table as it is.      *)
LEMMA OthersKeepHistory ==
    ASSUME HistoryInv, PruneBegins \/ Close \/ Crash \/ Start \/ UNCHANGED historyVars
    PROVE  HistoryInv'
<1>1. UNCHANGED <<rows, expired, samples, fileSize, recorded>>
  BY DEF PruneBegins, Close, Crash, Start, historyVars
<1>2. FreshAreRecorded' /\ RowsAreSamples' /\ TableSize' = TableSize
  BY <1>1 DEF HistoryInv, FreshAreRecorded, RowsAreSamples, TableSize
<1>3. HistoryType'
  BY <1>1, HistoryAssumption
     DEF HistoryInv, HistoryType, PruneBegins, Close, Crash, Start, historyVars
<1> DEFINE before == (starts - 1) * Until
           all    == starts * Until
           size   == TableSize + Cardinality(Metrics) - Cardinality(recorded)
<1>4. /\ waited \in Nat /\ waited + 1 <= Until /\ Until \in Nat \ {0} /\ Window \in Nat
      /\ starts \in Nat \ {0} /\ TableSize \in Nat /\ fileSize \in Nat
      /\ Cardinality(recorded) \in 0..Cardinality(Metrics) /\ Cardinality(Metrics) \in Nat
  BY HistoryNumbers, TicksAddUp DEF HistoryInv, HistoryType
<1>5. before \in Nat /\ all \in Nat /\ all = before + Until
  BY <1>4
<1>6. /\ TableSize <= fileSize
      /\ service = "up" => size <= Ticks(Window + before + waited + 1)
      /\ service = "down" => TableSize <= Ticks(Window + all)
      /\ pruner = "halving" => fileSize > Ceiling /\ expired = 0
      /\ fileSize <= Ticks(Window + all)
  BY DEF HistoryInv, TableIsBounded, FileIsBounded, Until, Ticks
<1> HIDE DEF before, all
<1>7. /\ Window + before + waited + 1 \in Nat /\ Window + all \in Nat
      /\ Window + before + waited + 1 <= Window + all
      /\ Window + all <= Window + all + Until
  BY <1>4, <1>5
<1>8. /\ Ticks(Window + before + waited + 1) <= Ticks(Window + all)
      /\ Ticks(Window + before + waited + 1) \in Nat /\ Ticks(Window + all) \in Nat
      /\ Ticks(Window + all + 1) = Ticks(Window + all) + Cardinality(Metrics)
  BY <1>7, TicksAddUp
<1>9. service = "up" => TableSize <= Ticks(Window + all)
  BY <1>4, <1>6, <1>8
<1>10. CASE UNCHANGED <<service, starts, waited>>
  <2>1. pruner' = "halving" => fileSize > Ceiling /\ expired = 0
    BY <1>6, <1>10 DEF PruneBegins, Close, Crash, Start, historyVars
  <2>2. TableIsBounded' /\ FileIsBounded'
    BY <1>1, <1>2, <1>6, <1>10, <2>1 DEF TableIsBounded, FileIsBounded, Until, Ticks, HistoryInv, before, all
  <2> QED
    BY <1>2, <1>3, <2>2 DEF HistoryInv
<1>11. CASE Close \/ Crash
  <2>1. service = "up" /\ service' = "down" /\ starts' = starts /\ pruner' = "waiting"
    BY <1>11 DEF Close, Crash, Locked, HistoryInv, HistoryType
  <2>2. TableIsBounded' /\ FileIsBounded'
    BY <1>1, <1>2, <1>6, <1>9, <2>1 DEF TableIsBounded, FileIsBounded, Until, Ticks, HistoryInv, all
  <2> QED
    BY <1>2, <1>3, <2>2 DEF HistoryInv
<1>12. CASE Start
  <2>1. service = "down" /\ service' = "up" /\ starts' = starts + 1 /\ waited' = 0 /\ pruner' = pruner
    BY <1>12 DEF Start
  <2>2. size <= Ticks(Window + all + 0 + 1)
    <3>1. Window + all + 0 + 1 = Window + all + 1
      BY <1>7
    <3>2. size <= Ticks(Window + all + 1)
      BY <1>4, <1>6, <1>8, <2>1
    <3> QED
      BY <3>1, <3>2
  <2>3. (starts' - 1) * Until = all
    BY <1>4, <2>1 DEF all
  <2>4. fileSize <= Ticks(Window + starts' * Until)
    <3>1. starts' * Until = all + Until
      BY <1>4, <2>1 DEF all
    <3>2. Window + starts' * Until \in Nat /\ Window + all <= Window + starts' * Until
      BY <1>4, <1>5, <3>1
    <3>3. Ticks(Window + all) <= Ticks(Window + starts' * Until) /\ Ticks(Window + starts' * Until) \in Nat
      BY <1>7, <3>2, TicksAddUp
    <3> QED
      BY <1>4, <1>6, <1>8, <3>3
  <2>5. FileIsBounded'
    BY <1>1, <2>4 DEF FileIsBounded, Ticks, Until
  <2>6. TableIsBounded'
    <3>1. Until' = Until /\ TableSize' <= fileSize' /\ (pruner' = "halving" => fileSize' > Ceiling /\ expired' = 0)
      BY <1>1, <1>2, <1>6, <2>1 DEF Until
    <3>2. TableSize' + Cardinality(Metrics) - Cardinality(recorded')
              <= Ticks(Window + (starts' - 1) * Until + waited' + 1)
      BY <1>1, <1>2, <2>1, <2>2, <2>3
    <3> QED
      BY <2>1, <3>1, <3>2 DEF TableIsBounded, Ticks
  <2> QED
    BY <1>2, <1>3, <2>5, <2>6 DEF HistoryInv
<1> QED
  BY <1>10, <1>11, <1>12 DEF PruneBegins, historyVars

(* The table is as large after a tick: what grows older leaves the window or *)
(* stays in it.                                                             *)
LEMMA AgingMovesRows ==
    ASSUME HistoryType, HistoryTick
    PROVE  TableSize' <= TableSize
<1> DEFINE staying == {r \in rows : r[2] < Window}
           older   == [r \in staying |-> <<r[1], r[2] + 1>>]
<1>1. IsFiniteSet(rows) /\ IsFiniteSet(staying) /\ IsFiniteSet(Leaving(rows))
  BY HistoryNumbers, FS_Subset DEF HistoryType, Leaving
<1>2. IsFiniteSet(OneTickOlder(rows)) /\ Cardinality(OneTickOlder(rows)) <= Cardinality(staying)
  <2>1. older \in Surjection(staying, OneTickOlder(rows))
    BY DEF Surjection, OneTickOlder
  <2> HIDE DEF older, staying
  <2> QED
    BY <1>1, <2>1, FS_Surjection
<1>3. Cardinality(staying) + Cardinality(Leaving(rows)) = Cardinality(rows)
  <2>1. staying = rows \ Leaving(rows) /\ rows \cap Leaving(rows) = Leaving(rows)
    BY HistoryAssumption DEF HistoryType, Leaving, Ages
  <2>2. Cardinality(rows \ Leaving(rows)) = Cardinality(rows) - Cardinality(rows \cap Leaving(rows))
    BY <1>1, FS_Difference
  <2>3. Cardinality(rows) \in Nat /\ Cardinality(Leaving(rows)) \in Nat
    BY <1>1, FS_CardinalityType
  <2>4. Cardinality(staying) = Cardinality(rows) - Cardinality(Leaving(rows))
    <3> HIDE DEF staying
    <3> QED
      BY <2>1, <2>2
  <2> HIDE DEF staying
  <2> QED
    BY <2>3, <2>4
<1>4. /\ Cardinality(rows) \in Nat /\ Cardinality(Leaving(rows)) \in Nat
      /\ Cardinality(staying) \in Nat /\ Cardinality(OneTickOlder(rows)) \in Nat /\ expired \in Nat
  BY <1>1, <1>2, FS_CardinalityType DEF HistoryType
<1> HIDE DEF staying
<1> QED
  BY <1>2, <1>3, <1>4 DEF HistoryTick, TableSize

(* A tick makes the rows and the samples older alike.                       *)
LEMMA TickKeepsHistory ==
    ASSUME HistoryInv, HistoryTick
    PROVE  HistoryInv'
<1>1. /\ rows' = OneTickOlder(rows) /\ samples' = OneTickOlder(samples) /\ recorded' = {}
      /\ expired' = expired + Cardinality(Leaving(rows))
      /\ UNCHANGED <<fileSize, pruner, service, starts>> /\ pruner = "waiting"
      /\ service = "up" => waited < PruneEvery + PruneLate /\ waited' = waited + 1
      /\ service # "up" => waited' = 0
  BY DEF HistoryTick, Locked
<1>2. HistoryType
  BY DEF HistoryInv
<1>3. \A S \in SUBSET (Metrics \X Ages) :
         /\ OneTickOlder(S) \subseteq Metrics \X Ages
         /\ \A r \in OneTickOlder(S) : r[2] > 0 /\ <<r[1], r[2] - 1>> \in S /\ r = <<r[1], r[2] - 1 + 1>>
  BY HistoryAssumption DEF OneTickOlder, Ages
<1>4. HistoryType'
  <2>1. Cardinality(Leaving(rows)) \in Nat
    BY <1>2, HistoryNumbers, FS_Subset DEF HistoryType, Leaving
  <2>2. waited' \in 0..PruneEvery + PruneLate
    BY <1>1, <1>2, HistoryAssumption DEF HistoryType
  <2> QED
    BY <1>1, <1>2, <1>3, <2>1, <2>2 DEF HistoryType
<1>5. FreshAreRecorded'
  <2>1. \A r \in rows' : r[2] > 0
    BY <1>1, <1>2, <1>3 DEF HistoryType
  <2> QED
    BY <2>1 DEF FreshAreRecorded
<1>6. RowsAreSamples'
  <2>1. rows' \subseteq samples' /\ (fileSize' <= Ceiling => rows' = samples')
    BY <1>1 DEF OneTickOlder, HistoryInv, RowsAreSamples
  <2>2. ASSUME NEW q \in rows, NEW s \in samples, s[2] < Window, s[2] < q[2] \/ q[2] = Window
        PROVE  s \in rows
    BY <2>2 DEF HistoryInv, RowsAreSamples
  <2>3. ASSUME NEW r \in rows', NEW s \in samples', s[2] < r[2]
        PROVE  s \in rows'
    <3>1. PICK q \in rows : q[2] < Window /\ r = <<q[1], q[2] + 1>>
      BY <1>1 DEF OneTickOlder
    <3>2. PICK p \in samples : p[2] < Window /\ s = <<p[1], p[2] + 1>>
      BY <1>1 DEF OneTickOlder
    <3>3. q[2] \in Int /\ p[2] \in Int
      BY <1>2 DEF HistoryType, Ages
    <3>4. p \in rows
      BY <2>2, <2>3, <3>1, <3>2, <3>3
    <3> QED
      BY <1>1, <3>2, <3>4 DEF OneTickOlder
  <2>4. samples' # {} => rows' # {}
    <3> SUFFICES ASSUME samples' # {} PROVE rows' # {}
      OBVIOUS
    <3>1. PICK s \in samples : s[2] < Window
      BY <1>1 DEF OneTickOlder
    <3>2. PICK q \in rows : TRUE
      BY <3>1 DEF HistoryInv, RowsAreSamples
    <3>3. q[2] < Window \/ q[2] = Window
      BY <1>2, HistoryAssumption DEF HistoryType, Ages
    <3>4. CASE q[2] < Window
      BY <1>1, <3>4 DEF OneTickOlder
    <3>5. CASE q[2] = Window
      BY <1>1, <2>2, <3>1, <3>5 DEF OneTickOlder
    <3> QED
      BY <3>3, <3>4, <3>5
  <2> QED
    BY <2>1, <2>3, <2>4 DEF RowsAreSamples
<1>7. FileIsBounded'
  BY <1>1 DEF HistoryInv, FileIsBounded
<1>8. TableIsBounded'
  <2>1. TableSize' <= TableSize /\ TableSize \in Nat /\ TableSize' \in Nat
    <3>1. Cardinality(rows') \in Nat /\ expired' \in Nat
      BY <1>2, <1>4, HistoryNumbers DEF HistoryType
    <3> QED
      BY <1>2, <3>1, AgingMovesRows, HistoryNumbers DEF TableSize
  <2>2. TableSize' <= fileSize'
    BY <1>1, <1>2, <2>1 DEF HistoryInv, TableIsBounded, HistoryType
  <2> DEFINE before == (starts - 1) * Until
  <2>3. /\ waited \in Nat /\ Until \in Nat \ {0} /\ Window \in Nat /\ starts \in Nat \ {0}
        /\ Cardinality(recorded) \in 0..Cardinality(Metrics) /\ Cardinality(Metrics) \in Nat
    BY <1>2, HistoryNumbers, TicksAddUp DEF HistoryType
  <2>4. CASE service = "up"
    <3>1. TableSize + Cardinality(Metrics) - Cardinality(recorded) <= Ticks(Window + before + waited + 1)
      BY <2>4 DEF HistoryInv, TableIsBounded
    <3>2. before \in Nat
      BY <2>3
    <3> HIDE DEF before
    <3>3. /\ Window + before + waited + 1 \in Nat
          /\ Window + before + (waited + 1) + 1 = (Window + before + waited + 1) + 1
      BY <2>3, <3>2
    <3>4. /\ Ticks(Window + before + (waited + 1) + 1)
                 = Ticks(Window + before + waited + 1) + Cardinality(Metrics)
          /\ Ticks(Window + before + waited + 1) \in Nat
      BY <3>3, TicksAddUp
    <3>5. TableSize' + Cardinality(Metrics) - 0 <= Ticks(Window + before + (waited + 1) + 1)
      BY <2>1, <2>3, <3>1, <3>4
    <3>6. Cardinality(recorded') = 0 /\ Until' = Until
      BY <1>1, FS_EmptySet DEF Until
    <3> QED
      BY <1>1, <2>2, <2>4, <3>5, <3>6 DEF TableIsBounded, Ticks, before
  <2>5. CASE service = "down"
    <3>1. TableSize <= Ticks(Window + starts * Until)
      BY <2>5 DEF HistoryInv, TableIsBounded
    <3>2. Ticks(Window + starts * Until) \in Nat
      <4>1. Window + starts * Until \in Nat
        BY <2>3
      <4> QED
        BY <4>1, TicksAddUp
    <3>3. TableSize' <= Ticks(Window + starts * Until) /\ Until' = Until
      BY <2>1, <3>1, <3>2 DEF Until
    <3> QED
      BY <1>1, <2>2, <2>5, <3>3 DEF TableIsBounded, Ticks
  <2> QED
    BY <1>2, <2>4, <2>5 DEF HistoryType
<1> QED
  BY <1>4, <1>5, <1>6, <1>7, <1>8 DEF HistoryInv

LEMMA HistoryStep == HistoryInv /\ (HistoryNext \/ UNCHANGED historyVars) => HistoryInv'
BY RecordKeepsHistory, DeleteOldKeepsHistory, DeleteHalfKeepsHistory, OthersKeepHistory,
   TickKeepsHistory DEF HistoryNext

LEMMA HistoryBegins == HistoryInit => HistoryInv
<1> SUFFICES ASSUME HistoryInit PROVE HistoryInv
  OBVIOUS
<1>1. /\ rows = {} /\ samples = {} /\ expired = 0 /\ fileSize = 0 /\ recorded = {}
      /\ pruner = "waiting" /\ waited = 0 /\ service = "up" /\ starts = 1
  BY DEF HistoryInit
<1>2. HistoryType
  BY <1>1, HistoryAssumption DEF HistoryType
<1>3. FreshAreRecorded /\ RowsAreSamples
  BY <1>1 DEF FreshAreRecorded, RowsAreSamples
<1>4. TableSize = 0 /\ Cardinality(recorded) = 0
  BY <1>1, FS_EmptySet DEF TableSize
<1>5. Until \in Nat /\ Window \in Nat /\ Cardinality(Metrics) \in Nat
  BY <1>2, HistoryNumbers, TicksAddUp
<1>6. (starts - 1) * Until = 0 /\ starts * Until = Until
  BY <1>1, <1>5
<1>7. Cardinality(Metrics) <= Ticks(Window + (starts - 1) * Until + waited + 1)
  <2>1. Window + 0 + 0 + 1 = Window + 1
    BY <1>5
  <2>2. Ticks(Window + 1) = Ticks(Window) + Cardinality(Metrics) /\ Ticks(Window) \in Nat
    BY <1>5, TicksAddUp
  <2> QED
    BY <1>1, <1>5, <1>6, <2>1, <2>2
<1>8. TableIsBounded
  BY <1>1, <1>4, <1>5, <1>7 DEF TableIsBounded
<1>9. FileIsBounded
  <2>1. Window + starts * Until \in Nat
    BY <1>5, <1>6
  <2>2. Ticks(Window + starts * Until) \in Nat
    BY <2>1, TicksAddUp
  <2> QED
    BY <1>1, <2>2 DEF FileIsBounded, Ticks, Until
<1> QED
  BY <1>2, <1>3, <1>8, <1>9 DEF HistoryInv

(* What the charts show then are the newest of the samples.                 *)
LEMMA ChartsShowTheNewest == HistoryInv => ChartsLoseTheOldest
<1> SUFFICES ASSUME HistoryInv PROVE ChartsLoseTheOldest
  OBVIOUS
<1>1. RowsAreSamples /\ rows \subseteq Metrics \X Ages
  BY DEF HistoryInv, HistoryType
<1>2. \A r \in rows : r[1] \in Metrics /\ r \in Series(r[1])
  BY <1>1 DEF Series
<1>3. \A m \in Metrics : Series(m) \subseteq rows
  BY DEF Series
<1> QED
  BY <1>1, <1>2, <1>3 DEF RowsAreSamples, ChartsLoseTheOldest

(***************************************************************************)
(* The three together                                                      *)
(***************************************************************************)
MeasurementsInv == DiskInv /\ ModelsInv /\ HistoryInv

LEMMA ModelsBegin == ModelsInit => ModelsInv
<1> SUFFICES ASSUME ModelsInit PROVE ModelsInv
  OBVIOUS
<1> DEFINE none == [e \in Dirs |-> NotScanned]
           zero == [e \in Dirs |-> 0]
<1>1. /\ content = zero /\ mtime = zero
      /\ scanCache = [e \in Dirs |-> NoCache] /\ walker = [w \in Walkers |-> NoWalk]
      /\ scan = [left |-> << >>, found |-> none, awaits |-> 0, since |-> zero, stage |-> "due"]
      /\ modelSection = [status |-> "none", shown |-> none, since |-> zero]
  BY DEF ModelsInit, Resting, NothingShown
<1>2. 0 \in Versions /\ none \in Shown /\ zero \in [Dirs -> Versions]
  BY ModelsAssumption DEF Versions, Shown
<1> HIDE DEF none, zero
<1>3. << >> \in Seq(Dirs)
  OBVIOUS
<1>4. ModelsType
  BY <1>1, <1>2, <1>3 DEF ModelsType
<1>5. SeenAfterMtime
  <2>1. NoCache.seen = -1 /\ NoCache.mtime = -1 /\ NoWalk.from = 0 /\ NoWalk.mtime = 0
    BY DEF NoCache, NoWalk, NotScanned
  <2>2. -1 >= -1 /\ 0 >= 0
    OBVIOUS
  <2>3. \A e \in Dirs : content[e] = 0 /\ mtime[e] = 0
    BY <1>1 DEF zero
  <2> QED
    BY <1>1, <2>1, <2>2, <2>3 DEF SeenAfterMtime
<1>6. AwaitsItsHead
  BY <1>1 DEF AwaitsItsHead
<1>7. FoundSinceItBegan
  <2>1. \A e \in Dirs : mtime[e] = 0 /\ scan.since[e] = 0
    BY <1>1 DEF zero
  <2>2. scan.stage = "due" /\ scan.left = << >>
    BY <1>1
  <2> QED
    BY <2>1, <2>2 DEF FoundSinceItBegan
<1>8. ScanIsCurrent
  BY <1>1 DEF ScanIsCurrent
<1> QED
  BY <1>4, <1>5, <1>6, <1>7, <1>8 DEF ModelsInv

LEMMA MeasurementsBegin == MeasurementsInit => MeasurementsInv
BY DiskBegins, ModelsBegin, HistoryBegins DEF MeasurementsInit, MeasurementsInv

(* A step follows one of the three and leaves the others as they are.       *)
LEMMA MeasurementsStep == MeasurementsInv /\ [MeasurementsNext]_measurementVars => MeasurementsInv'
<1> SUFFICES ASSUME MeasurementsInv, [MeasurementsNext]_measurementVars PROVE MeasurementsInv'
  OBVIOUS
<1>1. /\ DiskNext \/ UNCHANGED diskVars
      /\ ModelsNext \/ UNCHANGED modelVars
      /\ HistoryNext \/ UNCHANGED historyVars
  BY DEF MeasurementsNext, OfDisk, OfModels, OfHistory, measurementVars
<1> QED
  BY <1>1, DiskStep, ModelsStep, HistoryStep DEF MeasurementsInv

LEMMA MeasurementsAlways == MeasurementsSpec => []MeasurementsInv
BY MeasurementsBegin, MeasurementsStep, PTL DEF MeasurementsSpec

(* The records of the measurements hold what the code puts into them, and   *)
(* no age or wait outgrows its limit.                                       *)
THEOREM MeasurementsTypeCorrect == MeasurementsSpec => []MeasurementsTypeOK
<1>1. MeasurementsInv => MeasurementsTypeOK
  BY DEF MeasurementsInv, DiskInv, ModelsInv, HistoryInv, MeasurementsTypeOK
<1> QED
  BY <1>1, MeasurementsAlways, PTL

(* What a section that says ok shows is recent, however the threads of      *)
(* collections that were given up and those of later ones fill the caches   *)
(* (disk.py:56-65, models.py:124-133).                                      *)
THEOREM OkSectionsAreRecent == MeasurementsSpec => []ShownIsRecent
<1>1. MeasurementsInv => ShownIsRecent
  BY SectionWithinLimit DEF MeasurementsInv, ModelsInv, ShownIsRecent, ScanIsCurrent
<1> QED
  BY <1>1, MeasurementsAlways, PTL

(* The charts together lose nothing but the oldest samples of all metrics,   *)
(* whatever crashes, restarts and prunes of a file over its ceiling          *)
(* (history.py:76-90).                                                      *)
THEOREM NewestStayInCharts == MeasurementsSpec => []ChartsLoseTheOldest
<1>1. MeasurementsInv => ChartsLoseTheOldest
  BY ChartsShowTheNewest DEF MeasurementsInv
<1> QED
  BY <1>1, MeasurementsAlways, PTL

(* Every start of the service costs the file no more than what is recorded  *)
(* until its first prune is over (poller.py:104-112).                       *)
THEOREM FileStaysBounded == MeasurementsSpec => []FileIsBounded
<1>1. MeasurementsInv => FileIsBounded
  BY DEF MeasurementsInv, HistoryInv
<1> QED
  BY <1>1, MeasurementsAlways, PTL

=============================================================================
