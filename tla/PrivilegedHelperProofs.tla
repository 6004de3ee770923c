------------------------ MODULE PrivilegedHelperProofs ------------------------
(***************************************************************************)
(* TrustIsRecent, for every lifetime of an answer: what root runs for the  *)
(* service was root's own when the answer it rests on was learnt, and no   *)
(* answer is used past its lifetime.                                       *)
(***************************************************************************)
EXTENDS PrivilegedHelper, TLAPS

(* An answer that allows the helper is at least as old as the last sight of *)
(* a trusted one.                                                           *)
AnswersDated == cached.state = "enabled" => untrusted <= cached.age

(* Between its stat and sudo the helper was trusted in this very interval;  *)
(* a thread that is about to run it rests on an answer still alive.         *)
ThreadsDated ==
    /\ phase = "check" => untrusted = 0
    /\ phase = "run" => untrusted <= TTL

(* While it is trusted no interval without trust has passed.                *)
TrustDated == helper = "trusted" => untrusted = 0

HelperInv == TypeOK /\ TrustDated /\ AnswersDated /\ ThreadsDated

-----------------------------------------------------------------------------
(* What a look makes of its answer is typed, remembered with age 0, and     *)
(* sends the thread to the helper only if the answer allows it.             *)
LEMMA DecideTyped ==
    ASSUME TypeOK, NEW s \in States, Decide(s)
    PROVE  /\ phase' \in {"idle", "status", "run"}
           /\ phase' = "run" => s = "enabled"
           /\ source' \in Sources \cup {"none"}
           /\ awaited' \in BOOLEAN
           /\ section' \in [source : Sources \cup {"none"}, state : States \cup {"unknown"},
                            failed : BOOLEAN]
<1>1. CASE source = "none" /\ s = "enabled" /\ phase' = "run"
           /\ UNCHANGED <<source, awaited, section>>
  BY <1>1 DEF TypeOK
<1>2. CASE source = "none" /\ s # "enabled" /\ awaited /\ phase' = "status"
           /\ source' = "unprivileged" /\ UNCHANGED <<awaited, section>>
  BY <1>2 DEF TypeOK, Sources
<1>3. CASE source # "none" /\ awaited
           /\ section' = [source |-> source, state |-> s, failed |-> FALSE] /\ Ends
  BY <1>3 DEF TypeOK, Ends
<1>4. CASE ~awaited /\ (source = "none" => s # "enabled") /\ Ends /\ UNCHANGED section
  BY <1>4 DEF TypeOK, Ends
<1> QED
  BY <1>1, <1>2, <1>3, <1>4 DEF Decide

LEMMA LearnKeeps ==
    ASSUME TypeOK, TrustDated, NEW s \in States, Learn(s), s = "enabled" => untrusted = 0,
           UNCHANGED <<installed, service, untrusted>>
    PROVE  HelperInv'
<1>1. TTL \in Nat
  BY HelperAssumption
<1>2. /\ phase' \in {"idle", "status", "run"}
      /\ phase' = "run" => s = "enabled"
      /\ source' \in Sources \cup {"none"}
      /\ awaited' \in BOOLEAN
      /\ section' \in [source : Sources \cup {"none"}, state : States \cup {"unknown"},
                       failed : BOOLEAN]
  BY DecideTyped DEF Learn
<1>3. cached' = [state |-> s, age |-> 0]
  BY DEF Learn
<1>4. cached' \in [state : States, age : 0..(TTL + 1)]
  BY <1>1, <1>3
<1>5. TypeOK'
  BY <1>2, <1>4 DEF TypeOK, installed, service
<1>6. AnswersDated'
  BY <1>3 DEF AnswersDated
<1>7. ThreadsDated'
  BY <1>1, <1>2 DEF ThreadsDated
<1>8. TrustDated'
  BY DEF TrustDated, installed
<1> QED
  BY <1>5, <1>6, <1>7, <1>8 DEF HelperInv

-----------------------------------------------------------------------------
LEMMA HelperInvInit == Init => HelperInv
<1> SUFFICES ASSUME Init PROVE HelperInv
  OBVIOUS
<1>1. untrusted \in 0..(TTL + 1)
  BY HelperAssumption DEF Init
<1>2. section \in [source : Sources \cup {"none"}, state : States \cup {"unknown"},
                   failed : BOOLEAN]
  BY DEF Init, Nothing
<1>3. TypeOK
  BY <1>1, <1>2 DEF Init, TypeOK
<1>4. TrustDated /\ ThreadsDated
  BY DEF Init, TrustDated, ThreadsDated
<1>5. AnswersDated
  BY DEF Init, AnswersDated, Unknown
<1> QED
  BY <1>3, <1>4, <1>5 DEF HelperInv

(* An interval passes for the answer and for the trust it rests on alike.   *)
LEMMA CollectKeeps ==
    ASSUME HelperInv, Collect
    PROVE  HelperInv'
<1>1. TTL \in Nat
  BY HelperAssumption
<1>2. untrusted' \in 0..(TTL + 1) /\ untrusted' <= untrusted + 1
  BY <1>1 DEF HelperInv, TypeOK, Collect
<1>3. CASE cached = Unknown \/ cached.age > TTL
  <2>1. cached' = cached
    BY <1>3 DEF Collect, Older
  <2>2. AnswersDated'
    BY <1>1, <1>2, <1>3, <2>1 DEF AnswersDated, Unknown, HelperInv, TypeOK
  <2> QED
    BY <1>2, <2>1, <2>2 DEF HelperInv, TypeOK, TrustDated, ThreadsDated, Collect, installed, service
<1>4. CASE cached # Unknown /\ ~(cached.age > TTL)
  <2>1. cached' = [cached EXCEPT !.age = @ + 1]
    BY <1>4 DEF Collect, Older
  <2>2. cached \in [state : States, age : 0..(TTL + 1)]
    BY <1>4 DEF HelperInv, TypeOK
  <2>3. /\ cached' \in [state : States, age : 0..(TTL + 1)]
        /\ cached'.state = cached.state /\ cached'.age = cached.age + 1
    BY <1>1, <1>4, <2>1, <2>2
  <2>4. AnswersDated'
    BY <1>1, <1>2, <2>2, <2>3 DEF AnswersDated, HelperInv, TypeOK
  <2> QED
    BY <1>2, <2>3, <2>4 DEF HelperInv, TypeOK, TrustDated, ThreadsDated, Collect, installed, service
<1> QED
  BY <1>3, <1>4

(* A remembered answer is used only while it lives.                         *)
LEMMA StatusKeeps ==
    ASSUME HelperInv, Status
    PROVE  HelperInv'
<1>1. TTL \in Nat
  BY HelperAssumption
<1>2. CASE Fresh(cached)
  <2>1. cached \in [state : States, age : 0..(TTL + 1)] /\ cached.age <= TTL
    BY <1>2 DEF Fresh, HelperInv, TypeOK
  <2>2. Decide(cached.state) /\ UNCHANGED <<cached, installed, service, untrusted>>
    BY <1>2 DEF Status
  <2>3. cached.state \in States
    BY <2>1
  <2>4. /\ phase' \in {"idle", "status", "run"}
        /\ phase' = "run" => cached.state = "enabled"
        /\ source' \in Sources \cup {"none"}
        /\ awaited' \in BOOLEAN
        /\ section' \in [source : Sources \cup {"none"}, state : States \cup {"unknown"},
                         failed : BOOLEAN]
    BY <2>2, <2>3, DecideTyped DEF HelperInv
  <2>5. TypeOK'
    BY <2>2, <2>4 DEF HelperInv, TypeOK, installed, service
  <2>6. AnswersDated'
    BY <2>2 DEF HelperInv, AnswersDated
  <2>7. ThreadsDated'
    BY <1>1, <2>1, <2>2, <2>4 DEF HelperInv, TypeOK, AnswersDated, ThreadsDated
  <2> QED
    BY <2>2, <2>5, <2>6, <2>7 DEF HelperInv, TrustDated, installed
<1>3. CASE ~Fresh(cached) /\ (mode = "off" \/ helper = "absent")
  BY <1>3, LearnKeeps DEF Status, HelperInv, States
<1>4. CASE ~Fresh(cached) /\ mode # "off" /\ helper # "absent"
  <2>1. /\ phase' = "stat"
        /\ UNCHANGED <<cached, source, awaited, section, installed, service, untrusted>>
    BY <1>4 DEF Status
  <2> QED
    BY <2>1 DEF HelperInv, TypeOK, TrustDated, AnswersDated, ThreadsDated, installed, service
<1> QED
  BY <1>2, <1>3, <1>4

(* The interval in which the helper is seen to be trusted is that of the    *)
(* check that follows.                                                      *)
LEMMA StatKeeps ==
    ASSUME HelperInv, Stat
    PROVE  HelperInv'
<1>1. CASE helper = "absent"
  <2>1. /\ section' = [section EXCEPT !.failed = TRUE]
        /\ Ends /\ UNCHANGED <<cached, installed, service, untrusted>>
    BY <1>1 DEF Stat
  <2>2. section' \in [source : Sources \cup {"none"}, state : States \cup {"unknown"},
                      failed : BOOLEAN]
    BY <2>1 DEF HelperInv, TypeOK
  <2>3. TypeOK'
    BY <2>1, <2>2 DEF Ends, HelperInv, TypeOK, installed, service
  <2> QED
    BY <2>1, <2>3 DEF Ends, HelperInv, TrustDated, AnswersDated, ThreadsDated, installed
<1>2. CASE helper # "absent" /\ ~Trusted
  BY <1>2, LearnKeeps DEF Stat, NoNewPrivileges, HelperInv, States
<1>3. CASE helper # "absent" /\ Trusted /\ confined
  BY <1>3, LearnKeeps DEF Stat, NoNewPrivileges, HelperInv, States
<1>4. CASE helper # "absent" /\ Trusted /\ ~confined
  <2>1. /\ phase' = "check"
        /\ UNCHANGED <<cached, source, awaited, section, installed, service, untrusted>>
    BY <1>4 DEF Stat, NoNewPrivileges
  <2> QED
    BY <1>4, <2>1 DEF Trusted, TrustDated, HelperInv, TypeOK, AnswersDated, ThreadsDated,
                     installed, service
<1> QED
  BY <1>1, <1>2, <1>3, <1>4

LEMMA CheckKeeps ==
    ASSUME HelperInv, phase = "check", Check \/ CommandFails
    PROVE  HelperInv'
<1>1. PICK s \in States : Learn(s)
  BY DEF Check, CommandFails, States
<1>2. untrusted = 0 /\ UNCHANGED <<installed, service, untrusted>>
  BY DEF Check, CommandFails, HelperInv, ThreadsDated
<1> QED
  BY <1>1, <1>2, LearnKeeps DEF HelperInv

(* A run that failed leaves no answer behind, one that succeeded leaves its *)
(* answer as old as it was.                                                 *)
LEMMA RunKeeps ==
    ASSUME HelperInv, phase = "run", Run \/ CommandFails
    PROVE  HelperInv'
<1>1. PICK succeeded \in BOOLEAN : HasRun(succeeded)
  BY DEF Run, CommandFails, SudoRuns, HelperInv, TypeOK
<1>2. UNCHANGED <<installed, service, section, untrusted>>
  BY DEF Run, CommandFails
<1>3. cached' \in {cached, Unknown}
  BY <1>1 DEF HasRun
<1>4. /\ phase' \in {"idle", "status"}
      /\ source' \in Sources \cup {"none"} /\ awaited' \in BOOLEAN
  BY <1>1 DEF HasRun, Ends, HelperInv, TypeOK, Sources
<1>5. TypeOK'
  BY <1>2, <1>3, <1>4 DEF HelperInv, TypeOK, installed, service
<1>6. AnswersDated'
  BY <1>2, <1>3 DEF HelperInv, AnswersDated, Unknown
<1> QED
  BY <1>2, <1>4, <1>5, <1>6 DEF HelperInv, TrustDated, ThreadsDated, installed

(* Root, systemd and whoever loosens a mode: trust comes with a new sight   *)
(* of it, and what a restart leaves is a thread and an answer less.         *)
LEMMA HostKeeps ==
    ASSUME HelperInv, Script \/ Loosen \/ Reload \/ Configure \/ Restart
    PROVE  HelperInv'
<1>1. TTL \in Nat
  BY HelperAssumption
<1>2. CASE Install
  <2>1. helper' = "trusted" /\ untrusted' = 0 /\ script' = "rule"
        /\ UNCHANGED <<sudoers, dropin, service, cached, thread, section>>
    BY <1>2 DEF Install
  <2>2. TypeOK'
    BY <1>1, <2>1 DEF HelperInv, TypeOK, service, thread
  <2>3. AnswersDated'
    BY <1>1, <2>1 DEF HelperInv, TypeOK, AnswersDated, Unknown
  <2> QED
    BY <1>1, <2>1, <2>2, <2>3 DEF HelperInv, TrustDated, ThreadsDated, thread
<1>3. CASE InstallRule \/ InstallDropIn \/ RemoveRule \/ RemoveHelper \/ RemoveDropIn
           \/ Interrupt \/ Loosen
  <2>1. UNCHANGED <<service, cached, thread, section, untrusted>>
    BY <1>3 DEF InstallRule, InstallDropIn, RemoveRule, RemoveHelper, RemoveDropIn,
                Interrupt, Loosen
  <2>2. /\ helper' \in {"absent", "trusted", "insecure"}
        /\ helper' = "trusted" => helper = "trusted"
        /\ sudoers' \in BOOLEAN /\ dropin' \in BOOLEAN
        /\ script' \in {"idle", "rule", "dropin", "remove_helper", "remove_dropin"}
    BY <1>3 DEF InstallRule, InstallDropIn, RemoveRule, RemoveHelper, RemoveDropIn,
                Interrupt, Loosen, HelperInv, TypeOK
  <2> QED
    <3>1. TypeOK'
      BY <2>1, <2>2 DEF HelperInv, TypeOK, service, thread
    <3> QED
      BY <2>1, <2>2, <3>1 DEF HelperInv, TrustDated, AnswersDated, ThreadsDated, thread
<1>4. CASE Reload
  BY <1>4 DEF Reload, HelperInv, TypeOK, TrustDated, AnswersDated, ThreadsDated, installed, thread
<1>5. CASE Configure
  BY <1>5 DEF Configure, HelperInv, TypeOK, TrustDated, AnswersDated, ThreadsDated, installed,
              thread
<1>6. CASE Restart
  <2>1. /\ cached' = Unknown /\ section' = Nothing /\ confined' = ~unit
        /\ phase' = "idle" /\ source' = "none" /\ awaited' = TRUE
        /\ mode' = configured /\ UNCHANGED <<installed, unit, configured, untrusted>>
    BY <1>6 DEF Restart
  <2>2. section' \in [source : Sources \cup {"none"}, state : States \cup {"unknown"},
                      failed : BOOLEAN]
    BY <2>1 DEF Nothing
  <2>3. TypeOK'
    BY <2>1, <2>2 DEF HelperInv, TypeOK, installed
  <2>4. AnswersDated'
    BY <2>1 DEF AnswersDated, Unknown
  <2> QED
    BY <2>1, <2>3, <2>4 DEF HelperInv, TrustDated, ThreadsDated, installed
<1> QED
  BY <1>2, <1>3, <1>4, <1>5, <1>6 DEF Script

LEMMA HelperInvStep == HelperInv /\ [Next]_vars => HelperInv'
<1> SUFFICES ASSUME HelperInv, [Next]_vars PROVE HelperInv'
  OBVIOUS
<1>1. CASE Script \/ Loosen \/ Reload \/ Configure \/ Restart
  BY <1>1, HostKeeps
<1>2. CASE Collect
  BY <1>2, CollectKeeps
<1>3. CASE Status
  BY <1>3, StatusKeeps
<1>4. CASE Stat
  BY <1>4, StatKeeps
<1>5. CASE Check
  <2>1. phase = "check"
    BY <1>5 DEF Check
  <2> QED
    BY <1>5, <2>1, CheckKeeps
<1>6. CASE Run
  <2>1. phase = "run"
    BY <1>6 DEF Run
  <2> QED
    BY <1>6, <2>1, RunKeeps
<1>7. CASE CommandFails
  <2>1. phase = "check" \/ phase = "run"
    BY <1>7 DEF CommandFails
  <2> QED
    BY <1>7, <2>1, CheckKeeps, RunKeeps
<1>8. CASE TimeOut
  <2>1. /\ awaited' = FALSE /\ section' = [section EXCEPT !.failed = TRUE]
        /\ UNCHANGED <<helper, sudoers, dropin, script, unit, confined, configured, mode,
                       cached, phase, source, untrusted>>
    BY <1>8 DEF TimeOut, installed, service
  <2> QED
    <3>1. section' \in [source : Sources \cup {"none"}, state : States \cup {"unknown"},
                        failed : BOOLEAN]
      BY <2>1 DEF HelperInv, TypeOK
    <3>2. TypeOK
      BY DEF HelperInv
    <3>3. awaited' \in BOOLEAN
      BY <2>1
    <3>4. TypeOK'
      BY <2>1, <3>1, <3>2, <3>3 DEF TypeOK
    <3> QED
      BY <2>1, <3>4 DEF HelperInv, TrustDated, AnswersDated, ThreadsDated
<1>9. CASE UNCHANGED vars
  BY <1>9 DEF vars, HelperInv, TypeOK, TrustDated, AnswersDated, ThreadsDated, installed,
              service, thread
<1> QED
  BY <1>1, <1>2, <1>3, <1>4, <1>5, <1>6, <1>7, <1>8, <1>9 DEF Next, Look, Slow

(* The type invariant, for every lifetime of an answer.                     *)
THEOREM HelperTypeCorrect == Spec => []TypeOK
<1>1. HelperInv => TypeOK
  BY DEF HelperInv
<1> QED
  BY <1>1, HelperInvInit, HelperInvStep, PTL DEF Spec

(* Root runs nothing for the service that was not root's own within the     *)
(* lifetime of an answer (PrivilegedRunner.status and run).                 *)
THEOREM TrustStaysRecent == Spec => []TrustIsRecent
<1>1. HelperInv => TrustIsRecent
  <2> SUFFICES ASSUME HelperInv, phase \in {"check", "run"} PROVE untrusted <= TTL
    BY DEF TrustIsRecent
  <2> QED
    BY HelperAssumption DEF HelperInv, ThreadsDated
<1> QED
  BY <1>1, HelperInvInit, HelperInvStep, PTL DEF Spec

=============================================================================
