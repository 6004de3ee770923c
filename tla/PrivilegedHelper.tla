--------------------------- MODULE PrivilegedHelper ---------------------------
(***************************************************************************)
(* The optional root-owned helper that names the owner of every socket:    *)
(* deploy/privileged/enable.sh installs and removes it and lifts           *)
(* NoNewPrivileges for the service that will use it; the network collector *)
(* looks whether it may be trusted, runs it, and reports both              *)
(* (privileged.py, collectors/network.py).                                 *)
(*                                                                         *)
(* Time is counted in the collector's intervals, what a collection takes   *)
(* being part of the next one; an answer of PrivilegedRunner lasts TTL of  *)
(* them.                                                                   *)
(***************************************************************************)
EXTENDS Integers

CONSTANT TTL  \* PrivilegedRunner's ttl, in intervals

ASSUME HelperAssumption == TTL \in Nat

VARIABLES \* root's doing
          helper,   \* the helper and its directory: "absent", "trusted" (root's alone), "insecure"
          sudoers,  \* the rule is in /etc/sudoers.d
          dropin,   \* NoNewPrivileges=false is in the unit's drop-in directory
          script,   \* the next step of enable.sh, or of enable.sh --remove
          \* systemd's
          unit,     \* the drop-in is loaded
          confined, \* the running service has NoNewPrivs set
          configured, \* `privileged` in config.toml: "auto" or "off"
          \* the service's
          mode,     \* PrivilegedRunner.mode, what was configured when it started
          cached,   \* PrivilegedRunner._cached: [state, age]
          phase,    \* where the thread of a collection is
          source,   \* NetworkSection.owners_source of this collection, "none" at first
          awaited,  \* the collection has not timed out
          section,  \* the section last reported: [source, state], and whether it failed since
          untrusted \* history: intervals since the helper was last trusted, at most TTL + 1

installed == <<helper, sudoers, dropin, script>>
service   == <<unit, confined, configured, mode>>
thread    == <<phase, source, awaited>>
vars      == <<installed, service, cached, thread, section, untrusted>>

States  == {"enabled", "not_installed", "not_permitted", "insecure", "disabled"}
Unknown == [state |-> "unknown", age |-> 0]
Sources == {"privileged", "unprivileged"}
Nothing == [source |-> "none", state |-> "unknown", failed |-> FALSE]

(***************************************************************************)
(* enable.sh, any step of which may be the last                            *)
(***************************************************************************)
Install ==
    /\ script = "idle"
    /\ helper' = "trusted"
    /\ untrusted' = 0
    /\ script' = "rule"
    /\ UNCHANGED <<sudoers, dropin, service, cached, thread, section>>

InstallRule ==
    /\ script = "rule"
    /\ sudoers' = TRUE
    /\ script' = "dropin"
    /\ UNCHANGED <<helper, dropin, service, cached, thread, section, untrusted>>

InstallDropIn ==
    /\ script = "dropin"
    /\ dropin' = TRUE
    /\ script' = "idle"
    /\ UNCHANGED <<helper, sudoers, service, cached, thread, section, untrusted>>

(* rm -f with the rule first and the helper second *)
RemoveRule ==
    /\ script = "idle"
    /\ sudoers' = FALSE
    /\ script' = "remove_helper"
    /\ UNCHANGED <<helper, dropin, service, cached, thread, section, untrusted>>

RemoveHelper ==
    /\ script = "remove_helper"
    /\ helper' = "absent"
    /\ script' = "remove_dropin"
    /\ UNCHANGED <<sudoers, dropin, service, cached, thread, section, untrusted>>

(* The drop-in stays when root runs the script, and not through sudo *)
RemoveDropIn ==
    /\ script = "remove_dropin"
    /\ dropin' \in {dropin, FALSE}
    /\ script' = "idle"
    /\ UNCHANGED <<helper, sudoers, service, cached, thread, section, untrusted>>

Interrupt ==
    /\ script # "idle"
    /\ script' = "idle"
    /\ UNCHANGED <<helper, sudoers, dropin, service, cached, thread, section, untrusted>>

(* External: somebody loosens the mode of the helper or of its directory *)
Loosen ==
    /\ helper = "trusted"
    /\ helper' = "insecure"
    /\ UNCHANGED <<sudoers, dropin, script, service, cached, thread, section, untrusted>>

(***************************************************************************)
(* systemd, and the user's configuration, which is read at a start          *)
(***************************************************************************)
Reload ==
    /\ unit' = dropin
    /\ UNCHANGED <<installed, confined, configured, mode, cached, thread, section, untrusted>>

Configure ==
    /\ configured' \in {"auto", "off"} \ {configured}
    /\ UNCHANGED <<installed, unit, confined, mode, cached, thread, section, untrusted>>

Restart ==
    /\ confined' = ~unit
    /\ mode' = configured
    /\ cached' = Unknown
    /\ phase' = "idle" /\ source' = "none" /\ awaited' = TRUE
    /\ section' = Nothing
    /\ UNCHANGED <<installed, unit, configured, untrusted>>

(***************************************************************************)
(* PrivilegedRunner                                                        *)
(***************************************************************************)
(* sudo -n runs what the rule names, if this process may gain privileges *)
SudoRuns == sudoers /\ helper # "absent" /\ ~confined

Ends == phase' = "idle" /\ source' = "none" /\ awaited' = TRUE

(* run goes on to the helper if the status is enabled, and else to ss and   *)
(* to the status again, which is what the section reports; of a collection  *)
(* that timed out only the thread is left                                   *)
Decide(s) ==
    \/ /\ source = "none" /\ s = "enabled"
       /\ phase' = "run"
       /\ UNCHANGED <<source, awaited, section>>
    \/ /\ source = "none" /\ s # "enabled" /\ awaited
       /\ phase' = "status" /\ source' = "unprivileged"
       /\ UNCHANGED <<awaited, section>>
    \/ /\ source # "none" /\ awaited
       /\ section' = [source |-> source, state |-> s, failed |-> FALSE]
       /\ Ends
    \/ /\ ~awaited /\ (source = "none" => s # "enabled")
       /\ Ends /\ UNCHANGED section

Learn(s) == cached' = [state |-> s, age |-> 0] /\ Decide(s)

Fresh(c) == c # Unknown /\ c.age <= TTL

Older(c) == IF c = Unknown \/ c.age > TTL THEN c ELSE [c EXCEPT !.age = @ + 1]

(* The interval is over, and NetworkCollector.collect begins: run("sockets") *)
Collect ==
    /\ phase = "idle"
    /\ phase' = "status"
    /\ cached' = Older(cached)
    /\ untrusted' = IF helper = "trusted" THEN 0
                    ELSE IF untrusted > TTL THEN untrusted ELSE untrusted + 1
    /\ UNCHANGED <<installed, service, source, awaited, section>>

(* status: the remembered answer, or a look, which begins with the file *)
Status ==
    /\ phase = "status"
    /\ IF Fresh(cached) THEN Decide(cached.state) /\ UNCHANGED cached
       ELSE IF mode = "off" THEN Learn("disabled")
       ELSE IF helper = "absent" THEN Learn("not_installed")
       ELSE phase' = "stat" /\ UNCHANGED <<cached, source, awaited, section>>
    /\ UNCHANGED <<installed, service, untrusted>>

\* mutant: only the existence of the helper counts
TrustedIfThere == helper # "absent"

Trusted == helper = "trusted"

(* inspect reads the flag of the process it runs in *)
NoNewPrivileges == confined

(* os.stat of a helper that is gone raises, and the collection fails *)
Stat ==
    /\ phase = "stat"
    /\ IF helper = "absent"
       THEN /\ section' = [section EXCEPT !.failed = TRUE]
            /\ Ends /\ UNCHANGED cached
       ELSE IF ~Trusted THEN Learn("insecure")
       ELSE IF NoNewPrivileges THEN Learn("not_permitted")
       ELSE phase' = "check" /\ UNCHANGED <<cached, source, awaited, section>>
    /\ UNCHANGED <<installed, service, untrusted>>

(* sudo -n helper check *)
Check ==
    /\ phase = "check"
    /\ Learn(IF SudoRuns THEN "enabled" ELSE "not_permitted")
    /\ UNCHANGED <<installed, service, untrusted>>


(* a failure forgets the answer and falls back *)
HasRun(succeeded) ==
    /\ cached' = IF succeeded THEN cached ELSE Unknown
    /\ IF awaited
       THEN /\ phase' = "status"
            /\ source' = IF succeeded THEN "privileged" ELSE "unprivileged"
            /\ UNCHANGED awaited
       ELSE Ends

(* sudo -n helper sockets *)
Run ==
    /\ phase = "run"
    /\ HasRun(SudoRuns)
    /\ UNCHANGED <<installed, service, section, untrusted>>

(* A command that exceeds its own timeout has failed *)
CommandFails ==
    /\ \/ phase = "check" /\ Learn("not_permitted")
       \/ phase = "run" /\ HasRun(FALSE) /\ UNCHANGED section
    /\ UNCHANGED <<installed, service, untrusted>>

(* The collector's timeout, within a slow command; its thread ends before   *)
(* the next collection                                                      *)
TimeOut ==
    /\ phase \in {"check", "run"} /\ awaited
    /\ awaited' = FALSE
    /\ section' = [section EXCEPT !.failed = TRUE]
    /\ UNCHANGED <<installed, service, cached, phase, source, untrusted>>

(***************************************************************************)
(* `dgxctl privileged`: effective_status, asked from a shell, which is not  *)
(* confined itself and knows only the configuration on disk                 *)
(***************************************************************************)
\* mutant: the shell's own view
EffectiveOfShell ==
    IF configured = "off" THEN "disabled"
    ELSE IF helper = "absent" THEN "not_installed"
    ELSE IF ~Trusted THEN "insecure"
    ELSE IF sudoers THEN "enabled"
    ELSE "not_permitted"

EffectiveStatus ==
    IF configured = "off" THEN "disabled"
    ELSE IF helper = "absent" THEN "not_installed"
    ELSE IF ~Trusted THEN "insecure"
    ELSE IF sudoers /\ ~confined THEN "enabled"
    ELSE "not_permitted"

-----------------------------------------------------------------------------
Init ==
    /\ helper = "absent" /\ sudoers = FALSE /\ dropin = FALSE /\ script = "idle"
    /\ unit = FALSE /\ confined = TRUE
    /\ configured \in {"auto", "off"} /\ mode = configured
    /\ cached = Unknown
    /\ phase = "idle" /\ source = "none" /\ awaited = TRUE
    /\ section = Nothing
    /\ untrusted = TTL + 1

Script == \/ Install \/ InstallRule \/ InstallDropIn
          \/ RemoveRule \/ RemoveHelper \/ RemoveDropIn \/ Interrupt

Look == Status \/ Stat \/ Check \/ Run

Slow == CommandFails \/ TimeOut

Next == Script \/ Loosen \/ Reload \/ Configure \/ Restart \/ Collect \/ Look \/ Slow

Spec == Init /\ [][Next]_vars

(* the collector's loop goes on, and commands answer *)
FairSpec == Spec /\ WF_vars(Collect) /\ WF_vars(Look)

-----------------------------------------------------------------------------
TypeOK ==
    /\ helper \in {"absent", "trusted", "insecure"}
    /\ sudoers \in BOOLEAN /\ dropin \in BOOLEAN
    /\ script \in {"idle", "rule", "dropin", "remove_helper", "remove_dropin"}
    /\ unit \in BOOLEAN /\ confined \in BOOLEAN
    /\ configured \in {"auto", "off"} /\ mode \in {"auto", "off"}
    /\ cached \in {Unknown} \cup [state : States, age : 0..(TTL + 1)]
    /\ phase \in {"idle", "status", "stat", "check", "run"}
    /\ source \in Sources \cup {"none"}
    /\ awaited \in BOOLEAN
    /\ section \in [source : Sources \cup {"none"}, state : States \cup {"unknown"},
                   failed : BOOLEAN]
    /\ untrusted \in 0..(TTL + 1)

(* Root runs nothing for the service that was not root's own TTL before,    *)
(* however the installation, the unit and the modes of its files change     *)
(* between the look and the run, and whatever collections time out          *)
(* (R17.7; docs/architecture.md:532 says "before every use", which a        *)
(* remembered answer is not).                                               *)
TrustIsRecent == phase \in {"check", "run"} /\ SudoRuns => untrusted <= TTL

(* When nothing restarts the service and no command is slow any more, the   *)
(* section comes to say what `dgxctl privileged` says of it, if that goes   *)
(* on saying it and the configuration is the one the service started with:  *)
(* the helper's answer if it is enabled, and else the unprivileged one with *)
(* that reason.  Where the reason keeps changing the answer is still the    *)
(* unprivileged one, or the section says that it failed (a helper that goes *)
(* between two looks at it; privileged.py:141-160, R17.6, R17.8, R17.9).    *)
Quiet == <>[][~Restart /\ ~Slow]_vars

SaysFor(s) == [source |-> IF s = "enabled" THEN "privileged" ELSE "unprivileged",
               state |-> s, failed |-> FALSE]

SectionCatchesUp ==
    Quiet =>
        /\ \A s \in States :
              <>[](EffectiveStatus = s /\ mode = configured) => <>[](section = SaysFor(s))
        /\ <>[](helper # "trusted") \/ <>[]~sudoers \/ <>[]confined \/ <>[](mode = "off")
              => <>[](\/ section.failed
                      \/ section.source = "unprivileged" /\ section.state # "enabled")

=============================================================================
