------------------------------ MODULE Installation ------------------------------
(***************************************************************************)
(* The program on an account: deploy/install.sh, the last steps of         *)
(* `dgxctl onboard` (the link in ~/.local/bin, the shell files, the unit   *)
(* and its restart; onboarding.py, cli.py), deploy/uninstall.sh, and what  *)
(* systemd runs of it, around the files Onboarding is about.               *)
(*                                                                         *)
(* A shell file is what is left of the user's text and whether our PATH    *)
(* line is in it; a program is the release of the repository it was        *)
(* installed from.  There is one virtualenv of the installer, in its       *)
(* default place, which is the one the unit runs; "other" stands for any   *)
(* dgxctl of the user's own, and "build" for one in a build sandbox, which *)
(* is gone when its command ends.  As in Onboarding one command runs at a  *)
(* time; nobody saves a shell file while one does.                         *)
(***************************************************************************)
EXTENDS Onboarding

CONSTANTS MaxReleases, \* bound on the releases of the repository
          MaxMishaps,  \* bound on what is cut short or not obeyed
          Accounts     \* the accounts: the shell, its files, whether NVIDIA Sync is
                       \* there; and bounds on the user's editions, the names asked
                       \* for and the commands

LoginFiles       == {".profile", ".bash_profile", ".zprofile"}
InteractiveFiles == {".bashrc", ".zshrc"}
ShellFiles       == LoginFiles \cup InteractiveFiles

ASSUME InstallationAssumption ==
    /\ MaxReleases \in Nat \ {0} /\ MaxMishaps \in Nat
    /\ Accounts \subseteq [login : {"bash", "zsh"}, files : SUBSET ShellFiles, sync : BOOLEAN,
                            edits : 0..MaxEdits, names : SUBSET Names, commands : Nat]

VARIABLES release, \* of the repository
          venv,    \* the virtualenv exists
          program, \* the release in it, 0 if it is not whole
          link,    \* ~/.local/bin/dgxctl: none, a file, or whose program it names
          account, \* the one at hand
          text,    \* of its files: "torn" if the user's part is not whole
          saved,   \* the files whose backup holds the user's newest text
          unit,    \* the unit file is there
          enabled,
          service, \* [release, host] of the process that runs, release 0 for none
          entry,   \* custom.json has an entry of ours
          doing,   \* where install.sh, uninstall.sh or the end of onboard stands
          arg,     \* its argument: whose onboarding, keep or purge
          todo,    \* the shell files it has still to see to
          mishaps, commands, \* how many there were
          \* history: what it called did as it was told, and nothing it passed over was left;
          obeyed,
          \* the last onboarding made a name, the PATH being there or by its lines;
          named,
          \* it said "installed and started", and was obeyed;
          installed,
          \* an uninstall has come to its end since anything was installed or registered, obeyed;
          removed,
          \* the files an uninstall copied when an earlier one had left them torn
          again

place   == <<release, venv, program, link>>
shell   == <<account, text, saved, again>>
systemd == <<unit, enabled, service>>
history == <<named, installed, removed>>
script  == <<doing, arg, todo, obeyed>>
count   == <<mishaps, commands>>
installation == <<place, shell, systemd, history, script, entry, count>>

Silent == [release |-> 0, host |-> "loopback"]

(* How the service fares if it is started now: what it runs is the unit's  *)
(* ExecStart, whoever was onboarded                                        *)
Started == IF program > 0 /\ Startable THEN [release |-> program, host |-> Loads] ELSE Silent

At(d)   == doing = d
Free    == doing = "idle" /\ step = "idle"
Goto(d) == doing' = d /\ UNCHANGED <<arg, obeyed>>
Over    == doing' = "idle" /\ arg' = "none" /\ todo' = {} /\ obeyed' = TRUE

Command == commands < account.commands /\ commands' = commands + 1
Mishap  == mishaps < MaxMishaps /\ mishaps' = mishaps + 1
Maybe(ok) == IF ok THEN UNCHANGED mishaps ELSE Mishap

(* What was said of the account is void when a command starts *)
Afresh == named' = "no" /\ installed' = FALSE /\ removed' = FALSE

(***************************************************************************)
(* install.sh                                                              *)
(***************************************************************************)
(* A virtualenv over an existing one may empty it or leave it *)
MakeVenv(onboard) ==
    /\ Free /\ Command
    /\ venv' = TRUE /\ program' \in {0, program}
    /\ doing' = (IF onboard THEN "pip" ELSE "pip_only")
    /\ Afresh
    /\ UNCHANGED <<vars, release, link, shell, systemd, entry, arg, todo, obeyed, mishaps>>

Pip ==
    /\ doing \in {"pip", "pip_only"}
    /\ program' = release
    /\ Goto(IF doing = "pip" THEN "hand_over" ELSE "ln")
    /\ UNCHANGED <<vars, release, venv, link, shell, systemd, history, entry, todo, count>>

(* --no-onboard: ln -sfn, unless something is there that is no link *)
Ln ==
    /\ At("ln")
    /\ link' = IF link = "file" THEN "file" ELSE "default"
    /\ Over
    /\ UNCHANGED <<vars, release, venv, program, shell, systemd, history, entry, count>>

(***************************************************************************)
(* onboard, from the questions to the link                                 *)
(***************************************************************************)
StartOnboard(h, name, v) ==
    /\ \/ At("hand_over") /\ v = "default" /\ UNCHANGED commands
       \/ At("idle") /\ Command /\ (v = "default" => program > 0)
    /\ name \in account.names /\ Begin(h, name)
    /\ doing' = "onboard" /\ arg' = v /\ Afresh
    /\ UNCHANGED <<place, shell, systemd, entry, todo, obeyed, mishaps>>

(* The token, the configuration and Sync, and the commands for them alone *)
Configure ==
    /\ \/ doing \in {"idle", "onboard", "child"} /\ (Fill \/ Protect \/ Copy)
       \/ At("onboard") /\ (Read \/ Backup \/ Truncate \/ Write \/ Skip)
       \/ At("onboard") /\ step = "sync" /\ ReadEntries
    /\ UNCHANGED installation

ByHand ==
    /\ Free /\ Command
    /\ ReadEntries \/ \E rotate \in BOOLEAN : TokenCommand(rotate)
    /\ UNCHANGED <<place, shell, systemd, history, script, entry, mishaps>>

(* register in an onboarding, unregister in an uninstall, either by hand *)
RenameSync ==
    /\ doing \in {"idle", "onboard", "child"} /\ Rename
    /\ \/ At("onboard") /\ entry' = TRUE
       \/ At("child") /\ entry' = FALSE
       \/ At("idle") /\ entry' \in BOOLEAN
    /\ removed' = (removed /\ ~entry')
    /\ UNCHANGED <<place, shell, systemd, named, installed, script, count>>

-----------------------------------------------------------------------------
(* is_ephemeral *)
Lasting(v) == v # "build"

(* ensure_on_path: nothing is linked from a sandbox, nor over a file; a link *)
(* to another place is removed first                                         *)
FindLink ==
    /\ At("onboard") /\ step = "install"
    /\ \/ (~Lasting(arg) \/ link = "file") /\ Goto("unit") /\ UNCHANGED link
       \/ Lasting(arg) /\ link = arg /\ Goto("path") /\ UNCHANGED link
       \/ Lasting(arg) /\ link \notin {"file", arg} /\ Goto("link") /\ link' = "none"
    /\ UNCHANGED <<vars, release, venv, program, shell, systemd, history, entry, todo, count>>

MakeLink ==
    /\ At("link")
    /\ link' = arg
    /\ Goto("path")
    /\ UNCHANGED <<vars, release, venv, program, shell, systemd, history, entry, todo, count>>

There(f)    == text[f] # "absent"
HasLine(f)  == text[f] \in {"line", "torn_line"}
LineIn(t)   == IF t \in {"torn", "torn_line"} THEN "torn_line" ELSE "line"

\* mutant: the files of an interactive shell only
InteractiveOnly == {f \in InteractiveFiles : There(f)}

(* _shell_rc_files: those that exist, and .profile if no login shell has any *)
Targets == {f \in ShellFiles : There(f)}
             \cup (IF \E f \in LoginFiles : There(f) THEN {} ELSE {".profile"})

Path(already) ==
    /\ At("path")
    /\ LET lacking == {f \in Targets : ~HasLine(f)}
       IN  IF already THEN Goto("unit") /\ named' = "path" /\ UNCHANGED todo
           ELSE IF lacking = {} THEN Goto("unit") /\ named' = "files" /\ UNCHANGED todo
           ELSE Goto("append") /\ todo' = lacking /\ UNCHANGED named
    /\ UNCHANGED <<vars, place, shell, systemd, installed, removed, entry, count>>

AppendLine ==
    /\ At("append")
    /\ \E f \in todo :
         /\ text' = [text EXCEPT ![f] = LineIn(@)]
         /\ todo' = todo \ {f}
         /\ IF todo = {f} THEN Goto("unit") /\ named' = "files"
            ELSE UNCHANGED <<doing, arg, obeyed, named>>
    /\ UNCHANGED <<vars, place, account, saved, again, systemd, installed, removed, entry, count>>

-----------------------------------------------------------------------------
(* The end of onboard: without systemd or with --no-service, or when the    *)
(* unit does not start, that is said and nothing more is done               *)
Leave == Complete /\ Over

InstallUnit ==
    /\ At("unit")
    /\ \/ Leave /\ UNCHANGED unit
       \/ unit' = TRUE /\ Goto("enable") /\ UNCHANGED <<vars, todo>>
    /\ UNCHANGED <<place, shell, enabled, service, history, entry, count>>

(* enable --now starts what does not run, and leaves what runs *)
Enable(ok) ==
    /\ At("enable") /\ Maybe(ok)
    /\ IF ok THEN /\ enabled' = TRUE
                  /\ service' = IF service = Silent THEN Started ELSE service
                  /\ Goto("restart")
                  /\ UNCHANGED <<vars, todo>>
       ELSE Leave /\ UNCHANGED <<enabled, service>>
    /\ UNCHANGED <<place, shell, unit, history, entry, commands>>

\* mutant: what `enable --now` started is what runs
NoRestart(ok) ==
    /\ At("restart") /\ Maybe(ok)
    /\ Leave /\ installed' = ok
    /\ UNCHANGED <<place, shell, systemd, named, removed, entry, commands>>

(* Its outcome is not looked at *)
RestartUnit(ok) ==
    /\ At("restart") /\ Maybe(ok)
    /\ service' \in IF ok THEN {Started} ELSE {service, Silent, Started}
    /\ Leave /\ installed' = ok
    /\ UNCHANGED <<place, shell, unit, enabled, named, removed, entry, commands>>

(***************************************************************************)
(* uninstall.sh                                                            *)
(***************************************************************************)
Uninstall(mode) ==
    /\ Free /\ Command
    /\ doing' = "disable" /\ arg' = mode
    /\ Afresh
    /\ UNCHANGED <<vars, place, shell, systemd, entry, todo, obeyed, mishaps>>

(* Every outcome is ignored: without a bus to the user's systemd the script  *)
(* goes on.  Without the unit file it may not ask at all, whatever an        *)
(* earlier uninstall left enabled or running                                 *)
Disable(ok) ==
    /\ At("disable")
    /\ \/ /\ Maybe(ok)
          /\ IF ok THEN enabled' = FALSE /\ service' = Silent ELSE UNCHANGED <<enabled, service>>
          /\ obeyed' = ok
       \/ /\ ~unit
          /\ obeyed' = (~enabled /\ service = Silent)
          /\ UNCHANGED <<enabled, service, mishaps>>
    /\ doing' = "rm_unit"
    /\ UNCHANGED <<vars, place, shell, unit, history, entry, arg, todo, commands>>

RemoveUnit ==
    /\ At("rm_unit")
    /\ unit' = FALSE
    /\ Goto("unregister")
    /\ UNCHANGED <<vars, place, shell, enabled, service, history, entry, todo, count>>

(* sync unregister, by the program that is about to go *)
Unregister ==
    /\ At("unregister") /\ entry /\ program > 0
    /\ ReadEntries
    /\ Goto("child")
    /\ UNCHANGED <<place, shell, systemd, history, entry, todo, count>>

(* There is none, no program to do it, it failed, or it is done *)
SkipUnregister ==
    /\ At("unregister") \/ At("child")
    /\ step = "idle"
    /\ Maybe(At("child") \/ ~entry \/ program = 0)
    /\ doing' = "unlink" /\ obeyed' = (obeyed /\ ~entry)
    /\ UNCHANGED <<vars, place, shell, systemd, history, entry, arg, todo, commands>>

\* mutant: the line is looked for in the files of an interactive shell
CleanedInteractive == InteractiveFiles

(* The files it looks for its line in *)
Cleaned == {".bashrc", ".zshrc", ".profile", ".bash_profile"}

NextFile(rest) == todo' = rest /\ Goto(IF rest = {} THEN "delete" ELSE "clean")

Unlink ==
    /\ At("unlink")
    /\ link' = IF link \in {"default", "build"} THEN "none" ELSE link
    /\ NextFile({f \in Cleaned : HasLine(f)})
    /\ UNCHANGED <<vars, release, venv, program, shell, systemd, history, entry, count>>

Current == CHOOSE f \in todo : TRUE

\* mutant: the file is rewritten without a copy
CopyNothing ==
    /\ At("clean") /\ todo # {}
    /\ Goto("empty")
    /\ UNCHANGED <<vars, place, shell, systemd, history, entry, todo, count>>

CopyShell ==
    /\ At("clean") /\ todo # {}
    /\ IF text[Current] = "line"
       THEN saved' = saved \cup {Current} /\ UNCHANGED again
       ELSE saved' = saved \ {Current} /\ again' = again \cup {Current}
    /\ Goto("empty")
    /\ UNCHANGED <<vars, place, account, text, systemd, history, entry, todo, count>>

(* The redirection empties the file before grep fills it *)
EmptyShell ==
    /\ At("empty")
    /\ text' = [text EXCEPT ![Current] = "torn"]
    /\ Goto("filter")
    /\ UNCHANGED <<vars, place, account, saved, again, systemd, history, entry, todo, count>>

FilterShell ==
    /\ At("filter")
    /\ text' = [text EXCEPT ![Current] = IF Current \in saved THEN "plain" ELSE "torn"]
    /\ NextFile(todo \ {Current})
    /\ UNCHANGED <<vars, place, account, saved, again, systemd, history, entry, count>>

Delete ==
    /\ At("delete")
    /\ venv' = FALSE /\ program' = 0
    /\ IF arg = "purge" THEN Goto("purge") /\ UNCHANGED <<todo, removed>>
       ELSE Over /\ removed' = obeyed
    /\ UNCHANGED <<vars, release, link, shell, systemd, named, installed, entry, count>>

(* --purge: the configuration with the token and its backups, and the state *)
PurgeData ==
    /\ At("purge")
    /\ Purge
    /\ Over /\ removed' = obeyed
    /\ UNCHANGED <<place, shell, systemd, named, installed, entry, count>>

(***************************************************************************)
(* What cuts a script or a command short, and what systemd does by itself  *)
(***************************************************************************)
Cut ==
    /\ Mishap
    /\ \/ /\ ~At("idle") /\ Over
          /\ IF step = "idle" THEN UNCHANGED vars ELSE Crash
       \/ doing \in {"idle", "child"} /\ Crash /\ UNCHANGED script
    /\ UNCHANGED <<place, shell, systemd, history, entry, commands>>

(* Restart=on-failure: a service that will not start is tried again, for good *)
Retry ==
    /\ enabled /\ unit /\ service = Silent /\ Started # Silent
    /\ service' = Started
    /\ UNCHANGED <<vars, place, shell, unit, enabled, history, script, entry, count>>

Boot ==
    /\ Free
    /\ service' = IF enabled /\ unit THEN Started ELSE Silent
    /\ UNCHANGED <<vars, place, shell, unit, enabled, history, script, entry, count>>

(***************************************************************************)
(* External: the user, and a newer repository                              *)
(***************************************************************************)
Edits ==
    /\ (UserEdits /\ edited < account.edits) \/ UserProtects \/ SyncSaves
    /\ UNCHANGED installation

(* A shell file is written anew; the line in it may stay *)
SaveShell(f) ==
    /\ Free /\ There(f)
    /\ text' \in {[text EXCEPT ![f] = t] : t \in {"plain"} \cup (IF HasLine(f) THEN {"line"} ELSE {})}
    /\ saved' = saved \ {f} /\ again' = again \ {f}
    /\ named' = IF named = "files" THEN "no" ELSE named
    /\ UNCHANGED <<vars, place, account, systemd, installed, removed, script, entry, count>>

Pull ==
    /\ Free /\ release < MaxReleases
    /\ release' = release + 1
    /\ UNCHANGED <<vars, venv, program, link, shell, systemd, history, script, entry, count>>

-----------------------------------------------------------------------------
AccountInit ==
    /\ Init /\ account \in Accounts /\ sync = (IF account.sync THEN 1 ELSE 0)
    /\ release = 1 /\ venv = FALSE /\ program = 0
    /\ link \in {"none", "file", "other"}
    /\ text = [f \in ShellFiles |-> IF f \in account.files THEN "plain" ELSE "absent"]
    /\ saved = {} /\ again = {}
    /\ unit = FALSE /\ enabled = FALSE /\ service = Silent
    /\ entry = FALSE
    /\ doing = "idle" /\ arg = "none" /\ todo = {} /\ obeyed = TRUE
    /\ named = "no" /\ installed = FALSE /\ removed = FALSE
    /\ mishaps = 0 /\ commands = 0

Install == \/ \E onboard \in BOOLEAN : MakeVenv(onboard)
           \/ Pip \/ Ln

Onboarded == \/ \E h \in Hosts, name \in Names, v \in {"default", "other", "build"} :
                   StartOnboard(h, name, v)
             \/ Configure \/ ByHand \/ RenameSync
             \/ FindLink \/ MakeLink \/ AppendLine \/ \E already \in BOOLEAN : Path(already)
             \/ InstallUnit \/ \E ok \in BOOLEAN : Enable(ok) \/ RestartUnit(ok)

Uninstalled == \/ \E mode \in {"keep", "purge"} : Uninstall(mode)
               \/ \E ok \in BOOLEAN : Disable(ok)
               \/ RemoveUnit \/ Unregister \/ SkipUnregister \/ Unlink
               \/ CopyShell \/ EmptyShell \/ FilterShell \/ Delete \/ PurgeData

Outside == \/ Cut \/ Retry \/ Boot \/ Edits \/ Pull
           \/ \E f \in ShellFiles : SaveShell(f)

AccountNext == Install \/ Onboarded \/ Uninstalled \/ Outside

AccountSpec == AccountInit /\ [][AccountNext]_<<vars, installation>>

-----------------------------------------------------------------------------
PlacesOK   == /\ release \in 1..MaxReleases /\ program \in 0..MaxReleases
              /\ venv \in BOOLEAN /\ entry \in BOOLEAN
              /\ link \in {"none", "file", "default", "other", "build"}
ShellOK    == /\ account \in Accounts
              /\ text \in [ShellFiles -> {"absent", "plain", "line", "torn", "torn_line"}]
              /\ saved \subseteq ShellFiles /\ again \subseteq ShellFiles
SystemdOK  == /\ unit \in BOOLEAN /\ enabled \in BOOLEAN
              /\ service \in [release : 0..MaxReleases, host : Hosts]
ScriptOK   == /\ doing \in {"idle", "pip", "pip_only", "hand_over", "ln", "onboard", "link",
                            "path", "append", "unit", "enable", "restart", "disable",
                            "rm_unit", "unregister", "child", "unlink", "clean", "empty",
                            "filter", "delete", "purge"}
              /\ arg \in {"none", "default", "other", "build", "keep", "purge"}
              /\ todo \subseteq ShellFiles /\ obeyed \in BOOLEAN
HistoryOK  == /\ installed \in BOOLEAN /\ removed \in BOOLEAN
              /\ named \in {"no", "path", "files"}
              /\ mishaps \in Nat /\ commands \in Nat

AccountTypeOK == PlacesOK /\ ShellOK /\ SystemdOK /\ ScriptOK /\ HistoryOK

(* What a new shell of the account reads: bash the first of two files, when  *)
(* it is one of a login; zsh its own                                         *)
Reads == IF account.login = "zsh" THEN {f \in {".zprofile", ".zshrc"} : There(f)}
         ELSE IF There(".bash_profile") THEN {".bash_profile"}
         ELSE {f \in {".profile"} : There(f)}

(* The accounts the property is about: one whose shell has a file it reads,  *)
(* or, with bash, no login file at all                                       *)
Ordinary == \/ Reads # {}
            \/ account.login = "bash" /\ ~There(".zprofile")

(* The command can be run by name after an onboarding that said so           *)
(* (docs/spec.md R14.10): the link is there, to a program that outlives the  *)
(* command and is installed, and a new shell finds it. Wherever an           *)
(* installation or an uninstallation stops, the link does not dangle beyond  *)
(* the virtualenv (deploy/uninstall.sh:62-92).                             *)
RunnableByName ==
    /\ link = "default" => venv
    /\ link # "build"
    /\ named # "no" => link \in {"default", "other"} /\ (link = "default" => program > 0)
    /\ named = "files" /\ Ordinary => \E f \in Reads : HasLine(f)

(* The user's part of a shell file is in the file or in its backup, wherever *)
(* an uninstall stopped, until another starts from a file the first left     *)
(* torn (deploy/uninstall.sh:81-83).                                       *)
ShellTextKept ==
    \A f \in ShellFiles : text[f] \in {"torn", "torn_line"} => f \in saved \cup again

(* After an uninstall that came to its end, and whose commands did what they *)
(* were told, nothing of the program is left but what ~/.zprofile has: not   *)
(* by an earlier one that was cut short, nor by an onboarding that was       *)
(* (docs/architecture.md:501).                                               *)
RemovedIsGone ==
    removed =>
        /\ ~venv /\ program = 0 /\ link \notin {"default", "build"}
        /\ ~unit /\ ~enabled /\ service = Silent
        /\ ~entry
        /\ \A f \in ShellFiles \ {".zprofile"} : ~HasLine(f)

(* An onboarding that says that the service is started leaves the installed  *)
(* release running with the host that was asked for, after an upgrade and    *)
(* over boots, until its files or the program change (docs/spec.md R14.4,    *)
(* R14.9).                                                                   *)
OnboardedRuns ==
    onboarded = "yes" /\ installed /\ program > 0
        => service = [release |-> program, host |-> config.host]

=============================================================================
