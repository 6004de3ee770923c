------------------------------ MODULE Onboarding ------------------------------
(***************************************************************************)
(* `dgxctl onboard`, `dgxctl token` and `dgxctl sync` (cli.py,             *)
(* onboarding.py, auth.py, nvidia_sync.py): sequences of steps over the    *)
(* files of one account, any of which may be the last, run again and       *)
(* again, beside an editor and NVIDIA Sync.                                *)
(*                                                                         *)
(* What a file says is reduced to what the properties tell apart: whether  *)
(* it can be read, and rendered again, the address class of its host, and  *)
(* the edition of what onboarding does not manage.  One command runs at a  *)
(* time, no two begin in the same second (backups are named after it), and *)
(* nobody else saves between the copy of a file and the write that follows *)
(* it.  The service reads the files when it starts, and not before.        *)
(***************************************************************************)
EXTENDS Integers

CONSTANTS MaxEdits,  \* bound on the user's editions of the configuration
          MaxTools   \* bound on the editions of NVIDIA Sync's own entries

ASSUME OnboardingAssumption == MaxEdits \in Nat /\ MaxTools \in Nat \ {0}

(* bind_options: serve and the loopback option bind 127.0.0.1, the others   *)
(* an address that asks for a token                                         *)
Hosts  == {"loopback", "beyond"}
Tokens == {"absent", "loose_empty", "loose", "empty", "good"}

(* A "tricky" configuration loads, but has what TEMPLATE and split_existing *)
(* do not see through: a quote or a backslash in node_name or in the        *)
(* allowlist, a managed key in quotes, a bracket in a string                *)
Kinds  == {"absent", "empty", "toml", "tricky", "bad"}

(* "odd": a name, given by flag or answer, that TEMPLATE would have to escape *)
Names  == {"plain", "odd"}

VARIABLES config,   \* config.toml: [kind, host, own], own the edition of the user's part
          backups,  \* the editions its backups hold
          token,    \* the token file: "loose" if others may read it
          sync,     \* the edition of the others' entries in custom.json, 0 without Sync
          syncBackups,
          step,     \* what the command is about to do
          want,     \* the host and the name it was asked for
          read,     \* what it has read of the file it is about to replace
          edited,   \* the user's newest edition
          synced,   \* NVIDIA Sync's
          onboarded \* history: "yes" when onboarding is complete, from files it could
                    \* use and with a plain name, and nobody has touched them since;
                    \* "begun" on the way

files == <<config, backups, token, sync, syncBackups>>
vars  == <<files, step, want, read, edited, synced, onboarded>>

Text(kind, host, own) == [kind |-> kind, host |-> host, own |-> own]
NoText == Text("absent", "loopback", 0)
Wish(host, name) == [host |-> host, name |-> name]
NoWish == Wish("loopback", "plain")
Usable == token \in {"absent", "good"} /\ config.kind \notin {"tricky", "bad"}

Goes(s) == step' = s
Ends    == step' = "idle" /\ want' = NoWish /\ read' = NoText

(***************************************************************************)
(* The token                                                               *)
(***************************************************************************)
Empty(t)  == CASE t = "absent" -> "loose_empty" [] t = "loose" -> "loose_empty"
               [] t = "good" -> "empty" [] OTHER -> t
Filled(t) == IF t = "loose_empty" THEN "loose" ELSE "good"

(* generate_token empties the file first, then fills it, then narrows its   *)
(* mode; a new file has the mode of the umask                               *)
Fill ==
    /\ step \in {"fill", "fill_only"}
    /\ token' = Filled(token)
    /\ Goes(IF step = "fill" THEN "protect" ELSE "protect_only")
    /\ UNCHANGED <<config, backups, sync, syncBackups, want, read, edited, synced, onboarded>>

Protect ==
    /\ step \in {"protect", "protect_only"}
    /\ token' = "good"
    /\ IF step = "protect" THEN Goes("read") /\ UNCHANGED <<want, read>> ELSE Ends
    /\ UNCHANGED <<config, backups, sync, syncBackups, edited, synced, onboarded>>

(* `dgxctl token`, with --rotate *)
TokenCommand(rotate) ==
    /\ step = "idle" /\ config.kind # "bad"
    /\ rotate \/ token = "absent"
    /\ token' = Empty(token)
    /\ Goes("fill_only")
    /\ onboarded' = "no"
    /\ UNCHANGED <<config, backups, sync, syncBackups, want, read, edited, synced>>

(***************************************************************************)
(* Onboarding                                                              *)
(***************************************************************************)
\* mutant: only a first installation makes a token
NeedsFirstToken(h) == token = "absent" /\ h = "beyond" /\ config.kind = "absent"

(* Whatever the bind, and whatever is in the file that exists *)
NeedsToken(h) == token = "absent"

(* detect, and the questions of who should reach the dashboard and its name *)
Begin(h, name) ==
    /\ step = "idle"
    /\ want' = Wish(h, name)
    /\ onboarded' = IF Usable /\ name = "plain" THEN "begun" ELSE "no"
    /\ IF NeedsToken(h) THEN token' = Empty(token) /\ Goes("fill")
       ELSE UNCHANGED token /\ Goes("read")
    /\ UNCHANGED <<config, backups, sync, syncBackups, read, edited, synced>>

Read ==
    /\ step = "read"
    /\ read' = config
    /\ Goes("backup")
    /\ UNCHANGED <<files, want, edited, synced, onboarded>>

(* render_config with split_existing: the managed keys anew, all else as it *)
(* was read, mistakes included.  What is not plain may come out as anything, *)
(* without lines of the user's                                              *)
Plain == want.name = "plain" /\ read.kind \notin {"tricky", "bad"}

Renderings ==
    {Text(kind, want.host, own) :
        kind \in IF Plain THEN {"toml"} ELSE {"toml", "tricky", "bad"},
        own  \in IF Plain THEN {read.own} ELSE {read.own, 0}}

\* mutant: what was read is what is kept
KeptRead == backups \cup {read.own}

Kept == backups \cup {config.own}

(* write_config: a copy first; the same text, of the same day, is not       *)
(* written again                                                            *)
Backup ==
    /\ step = "backup"
    /\ \/ config \in Renderings /\ Goes("sync") /\ UNCHANGED backups
       \/ config.kind = "absent" /\ Goes("truncate") /\ UNCHANGED backups
       \/ config.kind # "absent" /\ Goes("truncate") /\ backups' = Kept
    /\ UNCHANGED <<config, token, sync, syncBackups, want, read, edited, synced, onboarded>>

(* write_text empties the file and fills it again; a disk that is full      *)
(* keeps a beginning                                                        *)
Truncate ==
    /\ step = "truncate"
    /\ config' \in {Text("empty", "loopback", 0)} \cup
                   {Text(kind, want.host, 0) :
                       kind \in {"toml", "bad"} \cup (IF Plain THEN {} ELSE {"tricky"})}
    /\ Goes("write")
    /\ UNCHANGED <<backups, token, sync, syncBackups, want, read, edited, synced, onboarded>>

Write ==
    /\ step = "write"
    /\ config' \in Renderings
    /\ Goes("sync")
    /\ UNCHANGED <<backups, token, sync, syncBackups, want, read, edited, synced, onboarded>>

(***************************************************************************)
(* NVIDIA Sync: register, unregister                                       *)
(***************************************************************************)

(* read_entries: Sync's file is never created, nor changed if it is no list *)
ReadEntries ==
    /\ step \in {"idle", "sync"} /\ sync > 0
    /\ read' = Text("json", "loopback", sync)
    /\ Goes(IF step = "idle" THEN "copy_only" ELSE "copy")
    /\ UNCHANGED <<files, want, edited, synced, onboarded>>

Skip ==
    /\ step = "sync"
    /\ read' = NoText
    /\ Goes("install")
    /\ UNCHANGED <<files, want, edited, synced, onboarded>>

(* _write: a copy, a file of its own, and a rename *)
Copy ==
    /\ step \in {"copy", "copy_only"}
    /\ syncBackups' = syncBackups \cup {sync}
    /\ Goes(IF step = "copy" THEN "rename" ELSE "rename_only")
    /\ UNCHANGED <<config, backups, token, sync, want, read, edited, synced, onboarded>>

Rename ==
    /\ step \in {"rename", "rename_only"}
    /\ sync' = read.own
    /\ IF step = "rename" THEN Goes("install") /\ read' = NoText /\ UNCHANGED want ELSE Ends
    /\ UNCHANGED <<config, backups, token, syncBackups, edited, synced, onboarded>>

(***************************************************************************)
(* The end of a command                                                    *)
(***************************************************************************)
(* The last steps leave these files alone: the link to the command, the     *)
(* unit, and a restart whose outcome is not looked at                       *)
Complete ==
    /\ step = "install"
    /\ onboarded' = IF onboarded = "begun" THEN "yes" ELSE "no"
    /\ Ends
    /\ UNCHANGED <<files, edited, synced>>

(* Control-C, a kill, a power cut *)
Crash ==
    /\ step # "idle"
    /\ onboarded' = "no"
    /\ Ends
    /\ UNCHANGED <<files, edited, synced>>

(* `uninstall.sh --purge` removes the directory of the configuration: of     *)
(* what the user wrote there nothing is to be kept                           *)
Purge ==
    /\ step = "idle"
    /\ config' = NoText /\ backups' = {} /\ token' = "absent"
    /\ edited' = 0
    /\ onboarded' = "no"
    /\ UNCHANGED <<sync, syncBackups, step, want, read, synced>>

(***************************************************************************)
(* External: the user, and NVIDIA Sync                                     *)
(***************************************************************************)
UserEdits ==
    /\ edited < MaxEdits
    /\ step \notin {"truncate", "write"}
    /\ edited' = edited + 1
    /\ config' \in {Text(k, h, edited + 1) : k \in {"toml", "tricky", "bad"}, h \in Hosts}
    /\ onboarded' = "no"
    /\ UNCHANGED <<backups, token, sync, syncBackups, step, want, read, synced>>

UserProtects ==
    /\ step = "idle"
    /\ \/ token = "loose_empty" /\ token' = "empty"
       \/ token = "loose" /\ token' = "good"
    /\ UNCHANGED <<config, backups, sync, syncBackups, step, want, read, edited, synced, onboarded>>

SyncSaves ==
    /\ sync > 0 /\ synced < MaxTools
    /\ step \notin {"rename", "rename_only"}
    /\ synced' = synced + 1
    /\ sync' = synced + 1
    /\ UNCHANGED <<config, backups, token, syncBackups, step, want, read, edited, onboarded>>

-----------------------------------------------------------------------------
Init ==
    /\ config = NoText /\ backups = {}
    /\ token = "absent"
    /\ sync \in {0, 1} /\ syncBackups = {}
    /\ step = "idle" /\ want = NoWish /\ read = NoText
    /\ edited = 0 /\ synced = sync
    /\ onboarded = "no"

Onboard == \/ \E h \in Hosts, name \in Names : Begin(h, name)
           \/ Read \/ Backup \/ Truncate \/ Write \/ Skip \/ Complete

TokenSteps == Fill \/ Protect \/ \E rotate \in BOOLEAN : TokenCommand(rotate)

SyncSteps == ReadEntries \/ Copy \/ Rename

Others == UserEdits \/ UserProtects \/ SyncSaves

Next == Onboard \/ TokenSteps \/ SyncSteps \/ Purge \/ Crash \/ Others

Spec == Init /\ [][Next]_vars

-----------------------------------------------------------------------------
TypeOK ==
    /\ config \in [kind : Kinds, host : Hosts, own : 0..MaxEdits]
    /\ backups \subseteq 0..MaxEdits
    /\ token \in Tokens
    /\ sync \in 0..MaxTools /\ syncBackups \subseteq 1..MaxTools
    /\ step \in {"idle", "fill", "fill_only", "protect", "protect_only", "read", "backup",
                 "truncate", "write", "sync", "copy", "copy_only", "rename", "rename_only",
                 "install"}
    /\ want \in [host : Hosts, name : Names]
    /\ read \in [kind : Kinds \cup {"json"}, host : Hosts, own : 0..(MaxEdits + MaxTools)]
    /\ edited \in 0..MaxEdits /\ synced \in 0..MaxTools
    /\ onboarded \in {"no", "begun", "yes"}

(* Nothing of anybody else is lost: wherever a command ends, and whoever     *)
(* saves beside it, the user's newest edition of the configuration and the   *)
(* newest entries of NVIDIA Sync are in the file or in a backup of it        *)
(* (docs/spec.md R14.7, R14.11; nvidia_sync.py:81).                          *)
SettingsKept ==
    /\ edited \in backups \cup {config.own}
    /\ synced \in syncBackups \cup {sync}

(* Onboarding never completes in a state the service will refuse to start    *)
(* in (docs/spec.md R14.4), whatever commands ran or were cut short before,  *)
(* if the service could use the files it found, and neither they nor the     *)
(* name it was given hold what render_config does not see through            *)
(* (onboarding.py:244-332).  From a tricky file, or with an odd name, it may: *)
(* the R14.4 of docs/spec.md has no such exception.                          *)
Loads == CASE config.kind \in {"absent", "empty"}  -> "loopback"
           [] config.kind \in {"toml", "tricky"} -> config.host
           [] config.kind = "bad"                 -> "invalid"

Startable == /\ Loads # "invalid"
             /\ token \notin {"loose", "loose_empty"}
             /\ Loads = "beyond" => token = "good"

OnboardedStarts == onboarded = "yes" => Startable

=============================================================================
