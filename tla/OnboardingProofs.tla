---------------------------- MODULE OnboardingProofs ----------------------------
(***************************************************************************)
(* Proofs about Onboarding, for any number of editions of either file, and *)
(* about Installation around it, for any accounts and releases.            *)
(***************************************************************************)
EXTENDS Installation, TLAPS

Saving  == {"truncate", "write"}               \* steps that replace config.toml
Copying == {"copy", "copy_only"}
Moving  == {"rename", "rename_only"}           \* steps that replace custom.json
Alone   == {"idle", "fill_only", "protect_only", "copy_only", "rename_only"}
Last    == {"sync", "copy", "rename", "install"}  \* config.toml has been written

(* What was read is no newer than what there was to read.                   *)
ReadIsOld ==
    /\ config.own <= edited
    /\ config.kind = "absent" => config.own = 0
    /\ step \in {"backup"} \cup Saving => read.own <= edited
    /\ step \in Copying \cup Moving => read.own \in 1..MaxTools
    /\ step \in Copying => sync > 0

(* A file is replaced only when its newest edition has been copied.          *)
CopiedFirst ==
    /\ step \in Saving => edited \in backups \cup {0}
    /\ step \in Moving => synced \in syncBackups

(* While an onboarding that began well goes on, what it has written so far   *)
(* is of use to the service.                                                 *)
OnItsWay ==
    /\ onboarded = "begun" => step \notin Alone
    /\ onboarded = "yes"   => step \in {"idle", "copy_only", "rename_only"}
    /\ onboarded = "begun" =>
          /\ step = "fill"               => token = "loose_empty"
          /\ step = "protect"            => token = "loose"
          /\ step \notin {"fill", "protect"} => token = "good"
          /\ want.name = "plain"
          /\ step \in {"fill", "protect", "read", "backup"} => config.kind \notin {"tricky", "bad"}
          /\ step \in {"backup"} \cup Saving => Plain
          /\ step \in Last               => config.kind = "toml"

-----------------------------------------------------------------------------
(* The assumptions, in the form the proofs use.                             *)
LEMMA Bounds == MaxEdits \in Nat /\ MaxTools \in Nat /\ MaxTools > 0
<1>1. MaxEdits \in Nat /\ MaxTools \in Nat \ {0}
  BY OnboardingAssumption
<1> QED
  BY <1>1

(* What is rendered is a configuration of the edition that was read, whole  *)
(* when it is plain.                                                        *)
LEMMA RenderingsTyped ==
    ASSUME TypeOK, ReadIsOld, step \in {"backup"} \cup Saving, NEW r \in Renderings
    PROVE  /\ r \in [kind : Kinds, host : Hosts, own : 0..MaxEdits]
           /\ r.kind \in {"toml", "tricky", "bad"}
           /\ Plain => r.kind = "toml"
           /\ r.host = want.host
           /\ r.own \in {read.own, 0} /\ r.own \in Nat
           /\ read.own \in Nat /\ read.own <= edited
<1>1. read.own \in Nat /\ read.own <= edited /\ edited \in 0..MaxEdits
  BY Bounds DEF TypeOK, ReadIsOld
<1>2. read.own \in 0..MaxEdits /\ 0 \in 0..MaxEdits
  BY <1>1, Bounds
<1>3. want.host \in Hosts
  BY DEF TypeOK
<1>4. PICK kind \in (IF Plain THEN {"toml"} ELSE {"toml", "tricky", "bad"}),
           own \in (IF Plain THEN {read.own} ELSE {read.own, 0}) : r = Text(kind, want.host, own)
  BY DEF Renderings
<1>5. /\ r.kind = kind /\ r.host = want.host /\ r.own = own
      /\ r = [kind |-> kind, host |-> want.host, own |-> own]
  BY <1>4 DEF Text
<1>6. kind \in {"toml", "tricky", "bad"} /\ (Plain => kind = "toml")
  BY <1>4
<1>7. own \in {read.own, 0} /\ own \in 0..MaxEdits
  BY <1>2, <1>4
<1> QED
  BY <1>1, <1>3, <1>5, <1>6, <1>7, Bounds DEF Kinds

(* At first there is nothing to read.                                       *)
LEMMA ReadingInit == Init => TypeOK /\ ReadIsOld
BY Bounds DEF Init, TypeOK, ReadIsOld, NoText, Text, NoWish, Wish, Hosts, Names, Kinds, Tokens,
              Saving, Copying, Moving

(* Types, and what was read beside what there was to read.                  *)
THEOREM OnboardingReads == Spec => [](TypeOK /\ ReadIsOld)
<1>1. TypeOK /\ ReadIsOld /\ [Next]_vars => (TypeOK /\ ReadIsOld)'
  <2> SUFFICES ASSUME TypeOK, ReadIsOld, [Next]_vars
               PROVE  (TypeOK /\ ReadIsOld)'
    OBVIOUS
  <2> USE Bounds DEF TypeOK, ReadIsOld, Saving, Copying, Moving, Goes, Ends, NoText, Text,
                     NoWish, Wish, files, Hosts, Names, Kinds, Tokens
  <2>1. CASE Fill
    BY <2>1 DEF Fill, Filled
  <2>2. CASE Protect
    BY <2>2 DEF Protect
  <2>3. ASSUME NEW rotate \in BOOLEAN, TokenCommand(rotate)
        PROVE  (TypeOK /\ ReadIsOld)'
    BY <2>3 DEF TokenCommand, Empty
  <2>4. ASSUME NEW h \in Hosts, NEW name \in Names, Begin(h, name)
        PROVE  (TypeOK /\ ReadIsOld)'
    BY <2>4 DEF Begin, Empty, NeedsToken
  <2>5. CASE Read
    BY <2>5 DEF Read
  <2>6. CASE Backup
    <3>1. backups' \in {backups, Kept} /\ step' \in {"sync", "truncate"}
      BY <2>6 DEF Backup
    <3>2. UNCHANGED <<config, token, sync, syncBackups, want, read, edited, synced, onboarded>>
      BY <2>6 DEF Backup
    <3> QED
      BY <2>6, <3>1, <3>2 DEF Backup, Kept
  <2>7. CASE Truncate
    BY <2>7 DEF Truncate
  <2>8. CASE Write
    BY <2>8, RenderingsTyped DEF Write
  <2>9. CASE Skip
    BY <2>9 DEF Skip
  <2>10. CASE Complete
    BY <2>10 DEF Complete
  <2>11. CASE ReadEntries
    BY <2>11 DEF ReadEntries
  <2>12. CASE Copy
    BY <2>12 DEF Copy
  <2>13. CASE Rename
    BY <2>13 DEF Rename
  <2>14. CASE Crash
    BY <2>14 DEF Crash
  <2>15. CASE UserEdits
    BY <2>15 DEF UserEdits
  <2>16. CASE UserProtects
    BY <2>16 DEF UserProtects
  <2>17. CASE SyncSaves
    BY <2>17 DEF SyncSaves
  <2>18. CASE Purge
    BY <2>18 DEF Purge
  <2>19. CASE UNCHANGED vars
    BY <2>19 DEF vars
  <2> QED
    BY <2>1, <2>2, <2>3, <2>4, <2>5, <2>6, <2>7, <2>8, <2>9, <2>10,
       <2>11, <2>12, <2>13, <2>14, <2>15, <2>16, <2>17, <2>18, <2>19
       DEF Next, Onboard, TokenSteps, SyncSteps, Others
<1> QED
  BY <1>1, ReadingInit, PTL DEF Spec

-----------------------------------------------------------------------------
(* Nothing has been edited yet.                                             *)
LEMMA KeepingInit == Init => CopiedFirst /\ SettingsKept
BY DEF Init, CopiedFirst, SettingsKept, NoText, Text, Saving, Moving

(* Nothing of the user or of NVIDIA Sync is lost, whichever steps of        *)
(* write_config and nvidia_sync._write a command gets to.                   *)
THEOREM SettingsAreKept == Spec => []SettingsKept
<1>1. TypeOK /\ ReadIsOld /\ CopiedFirst /\ SettingsKept /\ [Next]_vars
          => (CopiedFirst /\ SettingsKept)'
  <2> SUFFICES ASSUME TypeOK, ReadIsOld, CopiedFirst, SettingsKept, [Next]_vars
               PROVE  (CopiedFirst /\ SettingsKept)'
    OBVIOUS
  <2> USE DEF CopiedFirst, SettingsKept, Saving, Moving, Goes, Ends, files
  <2>1. CASE Fill
    BY <2>1 DEF Fill
  <2>2. CASE Protect
    BY <2>2 DEF Protect
  <2>3. ASSUME NEW rotate \in BOOLEAN, TokenCommand(rotate)
        PROVE  (CopiedFirst /\ SettingsKept)'
    BY <2>3 DEF TokenCommand
  <2>4. ASSUME NEW h \in Hosts, NEW name \in Names, Begin(h, name)
        PROVE  (CopiedFirst /\ SettingsKept)'
    BY <2>4 DEF Begin
  <2>5. CASE Read
    BY <2>5 DEF Read
  <2>6. CASE Backup
    BY <2>6, RenderingsTyped DEF Backup, Kept, ReadIsOld
  <2>7. CASE Truncate
    BY <2>7 DEF Truncate, Text
  <2>8. CASE Write
    BY <2>8, RenderingsTyped, Bounds DEF Write, ReadIsOld, TypeOK
  <2>9. CASE Skip
    BY <2>9 DEF Skip
  <2>10. CASE Complete
    BY <2>10 DEF Complete
  <2>11. CASE ReadEntries
    BY <2>11 DEF ReadEntries
  <2>12. CASE Copy
    BY <2>12 DEF Copy
  <2>13. CASE Rename
    BY <2>13 DEF Rename
  <2>14. CASE Crash
    BY <2>14 DEF Crash
  <2>15. CASE UserEdits
    BY <2>15, Bounds DEF UserEdits, Text, TypeOK
  <2>16. CASE UserProtects
    BY <2>16 DEF UserProtects
  <2>17. CASE SyncSaves
    BY <2>17 DEF SyncSaves
  <2>18. CASE Purge
    BY <2>18 DEF Purge, NoText, Text
  <2>19. CASE UNCHANGED vars
    BY <2>19 DEF vars
  <2> QED
    BY <2>1, <2>2, <2>3, <2>4, <2>5, <2>6, <2>7, <2>8, <2>9, <2>10,
       <2>11, <2>12, <2>13, <2>14, <2>15, <2>16, <2>17, <2>18, <2>19
       DEF Next, Onboard, TokenSteps, SyncSteps, Others
<1> QED
  BY <1>1, KeepingInit, OnboardingReads, PTL DEF Spec

-----------------------------------------------------------------------------
(* Nothing has been onboarded yet.                                          *)
LEMMA CompletingInit == Init => OnItsWay /\ OnboardedStarts
BY DEF Init, OnItsWay, OnboardedStarts, Alone

(* What an onboarding that ran to its end leaves, the service can start on, *)
(* whatever was cut short before it.                                        *)
THEOREM OnboardingStarts == Spec => []OnboardedStarts
<1>1. TypeOK /\ ReadIsOld /\ OnItsWay /\ OnboardedStarts /\ [Next]_vars
          => (OnItsWay /\ OnboardedStarts)'
  <2> SUFFICES ASSUME TypeOK, ReadIsOld, OnItsWay, OnboardedStarts, [Next]_vars
               PROVE  (OnItsWay /\ OnboardedStarts)'
    OBVIOUS
  <2> USE DEF OnItsWay, OnboardedStarts, Startable, Loads, Plain, Alone, Last, Saving, Goes, Ends,
              files
  <2>1. CASE Fill
    BY <2>1 DEF Fill, Filled
  <2>2. CASE Protect
    BY <2>2 DEF Protect
  <2>3. ASSUME NEW rotate \in BOOLEAN, TokenCommand(rotate)
        PROVE  (OnItsWay /\ OnboardedStarts)'
    BY <2>3 DEF TokenCommand, Empty
  <2>4. ASSUME NEW h \in Hosts, NEW name \in Names, Begin(h, name)
        PROVE  (OnItsWay /\ OnboardedStarts)'
    BY <2>4 DEF Begin, Wish, Empty, NeedsToken, Usable, TypeOK, Tokens
  <2>5. CASE Read
    BY <2>5 DEF Read
  <2>6. CASE Backup
    BY <2>6, RenderingsTyped DEF Backup
  <2>7. CASE Truncate
    BY <2>7 DEF Truncate
  <2>8. CASE Write
    BY <2>8, RenderingsTyped DEF Write
  <2>9. CASE Skip
    BY <2>9 DEF Skip
  <2>10. CASE Complete
    BY <2>10, Bounds DEF Complete, TypeOK, Hosts
  <2>11. CASE ReadEntries
    BY <2>11 DEF ReadEntries
  <2>12. CASE Copy
    BY <2>12 DEF Copy
  <2>13. CASE Rename
    BY <2>13 DEF Rename
  <2>14. CASE Crash
    BY <2>14 DEF Crash
  <2>15. CASE UserEdits
    BY <2>15 DEF UserEdits
  <2>16. CASE UserProtects
    BY <2>16 DEF UserProtects
  <2>17. CASE SyncSaves
    BY <2>17 DEF SyncSaves
  <2>18. CASE Purge
    BY <2>18 DEF Purge, NoText, Text
  <2>19. CASE UNCHANGED vars
    BY <2>19 DEF vars
  <2> QED
    BY <2>1, <2>2, <2>3, <2>4, <2>5, <2>6, <2>7, <2>8, <2>9, <2>10,
       <2>11, <2>12, <2>13, <2>14, <2>15, <2>16, <2>17, <2>18, <2>19
       DEF Next, Onboard, TokenSteps, SyncSteps, Others
<1> QED
  BY <1>1, CompletingInit, OnboardingReads, PTL DEF Spec

-----------------------------------------------------------------------------
(* The scripts touch the configuration, the token and custom.json by steps   *)
(* of Onboarding alone: what is proved of it holds with them around it.      *)
THEOREM ScriptsOnlyOnboard == AccountSpec => Spec
<1>1. AccountInit => Init
  BY DEF AccountInit
<1>2. [AccountNext]_<<vars, installation>> => [Next]_vars
  <2> SUFFICES ASSUME AccountNext, ~ UNCHANGED vars
               PROVE  Next
    BY DEF AccountNext
  <2>1. CASE Install
    BY <2>1 DEF Install, MakeVenv, Pip, Ln
  <2>2. CASE Onboarded
    <3>1. ASSUME NEW h \in Hosts, NEW name \in Names, NEW v \in {"default", "other", "build"},
                 StartOnboard(h, name, v)
          PROVE  Next
      BY <3>1 DEF StartOnboard, Next, Onboard
    <3>2. CASE Configure \/ ByHand \/ RenameSync
      BY <3>2 DEF Configure, ByHand, RenameSync, Next, Onboard, TokenSteps, SyncSteps
    <3>3. CASE FindLink \/ MakeLink \/ AppendLine
      BY <3>3 DEF FindLink, MakeLink, AppendLine
    <3>4. ASSUME NEW already \in BOOLEAN, Path(already)
          PROVE  Next
      BY <3>4 DEF Path
    <3>5. CASE InstallUnit
      BY <3>5 DEF InstallUnit, Leave, Next, Onboard
    <3>6. ASSUME NEW ok \in BOOLEAN, Enable(ok) \/ RestartUnit(ok)
          PROVE  Next
      BY <3>6 DEF Enable, RestartUnit, Leave, Next, Onboard
    <3> QED
      BY <2>2, <3>1, <3>2, <3>3, <3>4, <3>5, <3>6 DEF Onboarded
  <2>3. CASE Uninstalled
    BY <2>3 DEF Uninstalled, Uninstall, Disable, RemoveUnit, Unregister, SkipUnregister, Unlink,
                CopyShell, EmptyShell, FilterShell, Delete, PurgeData, Next, SyncSteps
  <2>4. CASE Outside
    BY <2>4 DEF Outside, Cut, Retry, Boot, Edits, SaveShell, Pull, Next, Others
  <2> QED
    BY <2>1, <2>2, <2>3, <2>4 DEF AccountNext
<1> QED
  BY <1>1, <1>2, PTL DEF AccountSpec, Spec

(* What the proofs use of the constants.                                     *)
LEMMA InstallationBounds == MaxReleases \in Nat /\ MaxReleases > 0
<1>1. MaxReleases \in Nat \ {0}
  BY InstallationAssumption
<1> QED
  BY <1>1

(* What ensure_on_path is given is a program, not a word of uninstall.sh.    *)
LinksProgram == doing \in {"onboard", "link"} => arg \in {"default", "other", "build"}

(* A service that is started runs a release, on a host there is.             *)
LEMMA StartedTyped ==
    ASSUME TypeOK, PlacesOK
    PROVE  Started \in [release : 0..MaxReleases, host : Hosts]
<1>1. Startable => Loads \in Hosts
  BY DEF Startable, Loads, TypeOK, Hosts, Kinds
<1> QED
  BY <1>1, InstallationBounds DEF Started, Silent, PlacesOK, Hosts

(* So does one that is not.                                                 *)
LEMMA SilentTyped == Silent \in [release : 0..MaxReleases, host : Hosts]
BY InstallationBounds DEF Silent, Hosts

(* The types of what the scripts work on.                                    *)
THEOREM InstallationTypeCorrect == AccountSpec => [](AccountTypeOK /\ LinksProgram)
<1>1. AccountInit => AccountTypeOK /\ LinksProgram
  <2> SUFFICES ASSUME AccountInit
               PROVE  AccountTypeOK /\ LinksProgram
    OBVIOUS
  <2> USE InstallationBounds DEF AccountInit, AccountTypeOK, LinksProgram
  <2>1. PlacesOK
    <3>1. release \in 1..MaxReleases /\ program \in 0..MaxReleases
      OBVIOUS
    <3>2. venv \in BOOLEAN /\ entry \in BOOLEAN
      OBVIOUS
    <3> QED
      BY <3>1, <3>2 DEF PlacesOK
  <2>2. SystemdOK
    BY SilentTyped DEF SystemdOK
  <2>3. ShellOK
    BY DEF ShellOK
  <2>4. ScriptOK /\ HistoryOK
    BY DEF ScriptOK, HistoryOK
  <2> QED
    BY <2>1, <2>2, <2>3, <2>4
<1>2. TypeOK /\ AccountTypeOK /\ LinksProgram /\ [AccountNext]_<<vars, installation>>
          => (AccountTypeOK /\ LinksProgram)'
  <2> SUFFICES ASSUME TypeOK, AccountTypeOK, LinksProgram, [AccountNext]_<<vars, installation>>
               PROVE  (AccountTypeOK /\ LinksProgram)'
    OBVIOUS
  <2> USE InstallationBounds
      DEF AccountTypeOK, PlacesOK, ShellOK, SystemdOK, ScriptOK, HistoryOK, LinksProgram,
          place, shell, systemd, history, script, count, Goto, Over, Afresh, Command, Mishap,
          Maybe, Leave, At
  <2>1. CASE Install
    <3>1. ASSUME NEW onboard \in BOOLEAN, MakeVenv(onboard)
          PROVE  (AccountTypeOK /\ LinksProgram)'
      <4>1. PlacesOK'
        BY <3>1 DEF MakeVenv
      <4>2. ShellOK'
        BY <3>1 DEF MakeVenv
      <4>3. SystemdOK'
        BY <3>1 DEF MakeVenv
      <4>4. (ScriptOK /\ LinksProgram)'
        BY <3>1 DEF MakeVenv
      <4>5. mishaps' \in Nat /\ commands' \in Nat
        BY <3>1 DEF MakeVenv
      <4>6. ~installed' /\ ~removed' /\ named' = "no"
        BY <3>1 DEF MakeVenv
      <4>7. installed' \in BOOLEAN /\ removed' \in BOOLEAN
        BY <3>1 DEF MakeVenv
      <4> QED
        BY <4>1, <4>2, <4>3, <4>4, <4>5, <4>6, <4>7
    <3>2. CASE Pip
      BY <3>2 DEF Pip
    <3>3. CASE Ln
      BY <3>3 DEF Ln
    <3> QED
      BY <2>1, <3>1, <3>2, <3>3 DEF Install
  <2>2. CASE Onboarded
    <3>1. ASSUME NEW h \in Hosts, NEW name \in Names, NEW v \in {"default", "other", "build"},
                 StartOnboard(h, name, v)
          PROVE  (AccountTypeOK /\ LinksProgram)'
      <4>1. PlacesOK'
        BY <3>1 DEF StartOnboard
      <4>2. ShellOK'
        BY <3>1 DEF StartOnboard
      <4>3. SystemdOK'
        BY <3>1 DEF StartOnboard
      <4>4. (ScriptOK /\ LinksProgram)'
        BY <3>1 DEF StartOnboard
      <4>5. mishaps' \in Nat /\ commands' \in Nat
        BY <3>1 DEF StartOnboard
      <4>6. ~installed' /\ ~removed' /\ named' = "no"
        BY <3>1 DEF StartOnboard
      <4>7. installed' \in BOOLEAN /\ removed' \in BOOLEAN
        BY <3>1 DEF StartOnboard
      <4> QED
        BY <4>1, <4>2, <4>3, <4>4, <4>5, <4>6, <4>7
    <3>2. CASE Configure
      BY <3>2 DEF Configure, installation
    <3>3. CASE ByHand
      BY <3>3 DEF ByHand
    <3>4. CASE RenameSync
      <4>1. (PlacesOK /\ SystemdOK)'
        BY <3>4 DEF RenameSync
      <4>2. (ShellOK /\ HistoryOK)'
        BY <3>4 DEF RenameSync
      <4>3. (ScriptOK /\ LinksProgram)'
        BY <3>4 DEF RenameSync
      <4> QED
        BY <4>1, <4>2, <4>3
    <3>5. CASE FindLink
      BY <3>5 DEF FindLink
    <3>6. CASE MakeLink
      BY <3>6 DEF MakeLink
    <3>7. CASE AppendLine
      BY <3>7 DEF AppendLine, LineIn
    <3>8. ASSUME NEW already \in BOOLEAN, Path(already)
          PROVE  (AccountTypeOK /\ LinksProgram)'
      <4>1. (PlacesOK /\ SystemdOK)'
        BY <3>8 DEF Path, Targets, ShellFiles, LoginFiles
      <4>2. (ShellOK /\ HistoryOK)'
        BY <3>8 DEF Path, Targets, ShellFiles, LoginFiles
      <4>3. (ScriptOK /\ LinksProgram)'
        BY <3>8 DEF Path, Targets, ShellFiles, LoginFiles
      <4> QED
        BY <4>1, <4>2, <4>3
    <3>9. CASE InstallUnit
      <4>1. (PlacesOK /\ SystemdOK)'
        BY <3>9 DEF InstallUnit
      <4>2. (ShellOK /\ HistoryOK)'
        BY <3>9 DEF InstallUnit
      <4>3. (ScriptOK /\ LinksProgram)'
        BY <3>9 DEF InstallUnit
      <4> QED
        BY <4>1, <4>2, <4>3
    <3>10. ASSUME NEW ok \in BOOLEAN, Enable(ok)
           PROVE  (AccountTypeOK /\ LinksProgram)'
      <4>1. (PlacesOK /\ SystemdOK)'
        BY <3>10, StartedTyped DEF Enable
      <4>2. (ShellOK /\ HistoryOK)'
        BY <3>10 DEF Enable
      <4>3. (ScriptOK /\ LinksProgram)'
        BY <3>10 DEF Enable
      <4> QED
        BY <4>1, <4>2, <4>3
    <3>11. ASSUME NEW ok \in BOOLEAN, RestartUnit(ok)
           PROVE  (AccountTypeOK /\ LinksProgram)'
      BY <3>11, StartedTyped, SilentTyped DEF RestartUnit
    <3> QED
      BY <2>2, <3>1, <3>2, <3>3, <3>4, <3>5, <3>6, <3>7, <3>8, <3>9, <3>10, <3>11 DEF Onboarded
  <2>3. CASE Uninstalled
    <3>1. ASSUME NEW mode \in {"keep", "purge"}, Uninstall(mode)
          PROVE  (AccountTypeOK /\ LinksProgram)'
      <4>1. PlacesOK'
        BY <3>1 DEF Uninstall
      <4>2. ShellOK'
        BY <3>1 DEF Uninstall
      <4>3. SystemdOK'
        BY <3>1 DEF Uninstall
      <4>4. (ScriptOK /\ LinksProgram)'
        BY <3>1 DEF Uninstall
      <4>5. mishaps' \in Nat /\ commands' \in Nat
        BY <3>1 DEF Uninstall
      <4>6. ~installed' /\ ~removed' /\ named' = "no"
        BY <3>1 DEF Uninstall
      <4>7. installed' \in BOOLEAN /\ removed' \in BOOLEAN
        BY <3>1 DEF Uninstall
      <4> QED
        BY <4>1, <4>2, <4>3, <4>4, <4>5, <4>6, <4>7
    <3>2. ASSUME NEW ok \in BOOLEAN, Disable(ok)
          PROVE  (AccountTypeOK /\ LinksProgram)'
      <4>1. (PlacesOK /\ SystemdOK)'
        BY <3>2, SilentTyped DEF Disable
      <4>2. (ShellOK /\ HistoryOK)'
        BY <3>2 DEF Disable
      <4>3. (ScriptOK /\ LinksProgram)'
        BY <3>2 DEF Disable
      <4> QED
        BY <4>1, <4>2, <4>3
    <3>3. CASE RemoveUnit
      <4>1. (PlacesOK /\ SystemdOK)'
        BY <3>3 DEF RemoveUnit
      <4>2. (ShellOK /\ HistoryOK)'
        BY <3>3 DEF RemoveUnit
      <4>3. (ScriptOK /\ LinksProgram)'
        BY <3>3 DEF RemoveUnit
      <4> QED
        BY <4>1, <4>2, <4>3
    <3>4. CASE Unregister
      BY <3>4 DEF Unregister
    <3>5. CASE SkipUnregister
      BY <3>5 DEF SkipUnregister
    <3>6. CASE Unlink
      BY <3>6 DEF Unlink, NextFile, Cleaned, ShellFiles, LoginFiles, InteractiveFiles
    <3>7. CASE CopyShell
      <4>1. Current \in todo
        BY <3>7 DEF CopyShell, Current
      <4>2. ShellOK'
        BY <3>7, <4>1 DEF CopyShell
      <4>3. PlacesOK' /\ SystemdOK' /\ HistoryOK'
        BY <3>7 DEF CopyShell
      <4>4. (ScriptOK /\ LinksProgram)'
        BY <3>7 DEF CopyShell
      <4> QED
        BY <4>2, <4>3, <4>4
    <3>8. CASE EmptyShell
      <4>1. (PlacesOK /\ SystemdOK)'
        BY <3>8 DEF EmptyShell
      <4>2. (ShellOK /\ HistoryOK)'
        BY <3>8 DEF EmptyShell
      <4>3. (ScriptOK /\ LinksProgram)'
        BY <3>8 DEF EmptyShell
      <4> QED
        BY <4>1, <4>2, <4>3
    <3>9. CASE FilterShell
      <4>1. (PlacesOK /\ SystemdOK)'
        BY <3>9 DEF FilterShell, NextFile
      <4>2. (ShellOK /\ HistoryOK)'
        BY <3>9 DEF FilterShell, NextFile
      <4>3. (ScriptOK /\ LinksProgram)'
        BY <3>9 DEF FilterShell, NextFile
      <4> QED
        BY <4>1, <4>2, <4>3
    <3>10. CASE Delete
      <4>1. PlacesOK'
        <5>1. program' = 0 /\ venv' \in BOOLEAN
          BY <3>10 DEF Delete
        <5>2. UNCHANGED <<release, link, entry>>
          BY <3>10 DEF Delete
        <5> QED
          BY <5>1, <5>2
      <4>2. ShellOK'
        BY <3>10 DEF Delete
      <4>3. SystemdOK'
        BY <3>10 DEF Delete
      <4>4. (ScriptOK /\ LinksProgram)'
        BY <3>10 DEF Delete
      <4>5. HistoryOK'
        BY <3>10 DEF Delete
      <4> QED
        BY <4>1, <4>2, <4>3, <4>4, <4>5
    <3>11. CASE PurgeData
      BY <3>11 DEF PurgeData
    <3> QED
      BY <2>3, <3>1, <3>2, <3>3, <3>4, <3>5, <3>6, <3>7, <3>8, <3>9, <3>10, <3>11
         DEF Uninstalled
  <2>4. CASE Outside
    <3>1. CASE Cut
      <4>1. (PlacesOK /\ SystemdOK)'
        BY <3>1 DEF Cut
      <4>2. (ShellOK /\ HistoryOK)'
        BY <3>1 DEF Cut
      <4>3. (ScriptOK /\ LinksProgram)'
        BY <3>1 DEF Cut
      <4> QED
        BY <4>1, <4>2, <4>3
    <3>2. CASE Retry \/ Boot
      BY <3>2, StartedTyped, SilentTyped DEF Retry, Boot
    <3>3. CASE Edits
      BY <3>3 DEF Edits, installation
    <3>4. ASSUME NEW f \in ShellFiles, SaveShell(f)
          PROVE  (AccountTypeOK /\ LinksProgram)'
      BY <3>4 DEF SaveShell
    <3>5. CASE Pull
      BY <3>5 DEF Pull
    <3> QED
      BY <2>4, <3>1, <3>2, <3>3, <3>4, <3>5 DEF Outside
  <2>5. CASE UNCHANGED <<vars, installation>>
    BY <2>5 DEF installation
  <2> QED
    BY <2>1, <2>2, <2>3, <2>4, <2>5 DEF AccountNext
<1> QED
  BY <1>1, <1>2, ScriptsOnlyOnboard, OnboardingReads, PTL DEF AccountSpec

-----------------------------------------------------------------------------
(* A shell file is emptied only when it has been copied.                     *)
CopiedBefore ==
    doing \in {"empty", "filter"} => todo # {} /\ Current \in saved \cup again

(* However an uninstall is cut short, and whatever is installed, onboarded   *)
(* or edited in between: the user's part of a shell file is not lost.        *)
THEOREM ShellTextIsKept == AccountSpec => [](CopiedBefore /\ ShellTextKept)
<1>1. AccountInit => CopiedBefore /\ ShellTextKept
  BY DEF AccountInit, CopiedBefore, ShellTextKept
<1>2. AccountTypeOK /\ CopiedBefore /\ ShellTextKept /\ [AccountNext]_<<vars, installation>>
          => (CopiedBefore /\ ShellTextKept)'
  <2> SUFFICES ASSUME AccountTypeOK, CopiedBefore, ShellTextKept,
                      [AccountNext]_<<vars, installation>>
               PROVE  (CopiedBefore /\ ShellTextKept)'
    OBVIOUS
  <2> USE DEF CopiedBefore, ShellTextKept, At, Goto, Over, Free, Current
  <2>1. ASSUME UNCHANGED shell, doing' \notin {"empty", "filter"} \/ UNCHANGED <<doing, todo>>
        PROVE  (CopiedBefore /\ ShellTextKept)'
    BY <2>1 DEF shell
  <2>2. CASE Install
    BY <2>1, <2>2 DEF Install, MakeVenv, Pip, Ln
  <2>3. CASE Onboarded /\ ~AppendLine
    BY <2>1, <2>3 DEF Onboarded, StartOnboard, Configure, ByHand, RenameSync, FindLink, MakeLink,
       Path, InstallUnit, Enable, RestartUnit, Leave, installation, script
  <2>4. CASE AppendLine
    <3>1. \A f \in ShellFiles : text'[f] \in {"torn", "torn_line"} => text[f] \in {"torn", "torn_line"}
      BY <2>4 DEF AppendLine, LineIn, AccountTypeOK, ShellOK
    <3> QED
      BY <2>4, <3>1 DEF AppendLine
  <2>5. CASE Uninstalled /\ ~CopyShell /\ ~EmptyShell /\ ~FilterShell
    BY <2>1, <2>5 DEF Uninstalled, Uninstall, Disable, RemoveUnit, Unregister, SkipUnregister,
       Unlink, NextFile, Delete, PurgeData
  <2>6. CASE CopyShell
    BY <2>6 DEF CopyShell, AccountTypeOK, ShellOK, ScriptOK
  <2>7. CASE EmptyShell
    BY <2>7 DEF EmptyShell, AccountTypeOK, ShellOK
  <2>8. CASE FilterShell
    BY <2>8 DEF FilterShell, NextFile, AccountTypeOK, ShellOK
  <2>9. ASSUME NEW f \in ShellFiles, SaveShell(f)
        PROVE  (CopiedBefore /\ ShellTextKept)'
    BY <2>9 DEF SaveShell, AccountTypeOK, ShellOK, script
  <2>10. CASE Cut \/ Retry \/ Boot \/ Edits \/ Pull
    BY <2>1, <2>10 DEF Cut, Retry, Boot, Edits, Pull, installation, script
  <2>11. CASE UNCHANGED <<vars, installation>>
    BY <2>1, <2>11 DEF installation, script
  <2> QED
    BY <2>2, <2>3, <2>4, <2>5, <2>6, <2>7, <2>8, <2>9, <2>10, <2>11 DEF AccountNext, Outside
<1> QED
  BY <1>1, <1>2, InstallationTypeCorrect, PTL DEF AccountSpec

-----------------------------------------------------------------------------
Installing == {"pip", "pip_only", "hand_over", "ln"}
Linking    == {"onboard", "link", "path", "append"}
Starting   == {"unit", "enable", "restart"}
Cleaning   == {"clean", "empty", "filter"}
Removing   == Cleaning \cup {"delete", "purge"}

(* Where the program is when something is made of it.                        *)
ProgramThere ==
    /\ program > 0 \/ doing \in Installing => venv
    /\ doing \in {"hand_over", "ln"} => program > 0
    /\ doing \in Linking \cup Starting /\ arg = "default" => program > 0
    /\ link = "default" => venv
    /\ link # "build"
    /\ doing \in Removing => link # "default"
    /\ doing = "link" => Lasting(arg)
    /\ doing \in {"path", "append"} => link = arg /\ arg \in {"default", "other"}

(* What an onboarding has said of the command, and is about to say.          *)
NameFound ==
    /\ named # "no" => doing \in {"idle"} \cup Starting
    /\ named # "no" => link \in {"default", "other"} /\ (link = "default" => program > 0)
    /\ doing = "append" => todo # {} /\ todo \subseteq Targets
    /\ doing = "append" => \A f \in Targets \ todo : HasLine(f)
    /\ named = "files" => \A f \in Targets : HasLine(f)

(* Among the files the onboarding looks at are those a shell of an ordinary  *)
(* account reads: with the line in all of the former it is in one of these.  *)
LEMMA TargetsRead ==
    ASSUME AccountTypeOK, \A f \in Targets : HasLine(f), Ordinary
    PROVE  \E f \in Reads : HasLine(f)
BY DEF AccountTypeOK, ShellOK, Targets, HasLine, There, Ordinary, Reads, ShellFiles, LoginFiles,
   InteractiveFiles

(* Nothing is made of a program that is not there, and what is linked to one *)
(* is unlinked before it goes.                                               *)
THEOREM ProgramStays == AccountSpec => [](ProgramThere /\ NameFound)
<1> DEFINE Inv == ProgramThere /\ NameFound
<1>1. AccountInit => Inv
  BY DEF AccountInit, ProgramThere, NameFound, Installing, Linking, Starting, Cleaning, Removing
<1>2. AccountTypeOK /\ LinksProgram /\ Inv /\ [AccountNext]_<<vars, installation>> => Inv'
  <2> SUFFICES ASSUME AccountTypeOK, LinksProgram, Inv, [AccountNext]_<<vars, installation>>
               PROVE  Inv'
    OBVIOUS
  <2> USE InstallationBounds
      DEF ProgramThere, NameFound, Installing, Linking, Starting, Cleaning, Removing, At, Goto, Over, Afresh, Free
  <2>1. ASSUME UNCHANGED <<place, text>>, UNCHANGED <<doing, arg, todo>> \/ doing' = "idle",
               UNCHANGED named \/ named' = "no"
        PROVE  Inv'
    BY <2>1 DEF place, Targets, HasLine, There
  <2>2. CASE Install
    <3>1. ASSUME NEW onboard \in BOOLEAN, MakeVenv(onboard)
          PROVE  Inv'
      BY <3>1 DEF MakeVenv, AccountTypeOK, PlacesOK
    <3>2. CASE Pip
      BY <3>2 DEF Pip, AccountTypeOK, PlacesOK, history
    <3>3. CASE Ln
      BY <3>3 DEF Ln, AccountTypeOK, PlacesOK, history
    <3> QED
      BY <2>2, <3>1, <3>2, <3>3 DEF Install
  <2>3. CASE Onboarded
    <3>1. ASSUME NEW h \in Hosts, NEW name \in Names, NEW v \in {"default", "other", "build"},
                 StartOnboard(h, name, v)
          PROVE  Inv'
      BY <3>1 DEF StartOnboard, place
    <3>2. CASE Configure \/ ByHand \/ RenameSync
      BY <2>1, <3>2 DEF Configure, ByHand, RenameSync, installation, shell, script, history
    <3>3. CASE FindLink
      BY <3>3 DEF FindLink, LinksProgram, history, Lasting
    <3>4. CASE MakeLink
      BY <3>4 DEF MakeLink, LinksProgram, history, Lasting
    <3>5. ASSUME NEW already \in BOOLEAN, Path(already)
          PROVE  Inv'
      BY <3>5 DEF Path, place, shell, Targets, HasLine, There
    <3>6. CASE AppendLine
      <4>1. \A f \in ShellFiles : HasLine(f) => HasLine(f)'
        BY <3>6 DEF AppendLine, HasLine, LineIn, AccountTypeOK, ShellOK
      <4>2. Targets' \subseteq Targets
        BY <3>6 DEF AppendLine, LineIn, AccountTypeOK, ShellOK, Targets, There, ShellFiles,
           LoginFiles, InteractiveFiles
      <4>3. PICK f \in todo :
               /\ text' = [text EXCEPT ![f] = LineIn(@)] /\ todo' = todo \ {f}
               /\ IF todo = {f} THEN Goto("unit") /\ named' = "files"
                  ELSE UNCHANGED <<doing, arg, obeyed, named>>
        BY <3>6 DEF AppendLine
      <4>4. HasLine(f)'
        BY <4>3 DEF HasLine, LineIn, AccountTypeOK, ShellOK, ScriptOK
      <4>5. Targets \subseteq ShellFiles
        BY DEF Targets, ShellFiles, LoginFiles
      <4>6. \A g \in Targets' \ todo' : HasLine(g)'
        BY <3>6, <4>1, <4>2, <4>3, <4>4, <4>5 DEF AppendLine
      <4>7. todo' # {} => todo' \subseteq Targets'
        <5>1. \A g \in ShellFiles : There(g) => There(g)'
          BY <3>6 DEF AppendLine, There, LineIn, AccountTypeOK, ShellOK
        <5>2. f \in Targets
          BY <3>6 DEF AppendLine
        <5>3. \A g \in ShellFiles \ {f} : There(g)' <=> There(g)
          BY <4>3 DEF There, AccountTypeOK, ShellOK
        <5>4. Targets \ {f} \subseteq Targets'
          BY <5>1, <5>2, <5>3, <4>5 DEF Targets, ShellFiles, LoginFiles
        <5> QED
          BY <5>4, <4>3, <3>6 DEF AppendLine
      <4>8. UNCHANGED place /\ doing = "append"
        BY <3>6 DEF AppendLine
      <4>9. ProgramThere'
        BY <4>3, <4>8 DEF place
      <4>10. NameFound'
        BY <4>3, <4>6, <4>7, <4>8, <4>9 DEF place
      <4> QED
        BY <4>9, <4>10
    <3>7. CASE InstallUnit \/ \E ok \in BOOLEAN : Enable(ok) \/ RestartUnit(ok)
      BY <3>7 DEF InstallUnit, Enable, RestartUnit, Leave, place, shell, history, Targets, HasLine,
         There
    <3> QED
      BY <2>3, <3>1, <3>2, <3>3, <3>4, <3>5, <3>6, <3>7 DEF Onboarded
  <2>4. CASE Uninstalled
    <3>1. CASE \/ \E mode \in {"keep", "purge"} : Uninstall(mode)
               \/ \E ok \in BOOLEAN : Disable(ok)
               \/ RemoveUnit \/ Unregister \/ SkipUnregister
      BY <3>1 DEF Uninstall, Disable, RemoveUnit, Unregister, SkipUnregister, place, history
    <3>2. CASE Unlink
      BY <3>2 DEF Unlink, NextFile, history
    <3>3. CASE CopyShell \/ EmptyShell \/ FilterShell
      BY <3>3 DEF CopyShell, EmptyShell, FilterShell, NextFile, place, history
    <3>4. CASE Delete \/ PurgeData
      BY <3>4 DEF Delete, PurgeData, place
    <3> QED
      BY <2>4, <3>1, <3>2, <3>3, <3>4 DEF Uninstalled
  <2>5. CASE Outside
    <3>1. CASE Cut \/ Retry \/ Boot \/ Edits
      BY <2>1, <3>1 DEF Cut, Retry, Boot, Edits, installation, shell, script, history
    <3>2. CASE Pull
      BY <3>2 DEF Pull, shell, script, history, Targets, HasLine, There
    <3>3. ASSUME NEW f \in ShellFiles, SaveShell(f)
          PROVE  Inv'
      BY <3>3 DEF SaveShell, place, script
    <3> QED
      BY <2>5, <3>1, <3>2, <3>3 DEF Outside
  <2>6. CASE UNCHANGED <<vars, installation>>
    BY <2>1, <2>6 DEF installation, shell, script, history
  <2> QED
    BY <2>2, <2>3, <2>4, <2>5, <2>6 DEF AccountNext
<1> QED
  BY <1>1, <1>2, InstallationTypeCorrect, PTL DEF AccountSpec

(* Wherever installations, onboardings and uninstalls stop, the command has  *)
(* the name it was said to have, and the link does not outlive the program.  *)
THEOREM CommandIsFound == AccountSpec => []RunnableByName
<1>1. AccountTypeOK /\ ProgramThere /\ NameFound => RunnableByName
  BY TargetsRead DEF ProgramThere, NameFound, RunnableByName
<1> QED
  BY <1>1, ProgramStays, InstallationTypeCorrect, PTL

-----------------------------------------------------------------------------
(* What each step of an uninstall finds done.                                *)
Undone ==
    /\ doing \in {"rm_unit", "unregister", "child", "unlink"} \cup Removing /\ obeyed =>
           ~enabled /\ service = Silent
    /\ doing \in {"unregister", "child", "unlink"} \cup Removing => ~unit
    /\ doing \in {"unlink"} \cup Removing /\ obeyed => ~entry
    /\ doing \in Cleaning => \A f \in Cleaned : HasLine(f) => f \in todo
    /\ doing = "filter" => ~HasLine(Current)
    /\ doing \in {"delete", "purge"} => \A f \in Cleaned : ~HasLine(f)
    /\ doing = "purge" => ~venv /\ program = 0
    /\ removed => doing = "idle"

(* An uninstall that came to its end has undone whatever there was, in       *)
(* whatever order installs, onboardings and uninstalls were cut short before *)
(* it.                                                                       *)
THEOREM NothingIsLeft == AccountSpec => []RemovedIsGone
<1> DEFINE Inv == Undone /\ RemovedIsGone
<1>1. AccountInit => Inv
  BY DEF AccountInit, Undone, RemovedIsGone, Removing, Cleaning
<1>2. /\ AccountTypeOK /\ ProgramThere /\ CopiedBefore /\ Inv
      /\ [AccountNext]_<<vars, installation>>
      => Inv'
  <2> SUFFICES ASSUME AccountTypeOK, ProgramThere, CopiedBefore, Inv,
                      [AccountNext]_<<vars, installation>>
               PROVE  Inv'
    OBVIOUS
  <2> USE DEF Undone, RemovedIsGone, Removing, Cleaning, At, Goto, Over, Afresh, Free
  <2>1. ASSUME UNCHANGED <<place, systemd, text, entry, todo, removed, obeyed, doing>>
        PROVE  Inv'
    BY <2>1 DEF place, systemd, HasLine, Current
  <2>2. CASE Install
    BY <2>2 DEF Install, MakeVenv, Pip, Ln, history
  <2>3. CASE Onboarded
    <3>1. CASE \E h \in Hosts, name \in Names, v \in {"default", "other", "build"} :
                 StartOnboard(h, name, v)
      BY <3>1 DEF StartOnboard
    <3>2. CASE Configure \/ ByHand
      BY <2>1, <3>2 DEF Configure, ByHand, installation, shell, script, history
    <3>3. CASE RenameSync
      BY <3>3 DEF RenameSync, place, shell, systemd, script, HasLine, Current, AccountTypeOK, PlacesOK, HistoryOK
    <3>4. CASE FindLink \/ MakeLink \/ AppendLine \/ \E already \in BOOLEAN : Path(already)
      BY <3>4 DEF FindLink, MakeLink, AppendLine, Path, history
    <3>5. CASE InstallUnit \/ \E ok \in BOOLEAN : Enable(ok) \/ RestartUnit(ok)
      BY <3>5 DEF InstallUnit, Enable, RestartUnit, Leave, history
    <3> QED
      BY <2>3, <3>1, <3>2, <3>3, <3>4, <3>5 DEF Onboarded
  <2>4. CASE Uninstalled
    <3>1. CASE \E mode \in {"keep", "purge"} : Uninstall(mode)
      BY <3>1 DEF Uninstall
    <3>2. ASSUME NEW ok \in BOOLEAN, Disable(ok)
          PROVE  Inv'
      <4>1. obeyed' => ~enabled' /\ service' = Silent
        BY <3>2 DEF Disable, AccountTypeOK, SystemdOK
      <4>2. doing' = "rm_unit" /\ ~removed'
        BY <3>2 DEF Disable, history
      <4> QED
        BY <4>1, <4>2
    <3>3. CASE RemoveUnit
      BY <3>3 DEF RemoveUnit, history
    <3>4. CASE Unregister
      BY <3>4 DEF Unregister, history, systemd
    <3>5. CASE SkipUnregister
      BY <3>5 DEF SkipUnregister, history, systemd, AccountTypeOK, PlacesOK, ScriptOK
    <3>6. CASE Unlink
      BY <3>6 DEF Unlink, NextFile, history, systemd, shell, HasLine, Cleaned
    <3>7. CASE CopyShell
      BY <3>7 DEF CopyShell, place, history, systemd, HasLine, Cleaned
    <3>8. CASE EmptyShell
      <4>1. Current \in todo /\ todo \subseteq ShellFiles
        BY <3>8 DEF EmptyShell, CopiedBefore, Current, AccountTypeOK, ScriptOK
      <4>2. ~HasLine(Current)'
        BY <3>8, <4>1 DEF EmptyShell, HasLine, Current, AccountTypeOK, ShellOK
      <4>3. \A f \in Cleaned : HasLine(f)' => HasLine(f)
        BY <3>8, <4>1 DEF EmptyShell, HasLine, AccountTypeOK, ShellOK, Cleaned, ShellFiles,
           LoginFiles, InteractiveFiles
      <4>4. /\ doing = "empty" /\ doing' = "filter" /\ ~removed'
            /\ UNCHANGED <<todo, obeyed, unit, enabled, service, entry>>
        BY <3>8 DEF EmptyShell, systemd, history
      <4> QED
        BY <4>2, <4>3, <4>4
    <3>9. CASE FilterShell
      <4>1. Current \in todo /\ todo \subseteq ShellFiles
        BY <3>9 DEF FilterShell, CopiedBefore, Current, AccountTypeOK, ScriptOK
      <4>2. \A f \in Cleaned : HasLine(f)' => HasLine(f) /\ f # Current
        BY <3>9, <4>1 DEF FilterShell, HasLine, AccountTypeOK, ShellOK, Cleaned, ShellFiles,
           LoginFiles, InteractiveFiles
      <4>3. /\ doing = "filter" /\ ~removed'
            /\ UNCHANGED <<obeyed, unit, enabled, service, entry>>
            /\ todo' = todo \ {Current}
            /\ doing' = IF todo' = {} THEN "delete" ELSE "clean"
        BY <3>9 DEF FilterShell, NextFile, systemd, history
      <4> QED
        BY <4>2, <4>3
    <3>10. CASE Delete
      <4>1. \A f \in ShellFiles \ {".zprofile"} : ~HasLine(f)'
        BY <3>10 DEF Delete, shell, HasLine, Cleaned, ShellFiles, LoginFiles, InteractiveFiles
      <4>2. \A f \in Cleaned : ~HasLine(f)'
        BY <3>10 DEF Delete, shell, HasLine
      <4>3. /\ ~venv' /\ program' = 0 /\ UNCHANGED <<link, unit, enabled, service, entry>>
            /\ \/ doing' = "purge" /\ UNCHANGED <<obeyed, removed>>
               \/ doing' = "idle" /\ removed' = obeyed
        BY <3>10 DEF Delete, systemd
      <4>4. doing = "delete" /\ link \notin {"default", "build"}
        BY <3>10 DEF Delete, ProgramThere
      <4> QED
        BY <4>1, <4>2, <4>3, <4>4
    <3>11. CASE PurgeData
      <4>1. \A f \in ShellFiles \ {".zprofile"} : ~HasLine(f)'
        BY <3>11 DEF PurgeData, shell, HasLine, Cleaned, ShellFiles, LoginFiles, InteractiveFiles
      <4>2. /\ UNCHANGED <<venv, program, link, unit, enabled, service, entry>>
            /\ doing' = "idle" /\ removed' = obeyed
        BY <3>11 DEF PurgeData, place, systemd
      <4>3. doing = "purge" /\ link \notin {"default", "build"}
        BY <3>11 DEF PurgeData, ProgramThere
      <4> QED
        BY <4>1, <4>2, <4>3
    <3> QED
      BY <2>4, <3>1, <3>2, <3>3, <3>4, <3>5, <3>6, <3>7, <3>8, <3>9, <3>10, <3>11
         DEF Uninstalled
  <2>5. CASE Outside
    <3>1. CASE Cut
      BY <3>1 DEF Cut, place, shell, systemd, history, script, HasLine, Current
    <3>2. CASE Retry \/ Boot
      BY <3>2 DEF Retry, Boot, place, shell, history, script, HasLine, Current
    <3>3. CASE Edits
      BY <2>1, <3>3 DEF Edits, installation, shell, script, history
    <3>4. CASE Pull
      BY <3>4 DEF Pull, shell, systemd, history, script, HasLine, Current
    <3>5. ASSUME NEW f \in ShellFiles, SaveShell(f)
          PROVE  Inv'
      BY <3>5 DEF SaveShell, place, systemd, script, HasLine, AccountTypeOK, ShellOK
    <3> QED
      BY <2>5, <3>1, <3>2, <3>3, <3>4, <3>5 DEF Outside
  <2>6. CASE UNCHANGED <<vars, installation>>
    BY <2>1, <2>6 DEF installation, shell, script, history
  <2> QED
    BY <2>2, <2>3, <2>4, <2>5, <2>6 DEF AccountNext
<1> QED
  BY <1>1, <1>2, InstallationTypeCorrect, ProgramStays, ShellTextIsKept, PTL DEF AccountSpec

-----------------------------------------------------------------------------
(* A service is said to be started at the end of an onboarding alone, which  *)
(* has enabled it, and it stays enabled until the next command.              *)
KeptEnabled ==
    /\ doing = "enable"  => unit
    /\ doing = "restart" => unit /\ enabled
    /\ installed => doing = "idle" /\ unit /\ enabled

(* A configuration that says nothing of the host has the loopback.           *)
HostByDefault == config.kind \in {"absent", "empty"} => config.host = "loopback"

(* A service that can start and is started runs what is installed, where the *)
(* configuration says.                                                       *)
LEMMA StartedRuns ==
    ASSUME TypeOK, HostByDefault, Startable, program > 0
    PROVE  Started = [release |-> program, host |-> config.host]
<1>1. Loads = config.host
  BY DEF Loads, Startable, TypeOK, HostByDefault, Kinds
<1> QED
  BY <1>1 DEF Started

(* No step of Onboarding writes a configuration without a host that is not   *)
(* on the loopback.                                                          *)
LEMMA HostStays ==
    ASSUME TypeOK, ReadIsOld, HostByDefault, [Next]_vars
    PROVE  HostByDefault'
<1> USE DEF HostByDefault
<1>1. CASE UNCHANGED config
  BY <1>1
<1>2. CASE Truncate
  BY <1>2 DEF Truncate, Text
<1>3. CASE Write
  BY <1>3, RenderingsTyped DEF Write, Saving
<1>4. CASE Purge
  BY <1>4 DEF Purge, NoText, Text
<1>5. CASE UserEdits
  BY <1>5 DEF UserEdits, Text
<1>6. [Next]_vars => UNCHANGED config \/ Truncate \/ Write \/ Purge \/ UserEdits
  BY DEF Next, Onboard, TokenSteps, SyncSteps, Others, vars, files, Begin, Read, Backup, Skip,
     Complete, Fill, Protect, TokenCommand, ReadEntries, Copy, Rename, Crash, UserProtects, SyncSaves
<1> QED
  BY <1>1, <1>2, <1>3, <1>4, <1>5, <1>6

(* A service said to be started is the installed release, with the host that *)
(* was asked for, over boots and retries, until somebody changes either.     *)
THEOREM StartedStaysUp == AccountSpec => []OnboardedRuns
<1> DEFINE Inv == KeptEnabled /\ HostByDefault /\ OnboardedRuns
<1>1. AccountInit => Inv
  BY DEF AccountInit, Init, KeptEnabled, HostByDefault, OnboardedRuns, NoText, Text
<1>2. /\ TypeOK /\ ReadIsOld /\ [Next]_vars /\ OnboardedStarts' /\ Inv
      /\ [AccountNext]_<<vars, installation>>
      => Inv'
  <2> SUFFICES ASSUME TypeOK, ReadIsOld, [Next]_vars, OnboardedStarts', Inv,
                      [AccountNext]_<<vars, installation>>
               PROVE  (KeptEnabled /\ OnboardedRuns)'
    BY HostStays
  <2> USE DEF KeptEnabled, OnboardedRuns, At, Goto, Over, Afresh, Free
  <2>1. ASSUME UNCHANGED <<config, enabled, unit, service, program>>,
               UNCHANGED doing \/ doing' = "idle", UNCHANGED installed \/ ~installed',
               onboarded' = "yes" => onboarded = "yes"
        PROVE  (KeptEnabled /\ OnboardedRuns)'
    BY <2>1
  <2>2. ASSUME ~installed \/ ~installed', installed' => installed,
               doing' \notin {"enable", "restart"}
        PROVE  (KeptEnabled /\ OnboardedRuns)'
    BY <2>2
  <2>3. CASE Install
    BY <2>2, <2>3 DEF Install, MakeVenv, Pip, Ln, history
  <2>4. CASE Onboarded
    <3>1. CASE \E h \in Hosts, name \in Names, v \in {"default", "other", "build"} :
                 StartOnboard(h, name, v)
      BY <2>2, <3>1 DEF StartOnboard
    <3>2. CASE FindLink \/ MakeLink \/ AppendLine \/ \E already \in BOOLEAN : Path(already)
      BY <2>2, <3>2 DEF FindLink, MakeLink, AppendLine, Path, history
    <3>3. CASE Configure \/ ByHand
      BY <2>1, <3>3 DEF Configure, ByHand, Fill, Protect, Copy, Read, Backup, Truncate, Write, Skip,
         ReadEntries, TokenCommand, installation, place, shell, systemd, history, script, files
    <3>4. CASE RenameSync
      BY <2>1, <3>4 DEF RenameSync, Rename, place, systemd, script
    <3>5. CASE InstallUnit
      BY <3>5 DEF InstallUnit, Leave, history
    <3>6. ASSUME NEW ok \in BOOLEAN, Enable(ok)
          PROVE  (KeptEnabled /\ OnboardedRuns)'
      BY <3>6 DEF Enable, Leave, history
    <3>7. ASSUME NEW ok \in BOOLEAN, RestartUnit(ok)
          PROVE  (KeptEnabled /\ OnboardedRuns)'
      <4>1. KeptEnabled'
        BY <3>7 DEF RestartUnit, Leave
      <4>2. SUFFICES ASSUME onboarded' = "yes", installed', program' > 0
                     PROVE  service' = [release |-> program', host |-> config'.host]
        BY <4>1
      <4>3. UNCHANGED <<config, token, program>> /\ service' = Started
        BY <3>7, <4>2 DEF RestartUnit, Leave, Complete, files, place
      <4>4. Startable
        BY <4>2, <4>3 DEF OnboardedStarts, Startable, Loads
      <4> QED
        BY <4>2, <4>3, <4>4, StartedRuns
    <3> QED
      BY <2>4, <3>1, <3>2, <3>3, <3>4, <3>5, <3>6, <3>7 DEF Onboarded
  <2>5. CASE Uninstalled
    <3>1. CASE \E mode \in {"keep", "purge"} : Uninstall(mode)
      BY <2>2, <3>1 DEF Uninstall
    <3>2. CASE \/ \E ok \in BOOLEAN : Disable(ok)
               \/ RemoveUnit \/ Unregister \/ SkipUnregister
      BY <2>2, <3>2 DEF Disable, RemoveUnit, Unregister, SkipUnregister, history
    <3>3. CASE Unlink \/ CopyShell \/ EmptyShell \/ FilterShell \/ Delete \/ PurgeData
      BY <2>2, <3>3 DEF Unlink, CopyShell, EmptyShell, FilterShell, NextFile, Delete, PurgeData, history
    <3> QED
      BY <2>5, <3>1, <3>2, <3>3 DEF Uninstalled
  <2>6. CASE Outside
    <3>1. CASE Cut
      BY <2>1, <3>1 DEF Cut, Crash, vars, files, place, systemd, script, history
    <3>2. CASE Boot \/ Retry
      <4>1. KeptEnabled' /\ UNCHANGED <<vars, program, installed>>
        BY <3>2 DEF Boot, Retry, place, history, script
      <4>2. SUFFICES ASSUME onboarded = "yes", installed, program > 0
                     PROVE  service' = [release |-> program, host |-> config.host]
        BY <4>1 DEF vars, files
      <4>3. Startable
        BY <4>1, <4>2 DEF OnboardedStarts, Startable, Loads, vars, files
      <4>4. service' = Started
        BY <3>2, <4>2 DEF Boot, Retry
      <4> QED
        BY <4>2, <4>3, <4>4, StartedRuns
    <3>3. CASE Edits
      BY <2>1, <3>3 DEF Edits, UserEdits, UserProtects, SyncSaves, installation, place, systemd,
         script, history
    <3>4. CASE Pull \/ \E f \in ShellFiles : SaveShell(f)
      BY <2>1, <3>4 DEF Pull, SaveShell, vars, files, place, systemd, script, history
    <3> QED
      BY <2>6, <3>1, <3>2, <3>3, <3>4 DEF Outside
  <2>7. CASE UNCHANGED <<vars, installation>>
    BY <2>1, <2>7 DEF vars, files, installation, place, systemd, history, script
  <2> QED
    BY <2>3, <2>4, <2>5, <2>6, <2>7 DEF AccountNext
<1> QED
  BY <1>1, <1>2, InstallationTypeCorrect, ScriptsOnlyOnboard, OnboardingReads, OnboardingStarts,
     PTL DEF AccountSpec, Spec

================================================================================
