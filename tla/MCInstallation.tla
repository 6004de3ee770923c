----------------------------- MODULE MCInstallation -----------------------------
(* Accounts of either shell: with the files Ubuntu gives, with none, and with *)
(* the login file of another shell.                                           *)
EXTENDS Installation

Account(l, fs, tools, e, ns, c) ==
    [login |-> l, files |-> fs, sync |-> tools, edits |-> e, names |-> ns, commands |-> c]

MCAccounts == {Account("bash", {".bashrc", ".profile"}, FALSE, 0, {"plain"}, 4),
               Account("bash", {}, TRUE, 1, {"plain"}, 2),
               Account("zsh", {".zshrc"}, FALSE, 0, Names, 2),
               Account("bash", {".zprofile"}, FALSE, 0, {"plain"}, 2)}
=============================================================================
