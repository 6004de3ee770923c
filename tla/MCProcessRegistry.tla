-------------------------- MODULE MCProcessRegistry --------------------------
(* Values for the runs of ProcessRegistry. *)
EXTENDS ProcessRegistry, TLC

(* The kinds of strangers: a process of this user that has the executable of *)
(* an entry among its arguments (an editor opened on it, another script of   *)
(* its interpreter), one that has not, and one of another user that has.     *)
NamedBy == [k \in Entries \cup Strangers |-> IF k = "unrelated" THEN {} ELSE Entries]

Symmetry == Permutations(Requests) \cup Permutations(Pids)
=============================================================================
