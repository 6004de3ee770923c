----------------------------- MODULE MCAdmission -----------------------------
(* Values for the runs of Admission. *)
EXTENDS Admission, TLC

Symmetry == Permutations(Tickets)
=============================================================================
