-------------------------- MODULE MCCollectorPoller --------------------------
(***************************************************************************)
(* Values for the runs of CollectorPoller, two collectors named after      *)
(* those of the repository they behave like: "processes" waits for         *)
(* "containers", which asks Docker for a client.                           *)
(***************************************************************************)
EXTENDS CollectorPoller

CONSTANTS containers, processes

PairDepends == [c \in {containers, processes} |-> IF c = processes THEN {containers} ELSE {}]
=============================================================================
