------------------------- MODULE MCContainerActions -------------------------
(***************************************************************************)
(* Values for the run of ContainerActions: an entry that may be launched   *)
(* on two ports within the ceiling, and containers started from a terminal *)
(* with and without a recognisable reservation.                            *)
(***************************************************************************)
EXTENDS ContainerActions, TLC

CONSTANTS vllm, terminal, unflagged

Shares == vllm :> 30 @@ terminal :> 50 @@ unflagged :> 60

Symmetry == Permutations(Requests) \cup Permutations(Ports)
=============================================================================
