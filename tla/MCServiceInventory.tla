-------------------------- MODULE MCServiceInventory --------------------------
(* Values for the run of ServiceInventory: the dashboard and one more port,  *)
(* without a port hint.                                                      *)
EXTENDS ServiceInventory

CONSTANTS p1, p2

NoHints == [p \in Ports |-> Unknown]
Aliased == <<"alias">>
=============================================================================
