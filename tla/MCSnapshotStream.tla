-------------------------- MODULE MCSnapshotStream --------------------------
(* The run of SnapshotStream needs no value beyond those of its cfg: its    *)
(* liveness properties forbid symmetry.                                     *)
EXTENDS SnapshotStream
=============================================================================
