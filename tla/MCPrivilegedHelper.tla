-------------------------- MODULE MCPrivilegedHelper --------------------------
(* The run of PrivilegedHelper needs no value beyond that of its cfg. *)
EXTENDS PrivilegedHelper
=============================================================================
