----------------------------- MODULE MCNodeView -----------------------------
(* Values for the runs of NodeView.  The peer's id is a string, as "local"  *)
(* is for the browser.                                                      *)
EXTENDS NodeView

OnePeer   == {"spark2"}
Garbling  == {"garbled"}
AnyFault  == {"garbled", "sealed"}
=============================================================================
