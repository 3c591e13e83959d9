----------------------------- MODULE MCForwarding -----------------------------
(* Model-checking instance of Forwarding: the bounds are in the .cfg files.   *)
EXTENDS Forwarding
==============================================================================
