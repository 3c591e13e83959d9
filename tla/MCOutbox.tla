------------------------------- MODULE MCOutbox -------------------------------
(* Model-checking instance of Outbox: the replicas are model values.        *)
EXTENDS Outbox
==============================================================================
