----------------------------- MODULE MCPipePath -----------------------------
(* Model-checking instance of PipePath: the bounds are in the .cfg file.    *)
EXTENDS PipePath

\* A TLS packet, and an OSPF packet, whose protocol has no handler.
MCTraffic == {[proto |-> 6, src_port |-> 50000, dst_port |-> 443],
              [proto |-> 89, src_port |-> 0, dst_port |-> 0]}
==============================================================================
