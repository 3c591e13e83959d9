------------------------------ MODULE MCSniffer ------------------------------
(* Model-checking instance of Sniffer: the bounds are in the .cfg files.    *)
EXTENDS Sniffer
==============================================================================
