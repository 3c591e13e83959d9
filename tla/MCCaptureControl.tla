--------------------------- MODULE MCCaptureControl ---------------------------
(* Model-checking instance of CaptureControl: client threads are model       *)
(* values.  Nothing tells them apart, but permuting them is unsound for the  *)
(* liveness properties, so no symmetry is declared.                          *)
EXTENDS CaptureControl
==============================================================================
