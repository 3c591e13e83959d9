------------------------------ MODULE MCCapture ------------------------------
(* Three parts of the capture path that share nothing: a session in the      *)
(* dll (Sniffer), the signals between the clients and the capture thread     *)
(* (CaptureControl), and the snapshots on their way to srv_pub               *)
(* (GrpcStreaming).  Whichever of them begins goes on alone, so one run      *)
(* explores the sum of the three and not their product.                      *)
EXTENDS Sniffer, CaptureControl, GrpcStreaming

\* Each part before it begins, in one of its initial states.
NoSession == control = "built" /\ handle = "null" /\ ~hPipe
NoSignals == connecting = "idle" /\ calls = 0
NoStream  == enqueued = 0 /\ runs = 0 /\ toggle = "start"

MCInit == Init /\ DllInit /\ StreamInit

MCNext ==
    \/ NoSignals /\ NoStream  /\ Next       /\ UNCHANGED <<dllVars, streamVars>>
    \/ NoSession /\ NoStream  /\ DllNext    /\ UNCHANGED <<vars, streamVars>>
    \/ NoSession /\ NoSignals /\ StreamNext /\ UNCHANGED <<vars, dllVars>>

MCSpec ==
    /\ MCInit /\ [][MCNext]_<<vars, dllVars, streamVars>>
    /\ Fairness /\ DllFairness /\ StreamFairness
==============================================================================
