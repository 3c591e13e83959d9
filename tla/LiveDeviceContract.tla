-------------------------- MODULE LiveDeviceContract --------------------------
(***************************************************************************)
(* What the class of PcapLiveDevice.h comes to for an application that     *)
(* opens before it captures and stops before it closes: an open device has *)
(* one capture at a time, of one of two kinds.  A threaded one goes on     *)
(* until the application stops it or libpcap fails, and may collect        *)
(* statistics as it goes; when a stop returns both have ended.  A blocking *)
(* one ends by itself.  Nothing is promised to an application that has     *)
(* misused the device.                                                     *)
(*                                                                         *)
(* captureActive() is what the code makes of it: it says yes from the      *)
(* start of a capture until its stop, also after the capture has failed,   *)
(* though the header says "True if a capture thread is currently running". *)
(***************************************************************************)

VARIABLES
    opened,
    capturing,       \* "no", "threads" or "blocking"
    collecting,      \* statistics are collected
    active,          \* what captureActive() says
    ending,          \* the capture has failed or is to end
    stopping,        \* stopCapture() is under way
    misused

contractVars == <<opened, capturing, collecting, active, ending, stopping, misused>>

\* Nothing of an earlier capture is left.
Quiet == capturing = "no" /\ ~collecting /\ ~active /\ ~ending /\ ~stopping

ContractInit == ~opened /\ Quiet /\ ~misused

\* It may fail, and an open device is left as it is.
OpenDevice ==
    /\ opened' = TRUE
    /\ UNCHANGED <<capturing, collecting, active, ending, stopping, misused>>

\* Also when the list deletes the device and makes a new one.
CloseDevice ==
    /\ Quiet
    /\ opened' = FALSE
    /\ UNCHANGED <<capturing, collecting, active, ending, stopping, misused>>

\* The ways to startCapture on an open device that is not capturing.
BeginCapture ==
    /\ opened /\ Quiet
    /\ capturing' = "threads"
    /\ UNCHANGED <<opened, collecting, active, ending, stopping, misused>>

\* captureActive() says yes some time during the start.
ShowActive ==
    /\ capturing = "threads"
    /\ active' = TRUE
    /\ UNCHANGED <<opened, capturing, collecting, ending, stopping, misused>>

\* The statistics of the startCapture that asks for them, even if its capture has
\* failed by then.
BeginStatistics ==
    /\ active /\ ~stopping
    /\ collecting' = TRUE
    /\ UNCHANGED <<opened, capturing, active, ending, stopping, misused>>

\* startCaptureBlockingMode; its end needs no call.
BeginBlocking ==
    /\ opened /\ Quiet
    /\ capturing' = "blocking"
    /\ active' = TRUE
    /\ UNCHANGED <<opened, collecting, ending, stopping, misused>>

EndBlocking ==
    /\ capturing = "blocking"
    /\ capturing' = "no"
    /\ active' = FALSE
    /\ ending' = FALSE
    /\ UNCHANGED <<opened, collecting, stopping, misused>>

\* libpcap fails, or the callback of a blocking capture asks for the end.
BreakOff ==
    /\ capturing # "no" /\ ~stopping
    /\ ending' = TRUE
    /\ UNCHANGED <<opened, capturing, collecting, active, stopping, misused>>

StopCapture ==
    /\ capturing # "blocking" /\ ~stopping
    /\ stopping' = TRUE
    /\ ending' = TRUE
    /\ UNCHANGED <<opened, capturing, collecting, active, misused>>

\* The threads end when they are told to, and `active` stays as it is.
EndCapture ==
    /\ capturing = "threads" /\ ending
    /\ capturing' = "no"
    /\ UNCHANGED <<opened, collecting, active, ending, stopping, misused>>

EndStatistics ==
    /\ ending
    /\ collecting' = FALSE
    /\ UNCHANGED <<opened, capturing, active, ending, stopping, misused>>

\* Only a stop makes captureActive() say no, and only when the capture is over.
ShowInactive ==
    /\ stopping /\ capturing = "no"
    /\ active' = FALSE
    /\ UNCHANGED <<opened, capturing, collecting, ending, stopping, misused>>

\* stopCapture() returns when both threads have ended.
Stopped ==
    /\ stopping /\ capturing = "no" /\ ~collecting /\ ~active
    /\ stopping' = FALSE
    /\ ending' = FALSE
    /\ UNCHANGED <<opened, capturing, collecting, active, misused>>

ContractNext ==
    \/ misused \/ misused'
    \/ OpenDevice \/ CloseDevice
    \/ BeginCapture \/ ShowActive \/ BeginStatistics
    \/ BeginBlocking \/ BreakOff \/ EndBlocking
    \/ StopCapture \/ EndCapture \/ EndStatistics \/ ShowInactive \/ Stopped

ContractSpec == ContractInit /\ [][ContractNext]_contractVars
==============================================================================
