---------------------------- MODULE ServiceApp -----------------------------
(***************************************************************************)
(* serviceApp: a Windows service whose one process serves the pipe (the    *)
(* capture DLL, on a thread of its own) and reads it (ServiceMain).  The   *)
(* control handler only reports the new status; the process ends because   *)
(* the dispatcher in main returns once the service is stopped, whatever    *)
(* the reader is doing.  A ServiceMain that has given up leaves the        *)
(* service running.                                                        *)
(*                                                                         *)
(* The messages have the size of a Snapshot, so a read always fills the    *)
(* buffer and leaves nothing over: the loop's reassembly of partial reads  *)
(* has nothing to do and is not modelled.                                  *)
(***************************************************************************)
EXTENDS NamedPipe

CONSTANTS
    MaxAttempts,     \* ConnectPipeClient's 60 attempts
    MaxCaptures      \* bound: items one process captures

ASSUME ServiceAssumption ==
    /\ MaxAttempts \in Nat \ {0}
    /\ MaxCaptures \in Nat /\ MaxCaptures <= MaxItems

VARIABLES
    process,         \* TRUE iff the process of the service is up
    status,          \* what the service control manager has been told
    serviceMain,     \* where ServiceMain is
    attempt,         \* attempts ConnectPipeClient has made
    hEvent,          \* TRUE iff the process holds the event Global\sniffer
    captured,        \* items the capture of this process has made
    logged           \* history: snapshots logged, for each instance

serviceVars == <<process, status, serviceMain, attempt, hEvent, captured, logged>>

ServiceTypeOK ==
    /\ process \in BOOLEAN
    /\ status \in {"stopped", "running"}
    /\ serviceMain \in {"none", "spawn", "put", "signal", "connect", "peek",
                        "read", "failed"}
    /\ attempt \in 0..MaxAttempts
    /\ serviceMain \in {"spawn", "put", "signal", "connect"} => attempt < MaxAttempts
    /\ hEvent \in BOOLEAN
    /\ captured \in 0..MaxCaptures
    /\ logged \in [Serves -> Seq(0..MaxItems)]

ServiceInit ==
    /\ process = FALSE
    /\ status = "stopped"
    /\ serviceMain = "none"
    /\ attempt = 0
    /\ hEvent = FALSE
    /\ captured = 0
    /\ logged = [s \in Serves |-> << >>]

\* The service control manager starts the process: the event is created before
\* main, ServiceMain registers its handler and reports RUNNING.
ServiceStart ==
    /\ ~process
    /\ serves < MaxServes
    /\ process' = TRUE
    /\ status' = "running"
    /\ serviceMain' = "spawn"
    /\ attempt' = 0
    /\ hEvent' = TRUE
    /\ captured' = 0
    /\ dll' = "idle"
    /\ UNCHANGED <<logged, pipeVars>>

\* Builder.Start: fnCPPDLL on a detached thread.
SpawnDll ==
    /\ process
    /\ serviceMain = "spawn"
    /\ serviceMain' = "put"
    /\ dll' = "openEvent"
    /\ UNCHANGED <<process, status, attempt, hEvent, captured, logged, pipeVars>>

\* Builder.PutDev and SignalAndJoin, which sets the event and joins nothing;
\* then the commands run.
PutAndSignal ==
    /\ process
    /\ serviceMain \in {"put", "signal"}
    /\ serviceMain' = IF serviceMain = "put" THEN "signal" ELSE "connect"
    /\ UNCHANGED <<process, status, attempt, hEvent, captured, logged, pipeVars, dll>>

\* ConnectPipeCommand: an attempt finds the pipe.
ServiceConnects ==
    /\ process
    /\ serviceMain = "connect"
    /\ Connect("service")
    /\ serviceMain' = "peek"
    /\ UNCHANGED <<process, status, attempt, hEvent, captured, logged, dll>>

\* An attempt does not; after the last one ExecuteAll fails, the event is closed
\* and ServiceMain returns.
ServiceAttemptFails ==
    /\ process
    /\ serviceMain = "connect"
    /\ ~Listening
    /\ attempt' = attempt + 1
    /\ IF attempt' = MaxAttempts
         THEN serviceMain' = "failed" /\ hEvent' = FALSE
         ELSE UNCHANGED <<serviceMain, hEvent>>
    /\ UNCHANGED <<process, status, captured, logged, pipeVars, dll>>

\* PeekNamedPipe: sleep a second, or read.
ServicePeeks ==
    /\ process
    /\ serviceMain = "peek"
    /\ \E s \in Serves : holder[s] = "service" /\ pipe[s] # << >>
    /\ serviceMain' = "read"
    /\ UNCHANGED <<process, status, attempt, hEvent, captured, logged, pipeVars, dll>>

\* Faulty variant of ServiceReads: the snapshot is logged and left in the pipe.
ServiceReadsPeeking ==
    /\ process
    /\ serviceMain = "read"
    /\ \E s \in Serves :
          /\ holder[s] = "service"
          /\ Len(logged[s]) < 3
          /\ logged' = [logged EXCEPT ![s] = Append(@, Head(pipe[s]))]
    /\ serviceMain' = "peek"
    /\ UNCHANGED <<process, status, attempt, hEvent, captured, pipeVars, dll>>

\* ReadFile, and the snapshot is logged.
ServiceReads ==
    /\ process
    /\ serviceMain = "read"
    /\ \E s \in Serves :
          /\ ReadMessage("service", s)
          /\ logged' = [logged EXCEPT ![s] = Append(@, Head(pipe[s]))]
    /\ serviceMain' = "peek"
    /\ UNCHANGED <<process, status, attempt, hEvent, captured, dll>>

\* A session of Sniffer, on the DLL's threads, once a device is put: the next
\* item is written, or dropped for want of a client.
SessionWrites ==
    /\ process
    /\ dll = "capture"
    /\ serviceMain # "put"
    /\ captured < MaxCaptures
    /\ captured' = captured + 1
    /\ \/ WriteMessage(captured')
       \/ WriteRefused /\ UNCHANGED pipeVars
    /\ UNCHANGED <<process, status, serviceMain, attempt, hEvent, logged, dll>>

\* ServiceCtrlHandler: the status, and nothing else.
ServiceStop ==
    /\ process
    /\ status = "running"
    /\ status' = "stopped"
    /\ UNCHANGED <<process, serviceMain, attempt, hEvent, captured, logged, pipeVars, dll>>

\* StartServiceCtrlDispatcher returns, main returns, and the process takes all
\* its threads and handles along; what its reader had not read is lost.
ProcessExit ==
    /\ process
    /\ status = "stopped"
    /\ process' = FALSE
    /\ serviceMain' = "none"
    /\ hEvent' = FALSE
    /\ dll' = "idle"
    /\ server' = [s \in Serves |-> IF s <= serves THEN "closed" ELSE server[s]]
    /\ holder' = [s \in Serves |-> IF holder[s] = "service" THEN Nobody ELSE holder[s]]
    /\ pipe' = [s \in Serves |-> IF holder[s] = "service" THEN << >> ELSE pipe[s]]
    /\ UNCHANGED <<serves, status, attempt, captured, logged>>

ServiceRuns ==
    \/ SpawnDll \/ PutAndSignal \/ ServiceConnects \/ ServiceAttemptFails
    \/ ServicePeeks \/ ServiceReads
==============================================================================
