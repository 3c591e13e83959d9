----------------------------- MODULE NamedPipe -----------------------------
(***************************************************************************)
(* The named pipe testpipe and the function that serves it, fnCPPDLL of    *)
(* sniffer_packages/ipc.cpp.  Windows keeps the instances of the pipe: a   *)
(* client that opened one may read what is left after the server closed    *)
(* its end, and what it has not read is gone when it closes its own.       *)
(* Writer and readers share one structure, so a read takes exactly one     *)
(* message, in byte mode too.  A message is the number of its item in the  *)
(* capture of the process that serves the instance.                        *)
(*                                                                         *)
(* A process calls fnCPPDLL once: it creates one instance, waits for its   *)
(* client and for the event, then starts the capture.  Nothing listens     *)
(* again when the client leaves, until a new process serves the pipe.      *)
(***************************************************************************)
EXTENDS Integers, Sequences

CONSTANTS
    PipeCapacity,    \* messages the pipe buffers before WriteFile blocks
    MaxItems,        \* bound: items written to one instance
    MaxServes        \* bound: instances of the pipe ever served

ASSUME PipeAssumption ==
    /\ PipeCapacity \in Nat \ {0}
    /\ MaxItems \in Nat
    /\ MaxServes \in Nat \ {0}

Serves  == 1..MaxServes
Clients == {"worker", "service"}
Nobody  == "nobody"

VARIABLES
    serves,          \* how many instances there have been; the newest one
    server,          \* per instance: the server's end
    holder,          \* per instance: the client that has opened it
    pipe,            \* per instance: messages written and not read
    dll              \* where the newest call of fnCPPDLL is

pipeVars == <<serves, server, holder, pipe>>

PipeTypeOK ==
    /\ serves \in 0..MaxServes
    /\ server \in [Serves -> {"none", "listening", "open", "closed"}]
    /\ holder \in [Serves -> Clients \union {Nobody}]
    /\ pipe \in [Serves -> Seq(0..MaxItems)]
    /\ dll \in {"idle", "openEvent", "create", "accept", "waitEvent",
               "capture", "gaveUp"}

PipeInit ==
    /\ serves = 0
    /\ server = [s \in Serves |-> "none"]
    /\ holder = [s \in Serves |-> Nobody]
    /\ pipe = [s \in Serves |-> << >>]

------------------------------------------------------------------------------
(* The client side, as the readers of the pipe use it                      *)

Listening == \E s \in Serves : server[s] = "listening"

\* WaitNamedPipe and CreateFile, or NamedPipeClientStream.ConnectAsync.
Connect(c) ==
    \E s \in Serves :
        /\ server[s] = "listening"
        /\ server' = [server EXCEPT ![s] = "open"]
        /\ holder' = [holder EXCEPT ![s] = c]
        /\ UNCHANGED <<serves, pipe>>

\* ReadFile or Stream.Read of one message of instance s.
ReadMessage(c, s) ==
    /\ holder[s] = c
    /\ pipe[s] # << >>
    /\ pipe' = [pipe EXCEPT ![s] = Tail(pipe[s])]
    /\ UNCHANGED <<serves, server, holder>>

\* The server has closed instance s and nothing is left to read in it.
AtEnd(c, s) == holder[s] = c /\ pipe[s] = << >> /\ server[s] = "closed"

\* The client closes its handle, if it has one.
Release(c) ==
    /\ holder' = [s \in Serves |-> IF holder[s] = c THEN Nobody ELSE holder[s]]
    /\ pipe' = [s \in Serves |-> IF holder[s] = c THEN << >> ELSE pipe[s]]
    /\ UNCHANGED <<serves, server>>

------------------------------------------------------------------------------
(* The server side: fnCPPDLL and the writers                               *)

\* WriteFile of message m succeeds; it blocks while the buffer is full.
WriteMessage(m) ==
    /\ serves > 0
    /\ server[serves] = "open"
    /\ holder[serves] # Nobody
    /\ Len(pipe[serves]) < PipeCapacity
    /\ pipe' = [pipe EXCEPT ![serves] = Append(@, m)]
    /\ UNCHANGED <<serves, server, holder>>

\* WriteFile fails: the client has gone.
WriteRefused == serves = 0 \/ holder[serves] = Nobody

\* The server closes its end of the newest instance; those before it are closed.
CloseServer ==
    /\ server' = [s \in Serves |-> IF s <= serves THEN "closed" ELSE server[s]]
    /\ UNCHANGED <<serves, holder, pipe>>

\* OpenEventW finds the event while anybody has it open.
DllOpenEvent(eventExists) ==
    /\ dll = "openEvent"
    /\ eventExists
    /\ dll' = "create"
    /\ UNCHANGED pipeVars

\* Thirty attempts without the event.
DllGivesUp(eventExists) ==
    /\ dll = "openEvent"
    /\ ~eventExists
    /\ dll' = "gaveUp"
    /\ UNCHANGED pipeVars

\* ConnectPipeServer: a new instance, which a client may open from now on; or
\* CreateNamedPipe fails, and fnCPPDLL ends without a capture.
DllCreate ==
    /\ dll = "create"
    /\ serves < MaxServes
    /\ serves' = serves + 1
    /\ server' = [server EXCEPT ![serves'] = "listening"]
    /\ dll' = "accept"
    /\ UNCHANGED <<holder, pipe>>

DllCreateFails ==
    /\ dll = "create"
    /\ dll' = "gaveUp"
    /\ UNCHANGED pipeVars

\* Faulty variant of DllAccept: ERROR_PIPE_CONNECTED counts as a failure, and
\* the pipe of a client faster than ConnectNamedPipe is closed.
DllAcceptNoConnected ==
    /\ dll = "accept"
    /\ server[serves] = "open"
    /\ dll' = "waitEvent"
    /\ CloseServer

\* ConnectNamedPipe returns once a client has opened the instance; that it did
\* so before the call (ERROR_PIPE_CONNECTED) is as good.
DllAccept ==
    /\ dll = "accept"
    /\ server[serves] = "open"
    /\ dll' = "waitEvent"
    /\ UNCHANGED pipeVars

\* Any other error, such as that of a client that has gone already: the pipe is
\* closed, and fnCPPDLL goes on to the event and the capture without one.
DllAcceptFails ==
    /\ dll = "accept"
    /\ holder[serves] = Nobody
    /\ dll' = "waitEvent"
    /\ CloseServer

\* The event is set or thirty seconds pass: the capture starts either way.
DllStartCapture ==
    /\ dll = "waitEvent"
    /\ dll' = "capture"
    /\ UNCHANGED pipeVars

\* WAIT_FAILED: fnCPPDLL ends, and leaves the pipe open with nobody to write to it.
DllWaitFails ==
    /\ dll = "waitEvent"
    /\ dll' = "gaveUp"
    /\ UNCHANGED pipeVars

DllNext(eventExists) ==
    \/ DllOpenEvent(eventExists) \/ DllGivesUp(eventExists)
    \/ DllCreate \/ DllCreateFails
    \/ DllAccept \/ DllAcceptFails
    \/ DllStartCapture \/ DllWaitFails
==============================================================================
