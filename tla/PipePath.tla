------------------------------ MODULE PipePath ------------------------------
(***************************************************************************)
(* From the capture to the readers of the pipe.  The pipe is served by     *)
(* one of two hosts, which Init chooses: serviceApp, whose capture DLL     *)
(* runs a session of Sniffer and whose own reader competes with WpfApp's   *)
(* Worker for the one instance there is; or a process that runs the older  *)
(* ring of packages.h, with the Worker as its reader.                      *)
(***************************************************************************)
EXTENDS PipeReader, ServiceApp, PacketRing

CONSTANT
    StopHosts        \* bound: the hosts with which the Worker is stopped

Hosts == {"service", "ring"}

ASSUME PathAssumption ==
    /\ MaxPackets <= MaxItems
    /\ StopHosts \subseteq Hosts

VARIABLE host        \* which of them; never changes

vars == <<host, pipeVars, dll, workerVars, serviceVars, ringVars>>

TypeOK ==
    /\ host \in Hosts
    /\ PipeTypeOK
    /\ WorkerTypeOK
    /\ ServiceTypeOK
    /\ RingTypeOK

Init ==
    /\ host \in Hosts
    /\ PipeInit
    /\ dll = IF host = "ring" THEN "openEvent" ELSE "idle"
    /\ WorkerInit
    /\ ServiceInit
    /\ RingInit

\* WpfApp creates the event too (StartService) and keeps it while it runs.
EventExists == hEvent \/ worker \notin {"absent", "done"} \/ host = "ring"

\* The processes and threads, one step each; the others stay as they are.
WorkerStep ==
    /\ \/ WorkerRuns \/ WorkerReadFails
    /\ UNCHANGED <<host, dll, serviceVars, ringVars>>

StopStep ==
    /\ host \in StopHosts
    /\ WorkerClean \/ WorkerCancel
    /\ UNCHANGED <<host, dll, serviceVars, ringVars>>

DllStep ==
    /\ host = "ring" \/ process
    /\ DllNext(EventExists)
    /\ UNCHANGED <<host, workerVars, serviceVars, ringVars>>

ServiceStep ==
    /\ host = "service"
    /\ ServiceRuns
    /\ UNCHANGED <<host, workerVars, ringVars>>

SessionStep ==
    /\ host = "service"
    /\ SessionWrites
    /\ UNCHANGED <<host, workerVars, ringVars>>

ControlStep ==
    /\ host = "service"
    /\ ServiceStart \/ ServiceStop
    /\ UNCHANGED <<host, workerVars, ringVars>>

ExitStep ==
    /\ host = "service"
    /\ ProcessExit
    /\ UNCHANGED <<host, workerVars, ringVars>>

\* The ring's threads are started with the capture.
ProducerStep ==
    /\ host = "ring"
    /\ dll = "capture"
    /\ ProducerNext
    /\ UNCHANGED <<host, pipeVars, dll, workerVars, serviceVars>>

ConsumerStep ==
    /\ host = "ring"
    /\ dll = "capture"
    /\ \/ ConsumerNext /\ UNCHANGED pipeVars
       \/ WriteItem /\ WriteMessage(consumed_item.id)
       \/ WriteItem /\ WriteRefused /\ UNCHANGED pipeVars
    /\ UNCHANGED <<host, dll, workerVars, serviceVars>>

Next ==
    \/ WorkerStep \/ StopStep
    \/ DllStep
    \/ ServiceStep \/ SessionStep \/ ControlStep \/ ExitStep
    \/ ProducerStep \/ ConsumerStep

SafetySpec == Init /\ [][Next]_vars

\* Threads run whenever they can.  A capture yields an item at least for every
\* read timeout; the ring's producer may fail to read now and then, not for
\* ever.  Nobody owes a start or a stop, nor an I/O error, but a stop goes on.
Fairness ==
    /\ WF_vars(WorkerRuns /\ UNCHANGED <<host, dll, serviceVars, ringVars>>)
    /\ WF_vars(StopStep /\ WorkerCancel)
    /\ WF_vars(DllStep)
    /\ WF_vars(ServiceStep)
    /\ WF_vars(SessionStep)
    /\ WF_vars(ExitStep)
    /\ WF_vars(ProducerStep)
    /\ SF_vars(ProducerStep /\ (ReadPacket \/ ReadTimeout))
    /\ WF_vars(ConsumerStep)

Spec == SafetySpec /\ Fairness

------------------------------------------------------------------------------
(* Properties                                                              *)

\* One reader's share of an instance: the capture from its first item on,
\* closed by at most one snapshot of zeros.
InOrder(items) ==
    \A i \in 1..Len(items) :
        items[i] = i \/ (items[i] = Zeros /\ i = Len(items))

\* An instance has one reader, which gets every item written to it in order and
\* once; the Worker adds one snapshot of zeros, at the end of the pipe.  Only a
\* lapped ring breaks the order.
ReadInOrder ==
    \/ lapped
    \/ \A s \in Serves :
          /\ InOrder(enqueued[s])
          /\ InOrder(logged[s])
          /\ enqueued[s] = << >> \/ logged[s] = << >>

Fed(s) == enqueued[s] # << >> \/ logged[s] # << >>

\* The wait for the event has failed (ipc.cpp:118-120): the DLL has left the newest
\* instance of the pipe with its client.
Forsaken(s) == s = serves /\ server[s] = "open" /\ dll = "gaveUp"

\* A reader that is connected to an instance gets an item of it, or the end of the
\* pipe, unless it leaves first: the capture begins for it however fast it
\* connected, at the second instance as at the first, unless the DLL has given up.
\* A lap may cost it what the ring held.
ReaderIsFed ==
    \A s \in Serves :
        holder[s] # Nobody ~> Fed(s) \/ holder[s] = Nobody \/ Forsaken(s) \/ lapped
==============================================================================
