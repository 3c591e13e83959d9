---------------------------- MODULE PipeReader -----------------------------
(***************************************************************************)
(* WpfApp's Worker (Services/Worker/Worker.cs), a hosted service that      *)
(* connects to the pipe, reads one snapshot after another with             *)
(* ReadClass.ReadMessage and puts each in the queues of the user interface *)
(* and of the gRPC service; when the pipe ends it waits and connects anew. *)
(*                                                                         *)
(* ReadMessage ignores how many bytes Stream.Read returned.  At the end of *)
(* the pipe that is zero: the Worker then queues a snapshot of zeros, here *)
(* the item 0, and only afterwards sees that the pipe is broken.           *)
(*                                                                         *)
(* Of the queue of the user interface it matters when what is in it was    *)
(* put there: before a stop, while the stop was between its clean-up and   *)
(* the cancellation, or after it.  The views take snapshots out, which is  *)
(* left out: uiQueue is the most there can be.                             *)
(***************************************************************************)
EXTENDS NamedPipe

Zeros == 0           \* the snapshot read at the end of the pipe

VARIABLES
    worker,          \* where ExecuteAsync is
    broken,          \* TRUE iff the stream has met the end of the pipe
    stopping,        \* StopAsync: "no", "cleaned" the queue, or "cancelled" the token
    uiQueue,         \* BackgroundTasks: how far the stop was when its snapshots came
    enqueued,        \* history: what the Worker queued from each instance
    late             \* history: how many of these after the cancellation

workerVars == <<worker, broken, stopping, uiQueue, enqueued, late>>
queueVars  == <<uiQueue, enqueued, late>>

StopStates == {"no", "cleaned", "cancelled"}

\* stoppingToken
cancelled == stopping = "cancelled"

WorkerStates == {"absent", "loop", "connect", "inner", "read", "after", "pause", "done"}

WorkerTypeOK ==
    /\ worker \in WorkerStates
    /\ broken \in BOOLEAN
    /\ stopping \in StopStates
    /\ uiQueue \subseteq StopStates
    /\ enqueued \in [Serves -> Seq(0..MaxItems)]
    /\ late \in Nat

\* WpfApp may not be running at all.
WorkerInit ==
    /\ worker \in {"absent", "loop"}
    /\ broken = FALSE
    /\ stopping = "no"
    /\ uiQueue = {}
    /\ enqueued = [s \in Serves |-> << >>]
    /\ late = 0

\* IsConnected of the stream.
IsConnected == (\E s \in Serves : holder[s] = "worker") /\ ~broken

\* while (!stoppingToken.IsCancellationRequested), and a new client stream.
WorkerLoop ==
    /\ worker = "loop"
    /\ worker' = IF cancelled THEN "done" ELSE "connect"
    /\ broken' = FALSE
    /\ UNCHANGED <<stopping, queueVars, pipeVars>>

\* ConnectAsync finds the pipe served.
WorkerConnects ==
    /\ worker = "connect"
    /\ Connect("worker")
    /\ worker' = "inner"
    /\ UNCHANGED <<broken, stopping, queueVars>>

\* Faulty variant of WorkerConnectCancelled: the attempt is repeated, with no
\* token to end it.
WorkerConnectRepeated ==
    /\ worker = "connect"
    /\ ~Listening
    /\ worker' = "connect"
    /\ UNCHANGED <<broken, stopping, queueVars, pipeVars>>

\* Five seconds without a pipe to open, or the stop of the service: the
\* exception is logged, and the read loop is entered all the same.
WorkerConnectCancelled ==
    /\ worker = "connect"
    /\ ~Listening \/ cancelled
    /\ worker' = "inner"
    /\ UNCHANGED <<broken, stopping, queueVars, pipeVars>>

\* Faulty variant of WorkerInner: the read loop does not look at the token.
WorkerInnerDeaf ==
    /\ worker = "inner"
    /\ \/ /\ IsConnected
          /\ worker' = "read"
          /\ UNCHANGED pipeVars
       \/ /\ ~IsConnected
          /\ Release("worker")
          /\ worker' = "after"
    /\ UNCHANGED <<broken, stopping, queueVars>>

\* while (pipe.IsConnected && !cancelled); leaving disposes of the pipe.
WorkerInner ==
    /\ worker = "inner"
    /\ \/ /\ IsConnected /\ ~cancelled
          /\ worker' = "read"
          /\ UNCHANGED pipeVars
       \/ /\ ~IsConnected \/ cancelled
          /\ Release("worker")
          /\ worker' = "after"
    /\ UNCHANGED <<broken, stopping, queueVars>>

\* Both Enqueue calls.
Enqueue(s, i) ==
    /\ enqueued' = [enqueued EXCEPT ![s] = Append(@, i)]
    /\ uiQueue' = uiQueue \union {stopping}
    /\ late' = IF cancelled THEN late + 1 ELSE late

\* The synchronous read returns a message, whatever the token says.
WorkerReads ==
    /\ worker = "read"
    /\ \E s \in Serves : ReadMessage("worker", s) /\ Enqueue(s, Head(pipe[s]))
    /\ worker' = "inner"
    /\ UNCHANGED <<broken, stopping>>

\* The read returns no byte: the snapshot of zeros is queued.
WorkerReadsEnd ==
    /\ worker = "read"
    /\ \E s \in Serves : AtEnd("worker", s) /\ Enqueue(s, Zeros)
    /\ broken' = TRUE
    /\ worker' = "inner"
    /\ UNCHANGED <<stopping, pipeVars>>

\* IOException: the read loop is left, the pipe disposed of.
WorkerReadFails ==
    /\ worker = "read"
    /\ Release("worker")
    /\ worker' = "after"
    /\ UNCHANGED <<broken, stopping, queueVars>>

\* After the pipe: stop, or wait ten seconds.
WorkerAfter ==
    /\ worker = "after"
    /\ worker' = IF cancelled THEN "done" ELSE "pause"
    /\ UNCHANGED <<broken, stopping, queueVars, pipeVars>>

\* Task.Delay ends; cancelled, it throws and ends ExecuteAsync.
WorkerDelay ==
    /\ worker = "pause"
    /\ worker' = IF cancelled THEN "done" ELSE "loop"
    /\ UNCHANGED <<broken, stopping, queueVars, pipeVars>>

\* StopAsync: CleanBackgroundTask empties the queue of the user interface, while
\* the loop goes on.
WorkerClean ==
    /\ stopping = "no"
    /\ worker # "absent"
    /\ stopping' = "cleaned"
    /\ uiQueue' = {}
    /\ UNCHANGED <<worker, broken, enqueued, late, pipeVars>>

\* The base class cancels the token and waits for ExecuteAsync.
WorkerCancel ==
    /\ stopping = "cleaned"
    /\ stopping' = "cancelled"
    /\ UNCHANGED <<worker, broken, queueVars, pipeVars>>

WorkerRuns ==
    \/ WorkerLoop \/ WorkerConnects \/ WorkerConnectCancelled \/ WorkerInner
    \/ WorkerReads \/ WorkerReadsEnd \/ WorkerAfter \/ WorkerDelay

------------------------------------------------------------------------------
(* Properties                                                              *)

\* Nothing from before a stop stays in the queue of the user interface, which is
\* emptied while the loop goes on (Worker.cs:138): what a stopped Worker leaves there
\* it read before the cancellation (Worker.cs:147), any number of snapshots, and at
\* most one after it, which a pending read returned.
LateReads ==
    /\ stopping # "no" => "no" \notin uiQueue
    /\ late <= 1

\* The Worker waits for a server that neither writes nor closes the pipe.
WaitsForServer ==
    /\ worker = "read"
    /\ \E s \in Serves : holder[s] = "worker" /\ pipe[s] = << >> /\ server[s] = "open"

\* A stop, once begun, ends the Worker, or finds it in a read that only the server
\* can end.
WorkerStops == stopping # "no" ~> (worker = "done" \/ WaitsForServer)
==============================================================================
