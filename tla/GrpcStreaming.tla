---------------------------- MODULE GrpcStreaming ----------------------------
(***************************************************************************)
(* The gRPC leg of WpfApp: Worker posts the snapshots it reads from the    *)
(* named pipe to an AsyncConcurrencyQueue; GrpcService, a singleton the    *)
(* user starts and stops with a toggle, takes them from there and writes   *)
(* them to a client-streaming call, and srv_pub's StreamingService stores  *)
(* what arrives in the outbox.                                             *)
(*                                                                         *)
(* Nobody awaits StartAsync and StopAsync, so a start may come while an    *)
(* earlier stop is still waiting for its loop: several ExecuteAsync loops  *)
(* may then exist, and only the semaphore of the queue's enumerator keeps  *)
(* them apart, while all of them write to the one _clientStreamingCall     *)
(* field.  Loop r and call r are those of the r-th start.  Each step runs  *)
(* from one await to the next; an await that completes at once is a step   *)
(* boundary too.                                                           *)
(***************************************************************************)
EXTENDS Integers, Sequences

CONSTANTS
    MaxSnapshots,    \* bound: snapshots the worker enqueues
    MaxRuns,         \* bound: how often the user starts the service
    MaxFaults        \* bound: calls that fail

ASSUME GrpcAssumption ==
    /\ MaxSnapshots \in Nat
    /\ MaxRuns \in Nat
    /\ MaxFaults \in Nat

Runs == 1..MaxRuns

VARIABLES
    enqueued,        \* snapshots enqueued so far: snapshot i is the i-th
    buffer,          \* the BufferBlock of BackgroundTaskGrpc
    semaphore,       \* _enumerationSemaphore
    toggle,          \* what the next click on the toggle does
    runs,            \* starts so far; the newest call is call number `runs`
    loop,            \* per run: where its ExecuteAsync is
    held,            \* per run: the snapshot it holds (0: none)
    target,          \* per run: the call it writes to (0: none yet)
    cancelled,       \* runs whose stopping token is cancelled
    stopper,         \* per run: where its StopAsync is
    call,            \* per call: its state
    inFlight,        \* per call: written and not yet read by the server
    stored,          \* per call: stored in the outbox by the server
    lost,            \* history: snapshots taken that no call carries
    cut,             \* history: TRUE iff a stop completed a later run's call
    faults           \* calls that have failed so far

queueVars      == <<enqueued, buffer>>
loopVars       == <<semaphore, loop, held, target>>
serviceVars    == <<toggle, runs, cancelled, stopper>>
streamCallVars == <<call, inFlight, stored>>
streamVars == <<queueVars, loopVars, serviceVars, streamCallVars, lost, cut, faults>>

Enumerating == {"receiving", "handing", "writing", "delaying"}
LoopStates == Enumerating \union {"none", "waiting", "ended"}

StreamTypeOK ==
    /\ enqueued \in 0..MaxSnapshots
    /\ buffer \in Seq(1..MaxSnapshots)
    /\ semaphore \in 0..1
    /\ toggle \in {"start", "stop"}
    /\ runs \in 0..MaxRuns
    /\ loop \in [Runs -> LoopStates]
    /\ held \in [Runs -> 0..MaxSnapshots]
    /\ target \in [Runs -> 0..MaxRuns]
    /\ cancelled \subseteq Runs
    /\ stopper \in [Runs -> {"none", "waiting", "done"}]
    /\ call \in [Runs -> {"none", "open", "completed", "failed"}]
    /\ inFlight \in [Runs -> Seq(1..MaxSnapshots)]
    /\ stored \in [Runs -> Seq(1..MaxSnapshots)]
    /\ lost \subseteq 1..MaxSnapshots
    /\ cut \in BOOLEAN
    /\ faults \in 0..MaxFaults

\* The first click on the toggle may mean either.
StreamInit ==
    /\ enqueued = 0
    /\ buffer = << >>
    /\ semaphore = 1
    /\ toggle \in {"start", "stop"}
    /\ runs = 0
    /\ loop = [r \in Runs |-> "none"]
    /\ held = [r \in Runs |-> 0]
    /\ target = [r \in Runs |-> 0]
    /\ cancelled = {}
    /\ stopper = [r \in Runs |-> "none"]
    /\ call = [r \in Runs |-> "none"]
    /\ inFlight = [r \in Runs |-> << >>]
    /\ stored = [r \in Runs |-> << >>]
    /\ lost = {}
    /\ cut = FALSE
    /\ faults = 0

\* Worker has read a snapshot.
Enqueue ==
    /\ enqueued < MaxSnapshots
    /\ enqueued' = enqueued + 1
    /\ buffer' = Append(buffer, enqueued')
    /\ UNCHANGED <<loopVars, serviceVars, streamCallVars, lost, cut, faults>>

------------------------------------------------------------------------------
(* Starting and stopping                                                   *)

\* Faulty variant of CanEnter: the enumerator has no semaphore.
CanEnterAlways == TRUE

\* _enumerationSemaphore.WaitAsync need not wait.
CanEnter == semaphore > 0

\* StartAsync opens a call, replaces the one in the field, and starts a loop,
\* which enters the enumerator or waits for the semaphore, with no token.
Start ==
    /\ toggle = "start"
    /\ runs < MaxRuns
    /\ toggle' = "stop"
    /\ runs' = runs + 1
    /\ call' = [call EXCEPT ![runs'] = "open"]
    /\ loop' = [loop EXCEPT ![runs'] = IF CanEnter THEN "receiving" ELSE "waiting"]
    /\ semaphore' = 0
    /\ UNCHANGED <<queueVars, held, target, cancelled, stopper,
                   inFlight, stored, lost, cut, faults>>

\* Faulty variant of Stop: stopping cleans the queue as well.
StopCleaning ==
    /\ toggle = "stop"
    /\ toggle' = "start"
    /\ IF runs = 0 THEN UNCHANGED <<cancelled, stopper>>
       ELSE /\ cancelled' = cancelled \union {runs}
            /\ stopper' = [stopper EXCEPT ![runs] = "waiting"]
    /\ buffer' = << >>
    /\ UNCHANGED <<enqueued, loopVars, runs, streamCallVars, lost, cut, faults>>

\* StopAsync cancels the token of the newest loop and awaits the loop; without
\* one it fails, and nobody notices.
Stop ==
    /\ toggle = "stop"
    /\ toggle' = "start"
    /\ IF runs = 0 THEN UNCHANGED <<cancelled, stopper>>
       ELSE /\ cancelled' = cancelled \union {runs}
            /\ stopper' = [stopper EXCEPT ![runs] = "waiting"]
    /\ UNCHANGED <<queueVars, loopVars, runs, streamCallVars, lost, cut, faults>>

\* Faulty variant of LoopEnded: base.StopAsync is not awaited.
LoopEndedUnawaited(r) == stopper[r] = "waiting"

LoopEnded(r) == stopper[r] = "waiting" /\ loop[r] = "ended"

\* A write to call c is under way.
WritePending(c) == \E s \in Runs : loop[s] = "writing" /\ target[s] = c

\* RequestStream.CompleteAsync of the call that is now in the field; it throws
\* during a write, and does nothing on a call that is over.
CompleteAsync(r) ==
    /\ LoopEnded(r)
    /\ stopper' = [stopper EXCEPT ![r] = "done"]
    /\ IF call[runs] = "open" /\ ~WritePending(runs)
       THEN /\ call' = [call EXCEPT ![runs] = "completed"]
            /\ cut' = (cut \/ runs # r)
       ELSE UNCHANGED <<call, cut>>
    /\ UNCHANGED <<queueVars, loopVars, toggle, runs, cancelled, inFlight, stored,
                   lost, faults>>

------------------------------------------------------------------------------
(* The loop: ExecuteAsync and the enumerator of AsyncConcurrencyQueue       *)

\* Faulty variant of Receive: the snapshot stays in the queue.
ReceivePeek(r) ==
    /\ loop[r] = "receiving"
    /\ buffer # << >>
    /\ held' = [held EXCEPT ![r] = Head(buffer)]
    /\ loop' = [loop EXCEPT ![r] = "handing"]
    /\ UNCHANGED <<queueVars, semaphore, target, serviceVars, streamCallVars, lost,
                   cut, faults>>

\* _bufferBlock.ReceiveAsync, with no token either.
Receive(r) ==
    /\ loop[r] = "receiving"
    /\ buffer # << >>
    /\ held' = [held EXCEPT ![r] = Head(buffer)]
    /\ buffer' = Tail(buffer)
    /\ loop' = [loop EXCEPT ![r] = "handing"]
    /\ UNCHANGED <<enqueued, semaphore, target, serviceVars, streamCallVars, lost,
                   cut, faults>>

\* WriteAsync on the call that is in the field by now.
Write(r) ==
    /\ loop[r] = "handing"
    /\ call[runs] = "open"
    /\ target' = [target EXCEPT ![r] = runs]
    /\ loop' = [loop EXCEPT ![r] = "writing"]
    /\ UNCHANGED <<queueVars, semaphore, held, serviceVars, streamCallVars, lost,
                   cut, faults>>

\* The message is on its way.
Written(r) ==
    /\ loop[r] = "writing"
    /\ call[target[r]] = "open"
    /\ inFlight' = [inFlight EXCEPT ![target[r]] = Append(@, held[r])]
    /\ held' = [held EXCEPT ![r] = 0]
    /\ loop' = [loop EXCEPT ![r] = "delaying"]
    /\ UNCHANGED <<queueVars, semaphore, target, serviceVars, call, stored, lost, cut,
                   faults>>

\* Faulty variant of Leave: the enumerator is not disposed on an exception.
LeaveEntered(r) ==
    /\ loop' = [loop EXCEPT ![r] = "ended"]
    /\ UNCHANGED semaphore

Waiting == {s \in Runs : loop[s] = "waiting"}

\* An exception leaves the loop for good, and the enumerator's finally block
\* releases the semaphore: the loop that has waited longest gets it.
Leave(r) ==
    \/ /\ Waiting = {}
       /\ loop' = [loop EXCEPT ![r] = "ended"]
       /\ semaphore' = 1
    \/ /\ \E s \in Waiting :
            /\ \A t \in Waiting : s <= t
            /\ loop' = [loop EXCEPT ![r] = "ended", ![s] = "receiving"]
       /\ UNCHANGED semaphore

\* WriteAsync throws: the call was completed or has failed.
WriteThrows(r) ==
    /\ \/ loop[r] = "handing" /\ call[runs] # "open"
       \/ loop[r] = "writing" /\ call[target[r]] = "failed"
    /\ Leave(r)
    /\ lost' = lost \union {held[r]}
    /\ held' = [held EXCEPT ![r] = 0]
    /\ UNCHANGED <<queueVars, target, serviceVars, streamCallVars, cut, faults>>

\* Task.Delay(100) is over.
Delayed(r) ==
    /\ loop[r] = "delaying"
    /\ r \notin cancelled
    /\ loop' = [loop EXCEPT ![r] = "receiving"]
    /\ UNCHANGED <<queueVars, semaphore, held, target, serviceVars, streamCallVars,
                   lost, cut, faults>>

\* Faulty variant of DelayCancelled: the token is not passed to Task.Delay.
DelayUncancelled(r) ==
    /\ loop[r] = "delaying"
    /\ r \in cancelled
    /\ loop' = [loop EXCEPT ![r] = "receiving"]
    /\ UNCHANGED <<semaphore, queueVars, held, target, serviceVars, streamCallVars,
                   lost, cut, faults>>

\* Task.Delay is the one place where the loop heeds its token.
DelayCancelled(r) ==
    /\ loop[r] = "delaying"
    /\ r \in cancelled
    /\ Leave(r)
    /\ UNCHANGED <<queueVars, held, target, serviceVars, streamCallVars, lost, cut,
                   faults>>

------------------------------------------------------------------------------
(* The server                                                              *)

\* MoveNext and AddAsync.
Store(c) ==
    /\ inFlight[c] # << >>
    /\ stored' = [stored EXCEPT ![c] = Append(@, Head(inFlight[c]))]
    /\ inFlight' = [inFlight EXCEPT ![c] = Tail(@)]
    /\ UNCHANGED <<queueVars, loopVars, serviceVars, call, lost, cut, faults>>

\* The network, the server or its AddAsync fails: the call is over, and what
\* was under way is lost.
CallFails(c) ==
    /\ faults < MaxFaults
    /\ call[c] \in {"open", "completed"}
    /\ faults' = faults + 1
    /\ call' = [call EXCEPT ![c] = "failed"]
    /\ lost' = lost \union {inFlight[c][i] : i \in 1..Len(inFlight[c])}
    /\ inFlight' = [inFlight EXCEPT ![c] = << >>]
    /\ UNCHANGED <<queueVars, loopVars, serviceVars, stored, cut>>

------------------------------------------------------------------------------
LoopNext(r) ==
    \/ Receive(r) \/ Write(r) \/ Written(r) \/ WriteThrows(r)
    \/ Delayed(r) \/ DelayCancelled(r)

StreamNext ==
    \/ Enqueue \/ Start \/ Stop
    \/ \E r \in Runs : CompleteAsync(r) \/ LoopNext(r)
    \/ \E c \in Runs : Store(c) \/ CallFails(c)

StreamSafetySpec == StreamInit /\ [][StreamNext]_streamVars

\* Awaits that can complete do, and the server reads on; nothing need be
\* clicked, captured or fail.
StreamFairness ==
    /\ \A r \in Runs : WF_streamVars(LoopNext(r)) /\ WF_streamVars(CompleteAsync(r))
    /\ \A c \in Runs : WF_streamVars(Store(c))

StreamSpec == StreamSafetySpec /\ StreamFairness

------------------------------------------------------------------------------
(* Properties                                                              *)

\* At most one loop has a snapshot or waits for one, however fast the service
\* is stopped and started: gRPC refuses a second write to a call, and two
\* readers would reorder the stream (AsyncConcurrencyQueue.cs:37-50).
OneEnumerator ==
    \A r, s \in Runs : loop[r] \in Enumerating /\ loop[s] \in Enumerating => r = s

Elements(q) == {q[i] : i \in 1..Len(q)}
Carried(c) == stored[c] \o inFlight[c]
Before(p, q) == \A x \in Elements(p), y \in Elements(q) : x < y

\* The calls carry the snapshots in the order of their capture, none twice, and
\* a later call only later ones, though loops of different starts share a call.
CarriedInOrder ==
    /\ \A c \in Runs : \A i, j \in 1..Len(Carried(c)) :
         i < j => Carried(c)[i] < Carried(c)[j]
    /\ \A c, d \in Runs : c < d => Before(Carried(c), Carried(d))
    /\ \A c \in Runs : Before(Carried(c), buffer)

\* No snapshot disappears on the way: it is queued, held by a loop, carried by
\* a call, or among those an exception is known to have dropped.
AllAccounted ==
    1..enqueued = Elements(buffer) \union ({held[r] : r \in Runs} \ {0})
                    \union (UNION {Elements(Carried(c)) : c \in Runs}) \union lost

\* Only a failing call loses snapshots, or a stop that was overtaken by a start
\* and so completed the new call instead of its own (GrpcService.cs:61).
LossExplained == lost # {} => faults > 0 \/ cut

\* Nobody waits for what cannot come, however the service is stopped and started
\* and whichever calls fail: before a loop that waits for the semaphore an earlier
\* one is in the enumerator, a write under way has a call that takes it or throws,
\* and a StopAsync that waits has cancelled its loop, which has ended, or is in the
\* enumerator, or waits for one there (GrpcService.cs:58-62).
NobodyStuck ==
    \A r \in Runs :
        /\ loop[r] = "waiting" => \E s \in 1..r - 1 : loop[s] \in Enumerating
        /\ loop[r] = "writing" => call[target[r]] \in {"open", "failed"}
        /\ stopper[r] = "waiting" =>
             /\ r \in cancelled
             /\ loop[r] = "ended" \/ \E s \in 1..r : loop[s] \in Enumerating

\* The snapshots that are queued, held by a loop or on their way to the server.
Pending ==
    Elements(buffer) \union ({held[r] : r \in Runs} \ {0})
        \union UNION {Elements(inFlight[c]) : c \in Runs}

Contract == INSTANCE StreamingContract WITH
    Calls     <- Runs,
    posted    <- enqueued,
    pending   <- Pending,
    disturbed <- faults > 0 \/ cut

\* The gRPC leg implements StreamingContract: a snapshot is stored once, for one
\* call, in the order of capture, or lost, and never both; and nothing is lost by
\* a start, a stop or a full queue, but only after a call failed or was cut.
ImplementsContract == Contract!ContractSpec

\* A stopped loop that waits for a snapshot ends with the next one, and its
\* StopAsync with it: it is not left to drain the queue, nor to block.
StopEndsOnTraffic ==
    \A r \in Runs :
        r \in cancelled /\ loop[r] = "receiving" /\ buffer # << >> ~> stopper[r] = "done"

\* While some loop has not ended, queued snapshots are taken: the semaphore
\* gets free whichever way the loop before it ended.
Streamed ==
    \A i \in 1..MaxSnapshots :
        i \in Elements(buffer)
          ~> (i \notin Elements(buffer) \/ \A r \in Runs : loop[r] \in {"none", "ended"})
==============================================================================
