------------------------------- MODULE Sniffer -------------------------------
(***************************************************************************)
(* One capture session of sniffer_packages/Sniffer.cpp: the capture thread *)
(* (PacketCapturer) and the dispatch thread (PacketDispatcher) share a     *)
(* bounded PacketBuffer guarded by a mutex and two condition variables;    *)
(* the dispatcher's subscriber (PipeWriterSubscriber) writes every item to *)
(* a named pipe; mainFunc's thread starts the session, stops it by         *)
(* clearing the flag both loops test and joining the two threads, and      *)
(* closes the pcap handle in ~Sniffer.                                     *)
(*                                                                         *)
(* An item is the number of its capture: 1 is the first item the capture   *)
(* thread produced.  A packet and the default item produced by a read      *)
(* timeout take the same path and are not distinguished.  The critical     *)
(* sections of Push and Pop are single steps; the notification, which the  *)
(* code sends after unlocking, is a step of its own, and so is the wait.   *)
(***************************************************************************)
EXTENDS Integers, Sequences

CONSTANTS
    MaxSize,         \* PacketBuffer::maxSize (100 in Sniffer.h:31)
    PipeCapacity,    \* messages the named pipe buffers before WriteFile blocks
    MaxItems         \* bound: items one session captures

ASSUME SnifferAssumption ==
    /\ MaxSize \in Nat \ {0}
    /\ PipeCapacity \in Nat \ {0}
    /\ MaxItems \in Nat

VARIABLES
    running,         \* Sniffer::running, the atomic flag both loops test
    handle,          \* the pcap handle: "null", "open" or "closed"
    queue,           \* PacketBuffer::queue
    captured,        \* items the capture thread has produced so far
    capturer,        \* where the capture thread is
    dispatcher,      \* where the dispatch thread is
    item,            \* the dispatch thread's local `item` (0: none yet)
    control,         \* where mainFunc's thread is
    hPipe,           \* TRUE iff the subscriber's copy of hPipe is valid
    pipe,            \* the messages in the named pipe
    connected,       \* TRUE iff the client holds its end of the pipe
    received         \* what the client has read, in order

vars == <<running, handle, queue, captured, capturer, dispatcher, item,
          control, hPipe, pipe, connected, received>>

captureVars  == <<captured, capturer>>
dispatchVars == <<dispatcher, item>>
pipeVars     == <<hPipe, pipe, connected, received>>
controlVars  == <<running, handle, control>>

CapturerStates   == {"idle", "loop", "read", "push", "wait", "signal", "done"}
DispatcherStates == {"idle", "loop", "pop", "wait", "signal", "write", "done"}
ControlStates    == {"built", "starting", "started", "joinCapturer",
                     "joinDispatcher", "stopped", "closed"}

TypeOK ==
    /\ running \in BOOLEAN
    /\ handle \in {"null", "open", "closed"}
    /\ queue \in Seq(1..MaxItems)
    /\ captured \in 0..MaxItems
    /\ capturer \in CapturerStates
    /\ dispatcher \in DispatcherStates
    /\ item \in 0..MaxItems
    /\ control \in ControlStates
    /\ hPipe \in BOOLEAN
    /\ pipe \in Seq(1..MaxItems)
    /\ connected \in BOOLEAN
    /\ received \in Seq(1..MaxItems)

(***************************************************************************)
(* SnifferBuilder::Build: opening the device may fail (every exception is  *)
(* swallowed), which leaves a null handle.  The subscriber copies the      *)
(* global hPipe, which is invalid when no client connected.                *)
(***************************************************************************)
Init ==
    /\ running = FALSE
    /\ handle \in {"null", "open"}
    /\ queue = << >>
    /\ captured = 0
    /\ capturer = "idle"
    /\ dispatcher = "idle"
    /\ item = 0
    /\ control = "built"
    /\ hPipe \in BOOLEAN
    /\ connected = hPipe
    /\ pipe = << >>
    /\ received = << >>

------------------------------------------------------------------------------
(* The capture thread: PacketCapturer::CaptureLoop and PacketBuffer::Push  *)

\* while (running); a null handle only sleeps and tests again.
CaptureLoop ==
    /\ capturer = "loop"
    /\ capturer' = IF ~running THEN "done"
                   ELSE IF handle = "null" THEN "loop" ELSE "read"
    /\ UNCHANGED <<captured, dispatchVars, queue, controlVars, pipeVars>>

\* pcap_next_ex returned a packet, or timed out and a default item is made.
CaptureItem ==
    /\ capturer = "read"
    /\ captured < MaxItems
    /\ captured' = captured + 1
    /\ capturer' = "push"
    /\ UNCHANGED <<dispatchVars, queue, controlVars, pipeVars>>

\* pcap_next_ex failed: sleep, then test running again.
CaptureError ==
    /\ capturer = "read"
    /\ capturer' = "loop"
    /\ UNCHANGED <<captured, dispatchVars, queue, controlVars, pipeVars>>

\* Faulty variant of HasRoom: admits one item too many.
HasRoomOffByOne == Len(queue) <= MaxSize

\* The notFull.wait predicate.
HasRoom == Len(queue) < MaxSize

\* Faulty variant of Push: appends the item before the current one.
PushStale ==
    /\ capturer = "push"
    /\ HasRoom
    /\ queue' = Append(queue, captured - 1)
    /\ capturer' = "signal"
    /\ UNCHANGED <<captured, dispatchVars, controlVars, pipeVars>>

\* Faulty variant of Push: drops the item instead of waiting for room.
PushDropping ==
    /\ capturer = "push"
    /\ queue' = IF HasRoom THEN Append(queue, captured) ELSE queue
    /\ capturer' = "signal"
    /\ UNCHANGED <<captured, dispatchVars, controlVars, pipeVars>>

\* Push's critical section: append, or wait on notFull.
Push ==
    /\ capturer = "push"
    /\ \/ /\ HasRoom
          /\ queue' = Append(queue, captured)
          /\ capturer' = "signal"
       \/ /\ ~HasRoom
          /\ capturer' = "wait"
          /\ UNCHANGED queue
    /\ UNCHANGED <<captured, dispatchVars, controlVars, pipeVars>>

\* Faulty variant of NotifyNotEmpty: Push without notEmpty.notify_one().
NotifyNotEmptyMissing ==
    /\ capturer = "signal"
    /\ capturer' = "loop"
    /\ UNCHANGED <<captured, dispatchVars, queue, controlVars, pipeVars>>

\* notEmpty.notify_one() after the lock is released.
NotifyNotEmpty ==
    /\ capturer = "signal"
    /\ capturer' = "loop"
    /\ dispatcher' = IF dispatcher = "wait" THEN "pop" ELSE dispatcher
    /\ UNCHANGED <<captured, item, queue, controlVars, pipeVars>>

\* A condition variable may wake up its waiter without a notification.
CaptureSpurious ==
    /\ capturer = "wait"
    /\ capturer' = "push"
    /\ UNCHANGED <<captured, dispatchVars, queue, controlVars, pipeVars>>

------------------------------------------------------------------------------
(* The dispatch thread: PacketDispatcher::DispatchLoop, PacketBuffer::Pop  *)
(* and PipeWriterSubscriber::OnPacketCaptured                              *)

DispatchLoop ==
    /\ dispatcher = "loop"
    /\ dispatcher' = IF running THEN "pop" ELSE "done"
    /\ UNCHANGED <<item, captureVars, queue, controlVars, pipeVars>>

\* Pop's critical section: take the oldest item, or wait on notEmpty.
Pop ==
    /\ dispatcher = "pop"
    /\ \/ /\ queue # << >>
          /\ item' = Head(queue)
          /\ queue' = Tail(queue)
          /\ dispatcher' = "signal"
       \/ /\ queue = << >>
          /\ dispatcher' = "wait"
          /\ UNCHANGED <<item, queue>>
    /\ UNCHANGED <<captureVars, controlVars, pipeVars>>

\* Faulty variant of NotifyNotFull: Pop without notFull.notify_one().
NotifyNotFullMissing ==
    /\ dispatcher = "signal"
    /\ dispatcher' = "write"
    /\ UNCHANGED <<item, captureVars, queue, controlVars, pipeVars>>

\* notFull.notify_one() after the lock is released.
NotifyNotFull ==
    /\ dispatcher = "signal"
    /\ dispatcher' = "write"
    /\ capturer' = IF capturer = "wait" THEN "push" ELSE capturer
    /\ UNCHANGED <<item, captured, queue, controlVars, pipeVars>>

DispatchSpurious ==
    /\ dispatcher = "wait"
    /\ dispatcher' = "pop"
    /\ UNCHANGED <<item, captureVars, queue, controlVars, pipeVars>>

\* WriteFile succeeds; it blocks while the pipe's buffer is full.
WritePipe ==
    /\ dispatcher = "write"
    /\ hPipe
    /\ connected
    /\ Len(pipe) < PipeCapacity
    /\ pipe' = Append(pipe, item)
    /\ dispatcher' = "loop"
    /\ UNCHANGED <<item, captureVars, queue, controlVars,
                   hPipe, connected, received>>

\* Faulty variant of WriteFails: the subscriber keeps its handle.
WriteFailsKeepsHandle ==
    /\ dispatcher = "write"
    /\ hPipe
    /\ dispatcher' = "loop"
    /\ UNCHANGED <<item, captureVars, queue, controlVars, pipeVars>>

\* WriteFile fails, as it must once the client is gone; the subscriber then
\* gives up its handle.
WriteFails ==
    /\ dispatcher = "write"
    /\ hPipe
    /\ hPipe' = FALSE
    /\ dispatcher' = "loop"
    /\ UNCHANGED <<item, captureVars, queue, controlVars,
                   pipe, connected, received>>

\* A subscriber without a handle drops the item.
DropItem ==
    /\ dispatcher = "write"
    /\ ~hPipe
    /\ dispatcher' = "loop"
    /\ UNCHANGED <<item, captureVars, queue, controlVars, pipeVars>>

------------------------------------------------------------------------------
(* mainFunc's thread: Sniffer::Start, Sniffer::Stop and ~Sniffer           *)

\* Start: the flag, the fallback to _adhandle1 when the builder left a null
\* handle (the global may be null too), and the capture thread.
StartCapturer ==
    /\ control = "built"
    /\ running' = TRUE
    /\ handle' \in IF handle = "null" THEN {"null", "open"} ELSE {handle}
    /\ capturer' = "loop"
    /\ control' = "starting"
    /\ UNCHANGED <<captured, dispatchVars, queue, pipeVars>>

StartDispatcher ==
    /\ control = "starting"
    /\ dispatcher' = "loop"
    /\ control' = "started"
    /\ UNCHANGED <<item, captureVars, queue, running, handle, pipeVars>>

\* Stop, once mainFunc saw the stop signal.
StopRunning ==
    /\ control = "started"
    /\ running' = FALSE
    /\ control' = "joinCapturer"
    /\ UNCHANGED <<handle, captureVars, dispatchVars, queue, pipeVars>>

\* Faulty variant of JoinCapturer: Stop does not join the capture thread.
JoinCapturerSkipped ==
    /\ control = "joinCapturer"
    /\ control' = "joinDispatcher"
    /\ UNCHANGED <<running, handle, captureVars, dispatchVars, queue, pipeVars>>

JoinCapturer ==
    /\ control = "joinCapturer"
    /\ capturer = "done"
    /\ control' = "joinDispatcher"
    /\ UNCHANGED <<running, handle, captureVars, dispatchVars, queue, pipeVars>>

JoinDispatcher ==
    /\ control = "joinDispatcher"
    /\ dispatcher = "done"
    /\ control' = "stopped"
    /\ UNCHANGED <<running, handle, captureVars, dispatchVars, queue, pipeVars>>

\* ~Sniffer: Stop again (nothing is left to join), then pcap_close.
CloseSniffer ==
    /\ control = "stopped"
    /\ running' = FALSE
    /\ handle' = IF handle = "open" THEN "closed" ELSE handle
    /\ control' = "closed"
    /\ UNCHANGED <<captureVars, dispatchVars, queue, pipeVars>>

------------------------------------------------------------------------------
(* The client of the pipe (WpfApp's Worker, serviceApp)                    *)

ClientRead ==
    /\ connected
    /\ pipe # << >>
    /\ received' = Append(received, Head(pipe))
    /\ pipe' = Tail(pipe)
    /\ UNCHANGED <<hPipe, connected, captureVars, dispatchVars, queue, controlVars>>

\* The client goes away; what it has not read is lost with the pipe.
ClientClose ==
    /\ connected
    /\ connected' = FALSE
    /\ pipe' = << >>
    /\ UNCHANGED <<hPipe, received, captureVars, dispatchVars, queue, controlVars>>

------------------------------------------------------------------------------
CapturerNext ==
    \/ CaptureLoop \/ CaptureItem \/ CaptureError \/ Push \/ NotifyNotEmpty

DispatcherNext ==
    \/ DispatchLoop \/ Pop \/ NotifyNotFull
    \/ WritePipe \/ DropItem \/ WriteFails

ControlNext ==
    \/ StartCapturer \/ StartDispatcher \/ StopRunning
    \/ JoinCapturer \/ JoinDispatcher \/ CloseSniffer

ClientNext == ClientRead \/ ClientClose

Next ==
    \/ CapturerNext \/ CaptureSpurious
    \/ DispatcherNext \/ DispatchSpurious
    \/ ControlNext
    \/ ClientNext

SafetySpec == Init /\ [][Next]_vars

\* Threads run whenever they can; starting, stopping and the client's leaving
\* are decisions of the outside.  A blocked WriteFile returns once the client
\* reads, and the client reads in a loop; it is sure to fail only when the
\* client is gone.  Spurious wake-ups are never owed.
Fairness ==
    /\ WF_vars(CapturerNext)
    /\ WF_vars(\/ DispatchLoop \/ Pop \/ NotifyNotFull \/ WritePipe
               \/ DropItem \/ (~connected /\ WriteFails))
    /\ WF_vars(StartDispatcher \/ JoinCapturer \/ JoinDispatcher \/ CloseSniffer)
    /\ WF_vars(ClientRead)

Spec == SafetySpec /\ Fairness

------------------------------------------------------------------------------
(* Properties                                                              *)

\* Items that have entered the buffer: the one in the capture thread's hands
\* has not.
Pushed == IF capturer \in {"push", "wait"} THEN captured - 1 ELSE captured

\* Items that left the dispatch thread for the pipe (or were dropped).
Handled == IF dispatcher \in {"signal", "write"} THEN item - 1 ELSE item

\* No wake-up is lost: a thread waits on a condition variable only while its
\* predicate is false or the other thread is about to notify it.  Push and Pop
\* notify after unlocking (Sniffer.cpp:14-15, 23-24), which is where a wake-up
\* would get lost.
NoLostWakeup ==
    /\ capturer = "wait" => ~HasRoom \/ dispatcher = "signal"
    /\ dispatcher = "wait" => queue = << >> \/ capturer = "signal"

\* Nothing is lost, duplicated or reordered on the way: buffer, dispatcher and
\* pipe hold consecutive runs of the captured items, and while the subscriber's
\* handle is valid and the client is there, the client's last item and the runs
\* join up.
Accounting ==
    /\ Len(queue) <= MaxSize
    /\ \A i \in 1..Len(queue) : queue[i] = Pushed - Len(queue) + i
    /\ item = Pushed - Len(queue)
    /\ Len(pipe) <= PipeCapacity
    /\ \A i \in 1..Len(pipe) : pipe[i] = Len(received) + i
    /\ Len(received) + Len(pipe) <= Handled
    /\ hPipe /\ connected => Len(received) + Len(pipe) = Handled

\* The client sees the capture from its first item on and without a gap, also
\* after failed writes: PipeWriterSubscriber stops writing for good
\* (Sniffer.cpp:215-217).
GaplessPrefix ==
    \A i \in 1..Len(received) : received[i] = i

\* The pcap handle is closed only when no thread can use it any more, and the
\* session is torn down only when both threads are gone (they use its buffer
\* and its flag by reference).
NoUseAfterClose ==
    /\ handle = "closed" => capturer \notin {"loop", "read", "push"}
    /\ control \in {"stopped", "closed"} => capturer = "done" /\ dispatcher = "done"

\* The two ways a Stop never returns: the dispatcher left while the capturer
\* waits for room, or the capturer left while the dispatcher waits for an item.
Stranded ==
    \/ capturer = "wait" /\ ~HasRoom /\ dispatcher = "done"
    \/ dispatcher = "wait" /\ queue = << >> /\ capturer = "done"

Stopping == control \in {"joinCapturer", "joinDispatcher", "stopped"}

\* A stop tears the session down, or ends in one of the two stranded states:
\* there is no third way to hang.
StopEndsOrStrands == Stopping ~> (control = "closed" \/ Stranded)

\* A stop that gets stuck is stranded: two threads that can no more go on have
\* either both left their loops, so that the joins return, or one has left and
\* the other waits for it.  They never wait for each other.
HangsOnlyStranded ==
    /\ ~(capturer = "wait" /\ dispatcher = "wait")
    /\ Stopping /\ {capturer, dispatcher} \subseteq {"wait", "done"} =>
         Stranded \/ {capturer, dispatcher} = {"done"}

\* Once stranded, Stop never gets past its joins, and the session is never torn
\* down: not even a spurious wake-up helps, since no one is left to make room or
\* to push an item (Sniffer.cpp:302-307).
StrandedForGood == [](Stranded => [](control \notin {"stopped", "closed"}))

\* What fnStopCapture is for ("signals C++ to stop packet capture",
\* StopCapturePtr.cs:6): a stop is followed by the end of the session.
StopCompletes == Stopping ~> control = "closed"

\* As long as nobody stops the session and the pipe works, every captured item
\* reaches the client.
ItemsArrive ==
    \A n \in 1..MaxItems :
        captured >= n ~> (Len(received) >= n \/ ~running \/ ~hPipe \/ ~connected)

\* The session implements the channel of PacketChannel.
Channel == INSTANCE PacketChannel WITH
    Capacity <- MaxSize + PipeCapacity + 1,
    accepted <- Pushed,
    received <- received,
    open     <- hPipe /\ connected

ImplementsChannel == Channel!ChannelSpec
==============================================================================
