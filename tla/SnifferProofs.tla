---------------------------- MODULE SnifferProofs ----------------------------
(***************************************************************************)
(* Proofs about one capture session, for every buffer size, pipe capacity  *)
(* and number of items.                                                    *)
(***************************************************************************)
EXTENDS Sniffer, SequenceTheorems, TLAPS

\* Where the threads are, given where mainFunc's thread is, and what the
\* dispatch thread holds while it handles an item.
Phases ==
    /\ control = "built" => capturer = "idle" /\ dispatcher = "idle"
    /\ control = "starting" => dispatcher = "idle"
    /\ control \in {"joinDispatcher", "stopped", "closed"} => capturer = "done"
    /\ control \in {"stopped", "closed"} => dispatcher = "done"
    /\ handle = "closed" => control = "closed"
    /\ dispatcher \in {"signal", "write"} => item >= 1

SnifferInv ==
    /\ TypeOK
    /\ Phases
    /\ NoLostWakeup
    /\ Accounting
    /\ GaplessPrefix

\* What Head and Tail do to a sequence, in one place.
LEMMA HeadTailFacts ==
    ASSUME NEW S, NEW s \in Seq(S), s # << >>
    PROVE  /\ Head(s) \in S
           /\ Head(s) = s[1]
           /\ Tail(s) \in Seq(S)
           /\ Len(s) \in Nat \ {0}
           /\ Len(Tail(s)) = Len(s) - 1
           /\ \A i \in 1..Len(Tail(s)) : Tail(s)[i] = s[i + 1]
<1>1. Head(s) = s[1]
    OBVIOUS
<1>2. Len(s) \in Nat \ {0}
    BY EmptySeq, LenProperties
<1> QED BY <1>1, <1>2, HeadTailProperties

\* What Append does to a sequence, in one place.
LEMMA AppendFacts ==
    ASSUME NEW S, NEW s \in Seq(S), NEW e \in S
    PROVE  /\ Append(s, e) \in Seq(S)
           /\ Len(s) \in Nat
           /\ Len(Append(s, e)) = Len(s) + 1
           /\ \A i \in 1..Len(s) : Append(s, e)[i] = s[i]
           /\ Append(s, e)[Len(s) + 1] = e
           /\ Append(s, e) # << >>
<1>1. Len(s) \in Nat
    BY LenProperties
<1> QED BY <1>1, AppendProperties

\* The initial states satisfy the inductive invariant.
LEMMA InitInv == Init => SnifferInv
<1> SUFFICES ASSUME Init PROVE SnifferInv
    OBVIOUS
<1> USE SnifferAssumption DEF Init
<1>1. TypeOK
    <2>1. hPipe \in BOOLEAN /\ connected \in BOOLEAN /\ running \in BOOLEAN
        BY Zenon
    <2>2. << >> \in Seq(1..MaxItems)
        BY EmptySeq
    <2>3. 0 \in 0..MaxItems
        OBVIOUS
    <2> QED BY <2>1, <2>2, <2>3 DEF TypeOK, CapturerStates, DispatcherStates,
                                     ControlStates
<1>2. Phases /\ NoLostWakeup
    BY DEF Phases, NoLostWakeup
<1>3. Accounting /\ GaplessPrefix
    BY DEF Accounting, GaplessPrefix, Pushed, Handled
<1> QED BY <1>1, <1>2, <1>3 DEF SnifferInv

\* The steps of the capture thread preserve the inductive invariant.
LEMMA CapturerInv ==
    SnifferInv /\ (CapturerNext \/ CaptureSpurious) => SnifferInv'
<1> SUFFICES ASSUME SnifferInv, CapturerNext \/ CaptureSpurious
             PROVE  SnifferInv'
    OBVIOUS
<1> USE SnifferAssumption
<1> USE DEF SnifferInv, TypeOK, CapturerStates, DispatcherStates, ControlStates,
            dispatchVars, pipeVars, controlVars
<1> DEFINE Quiet == /\ UNCHANGED <<queue, received, pipe, hPipe, connected>>
                    /\ Pushed' = Pushed
                    /\ Handled' = Handled
                    /\ item' = item
<1>1. Quiet => Accounting' /\ GaplessPrefix'
    BY DEF Accounting, GaplessPrefix
<1>2. CASE CaptureLoop
    <2>1. Quiet
        BY <1>2 DEF CaptureLoop, Pushed, Handled
    <2>2. TypeOK' /\ Phases' /\ NoLostWakeup'
        BY <1>2 DEF CaptureLoop, Phases, NoLostWakeup, HasRoom
    <2> QED BY <1>1, <2>1, <2>2
<1>3. CASE CaptureItem
    <2>1. Quiet
        BY <1>3 DEF CaptureItem, Pushed, Handled
    <2>2. TypeOK' /\ Phases' /\ NoLostWakeup'
        BY <1>3 DEF CaptureItem, Phases, NoLostWakeup, HasRoom
    <2> QED BY <1>1, <2>1, <2>2
<1>4. CASE CaptureError
    <2>1. Quiet
        BY <1>4 DEF CaptureError, Pushed, Handled
    <2>2. TypeOK' /\ Phases' /\ NoLostWakeup'
        BY <1>4 DEF CaptureError, Phases, NoLostWakeup, HasRoom
    <2> QED BY <1>1, <2>1, <2>2
<1>5. CASE Push
    <2>1. CASE HasRoom
        <3>1. /\ queue' = Append(queue, captured)
              /\ capturer = "push" /\ capturer' = "signal"
              /\ UNCHANGED <<captured, dispatcher, item, running, handle, control,
                             hPipe, pipe, connected, received>>
            BY <1>5, <2>1 DEF Push
        <3>2. captured \in 1..MaxItems
            BY <3>1 DEF Accounting, Pushed
        <3>3. /\ queue' \in Seq(1..MaxItems)
              /\ Len(queue') = Len(queue) + 1
              /\ \A i \in 1..Len(queue) : queue'[i] = queue[i]
              /\ queue'[Len(queue) + 1] = captured
              /\ queue' # << >>
            <4> HIDE DEF SnifferInv, TypeOK
            <4>1. queue \in Seq(1..MaxItems)
                BY DEF SnifferInv, TypeOK
            <4> QED BY <3>1, <3>2, <4>1, AppendFacts
        <3>4. TypeOK' /\ Phases' /\ NoLostWakeup' /\ GaplessPrefix'
            BY <3>1, <3>3 DEF Phases, NoLostWakeup, GaplessPrefix
        <3>5. Pushed' = Pushed + 1 /\ Pushed = captured - 1 /\ Handled' = Handled
            BY <3>1 DEF Pushed, Handled
        <3>6. Accounting'
            <4>1. /\ \A i \in 1..Len(queue)' : queue'[i] = Pushed' - Len(queue') + i
                  /\ Len(queue') <= MaxSize
                  /\ item' = Pushed' - Len(queue')
                <5>1. Len(queue) \in Nat /\ Pushed \in Int
                    BY LenProperties DEF Pushed
                <5>2. Len(queue') <= MaxSize /\ item' = Pushed' - Len(queue')
                    BY <2>1, <3>1, <3>3, <3>5, <5>1 DEF Accounting, HasRoom
                <5>3. ASSUME NEW i \in 1..Len(queue')
                      PROVE  queue'[i] = Pushed' - Len(queue') + i
                    <6>1. CASE i = Len(queue) + 1
                        BY <3>3, <3>5, <5>1, <6>1
                    <6>2. CASE i # Len(queue) + 1
                        <7>1. i \in 1..Len(queue)
                            BY <3>3, <5>1, <6>2
                        <7>2. queue[i] = Pushed - Len(queue) + i
                            BY <7>1 DEF Accounting
                        <7> QED BY <3>3, <3>5, <5>1, <7>1, <7>2
                    <6> QED BY <6>1, <6>2
                <5> QED BY <5>2, <5>3
            <4> QED BY <3>1, <3>5, <4>1 DEF Accounting
        <3> QED BY <3>4, <3>6
    <2>2. CASE ~HasRoom
        <3>1. Quiet
            BY <1>5, <2>2 DEF Push, Pushed, Handled
        <3>2. TypeOK' /\ Phases' /\ NoLostWakeup'
            BY <1>5, <2>2 DEF Push, Phases, NoLostWakeup, HasRoom
        <3> QED BY <1>1, <3>1, <3>2
    <2> QED BY <2>1, <2>2
<1>6. CASE NotifyNotEmpty
    <2>1. Quiet
        BY <1>6 DEF NotifyNotEmpty, Pushed, Handled
    <2>2. TypeOK' /\ Phases' /\ NoLostWakeup'
        BY <1>6 DEF NotifyNotEmpty, Phases, NoLostWakeup, HasRoom
    <2> QED BY <1>1, <2>1, <2>2
<1>7. CASE CaptureSpurious
    <2>1. Quiet
        BY <1>7 DEF CaptureSpurious, Pushed, Handled
    <2>2. TypeOK' /\ Phases' /\ NoLostWakeup'
        BY <1>7 DEF CaptureSpurious, Phases, NoLostWakeup, HasRoom
    <2> QED BY <1>1, <2>1, <2>2
<1> QED BY <1>2, <1>3, <1>4, <1>5, <1>6, <1>7 DEF CapturerNext

\* The steps of the dispatch thread preserve the inductive invariant.
LEMMA DispatcherInv ==
    SnifferInv /\ (DispatcherNext \/ DispatchSpurious) => SnifferInv'
<1> SUFFICES ASSUME SnifferInv, DispatcherNext \/ DispatchSpurious
             PROVE  SnifferInv'
    OBVIOUS
<1> USE SnifferAssumption
<1> USE DEF SnifferInv, TypeOK, CapturerStates, DispatcherStates, ControlStates,
            captureVars, dispatchVars, pipeVars, controlVars
<1> DEFINE Quiet == /\ UNCHANGED <<queue, received, pipe, hPipe, connected>>
                    /\ Pushed' = Pushed
                    /\ Handled' = Handled
                    /\ item' = item
<1>1. Quiet => Accounting' /\ GaplessPrefix'
    BY DEF Accounting, GaplessPrefix
<1>2. CASE DispatchLoop
    <2>1. Quiet
        BY <1>2 DEF DispatchLoop, Pushed, Handled
    <2>2. TypeOK' /\ Phases' /\ NoLostWakeup'
        BY <1>2 DEF DispatchLoop, Phases, NoLostWakeup, HasRoom
    <2> QED BY <1>1, <2>1, <2>2
<1>3. CASE Pop
    <2>1. CASE queue # << >>
        <3>1. /\ item' = Head(queue) /\ queue' = Tail(queue)
              /\ dispatcher = "pop" /\ dispatcher' = "signal"
              /\ UNCHANGED <<captured, capturer, running, handle, control,
                             hPipe, pipe, connected, received>>
            BY <1>3, <2>1 DEF Pop
        <3>2. /\ item' = queue[1] /\ item' \in 1..MaxItems
              /\ queue' \in Seq(1..MaxItems)
              /\ Len(queue) \in Nat \ {0}
              /\ Len(queue') = Len(queue) - 1
              /\ \A i \in 1..Len(queue') : queue'[i] = queue[i + 1]
            <4> HIDE DEF SnifferInv, TypeOK
            <4>1. queue \in Seq(1..MaxItems)
                BY DEF SnifferInv, TypeOK
            <4> QED BY <2>1, <3>1, <4>1, HeadTailFacts
        <3>3. TypeOK' /\ Phases' /\ NoLostWakeup' /\ GaplessPrefix'
            BY <3>1, <3>2 DEF Phases, NoLostWakeup, GaplessPrefix
        <3>4. Pushed' = Pushed /\ Handled' = item' - 1 /\ Handled = item
            BY <3>1 DEF Pushed, Handled
        <3>5. Pushed \in Int
            BY DEF Pushed
        <3>6. item' = item + 1 /\ item' = Pushed' - Len(queue')
            BY <3>2, <3>4, <3>5 DEF Accounting
        <3>7. ASSUME NEW i \in 1..Len(queue')
              PROVE  queue'[i] = Pushed' - Len(queue') + i
            <4>1. i + 1 \in 1..Len(queue)
                BY <3>2
            <4>2. queue[i + 1] = Pushed - Len(queue) + (i + 1)
                BY <4>1 DEF Accounting
            <4> QED BY <3>2, <3>4, <3>5, <4>2
        <3>8. Handled' = Handled
            BY <3>4, <3>6
        <3>9. Accounting'
            BY <3>1, <3>2, <3>6, <3>7, <3>8 DEF Accounting
        <3> QED BY <3>3, <3>9
    <2>2. CASE queue = << >>
        <3>1. Quiet
            BY <1>3, <2>2 DEF Pop, Pushed, Handled
        <3>2. TypeOK' /\ Phases' /\ NoLostWakeup'
            BY <1>3, <2>2 DEF Pop, Phases, NoLostWakeup, HasRoom
        <3> QED BY <1>1, <3>1, <3>2
    <2> QED BY <2>1, <2>2
<1>4. CASE NotifyNotFull
    <2>1. Quiet
        BY <1>4 DEF NotifyNotFull, Pushed, Handled
    <2>2. TypeOK' /\ Phases' /\ NoLostWakeup'
        BY <1>4 DEF NotifyNotFull, Phases, NoLostWakeup, HasRoom
    <2> QED BY <1>1, <2>1, <2>2
<1>5. CASE WritePipe
    <2>1. /\ pipe' = Append(pipe, item) /\ Len(pipe) < PipeCapacity
          /\ dispatcher = "write" /\ dispatcher' = "loop" /\ hPipe /\ connected
          /\ UNCHANGED <<item, captured, capturer, queue, running, handle, control,
                         hPipe, connected, received>>
        BY <1>5 DEF WritePipe
    <2>2. item \in 1..MaxItems
        BY <2>1 DEF Phases
    <2>3. /\ pipe' \in Seq(1..MaxItems)
          /\ Len(pipe) \in Nat
          /\ Len(pipe') = Len(pipe) + 1
          /\ \A i \in 1..Len(pipe) : pipe'[i] = pipe[i]
          /\ pipe'[Len(pipe) + 1] = item
        <3> HIDE DEF SnifferInv, TypeOK
        <3>1. pipe \in Seq(1..MaxItems)
            BY DEF SnifferInv, TypeOK
        <3> QED BY <2>1, <2>2, <3>1, AppendFacts
    <2>4. TypeOK' /\ Phases' /\ NoLostWakeup' /\ GaplessPrefix'
        BY <2>1, <2>3 DEF Phases, NoLostWakeup, GaplessPrefix, HasRoom
    <2>5. Pushed' = Pushed /\ Handled = item - 1 /\ Handled' = item
        BY <2>1 DEF Pushed, Handled
    <2>6. Len(received) \in Nat
        BY LenProperties
    <2>7. Len(received') + Len(pipe') = Handled'
        <3>1. Len(received) + Len(pipe) = Handled
            BY <2>1, Zenon DEF Accounting
        <3>2. Len(received') = Len(received)
            BY <2>1
        <3> QED BY <2>3, <2>5, <2>6, <3>1, <3>2
    <2>8. ASSUME NEW i \in 1..Len(pipe')
          PROVE  pipe'[i] = Len(received') + i
        <3>1. Len(received') = Len(received)
            BY <2>1
        <3>2. CASE i = Len(pipe) + 1
            BY <2>3, <2>5, <2>6, <2>7, <3>1, <3>2
        <3>3. CASE i # Len(pipe) + 1
            <4>1. i \in 1..Len(pipe)
                BY <2>3, <3>3
            <4>2. pipe[i] = Len(received) + i
                BY <4>1 DEF Accounting
            <4> QED BY <2>3, <3>1, <4>1, <4>2
        <3> QED BY <3>2, <3>3
    <2>9. Accounting'
        <3>1. Len(pipe') <= PipeCapacity /\ Len(received') + Len(pipe') <= Handled'
            BY <2>1, <2>3, <2>5, <2>7
        <3>2. /\ Len(queue') <= MaxSize
              /\ item' = Pushed' - Len(queue')
              /\ \A i \in 1..Len(queue)' : queue'[i] = Pushed' - Len(queue') + i
            BY <2>1, <2>5 DEF Accounting
        <3> QED BY <2>7, <2>8, <3>1, <3>2 DEF Accounting
    <2> QED BY <2>4, <2>9
<1>6. CASE WriteFails
    <2>1. /\ dispatcher = "write" /\ dispatcher' = "loop" /\ hPipe' = FALSE
          /\ UNCHANGED <<item, captured, capturer, queue, running, handle, control,
                         pipe, connected, received>>
        BY <1>6 DEF WriteFails
    <2>2. TypeOK' /\ Phases' /\ NoLostWakeup' /\ GaplessPrefix'
        BY <2>1 DEF Phases, NoLostWakeup, GaplessPrefix, HasRoom
    <2>3. Pushed' = Pushed /\ Handled = item - 1 /\ Handled' = item
        BY <2>1 DEF Pushed, Handled
    <2>4. Len(pipe) \in Nat /\ Len(received) \in Nat
        BY LenProperties
    <2>5. Accounting'
        BY <2>1, <2>3, <2>4 DEF Accounting
    <2> QED BY <2>2, <2>5
<1>7. CASE DropItem
    <2>1. /\ dispatcher = "write" /\ dispatcher' = "loop" /\ ~hPipe
          /\ UNCHANGED <<item, captured, capturer, queue, running, handle, control,
                         hPipe, pipe, connected, received>>
        BY <1>7 DEF DropItem
    <2>2. TypeOK' /\ Phases' /\ NoLostWakeup' /\ GaplessPrefix'
        BY <2>1 DEF Phases, NoLostWakeup, GaplessPrefix, HasRoom
    <2>3. Pushed' = Pushed /\ Handled = item - 1 /\ Handled' = item
        BY <2>1 DEF Pushed, Handled
    <2>4. Len(pipe) \in Nat /\ Len(received) \in Nat
        BY LenProperties
    <2>5. Accounting'
        BY <2>1, <2>3, <2>4 DEF Accounting
    <2> QED BY <2>2, <2>5
<1>8. CASE DispatchSpurious
    <2>1. Quiet
        BY <1>8 DEF DispatchSpurious, Pushed, Handled
    <2>2. TypeOK' /\ Phases' /\ NoLostWakeup'
        BY <1>8 DEF DispatchSpurious, Phases, NoLostWakeup, HasRoom
    <2> QED BY <1>1, <2>1, <2>2
<1> QED BY <1>2, <1>3, <1>4, <1>5, <1>6, <1>7, <1>8 DEF DispatcherNext

\* The steps of mainFunc's thread preserve the inductive invariant.
LEMMA ControlInv ==
    SnifferInv /\ ControlNext => SnifferInv'
<1> SUFFICES ASSUME SnifferInv, ControlNext
             PROVE  SnifferInv'
    OBVIOUS
<1> USE SnifferAssumption
<1> USE DEF SnifferInv, TypeOK, CapturerStates, DispatcherStates, ControlStates,
            captureVars, dispatchVars, pipeVars
<1> DEFINE Quiet == /\ UNCHANGED <<queue, received, pipe, hPipe, connected>>
                    /\ Pushed' = Pushed
                    /\ Handled' = Handled
                    /\ item' = item
<1>1. Quiet => Accounting' /\ GaplessPrefix'
    BY DEF Accounting, GaplessPrefix
<1>2. CASE StartCapturer
    <2>1. Quiet
        BY <1>2 DEF StartCapturer, Pushed, Handled, Phases
    <2>2. TypeOK' /\ Phases' /\ NoLostWakeup'
        BY <1>2 DEF StartCapturer, Phases, NoLostWakeup, HasRoom
    <2> QED BY <1>1, <2>1, <2>2
<1>3. CASE StartDispatcher
    <2>1. Quiet
        BY <1>3 DEF StartDispatcher, Pushed, Handled, Phases
    <2>2. TypeOK' /\ Phases' /\ NoLostWakeup'
        BY <1>3 DEF StartDispatcher, Phases, NoLostWakeup, HasRoom
    <2> QED BY <1>1, <2>1, <2>2
<1>4. CASE StopRunning
    <2>1. Quiet
        BY <1>4 DEF StopRunning, Pushed, Handled
    <2>2. TypeOK' /\ Phases' /\ NoLostWakeup'
        BY ZenonT(60), <1>4 DEF StopRunning, Phases, NoLostWakeup, HasRoom
    <2> QED BY <1>1, <2>1, <2>2
<1>5. CASE JoinCapturer
    <2>1. Quiet
        BY <1>5 DEF JoinCapturer, Pushed, Handled
    <2>2. TypeOK' /\ Phases' /\ NoLostWakeup'
        BY <1>5 DEF JoinCapturer, Phases, NoLostWakeup, HasRoom
    <2> QED BY <1>1, <2>1, <2>2
<1>6. CASE JoinDispatcher
    <2>1. Quiet
        BY <1>6 DEF JoinDispatcher, Pushed, Handled
    <2>2. TypeOK' /\ Phases' /\ NoLostWakeup'
        BY <1>6 DEF JoinDispatcher, Phases, NoLostWakeup, HasRoom
    <2> QED BY <1>1, <2>1, <2>2
<1>7. CASE CloseSniffer
    <2>1. Quiet
        BY <1>7 DEF CloseSniffer, Pushed, Handled
    <2>2. TypeOK' /\ Phases' /\ NoLostWakeup'
        BY <1>7 DEF CloseSniffer, Phases, NoLostWakeup, HasRoom
    <2> QED BY <1>1, <2>1, <2>2
<1> QED BY <1>2, <1>3, <1>4, <1>5, <1>6, <1>7 DEF ControlNext

\* The steps of the pipe's client preserve the inductive invariant.
LEMMA ClientInv ==
    SnifferInv /\ ClientNext => SnifferInv'
<1> SUFFICES ASSUME SnifferInv, ClientNext
             PROVE  SnifferInv'
    OBVIOUS
<1> USE SnifferAssumption
<1> USE DEF SnifferInv, TypeOK, CapturerStates, DispatcherStates, ControlStates,
            captureVars, dispatchVars, controlVars
<1>1. Len(pipe) \in Nat /\ Len(received) \in Nat
    BY LenProperties
<1>2. CASE ClientRead
    <2>1. /\ received' = Append(received, Head(pipe)) /\ pipe' = Tail(pipe)
          /\ pipe # << >>
          /\ UNCHANGED <<item, captured, capturer, dispatcher, queue, running, handle,
                         control, hPipe, connected>>
        BY <1>2 DEF ClientRead
    <2>2. /\ Head(pipe) = pipe[1] /\ Head(pipe) \in 1..MaxItems
          /\ pipe' \in Seq(1..MaxItems)
          /\ Len(pipe) \in Nat \ {0}
          /\ Len(pipe') = Len(pipe) - 1
          /\ \A i \in 1..Len(pipe') : pipe'[i] = pipe[i + 1]
        <3> HIDE DEF SnifferInv, TypeOK
        <3>1. pipe \in Seq(1..MaxItems)
            BY DEF SnifferInv, TypeOK
        <3> QED BY <2>1, <3>1, HeadTailFacts
    <2>3. /\ received' \in Seq(1..MaxItems)
          /\ Len(received') = Len(received) + 1
          /\ \A i \in 1..Len(received) : received'[i] = received[i]
          /\ received'[Len(received) + 1] = Head(pipe)
        <3> HIDE DEF SnifferInv, TypeOK
        <3>1. received \in Seq(1..MaxItems)
            BY DEF SnifferInv, TypeOK
        <3> QED BY <2>1, <2>2, <3>1, AppendFacts
    <2>4. TypeOK' /\ Phases' /\ NoLostWakeup'
        BY <2>1, <2>2, <2>3 DEF Phases, NoLostWakeup, HasRoom
    <2>5. Pushed' = Pushed /\ Handled' = Handled
        BY <2>1 DEF Pushed, Handled
    <2>6. Head(pipe) = Len(received) + 1
        BY <1>1, <2>2 DEF Accounting
    <2>7. GaplessPrefix'
        <3>1. ASSUME NEW i \in 1..Len(received')
              PROVE  received'[i] = i
            <4>1. CASE i = Len(received) + 1
                BY <2>3, <2>6, <4>1
            <4>2. CASE i # Len(received) + 1
                <5>1. i \in 1..Len(received)
                    BY <1>1, <2>3, <4>2
                <5> QED BY <2>3, <5>1 DEF GaplessPrefix
            <4> QED BY <4>1, <4>2
        <3> QED BY <3>1 DEF GaplessPrefix
    <2>8. ASSUME NEW i \in 1..Len(pipe')
          PROVE  pipe'[i] = Len(received') + i
        <3>1. i + 1 \in 1..Len(pipe) /\ pipe'[i] = pipe[i + 1]
            BY <2>2
        <3>2. pipe[i + 1] = Len(received) + (i + 1)
            BY <3>1 DEF Accounting
        <3> QED BY <1>1, <2>3, <3>1, <3>2
    <2>9. Accounting'
        BY <1>1, <2>1, <2>2, <2>3, <2>5, <2>8 DEF Accounting
    <2> QED BY <2>4, <2>7, <2>9
<1>3. CASE ClientClose
    <2>1. /\ pipe' = << >> /\ connected' = FALSE
          /\ UNCHANGED <<item, captured, capturer, dispatcher, queue, running, handle,
                         control, hPipe, received>>
        BY <1>3 DEF ClientClose
    <2>2. TypeOK' /\ Phases' /\ NoLostWakeup' /\ GaplessPrefix'
        <3>1. pipe' \in Seq(1..MaxItems)
            BY <2>1, EmptySeq
        <3>2. connected' \in BOOLEAN
            BY <2>1
        <3>3. TypeOK'
            BY <2>1, <3>1, <3>2
        <3>4. Phases' /\ NoLostWakeup'
            BY <2>1 DEF Phases, NoLostWakeup, HasRoom
        <3>5. GaplessPrefix'
            BY <2>1 DEF GaplessPrefix
        <3> QED BY <3>3, <3>4, <3>5
    <2>3. Pushed' = Pushed /\ Handled' = Handled /\ Handled \in Int
        BY <2>1 DEF Pushed, Handled
    <2>4. Accounting'
        BY <1>1, <2>1, <2>3 DEF Accounting
    <2> QED BY <2>2, <2>4
<1> QED BY <1>2, <1>3 DEF ClientNext

\* Stuttering.
LEMMA StutterInv == SnifferInv /\ UNCHANGED vars => SnifferInv'
BY DEF SnifferInv, TypeOK, Phases, NoLostWakeup, HasRoom, Accounting,
       GaplessPrefix, Pushed, Handled, vars

\* The strengthened invariant holds in every state of every behaviour of the
\* capture session (Sniffer.cpp).
THEOREM Invariance == SafetySpec => []SnifferInv
<1>1. SnifferInv /\ [Next]_vars => SnifferInv'
    BY CapturerInv, DispatcherInv, ControlInv, ClientInv, StutterInv DEF Next
<1> QED BY <1>1, InitInv, PTL DEF SafetySpec

\* Variables keep to their sets (the buffer, the pipe and the client hold items
\* of this session only).
THEOREM TypeCorrect == SafetySpec => []TypeOK
<1>1. SnifferInv => TypeOK
    BY DEF SnifferInv
<1> QED BY <1>1, Invariance, PTL

\* Push and Pop never lose a wake-up, although both notify after unlocking.
THEOREM WakeupsKept == SafetySpec => []NoLostWakeup
<1>1. SnifferInv => NoLostWakeup
    BY DEF SnifferInv
<1> QED BY <1>1, Invariance, PTL

\* Between the capture thread and the client no item is lost, duplicated or
\* reordered while the pipe works, and the buffer never exceeds maxSize.
THEOREM ItemsAccounted == SafetySpec => []Accounting
<1>1. SnifferInv => Accounting
    BY DEF SnifferInv
<1> QED BY <1>1, Invariance, PTL

\* What the client has read is the capture from its first item on, without a
\* gap, whatever failed.
THEOREM ClientSeesPrefix == SafetySpec => []GaplessPrefix
<1>1. SnifferInv => GaplessPrefix
    BY DEF SnifferInv
<1> QED BY <1>1, Invariance, PTL

\* ~Sniffer closes the pcap handle only when both threads are gone.
THEOREM HandleClosedLast == SafetySpec => []NoUseAfterClose
<1>1. SnifferInv => NoUseAfterClose
    BY DEF SnifferInv, Phases, NoUseAfterClose
<1> QED BY <1>1, Invariance, PTL

\* A stop gets stuck in the two ways of Stranded only: the threads of a session
\* do not wait for each other, for every buffer size.
THEOREM StopsHangStranded == SafetySpec => []HangsOnlyStranded
<1>1. SnifferInv => HangsOnlyStranded
    <2> SUFFICES ASSUME SnifferInv PROVE HangsOnlyStranded
        OBVIOUS
    <2>1. NoLostWakeup /\ queue \in Seq(1..MaxItems)
        BY DEF SnifferInv, TypeOK
    <2>2. capturer = "wait" => ~HasRoom \/ dispatcher = "signal"
        BY <2>1 DEF NoLostWakeup
    <2>3. dispatcher = "wait" => queue = << >> \/ capturer = "signal"
        BY <2>1 DEF NoLostWakeup
    <2>4. queue = << >> => HasRoom
        BY SnifferAssumption DEF HasRoom
    <2>5. ~(capturer = "wait" /\ dispatcher = "wait")
        BY <2>2, <2>3, <2>4
    <2>6. ASSUME {capturer, dispatcher} \subseteq {"wait", "done"}
          PROVE  Stranded \/ {capturer, dispatcher} = {"done"}
        BY <2>2, <2>3, <2>5, <2>6 DEF Stranded
    <2> QED BY <2>5, <2>6 DEF HangsOnlyStranded
<1> QED BY <1>1, Invariance, PTL

\* What a stranded session stays in, whichever thread wakes up spuriously: one
\* thread has left, and the other is in Push without room, or in Pop without an
\* item.
Hopeless ==
    \/ capturer \in {"push", "wait"} /\ ~HasRoom /\ dispatcher = "done"
    \/ dispatcher \in {"pop", "wait"} /\ queue = << >> /\ capturer = "done"

\* No step leads out of it.
LEMMA HopelessStep == SnifferInv /\ Hopeless /\ [Next]_vars => Hopeless'
<1> SUFFICES ASSUME SnifferInv, Hopeless, [Next]_vars PROVE Hopeless'
    OBVIOUS
<1>1. /\ control = "built" => capturer = "idle" /\ dispatcher = "idle"
      /\ control = "starting" => dispatcher = "idle"
    BY DEF SnifferInv, Phases
<1>2. ASSUME UNCHANGED <<capturer, dispatcher, queue>> PROVE Hopeless'
    BY <1>2 DEF Hopeless, HasRoom
<1>3. CASE CapturerNext \/ CaptureSpurious
    BY <1>3 DEF Hopeless, HasRoom, CapturerNext, CaptureLoop, CaptureItem, CaptureError, Push,
       NotifyNotEmpty, CaptureSpurious, dispatchVars
<1>4. CASE DispatcherNext \/ DispatchSpurious
    BY <1>4 DEF Hopeless, HasRoom, DispatcherNext, DispatchLoop, Pop, NotifyNotFull, WritePipe,
       DropItem, WriteFails, DispatchSpurious, captureVars
<1>5. CASE StartCapturer \/ StartDispatcher
    BY <1>1, <1>5 DEF Hopeless, StartCapturer, StartDispatcher
<1>6. CASE StopRunning \/ JoinCapturer \/ JoinDispatcher \/ CloseSniffer
    BY <1>2, <1>6 DEF StopRunning, JoinCapturer, JoinDispatcher, CloseSniffer, captureVars,
       dispatchVars
<1>7. CASE ClientNext \/ UNCHANGED vars
    BY <1>2, <1>7 DEF ClientNext, ClientRead, ClientClose, captureVars, dispatchVars, vars
<1> QED BY <1>3, <1>4, <1>5, <1>6, <1>7 DEF Next, ControlNext

\* A stranded stop stays stranded: the session is never torn down, for every
\* buffer size and with any number of spurious wake-ups (Sniffer.cpp:302-307).
THEOREM StrandedNeverEnds == SafetySpec => StrandedForGood
<1>1. Stranded => Hopeless
    BY DEF Stranded, Hopeless
<1>2. SnifferInv /\ Hopeless => control \notin {"stopped", "closed"}
    BY DEF SnifferInv, Phases, Hopeless
<1> QED BY <1>1, <1>2, HopelessStep, Invariance, PTL DEF SafetySpec, StrandedForGood

\* Every step of the session is a step of the channel or leaves it unchanged.
LEMMA ChannelStep ==
    SnifferInv /\ [Next]_vars => [Channel!ChannelNext]_(Channel!channelVars)
<1> SUFFICES ASSUME SnifferInv, [Next]_vars
             PROVE  \/ Channel!ChannelNext
                    \/ UNCHANGED <<Pushed, received, hPipe /\ connected>>
    BY DEF Channel!channelVars
<1> USE SnifferAssumption
<1>1. /\ Len(queue) \in Nat /\ Len(pipe) \in Nat /\ Len(received) \in Nat
      /\ Pushed \in Int /\ Handled \in Int
      /\ captured \in Int /\ item \in Int
    BY LenProperties DEF SnifferInv, TypeOK, Pushed, Handled
<1>2. CASE Push /\ HasRoom
    <2>1. /\ capturer = "push" /\ capturer' = "signal" /\ captured' = captured
          /\ UNCHANGED <<received, hPipe, connected>>
        BY <1>2 DEF Push, pipeVars
    <2>2. Pushed' = Pushed + 1
        BY <1>1, <2>1 DEF Pushed
    <2>3. ASSUME hPipe /\ connected
          PROVE  Pushed - Len(received) < MaxSize + PipeCapacity + 1
        <3>1. Len(received) + Len(pipe) = Handled
            BY <2>3, Zenon DEF SnifferInv, Accounting
        <3>2. Pushed = item + Len(queue) /\ item <= Handled + 1
            BY <1>1 DEF SnifferInv, Accounting, Handled
        <3>3. Len(queue) < MaxSize /\ Len(pipe) <= PipeCapacity
            BY <1>2 DEF SnifferInv, Accounting, HasRoom
        <3> QED BY <1>1, <3>1, <3>2, <3>3
    <2>4. Channel!Accept
        BY <2>1, <2>2, <2>3, Zenon DEF Channel!Accept
    <2> QED BY <2>4 DEF Channel!ChannelNext
<1>3. CASE ClientRead
    <2>1. /\ received' = Append(received, Head(pipe)) /\ pipe # << >>
          /\ UNCHANGED <<captured, capturer, hPipe, connected>>
        BY <1>3 DEF ClientRead, captureVars
    <2>2. Head(pipe) = pipe[1] /\ Len(pipe) >= 1
        <3>1. pipe \in Seq(1..MaxItems)
            BY DEF SnifferInv, TypeOK
        <3> QED BY <1>1, <2>1, <3>1, HeadTailFacts
    <2>3. Head(pipe) = Len(received) + 1
        BY <1>1, <2>2 DEF SnifferInv, Accounting
    <2>4. Len(received) < Pushed
        <3>1. Len(received) + Len(pipe) <= Handled /\ item = Pushed - Len(queue)
            BY DEF SnifferInv, Accounting
        <3>2. Handled <= item
            BY <1>1 DEF Handled
        <3> QED BY <1>1, <2>2, <3>1, <3>2
    <2>5. Pushed' = Pushed
        BY <2>1 DEF Pushed
    <2> QED BY <2>1, <2>3, <2>4, <2>5 DEF Channel!Deliver, Channel!ChannelNext
<1>4. ASSUME hPipe' = FALSE \/ connected' = FALSE,
             UNCHANGED <<captured, capturer, received>>
      PROVE  \/ Channel!ChannelNext
             \/ UNCHANGED <<Pushed, received, hPipe /\ connected>>
    <2>1. Pushed' = Pushed
        BY <1>4 DEF Pushed
    <2>2. (hPipe /\ connected)' = FALSE
        BY <1>4, Zenon
    <2>3. CASE hPipe /\ connected
        BY <1>4, <2>1, <2>2, <2>3 DEF Channel!Break, Channel!ChannelNext
    <2>4. CASE ~(hPipe /\ connected)
        <3>1. (hPipe /\ connected) = FALSE
            BY <2>4
        <3> QED BY <1>4, <2>1, <2>2, <3>1
    <2> QED BY <2>3, <2>4
<1>5. CASE WriteFails \/ ClientClose
    BY <1>4, <1>5 DEF WriteFails, ClientClose, captureVars
<1>6. ASSUME UNCHANGED <<received, hPipe, connected>>, Pushed' = Pushed
      PROVE  UNCHANGED <<Pushed, received, hPipe /\ connected>>
    BY <1>6
<1>7. CASE \/ CaptureLoop \/ CaptureItem \/ CaptureError \/ NotifyNotEmpty
           \/ CaptureSpurious \/ (Push /\ ~HasRoom)
    <2>1. Pushed' = Pushed /\ UNCHANGED <<received, hPipe, connected>>
        BY <1>1, <1>7 DEF CaptureLoop, CaptureItem, CaptureError, NotifyNotEmpty,
            CaptureSpurious, Push, Pushed, pipeVars
    <2> QED BY <1>6, <2>1
<1>8. CASE \/ DispatchLoop \/ Pop \/ NotifyNotFull \/ WritePipe \/ DropItem
           \/ DispatchSpurious
    <2>1. Pushed' = Pushed /\ UNCHANGED <<received, hPipe, connected>>
        BY <1>8 DEF DispatchLoop, Pop, NotifyNotFull, WritePipe, DropItem,
            DispatchSpurious, Pushed, captureVars, pipeVars
    <2> QED BY <1>6, <2>1
<1>9. CASE ControlNext
    <2>1. Pushed' = Pushed /\ UNCHANGED <<received, hPipe, connected>>
        BY <1>9 DEF ControlNext, StartCapturer, StartDispatcher, StopRunning,
            JoinCapturer, JoinDispatcher, CloseSniffer, Pushed, captureVars,
            pipeVars, SnifferInv, Phases
    <2> QED BY <1>6, <2>1
<1>10. CASE UNCHANGED vars
    <2>1. Pushed' = Pushed /\ UNCHANGED <<received, hPipe, connected>>
        BY <1>10 DEF vars, Pushed
    <2> QED BY <1>6, <2>1
<1> QED BY <1>2, <1>3, <1>5, <1>7, <1>8, <1>9, <1>10
        DEF Next, CapturerNext, DispatcherNext, ClientNext

\* A capture session implements the bounded, ordered, gapless channel of
\* PacketChannel.
THEOREM Refinement == SafetySpec => ImplementsChannel
<1>1. Init => Channel!ChannelInit
    BY DEF Init, Channel!ChannelInit, Pushed
<1> QED BY <1>1, ChannelStep, Invariance, PTL
        DEF SafetySpec, ImplementsChannel, Channel!ChannelSpec
==============================================================================
