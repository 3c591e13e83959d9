------------------------- MODULE GrpcStreamingProofs -------------------------
(***************************************************************************)
(* Theorems about GrpcStreaming, for any number of snapshots, starts and   *)
(* failing calls: type correctness, that at most one loop is inside the    *)
(* queue's enumerator, why snapshots are lost, that nobody waits for what  *)
(* cannot come, in which order the calls carry the snapshots, that each is *)
(* accounted for, and that the leg implements StreamingContract.           *)
(***************************************************************************)
EXTENDS GrpcStreaming, TLAPS

------------------------------------------------------------------------------
(* Sequences                                                               *)

\* Appending an element of S to a sequence over S.
LEMMA AppendIn ==
    ASSUME NEW S, NEW q \in Seq(S), NEW e \in S
    PROVE  Append(q, e) \in Seq(S)
OBVIOUS

\* The parts of a non-empty sequence over S.
LEMMA PartsIn ==
    ASSUME NEW S, NEW q \in Seq(S), q # << >>
    PROVE  Head(q) \in S /\ Tail(q) \in Seq(S)
OBVIOUS

\* The elements of a sequence over S.
LEMMA ElementsIn ==
    ASSUME NEW S, NEW q \in Seq(S)
    PROVE  {q[i] : i \in 1..Len(q)} \subseteq S
OBVIOUS

------------------------------------------------------------------------------
(* Type correctness                                                        *)

\* TypeOK is not inductive: that a written or dropped snapshot is one needs
\* the loops to hold one from Receive to the end of the write.
TypeInv ==
    /\ StreamTypeOK
    /\ \A r \in Runs : loop[r] \in {"handing", "writing"} => held[r] \in 1..MaxSnapshots

\* The initial state has the right types.
LEMMA InitType == StreamInit => TypeInv
<1> SUFFICES ASSUME StreamInit PROVE TypeInv OBVIOUS
<1>1. << >> \in Seq(1..MaxSnapshots) OBVIOUS
<1>2. 0 \in 0..MaxSnapshots /\ 0 \in 0..MaxRuns /\ 0 \in 0..MaxFaults BY GrpcAssumption
<1>3. loop \in [Runs -> LoopStates] BY DEF StreamInit, LoopStates
<1>4. held \in [Runs -> 0..MaxSnapshots] /\ target \in [Runs -> 0..MaxRuns]
  BY <1>2 DEF StreamInit
<1>5. inFlight \in [Runs -> Seq(1..MaxSnapshots)] /\ stored \in [Runs -> Seq(1..MaxSnapshots)]
  BY <1>1 DEF StreamInit
<1>6. \A r \in Runs : loop[r] = "none" BY DEF StreamInit
<1>7. /\ stopper \in [Runs -> {"none", "waiting", "done"}]
      /\ call \in [Runs -> {"none", "open", "completed", "failed"}]
  BY DEF StreamInit
<1>8. semaphore \in 0..1
  <2>1. semaphore = 1 BY DEF StreamInit
  <2> QED BY <2>1
<1>11. cut \in BOOLEAN BY DEF StreamInit
<1>9. enqueued \in 0..MaxSnapshots /\ runs \in 0..MaxRuns /\ faults \in 0..MaxFaults
  BY <1>2 DEF StreamInit
<1>10. StreamTypeOK
    BY <1>1, <1>3, <1>4, <1>5, <1>7, <1>8, <1>9, <1>11 DEF StreamInit, StreamTypeOK
<1> QED BY <1>6, <1>10 DEF TypeInv

\* Leaving the loop, to the next that waits or to nobody.
LEMMA LeaveType ==
    ASSUME StreamTypeOK, NEW r \in Runs, Leave(r)
    PROVE  /\ loop' \in [Runs -> LoopStates]
           /\ semaphore' \in 0..1
           /\ \A s \in Runs : loop'[s] \in {"handing", "writing"} => s # r /\ loop'[s] = loop[s]
<1>1. loop \in [Runs -> LoopStates] /\ semaphore \in 0..1 BY DEF StreamTypeOK
<1>2. CASE loop' = [loop EXCEPT ![r] = "ended"] /\ semaphore' = 1
  BY <1>1, <1>2 DEF LoopStates, Enumerating
<1>3. ASSUME NEW s \in Waiting, loop' = [loop EXCEPT ![r] = "ended", ![s] = "receiving"],
             UNCHANGED semaphore
      PROVE  /\ loop' \in [Runs -> LoopStates]
             /\ semaphore' \in 0..1
             /\ \A t \in Runs : loop'[t] \in {"handing", "writing"} => t # r /\ loop'[t] = loop[t]
  BY <1>1, <1>3 DEF LoopStates, Enumerating, Waiting
<1> QED BY <1>2, <1>3 DEF Leave

\* Every step keeps every variable in its set.
LEMMA TypeStep == TypeInv /\ [StreamNext]_streamVars => TypeInv'
<1> SUFFICES ASSUME TypeInv, [StreamNext]_streamVars PROVE TypeInv' OBVIOUS
<1>1. StreamTypeOK /\ \A r \in Runs : loop[r] \in {"handing", "writing"} => held[r] \in 1..MaxSnapshots
  BY DEF TypeInv
<1>2. enqueued \in 0..MaxSnapshots /\ buffer \in Seq(1..MaxSnapshots)
    BY <1>1 DEF StreamTypeOK
<1>3. loop \in [Runs -> LoopStates] /\ held \in [Runs -> 0..MaxSnapshots]
    BY <1>1 DEF StreamTypeOK
<1>4. inFlight \in [Runs -> Seq(1..MaxSnapshots)] /\ stored \in [Runs -> Seq(1..MaxSnapshots)]
  BY <1>1 DEF StreamTypeOK
<1>5. CASE Enqueue
  <2>1. enqueued' \in 1..MaxSnapshots BY <1>2, <1>5, GrpcAssumption DEF Enqueue
  <2>2. buffer' \in Seq(1..MaxSnapshots) BY <1>2, <1>5, <2>1, AppendIn DEF Enqueue
  <2> QED BY <1>1, <1>5, <2>1, <2>2
          DEF Enqueue, TypeInv, StreamTypeOK, loopVars, serviceVars, streamCallVars
<1>6. CASE Start
  <2>1. runs' \in Runs BY <1>1, <1>6, GrpcAssumption DEF Start, StreamTypeOK, Runs
  <2>2. loop' \in [Runs -> LoopStates]
    BY <1>3, <1>6, <2>1 DEF Start, LoopStates, Enumerating
  <2>3. call' \in [Runs -> {"none", "open", "completed", "failed"}]
    BY <1>1, <1>6, <2>1 DEF Start, StreamTypeOK
  <2>4. \A r \in Runs : loop'[r] \in {"handing", "writing"} => loop[r] = loop'[r]
    BY <1>3, <1>6, <2>1 DEF Start
  <2>5. runs' \in 0..MaxRuns /\ semaphore' \in 0..1 BY <1>6, <2>1 DEF Start, Runs
  <2> QED BY <1>1, <1>6, <2>2, <2>3, <2>4, <2>5 DEF Start, TypeInv, StreamTypeOK, queueVars
<1>7. CASE Stop
  <2>1. runs # 0 => runs \in Runs BY <1>1, GrpcAssumption DEF StreamTypeOK, Runs
  <2>2. cancelled' \subseteq Runs BY <1>1, <1>7, <2>1 DEF Stop, StreamTypeOK
  <2>3. stopper' \in [Runs -> {"none", "waiting", "done"}]
    BY <1>1, <1>7, <2>1 DEF Stop, StreamTypeOK
  <2> QED BY <1>1, <1>7, <2>2, <2>3 DEF Stop, TypeInv, StreamTypeOK, queueVars, loopVars, streamCallVars
<1>8. ASSUME NEW r \in Runs, CompleteAsync(r) PROVE TypeInv'
  <2>1. stopper' \in [Runs -> {"none", "waiting", "done"}]
    BY <1>1, <1>8 DEF CompleteAsync, StreamTypeOK
  <2>2. call' \in [Runs -> {"none", "open", "completed", "failed"}]
    BY <1>1, <1>8 DEF CompleteAsync, StreamTypeOK
  <2>3. cut' \in BOOLEAN BY <1>1, <1>8 DEF CompleteAsync, StreamTypeOK
  <2> QED BY <1>1, <1>8, <2>1, <2>2, <2>3
          DEF CompleteAsync, TypeInv, StreamTypeOK, queueVars, loopVars
<1>9. ASSUME NEW r \in Runs, Receive(r) PROVE TypeInv'
  <2>1. Head(buffer) \in 1..MaxSnapshots /\ buffer' \in Seq(1..MaxSnapshots)
    BY <1>2, <1>9, PartsIn DEF Receive
  <2>2. loop' \in [Runs -> LoopStates]
      BY <1>3, <1>9 DEF Receive, LoopStates, Enumerating
  <2>3. held' \in [Runs -> 0..MaxSnapshots] BY <1>3, <1>9, <2>1 DEF Receive
  <2>4. \A s \in Runs : loop'[s] \in {"handing", "writing"} => held'[s] \in 1..MaxSnapshots
    BY <1>1, <1>3, <1>9, <2>1 DEF Receive
  <2> QED BY <1>1, <1>9, <2>1, <2>2, <2>3, <2>4
          DEF Receive, TypeInv, StreamTypeOK, serviceVars, streamCallVars
<1>10. ASSUME NEW r \in Runs, Write(r) PROVE TypeInv'
  <2>1. loop' \in [Runs -> LoopStates] BY <1>3, <1>10 DEF Write, LoopStates, Enumerating
  <2>2. target' \in [Runs -> 0..MaxRuns] BY <1>1, <1>10 DEF Write, StreamTypeOK
  <2>3. \A s \in Runs : loop'[s] \in {"handing", "writing"} => loop[s] \in {"handing", "writing"}
    BY <1>3, <1>10 DEF Write
  <2> QED BY <1>1, <1>10, <2>1, <2>2, <2>3
          DEF Write, TypeInv, StreamTypeOK, queueVars, serviceVars, streamCallVars
<1>11. ASSUME NEW r \in Runs, Written(r) PROVE TypeInv'
  <2>1. loop' \in [Runs -> LoopStates]
      BY <1>3, <1>11 DEF Written, LoopStates, Enumerating
  <2>2. held' \in [Runs -> 0..MaxSnapshots] BY <1>3, <1>11, GrpcAssumption DEF Written
  <2>3. inFlight' \in [Runs -> Seq(1..MaxSnapshots)]
    <3>1. held[r] \in 1..MaxSnapshots BY <1>1, <1>11 DEF Written
    <3>2. \A c \in Runs : Append(inFlight[c], held[r]) \in Seq(1..MaxSnapshots)
      BY <1>4, <3>1, AppendIn
    <3> QED BY <1>4, <1>11, <3>2 DEF Written
  <2>4. \A s \in Runs : loop'[s] \in {"handing", "writing"} => loop'[s] = loop[s] /\ held'[s] = held[s]
    BY <1>3, <1>11 DEF Written
  <2> QED BY <1>1, <1>11, <2>1, <2>2, <2>3, <2>4
          DEF Written, TypeInv, StreamTypeOK, queueVars, serviceVars
<1>12. ASSUME NEW r \in Runs, WriteThrows(r) PROVE TypeInv'
  <2>1. held[r] \in 1..MaxSnapshots BY <1>1, <1>12 DEF WriteThrows
  <2>2. lost' \subseteq 1..MaxSnapshots
      BY <1>1, <1>12, <2>1 DEF WriteThrows, StreamTypeOK
  <2>3. held' \in [Runs -> 0..MaxSnapshots]
      BY <1>3, <1>12, GrpcAssumption DEF WriteThrows
  <2>4. /\ loop' \in [Runs -> LoopStates] /\ semaphore' \in 0..1
        /\ \A s \in Runs : loop'[s] \in {"handing", "writing"} => s # r /\ loop'[s] = loop[s]
    BY <1>1, <1>12, LeaveType DEF WriteThrows
  <2>5. \A s \in Runs : s # r => held'[s] = held[s] BY <1>3, <1>12 DEF WriteThrows
  <2>6. \A s \in Runs : loop'[s] \in {"handing", "writing"} => held'[s] \in 1..MaxSnapshots
    BY <1>1, <2>4, <2>5
  <2> QED BY <1>1, <1>12, <2>2, <2>3, <2>4, <2>6
          DEF WriteThrows, TypeInv, StreamTypeOK, queueVars, serviceVars, streamCallVars
<1>13. ASSUME NEW r \in Runs, Delayed(r) PROVE TypeInv'
  <2>1. loop' \in [Runs -> LoopStates]
      BY <1>3, <1>13 DEF Delayed, LoopStates, Enumerating
  <2>2. \A s \in Runs : loop'[s] \in {"handing", "writing"} => loop'[s] = loop[s]
    BY <1>3, <1>13 DEF Delayed
  <2> QED BY <1>1, <1>13, <2>1, <2>2
          DEF Delayed, TypeInv, StreamTypeOK, queueVars, serviceVars, streamCallVars
<1>14. ASSUME NEW r \in Runs, DelayCancelled(r) PROVE TypeInv'
  <2>1. /\ loop' \in [Runs -> LoopStates] /\ semaphore' \in 0..1
        /\ \A s \in Runs : loop'[s] \in {"handing", "writing"} => s # r /\ loop'[s] = loop[s]
    BY <1>1, <1>14, LeaveType DEF DelayCancelled
  <2> QED BY <1>1, <1>14, <2>1
          DEF DelayCancelled, TypeInv, StreamTypeOK, queueVars, serviceVars, streamCallVars
<1>15. ASSUME NEW c \in Runs, Store(c) PROVE TypeInv'
  <2>1. Head(inFlight[c]) \in 1..MaxSnapshots /\ Tail(inFlight[c]) \in Seq(1..MaxSnapshots)
    BY <1>4, <1>15, PartsIn DEF Store
  <2>2. inFlight' \in [Runs -> Seq(1..MaxSnapshots)] BY <1>4, <1>15, <2>1 DEF Store
  <2>3. Append(stored[c], Head(inFlight[c])) \in Seq(1..MaxSnapshots)
      BY <1>4, <2>1, AppendIn
  <2>4. stored' \in [Runs -> Seq(1..MaxSnapshots)] BY <1>4, <1>15, <2>3 DEF Store
  <2> QED BY <1>1, <1>15, <2>2, <2>4
          DEF Store, TypeInv, StreamTypeOK, queueVars, loopVars, serviceVars
<1>16. ASSUME NEW c \in Runs, CallFails(c) PROVE TypeInv'
  <2>1. {inFlight[c][i] : i \in 1..Len(inFlight[c])} \subseteq 1..MaxSnapshots
    BY <1>4, ElementsIn
  <2>2. lost' \subseteq 1..MaxSnapshots BY <1>1, <1>16, <2>1 DEF CallFails, StreamTypeOK
  <2>3. << >> \in Seq(1..MaxSnapshots) OBVIOUS
  <2>4. inFlight' \in [Runs -> Seq(1..MaxSnapshots)] BY <1>4, <1>16, <2>3 DEF CallFails
  <2>5. call' \in [Runs -> {"none", "open", "completed", "failed"}]
    BY <1>1, <1>16 DEF CallFails, StreamTypeOK
  <2>6. faults' \in 0..MaxFaults
      BY <1>1, <1>16, GrpcAssumption DEF CallFails, StreamTypeOK
  <2> QED BY <1>1, <1>16, <2>2, <2>4, <2>5, <2>6
          DEF CallFails, TypeInv, StreamTypeOK, queueVars, loopVars, serviceVars
<1>17. CASE UNCHANGED streamVars
  BY <1>1, <1>17 DEF streamVars, queueVars, loopVars, serviceVars, streamCallVars, TypeInv, StreamTypeOK
<1> QED BY <1>5, <1>6, <1>7, <1>8, <1>9, <1>10, <1>11, <1>12, <1>13, <1>14, <1>15, <1>16,
           <1>17
       DEF StreamNext, LoopNext

\* Type correctness of the gRPC leg.
THEOREM TypeCorrect == StreamSafetySpec => []StreamTypeOK
<1>1. TypeInv => StreamTypeOK BY DEF TypeInv
<1> QED BY InitType, TypeStep, <1>1, PTL DEF StreamSafetySpec

------------------------------------------------------------------------------
(* Mutual exclusion in the enumerator                                      *)

\* The semaphore is taken while a loop is in the enumerator or waits for it.
EnumeratorInv ==
    /\ OneEnumerator
    /\ \A r \in Runs : loop[r] \in Enumerating \union {"waiting"} => semaphore = 0

\* Initially no loop runs.
LEMMA InitEnumerator == StreamInit => EnumeratorInv
BY DEF StreamInit, EnumeratorInv, OneEnumerator, Enumerating

\* A step within the enumerator keeps its loop inside.
LEMMA InsideStep ==
    ASSUME StreamTypeOK, EnumeratorInv, NEW r \in Runs, loop[r] \in Enumerating,
           NEW v \in Enumerating, loop' = [loop EXCEPT ![r] = v], UNCHANGED semaphore
    PROVE  EnumeratorInv'
BY DEF StreamTypeOK, EnumeratorInv, OneEnumerator

\* The loop that leaves hands the enumerator over, or leaves it free.
LEMMA LeaveStep ==
    ASSUME StreamTypeOK, EnumeratorInv, NEW r \in Runs, loop[r] \in Enumerating, Leave(r)
    PROVE  EnumeratorInv'
<1>1. \A s \in Runs : loop[s] \in Enumerating => s = r
  BY DEF EnumeratorInv, OneEnumerator
<1>2. loop \in [Runs -> LoopStates] BY DEF StreamTypeOK
<1>3. semaphore = 0 BY DEF EnumeratorInv
<1>4. CASE Waiting = {} /\ loop' = [loop EXCEPT ![r] = "ended"] /\ semaphore' = 1
  <2>1. \A s \in Runs : loop'[s] \notin Enumerating \union {"waiting"}
    BY <1>1, <1>2, <1>4 DEF Waiting, Enumerating
  <2> QED BY <2>1 DEF EnumeratorInv, OneEnumerator
<1>5. ASSUME NEW s \in Waiting, loop' = [loop EXCEPT ![r] = "ended", ![s] = "receiving"],
             UNCHANGED semaphore
      PROVE  EnumeratorInv'
  <2>1. \A t \in Runs : loop'[t] \in Enumerating => t = s
    BY <1>1, <1>2, <1>5 DEF Waiting, Enumerating
  <2> QED BY <1>3, <1>5, <2>1 DEF EnumeratorInv, OneEnumerator
<1> QED BY <1>4, <1>5 DEF Leave

\* Every step keeps the invariant.
LEMMA EnumeratorStep ==
    StreamTypeOK /\ EnumeratorInv /\ [StreamNext]_streamVars => EnumeratorInv'
<1> SUFFICES ASSUME StreamTypeOK, EnumeratorInv, [StreamNext]_streamVars
       PROVE EnumeratorInv'
    OBVIOUS
<1>1. ASSUME UNCHANGED <<loop, semaphore>> PROVE EnumeratorInv'
  BY <1>1 DEF EnumeratorInv, OneEnumerator
<1>2. CASE Enqueue \/ Stop \/ UNCHANGED streamVars
  BY <1>1, <1>2 DEF Enqueue, Stop, streamVars, loopVars
<1>3. CASE Start
  <2>1. loop \in [Runs -> LoopStates] /\ semaphore \in {0, 1} BY DEF StreamTypeOK
  <2>2. semaphore' = 0 BY <1>3 DEF Start
  <2>3. CASE CanEnter
    <3>1. \A r \in Runs : loop[r] \notin Enumerating
      BY <2>3 DEF EnumeratorInv, CanEnter
    <3>2. \A r \in Runs : loop'[r] \in Enumerating => r = runs'
      BY <1>3, <2>1, <3>1 DEF Start
    <3> QED BY <2>2, <3>2 DEF EnumeratorInv, OneEnumerator
  <2>4. CASE ~CanEnter
    <3>1. \A r \in Runs : loop'[r] \in Enumerating => loop[r] \in Enumerating
      BY <1>3, <2>1, <2>4 DEF Start, Enumerating
    <3> QED BY <2>2, <3>1 DEF EnumeratorInv, OneEnumerator
  <2> QED BY <2>3, <2>4
<1>4. ASSUME NEW r \in Runs, CompleteAsync(r) PROVE EnumeratorInv'
  BY <1>1, <1>4 DEF CompleteAsync, loopVars
<1>5. ASSUME NEW r \in Runs, Receive(r) \/ Write(r) \/ Written(r) \/ Delayed(r)
      PROVE  EnumeratorInv'
  <2>1. loop[r] \in Enumerating /\ UNCHANGED semaphore
    BY <1>5 DEF Receive, Write, Written, Delayed, Enumerating
  <2>2. \E v \in Enumerating : loop' = [loop EXCEPT ![r] = v]
    BY <1>5 DEF Receive, Write, Written, Delayed, Enumerating
  <2> QED BY <2>1, <2>2, InsideStep
<1>6. ASSUME NEW r \in Runs, WriteThrows(r) \/ DelayCancelled(r) PROVE EnumeratorInv'
  <2>1. loop[r] \in Enumerating /\ Leave(r)
    BY <1>6 DEF WriteThrows, DelayCancelled, Enumerating
  <2> QED BY <2>1, LeaveStep
<1>7. ASSUME NEW c \in Runs, Store(c) \/ CallFails(c) PROVE EnumeratorInv'
  BY <1>1, <1>7 DEF Store, CallFails, loopVars
<1> QED BY <1>2, <1>3, <1>4, <1>5, <1>6, <1>7 DEF StreamNext, LoopNext

\* At most one of GrpcService's loops is in the enumerator of the queue, for
\* every order of clicks, writes and failures (AsyncConcurrencyQueue.cs:37-50).
THEOREM EnumeratorExclusive == StreamSafetySpec => []OneEnumerator
<1>1. StreamInit => TypeInv /\ EnumeratorInv BY InitType, InitEnumerator
<1>2. TypeInv /\ EnumeratorInv /\ [StreamNext]_streamVars => (TypeInv /\ EnumeratorInv)'
  BY TypeStep, EnumeratorStep DEF TypeInv
<1>3. EnumeratorInv => OneEnumerator BY DEF EnumeratorInv
<1> QED BY <1>1, <1>2, <1>3, PTL DEF StreamSafetySpec

------------------------------------------------------------------------------
(* Losses                                                                  *)

\* The starts are numbered one by one, and each makes one loop and one call.
Started ==
    \A r \in Runs : (loop[r] # "none" <=> r <= runs) /\ (call[r] # "none" <=> r <= runs)

\* A loop writes to a call that has been opened.
WritesToStarted ==
    \A r \in Runs : loop[r] = "writing" => target[r] \in 1..runs

\* The enumerator goes to the loops in the order of their starts.
InOrderOfStart ==
    \A r, s \in Runs :
        s < r /\ loop[r] \in Enumerating \union {"ended"} => loop[s] = "ended"

\* Why the call in the field may be over while a loop writes to it.
CallsOver ==
    /\ \A c \in Runs : call[c] = "failed" => faults > 0
    /\ runs \in Runs /\ call[runs] = "completed" => cut \/ loop[runs] = "ended"

\* LossExplained is not inductive: a write that throws says something of the
\* call in the field, and that of the stops and faults that ended it.
LossInv == LossExplained /\ Started /\ InOrderOfStart /\ CallsOver

\* Initially nothing has started.
LEMMA InitLoss == StreamInit => LossInv
BY GrpcAssumption DEF StreamInit, LossInv, LossExplained, Started, InOrderOfStart, CallsOver, Runs,
   Enumerating

\* The steps that change neither a loop nor a call.
LEMMA QuietStep ==
    ASSUME LossInv, UNCHANGED <<loop, call, runs, cut, faults, lost>>
    PROVE  LossInv'
BY DEF LossInv, LossExplained, Started, InOrderOfStart, CallsOver

\* A step within the enumerator.
LEMMA InsideLoss ==
    ASSUME StreamTypeOK, LossInv, NEW r \in Runs, loop[r] \in Enumerating,
           NEW v \in Enumerating, loop' = [loop EXCEPT ![r] = v],
           UNCHANGED <<call, runs, cut, faults, lost>>
    PROVE  LossInv'
<1>1. loop \in [Runs -> LoopStates] BY DEF StreamTypeOK
<1>2. \A s \in Runs : (loop'[s] # "none" <=> loop[s] # "none")
  BY <1>1 DEF Enumerating
<1>3. \A s \in Runs : loop'[s] \in Enumerating \union {"ended"}
                        <=> loop[s] \in Enumerating \union {"ended"}
  BY <1>1
<1>4. \A s \in Runs : loop'[s] = "ended" <=> loop[s] = "ended"
  BY <1>1 DEF Enumerating
<1>5. Started' BY <1>2 DEF LossInv, Started
<1>6. InOrderOfStart' BY <1>3, <1>4 DEF LossInv, InOrderOfStart
<1>7. CallsOver' BY <1>4 DEF LossInv, CallsOver
<1> QED BY <1>5, <1>6, <1>7 DEF LossInv, LossExplained

\* Leaving keeps the order of the starts, whoever is next.
LEMMA LeaveLoss ==
    ASSUME StreamTypeOK, EnumeratorInv, Started, InOrderOfStart,
           NEW r \in Runs, loop[r] \in Enumerating, Leave(r), UNCHANGED <<call, runs>>
    PROVE  /\ Started' /\ InOrderOfStart'
           /\ \A s \in Runs : loop[s] = "ended" => loop'[s] = "ended"
<1>1. loop \in [Runs -> LoopStates] BY DEF StreamTypeOK
<1>2. \A s \in Runs : s < r => loop[s] = "ended" BY DEF InOrderOfStart
<1>3. CASE Waiting = {} /\ loop' = [loop EXCEPT ![r] = "ended"] /\ semaphore' = 1
  <2>1. \A s \in Runs : s # r => loop'[s] = loop[s] BY <1>1, <1>3
  <2>2. loop'[r] = "ended" BY <1>1, <1>3
  <2>3. Started' BY <2>1, <2>2 DEF Started, Enumerating
  <2>4. InOrderOfStart' BY <1>2, <2>1, <2>2 DEF InOrderOfStart
  <2> QED BY <2>1, <2>2, <2>3, <2>4
<1>4. ASSUME NEW s \in Waiting, \A t \in Waiting : s <= t,
             loop' = [loop EXCEPT ![r] = "ended", ![s] = "receiving"], UNCHANGED semaphore
      PROVE  /\ Started' /\ InOrderOfStart'
             /\ \A t \in Runs : loop[t] = "ended" => loop'[t] = "ended"
  <2>1. s \in Runs /\ loop[s] = "waiting" /\ s # r BY DEF Waiting, Enumerating
  <2>2. \A t \in Runs : t # r /\ t # s => loop'[t] = loop[t] BY <1>1, <1>4
  <2>3. loop'[r] = "ended" /\ loop'[s] = "receiving" BY <1>1, <1>4, <2>1
  <2>4. Started' BY <2>1, <2>2, <2>3 DEF Started, Enumerating
  <2>5. ASSUME NEW t \in Runs, t < s PROVE loop'[t] = "ended"
    <3>1. t \notin Waiting BY <1>4, <2>1, <2>5 DEF Runs
    <3>2. t <= runs BY <2>1, <2>5 DEF Started, Runs, StreamTypeOK
    <3>3. loop[t] # "none" /\ loop[t] # "waiting" BY <3>1, <3>2 DEF Started, Waiting
    <3>4. loop[t] \in Enumerating => t = r BY DEF EnumeratorInv, OneEnumerator
    <3>5. t # r => loop[t] = "ended" BY <1>1, <3>3, <3>4 DEF LoopStates
    <3>6. t # s BY <2>5, <2>1 DEF Runs
    <3> QED BY <2>2, <2>3, <3>5, <3>6
  <2>6. \A t \in Runs : loop[t] = "ended" => loop'[t] = "ended"
    BY <2>1, <2>2, <2>3
  <2>7. ASSUME NEW u \in Runs, NEW t \in Runs, t < u,
               loop'[u] \in Enumerating \union {"ended"}
        PROVE  loop'[t] = "ended"
    <3>1. CASE u = s BY <2>5, <2>7, <3>1
    <3>2. CASE u # s
      <4>1. loop[u] \in Enumerating \union {"ended"} BY <2>2, <2>7, <3>2
      <4> QED BY <2>6, <2>7, <4>1 DEF InOrderOfStart
    <3> QED BY <3>1, <3>2
  <2>8. InOrderOfStart' BY <2>7 DEF InOrderOfStart
  <2> QED BY <2>4, <2>6, <2>8
<1> QED BY <1>3, <1>4 DEF Leave

\* Every step keeps the targets among the calls that have been opened.
LEMMA TargetStep ==
    StreamTypeOK /\ Started /\ WritesToStarted /\ [StreamNext]_streamVars => WritesToStarted'
<1> SUFFICES ASSUME StreamTypeOK, Started, WritesToStarted, [StreamNext]_streamVars
       PROVE WritesToStarted'
  OBVIOUS
<1>1. /\ loop \in [Runs -> LoopStates] /\ target \in [Runs -> 0..MaxRuns]
      /\ runs \in 0..MaxRuns
  BY DEF StreamTypeOK
<1>2. ASSUME UNCHANGED target, runs' \in {runs, runs + 1},
             \A r \in Runs : loop'[r] = "writing" => loop[r] = "writing"
      PROVE  WritesToStarted'
  BY <1>1, <1>2, GrpcAssumption DEF WritesToStarted, Runs
<1>3. CASE Enqueue \/ Stop \/ UNCHANGED streamVars
  BY <1>2, <1>3 DEF Enqueue, Stop, streamVars, loopVars, serviceVars
<1>4. CASE Start BY <1>1, <1>2, <1>4 DEF Start
<1>5. ASSUME NEW r \in Runs, CompleteAsync(r) PROVE WritesToStarted'
  BY <1>2, <1>5 DEF CompleteAsync, loopVars
<1>6. ASSUME NEW r \in Runs, Receive(r) \/ Written(r) \/ Delayed(r) PROVE WritesToStarted'
  BY <1>1, <1>2, <1>6 DEF Receive, Written, Delayed, serviceVars
<1>7. ASSUME NEW r \in Runs, Write(r) PROVE WritesToStarted'
  <2>1. r <= runs BY <1>7 DEF Started, Write
  <2>2. runs' = runs /\ runs \in 1..runs
      BY <1>1, <1>7, <2>1 DEF Write, serviceVars, Runs
  <2>3. target'[r] = runs BY <1>1, <1>7 DEF Write
  <2>4. \A s \in Runs : s # r => target'[s] = target[s] /\ loop'[s] = loop[s]
    BY <1>1, <1>7 DEF Write
  <2> QED BY <2>2, <2>3, <2>4 DEF WritesToStarted
<1>8. ASSUME NEW r \in Runs, WriteThrows(r) \/ DelayCancelled(r) PROVE WritesToStarted'
  <2>1. \A s \in Runs : loop'[s] \in {"handing", "writing"} => loop'[s] = loop[s]
    BY <1>8, LeaveType DEF WriteThrows, DelayCancelled
  <2> QED BY <1>2, <1>8, <2>1 DEF WriteThrows, DelayCancelled, serviceVars
<1>9. ASSUME NEW c \in Runs, Store(c) \/ CallFails(c) PROVE WritesToStarted'
  BY <1>2, <1>9 DEF Store, CallFails, loopVars, serviceVars
<1> QED BY <1>3, <1>4, <1>5, <1>6, <1>7, <1>8, <1>9 DEF StreamNext, LoopNext

\* Every step keeps the invariant.
LEMMA LossStep ==
    TypeInv /\ EnumeratorInv /\ WritesToStarted /\ LossInv /\ [StreamNext]_streamVars => LossInv'
<1> SUFFICES ASSUME TypeInv, EnumeratorInv, WritesToStarted, LossInv, [StreamNext]_streamVars
       PROVE LossInv'
    OBVIOUS
<1>1. StreamTypeOK BY DEF TypeInv
<1>2. loop \in [Runs -> LoopStates] /\ runs \in 0..MaxRuns BY <1>1 DEF StreamTypeOK
<1>3. call \in [Runs -> {"none", "open", "completed", "failed"}]
    BY <1>1 DEF StreamTypeOK
<1>4. LossExplained /\ Started /\ InOrderOfStart /\ CallsOver BY DEF LossInv
<1>5. CASE Enqueue \/ Stop \/ UNCHANGED streamVars
  BY <1>5, QuietStep
     DEF Enqueue, Stop, streamVars, loopVars, serviceVars, streamCallVars
<1>6. CASE Start
  <2>1. runs' = runs + 1 /\ runs' \in Runs /\ UNCHANGED <<cut, faults, lost>>
    BY <1>2, <1>6, GrpcAssumption DEF Start, Runs
  <2>2. \A r \in Runs : r # runs' => loop'[r] = loop[r] /\ call'[r] = call[r]
    BY <1>2, <1>3, <1>6 DEF Start
  <2>3. call'[runs'] = "open" /\ loop'[runs'] \in {"receiving", "waiting"}
    BY <1>2, <1>3, <1>6, <2>1 DEF Start
  <2>4. Started'
    <3>1. \A r \in Runs : r # runs' => (r <= runs' <=> r <= runs) BY <1>2, <2>1 DEF Runs
    <3>2. runs' <= runs' BY <2>1 DEF Runs
    <3> QED BY <1>4, <2>1, <2>2, <2>3, <3>1, <3>2 DEF Started
  <2>5. \A r \in Runs : r < runs' => r <= runs /\ r # runs' BY <1>2, <2>1 DEF Runs
  <2>6. \A r \in Runs : runs' < r => loop[r] = "none"
      BY <1>2, <1>4, <2>1 DEF Started, Runs
  <2>7. ASSUME NEW r \in Runs, r < runs', loop'[runs'] = "receiving" PROVE loop'[r] = "ended"
    <3>1. CanEnter BY <1>2, <1>6, <2>1, <2>7 DEF Start
    <3>2. semaphore # 0 BY <3>1 DEF CanEnter
    <3>3. loop[r] \notin Enumerating \union {"waiting"} BY <3>2 DEF EnumeratorInv
    <3>4. loop[r] # "none" BY <1>4, <2>5, <2>7 DEF Started
    <3> QED BY <1>2, <2>2, <2>5, <2>7, <3>3, <3>4 DEF LoopStates
  <2>8. ASSUME NEW r \in Runs, NEW s \in Runs, s < r,
               loop'[r] \in Enumerating \union {"ended"}
        PROVE  loop'[s] = "ended"
    <3>1. CASE r = runs' BY <2>3, <2>7, <2>8, <3>1 DEF Enumerating
    <3>2. CASE r # runs'
      <4>1. loop[r] = loop'[r] BY <2>2, <3>2
      <4>2. loop[s] = "ended" BY <1>4, <2>8, <4>1 DEF InOrderOfStart
      <4>3. s # runs' BY <2>6, <2>8, <4>1 DEF Enumerating
      <4> QED BY <2>2, <4>2, <4>3
    <3> QED BY <3>1, <3>2
  <2>9. InOrderOfStart' BY <2>8 DEF InOrderOfStart
  <2>10. CallsOver' BY <1>4, <2>1, <2>2, <2>3 DEF CallsOver
  <2> QED BY <1>4, <2>1, <2>4, <2>9, <2>10 DEF LossInv, LossExplained
<1>7. ASSUME NEW r \in Runs, CompleteAsync(r) PROVE LossInv'
  <2>1. UNCHANGED <<loop, runs, faults, lost>> /\ loop[r] = "ended"
    BY <1>7 DEF CompleteAsync, LoopEnded, loopVars
  <2>2. CASE UNCHANGED <<call, cut>> BY <2>1, <2>2, QuietStep
  <2>3. CASE /\ call[runs] = "open" /\ call' = [call EXCEPT ![runs] = "completed"]
             /\ cut' = (cut \/ runs # r)
    <3>1. runs \in Runs
      <4>1. r <= runs BY <1>4, <2>1 DEF Started
      <4> QED BY <1>2, <4>1 DEF Runs
    <3>2. Started' BY <1>3, <1>4, <2>1, <2>3, <3>1 DEF Started
    <3>3. InOrderOfStart' BY <1>4, <2>1 DEF InOrderOfStart
    <3>4. CallsOver'
      <4>1. \A c \in Runs : call'[c] = "failed" => call[c] = "failed"
          BY <1>3, <2>3, <3>1
      <4>2. cut' \/ loop[runs] = "ended" BY <2>1, <2>3
      <4> QED BY <1>4, <2>1, <4>1, <4>2 DEF CallsOver
    <3>5. cut => cut' BY <2>3
    <3> QED BY <1>4, <2>1, <3>2, <3>3, <3>4, <3>5 DEF LossInv, LossExplained
  <2> QED BY <1>7, <2>2, <2>3 DEF CompleteAsync
<1>8. ASSUME NEW r \in Runs, Receive(r) \/ Write(r) \/ Written(r) \/ Delayed(r)
      PROVE  LossInv'
  <2>1. loop[r] \in Enumerating /\ UNCHANGED <<call, runs, cut, faults, lost>>
    BY <1>8 DEF Receive, Write, Written, Delayed, Enumerating, serviceVars, streamCallVars
  <2>2. \E v \in Enumerating : loop' = [loop EXCEPT ![r] = v]
    BY <1>8 DEF Receive, Write, Written, Delayed, Enumerating
  <2> QED BY <1>1, <2>1, <2>2, InsideLoss
<1>9. ASSUME NEW r \in Runs, WriteThrows(r) \/ DelayCancelled(r) PROVE LossInv'
  <2>1. loop[r] \in Enumerating /\ Leave(r) /\ UNCHANGED <<call, runs, cut, faults>>
    BY <1>9 DEF WriteThrows, DelayCancelled, Enumerating, serviceVars, streamCallVars
  <2>2. /\ Started' /\ InOrderOfStart'
        /\ \A s \in Runs : loop[s] = "ended" => loop'[s] = "ended"
    BY <1>1, <1>4, <2>1, LeaveLoss
  <2>3. CallsOver' BY <1>4, <2>1, <2>2 DEF CallsOver
  <2>4. LossExplained'
    <3>1. CASE DelayCancelled(r)
      BY <1>4, <2>1, <3>1 DEF DelayCancelled, LossExplained
    <3>2. CASE loop[r] = "writing" /\ call[target[r]] = "failed" /\ target[r] \in Runs
      BY <1>4, <2>1, <3>2 DEF CallsOver, LossExplained
    <3>3. CASE loop[r] = "handing" /\ call[runs] # "open"
      <4>1. r <= runs BY <1>4, <3>3 DEF Started
      <4>2. runs \in Runs BY <1>2, <4>1 DEF Runs
      <4>3. runs <= runs BY <4>2 DEF Runs
      <4>4. call[runs] \in {"completed", "failed"}
          BY <1>3, <1>4, <3>3, <4>2, <4>3 DEF Started
      <4>5. loop[runs] # "ended"
        <5>1. CASE r = runs BY <3>3, <5>1
        <5>2. CASE r < runs BY <1>4, <3>3, <4>2, <5>2 DEF InOrderOfStart
        <5> QED BY <1>2, <4>1, <5>1, <5>2 DEF Runs
      <4>6. faults > 0 \/ cut BY <1>4, <4>2, <4>4, <4>5 DEF CallsOver
      <4> QED BY <2>1, <4>6 DEF LossExplained
    <3>4. loop[r] = "writing" => target[r] \in Runs
      BY <1>2, GrpcAssumption DEF WritesToStarted, Runs
    <3> QED BY <1>9, <3>1, <3>2, <3>3, <3>4 DEF WriteThrows
  <2> QED BY <2>2, <2>3, <2>4 DEF LossInv
<1>10. ASSUME NEW c \in Runs, Store(c) PROVE LossInv'
  BY <1>10, QuietStep DEF Store, loopVars, serviceVars
<1>11. ASSUME NEW c \in Runs, CallFails(c) PROVE LossInv'
  <2>1. UNCHANGED <<loop, runs, cut>> BY <1>11 DEF CallFails, loopVars, serviceVars
  <2>2. faults' > 0 BY <1>1, <1>11 DEF CallFails, StreamTypeOK
  <2>3. \A d \in Runs : d # c => call'[d] = call[d] BY <1>3, <1>11 DEF CallFails
  <2>4. call'[c] = "failed" /\ call[c] # "none" BY <1>3, <1>11 DEF CallFails
  <2>5. Started' BY <1>4, <2>1, <2>3, <2>4 DEF Started
  <2>6. InOrderOfStart' BY <1>4, <2>1 DEF InOrderOfStart
  <2>7. CallsOver' BY <1>4, <2>1, <2>2, <2>3, <2>4 DEF CallsOver
  <2> QED BY <2>2, <2>5, <2>6, <2>7 DEF LossInv, LossExplained
<1> QED BY <1>5, <1>6, <1>7, <1>8, <1>9, <1>10, <1>11 DEF StreamNext, LoopNext

\* What the invariants of the losses rest on, together.
LossesInv == TypeInv /\ EnumeratorInv /\ WritesToStarted /\ LossInv

\* They hold initially, and every step keeps them.
LEMMA LossesInvariant == StreamSafetySpec => []LossesInv
<1>1. StreamInit => LossesInv
  BY InitType, InitEnumerator, InitLoss DEF LossesInv, WritesToStarted, StreamInit
<1>2. LossesInv /\ [StreamNext]_streamVars => LossesInv'
  BY TypeStep, EnumeratorStep, TargetStep, LossStep DEF LossesInv, TypeInv, LossInv
<1> QED BY <1>1, <1>2, PTL DEF StreamSafetySpec

\* A snapshot is dropped only after a call failed or a stop completed a later
\* run's call (GrpcService.cs:58-62).
THEOREM LossesExplained == StreamSafetySpec => []LossExplained
<1>1. LossesInv => LossExplained BY DEF LossesInv, LossInv
<1> QED BY LossesInvariant, <1>1, PTL

------------------------------------------------------------------------------
(* Waiting                                                                 *)

\* A taken semaphore has a holder: the finally block gives it back or on.
SemaphoreHeld == semaphore = 0 => \E r \in Runs : loop[r] \in Enumerating

\* A write under way has a call that takes it or throws.
WritesAnswered ==
    \A r \in Runs : loop[r] = "writing" => call[target[r]] \in {"open", "failed"}

\* A stop waits for a loop that was started, with its token cancelled.
StopsCancelled ==
    \A r \in Runs : stopper[r] = "waiting" => r \in cancelled /\ r <= runs

\* NobodyStuck is not inductive: that a loop waits for one that is inside is
\* said of the semaphore, and that it is an earlier one of the starts.
WaitInv == SemaphoreHeld /\ WritesAnswered /\ StopsCancelled

\* Initially nobody waits.
LEMMA InitWait == StreamInit => WaitInv
BY DEF StreamInit, WaitInv, SemaphoreHeld, WritesAnswered, StopsCancelled

\* A step within the enumerator keeps a holder of the semaphore.
LEMMA InsideHeld ==
    ASSUME StreamTypeOK, NEW r \in Runs, NEW v \in Enumerating, loop' = [loop EXCEPT ![r] = v]
    PROVE  SemaphoreHeld'
<1>1. loop'[r] \in Enumerating BY DEF StreamTypeOK
<1> QED BY <1>1 DEF SemaphoreHeld

\* Leaving gives the semaphore back, or to a loop that has waited.
LEMMA LeaveHeld == ASSUME StreamTypeOK, NEW r \in Runs, Leave(r) PROVE SemaphoreHeld'
<1>1. loop \in [Runs -> LoopStates] BY DEF StreamTypeOK
<1>2. CASE semaphore' = 1 BY <1>2 DEF SemaphoreHeld
<1>3. ASSUME NEW s \in Waiting, loop' = [loop EXCEPT ![r] = "ended", ![s] = "receiving"]
      PROVE  SemaphoreHeld'
  <2>1. s \in Runs /\ loop'[s] = "receiving" BY <1>1, <1>3 DEF Waiting
  <2> QED BY <2>1 DEF SemaphoreHeld, Enumerating
<1> QED BY <1>2, <1>3 DEF Leave

\* Every step keeps a holder of the taken semaphore.
LEMMA SemaphoreStep ==
    StreamTypeOK /\ Started /\ SemaphoreHeld /\ [StreamNext]_streamVars => SemaphoreHeld'
<1> SUFFICES ASSUME StreamTypeOK, Started, SemaphoreHeld, [StreamNext]_streamVars
       PROVE SemaphoreHeld'
  OBVIOUS
<1>1. loop \in [Runs -> LoopStates] /\ semaphore \in {0, 1} /\ runs \in 0..MaxRuns
  BY DEF StreamTypeOK
<1>2. CASE UNCHANGED <<loop, semaphore>> BY <1>2 DEF SemaphoreHeld
<1>3. CASE Enqueue \/ Stop \/ UNCHANGED streamVars
  BY <1>2, <1>3 DEF Enqueue, Stop, streamVars, loopVars
<1>4. CASE Start
  <2>1. runs' = runs + 1 /\ runs' \in Runs
    BY <1>1, <1>4, GrpcAssumption DEF Start, Runs
  <2>2. CASE CanEnter
    <3>1. loop'[runs'] = "receiving" BY <1>1, <1>4, <2>1, <2>2 DEF Start
    <3> QED BY <2>1, <3>1 DEF SemaphoreHeld, Enumerating
  <2>3. CASE ~CanEnter
    <3>1. PICK r \in Runs : loop[r] \in Enumerating
      BY <1>1, <2>3 DEF SemaphoreHeld, CanEnter
    <3>2. r <= runs BY <3>1 DEF Started, Enumerating
    <3>3. r # runs' BY <1>1, <2>1, <3>2 DEF Runs
    <3>4. loop'[r] = loop[r] BY <1>1, <1>4, <3>3 DEF Start
    <3> QED BY <3>1, <3>4 DEF SemaphoreHeld
  <2> QED BY <2>2, <2>3
<1>5. ASSUME NEW r \in Runs, CompleteAsync(r) PROVE SemaphoreHeld'
  BY <1>2, <1>5 DEF CompleteAsync, loopVars
<1>6. ASSUME NEW r \in Runs, Receive(r) \/ Write(r) \/ Written(r) \/ Delayed(r)
      PROVE  SemaphoreHeld'
  <2>1. \E v \in Enumerating : loop' = [loop EXCEPT ![r] = v]
    BY <1>6 DEF Receive, Write, Written, Delayed, Enumerating
  <2> QED BY <2>1, InsideHeld
<1>7. ASSUME NEW r \in Runs, WriteThrows(r) \/ DelayCancelled(r) PROVE SemaphoreHeld'
  BY <1>7, LeaveHeld DEF WriteThrows, DelayCancelled
<1>8. ASSUME NEW c \in Runs, Store(c) \/ CallFails(c) PROVE SemaphoreHeld'
  BY <1>2, <1>8 DEF Store, CallFails, loopVars
<1> QED BY <1>3, <1>4, <1>5, <1>6, <1>7, <1>8 DEF StreamNext, LoopNext

\* A call that is written to is not completed, and so every write under way is
\* taken or throws: CompleteAsync throws instead.
LEMMA AnsweredStep ==
    StreamTypeOK /\ Started /\ WritesToStarted /\ WritesAnswered /\ [StreamNext]_streamVars => WritesAnswered'
<1> SUFFICES ASSUME StreamTypeOK, Started, WritesToStarted, WritesAnswered, [StreamNext]_streamVars
             PROVE  WritesAnswered'
  OBVIOUS
<1>1. /\ loop \in [Runs -> LoopStates] /\ target \in [Runs -> 0..MaxRuns]
      /\ call \in [Runs -> {"none", "open", "completed", "failed"}]
      /\ runs \in 0..MaxRuns
  BY DEF StreamTypeOK
<1>2. ASSUME \A r \in Runs : loop'[r] = "writing" =>
               /\ loop[r] = "writing" /\ target'[r] = target[r]
               /\ call'[target[r]] = call[target[r]] \/ call'[target[r]] \in {"open", "failed"}
      PROVE  WritesAnswered'
  BY <1>2 DEF WritesAnswered
<1>3. CASE Enqueue \/ Stop \/ UNCHANGED streamVars
  BY <1>2, <1>3 DEF Enqueue, Stop, streamVars, loopVars, streamCallVars
<1>4. CASE Start
  <2>1. \A r \in Runs : loop'[r] = "writing" => loop[r] = "writing"
    BY <1>1, <1>4 DEF Start
  <2>2. \A c : c # runs' => call'[c] = call[c] BY <1>1, <1>4 DEF Start
  <2>3. runs' \in Runs BY <1>1, <1>4, GrpcAssumption DEF Start, Runs
  <2>4. call'[runs'] = "open" BY <1>1, <1>4, <2>3 DEF Start
  <2> QED BY <1>2, <1>4, <2>1, <2>2, <2>4 DEF Start
<1>5. ASSUME NEW r \in Runs, CompleteAsync(r) PROVE WritesAnswered'
  <2>1. UNCHANGED <<loop, target>> BY <1>5 DEF CompleteAsync, loopVars
  <2>2. CASE call' = call BY <1>2, <2>1, <2>2
  <2>3. CASE call' = [call EXCEPT ![runs] = "completed"] /\ ~WritePending(runs)
    <3>1. \A s \in Runs : loop[s] = "writing" => target[s] # runs
      BY <2>3 DEF WritePending
    <3>2. \A s \in Runs : loop[s] = "writing" => target[s] \in Runs
      BY <1>1, GrpcAssumption DEF WritesToStarted, Runs
    <3>3. \A s \in Runs : loop[s] = "writing" => call'[target[s]] = call[target[s]]
      BY <1>1, <2>3, <3>1, <3>2
    <3> QED BY <1>2, <2>1, <3>3
  <2> QED BY <1>5, <2>2, <2>3 DEF CompleteAsync
<1>6. ASSUME NEW r \in Runs, Receive(r) \/ Written(r) \/ Delayed(r) PROVE WritesAnswered'
  <2>1. UNCHANGED <<target, call>>
    BY <1>6 DEF Receive, Written, Delayed, streamCallVars
  <2>2. \A s \in Runs : loop'[s] = "writing" => loop[s] = "writing"
    BY <1>1, <1>6 DEF Receive, Written, Delayed
  <2> QED BY <1>2, <2>1, <2>2
<1>7. ASSUME NEW r \in Runs, Write(r) PROVE WritesAnswered'
  <2>1. call' = call /\ call[runs] = "open" /\ target'[r] = runs
    BY <1>1, <1>7 DEF Write, streamCallVars
  <2>2. \A s \in Runs : s # r => target'[s] = target[s] /\ loop'[s] = loop[s]
    BY <1>1, <1>7 DEF Write
  <2> QED BY <2>1, <2>2 DEF WritesAnswered
<1>8. ASSUME NEW r \in Runs, WriteThrows(r) \/ DelayCancelled(r) PROVE WritesAnswered'
  <2>1. \A s \in Runs : loop'[s] \in {"handing", "writing"} => loop'[s] = loop[s]
    BY <1>8, LeaveType DEF WriteThrows, DelayCancelled
  <2>2. UNCHANGED <<target, call>>
      BY <1>8 DEF WriteThrows, DelayCancelled, streamCallVars
  <2> QED BY <1>2, <2>1, <2>2
<1>9. ASSUME NEW c \in Runs, Store(c) PROVE WritesAnswered'
  BY <1>2, <1>9 DEF Store, loopVars
<1>10. ASSUME NEW c \in Runs, CallFails(c) PROVE WritesAnswered'
  <2>1. \A d : d # c => call'[d] = call[d] BY <1>1, <1>10 DEF CallFails
  <2>2. call'[c] = "failed" BY <1>1, <1>10 DEF CallFails
  <2> QED BY <1>2, <1>10, <2>1, <2>2 DEF CallFails, loopVars
<1> QED BY <1>3, <1>4, <1>5, <1>6, <1>7, <1>8, <1>9, <1>10 DEF StreamNext, LoopNext

\* A stop waits only after it has cancelled, and no token is ever given back.
LEMMA StopsStep ==
    StreamTypeOK /\ StopsCancelled /\ [StreamNext]_streamVars => StopsCancelled'
<1> SUFFICES ASSUME StreamTypeOK, StopsCancelled, [StreamNext]_streamVars
       PROVE StopsCancelled'
    OBVIOUS
<1>1. runs \in Nat /\ stopper \in [Runs -> {"none", "waiting", "done"}]
    BY DEF StreamTypeOK
<1>2. CASE UNCHANGED serviceVars BY <1>2 DEF serviceVars, StopsCancelled
<1>3. CASE Enqueue \/ UNCHANGED streamVars BY <1>2, <1>3 DEF Enqueue, streamVars
<1>4. CASE Start
  <2>1. \A r \in Runs : r <= runs => r <= runs' BY <1>1, <1>4 DEF Start, Runs
  <2> QED BY <1>4, <2>1 DEF Start, StopsCancelled
<1>5. CASE Stop
  <2>1. UNCHANGED runs /\ runs <= runs BY <1>1, <1>5 DEF Stop
  <2>2. \/ UNCHANGED <<cancelled, stopper>>
        \/ /\ cancelled' = cancelled \union {runs}
           /\ stopper' = [stopper EXCEPT ![runs] = "waiting"]
    BY <1>5 DEF Stop
  <2> QED BY <1>1, <2>1, <2>2 DEF StopsCancelled
<1>6. ASSUME NEW r \in Runs, CompleteAsync(r) PROVE StopsCancelled'
  BY <1>1, <1>6 DEF CompleteAsync, StopsCancelled
<1>7. ASSUME NEW r \in Runs, LoopNext(r) PROVE StopsCancelled'
  BY <1>2, <1>7 DEF LoopNext, Receive, Write, Written, WriteThrows, Delayed, DelayCancelled
<1>8. ASSUME NEW c \in Runs, Store(c) \/ CallFails(c) PROVE StopsCancelled'
  BY <1>2, <1>8 DEF Store, CallFails
<1> QED BY <1>3, <1>4, <1>5, <1>6, <1>7, <1>8 DEF StreamNext

\* A loop outside the enumerator waits for an earlier one that is inside.
LEMMA WaitsForEarlier ==
    ASSUME LossesInv, SemaphoreHeld, NEW r \in Runs, loop[r] = "waiting"
    PROVE  \E s \in 1..r - 1 : loop[s] \in Enumerating
<1>1. semaphore = 0 BY DEF LossesInv, EnumeratorInv
<1>2. PICK s \in Runs : loop[s] \in Enumerating BY <1>1 DEF SemaphoreHeld
<1>3. s # r BY <1>2 DEF Enumerating
<1>4. ~(r < s)
  <2>1. r < s => loop[r] = "ended" BY <1>2 DEF LossesInv, LossInv, InOrderOfStart
  <2> QED BY <2>1
<1>5. s \in 1..r - 1 BY <1>3, <1>4 DEF Runs
<1> QED BY <1>2, <1>5

\* What NobodyStuck says follows from the invariants.
LEMMA WaitImplies == LossesInv /\ WaitInv => NobodyStuck
<1> SUFFICES ASSUME LossesInv, WaitInv PROVE NobodyStuck OBVIOUS
<1>1. ASSUME NEW r \in Runs, loop[r] = "waiting"
      PROVE  \E s \in 1..r - 1 : loop[s] \in Enumerating
  BY <1>1, WaitsForEarlier DEF WaitInv
<1>2. \A r \in Runs : loop[r] = "writing" => call[target[r]] \in {"open", "failed"}
  BY DEF WaitInv, WritesAnswered
<1>3. ASSUME NEW r \in Runs, stopper[r] = "waiting"
      PROVE  /\ r \in cancelled
             /\ loop[r] = "ended" \/ \E s \in 1..r : loop[s] \in Enumerating
  <2>1. r \in cancelled /\ r <= runs BY <1>3 DEF WaitInv, StopsCancelled
  <2>2. loop[r] # "none" BY <2>1 DEF LossesInv, LossInv, Started
  <2>3. loop[r] \in LoopStates BY DEF LossesInv, TypeInv, StreamTypeOK
  <2>4. CASE loop[r] \in Enumerating
    <3>1. r \in 1..r BY DEF Runs
    <3> QED BY <2>1, <2>4, <3>1
  <2>5. CASE loop[r] = "waiting"
    <3>1. PICK s \in 1..r - 1 : loop[s] \in Enumerating BY <1>1, <2>5
    <3>2. s \in 1..r BY DEF Runs
    <3> QED BY <2>1, <3>1, <3>2
  <2>6. CASE loop[r] = "ended" BY <2>1, <2>6
  <2> QED BY <2>2, <2>3, <2>4, <2>5, <2>6 DEF LoopStates
<1> QED BY <1>1, <1>2, <1>3 DEF NobodyStuck

\* Nobody waits for what cannot come: not a loop for the semaphore, not a write
\* for its call, not a StopAsync for its loop (GrpcService.cs:41-62,
\* AsyncConcurrencyQueue.cs:35-50).
THEOREM NobodyWaitsForever == StreamSafetySpec => []NobodyStuck
<1>1. StreamInit => WaitInv BY InitWait
<1>2. LossesInv /\ WaitInv /\ [StreamNext]_streamVars => WaitInv'
  BY SemaphoreStep, AnsweredStep, StopsStep DEF LossesInv, LossInv, TypeInv, WaitInv
<1> QED BY <1>1, <1>2, LossesInvariant, WaitImplies, PTL DEF StreamSafetySpec

------------------------------------------------------------------------------
(* What a call carries                                                     *)

\* Each number of the sequence is greater than those before it.
Increasing(q) == \A i, j \in 1..Len(q) : i < j => q[i] < q[j]

\* The elements of a sequence that has grown by one.
LEMMA AppendElements ==
    ASSUME NEW S, NEW q \in Seq(S), NEW e \in S
    PROVE  Elements(Append(q, e)) = Elements(q) \union {e}
<1> DEFINE p == Append(q, e)
<1>1. Len(p) = Len(q) + 1 /\ p[Len(q) + 1] = e /\ \A i \in 1..Len(q) : p[i] = q[i]
  OBVIOUS
<1>2. Len(q) \in Nat OBVIOUS
<1>3. 1..(Len(q) + 1) = (1..Len(q)) \union {Len(q) + 1} BY <1>2
<1> HIDE DEF p
<1>4. Elements(p) = Elements(q) \union {e} BY <1>1, <1>3 DEF Elements
<1> QED BY <1>4 DEF p

\* The elements of a sequence are its head and those of its tail.
LEMMA HeadTailElements ==
    ASSUME NEW S, NEW q \in Seq(S), q # << >>
    PROVE  Elements(q) = {Head(q)} \union Elements(Tail(q))
<1> DEFINE t == Tail(q)
<1>1. Len(q) \in Nat /\ Len(q) >= 1 /\ Len(t) = Len(q) - 1 OBVIOUS
<1>2. Head(q) = q[1] /\ \A i \in 1..Len(t) : t[i] = q[i + 1] OBVIOUS
<1> HIDE DEF t
<1>3. ASSUME NEW i \in 1..Len(q) PROVE q[i] \in {Head(q)} \union Elements(t)
  <2>1. CASE i = 1 BY <1>2, <2>1
  <2>2. CASE i # 1
    <3>1. i - 1 \in 1..Len(t) /\ (i - 1) + 1 = i BY <1>1, <2>2
    <3>2. t[i - 1] = q[i] BY <1>2, <3>1
    <3> QED BY <3>1, <3>2 DEF Elements
  <2> QED BY <2>1, <2>2
<1>4. ASSUME NEW i \in 1..Len(t) PROVE t[i] \in Elements(q)
  <2>1. i + 1 \in 1..Len(q) BY <1>1
  <2> QED BY <1>2, <2>1 DEF Elements
<1>5. 1 \in 1..Len(q) BY <1>1
<1>6. Elements(q) = {Head(q)} \union Elements(t)
  <2>1. Elements(q) \subseteq {Head(q)} \union Elements(t) BY <1>3 DEF Elements
  <2>2. Elements(t) \subseteq Elements(q) BY <1>4 DEF Elements
  <2>3. Head(q) \in Elements(q) BY <1>2, <1>5 DEF Elements
  <2> QED BY <2>1, <2>2, <2>3
<1> QED BY <1>6 DEF t

\* The elements of two sequences in a row.
LEMMA ConcatElements ==
    ASSUME NEW S, NEW p \in Seq(S), NEW q \in Seq(S)
    PROVE  Elements(p \o q) = Elements(p) \union Elements(q)
<1> DEFINE w == p \o q
<1>1. Len(p) \in Nat /\ Len(q) \in Nat /\ Len(w) = Len(p) + Len(q) OBVIOUS
<1>2. \A i \in 1..Len(p) : w[i] = p[i] OBVIOUS
<1>3. \A i \in 1..Len(q) : w[Len(p) + i] = q[i] OBVIOUS
<1> HIDE DEF w
<1>4. ASSUME NEW i \in 1..Len(w) PROVE w[i] \in Elements(p) \union Elements(q)
  <2>1. CASE i <= Len(p)
    <3>1. i \in 1..Len(p) BY <1>1, <2>1
    <3> QED BY <1>2, <3>1 DEF Elements
  <2>2. CASE ~(i <= Len(p))
    <3>1. i - Len(p) \in 1..Len(q) /\ Len(p) + (i - Len(p)) = i BY <1>1, <2>2
    <3>2. w[i] = q[i - Len(p)] BY <1>3, <3>1
    <3> QED BY <3>1, <3>2 DEF Elements
  <2> QED BY <2>1, <2>2
<1>5. ASSUME NEW i \in 1..Len(p) PROVE p[i] \in Elements(w)
  <2>1. i \in 1..Len(w) BY <1>1
  <2> QED BY <1>2, <2>1 DEF Elements
<1>6. ASSUME NEW i \in 1..Len(q) PROVE q[i] \in Elements(w)
  <2>1. Len(p) + i \in 1..Len(w) BY <1>1
  <2> QED BY <1>3, <2>1 DEF Elements
<1>7. Elements(w) = Elements(p) \union Elements(q)
  <2>1. Elements(w) \subseteq Elements(p) \union Elements(q) BY <1>4 DEF Elements
  <2>2. Elements(p) \subseteq Elements(w) BY <1>5 DEF Elements
  <2>3. Elements(q) \subseteq Elements(w) BY <1>6 DEF Elements
  <2> QED BY <2>1, <2>2, <2>3
<1> QED BY <1>7 DEF w

\* Moving the first message from one sequence to the end of the one before.
LEMMA MoveHead ==
    ASSUME NEW S, NEW p \in Seq(S), NEW q \in Seq(S), q # << >>
    PROVE  Append(p, Head(q)) \o Tail(q) = p \o q
OBVIOUS

\* Appending to the second of two sequences in a row.
LEMMA ConcatAppend ==
    ASSUME NEW S, NEW p \in Seq(S), NEW q \in Seq(S), NEW e \in S
    PROVE  p \o Append(q, e) = Append(p \o q, e)
OBVIOUS

\* A greater number at the end.
LEMMA AppendIncreasing ==
    ASSUME NEW q \in Seq(Int), Increasing(q), NEW e \in Int,
           \A x \in Elements(q) : x < e
    PROVE  Increasing(Append(q, e))
<1>1. Len(q) \in Nat /\ Len(Append(q, e)) = Len(q) + 1 OBVIOUS
<1>2. Append(q, e)[Len(q) + 1] = e /\ \A i \in 1..Len(q) : Append(q, e)[i] = q[i] OBVIOUS
<1>3. \A i \in 1..Len(q) : q[i] < e BY DEF Elements
<1>4. ASSUME NEW i \in 1..(Len(q) + 1), NEW j \in 1..(Len(q) + 1), i < j
      PROVE  Append(q, e)[i] < Append(q, e)[j]
  <2>1. i \in 1..Len(q) BY <1>1, <1>4
  <2>2. CASE j = Len(q) + 1 BY <1>2, <1>3, <2>1, <2>2
  <2>3. CASE j # Len(q) + 1
    <3>1. j \in 1..Len(q) BY <1>1, <2>3
    <3> QED BY <1>2, <1>4, <2>1, <3>1 DEF Increasing
  <2> QED BY <2>2, <2>3
<1> QED BY <1>1, <1>4 DEF Increasing

\* The first part of an increasing sequence.
LEMMA PrefixIncreasing ==
    ASSUME NEW p \in Seq(Int), NEW q \in Seq(Int), Increasing(p \o q)
    PROVE  Increasing(p)
<1>1. Len(p) \in Nat /\ Len(q) \in Nat /\ Len(p \o q) = Len(p) + Len(q) OBVIOUS
<1>2. \A i \in 1..Len(p) : (p \o q)[i] = p[i] OBVIOUS
<1>3. ASSUME NEW i \in 1..Len(p), NEW j \in 1..Len(p), i < j PROVE p[i] < p[j]
  <2>1. i \in 1..Len(p \o q) /\ j \in 1..Len(p \o q) BY <1>1
  <2>2. (p \o q)[i] < (p \o q)[j] BY <1>3, <2>1 DEF Increasing
  <2> QED BY <1>2, <2>2
<1> QED BY <1>3 DEF Increasing

\* The snapshots the calls carry.
Marks(c) == Elements(Carried(c))

\* What the server reads of a call leaves what it carries as it was; a call
\* that fails carries what it has stored.
LEMMA CarriedChange ==
    ASSUME StreamTypeOK
    PROVE  /\ UNCHANGED <<inFlight, stored>> => \A d \in Runs : Carried(d)' = Carried(d)
           /\ \A c \in Runs : Store(c) => \A d \in Runs : Carried(d)' = Carried(d)
           /\ \A c \in Runs : CallFails(c) =>
                /\ \A d \in Runs : d # c => Carried(d)' = Carried(d)
                /\ Carried(c)' = stored[c]
<1>1. inFlight \in [Runs -> Seq(1..MaxSnapshots)] /\ stored \in [Runs -> Seq(1..MaxSnapshots)]
  BY DEF StreamTypeOK
<1>2. UNCHANGED <<inFlight, stored>> => \A d \in Runs : Carried(d)' = Carried(d)
  BY DEF Carried
<1>3. ASSUME NEW c \in Runs, Store(c), NEW d \in Runs PROVE Carried(d)' = Carried(d)
  <2>1. CASE d # c
    <3>1. inFlight'[d] = inFlight[d] /\ stored'[d] = stored[d]
      BY <1>1, <1>3, <2>1 DEF Store
    <3> QED BY <3>1 DEF Carried
  <2>2. CASE d = c
    <3>1. inFlight[c] # << >> /\ inFlight'[c] = Tail(inFlight[c])
      BY <1>1, <1>3 DEF Store
    <3>2. stored'[c] = Append(stored[c], Head(inFlight[c])) BY <1>1, <1>3 DEF Store
    <3>3. Append(stored[c], Head(inFlight[c])) \o Tail(inFlight[c])
            = stored[c] \o inFlight[c]
      BY <1>1, <3>1, MoveHead
    <3> QED BY <2>2, <3>1, <3>2, <3>3 DEF Carried
  <2> QED BY <2>1, <2>2
<1>4. ASSUME NEW c \in Runs, CallFails(c)
      PROVE  /\ \A d \in Runs : d # c => Carried(d)' = Carried(d)
             /\ Carried(c)' = stored[c]
  <2>1. stored' = stored /\ inFlight'[c] = << >> BY <1>1, <1>4 DEF CallFails
  <2>2. \A d \in Runs : d # c => inFlight'[d] = inFlight[d] BY <1>1, <1>4 DEF CallFails
  <2>3. stored[c] \o << >> = stored[c] BY <1>1
  <2> QED BY <2>1, <2>2, <2>3 DEF Carried
<1> QED BY <1>2, <1>3, <1>4

\* A written snapshot is the last its call carries.
LEMMA CarriedWritten ==
    ASSUME TypeInv, NEW r \in Runs, Written(r), NEW c \in Runs, c = target[r]
    PROVE  /\ Carried(c)' = Append(Carried(c), held[r])
           /\ \A d \in Runs : d # c => Carried(d)' = Carried(d)
           /\ Marks(c)' = Marks(c) \union {held[r]}
<1> DEFINE S == 1..MaxSnapshots
<1>1. inFlight \in [Runs -> Seq(S)] /\ stored \in [Runs -> Seq(S)]
  BY DEF TypeInv, StreamTypeOK
<1>2. held[r] \in S BY DEF TypeInv, Written
<1> HIDE DEF S
<1>3. stored' = stored BY DEF Written
<1>4. inFlight'[c] = Append(inFlight[c], held[r]) BY <1>1 DEF Written
<1>5. \A d \in Runs : d # c => inFlight'[d] = inFlight[d] BY <1>1 DEF Written
<1>6. stored[c] \in Seq(S) /\ inFlight[c] \in Seq(S) BY <1>1
<1>7. stored[c] \o Append(inFlight[c], held[r]) = Append(stored[c] \o inFlight[c], held[r])
  <2>1. ASSUME NEW p \in Seq(S), NEW q \in Seq(S), NEW e \in S
        PROVE  p \o Append(q, e) = Append(p \o q, e)
    BY ConcatAppend
  <2> QED BY <1>2, <1>6, <2>1, Zenon
<1>8. Carried(c)' = Append(Carried(c), held[r]) BY <1>3, <1>4, <1>7 DEF Carried
<1>9. stored[c] \o inFlight[c] \in Seq(S) BY <1>6
<1>10. Carried(c) \in Seq(S) BY <1>9 DEF Carried
<1>11. Elements(Append(Carried(c), held[r])) = Elements(Carried(c)) \union {held[r]}
  BY <1>2, <1>10, AppendElements
<1>12. Marks(c)' = Elements(Carried(c)') BY DEF Marks, Elements
<1>13. Marks(c)' = Marks(c) \union {held[r]} BY <1>8, <1>11, <1>12 DEF Marks
<1> QED BY <1>3, <1>5, <1>8, <1>13 DEF Carried

------------------------------------------------------------------------------
(* The order of the stream                                                 *)

\* Snapshots taken from the queue so far.
Taken == enqueued - Len(buffer)

\* The queue holds the snapshots that have not been taken, in their order.
QueueInv ==
    /\ Len(buffer) <= enqueued
    /\ \A i \in 1..Len(buffer) : buffer[i] = Taken + i

Holding == {"handing", "writing"}

\* A loop holds a snapshot from Receive to the end of the write, and it is the
\* one that was taken last.
HeldInv == \A r \in Runs : held[r] # 0 => loop[r] \in Holding /\ held[r] = Taken

\* Every call carries increasing snapshots that were taken, before the one a
\* loop holds and before those of later calls; calls that were not opened, or
\* come after the one that is being written to, carry none yet.
OrderInv ==
    /\ \A c \in Runs : Increasing(Carried(c))
    /\ \A c \in Runs : \A x \in Marks(c) : x <= Taken
    /\ \A c, r \in Runs : loop[r] \in Holding => \A x \in Marks(c) : x < held[r]
    /\ \A c, d \in Runs : c < d => \A x \in Marks(c), y \in Marks(d) : x < y
    /\ \A d \in Runs : runs < d => Marks(d) = {}
    /\ \A d, r \in Runs : loop[r] = "writing" /\ target[r] < d => Marks(d) = {}

\* CarriedInOrder is not inductive: the next snapshot a loop writes must come
\* after all that any call carries.
FlowInv == QueueInv /\ HeldInv /\ OrderInv

\* Initially nothing is queued, held or carried.
LEMMA InitFlow == StreamInit => FlowInv
<1> SUFFICES ASSUME StreamInit PROVE FlowInv OBVIOUS
<1>1. Len(buffer) = 0 /\ enqueued = 0 BY DEF StreamInit
<1>2. QueueInv BY <1>1 DEF QueueInv
<1>3. HeldInv BY DEF StreamInit, HeldInv
<1>4. << >> \o << >> = << >> OBVIOUS
<1>5. \A c \in Runs : Carried(c) = << >> BY <1>4 DEF StreamInit, Carried
<1>6. Len(<< >>) = 0 /\ 1..0 = {} OBVIOUS
<1>7. \A c \in Runs : Marks(c) = {} /\ Increasing(Carried(c))
  BY <1>5, <1>6 DEF Marks, Elements, Increasing
<1> QED BY <1>2, <1>3, <1>7 DEF FlowInv, OrderInv

\* The calls carry in order what was taken before what is queued.
LEMMA FlowImplies == StreamTypeOK /\ FlowInv => CarriedInOrder
<1> SUFFICES ASSUME StreamTypeOK, FlowInv PROVE CarriedInOrder OBVIOUS
<1>1. QueueInv /\ OrderInv BY DEF FlowInv
<1>2. /\ enqueued \in Nat /\ Len(buffer) \in Nat
      /\ inFlight \in [Runs -> Seq(1..MaxSnapshots)] /\ stored \in [Runs -> Seq(1..MaxSnapshots)]
  BY DEF StreamTypeOK
<1>3. \A c \in Runs : Carried(c) \in Seq(1..MaxSnapshots) BY <1>2 DEF Carried
<1>4. ASSUME NEW c \in Runs, NEW x \in Elements(Carried(c)), NEW y \in Elements(buffer)
      PROVE  x < y
  <2>1. x \in Int
    <3>1. Elements(Carried(c)) \subseteq 1..MaxSnapshots
        BY <1>3, ElementsIn DEF Elements
    <3> QED BY <3>1
  <2>2. x <= Taken /\ Taken \in Int BY <1>1, <1>2 DEF OrderInv, Marks, Taken
  <2>3. PICK i \in 1..Len(buffer) : y = buffer[i] BY DEF Elements
  <2>4. y = Taken + i BY <1>1, <2>3 DEF QueueInv
  <2> QED BY <1>2, <2>1, <2>2, <2>4
<1>5. \A c \in Runs : Before(Carried(c), buffer) BY <1>4 DEF Before
<1>6. \A c, d \in Runs : c < d => Before(Carried(c), Carried(d))
  BY <1>1 DEF OrderInv, Marks, Before
<1>7. \A c \in Runs : \A i, j \in 1..Len(Carried(c)) :
        i < j => Carried(c)[i] < Carried(c)[j]
  BY <1>1 DEF OrderInv, Increasing
<1> QED BY <1>5, <1>6, <1>7 DEF CarriedInOrder

\* A sequence over S is one over any larger set.
LEMMA WiderSeq ==
    ASSUME NEW S, NEW T, S \subseteq T, NEW q \in Seq(S)
    PROVE  q \in Seq(T)
<1>1. Len(q) \in Nat /\ DOMAIN q = 1..Len(q) /\ q = [i \in 1..Len(q) |-> q[i]] OBVIOUS
<1>2. \A i \in 1..Len(q) : q[i] \in S OBVIOUS
<1> QED BY <1>1, <1>2

\* The marks of a call are snapshots.
LEMMA MarksType ==
    ASSUME StreamTypeOK, NEW c \in Runs
    PROVE  /\ Carried(c) \in Seq(1..MaxSnapshots)
           /\ Carried(c) \in Seq(Int)
           /\ Marks(c) \subseteq 1..MaxSnapshots
<1>1. inFlight[c] \in Seq(1..MaxSnapshots) /\ stored[c] \in Seq(1..MaxSnapshots)
    BY DEF StreamTypeOK
<1>2. Carried(c) \in Seq(1..MaxSnapshots) BY <1>1 DEF Carried
<1>3. Marks(c) \subseteq 1..MaxSnapshots BY <1>2, ElementsIn DEF Marks, Elements
<1>4. ASSUME NEW q \in Seq(1..MaxSnapshots) PROVE q \in Seq(Int)
  <2>1. 1..MaxSnapshots \subseteq Int OBVIOUS
  <2> QED BY <2>1, WiderSeq
<1> QED BY <1>2, <1>3, <1>4

\* No call carries more than before: a step that takes at most one snapshot,
\* opens at most a new call and lets no loop hold or write anything older.
LEMMA ShrinkStep ==
    ASSUME StreamTypeOK, OrderInv, Taken \in Int, Taken' \in {Taken, Taken + 1},
           runs' \in {runs, runs + 1},
           \A c \in Runs : Marks(c)' \subseteq Marks(c) /\ Increasing(Carried(c)'),
           \A r \in Runs : loop'[r] \in Holding =>
             \/ loop[r] \in Holding /\ held'[r] = held[r]
             \/ held'[r] = Taken + 1,
           \A r \in Runs : loop'[r] = "writing" =>
             \/ loop[r] = "writing" /\ target'[r] = target[r]
             \/ target'[r] = runs
    PROVE  OrderInv'
<1>1. \A c \in Runs : Marks(c) \subseteq Int BY MarksType
<1>2. runs \in Int BY DEF StreamTypeOK
<1>3. \A c \in Runs : Increasing(Carried(c))' BY DEF Increasing
<1>4. \A c \in Runs : \A x \in Marks(c)' : x <= Taken' BY <1>1 DEF OrderInv
<1>5. \A c, r \in Runs : loop'[r] \in Holding => \A x \in Marks(c)' : x < held'[r]
  <2> SUFFICES ASSUME NEW c \in Runs, NEW r \in Runs, loop'[r] \in Holding,
                      NEW x \in Marks(c)'
               PROVE  x < held'[r]
    OBVIOUS
  <2>1. x \in Marks(c) /\ x \in Int BY <1>1
  <2>2. CASE loop[r] \in Holding /\ held'[r] = held[r] BY <2>1, <2>2 DEF OrderInv
  <2>3. CASE held'[r] = Taken + 1 BY <2>1, <2>3 DEF OrderInv
  <2> QED BY <2>2, <2>3
<1>6. \A c, d \in Runs : c < d => \A x \in Marks(c)', y \in Marks(d)' : x < y
  BY DEF OrderInv
<1>7. \A d \in Runs : runs' < d => Marks(d)' = {}
  <2>1. \A d \in Runs : runs' < d => runs < d BY <1>2 DEF Runs
  <2> QED BY <2>1 DEF OrderInv
<1>8. \A d, r \in Runs : loop'[r] = "writing" /\ target'[r] < d => Marks(d)' = {}
  BY DEF OrderInv
<1> QED BY <1>3, <1>4, <1>5, <1>6, <1>7, <1>8 DEF OrderInv

\* Steps that leave the queue alone, and its two ends.
LEMMA QueueStep ==
    ASSUME StreamTypeOK, QueueInv
    PROVE  /\ Taken \in Int
           /\ UNCHANGED queueVars => QueueInv' /\ Taken' = Taken
           /\ Enqueue => QueueInv' /\ Taken' = Taken
           /\ \A r \in Runs : Receive(r) =>
                QueueInv' /\ Taken' = Taken + 1 /\ Head(buffer) = Taken + 1
<1> DEFINE n == Len(buffer)
<1>1. enqueued \in Nat /\ n \in Nat /\ buffer \in Seq(1..MaxSnapshots)
    BY DEF StreamTypeOK
<1>2. Taken = enqueued - n BY DEF Taken
<1>3. n <= enqueued /\ \A i \in 1..n : buffer[i] = Taken + i BY DEF QueueInv
<1>4. UNCHANGED queueVars => QueueInv' /\ Taken' = Taken
  BY DEF queueVars, QueueInv, Taken
<1>5. ASSUME Enqueue PROVE QueueInv' /\ Taken' = Taken
  <2>1. enqueued' = enqueued + 1 /\ buffer' = Append(buffer, enqueued + 1)
    BY <1>5 DEF Enqueue
  <2>2. Len(buffer') = n + 1 /\ buffer'[n + 1] = enqueued + 1 BY <1>1, <2>1
  <2>3. \A i \in 1..n : buffer'[i] = buffer[i] BY <1>1, <2>1
  <2> HIDE DEF n
  <2>4. Taken' = Taken BY <1>1, <1>2, <2>1, <2>2 DEF Taken
  <2>5. \A i \in 1..(n + 1) : buffer'[i] = Taken + i
    BY <1>1, <1>2, <1>3, <2>2, <2>3
  <2> QED BY <1>1, <1>3, <2>1, <2>2, <2>4, <2>5 DEF QueueInv
<1>6. ASSUME NEW r \in Runs, Receive(r)
      PROVE  QueueInv' /\ Taken' = Taken + 1 /\ Head(buffer) = Taken + 1
  <2>1. buffer # << >> /\ buffer' = Tail(buffer) /\ enqueued' = enqueued
    BY <1>6 DEF Receive
  <2>2. n >= 1 /\ Len(buffer') = n - 1 /\ Head(buffer) = buffer[1] BY <1>1, <2>1
  <2>3. \A i \in 1..(n - 1) : buffer'[i] = buffer[i + 1] BY <1>1, <2>1
  <2> HIDE DEF n
  <2>4. Taken' = Taken + 1 BY <1>1, <1>2, <2>1, <2>2 DEF Taken
  <2>5. Head(buffer) = Taken + 1 BY <1>1, <1>3, <2>2
  <2>6. ASSUME NEW i \in 1..(n - 1) PROVE buffer'[i] = Taken' + i
    <3>1. i + 1 \in 1..n BY <1>1
    <3>2. buffer[i + 1] = Taken + (i + 1) BY <1>3, <3>1
    <3> QED BY <1>1, <1>2, <2>3, <2>4, <3>2
  <2> QED BY <1>1, <1>3, <2>1, <2>2, <2>4, <2>5, <2>6 DEF QueueInv
<1> QED BY <1>1, <1>2, <1>4, <1>5, <1>6

\* A step that takes nothing and leaves what the loops hold to those that go on.
LEMMA HeldStep ==
    ASSUME HeldInv, Taken' = Taken,
           \A r \in Runs : held'[r] # 0 => held'[r] = held[r] /\ loop'[r] \in Holding
    PROVE  HeldInv'
BY DEF HeldInv

\* Every step keeps the order of the stream.
LEMMA FlowStep ==
    TypeInv /\ EnumeratorInv /\ WritesToStarted /\ Started /\ FlowInv /\ [StreamNext]_streamVars
      => FlowInv'
<1> SUFFICES ASSUME TypeInv, EnumeratorInv, WritesToStarted, Started, FlowInv, [StreamNext]_streamVars
             PROVE  FlowInv'
  OBVIOUS
<1>1. StreamTypeOK BY DEF TypeInv
<1>2. QueueInv /\ HeldInv /\ OrderInv BY DEF FlowInv
<1>3. /\ loop \in [Runs -> LoopStates] /\ held \in [Runs -> 0..MaxSnapshots]
      /\ target \in [Runs -> 0..MaxRuns] /\ runs \in 0..MaxRuns
  BY <1>1 DEF StreamTypeOK
<1>4. \A r \in Runs : loop[r] \in Holding => held[r] \in 1..MaxSnapshots
  BY DEF TypeInv, Holding
<1>5. Taken \in Int BY <1>1, <1>2, QueueStep
<1>6. UNCHANGED queueVars => QueueInv' /\ Taken' = Taken BY <1>1, <1>2, QueueStep
\* Most steps add nothing to a call.
<1>7. ASSUME \A c \in Runs : Carried(c)' = Carried(c)
      PROVE  \A c \in Runs : Marks(c)' \subseteq Marks(c) /\ Increasing(Carried(c)')
  <2>1. \A c \in Runs : Marks(c)' = Marks(c) BY <1>7 DEF Marks, Elements
  <2> QED BY <1>2, <1>7, <2>1 DEF OrderInv
<1>8. UNCHANGED <<inFlight, stored>> => \A c \in Runs : Carried(c)' = Carried(c)
  BY <1>1, CarriedChange
<1>9. ASSUME QueueInv', Taken' = Taken, runs' \in {runs, runs + 1}, UNCHANGED <<held, target>>,
             \A c \in Runs : Marks(c)' \subseteq Marks(c) /\ Increasing(Carried(c)'),
             \A r \in Runs : loop[r] \in Holding => loop'[r] = loop[r],
             \A r \in Runs : loop'[r] \in Holding => loop'[r] = loop[r]
      PROVE  FlowInv'
  <2>1. HeldInv' BY <1>2, <1>9, HeldStep DEF HeldInv
  <2>2. OrderInv'
    BY <1>1, <1>2, <1>5, <1>9, ShrinkStep DEF Holding
  <2> QED BY <1>9, <2>1, <2>2 DEF FlowInv
<1>10. CASE Enqueue
  <2>1. QueueInv' /\ Taken' = Taken BY <1>1, <1>2, <1>10, QueueStep
  <2>2. UNCHANGED <<inFlight, stored, runs, loop, held, target>>
    BY <1>10 DEF Enqueue, loopVars, serviceVars, streamCallVars
  <2> QED BY <1>7, <1>8, <1>9, <2>1, <2>2
<1>11. CASE Stop \/ UNCHANGED streamVars
  <2>1. UNCHANGED <<inFlight, stored, runs, loop, held, target>> /\ UNCHANGED queueVars
    BY <1>11 DEF Stop, streamVars, loopVars, serviceVars, streamCallVars
  <2> QED BY <1>6, <1>7, <1>8, <1>9, <2>1
<1>12. CASE Start
  <2>1. UNCHANGED <<inFlight, stored, held, target>> /\ UNCHANGED queueVars /\ runs' = runs + 1
    BY <1>12 DEF Start
  <2>2. loop[runs'] = "none" \/ runs' \notin Runs BY <1>3, <2>1 DEF Started, Runs
  <2>3. \A r \in Runs : loop[r] \in Holding => loop'[r] = loop[r]
    BY <1>3, <1>12, <2>2 DEF Start, Holding
  <2>4. \A r \in Runs : loop'[r] \in Holding => loop'[r] = loop[r]
    BY <1>3, <1>12 DEF Start, Holding
  <2> QED BY <1>6, <1>7, <1>8, <1>9, <2>1, <2>3, <2>4
<1>13. ASSUME NEW r \in Runs, CompleteAsync(r) PROVE FlowInv'
  <2>1. UNCHANGED <<inFlight, stored, runs, loop, held, target>> /\ UNCHANGED queueVars
    BY <1>13 DEF CompleteAsync, loopVars
  <2> QED BY <1>6, <1>7, <1>8, <1>9, <2>1
<1>14. ASSUME NEW r \in Runs, Receive(r) PROVE FlowInv'
  <2>1. QueueInv' /\ Taken' = Taken + 1 /\ Head(buffer) = Taken + 1
    BY <1>1, <1>2, <1>14, QueueStep
  <2>2. UNCHANGED <<inFlight, stored, runs, target>>
    BY <1>14 DEF Receive, serviceVars, streamCallVars
  <2>3. loop[r] = "receiving" /\ loop'[r] = "handing" /\ held'[r] = Taken + 1
    BY <1>3, <1>14, <2>1 DEF Receive
  <2>4. \A s \in Runs : s # r => loop'[s] = loop[s] /\ held'[s] = held[s]
    BY <1>3, <1>14 DEF Receive
  <2>5. \A s \in Runs : s # r => loop[s] \notin Holding
    BY <2>3 DEF EnumeratorInv, OneEnumerator, Enumerating, Holding
  <2>6. HeldInv' BY <1>2, <2>1, <2>3, <2>4, <2>5 DEF HeldInv, Holding
  <2>7. \A s \in Runs : loop'[s] \in Holding => held'[s] = Taken + 1
    BY <2>3, <2>4, <2>5
  <2>8. \A s \in Runs : loop'[s] # "writing" BY <2>3, <2>4, <2>5 DEF Holding
  <2>9. \A c \in Runs : Marks(c)' \subseteq Marks(c) /\ Increasing(Carried(c)')
    BY <1>7, <1>8, <2>2
  <2>10. OrderInv' BY <1>1, <1>2, <1>5, <2>1, <2>2, <2>7, <2>8, <2>9, ShrinkStep
  <2> QED BY <2>1, <2>6, <2>10 DEF FlowInv
<1>15. ASSUME NEW r \in Runs, Write(r) PROVE FlowInv'
  <2>1. UNCHANGED <<inFlight, stored, runs, held>> /\ UNCHANGED queueVars
    BY <1>15 DEF Write, serviceVars, streamCallVars
  <2>2. loop[r] = "handing" /\ loop'[r] = "writing" /\ target'[r] = runs
    BY <1>3, <1>15 DEF Write
  <2>3. \A s \in Runs : s # r => loop'[s] = loop[s] /\ target'[s] = target[s]
    BY <1>3, <1>15 DEF Write
  <2>4. HeldInv' BY <1>2, <1>6, <2>1, <2>2, <2>3 DEF HeldInv, Holding
  <2>5. \A s \in Runs : loop'[s] \in Holding => loop[s] \in Holding /\ held'[s] = held[s]
    BY <2>1, <2>2, <2>3 DEF Holding
  <2>6. \A s \in Runs : loop'[s] = "writing" =>
          \/ loop[s] = "writing" /\ target'[s] = target[s]
          \/ target'[s] = runs
    BY <2>2, <2>3
  <2>7. \A c \in Runs : Marks(c)' \subseteq Marks(c) /\ Increasing(Carried(c)')
    BY <1>7, <1>8, <2>1
  <2>8. OrderInv' BY <1>1, <1>2, <1>5, <1>6, <2>1, <2>5, <2>6, <2>7, ShrinkStep
  <2> QED BY <1>6, <2>1, <2>4, <2>8 DEF FlowInv
<1>16. ASSUME NEW r \in Runs, Written(r) PROVE FlowInv'
  <2>1. UNCHANGED <<runs, target>> /\ UNCHANGED queueVars
    BY <1>16 DEF Written, serviceVars
  <2>2. loop[r] = "writing" /\ loop'[r] = "delaying" /\ held'[r] = 0
    BY <1>3, <1>16 DEF Written
  <2>3. PICK t \in Runs : t = target[r] /\ t <= runs
    BY <1>3, <2>2, GrpcAssumption DEF WritesToStarted, Runs
  <2>4. PICK e \in 1..MaxSnapshots : e = held[r] /\ e = Taken
    BY <1>2, <1>4, <2>2 DEF Holding, HeldInv
  <2>5. \A s \in Runs : s # r => loop'[s] = loop[s] /\ held'[s] = held[s]
    BY <1>3, <1>16 DEF Written
  <2>6. \A s \in Runs : loop'[s] \notin Holding
    <3>1. \A s \in Runs : s # r => loop[s] \notin Holding
      BY <2>2 DEF EnumeratorInv, OneEnumerator, Enumerating, Holding
    <3> QED BY <2>2, <2>5, <3>1 DEF Holding
  <2>7. \A c \in Runs : \A x \in Marks(c) : x < e
    BY <1>2, <2>2, <2>4 DEF OrderInv, Holding
  <2>8. /\ Carried(t)' = Append(Carried(t), e)
        /\ \A d \in Runs : d # t => Carried(d)' = Carried(d)
        /\ Marks(t)' = Marks(t) \union {e}
    BY <1>16, <2>3, <2>4, CarriedWritten
  <2>9. \A d \in Runs : d # t => Marks(d)' = Marks(d) BY <2>8 DEF Marks, Elements
  <2>10. \A d \in Runs : t < d => Marks(d) = {} BY <1>2, <2>2, <2>3 DEF OrderInv
  <2>11. QueueInv' /\ Taken' = Taken BY <1>6, <2>1
  <2>12. HeldInv'
    BY <1>2, <2>2, <2>5, <2>11, HeldStep DEF HeldInv, EnumeratorInv, OneEnumerator,
       Enumerating, Holding
  <2>13. \A c \in Runs : Increasing(Carried(c))'
    <3>1. Carried(t) \in Seq(Int) /\ e \in Int BY <1>1, <2>3, <2>4, MarksType
    <3>2. Increasing(Append(Carried(t), e))
      BY <1>2, <2>3, <2>7, <3>1, AppendIncreasing DEF OrderInv, Marks
    <3>3. ASSUME NEW c \in Runs PROVE Increasing(Carried(c)')
      <4>1. CASE c = t BY <2>8, <3>2, <4>1
      <4>2. CASE c # t BY <1>2, <2>8, <4>2 DEF OrderInv
      <4> QED BY <4>1, <4>2
    <3> QED BY <3>3 DEF Increasing
  <2>14. \A c \in Runs : \A x \in Marks(c)' : x <= Taken'
    <3>1. e <= Taken BY <1>5, <2>4
    <3> QED BY <1>2, <2>8, <2>9, <2>11, <3>1 DEF OrderInv
  <2>15. \A c, d \in Runs : c < d => \A x \in Marks(c)', y \in Marks(d)' : x < y
    <3> SUFFICES ASSUME NEW c \in Runs, NEW d \in Runs, c < d,
                        NEW x \in Marks(c)', NEW y \in Marks(d)'
                 PROVE  x < y
      OBVIOUS
    <3>1. CASE y \in Marks(d)
      <4>1. c # t BY <2>10, <3>1
      <4>2. x \in Marks(c) BY <2>9, <4>1
      <4> QED BY <1>2, <3>1, <4>2 DEF OrderInv
    <3>2. CASE y \notin Marks(d)
      <4>1. d = t /\ y = e BY <2>8, <2>9, <3>2
      <4>2. c # t BY <4>1 DEF Runs
      <4>3. x \in Marks(c) BY <2>9, <4>2
      <4> QED BY <2>7, <4>1, <4>3
    <3> QED BY <3>1, <3>2
  <2>16. \A d \in Runs : runs' < d => Marks(d)' = {}
    <3> SUFFICES ASSUME NEW d \in Runs, runs' < d PROVE Marks(d)' = {}
      OBVIOUS
    <3>1. runs < d /\ d # t BY <1>3, <2>1, <2>3 DEF Runs
    <3> QED BY <1>2, <2>9, <3>1 DEF OrderInv
  <2>17. OrderInv' BY <2>6, <2>13, <2>14, <2>15, <2>16 DEF OrderInv, Holding
  <2> QED BY <2>11, <2>12, <2>17 DEF FlowInv
<1>17. ASSUME NEW r \in Runs, WriteThrows(r) PROVE FlowInv'
  <2>1. UNCHANGED <<inFlight, stored, runs, target>> /\ UNCHANGED queueVars
    BY <1>17 DEF WriteThrows, serviceVars, streamCallVars
  <2>2. held'[r] = 0 /\ \A s \in Runs : s # r => held'[s] = held[s]
    BY <1>3, <1>17 DEF WriteThrows
  <2>3. loop[r] \in Holding /\ Leave(r) BY <1>17 DEF WriteThrows, Holding
  <2>4. \A s \in Runs : loop'[s] \in Holding => s # r /\ loop'[s] = loop[s]
    BY <1>1, <2>3, LeaveType DEF Holding
  <2>5. \A s \in Runs : s # r => loop[s] \notin Holding
    BY <2>3 DEF EnumeratorInv, OneEnumerator, Enumerating, Holding
  <2>6. HeldInv' BY <1>2, <2>2, <2>5 DEF HeldInv
  <2>7. \A c \in Runs : Marks(c)' \subseteq Marks(c) /\ Increasing(Carried(c)')
    BY <1>7, <1>8, <2>1
  <2>8. \A s \in Runs : loop'[s] \notin Holding BY <2>4, <2>5
  <2>9. OrderInv' BY <1>1, <1>2, <1>5, <1>6, <2>1, <2>7, <2>8, ShrinkStep DEF Holding
  <2> QED BY <1>6, <2>1, <2>6, <2>9 DEF FlowInv
<1>18. ASSUME NEW r \in Runs, Delayed(r) \/ DelayCancelled(r) PROVE FlowInv'
  <2>1. UNCHANGED <<inFlight, stored, runs, held, target>> /\ UNCHANGED queueVars
    BY <1>18 DEF Delayed, DelayCancelled, serviceVars, streamCallVars
  <2>2. loop[r] = "delaying" BY <1>18 DEF Delayed, DelayCancelled
  <2>3. \A s \in Runs : loop[s] \notin Holding
    BY <2>2 DEF EnumeratorInv, OneEnumerator, Enumerating, Holding
  <2>4. \A s \in Runs : loop'[s] \in Holding => loop'[s] = loop[s]
    BY <1>1, <1>3, <1>18, LeaveType DEF Delayed, DelayCancelled, Holding
  <2> QED BY <1>6, <1>7, <1>8, <1>9, <2>1, <2>3, <2>4
<1>19. ASSUME NEW c \in Runs, Store(c) PROVE FlowInv'
  <2>1. UNCHANGED <<runs, loop, held, target>> /\ UNCHANGED queueVars
    BY <1>19 DEF Store, loopVars, serviceVars
  <2>2. \A d \in Runs : Carried(d)' = Carried(d) BY <1>1, <1>19, CarriedChange
  <2> QED BY <1>6, <1>7, <1>9, <2>1, <2>2
<1>20. ASSUME NEW c \in Runs, CallFails(c) PROVE FlowInv'
  <2>1. UNCHANGED <<runs, loop, held, target>> /\ UNCHANGED queueVars
    BY <1>20 DEF CallFails, loopVars, serviceVars
  <2>2. \A d \in Runs : d # c => Carried(d)' = Carried(d) BY <1>1, <1>20, CarriedChange
  <2>3. Carried(c)' = stored[c] BY <1>1, <1>20, CarriedChange
  <2>4. stored[c] \in Seq(1..MaxSnapshots) /\ inFlight[c] \in Seq(1..MaxSnapshots)
    BY <1>1 DEF StreamTypeOK
  <2>5. Elements(stored[c]) \subseteq Marks(c)
    BY <2>4, ConcatElements DEF Marks, Carried
  <2>6. Increasing(stored[c])
    <3>1. 1..MaxSnapshots \subseteq Int OBVIOUS
    <3>2. stored[c] \in Seq(Int) /\ inFlight[c] \in Seq(Int) BY <2>4, <3>1, WiderSeq
    <3>3. Increasing(stored[c] \o inFlight[c]) BY <1>2 DEF OrderInv, Carried
    <3> QED BY <3>2, <3>3, PrefixIncreasing
  <2>7. \A d \in Runs : Marks(d)' = Elements(Carried(d)') BY DEF Marks, Elements
  <2>8. \A d \in Runs : Marks(d)' \subseteq Marks(d) /\ Increasing(Carried(d)')
    BY <1>2, <2>2, <2>3, <2>5, <2>6, <2>7 DEF OrderInv, Marks
  <2> QED BY <1>6, <1>9, <2>1, <2>8
<1> QED BY <1>10, <1>11, <1>12, <1>13, <1>14, <1>15, <1>16, <1>17, <1>18, <1>19, <1>20
       DEF StreamNext, LoopNext

\* What the order of the stream rests on, together.
StreamInv == LossesInv /\ FlowInv

\* It holds initially, and every step keeps it.
LEMMA StreamInvariant == StreamSafetySpec => []StreamInv
<1>1. StreamInit => FlowInv BY InitFlow
<1>2. LossesInv /\ FlowInv /\ [StreamNext]_streamVars => FlowInv'
  BY FlowStep DEF LossesInv, LossInv
<1> QED BY <1>1, <1>2, LossesInvariant, PTL DEF StreamSafetySpec, StreamInv

\* The calls carry the snapshots in the order of their capture and none twice,
\* whichever loops of StartAsync write to them (GrpcService.cs:41-56).
THEOREM StreamOrdered == StreamSafetySpec => []CarriedInOrder
<1>1. StreamInv => CarriedInOrder BY FlowImplies DEF StreamInv, LossesInv, TypeInv
<1> QED BY StreamInvariant, <1>1, PTL

------------------------------------------------------------------------------
(* Where every snapshot is                                                 *)

Held == {held[r] : r \in Runs} \ {0}
CarriedAny == UNION {Marks(c) : c \in Runs}

\* Accounting in these terms.
LEMMA AccountingIs ==
    AllAccounted <=> 1..enqueued = Elements(buffer) \union Held \union CarriedAny \union lost
<1>1. Held = {held[r] : r \in Runs} \ {0} BY DEF Held
<1>2. CarriedAny = UNION {Elements(Carried(c)) : c \in Runs} BY DEF CarriedAny, Marks
<1> QED BY <1>1, <1>2 DEF AllAccounted

\* Initially there is none.
LEMMA InitAccounting == StreamInit => AllAccounted
<1> SUFFICES ASSUME StreamInit PROVE AllAccounted OBVIOUS
<1>1. << >> \o << >> = << >> /\ Len(<< >>) = 0 /\ 1..0 = {} OBVIOUS
<1>2. Elements(buffer) = {} BY <1>1 DEF StreamInit, Elements
<1>3. \A c \in Runs : Marks(c) = {} BY <1>1 DEF StreamInit, Marks, Carried, Elements
<1>4. Held = {} BY DEF StreamInit, Held
<1>5. CarriedAny = {} BY <1>3 DEF CarriedAny
<1>6. 1..enqueued = {} /\ lost = {} BY <1>1 DEF StreamInit
<1> QED BY <1>2, <1>4, <1>5, <1>6, AccountingIs

\* Every step keeps account of every snapshot.
LEMMA AccountingStep ==
    TypeInv /\ WritesToStarted /\ HeldInv /\ AllAccounted /\ [StreamNext]_streamVars => AllAccounted'
<1> SUFFICES ASSUME TypeInv, WritesToStarted, HeldInv, AllAccounted, [StreamNext]_streamVars
             PROVE  AllAccounted'
  OBVIOUS
<1>1. StreamTypeOK BY DEF TypeInv
<1>2. 1..enqueued = Elements(buffer) \union Held \union CarriedAny \union lost
  BY AccountingIs
<1>3. /\ enqueued \in Nat /\ buffer \in Seq(1..MaxSnapshots) /\ held \in [Runs -> 0..MaxSnapshots]
      /\ target \in [Runs -> 0..MaxRuns] /\ runs \in 0..MaxRuns
  BY <1>1 DEF StreamTypeOK
<1>4. ASSUME 1..enqueued' = Elements(buffer)' \union Held' \union CarriedAny' \union lost'
      PROVE  AllAccounted'
  <2>1. Held' = {held'[r] : r \in Runs} \ {0} BY DEF Held
  <2>2. CarriedAny' = UNION {Elements(Carried(c))' : c \in Runs}
      BY DEF CarriedAny, Marks
  <2> QED BY <1>4, <2>1, <2>2 DEF AllAccounted
<1>5. UNCHANGED queueVars => UNCHANGED enqueued /\ Elements(buffer)' = Elements(buffer)
  BY DEF queueVars, Elements
<1>6. UNCHANGED held => Held' = Held BY DEF Held
<1>7. (\A c \in Runs : Carried(c)' = Carried(c)) => CarriedAny' = CarriedAny
  <2>1. ASSUME \A c \in Runs : Carried(c)' = Carried(c) PROVE CarriedAny' = CarriedAny
    <3>1. \A c \in Runs : Marks(c)' = Marks(c) BY <2>1 DEF Marks, Elements
    <3> QED BY <3>1 DEF CarriedAny
  <2> QED BY <2>1
<1>8. UNCHANGED <<inFlight, stored>> => CarriedAny' = CarriedAny
  BY <1>1, <1>7, CarriedChange
\* A loop gives up the snapshot it holds.
<1>9. ASSUME NEW r \in Runs, held[r] # 0, held' = [held EXCEPT ![r] = 0]
      PROVE  Held' \union {held[r]} = Held
  <2>1. held'[r] = 0 /\ \A s \in Runs : s # r => held'[s] = held[s] BY <1>3, <1>9
  <2> QED BY <1>9, <2>1 DEF Held
<1>10. CASE Enqueue
  <2>1. enqueued' = enqueued + 1 /\ enqueued' \in 1..MaxSnapshots /\ buffer' = Append(buffer, enqueued')
    BY <1>3, <1>10, GrpcAssumption DEF Enqueue
  <2>2. Elements(buffer') = Elements(buffer) \union {enqueued'}
    <3> DEFINE S == 1..MaxSnapshots
    <3>1. buffer \in Seq(S) BY <1>3
    <3>2. PICK e \in S : e = enqueued' BY <2>1
    <3> HIDE DEF S
    <3>3. Elements(Append(buffer, e)) = Elements(buffer) \union {e}
        BY <3>1, AppendElements
    <3> QED BY <2>1, <3>2, <3>3
  <2>3. UNCHANGED <<held, inFlight, stored, lost>>
    BY <1>10 DEF Enqueue, loopVars, streamCallVars
  <2>4. 1..enqueued' = (1..enqueued) \union {enqueued'} BY <1>3, <2>1
  <2>5. Elements(buffer)' = Elements(buffer') BY DEF Elements
  <2> QED BY <1>2, <1>4, <1>6, <1>8, <2>2, <2>3, <2>4, <2>5
<1>11. CASE Start \/ Stop \/ UNCHANGED streamVars
  <2>1. UNCHANGED <<held, inFlight, stored, lost>> /\ UNCHANGED queueVars
    BY <1>11 DEF Start, Stop, streamVars, loopVars, streamCallVars
  <2> QED BY <1>2, <1>4, <1>5, <1>6, <1>8, <2>1
<1>12. ASSUME NEW r \in Runs, CompleteAsync(r) PROVE AllAccounted'
  <2>1. UNCHANGED <<held, inFlight, stored, lost>> /\ UNCHANGED queueVars
    BY <1>12 DEF CompleteAsync, loopVars
  <2> QED BY <1>2, <1>4, <1>5, <1>6, <1>8, <2>1
<1>13. ASSUME NEW r \in Runs, Receive(r) PROVE AllAccounted'
  <2>1. buffer # << >> /\ buffer' = Tail(buffer) /\ UNCHANGED <<enqueued, inFlight, stored, lost>>
    BY <1>13 DEF Receive, streamCallVars
  <2>2. Elements(buffer) = {Head(buffer)} \union Elements(buffer')
    BY <1>3, <2>1, HeadTailElements
  <2>3. Head(buffer) # 0
    <3>1. Head(buffer) \in 1..MaxSnapshots BY <1>3, <2>1, PartsIn
    <3> QED BY <3>1
  <2>4. held[r] = 0 BY <1>13 DEF HeldInv, Holding, Receive
  <2>5. Held' = Held \union {Head(buffer)}
    <3>1. held'[r] = Head(buffer) /\ \A s \in Runs : s # r => held'[s] = held[s]
      BY <1>3, <1>13 DEF Receive
    <3> QED BY <2>3, <2>4, <3>1 DEF Held
  <2>6. Elements(buffer)' = Elements(buffer') BY DEF Elements
  <2> QED BY <1>2, <1>4, <1>8, <2>1, <2>2, <2>5, <2>6
<1>14. ASSUME NEW r \in Runs, Write(r) \/ Delayed(r) \/ DelayCancelled(r) PROVE AllAccounted'
  <2>1. UNCHANGED <<held, inFlight, stored, lost>> /\ UNCHANGED queueVars
    BY <1>14 DEF Write, Delayed, DelayCancelled, streamCallVars
  <2> QED BY <1>2, <1>4, <1>5, <1>6, <1>8, <2>1
<1>15. ASSUME NEW r \in Runs, Written(r) PROVE AllAccounted'
  <2>1. UNCHANGED lost /\ UNCHANGED queueVars /\ held' = [held EXCEPT ![r] = 0]
    BY <1>15 DEF Written
  <2>2. held[r] # 0 BY <1>15 DEF TypeInv, Written
  <2>3. PICK c \in Runs : c = target[r]
    BY <1>3, <1>15, GrpcAssumption DEF WritesToStarted, Written, Runs
  <2>4. /\ \A d \in Runs : d # c => Carried(d)' = Carried(d)
        /\ Marks(c)' = Marks(c) \union {held[r]}
    BY <1>15, <2>3, CarriedWritten
  <2>5. \A d \in Runs : d # c => Marks(d)' = Marks(d) BY <2>4 DEF Marks, Elements
  <2>6. CarriedAny' = CarriedAny \union {held[r]} BY <2>4, <2>5 DEF CarriedAny
  <2> QED BY <1>2, <1>4, <1>5, <1>9, <2>1, <2>2, <2>6
<1>16. ASSUME NEW r \in Runs, WriteThrows(r) PROVE AllAccounted'
  <2>1. /\ UNCHANGED queueVars /\ UNCHANGED <<inFlight, stored>>
        /\ held' = [held EXCEPT ![r] = 0] /\ lost' = lost \union {held[r]}
    BY <1>16 DEF WriteThrows, streamCallVars
  <2>2. held[r] # 0 BY <1>16 DEF TypeInv, WriteThrows
  <2> QED BY <1>2, <1>4, <1>5, <1>8, <1>9, <2>1, <2>2
<1>17. ASSUME NEW c \in Runs, Store(c) PROVE AllAccounted'
  <2>1. UNCHANGED <<held, lost>> /\ UNCHANGED queueVars BY <1>17 DEF Store, loopVars
  <2>2. \A d \in Runs : Carried(d)' = Carried(d) BY <1>1, <1>17, CarriedChange
  <2> QED BY <1>2, <1>4, <1>5, <1>6, <1>7, <2>1, <2>2
<1>18. ASSUME NEW c \in Runs, CallFails(c) PROVE AllAccounted'
  <2>1. UNCHANGED held /\ UNCHANGED queueVars BY <1>18 DEF CallFails, loopVars
  <2>2. lost' = lost \union Elements(inFlight[c]) BY <1>18 DEF CallFails, Elements
  <2>3. \A d \in Runs : d # c => Carried(d)' = Carried(d) BY <1>1, <1>18, CarriedChange
  <2>4. Carried(c)' = stored[c] BY <1>1, <1>18, CarriedChange
  <2>5. \A d \in Runs : Marks(d)' = Elements(Carried(d)') BY DEF Marks, Elements
  <2>6. stored[c] \in Seq(1..MaxSnapshots) /\ inFlight[c] \in Seq(1..MaxSnapshots)
    BY <1>1 DEF StreamTypeOK
  <2>7. Marks(c) = Elements(stored[c]) \union Elements(inFlight[c])
    BY <2>6, ConcatElements DEF Marks, Carried
  <2>8. Marks(c) = Marks(c)' \union Elements(inFlight[c]) BY <2>4, <2>5, <2>7
  <2>9. \A d \in Runs : d # c => Marks(d)' = Marks(d) BY <2>3, <2>5 DEF Marks
  <2>10. CarriedAny = CarriedAny' \union Elements(inFlight[c])
      BY <2>8, <2>9 DEF CarriedAny
  <2> QED BY <1>2, <1>4, <1>5, <1>6, <2>1, <2>2, <2>10
<1> QED BY <1>10, <1>11, <1>12, <1>13, <1>14, <1>15, <1>16, <1>17, <1>18 DEF StreamNext, LoopNext

\* No snapshot disappears between the queue and the outbox: it is queued, held
\* by a loop, carried by a call, or dropped by an exception that is known.
THEOREM SnapshotsAccounted == StreamSafetySpec => []AllAccounted
<1>1. StreamInv => TypeInv /\ WritesToStarted /\ HeldInv
  BY DEF StreamInv, LossesInv, FlowInv
<1> QED BY InitAccounting, AccountingStep, StreamInvariant, <1>1, PTL DEF StreamSafetySpec

------------------------------------------------------------------------------
(* The contract of the gRPC leg                                            *)

\* On their way to the server.
Under == UNION {Elements(inFlight[c]) : c \in Runs}

\* What the contract allows a step to do.
Promised == [Contract!ContractNext]_(Contract!contractVars)

\* The places where a snapshot is pending.
LEMMA PendingIs == Pending = Elements(buffer) \union Held \union Under
BY DEF Pending, Held, Under

\* What is pending is in one place: the queue has what was not taken, a loop what
\* was taken last, and the calls what was taken before it.
LEMMA PendingApart ==
    ASSUME StreamInv
    PROVE  /\ \A x \in Elements(buffer) : x \in Int /\ x > Taken
           /\ \A r \in Runs : held[r] # 0 =>
                  /\ held[r] = Taken
                  /\ \A s \in Runs : held[s] # 0 => s = r
                  /\ \A c \in Runs : \A x \in Marks(c) : x < Taken
           /\ \A c \in Runs : Elements(inFlight[c]) \subseteq Marks(c)
           /\ \A c \in Runs : Elements(stored[c]) \subseteq Marks(c)
           /\ \A c \in Runs : \A x \in Marks(c) : x \in Int /\ x <= Taken
           /\ Taken \in Int
<1>1. StreamTypeOK /\ QueueInv /\ HeldInv /\ OrderInv /\ OneEnumerator
  BY DEF StreamInv, LossesInv, FlowInv, TypeInv, EnumeratorInv
<1>2. Taken \in Int BY <1>1, QueueStep
<1>3. ASSUME NEW x \in Elements(buffer) PROVE x \in Int /\ x > Taken
  <2>1. PICK i \in 1..Len(buffer) : x = buffer[i] BY DEF Elements
  <2>2. x = Taken + i BY <1>1, <2>1 DEF QueueInv
  <2> QED BY <1>2, <2>2
<1>4. ASSUME NEW c \in Runs
      PROVE  /\ Elements(inFlight[c]) \subseteq Marks(c) /\ Elements(stored[c]) \subseteq Marks(c)
             /\ \A x \in Marks(c) : x \in Int /\ x <= Taken
  <2>1. inFlight[c] \in Seq(1..MaxSnapshots) /\ stored[c] \in Seq(1..MaxSnapshots)
    BY <1>1 DEF StreamTypeOK
  <2>2. Marks(c) = Elements(stored[c]) \union Elements(inFlight[c])
    BY <2>1, ConcatElements DEF Marks, Carried
  <2>3. Marks(c) \subseteq Int BY <1>1, MarksType
  <2> QED BY <1>1, <2>2, <2>3 DEF OrderInv
<1>5. ASSUME NEW r \in Runs, held[r] # 0
      PROVE  /\ held[r] = Taken
             /\ \A s \in Runs : held[s] # 0 => s = r
             /\ \A c \in Runs : \A x \in Marks(c) : x < Taken
  <2>1. loop[r] \in Holding /\ held[r] = Taken BY <1>1, <1>5 DEF HeldInv
  <2>2. \A s \in Runs : held[s] # 0 => loop[s] \in Holding BY <1>1 DEF HeldInv
  <2>3. \A s \in Runs : held[s] # 0 => s = r
    BY <1>1, <2>1, <2>2 DEF OneEnumerator, Holding, Enumerating
  <2> QED BY <1>1, <2>1, <2>3 DEF OrderInv
<1> QED BY <1>2, <1>3, <1>4, <1>5

\* The head of the second of two sequences that are increasing in a row.
LEMMA HeadIncreasing ==
    ASSUME NEW p \in Seq(Int), NEW q \in Seq(Int), q # << >>, Increasing(p \o q)
    PROVE  /\ \A k \in 1..Len(p) : p[k] < Head(q)
           /\ Head(q) \notin Elements(Tail(q))
<1> DEFINE w == p \o q
           t == Tail(q)
<1>1. /\ Len(p) \in Nat /\ Len(q) \in Nat /\ Len(q) >= 1
      /\ Len(w) = Len(p) + Len(q) /\ Len(t) = Len(q) - 1
  OBVIOUS
<1>2. \A i \in 1..Len(p) : w[i] = p[i] OBVIOUS
<1>3. \A i \in 1..Len(q) : w[Len(p) + i] = q[i] /\ q[i] \in Int OBVIOUS
<1>4. Head(q) = q[1] /\ \A i \in 1..Len(t) : t[i] = q[i + 1] OBVIOUS
<1>5. \A i, j \in 1..Len(w) : i < j => w[i] < w[j] BY DEF Increasing
<1> HIDE DEF w, t
<1>6. w[Len(p) + 1] = Head(q) /\ Len(p) + 1 \in 1..Len(w) BY <1>1, <1>3, <1>4
<1>7. ASSUME NEW k \in 1..Len(p) PROVE p[k] < Head(q)
  <2>1. k \in 1..Len(w) /\ k < Len(p) + 1 BY <1>1
  <2> QED BY <1>2, <1>5, <1>6, <2>1
<1>8. ASSUME NEW k \in 1..Len(t) PROVE t[k] # Head(q)
  <2>1. k + 1 \in 1..Len(q) BY <1>1
  <2>2. Len(p) + (k + 1) \in 1..Len(w) /\ Len(p) + 1 < Len(p) + (k + 1) BY <1>1
  <2>3. w[Len(p) + (k + 1)] = t[k] BY <1>3, <1>4, <2>1
  <2>4. Head(q) < t[k] BY <1>5, <1>6, <2>2, <2>3
  <2>5. Head(q) \in Int BY <1>1, <1>3, <1>4
  <2> QED BY <2>4, <2>5
<1>9. Head(q) \notin Elements(t) BY <1>8 DEF Elements
<1> QED BY <1>7, <1>9 DEF t

\* A snapshot is posted.
LEMMA PostStep ==
    ASSUME StreamInv, Enqueue
    PROVE  Contract!Post
<1>1. StreamTypeOK BY DEF StreamInv, LossesInv, TypeInv
<1>2. enqueued' = enqueued + 1 /\ enqueued' \in 1..MaxSnapshots /\ buffer' = Append(buffer, enqueued')
  BY <1>1, GrpcAssumption DEF Enqueue, StreamTypeOK
<1>3. Elements(buffer') = Elements(buffer) \union {enqueued'}
  <2> DEFINE S == 1..MaxSnapshots
  <2>1. buffer \in Seq(S) BY <1>1 DEF StreamTypeOK
  <2>2. PICK e \in S : e = enqueued' BY <1>2
  <2> HIDE DEF S
  <2>3. Elements(Append(buffer, e)) = Elements(buffer) \union {e}
      BY <2>1, AppendElements
  <2> QED BY <1>2, <2>2, <2>3
<1>4. UNCHANGED <<held, inFlight, stored, lost, faults, cut>>
  BY DEF Enqueue, loopVars, streamCallVars
<1>5. Held' = Held /\ Under' = Under BY <1>4 DEF Held, Under, Elements
<1>6. Pending' = Pending \union {enqueued + 1}
  <2>1. Pending' = Elements(buffer)' \union Held' \union Under'
      BY DEF Pending, Held, Under
  <2>2. Elements(buffer)' = Elements(buffer') BY DEF Elements
  <2> QED BY <1>2, <1>3, <1>5, <2>1, <2>2, PendingIs
<1> QED BY <1>2, <1>4, <1>6 DEF Contract!Post

\* What changes neither a place nor the calls, for the contract, is no step.
LEMMA QuietPromise ==
    ASSUME Pending' = Pending, UNCHANGED <<enqueued, stored, lost, faults, cut>>
    PROVE  Promised
BY DEF Promised, Contract!contractVars

\* What is pending depends on the queue, the loops and the calls.
LEMMA PlacesSame ==
    ASSUME UNCHANGED <<buffer, held, inFlight>>
    PROVE  Pending' = Pending
BY DEF Pending, Elements

\* Initially nothing is promised.
LEMMA ContractStart == StreamInit => Contract!ContractInit
<1> SUFFICES ASSUME StreamInit PROVE Contract!ContractInit OBVIOUS
<1>1. Len(<< >>) = 0 /\ 1..0 = {} OBVIOUS
<1>2. Elements(buffer) = {} /\ \A c \in Runs : Elements(inFlight[c]) = {}
  BY <1>1 DEF StreamInit, Elements
<1>3. Held = {} BY DEF StreamInit, Held
<1>4. Pending = {} BY <1>2, <1>3, PendingIs DEF Under
<1>5. (faults > 0 \/ cut) = FALSE BY DEF StreamInit
<1> QED BY <1>4, <1>5 DEF StreamInit, Contract!ContractInit

\* Receiving leaves a snapshot pending.
LEMMA ReceivePlaces ==
    ASSUME StreamInv, NEW r \in Runs, Receive(r)
    PROVE  Pending' = Pending
<1>1. StreamTypeOK /\ HeldInv BY DEF StreamInv, LossesInv, FlowInv, TypeInv
<1>2. buffer # << >> /\ buffer' = Tail(buffer) /\ UNCHANGED inFlight
  BY DEF Receive, streamCallVars
<1>3. buffer \in Seq(1..MaxSnapshots) /\ held \in [Runs -> 0..MaxSnapshots]
    BY <1>1 DEF StreamTypeOK
<1>4. Elements(buffer) = {Head(buffer)} \union Elements(buffer')
  BY <1>2, <1>3, HeadTailElements
<1>5. Head(buffer) # 0
  <2>1. Head(buffer) \in 1..MaxSnapshots BY <1>2, <1>3, PartsIn
  <2> QED BY <2>1
<1>6. held[r] = 0 BY <1>1 DEF HeldInv, Holding, Receive
<1>7. Held' = Held \union {Head(buffer)}
  <2>1. held'[r] = Head(buffer) /\ \A s \in Runs : s # r => held'[s] = held[s]
    BY <1>3 DEF Receive
  <2> QED BY <1>5, <1>6, <2>1 DEF Held
<1>8. Under' = Under BY <1>2 DEF Under, Elements
<1>9. Pending' = Elements(buffer') \union Held' \union Under'
  BY DEF Pending, Held, Under, Elements
<1> QED BY <1>4, <1>7, <1>8, <1>9, PendingIs

\* A loop that holds a snapshot gives it up.
LEMMA GiveUp ==
    ASSUME StreamTypeOK, NEW r \in Runs, held[r] # 0, held' = [held EXCEPT ![r] = 0]
    PROVE  /\ Held' \union {held[r]} = Held
           /\ (\A s \in Runs : held[s] # 0 => s = r) => Held' = {}
<1>1. held'[r] = 0 /\ \A s \in Runs : s # r => held'[s] = held[s] BY DEF StreamTypeOK
<1>2. Held' \union {held[r]} = Held BY <1>1 DEF Held
<1>3. ASSUME \A s \in Runs : held[s] # 0 => s = r PROVE Held' = {}
  <2>1. \A s \in Runs : held'[s] = 0 BY <1>1, <1>3
  <2> QED BY <2>1 DEF Held
<1> QED BY <1>2, <1>3

\* So does writing it: it is under way then.
LEMMA WrittenPlaces ==
    ASSUME StreamInv, NEW r \in Runs, Written(r)
    PROVE  Pending' = Pending
<1>1. TypeInv /\ StreamTypeOK /\ WritesToStarted BY DEF StreamInv, LossesInv, TypeInv
<1>2. held[r] \in 1..MaxSnapshots BY <1>1 DEF TypeInv, Written
<1>3. PICK c \in Runs : c = target[r]
  BY <1>1, GrpcAssumption DEF WritesToStarted, Written, Runs, StreamTypeOK
<1>4. inFlight'[c] = Append(inFlight[c], held[r]) /\ \A d \in Runs : d # c => inFlight'[d] = inFlight[d]
  BY <1>1, <1>3 DEF Written, StreamTypeOK
<1>5. Elements(inFlight'[c]) = Elements(inFlight[c]) \union {held[r]}
  <2> DEFINE S == 1..MaxSnapshots
  <2>1. inFlight[c] \in Seq(S) /\ held[r] \in S BY <1>1, <1>2 DEF StreamTypeOK
  <2> HIDE DEF S
  <2>2. Elements(Append(inFlight[c], held[r])) = Elements(inFlight[c]) \union {held[r]}
    BY <2>1, AppendElements
  <2> QED BY <1>4, <2>2
<1>6. Under' = UNION {Elements(inFlight'[d]) : d \in Runs} BY DEF Under, Elements
<1>7. Under' = Under \union {held[r]} BY <1>4, <1>5, <1>6 DEF Under
<1>8. Held' \union {held[r]} = Held
  <2>1. held[r] # 0 BY <1>2
  <2> QED BY <1>1, <2>1, GiveUp DEF Written
<1>9. Pending' = Elements(buffer') \union Held' \union Under'
  BY DEF Pending, Held, Under, Elements
<1>10. buffer' = buffer BY DEF Written, queueVars
<1> QED BY <1>7, <1>8, <1>9, <1>10, PendingIs

\* A write that throws loses one snapshot, after a call failed or was cut.
LEMMA ThrowStep ==
    ASSUME StreamInv, StreamInv', NEW r \in Runs, WriteThrows(r)
    PROVE  \E i \in Pending : Contract!Drop(i)
<1>1. TypeInv /\ StreamTypeOK BY DEF StreamInv, LossesInv, TypeInv
<1>2. held[r] \in 1..MaxSnapshots BY <1>1 DEF TypeInv, WriteThrows
<1>3. /\ held' = [held EXCEPT ![r] = 0] /\ lost' = lost \union {held[r]}
      /\ UNCHANGED <<enqueued, buffer, inFlight, stored, faults, cut>>
  BY DEF WriteThrows, queueVars, streamCallVars
<1>4. held[r] # 0 BY <1>2
<1>5. /\ held[r] = Taken /\ Taken \in Int
      /\ \A s \in Runs : held[s] # 0 => s = r
      /\ \A c \in Runs : \A x \in Marks(c) : x < Taken
      /\ \A c \in Runs : Elements(inFlight[c]) \subseteq Marks(c)
      /\ \A c \in Runs : \A x \in Marks(c) : x \in Int
      /\ \A x \in Elements(buffer) : x \in Int /\ x > Taken
  BY <1>4, PendingApart
<1>6. Held' \union {held[r]} = Held /\ Held' = {} BY <1>1, <1>3, <1>4, <1>5, GiveUp
<1>7. held[r] \notin Elements(buffer) BY <1>5
<1>8. held[r] \notin Under BY <1>5 DEF Under
<1>9. Pending' = Elements(buffer) \union Held' \union Under
  BY <1>3 DEF Pending, Held, Under, Elements
<1>10. held[r] \in Pending /\ Pending' = Pending \ {held[r]}
  BY <1>6, <1>7, <1>8, <1>9, PendingIs
<1>11. faults > 0 \/ cut
  <2>1. LossExplained' BY DEF StreamInv, LossesInv, LossInv
  <2>2. lost' # {} BY <1>3
  <2> QED BY <1>3, <2>1, <2>2 DEF LossExplained
<1>12. (faults > 0 \/ cut)' = (faults > 0 \/ cut) BY <1>3
<1>13. Contract!Drop(held[r])
  BY <1>3, <1>10, <1>11, <1>12 DEF Contract!Drop, Contract!Lose
<1> QED BY <1>10, <1>13

\* The server stores the snapshot that was written to the call first.
LEMMA StoreStep ==
    ASSUME StreamInv, NEW c \in Runs, Store(c)
    PROVE  \E i \in Pending : Contract!StoreOf(c, i)
<1> DEFINE i == Head(inFlight[c])
           S == 1..MaxSnapshots
<1>1. StreamTypeOK /\ OrderInv BY DEF StreamInv, LossesInv, FlowInv, TypeInv
<1>2. /\ inFlight \in [Runs -> Seq(S)] /\ stored \in [Runs -> Seq(S)]
      /\ inFlight[c] \in Seq(S) /\ stored[c] \in Seq(S)
  BY <1>1 DEF StreamTypeOK
<1>3. /\ inFlight[c] # << >>
      /\ stored' = [stored EXCEPT ![c] = Append(@, i)]
      /\ inFlight' = [inFlight EXCEPT ![c] = Tail(@)]
      /\ UNCHANGED <<enqueued, buffer, held, lost, faults, cut>>
  BY DEF Store, queueVars, loopVars
<1>4. S \subseteq Int OBVIOUS
<1> HIDE DEF S
<1>5. Elements(inFlight[c]) = {i} \union Elements(Tail(inFlight[c]))
  BY <1>2, <1>3, HeadTailElements
<1>6. inFlight[c] \in Seq(Int) /\ stored[c] \in Seq(Int) BY <1>2, <1>4, WiderSeq
<1>7. Increasing(stored[c] \o inFlight[c]) BY <1>1 DEF OrderInv, Carried
<1>8. /\ \A k \in 1..Len(stored[c]) : stored[c][k] < i
      /\ i \notin Elements(Tail(inFlight[c]))
  BY <1>3, <1>6, <1>7, HeadIncreasing
<1> HIDE DEF i
<1>9. /\ \A d \in Runs : Elements(inFlight[d]) \subseteq Marks(d)
      /\ \A d \in Runs : Elements(stored[d]) \subseteq Marks(d)
      /\ \A d \in Runs : \A x \in Marks(d) : x \in Int /\ x <= Taken
      /\ \A x \in Elements(buffer) : x \in Int /\ x > Taken
      /\ \A r \in Runs : held[r] # 0 => \A d \in Runs : \A x \in Marks(d) : x < held[r]
      /\ Taken \in Int
  BY PendingApart
<1>10. i \in Marks(c) /\ i \in Int BY <1>5, <1>9
<1>11. ASSUME NEW d \in Runs, d # c
       PROVE  \A x \in Marks(d) : (d < c => x < i) /\ (d > c => x > i) /\ x # i
  <2>1. d < c \/ d > c BY <1>11 DEF Runs
  <2>2. ASSUME NEW x \in Marks(d) PROVE (d < c => x < i) /\ (d > c => i < x)
    BY <1>1, <1>10 DEF OrderInv, Runs
  <2> QED BY <1>9, <1>10, <2>1, <2>2
<1>12. ASSUME NEW d \in Runs, NEW k \in 1..Len(stored[d])
       PROVE  (d <= c => stored[d][k] < i) /\ (d > c => stored[d][k] > i)
  <2>1. CASE d = c
    BY <1>8, <2>1 DEF Runs
  <2>2. CASE d # c
    <3>1. stored[d][k] \in Marks(d) BY <1>9 DEF Elements
    <3>2. d <= c => d < c BY <2>2 DEF Runs
    <3> QED BY <1>11, <2>2, <3>1, <3>2
  <2> QED BY <2>1, <2>2
<1>13. i \notin Elements(buffer) BY <1>9, <1>10
<1>14. i \notin Held
  <2>1. \A r \in Runs : held[r] # 0 => held[r] # i BY <1>9, <1>10
  <2> QED BY <2>1 DEF Held
<1>15. /\ \A d \in Runs : d # c => inFlight'[d] = inFlight[d] /\ i \notin Elements(inFlight[d])
       /\ inFlight'[c] = Tail(inFlight[c])
  BY <1>2, <1>3, <1>9, <1>11
<1>16. Under' = Under \ {i} /\ i \in Under
  <2>1. Under' = UNION {Elements(inFlight'[d]) : d \in Runs} BY DEF Under, Elements
  <2>2. \A d \in Runs : Elements(inFlight'[d]) = Elements(inFlight[d]) \ {i}
    BY <1>5, <1>8, <1>15
  <2> QED BY <1>5, <2>1, <2>2 DEF Under
<1>17. Pending' = Elements(buffer) \union Held \union Under'
  BY <1>3 DEF Pending, Held, Under, Elements
<1>18. i \in Pending /\ Pending' = Pending \ {i}
  BY <1>13, <1>14, <1>16, <1>17, PendingIs
<1>19. (faults > 0 \/ cut)' = (faults > 0 \/ cut) BY <1>3
<1>20. Contract!StoreOf(c, i)
  BY <1>3, <1>12, <1>18, <1>19 DEF Contract!StoreOf
<1> QED BY <1>18, <1>20

\* A failing call loses what was under way in it, and no more.
LEMMA FailStep ==
    ASSUME StreamInv, NEW c \in Runs, CallFails(c)
    PROVE  \E dropped \in SUBSET Pending : Contract!Disturb(dropped)
<1> DEFINE dropped == Elements(inFlight[c])
<1>1. StreamTypeOK /\ OrderInv BY DEF StreamInv, LossesInv, FlowInv, TypeInv
<1>2. /\ inFlight' = [inFlight EXCEPT ![c] = << >>] /\ lost' = lost \union dropped
      /\ faults' = faults + 1
      /\ UNCHANGED <<enqueued, buffer, held, stored, cut>>
  BY DEF CallFails, queueVars, loopVars, Elements
<1>3. /\ \A d \in Runs : Elements(inFlight[d]) \subseteq Marks(d)
      /\ \A d \in Runs : \A x \in Marks(d) : x \in Int /\ x <= Taken
      /\ \A x \in Elements(buffer) : x \in Int /\ x > Taken
      /\ \A r \in Runs : held[r] # 0 => \A d \in Runs : \A x \in Marks(d) : x < held[r]
      /\ Taken \in Int
  BY PendingApart
<1>4. ASSUME NEW i \in dropped, NEW d \in Runs, d # c PROVE i \notin Marks(d)
  <2>1. d < c \/ c < d BY <1>4 DEF Runs
  <2>2. i \in Marks(c) /\ i \in Int BY <1>3
  <2> QED BY <1>1, <2>1, <2>2 DEF OrderInv
<1>5. ASSUME NEW i \in dropped PROVE i \notin Elements(buffer) /\ i \notin Held
  <2>1. i \in Marks(c) /\ i \in Int BY <1>3
  <2>2. \A r \in Runs : held[r] # 0 => held[r] # i BY <1>3, <2>1
  <2>3. i \notin Held BY <2>2 DEF Held
  <2> QED BY <1>3, <2>1, <2>3
<1>6. dropped \subseteq Under BY DEF Under
<1>7. Under' = Under \ dropped
  <2>1. Under' = UNION {Elements(inFlight'[d]) : d \in Runs} BY DEF Under, Elements
  <2>2. inFlight'[c] = << >> /\ \A d \in Runs : d # c => inFlight'[d] = inFlight[d]
    BY <1>1, <1>2 DEF StreamTypeOK
  <2>3. Elements(<< >>) = {}
    <3>1. Len(<< >>) = 0 /\ 1..0 = {} OBVIOUS
    <3> QED BY <3>1 DEF Elements
  <2>4. \A d \in Runs : Elements(inFlight'[d]) = Elements(inFlight[d]) \ dropped
    BY <1>3, <1>4, <2>2, <2>3
  <2> QED BY <2>1, <2>4 DEF Under
<1>8. Pending' = Elements(buffer) \union Held \union Under'
  BY <1>2 DEF Pending, Held, Under, Elements
<1>9. dropped \subseteq Pending /\ Pending' = Pending \ dropped
  BY <1>5, <1>6, <1>7, <1>8, PendingIs
<1>10. (faults > 0 \/ cut)' = TRUE BY <1>1, <1>2 DEF StreamTypeOK
<1>11. Contract!Disturb(dropped)
  BY <1>2, <1>9, <1>10 DEF Contract!Disturb, Contract!Lose
<1> QED BY <1>9, <1>11

\* Completing a call loses nothing, but may disturb a sender.
LEMMA CompleteStep ==
    ASSUME StreamInv, NEW r \in Runs, CompleteAsync(r)
    PROVE  Promised
<1>1. UNCHANGED <<enqueued, buffer, held, inFlight, stored, lost, faults>>
  BY DEF CompleteAsync, queueVars, loopVars
<1>2. Pending' = Pending BY <1>1, PlacesSame
<1>3. cut \in BOOLEAN /\ cut' \in BOOLEAN
  BY DEF StreamInv, LossesInv, TypeInv, StreamTypeOK, CompleteAsync
<1>4. CASE cut' = cut BY <1>1, <1>2, <1>4, QuietPromise
<1>5. CASE cut'
  <2>1. (faults > 0 \/ cut)' = TRUE BY <1>5
  <2>2. Contract!Disturb({})
    BY <1>1, <1>2, <2>1 DEF Contract!Disturb, Contract!Lose
  <2>3. {} \in SUBSET Pending OBVIOUS
  <2> QED BY <2>2, <2>3 DEF Promised, Contract!ContractNext
<1>6. cut => cut' BY DEF CompleteAsync
<1> QED BY <1>3, <1>4, <1>5, <1>6

\* Every step of the leg is one its contract allows, or none for it.
LEMMA PromisedStep == StreamInv /\ StreamInv' /\ [StreamNext]_streamVars => Promised
<1> SUFFICES ASSUME StreamInv, StreamInv', [StreamNext]_streamVars PROVE Promised OBVIOUS
<1>1. CASE Enqueue BY <1>1, PostStep DEF Promised, Contract!ContractNext
<1>2. CASE Start \/ Stop \/ UNCHANGED streamVars
  <2>1. UNCHANGED <<enqueued, buffer, held, inFlight, stored, lost, faults, cut>>
    BY <1>2 DEF Start, Stop, streamVars, queueVars, loopVars, streamCallVars
  <2> QED BY <2>1, PlacesSame, QuietPromise
<1>3. ASSUME NEW r \in Runs, CompleteAsync(r) PROVE Promised BY <1>3, CompleteStep
<1>4. ASSUME NEW r \in Runs, Write(r) \/ Delayed(r) \/ DelayCancelled(r) PROVE Promised
  <2>1. UNCHANGED <<enqueued, buffer, held, inFlight, stored, lost, faults, cut>>
    BY <1>4 DEF Write, Delayed, DelayCancelled, queueVars, streamCallVars
  <2> QED BY <2>1, PlacesSame, QuietPromise
<1>5. ASSUME NEW r \in Runs, Receive(r) PROVE Promised
  <2>1. UNCHANGED <<enqueued, stored, lost, faults, cut>>
      BY <1>5 DEF Receive, streamCallVars
  <2> QED BY <1>5, <2>1, ReceivePlaces, QuietPromise
<1>6. ASSUME NEW r \in Runs, Written(r) PROVE Promised
  <2>1. UNCHANGED <<enqueued, stored, lost, faults, cut>> BY <1>6 DEF Written, queueVars
  <2> QED BY <1>6, <2>1, WrittenPlaces, QuietPromise
<1>7. ASSUME NEW r \in Runs, WriteThrows(r) PROVE Promised
  BY <1>7, ThrowStep DEF Promised, Contract!ContractNext
<1>8. ASSUME NEW c \in Runs, Store(c) PROVE Promised
  BY <1>8, StoreStep DEF Promised, Contract!ContractNext
<1>9. ASSUME NEW c \in Runs, CallFails(c) PROVE Promised
  BY <1>9, FailStep DEF Promised, Contract!ContractNext
<1> QED BY <1>1, <1>2, <1>3, <1>4, <1>5, <1>6, <1>7, <1>8, <1>9 DEF StreamNext, LoopNext

\* The gRPC leg implements StreamingContract: whatever the user clicks and
\* whichever calls fail, a snapshot is stored once, for one call and in the order
\* of capture, or lost after a failure or a stop of the wrong call, never both.
THEOREM StreamRefinement == StreamSafetySpec => ImplementsContract
<1>1. StreamInv /\ StreamInv' /\ [StreamNext]_streamVars
        => [Contract!ContractNext]_(Contract!contractVars)
  BY PromisedStep DEF Promised
<1> QED BY ContractStart, StreamInvariant, <1>1, PTL
       DEF StreamSafetySpec, ImplementsContract, Contract!ContractSpec
==============================================================================
