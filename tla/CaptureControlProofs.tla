------------------------- MODULE CaptureControlProofs -------------------------
(***************************************************************************)
(* Theorems about CaptureControl, for any set of client threads, any       *)
(* number of devices and of calls: type correctness, and that no signal    *)
(* between the exported functions and the capture thread is lost.  And     *)
(* about DeviceListing, for any machine and any base of the numbers: that  *)
(* an entry of the list leads back to the interface it was made of.        *)
(***************************************************************************)
EXTENDS CaptureControl, DeviceListing, FoldLemmas, SequenceTheorems,
        FiniteSetTheorems, TLAPS

USE ControlAssumption

\* A handle is opened under a name in use by nobody, or not at all.
LEMMA OpenResultsType ==
    ASSUME DllTypeOK, NEW d \in Devices
    PROVE  OpenResults(d) \subseteq Handles \union {Null}
<1>1. \E h \in Handles : h \notin {adhandle1, sessionHandle}
  BY DEF DllTypeOK, Handles, Null
<1>2. FreshHandle \in Handles
  BY <1>1 DEF FreshHandle
<1> QED BY <1>2 DEF OpenResults

\* The initial state has the right types.
LEMMA InitType == DllInit => DllTypeOK
<1> SUFFICES ASSUME DllInit PROVE DllTypeOK OBVIOUS
<1>1. 0 \in Devices BY ControlAssumption DEF Devices
<1>2. calls \in 0..MaxCalls BY ControlAssumption DEF DllInit
<1>3. caller \in [Callers -> CallStates] BY DEF DllInit, CallStates
<1>4. dev \in [Callers -> Devices] BY <1>1 DEF DllInit
<1> QED
  BY <1>1, <1>2, <1>3, <1>4 DEF DllInit, DllTypeOK, Null, ConnectStates, MainStates

\* fnCPPDLL and mainFunc keep the types.
LEMMA MainType ==
    ASSUME DllTypeOK, ConnectCall \/ ConnectNext \/ MainNext \/ SpuriousWakeup
    PROVE  DllTypeOK'
<1> USE DEF DllTypeOK, sharedVars, startVars, mainVars, callVars, ConnectStates, MainStates
<1>1. CASE ConnectCall BY <1>1 DEF ConnectCall
<1>2. CASE OpenEvent BY ZenonT(60), <1>2 DEF OpenEvent
<1>3. CASE ConnectPipe BY <1>3 DEF ConnectPipe
<1>4. CASE StartThread BY <1>4 DEF StartThread
<1>5. CASE LoopTest BY <1>5 DEF LoopTest
<1>6. CASE CheckStart BY <1>6 DEF CheckStart, Check
<1>7. CASE CheckStop BY <1>7 DEF CheckStop, Check
<1>8. CASE Block BY <1>8 DEF Block
<1>9. CASE BuildSession
  <2>1. sessionHandle' \in Handles \union {Null}
    BY <1>9, OpenResultsType DEF BuildSession
  <2> QED BY <1>9, <2>1 DEF BuildSession
<1>10. CASE StartSession BY <1>10 DEF StartSession
<1>11. CASE StopSession BY <1>11 DEF StopSession
<1>12. CASE SpuriousWakeup BY <1>12 DEF SpuriousWakeup, Woken
<1> QED BY <1>1, <1>2, <1>3, <1>4, <1>5, <1>6, <1>7, <1>8, <1>9, <1>10, <1>11, <1>12
       DEF ConnectNext, MainNext

\* The exported functions keep the types.
LEMMA CallType ==
    ASSUME DllTypeOK, NEW c \in Callers, NewCall(c) \/ CallNext(c)
    PROVE  DllTypeOK'
<1> USE DEF DllTypeOK, sharedVars, startVars, mainVars, callVars, CallStates, Call, Step
<1>1. CASE \E d \in Devices : Putdev(c, d) BY <1>1 DEF Putdev
<1>2. CASE StopCapture(c)
  <2>1. quit_flag' \in BOOLEAN BY <1>2 DEF StopCapture
  <2>2. caller' \in [Callers -> CallStates] BY <1>2 DEF StopCapture
  <2>3. calls' \in 0..MaxCalls BY <1>2 DEF StopCapture
  <2> QED BY <1>2, <2>1, <2>2, <2>3 DEF StopCapture
<1>3. CASE StartCapture(c) BY <1>3 DEF StartCapture
<1>4. CASE CloseApp(c)
  <2>1. stopRequested' \in BOOLEAN BY <1>4 DEF CloseApp
  <2>2. caller' \in [Callers -> CallStates] BY <1>4 DEF CloseApp
  <2>3. calls' \in 0..MaxCalls BY <1>4 DEF CloseApp
  <2> QED BY <1>4, <2>1, <2>2, <2>3 DEF CloseApp
<1>5. CASE PutClear(c) BY <1>5 DEF PutClear
<1>6. CASE PutPause(c) BY <1>6 DEF PutPause
<1>7. CASE PutOpen(c)
  <2>1. adhandle1' \in Handles \union {Null}
    BY <1>7, OpenResultsType DEF PutOpen
  <2> QED BY <1>7, <2>1 DEF PutOpen
<1>8. CASE PutFlag(c) BY <1>8 DEF PutFlag
<1>9. CASE CloseFlag(c) BY <1>9 DEF CloseFlag
<1>10. CASE CloseNotify(c) BY <1>10 DEF CloseNotify, Woken, MainStates
<1>11. CASE CloseHandles(c) BY <1>11 DEF CloseHandles
<1>12. CASE Notify(c) BY <1>12 DEF Notify, Woken, MainStates
<1> QED BY <1>1, <1>2, <1>3, <1>4, <1>5, <1>6, <1>7, <1>8, <1>9, <1>10, <1>11, <1>12
       DEF NewCall, CallNext

\* Type correctness of the control interface (ipc.cpp, mainFunc.cpp).
THEOREM TypeCorrect == DllSafetySpec => []DllTypeOK
<1>1. DllInit => DllTypeOK BY InitType
<1>2. DllTypeOK /\ [DllNext]_dllVars => DllTypeOK'
  <2> SUFFICES ASSUME DllTypeOK, [DllNext]_dllVars PROVE DllTypeOK' OBVIOUS
  <2>1. CASE DllNext BY <2>1, MainType, CallType DEF DllNext
  <2>2. CASE UNCHANGED dllVars
    BY <2>2 DEF DllTypeOK, dllVars, sharedVars, startVars, mainVars, callVars
  <2> QED BY <2>1, <2>2
<1> QED BY <1>1, <1>2, PTL DEF DllSafetySpec

------------------------------------------------------------------------------
(* Signals.  NoLostSignal is not inductive: the step to sleep needs what    *)
(* holds while the capture thread still has the mutex.  Before it sleeps on *)
(* the start signal no one can set the flag; before it sleeps on the stop   *)
(* signal only the unlocked write of fnPutdevCPPDLL can clear it.           *)

\* A fnPutdevCPPDLL between its two writes of quit_flag.
Pausing == \E c \in Callers : caller[c] \in {"putOpen", "putFlag"}


BeforeSleep ==
    /\ main = "startBlock" => ~quit_flag
    /\ main = "stopBlock" /\ ~quit_flag => Pausing

SignalInv == DllTypeOK /\ BeforeSleep /\ NoLostSignal

\* No state is skipped: the initial state has no capture thread.
LEMMA SignalInit == DllInit => SignalInv
BY InitType DEF DllInit, SignalInv, BeforeSleep, NoLostSignal

\* Steps that leave the flag and the callers alone and do not go to sleep.
LEMMA SignalQuiet ==
    ASSUME SignalInv, DllTypeOK', UNCHANGED <<quit_flag, caller>>,
           main' = main \/ main' \notin {"startBlock", "startWait", "stopBlock", "stopWait"}
    PROVE  SignalInv'
BY DEF SignalInv, BeforeSleep, NoLostSignal, Pausing

\* fnCPPDLL and mainFunc keep the invariant.
LEMMA SignalMain ==
    ASSUME SignalInv, ConnectCall \/ ConnectNext \/ MainNext \/ SpuriousWakeup
    PROVE  SignalInv'
<1>1. DllTypeOK' BY MainType DEF SignalInv
<1>2. CASE ConnectCall \/ ConnectNext
  <2>1. UNCHANGED <<quit_flag, caller>> /\ (main' = main \/ main' = "loop")
    BY <1>2 DEF ConnectCall, ConnectNext, OpenEvent, ConnectPipe, StartThread,
                sharedVars, mainVars, callVars
  <2> QED BY <1>1, <2>1, SignalQuiet
<1>3. CASE LoopTest \/ BuildSession \/ StartSession \/ StopSession \/ SpuriousWakeup
  <2>1. UNCHANGED <<quit_flag, caller>>
    BY <1>3 DEF LoopTest, BuildSession, StartSession, StopSession, SpuriousWakeup,
                sharedVars, callVars
  <2>2. main' \notin {"startBlock", "startWait", "stopBlock", "stopWait"}
    BY <1>3 DEF LoopTest, BuildSession, StartSession, StopSession, SpuriousWakeup, Woken
  <2> QED BY <1>1, <2>1, <2>2, SignalQuiet
<1>4. CASE CheckStart
  BY <1>1, <1>4 DEF CheckStart, Check, SignalInv, BeforeSleep, NoLostSignal,
                    sharedVars, callVars, DllTypeOK
<1>5. CASE CheckStop
  BY <1>1, <1>5 DEF CheckStop, Check, SignalInv, BeforeSleep, NoLostSignal,
                    sharedVars, callVars, DllTypeOK
<1>6. CASE Block
  BY <1>1, <1>6 DEF Block, SignalInv, BeforeSleep, NoLostSignal, Pausing,
                    sharedVars, callVars
<1> QED BY <1>2, <1>3, <1>4, <1>5, <1>6 DEF MainNext

\* A caller other than c is where it was, and c is at state s.
LEMMA Moved ==
    ASSUME DllTypeOK, NEW c \in Callers, NEW s, caller' = [caller EXCEPT ![c] = s]
    PROVE  caller'[c] = s /\ \A b \in Callers : b # c => caller'[b] = caller[b]
BY DEF DllTypeOK

\* The exported functions keep the invariant.
LEMMA SignalCalls ==
    ASSUME SignalInv, NEW c \in Callers, NewCall(c) \/ CallNext(c)
    PROVE  SignalInv'
<1>1. DllTypeOK' BY CallType DEF SignalInv
<1>2. DllTypeOK BY DEF SignalInv
<1> USE DEF SignalInv, BeforeSleep, NoLostSignal, Pausing, Call, Step
<1>3. CASE \E d \in Devices : Putdev(c, d)
  BY <1>1, <1>2, <1>3, Moved DEF Putdev, mainVars
<1>4. CASE StopCapture(c) BY <1>1, <1>2, <1>4, Moved DEF StopCapture, CanLock, mainVars
<1>5. CASE StartCapture(c) BY <1>1, <1>2, <1>5, Moved DEF StartCapture, CanLock, mainVars
<1>6. CASE CloseApp(c) BY <1>1, <1>2, <1>6, Moved DEF CloseApp, sharedVars, mainVars
<1>7. CASE PutClear(c) BY <1>1, <1>2, <1>7, Moved DEF PutClear, mainVars
<1>8. CASE PutPause(c) BY <1>1, <1>2, <1>8, Moved DEF PutPause, mainVars
<1>9. CASE PutOpen(c) BY <1>1, <1>2, <1>9, Moved DEF PutOpen, mainVars
<1>10. CASE PutFlag(c) BY <1>1, <1>2, <1>10, Moved DEF PutFlag, CanLock, mainVars
<1>11. CASE CloseFlag(c) BY <1>1, <1>2, <1>11, Moved DEF CloseFlag, CanLock, mainVars
<1>12. CASE CloseNotify(c)
  BY <1>1, <1>2, <1>12, Moved DEF CloseNotify, Woken, sharedVars, MainStates, DllTypeOK
<1>13. CASE CloseHandles(c) BY <1>1, <1>2, <1>13, Moved DEF CloseHandles, sharedVars, mainVars
<1>14. CASE Notify(c)
  BY <1>1, <1>2, <1>14, Moved DEF Notify, Woken, sharedVars, MainStates, DllTypeOK
<1> QED BY <1>3, <1>4, <1>5, <1>6, <1>7, <1>8, <1>9, <1>10, <1>11, <1>12, <1>13, <1>14
       DEF NewCall, CallNext

\* No signal between the exported functions and mainFunc is lost, for any
\* number of client threads (ipc.cpp:166-170, 176-180, 192-196, 212-216).
THEOREM SignalsKept == DllSafetySpec => []NoLostSignal
<1>1. DllInit => SignalInv BY SignalInit
<1>2. SignalInv /\ [DllNext]_dllVars => SignalInv'
  <2> SUFFICES ASSUME SignalInv, [DllNext]_dllVars PROVE SignalInv' OBVIOUS
  <2>1. CASE DllNext BY <2>1, SignalMain, SignalCalls DEF DllNext
  <2>2. CASE UNCHANGED dllVars
    BY <2>2 DEF SignalInv, DllTypeOK, BeforeSleep, NoLostSignal, Pausing,
                dllVars, sharedVars, startVars, mainVars, callVars
  <2> QED BY <2>1, <2>2
<1>3. SignalInv => NoLostSignal BY DEF SignalInv
<1> QED BY <1>1, <1>2, <1>3, PTL DEF DllSafetySpec

------------------------------------------------------------------------------
(***************************************************************************)
(* DeviceListing: what fnDevCPPDLL returns of any list of interfaces, and  *)
(* the number that is read back from an entry, by induction over the       *)
(* interfaces and over the numbers.                                        *)
(***************************************************************************)

Machine == Seq(Interfaces)

\* The first n interfaces, and those of them that have a description.
DescribedUpTo(m, n) == {k \in 1..n : m[k].description # << >>}

\* An entry shows the beginning of its interface's description, and it ends
\* before Width unless it is one word.
Shows(e, m) ==
    LET d == m[e.number].description IN
    /\ IsPrefix(e.words, d) /\ e.words # << >>
    /\ Len(e.words) > 1 => UpTo(e.number, d, Len(e.words)) <= Width

\* A list of the described interfaces among the first n.
ListsUpTo(l, m, n) ==
    /\ l \in Seq(Entries)
    /\ {l[i].number : i \in 1..Len(l)} = DescribedUpTo(m, n)
    /\ \A i, j \in 1..Len(l) : i < j => l[i].number < l[j].number
    /\ \A i \in 1..Len(l) : Shows(l[i], m)
    /\ IsFiniteSet(DescribedUpTo(m, n))
    /\ Len(l) = Cardinality(DescribedUpTo(m, n))

\* The entry of an interface with a description.
LEMMA EntryShows ==
    ASSUME NEW m \in Machine, NEW idx \in 1..Len(m), m[idx].description # << >>
    PROVE  /\ Entry(idx, m[idx]) \in Entries
           /\ Entry(idx, m[idx]).number = idx
           /\ Shows(Entry(idx, m[idx]), m)
<1> DEFINE d == m[idx].description
           w == Words(idx, d)
           blanks == {k \in 1..Len(d) - 1 : UpTo(idx, d, k) <= Width}
<1>1. m[idx] \in Interfaces /\ idx \in Nat
    BY DEF Machine
<1>2. d \in Seq(Nat) /\ d # << >>
    BY <1>1, ListingAssumption
<1>3. Len(d) \in Nat /\ Len(d) >= 1
    BY <1>2
<1>4. w \in 1..Len(d) /\ (w > 1 => UpTo(idx, d, w) <= Width)
    <2>1. CASE blanks = {}
        <3>1. w = 1
            BY <2>1 DEF Words
        <3> HIDE DEF w, d
        <3> QED BY <1>3, <3>1
    <2>2. CASE blanks # {}
        <3>1. w = Max(blanks)
            BY <2>2 DEF Words
        <3>2. blanks \in SUBSET (1..Len(d))
            <4> HIDE DEF d
            <4> QED BY <1>3
        <3>3. Max(blanks) \in blanks
            <4> HIDE DEF d, blanks
            <4> QED BY <1>3, <2>2, <3>2, GreatestPosition
        <3>4. \A k \in blanks : k \in 1..Len(d) /\ UpTo(idx, d, k) <= Width
            <4> HIDE DEF d
            <4> QED BY <1>3
        <3> HIDE DEF w, d, blanks
        <3> QED BY <3>1, <3>3, <3>4
    <2> QED BY <2>1, <2>2
<1> DEFINE s == SubSeq(d, 1, w)
<1>5. s \in Seq(Nat) /\ Len(s) = w /\ \A i \in 1..w : s[i] = d[i]
    <2> HIDE DEF w, d
    <2> QED BY <1>2, <1>3, <1>4, SubSeqProperties
<1>6. Entry(idx, m[idx]) = [number |-> idx, words |-> s]
    BY DEF Entry
<1>7. SubSeq(s, 1, Len(s)) = s
    <2> HIDE DEF s, w, d
    <2> QED BY <1>4, <1>5, SubSeqFull
<1>8. IsPrefix(s, d) /\ s # << >>
    <2>1. Len(s) <= Len(d) /\ SubSeq(d, 1, Len(s)) = s
        <3>1. SubSeq(d, 1, w) = s
            OBVIOUS
        <3> HIDE DEF s, w, d
        <3> QED BY <1>3, <1>4, <1>5, <3>1
    <2>2. Len(s) >= 1
        <3> HIDE DEF s, w, d
        <3> QED BY <1>3, <1>4, <1>5
    <2> HIDE DEF s, w, d
    <2> QED BY <1>5, <1>7, <2>1, <2>2 DEF IsPrefix
<1> DEFINE e == Entry(idx, m[idx])
<1>9. e.number = idx /\ e.words = s
    <2> HIDE DEF s
    <2> QED BY <1>6
<1>10. m[e.number].description = d
    BY <1>9
<1>11. e \in Entries
    <2> HIDE DEF s
    <2> QED BY <1>1, <1>5, <1>6 DEF Entries
<1> HIDE DEF s, w, d, e
<1> QED BY <1>4, <1>5, <1>8, <1>9, <1>10, <1>11 DEF Shows, e

\* One more interface.
LEMMA OneMoreListed ==
    ASSUME NEW m \in Machine, NEW n \in 1..Len(m), NEW l, ListsUpTo(l, m, n - 1)
    PROVE  ListsUpTo(ListDevice(m, l, n), m, n)
<1>1. /\ Len(m) \in Nat /\ n \in Nat /\ n >= 1
      /\ l \in Seq(Entries) /\ Len(l) \in Nat
    BY DEF ListsUpTo, Machine
<1>2. \A i \in 1..Len(l) : l[i] \in Entries /\ l[i].number \in 1..n - 1
    <2>1. ASSUME NEW i \in 1..Len(l) PROVE l[i] \in Entries /\ l[i].number \in 1..n - 1
        <3>1. l[i] \in Entries
            BY <1>1
        <3>2. l[i].number \in DescribedUpTo(m, n - 1)
            BY DEF ListsUpTo
        <3> QED BY <3>1, <3>2 DEF DescribedUpTo
    <2> QED BY <2>1
<1>3. CASE m[n].description = << >>
    <2>1. DescribedUpTo(m, n) = DescribedUpTo(m, n - 1)
        <3>1. ASSUME NEW k \in 1..n, m[k].description # << >> PROVE k \in 1..n - 1
            BY <1>1, <1>3, <3>1
        <3>2. 1..n - 1 \subseteq 1..n
            BY <1>1
        <3> QED BY <3>1, <3>2 DEF DescribedUpTo
    <2>2. ListDevice(m, l, n) = l
        BY <1>3 DEF ListDevice
    <2> QED BY <2>1, <2>2 DEF ListsUpTo
<1>4. CASE m[n].description # << >>
    <2> DEFINE e == Entry(n, m[n])
               q == Append(l, e)
    <2>1. e \in Entries /\ e.number = n /\ Shows(e, m)
        BY <1>4, EntryShows
    <2>2. /\ q \in Seq(Entries) /\ Len(q) = Len(l) + 1
          /\ \A i \in 1..Len(l) : q[i] = l[i]
          /\ q[Len(l) + 1] = e
        <3> HIDE DEF e
        <3> QED BY <1>1, <2>1, AppendProperties
    <2>3. DescribedUpTo(m, n) = DescribedUpTo(m, n - 1) \union {n}
        <3>1. 1..n = (1..n - 1) \union {n}
            BY <1>1
        <3> QED BY <1>4, <3>1 DEF DescribedUpTo
    <2>4. n \notin DescribedUpTo(m, n - 1)
        BY <1>1 DEF DescribedUpTo
    <2> HIDE DEF e, q
    <2>5. 1..Len(q) = (1..Len(l)) \union {Len(l) + 1}
        BY <1>1, <2>2
    <2>6. {q[i].number : i \in 1..Len(q)} = DescribedUpTo(m, n)
        <3>1. {q[i].number : i \in 1..Len(q)} = {l[i].number : i \in 1..Len(l)} \union {n}
            BY <2>1, <2>2, <2>5
        <3> QED BY <2>3, <3>1 DEF ListsUpTo
    <2>7. ASSUME NEW i \in 1..Len(q), NEW j \in 1..Len(q), i < j
          PROVE  q[i].number < q[j].number
        <3>1. i \in 1..Len(l)
            BY <1>1, <2>2, <2>7
        <3>2. CASE j \in 1..Len(l)
            BY <2>2, <2>7, <3>1, <3>2 DEF ListsUpTo
        <3>3. CASE j = Len(l) + 1
            <4>1. q[i] = l[i] /\ q[j] = e /\ l[i].number \in 1..n - 1
                BY <1>2, <2>2, <3>1, <3>3
            <4> QED BY <1>1, <2>1, <4>1
        <3> QED BY <2>5, <3>2, <3>3
    <2>8. \A i \in 1..Len(q) : Shows(q[i], m)
        BY <2>1, <2>2, <2>5 DEF ListsUpTo
    <2>9. /\ IsFiniteSet(DescribedUpTo(m, n))
          /\ Len(q) = Cardinality(DescribedUpTo(m, n))
        BY <2>2, <2>3, <2>4, FS_AddElement DEF ListsUpTo
    <2>10. ListDevice(m, l, n) = q
        BY <1>4 DEF ListDevice, q, e
    <2> QED BY <2>2, <2>6, <2>7, <2>8, <2>9, <2>10 DEF ListsUpTo
<1> QED BY <1>3, <1>4

\* The equation that defines the fold of ListDevices.
Positions(m) == [i \in DOMAIN m |-> i]
ListFold(iter, m) ==
    iter = [s \in SUBSET (DOMAIN Positions(m)) |->
               IF s = {} THEN << >>
               ELSE ListDevice(m, iter[s \ {Max(s)}], Positions(m)[Max(s)])]

LEMMA ListFoldExists ==
    ASSUME NEW m \in Machine
    PROVE  \E iter : ListFold(iter, m)
<1> DEFINE N == Len(m)
           E == {Entry(i, m[i]) : i \in 1..N}
           D == Seq(E)
           step == [n \in 1..N |-> [l \in D |-> ListDevice(m, l, n)]]
<1>1. /\ N \in Nat /\ DOMAIN m = 1..N /\ << >> \in D
      /\ DOMAIN Positions(m) = 1..N /\ \A i \in 1..N : Positions(m)[i] = i
    BY DEF Machine, Positions
<1>2. ASSUME NEW n \in 1..N, NEW l \in D PROVE ListDevice(m, l, n) \in D
    <2>1. Entry(n, m[n]) \in E
        OBVIOUS
    <2>2. Append(l, Entry(n, m[n])) \in Seq(E)
        <3> HIDE DEF E
        <3> QED BY <2>1, AppendProperties
    <2> QED BY <2>2 DEF ListDevice
<1>3. step \in [1..N -> [D -> D]]
    <2> HIDE DEF D, N
    <2> QED BY <1>2
<1>4. \A s \in SUBSET (1..N) : s # {} => Max(s) \in 1..N /\ s \ {Max(s)} \in SUBSET (1..N)
    BY <1>1, GreatestPosition
<1>5. PICK iter \in [SUBSET (1..N) -> D] : FoldsBy(iter, << >>, step, N)
    <2> HIDE DEF D, N, step
    <2> QED BY <1>1, <1>3, FoldExists
<1>6. ASSUME NEW s \in SUBSET (1..N)
      PROVE  iter[s] = IF s = {} THEN << >>
                       ELSE ListDevice(m, iter[s \ {Max(s)}], Positions(m)[Max(s)])
    <2>1. CASE s = {}
        BY <1>5, <2>1 DEF FoldsBy
    <2>2. CASE s # {}
        <3>1. iter[s] = step[Max(s)][iter[s \ {Max(s)}]]
            <4> HIDE DEF D, N, step
            <4> QED BY <1>5, <2>2 DEF FoldsBy
        <3>2. Max(s) \in 1..N /\ iter[s \ {Max(s)}] \in D
            <4> HIDE DEF D, N
            <4> QED BY <1>4, <1>5, <2>2
        <3>3. Positions(m)[Max(s)] = Max(s)
            <4> HIDE DEF D, N
            <4> QED BY <1>1, <3>2
        <3> HIDE DEF D, N
        <3> QED BY <2>2, <3>1, <3>2, <3>3
    <2> QED BY <2>1, <2>2
<1>7. iter = [s \in SUBSET (1..N) |->
                 IF s = {} THEN << >>
                 ELSE ListDevice(m, iter[s \ {Max(s)}], Positions(m)[Max(s)])]
    <2> HIDE DEF D, N
    <2> QED BY <1>5, <1>6
<1>8. ListFold(iter, m)
    <2> HIDE DEF N, D
    <2> QED BY <1>1, <1>7 DEF ListFold
<1> QED BY <1>8

\* fnDevCPPDLL lists the interfaces with a description.
LEMMA DevicesListed ==
    ASSUME NEW m \in Machine
    PROVE  ListsUpTo(fnDevCPPDLL(m), m, Len(m))
<1> DEFINE N == Len(m)
<1>1. /\ N \in Nat /\ DOMAIN m = 1..N /\ DOMAIN Positions(m) = 1..N
      /\ \A i \in 1..N : Positions(m)[i] = i
    BY DEF Machine, Positions
<1>2. fnDevCPPDLL(m) = FoldLeftDomain(LAMBDA l, idx : ListDevice(m, l, idx), << >>, m)
    BY DEF fnDevCPPDLL, GetDevices, ListDevices, FindDevices, Builder
<1>3. PICK iter : ListFold(iter, m) /\ fnDevCPPDLL(m) = iter[DOMAIN Positions(m)]
    BY <1>2, ListFoldExists DEF ListFold, Positions, FoldLeftDomain, FoldLeft, MapThenFoldSet
<1> DEFINE T == {n \in 0..N : ListsUpTo(iter[1..n], m, n)}
<1>4. 0 \in T
    <2>1. iter[{}] = << >> /\ 1..0 = {}
        BY <1>3 DEF ListFold
    <2>2. DescribedUpTo(m, 0) = {}
        BY DEF DescribedUpTo
    <2>3. ListsUpTo(<< >>, m, 0)
        BY <2>2, FS_EmptySet DEF ListsUpTo
    <2> QED BY <1>1, <2>1, <2>3
<1>5. ASSUME NEW n \in 1..N, n - 1 \in T PROVE n \in T
    <2>1. /\ 1..n \in SUBSET (1..N) /\ 1..n # {}
          /\ Max(1..n) = n /\ (1..n) \ {n} = 1..(n - 1)
        BY <1>1, FirstPositions
    <2>2. iter[1..n] = ListDevice(m, iter[1..n - 1], n)
        <3>1. iter[1..n] = ListDevice(m, iter[(1..n) \ {Max(1..n)}], Positions(m)[Max(1..n)])
            <4> HIDE DEF N
            <4> QED BY <1>1, <1>3, <2>1 DEF ListFold
        <3>2. Positions(m)[n] = n
            BY <1>1
        <3> QED BY <2>1, <3>1, <3>2
    <2>3. ListsUpTo(iter[1..n], m, n)
        BY <1>5, <2>2, OneMoreListed
    <2>4. n \in 0..N
        BY <1>1
    <2> QED BY <2>3, <2>4
<1>6. \A n \in 0..N : n \in T
    <2> HIDE DEF T, N
    <2> QED BY <1>1, <1>4, <1>5, InductionUpTo
<1> QED BY <1>1, <1>3, <1>6

\* The first digit of a number, which is the number itself if it has only one.
LEMMA FirstDigitFound ==
    ASSUME NEW n \in Nat \ {0}
    PROVE  FirstDigit[n] \in 1..Base - 1 /\ (n < Base => FirstDigit[n] = n)
<1> DEFINE stop == 0..Base - 1
           base == [k \in Nat |-> k]
           down == [k \in Nat |-> k \div Base]
<1>1. ASSUME NEW k \in Nat
      PROVE  /\ k \div Base \in Nat
             /\ k >= Base => k \div Base < k /\ k \div Base >= 1
    BY ListingAssumption
<1>2. Base \in Nat /\ \A k \in Nat : k \in stop <=> k < Base
    BY ListingAssumption
<1>3. PICK f \in [Nat -> Nat] : Descends(f, stop, base, down)
    <2>1. base \in [Nat -> Nat] /\ down \in [Nat -> Nat]
        BY <1>1
    <2>2. \A k \in Nat : k \notin stop => down[k] < k
        <3> HIDE DEF stop
        <3> QED BY <1>1, <1>2
    <2> HIDE DEF stop, base, down
    <2> QED BY <2>1, <2>2, DescentExists
<1>4. f = [k \in Nat |-> IF k < Base THEN k ELSE f[k \div Base]]
    <2>1. ASSUME NEW k \in Nat PROVE f[k] = IF k < Base THEN k ELSE f[k \div Base]
        <3>1. f[k] = IF k \in stop THEN base[k] ELSE f[down[k]]
            BY <1>3 DEF Descends
        <3> HIDE DEF stop
        <3> QED BY <1>2, <3>1
    <2> QED BY <2>1
<1>5. FirstDigit = [k \in Nat |-> IF k < Base THEN k ELSE FirstDigit[k \div Base]]
    <2> HIDE DEF stop, base, down
    <2> QED BY <1>4 DEF FirstDigit
<1>6. ASSUME NEW k \in Nat
      PROVE  FirstDigit[k] = IF k < Base THEN k ELSE FirstDigit[k \div Base]
    BY <1>5
<1> DEFINE Wrong == {k \in Nat : k > 0 /\ FirstDigit[k] \notin 1..Base - 1}
<1>7. Wrong = {}
    <2> SUFFICES ASSUME Wrong # {} PROVE FALSE
        OBVIOUS
    <2>1. PICK x \in Wrong : \A y \in Wrong : x <= y
        <3>1. Wrong \in SUBSET Nat
            OBVIOUS
        <3> HIDE DEF Wrong
        <3> QED BY <3>1, LeastNumber
    <2>2. x \in Nat /\ x > 0 /\ FirstDigit[x] \notin 1..Base - 1
        OBVIOUS
    <2>3. x >= Base
        BY <1>2, <1>6, <2>2
    <2>4. FirstDigit[x] = FirstDigit[x \div Base]
        BY <1>2, <1>6, <2>2, <2>3
    <2>5. x \div Base \in Nat /\ x \div Base > 0 /\ x \div Base < x
        BY <1>1, <2>2, <2>3
    <2>6. x \div Base \in Wrong
        BY <2>2, <2>4, <2>5
    <2> HIDE DEF Wrong
    <2> QED BY <2>1, <2>2, <2>5, <2>6
<1> QED BY <1>2, <1>6, <1>7

------------------------------------------------------------------------------
(* The way of an entry                                                     *)

\* A machine is a sequence of different interfaces.
LEMMA MachineFacts ==
    ASSUME NEW m
    PROVE  m \in MachineStates <=>
               /\ m \in Machine /\ Len(m) <= MaxInterfaces
               /\ \A i, j \in 1..Len(m) : m[i] = m[j] => i = j
<1>1. ASSUME NEW k \in Nat, NEW f \in [1..k -> Interfaces]
      PROVE  f \in Machine /\ Len(f) = k /\ DOMAIN f = 1..k
    BY DEF Machine
<1>2. ASSUME m \in Machine
      PROVE  Len(m) \in Nat /\ m \in [1..Len(m) -> Interfaces] /\ DOMAIN m = 1..Len(m)
    BY <1>2 DEF Machine
<1>3. m \in SeqOf(Interfaces, MaxInterfaces) <=>
          \E k \in 0..MaxInterfaces : m \in [1..k -> Interfaces]
    BY DEF SeqOf
<1>4. m \in SeqOf(Interfaces, MaxInterfaces) <=> m \in Machine /\ Len(m) <= MaxInterfaces
    BY <1>1, <1>2, <1>3, ListingAssumption
<1>5. m \in Machine => (IsInjective(m) <=> \A i, j \in 1..Len(m) : m[i] = m[j] => i = j)
    BY <1>2 DEF IsInjective
<1> QED BY <1>4, <1>5 DEF MachineStates

\* An interface comes or goes, and they are still different.
LEMMA MachinePlugged ==
    ASSUME plugged \in MachineStates, Plug PROVE plugged' \in MachineStates
<1>1. /\ plugged \in Seq(Interfaces) /\ Len(plugged) \in Nat
      /\ Len(plugged) <= MaxInterfaces /\ MaxInterfaces \in Nat
      /\ \A i, j \in 1..Len(plugged) : plugged[i] = plugged[j] => i = j
      /\ \A i \in 1..Len(plugged) : plugged[i] \in Interfaces
    <2>1. plugged \in Seq(Interfaces)
        BY MachineFacts DEF Machine
    <2> QED BY <2>1, MachineFacts, ListingAssumption
<1>2. ASSUME NEW i \in 1..Len(plugged) + 1, NEW interface \in Interfaces \ ToSet(plugged),
             Len(plugged) < MaxInterfaces, plugged' = InsertAt(plugged, i, interface)
      PROVE  plugged' \in MachineStates
    <2> DEFINE front == SubSeq(plugged, 1, i - 1)
               back == SubSeq(plugged, i, Len(plugged))
               mid == front \o <<interface>>
               r == mid \o back
    <2>1. /\ front \in Seq(Interfaces) /\ Len(front) = i - 1
          /\ \A k \in 1..i - 1 : front[k] = plugged[k]
        BY <1>1, SubSeqProperties
    <2>2. /\ back \in Seq(Interfaces) /\ Len(back) = Len(plugged) - i + 1
          /\ \A k \in 1..Len(plugged) - i + 1 : back[k] = plugged[i + k - 1]
        BY <1>1, SubSeqProperties
    <2> HIDE DEF front, back
    <2>3. /\ mid \in Seq(Interfaces) /\ Len(mid) = i
          /\ \A k \in 1..i - 1 : mid[k] = plugged[k]
          /\ mid[i] = interface
        BY <2>1, ConcatProperties
    <2> HIDE DEF mid
    <2>4. /\ r \in Seq(Interfaces) /\ Len(r) = Len(plugged) + 1
          /\ \A k \in 1..i : r[k] = mid[k]
          /\ \A k \in i + 1..Len(plugged) + 1 : r[k] = back[k - i]
        BY <1>1, <2>2, <2>3, ConcatProperties
    <2> HIDE DEF r
    <2>5. ASSUME NEW k \in 1..Len(plugged) + 1
          PROVE  r[k] = IF k < i THEN plugged[k]
                        ELSE IF k = i THEN interface ELSE plugged[k - 1]
        <3>1. CASE k < i
            BY <1>1, <2>3, <2>4, <3>1
        <3>2. CASE k = i
            BY <1>1, <2>3, <2>4, <3>2
        <3>3. CASE k > i
            <4>1. k - i \in 1..Len(plugged) - i + 1 /\ k \in i + 1..Len(plugged) + 1
                BY <1>1, <3>3
            <4> QED BY <1>1, <2>2, <2>4, <3>3, <4>1
        <3> QED BY <3>1, <3>2, <3>3
    <2>6. \A k \in 1..Len(plugged) : plugged[k] # interface
        BY <1>1 DEF ToSet
    <2>7. \A j, k \in 1..Len(plugged) + 1 : r[j] = r[k] => j = k
        <3> DEFINE at(k) == IF k < i THEN k ELSE k - 1
        <3>1. ASSUME NEW k \in 1..Len(plugged) + 1, k # i
              PROVE  at(k) \in 1..Len(plugged) /\ r[k] = plugged[at(k)]
            BY <1>1, <2>5, <3>1
        <3>2. r[i] = interface
            BY <1>1, <2>5
        <3>3. ASSUME NEW j \in 1..Len(plugged) + 1, NEW k \in 1..Len(plugged) + 1,
                     j # i, k # i, at(j) = at(k)
              PROVE  j = k
            BY <1>1, <3>3
        <3> HIDE DEF at
        <3> QED BY <1>1, <2>6, <3>1, <3>2, <3>3
    <2>8. plugged' = r
        BY <1>2 DEF InsertAt, r, mid, front, back
    <2> QED BY <1>1, <1>2, <2>4, <2>7, <2>8, MachineFacts DEF Machine
<1>3. ASSUME NEW i \in 1..Len(plugged), plugged' = RemoveAt(plugged, i)
      PROVE  plugged' \in MachineStates
    <2> DEFINE front == SubSeq(plugged, 1, i - 1)
               back == SubSeq(plugged, i + 1, Len(plugged))
               r == front \o back
    <2>1. /\ front \in Seq(Interfaces) /\ Len(front) = i - 1
          /\ \A k \in 1..i - 1 : front[k] = plugged[k]
        BY <1>1, SubSeqProperties
    <2>2. /\ back \in Seq(Interfaces) /\ Len(back) = Len(plugged) - i
          /\ \A k \in 1..Len(plugged) - i : back[k] = plugged[i + k]
        BY <1>1, SubSeqProperties
    <2> HIDE DEF front, back
    <2>3. /\ r \in Seq(Interfaces) /\ Len(r) = Len(plugged) - 1
          /\ \A k \in 1..i - 1 : r[k] = front[k]
          /\ \A k \in i..Len(plugged) - 1 : r[k] = back[k - i + 1]
        BY <1>1, <2>1, <2>2, ConcatProperties
    <2> HIDE DEF r
    <2>4. ASSUME NEW k \in 1..Len(plugged) - 1
          PROVE  r[k] = IF k < i THEN plugged[k] ELSE plugged[k + 1]
        <3>1. CASE k < i
            BY SMTT(30), <1>1, <2>1, <2>3, <3>1
        <3>2. CASE k >= i
            <4>1. k - i + 1 \in 1..Len(plugged) - i /\ k \in i..Len(plugged) - 1
                BY <1>1, <3>2
            <4> QED BY <1>1, <2>2, <2>3, <3>2, <4>1
        <3> QED BY <3>1, <3>2
    <2>5. \A j, k \in 1..Len(plugged) - 1 : r[j] = r[k] => j = k
        <3> DEFINE at(k) == IF k < i THEN k ELSE k + 1
        <3>1. ASSUME NEW k \in 1..Len(plugged) - 1
              PROVE  at(k) \in 1..Len(plugged) /\ r[k] = plugged[at(k)]
            BY <1>1, <2>4
        <3>2. ASSUME NEW j \in 1..Len(plugged) - 1, NEW k \in 1..Len(plugged) - 1,
                     at(j) = at(k)
              PROVE  j = k
            BY <1>1, <3>2
        <3> HIDE DEF at
        <3> QED BY <1>1, <3>1, <3>2
    <2>6. plugged' = r
        BY <1>3 DEF RemoveAt, r, front, back
    <2>7. r \in Machine /\ Len(r) <= MaxInterfaces
        BY <1>1, <2>3 DEF Machine
    <2>8. \A j, k \in 1..Len(r) : r[j] = r[k] => j = k
        BY <2>3, <2>5
    <2>9. r \in MachineStates
        BY <2>7, <2>8, MachineFacts
    <2> QED BY <2>6, <2>9
<1> QED BY <1>2, <1>3 DEF Plug

\* What a task selects for the number n on machine m.
Put(m, n) ==
    LET builder == FindDevices(Builder(FirstDigit[n]), m) IN
    IF Selects(builder) THEN SelectDevice(builder).name ELSE ""

\* The listing, and the picks: their types.
ListType ==
    /\ plugged \in MachineStates
    /\ plugs \in 0..MaxPlugs
    /\ asked \in Seq(MachineStates) /\ Len(asked) <= 2
    /\ count \in 0..MaxInterfaces
    /\ list \in Seq(Entries) /\ Len(list) <= MaxInterfaces
    /\ overrun \in BOOLEAN

PickType ==
    /\ handlers \in Seq([entry : 1..MaxInterfaces, refused : BOOLEAN])
    /\ Len(handlers) <= MaxPicks
    /\ worker \in {"idle", "started", "worked"}
    /\ tasks \in [1..MaxPicks -> Nat]
    /\ put \subseteq 1..MaxPicks
    /\ latest \in 0..MaxPicks
    /\ found \in MachineStates
    /\ selected \in Names

\* Each answer is that of the machine it was asked of.
ListInv ==
    /\ ListType
    /\ Len(asked) >= 1 => count = Len(fnDevCPPDLL(asked[1]))
    /\ Len(asked) < 2 => list = << >> /\ ~overrun
    /\ Len(asked) >= 2 =>
           list = fnDevCPPDLL(asked[2]) /\ (overrun <=> Len(list) > count)

\* A pick is on its way to being put, or has been, unless its run was refused; and
\* what is selected was put for a pick.
PickInv ==
    /\ PickType
    /\ Len(handlers) > 0 => Len(asked) = 2
    /\ \A k \in 1..Len(handlers) : handlers[k].entry \in 1..Len(list)
    /\ \A k \in 1..MaxPicks : tasks[k] > 0 => k <= Len(handlers)
    /\ latest # 0 =>
           /\ latest \in 1..Len(handlers) /\ latest \in put
           /\ selected = Put(found, list[handlers[latest].entry].number)
    /\ \A k \in 1..Len(handlers) :
           ~handlers[k].refused => worker = "started" \/ tasks[k] > 0 \/ k \in put

ListingInv == ListInv /\ PickInv

\* The list of a machine has the entries it should have, and no more than there
\* are interfaces.
LEMMA MachineListed ==
    ASSUME NEW m \in MachineStates
    PROVE  /\ fnDevCPPDLL(m) \in Seq(Entries)
           /\ Len(fnDevCPPDLL(m)) \in 0..MaxInterfaces
           /\ Len(fnDevCPPDLL(m)) = Cardinality(Described(m))
           /\ {fnDevCPPDLL(m)[i].number : i \in 1..Len(fnDevCPPDLL(m))} = Described(m)
           /\ ListsUpTo(fnDevCPPDLL(m), m, Len(m))
<1>1. m \in Machine /\ Len(m) \in Nat /\ Len(m) <= MaxInterfaces
    <2>1. m \in Machine /\ Len(m) <= MaxInterfaces
        BY MachineFacts
    <2> QED BY <2>1 DEF Machine
<1>2. ListsUpTo(fnDevCPPDLL(m), m, Len(m))
    BY <1>1, DevicesListed
<1>3. Described(m) = DescribedUpTo(m, Len(m))
    BY DEF Described, DescribedUpTo
<1>4. Cardinality(DescribedUpTo(m, Len(m))) <= Len(m)
    <2>1. DescribedUpTo(m, Len(m)) \subseteq 1..Len(m)
        BY DEF DescribedUpTo
    <2>2. IsFiniteSet(1..Len(m)) /\ Cardinality(1..Len(m)) = Len(m)
        <3>1. 1 \in Int /\ Len(m) \in Int /\ (1 > Len(m) => Len(m) = 0)
            BY <1>1
        <3>2. /\ IsFiniteSet(1..Len(m))
              /\ Cardinality(1..Len(m)) = IF 1 > Len(m) THEN 0 ELSE Len(m) - 1 + 1
            BY <3>1, FS_Interval
        <3> QED BY <3>1, <3>2
    <2> QED BY <2>1, <2>2, FS_Subset
<1>5. /\ fnDevCPPDLL(m) \in Seq(Entries)
      /\ Len(fnDevCPPDLL(m)) = Cardinality(DescribedUpTo(m, Len(m)))
    BY <1>2 DEF ListsUpTo
<1>6. Len(fnDevCPPDLL(m)) \in Nat
    BY <1>5, LenProperties
<1>7. Len(fnDevCPPDLL(m)) \in 0..MaxInterfaces
    BY <1>1, <1>4, <1>5, <1>6, ListingAssumption
<1> QED BY <1>2, <1>3, <1>5, <1>7 DEF ListsUpTo

\* PutDevice selects the name of an interface, or nothing.
LEMMA PutName ==
    ASSUME NEW m \in MachineStates, NEW n PROVE Put(m, n) \in Names
<1>1. ASSUME NEW k \in 1..Len(m) PROVE m[k].name \in Names
    <2>1. m \in Machine
        BY MachineFacts
    <2>2. m[k] \in Interfaces
        BY <2>1 DEF Machine
    <2> QED BY <2>2 DEF Names
<1> DEFINE builder == FindDevices(Builder(FirstDigit[n]), m)
<1>2. /\ builder.inum = FirstDigit[n] /\ builder.deviceCount = Len(m)
      /\ builder.alldevs = m
    BY DEF FindDevices, Builder
<1>3. Put(m, n) = IF Selects(builder) THEN SelectDevice(builder).name ELSE ""
    BY DEF Put
<1> HIDE DEF builder
<1>4. CASE Selects(builder)
    <2>1. builder.inum \in 1..Len(m)
        BY <1>2, <1>4 DEF Selects
    <2>2. SelectDevice(builder).name = m[builder.inum].name
        BY <1>2 DEF SelectDevice
    <2> QED BY <1>1, <1>3, <1>4, <2>1, <2>2
<1>5. CASE ~Selects(builder)
    BY <1>3, <1>5 DEF Names
<1> QED BY <1>4, <1>5

LEMMA ListingInvInit == ListingInit => ListingInv
<1> SUFFICES ASSUME ListingInit PROVE ListingInv
    OBVIOUS
<1>1. asked = << >> /\ list = << >> /\ overrun = FALSE /\ handlers = << >> /\ latest = 0
    BY DEF ListingInit
<1>2. /\ asked \in Seq(MachineStates) /\ Len(asked) = 0
      /\ list \in Seq(Entries) /\ Len(list) = 0
      /\ handlers \in Seq([entry : 1..MaxInterfaces, refused : BOOLEAN]) /\ Len(handlers) = 0
    BY <1>1, EmptySeq
<1>3. ListType
    <2>1. 0 \in 0..MaxPlugs /\ 0 \in 0..MaxInterfaces
        BY ListingAssumption
    <2>2. Len(asked) <= 2 /\ Len(list) <= MaxInterfaces
        BY <1>2, ListingAssumption
    <2> QED BY <1>2, <2>1, <2>2, Zenon DEF ListingInit, ListType
<1>4. PickType
    <2>1. 0 \in 0..MaxPicks /\ Len(handlers) <= MaxPicks
        BY <1>2, ListingAssumption
    <2>2. selected \in Names
        BY Zenon DEF ListingInit, Names
    <2>3. tasks \in [1..MaxPicks -> Nat]
        BY DEF ListingInit
    <2> QED BY <1>2, <2>1, <2>2, <2>3, Zenon DEF ListingInit, PickType
<1>5. ListInv
    <2>1. ~(Len(asked) >= 1) /\ ~(Len(asked) >= 2)
        BY <1>2
    <2> QED BY <1>1, <1>3, <2>1, Zenon DEF ListInv
<1>6. PickInv
    <2>1. ~(Len(handlers) > 0) /\ 1..Len(handlers) = {}
        BY <1>2
    <2>2. \A k \in 1..MaxPicks : ~(tasks[k] > 0)
        <3>1. \A k \in 1..MaxPicks : tasks[k] = 0
            BY Zenon DEF ListingInit
        <3>2. \A k \in 1..MaxPicks : ~(tasks[k] > 0)
            BY <3>1, SMT
        <3> QED BY <3>2
    <2> QED BY <1>1, <1>4, <2>1, <2>2 DEF PickInv
<1> QED BY <1>5, <1>6 DEF ListingInv

\* One more answer.
LEMMA Answered ==
    ASSUME ListType, NEW m \in MachineStates
    PROVE  /\ Len(asked) \in Nat
           /\ Append(asked, m) \in Seq(MachineStates)
           /\ Len(Append(asked, m)) = Len(asked) + 1
           /\ \A i \in 1..Len(asked) : Append(asked, m)[i] = asked[i]
           /\ Append(asked, m)[Len(asked) + 1] = m
<1>1. asked \in Seq(MachineStates)
    BY DEF ListType
<1> QED BY <1>1, AppendProperties, LenProperties

\* Before there is a list nothing has been picked.
LEMMA NothingPicked ==
    ASSUME PickInv, Len(asked) < 2, Len(asked) \in Nat, UNCHANGED pickVars
    PROVE  PickInv'
<1>1. Len(handlers) \in Nat
    BY LenProperties DEF PickInv, PickType
<1>2. Len(handlers) = 0
    <2>1. Len(asked) # 2
        OBVIOUS
    <2>2. ~(Len(handlers) > 0)
        BY <2>1, Zenon DEF PickInv
    <2> QED BY <1>1, <2>2
<1>3. latest = 0
    BY <1>2 DEF PickInv
<1>4. PickType'
    BY DEF PickInv, PickType, pickVars
<1>5. 1..Len(handlers') = {} /\ ~(Len(handlers') > 0)
    BY <1>2 DEF pickVars
<1>6. \A k \in 1..MaxPicks : tasks'[k] > 0 => k <= Len(handlers')
    BY DEF PickInv, pickVars
<1> QED BY <1>3, <1>4, <1>5, <1>6 DEF PickInv, pickVars

\* The way to the list.
LEMMA ListSteps ==
    ASSUME ListingInv, CountDevices \/ GetAllDevices
    PROVE  ListingInv'
<1>1. /\ ListType /\ plugged \in MachineStates /\ PickInv
      /\ asked \in Seq(MachineStates) /\ Len(asked) \in Nat
    BY LenProperties DEF ListingInv, ListInv, ListType
<1>2. CASE CountDevices
    <2>1. /\ asked = << >> /\ asked' = <<plugged>> /\ count' = Len(fnDevCPPDLL(plugged))
          /\ UNCHANGED <<plugged, plugs, list, overrun, pickVars>>
        BY <1>2 DEF CountDevices
    <2>2. asked' \in Seq(MachineStates) /\ Len(asked') = 1 /\ asked'[1] = plugged
        BY <1>1, <2>1
    <2>3. count' \in 0..MaxInterfaces
        BY <1>1, <2>1, MachineListed
    <2>4. Len(asked) = 0
        BY <2>1
    <2>5. ListType'
        <3>1. Len(asked') <= 2
            BY <2>2
        <3> QED BY <1>1, <2>1, <2>2, <2>3, <3>1, Zenon DEF ListType
    <2>6. list = << >> /\ ~overrun
        BY <2>4 DEF ListingInv, ListInv
    <2>7. list' = << >> /\ ~overrun'
        BY <2>1, <2>6, Zenon
    <2>8. ListInv'
        BY <2>1, <2>2, <2>5, <2>7 DEF ListInv
    <2>9. PickInv'
        BY <1>1, <2>1, <2>4, NothingPicked
    <2> QED BY <2>8, <2>9 DEF ListingInv
<1>3. CASE GetAllDevices
    <2>1. /\ Len(asked) = 1 /\ asked' = Append(asked, plugged)
          /\ list' = fnDevCPPDLL(plugged) /\ overrun' = (Len(list') > count)
          /\ UNCHANGED <<plugged, plugs, count, pickVars>>
        BY <1>3 DEF GetAllDevices
    <2>2. /\ asked' \in Seq(MachineStates) /\ Len(asked') = 2
          /\ asked'[1] = asked[1] /\ asked'[2] = plugged
        BY <1>1, <2>1, Answered
    <2>3. list' \in Seq(Entries) /\ Len(list') \in 0..MaxInterfaces
        BY <1>1, <2>1, MachineListed
    <2>4. ListType'
        <3>1. Len(asked') <= 2 /\ Len(list') <= MaxInterfaces
            BY <2>2, <2>3, ListingAssumption
        <3>2. overrun' \in BOOLEAN
            <4>1. Len(list') \in Nat /\ count \in Nat
                BY <1>1, <2>3, ListingAssumption DEF ListType
            <4>2. (Len(list') > count) \in BOOLEAN
                BY <4>1, SMT
            <4> QED BY <2>1, <4>2, Zenon
        <3> QED BY <1>1, <2>1, <2>2, <2>3, <3>1, <3>2, Zenon DEF ListType
    <2>5. count' = Len(fnDevCPPDLL(asked'[1]))
        BY <2>1, <2>2 DEF ListingInv, ListInv
    <2>6. /\ list' = fnDevCPPDLL(asked'[2])
          /\ overrun' <=> Len(list') > count'
        BY <2>1, <2>2, Zenon
    <2>7. ~(Len(asked') < 2) /\ Len(asked) < 2
        BY <2>1, <2>2
    <2>8. ListInv'
        BY <2>4, <2>5, <2>6, <2>7, Zenon DEF ListInv
    <2>9. PickInv'
        BY <1>1, <2>1, <2>7, NothingPicked
    <2> QED BY <2>8, <2>9 DEF ListingInv
<1> QED BY <1>2, <1>3

\* What SetDevice, the worker and its tasks leave alone.
LEMMA ListKept ==
    ASSUME ListInv, UNCHANGED <<plugged, plugs, asked, count, list, overrun>>
    PROVE  ListInv'
BY DEF ListInv, ListType

\* One more handler.
LEMMA HandlerAdded ==
    ASSUME ListingInv, NEW i \in 1..Len(list), SetDevice(i)
    PROVE  PickInv'
<1> DEFINE h == [entry |-> i, refused |-> worker # "idle"]
<1>1. /\ Len(asked) = 2 /\ Len(handlers) < MaxPicks
      /\ handlers' = Append(handlers, h)
      /\ worker' = IF worker = "idle" THEN "started" ELSE worker
      /\ UNCHANGED <<asked, list, tasks, put, latest, found, selected>>
    BY DEF SetDevice
<1>2. PickInv /\ PickType
    BY DEF ListingInv, PickInv
<1>3. Len(list) \in Nat /\ Len(list) <= MaxInterfaces
    BY LenProperties DEF ListingInv, ListInv, ListType
<1>4. h \in [entry : 1..MaxInterfaces, refused : BOOLEAN] /\ h.entry = i
      /\ h.refused = (worker # "idle")
    BY <1>3, ListingAssumption
<1> HIDE DEF h
<1>5. /\ Len(handlers) \in Nat
      /\ handlers' \in Seq([entry : 1..MaxInterfaces, refused : BOOLEAN])
      /\ Len(handlers') = Len(handlers) + 1
      /\ \A k \in 1..Len(handlers) : handlers'[k] = handlers[k]
      /\ handlers'[Len(handlers) + 1] = h
    BY <1>1, <1>2, <1>4, AppendProperties, LenProperties DEF PickType
<1>6. PickType'
    <2>1. Len(handlers') <= MaxPicks
        BY <1>1, <1>5, ListingAssumption
    <2>2. worker' \in {"idle", "started", "worked"}
        BY <1>1, <1>2 DEF PickType
    <2> QED BY <1>1, <1>2, <1>5, <2>1, <2>2 DEF PickType
<1>7. \A k \in 1..Len(handlers') : handlers'[k].entry \in 1..Len(list')
    <2> SUFFICES ASSUME NEW k \in 1..Len(handlers') PROVE handlers'[k].entry \in 1..Len(list)
        BY <1>1
    <2>1. CASE k = Len(handlers) + 1
        BY <1>4, <1>5, <2>1
    <2>2. CASE k # Len(handlers) + 1
        BY <1>2, <1>5, <2>2 DEF PickInv
    <2> QED BY <2>1, <2>2
<1>8. \A k \in 1..MaxPicks : tasks'[k] > 0 => k <= Len(handlers')
    BY <1>1, <1>2, <1>5, ListingAssumption DEF PickInv
<1>9. latest' # 0 =>
          /\ latest' \in 1..Len(handlers') /\ latest' \in put'
          /\ selected' = Put(found', list'[handlers'[latest'].entry].number)
    BY <1>1, <1>2, <1>5 DEF PickInv
<1>10. \A k \in 1..Len(handlers') :
           ~handlers'[k].refused => worker' = "started" \/ tasks'[k] > 0 \/ k \in put'
    <2> SUFFICES ASSUME NEW k \in 1..Len(handlers'), ~handlers'[k].refused
                 PROVE  worker' = "started" \/ tasks'[k] > 0 \/ k \in put'
        OBVIOUS
    <2>1. CASE k = Len(handlers) + 1
        BY <1>1, <1>4, <1>5, <2>1
    <2>2. CASE k # Len(handlers) + 1
        BY <1>1, <1>2, <1>5, <2>2 DEF PickInv
    <2> QED BY <2>1, <2>2
<1> QED BY <1>1, <1>6, <1>7, <1>8, <1>9, <1>10 DEF PickInv

\* A run calls the handlers there are, of each pick so far.
LEMMA HandlersCalled ==
    ASSUME ListingInv, DoWork
    PROVE  PickInv'
<1>1. /\ worker' = "worked"
      /\ tasks' = [k \in 1..MaxPicks |-> IF k <= Len(handlers) THEN tasks[k] + 1 ELSE tasks[k]]
      /\ UNCHANGED <<asked, list, handlers, put, latest, found, selected>>
    BY DEF DoWork
<1>2. PickInv /\ PickType
    BY DEF ListingInv, PickInv
<1>3. Len(handlers) \in Nat /\ Len(handlers) <= MaxPicks
    BY <1>2, LenProperties DEF PickType
<1>4. /\ tasks' \in [1..MaxPicks -> Nat]
      /\ \A k \in 1..MaxPicks :
             /\ k <= Len(handlers) => tasks'[k] > 0
             /\ k > Len(handlers) => tasks'[k] = tasks[k]
    BY <1>1, <1>2, <1>3, ListingAssumption DEF PickType
<1>5. PickType'
    BY <1>1, <1>2, <1>4 DEF PickType
<1>6. \A k \in 1..MaxPicks : tasks'[k] > 0 => k <= Len(handlers')
    BY <1>1, <1>2, <1>3, <1>4, ListingAssumption DEF PickInv
<1>7. \A k \in 1..Len(handlers') : tasks'[k] > 0
    BY <1>1, <1>3, <1>4, ListingAssumption
<1> QED BY <1>1, <1>2, <1>5, <1>6, <1>7 DEF PickInv

\* A number that is put belongs to a pick.
LEMMA NumberPut ==
    ASSUME ListingInv, NEW n \in 1..MaxPicks, PutDevice(n)
    PROVE  PickInv'
<1>1. /\ tasks[n] > 0
      /\ tasks' = [tasks EXCEPT ![n] = @ - 1]
      /\ put' = put \union {n}
      /\ latest' = n
      /\ found' = plugged
      /\ selected' = Put(plugged, list[handlers[n].entry].number)
      /\ UNCHANGED <<asked, list, handlers, worker>>
    BY DEF PutDevice, Put
<1>2. PickInv /\ PickType /\ plugged \in MachineStates
    BY DEF ListingInv, ListInv, ListType, PickInv
<1>3. Len(handlers) \in Nat /\ Len(handlers) <= MaxPicks /\ tasks \in [1..MaxPicks -> Nat]
    BY <1>2, LenProperties DEF PickType
<1>4. n \in 1..Len(handlers)
    BY <1>1, <1>2, <1>3, ListingAssumption DEF PickInv
<1>5. /\ tasks' \in [1..MaxPicks -> Nat]
      /\ \A k \in 1..MaxPicks : k # n => tasks'[k] = tasks[k]
    BY <1>1, <1>3, ListingAssumption
<1>6. PickType'
    <2>1. put' \subseteq 1..MaxPicks /\ latest' \in 0..MaxPicks
        BY <1>1, <1>2, ListingAssumption DEF PickType
    <2>2. selected' \in Names
        BY <1>1, <1>2, PutName
    <2> QED BY <1>1, <1>2, <1>5, <2>1, <2>2, Zenon DEF PickType
<1>7. \A k \in 1..MaxPicks : tasks'[k] > 0 => k <= Len(handlers')
    BY <1>1, <1>2, <1>4, <1>5 DEF PickInv
<1>8. \A k \in 1..Len(handlers') :
          ~handlers'[k].refused => worker' = "started" \/ tasks'[k] > 0 \/ k \in put'
    <2> SUFFICES ASSUME NEW k \in 1..Len(handlers), ~handlers[k].refused, k # n
                 PROVE  worker = "started" \/ tasks'[k] > 0 \/ k \in put'
        BY <1>1
    <2>1. k \in 1..MaxPicks
        BY <1>3, ListingAssumption
    <2> QED BY <1>1, <1>2, <1>5, <2>1 DEF PickInv
<1>9. /\ latest' \in 1..Len(handlers') /\ latest' \in put'
      /\ selected' = Put(found', list'[handlers'[latest'].entry].number)
    BY <1>1, <1>4
<1>10. /\ Len(handlers') > 0 => Len(asked') = 2
       /\ \A k \in 1..Len(handlers') : handlers'[k].entry \in 1..Len(list')
    BY <1>1, <1>2 DEF PickInv
<1> QED BY <1>6, <1>7, <1>8, <1>9, <1>10 DEF PickInv

LEMMA ListingInvStep == ListingInv /\ [ListingNext]_listingVars => ListingInv'
<1> SUFFICES ASSUME ListingInv, [ListingNext]_listingVars PROVE ListingInv'
    OBVIOUS
<1>1. CASE CountDevices \/ GetAllDevices
    BY <1>1, ListSteps
<1>2. ASSUME NEW i \in 1..Len(list), SetDevice(i) PROVE ListingInv'
    <2>1. ListInv'
        BY <1>2, ListKept DEF SetDevice, ListingInv
    <2> QED BY <1>2, <2>1, HandlerAdded DEF ListingInv
<1>3. CASE DoWork
    <2>1. ListInv'
        BY <1>3, ListKept DEF DoWork, ListingInv
    <2> QED BY <1>3, <2>1, HandlersCalled DEF ListingInv
<1>4. CASE WorkCompleted
    <2>1. ListInv'
        BY <1>4, ListKept DEF WorkCompleted, ListingInv
    <2>2. PickInv'
        BY <1>4 DEF WorkCompleted, ListingInv, PickInv, PickType
    <2> QED BY <2>1, <2>2 DEF ListingInv
<1>5. ASSUME NEW k \in 1..MaxPicks, PutDevice(k) PROVE ListingInv'
    <2>1. ListInv'
        BY <1>5, ListKept DEF PutDevice, ListingInv
    <2> QED BY <1>5, <2>1, NumberPut DEF ListingInv
<1>6. CASE Plug
    <2>1. /\ plugs < MaxPlugs /\ plugs' = plugs + 1
          /\ UNCHANGED <<asked, count, list, overrun, pickVars>>
        BY <1>6 DEF Plug
    <2>2. ListType /\ plugged \in MachineStates
        BY DEF ListingInv, ListInv, ListType
    <2>3. plugged' \in MachineStates
        BY <1>6, <2>2, MachinePlugged
    <2>4. ListType'
        BY <2>1, <2>2, <2>3, ListingAssumption DEF ListType
    <2>5. ListInv'
        BY <2>1, <2>4 DEF ListingInv, ListInv
    <2>6. PickInv'
        BY <2>1 DEF ListingInv, PickInv, PickType, pickVars
    <2> QED BY <2>5, <2>6 DEF ListingInv
<1>7. CASE UNCHANGED listingVars
    <2>1. ListInv'
        BY <1>7, ListKept DEF listingVars, ListingInv
    <2>2. PickInv'
        BY <1>7 DEF listingVars, pickVars, ListingInv, PickInv, PickType
    <2> QED BY <2>1, <2>2 DEF ListingInv
<1> QED BY <1>1, <1>2, <1>3, <1>4, <1>5, <1>6, <1>7 DEF ListingNext

LEMMA ListingInvLeads == ListingInv => ListingLeadsBack
<1> SUFFICES ASSUME ListingInv PROVE ListingLeadsBack
    OBVIOUS
<1>1. /\ asked \in Seq(MachineStates) /\ Len(asked) \in Nat /\ Len(asked) <= 2
      /\ \A k \in 1..Len(asked) : asked[k] \in MachineStates
    <2>1. asked \in Seq(MachineStates) /\ Len(asked) <= 2
        BY DEF ListingInv, ListInv, ListType
    <2> QED BY <2>1, LenProperties
<1>2. ASSUME overrun
      PROVE  Cardinality(Described(asked[1])) < Cardinality(Described(asked[2]))
    <2>1. Len(asked) >= 2 /\ Len(list) > count
        BY <1>1, <1>2 DEF ListingInv, ListInv
    <2>2. asked[1] \in MachineStates /\ asked[2] \in MachineStates
        BY <1>1, <2>1
    <2>3. /\ count = Cardinality(Described(asked[1]))
          /\ Len(list) = Cardinality(Described(asked[2]))
          /\ count \in Nat /\ Len(list) \in Nat
        BY SMTT(30), <1>1, <2>1, <2>2, MachineListed, ListingAssumption DEF ListingInv, ListInv
    <2> QED BY <2>1, <2>3
<1>3. ASSUME Len(asked) >= 2
      PROVE  /\ asked[2] \in MachineStates
             /\ Described(asked[2]) = {list[i].number : i \in 1..Len(list)}
             /\ ListsUpTo(list, asked[2], Len(asked[2]))
    <2>1. asked[2] \in MachineStates
        BY <1>1, <1>3
    <2>2. list = fnDevCPPDLL(asked[2])
        BY <1>3 DEF ListingInv, ListInv
    <2> QED BY <2>1, <2>2, MachineListed
<1>4. ASSUME latest # 0
      PROVE  /\ latest \in 1..Len(handlers) /\ latest \in put /\ Len(asked) = 2
             /\ handlers[latest].entry \in 1..Len(list)
             /\ selected = Put(found, list[handlers[latest].entry].number)
    <2>1. Len(handlers) \in Nat
        BY LenProperties DEF ListingInv, PickInv, PickType
    <2> QED BY <1>4, <2>1 DEF ListingInv, PickInv
<1>5. ASSUME latest # 0, found = asked[2]
      PROVE  LET n == list[handlers[latest].entry].number IN
             IF n < Base
             THEN selected = found[n].name
             ELSE \E k \in 1..Base - 1 : k = FirstDigit[n] /\ selected = found[k].name
    <2> DEFINE n == list[handlers[latest].entry].number
    <2>1. /\ asked[2] \in MachineStates
          /\ Described(asked[2]) = {list[i].number : i \in 1..Len(list)}
        <3>1. Len(asked) = 2
            BY <1>4, <1>5, Zenon
        <3>2. Len(asked) >= 2
            BY <3>1
        <3> QED BY <1>3, <3>2
    <2>0. selected = Put(found, n)
        BY <1>4, <1>5
    <2>2. found \in Machine /\ Len(found) \in Nat
        <3>1. found \in MachineStates
            BY <1>5, <2>1
        <3>2. found \in Machine
            BY <3>1, MachineFacts
        <3> QED BY <3>2 DEF Machine
    <2>3. n \in 1..Len(found)
        <3>1. list[handlers[latest].entry].number
                  \in {list[i].number : i \in 1..Len(list)}
            <4> DEFINE e == handlers[latest].entry
            <4>1. e \in 1..Len(list)
                BY <1>4, <1>5, Zenon
            <4> HIDE DEF e
            <4>2. list[e].number \in {list[i].number : i \in 1..Len(list)}
                BY <4>1
            <4> QED BY <4>2 DEF e
        <3>2. n \in Described(found)
            BY <1>5, <2>1, <3>1
        <3> QED BY <3>2 DEF Described
    <2> HIDE DEF n
    <2>4. /\ FirstDigit[n] \in 1..Base - 1
          /\ n < Base => FirstDigit[n] = n
        BY <2>2, <2>3, FirstDigitFound
    <2>5. n \in Nat /\ Base \in Nat /\ FirstDigit[n] \in 1..Len(found)
        BY <2>2, <2>3, <2>4, ListingAssumption
    <2>6. selected = found[FirstDigit[n]].name
        BY <2>0, <2>5 DEF Put, FindDevices, Builder, Selects, SelectDevice
    <2> QED BY <2>4, <2>6 DEF n
<1> QED BY <1>2, <1>3, <1>4, <1>5 DEF ListingLeadsBack, ListsUpTo, Shows

\* At rest no task is left, and the last run is over.
LEMMA ListingInvPicks == ListingInv => PicksArePut
<1> SUFFICES ASSUME ListingInv, worker = "idle", \A k \in 1..MaxPicks : tasks[k] = 0,
                    NEW k \in 1..Len(handlers), ~handlers[k].refused
             PROVE  k \in put
    BY DEF PicksArePut
<1>1. Len(handlers) \in Nat /\ Len(handlers) <= MaxPicks
    BY LenProperties DEF ListingInv, PickInv, PickType
<1>2. tasks[k] = 0
    BY <1>1, ListingAssumption
<1> QED BY <1>2 DEF ListingInv, PickInv

\* The types of the listing: in particular no two interfaces of the machine are
\* ever the same, however they come and go.
THEOREM ListingTypeCorrect == ListingSafetySpec => []ListingTypeOK
<1>1. ListingInv => ListingTypeOK
    BY DEF ListingInv, ListInv, PickInv, ListType, PickType, ListingTypeOK
<1> QED BY <1>1, ListingInvInit, ListingInvStep, PTL DEF ListingSafetySpec

\* The way of a device's number from builderDevice to the user and back, for any
\* machine, any base of the numbers, any width of the entries and any number of
\* picks: what the user sees are the described interfaces, in order; the arrays of
\* GetAllDevices are overrun only after a second listing that is longer than the
\* first; and what is selected is the interface of an entry that was picked, if its
\* number has one digit and the machine is the one that was listed.
THEOREM EntriesLeadBack == ListingSafetySpec => []ListingLeadsBack
BY ListingInvInit, ListingInvStep, ListingInvLeads, PTL DEF ListingSafetySpec

\* NavigationViewModel.SetDevice: no pick is forgotten whose run was not refused,
\* however picks, the worker's runs and their tasks follow one another.
THEOREM PicksReachTheDll == ListingSafetySpec => []PicksArePut
BY ListingInvInit, ListingInvStep, ListingInvPicks, PTL DEF ListingSafetySpec
==============================================================================
