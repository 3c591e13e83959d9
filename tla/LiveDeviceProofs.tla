-------------------------- MODULE LiveDeviceProofs --------------------------
(***************************************************************************)
(* Proofs about the live device among the resets of the list it is from,   *)
(* for every machine, every query and any number of changes: that a device *)
(* that says it is not capturing is quiet, that libpcap never gets a       *)
(* descriptor that is not open unless the application misuses the device,  *)
(* that a stop waits only for threads that have been told to end,          *)
(* that the device keeps the contract of its header, and that the list is  *)
(* one fetch's.  About the core masks, for any width and any vector: that  *)
(* the ways to build them and the way back undo one another.  And about    *)
(* the handler of interrupts, for any number of threads and of             *)
(* registrations: that no handler is called twice.                         *)
(***************************************************************************)
EXTENDS DeviceList, SystemUtils, InterruptHandler, FoldLemmas, SequenceTheorems

\* Where the threads and the flags are, given where the application is: a capture
\* that has been started is there until it is joined, although its flag may not be
\* up yet, and nothing of an earlier one is left when the next may start.
Phases ==
    /\ m_StatsThreadStarted <=> stats # "none"
    /\ blockingCallback <=> app \in Blocking
    /\ app = "idle" /\ ~m_CaptureThreadStarted =>
           capture = "none" /\ stats = "none" /\ ~m_StopThread
    /\ app = "idle" /\ m_CaptureThreadStarted => capture \in {"test", "dispatch", "ended"}
    /\ app = "spin" =>
           /\ capture # "none" /\ stats = "none"
           /\ m_CaptureThreadStarted <=> capture # "starting"
           /\ capture = "starting" => ~m_StopThread
    /\ app \in Blocking => m_CaptureThreadStarted /\ capture = "none" /\ stats = "none"
    /\ app \in {"poll", "blockDispatch"} => ~m_StopThread
    /\ app \in {"break", "joinCapture"} =>
           /\ m_CaptureThreadStarted /\ m_StopThread
           /\ capture \in {"test", "dispatch", "ended"}
    /\ app = "stopStats" => ~m_CaptureThreadStarted /\ m_StopThread /\ capture = "none"

Capturing == capture # "none" \/ stats # "none" \/ app \in Blocking

\* What the descriptors are, and who may rely on it.
Descriptors ==
    /\ m_DeviceOpened => /\ m_PcapDescriptor = "open"
                         /\ nflog \/ m_PcapSendDescriptor = "open"
    /\ Capturing => m_DeviceOpened \/ misused
    /\ undefined => misused \/ nflog

DeviceInv == TypeOK /\ Phases /\ Descriptors

LEMMA DeviceInvInit == Init => DeviceInv
BY DEF Init, Unset, DeviceInv, TypeOK, Phases, Descriptors, Capturing, Blocking

------------------------------------------------------------------------------
(* One step of the device                                                  *)

\* Opening and closing, and what is done with an open device.
LEMMA HandleSteps ==
    ASSUME DeviceInv, ~undefined, Open \/ Close \/ GetStatistics \/ Send
    PROVE  DeviceInv'
<1> USE DEF DeviceInv, TypeOK, Phases, Descriptors, Capturing, Blocking
<1>1. CASE Open
    <2>1. UNCHANGED <<nflog, misused, flags, app, withStats, capture, stats, timed>>
        BY <1>1 DEF Open
    <2>2. Phases'
        BY <2>1 DEF flags
    <2>3. /\ m_PcapDescriptor' \in {"null", "open"}
          /\ m_PcapSendDescriptor' \in {"null", "open"}
          /\ m_DeviceOpened' = (m_PcapDescriptor' # "null"
                                   /\ (nflog \/ m_PcapSendDescriptor' # "null"))
        BY <1>1 DEF Open, DoOpen
    <2>4. PICK config \in DeviceConfiguration :
              /\ m_UsePoll' = IF m_DeviceOpened' THEN config.usePoll ELSE m_UsePoll
              /\ undefined' = (m_DeviceOpened' /\ config.usePoll
                                   /\ m_PcapSendDescriptor' # "open")
        BY <1>1 DEF Open
    <2>5. ~m_DeviceOpened /\ m_UsePoll' \in BOOLEAN /\ unread' = FALSE /\ breakLoop' = "no"
        BY <1>1, <2>4 DEF Open, DeviceConfiguration
    <2>6. TypeOK'
        BY ZenonT(60), <2>1, <2>3, <2>4, <2>5 DEF flags
    <2>7. Descriptors'
        BY <2>1, <2>3, <2>4, <2>5 DEF flags
    <2> QED BY <2>2, <2>6, <2>7
<1>2. CASE Close
    <2>1. UNCHANGED <<nflog, flags, threads, polling>>
        BY <1>2 DEF Close
    <2>2. Phases'
        BY <2>1 DEF flags, threads
    <2>3. /\ m_PcapDescriptor' = "closed" /\ m_PcapSendDescriptor' = "closed"
          /\ m_DeviceOpened' = FALSE
          /\ undefined' \in BOOLEAN /\ misused' \in BOOLEAN
        BY <1>2 DEF Close, InUse
    <2>4. TypeOK'
        BY <2>1, <2>3 DEF flags, threads, polling
    <2>5. misused' = (misused \/ ~m_DeviceOpened \/ m_CaptureThreadStarted)
        BY <1>2 DEF Close
    <2>6. app = "idle" /\ (undefined' => \/ m_PcapDescriptor # "open"
                                         \/ m_PcapSendDescriptor # "open"
                                         \/ capture # "none" \/ stats # "none")
        BY <1>2 DEF Close, InUse
    <2>7. Capturing' => misused'
        BY <2>1, <2>5, <2>6 DEF flags, threads
    <2>8. undefined' => misused' \/ nflog'
        BY <2>1, <2>5, <2>6
    <2> QED BY <2>2, <2>3, <2>4, <2>7, <2>8
<1>3. CASE GetStatistics
    BY <1>3 DEF GetStatistics, flags, threads, polling
<1>4. CASE Send
    BY <1>4 DEF Send, SendPacket, flags, threads, polling
<1> QED BY <1>1, <1>2, <1>3, <1>4

\* A capture on threads of its own, from the application's side.
LEMMA ThreadedSteps ==
    ASSUME DeviceInv, ~undefined,
           \/ StartCapture \/ CaptureSeen
           \/ StopCapture \/ BreakLoop \/ JoinCapture \/ JoinStats
    PROVE  DeviceInv'
<1> USE DEF DeviceInv, TypeOK, Phases, Descriptors, Capturing, Blocking
<1>1. CASE StartCapture
    BY <1>1 DEF StartCapture, MayStart, handles, flags, polling
<1>2. CASE CaptureSeen
    BY ZenonT(60), <1>2 DEF CaptureSeen, handles, polling
<1>3. CASE StopCapture
    BY <1>3 DEF StopCapture, handles, polling
<1>4. CASE BreakLoop
    BY <1>4 DEF BreakLoop, flags, polling
<1>5. CASE JoinCapture
    BY <1>5 DEF JoinCapture, handles, polling
<1>6. CASE JoinStats
    BY <1>6 DEF JoinStats, handles, polling
<1> QED BY <1>1, <1>2, <1>3, <1>4, <1>5, <1>6

\* A capture on the application's own thread.
LEMMA BlockingSteps ==
    ASSUME DeviceInv, ~undefined,
           StartBlocking \/ BlockTest \/ Poll \/ BlockDispatch \/ BlockFails \/ BlockEnd
    PROVE  DeviceInv'
<1> USE DEF DeviceInv, TypeOK, Phases, Descriptors, Capturing, Blocking
<1>1. CASE StartBlocking
    BY <1>1 DEF StartBlocking, MayStart, handles
<1>2. CASE BlockTest
    BY <1>2 DEF BlockTest, handles, flags, polling
<1>3. CASE Poll
    <2>1. /\ app = "poll" /\ app' \in {"blockTest", "blockDispatch"}
          /\ m_StopThread' \in BOOLEAN /\ (app' = "blockDispatch" => m_StopThread' = m_StopThread)
          /\ UNCHANGED <<handles, m_CaptureThreadStarted, m_StatsThreadStarted,
                         blockingCallback, withStats, capture, stats, breakLoop, polling>>
        BY <1>3 DEF Poll
    <2>2. TypeOK'
        BY <2>1 DEF handles, polling
    <2>3. Phases'
        BY <2>1
    <2>4. Descriptors'
        BY <2>1 DEF handles
    <2> QED BY <2>2, <2>3, <2>4
<1>4. CASE BlockDispatch
    BY <1>4 DEF BlockDispatch, handles, polling
<1>5. CASE BlockFails
    BY <1>5 DEF BlockFails, handles, polling
<1>6. CASE BlockEnd
    BY <1>6 DEF BlockEnd, handles
<1> QED BY <1>1, <1>2, <1>3, <1>4, <1>5, <1>6

\* The threads of the capture.
LEMMA ThreadsSteps ==
    ASSUME DeviceInv, ~undefined, ThreadsNext
    PROVE  DeviceInv'
<1> USE DEF DeviceInv, TypeOK, Phases, Descriptors, Capturing, Blocking
<1>1. CASE CaptureStarts
    BY <1>1 DEF CaptureStarts, handles, polling
<1>2. CASE CaptureTest
    BY <1>2 DEF CaptureTest, flags, polling
<1>3. CASE DispatchReturns
    BY ZenonT(60), <1>3 DEF DispatchReturns, handles, flags, polling
<1>4. CASE DispatchFails
    BY <1>4 DEF DispatchFails, handles, polling
<1>5. CASE StatsTest
    BY <1>5 DEF StatsTest, flags, polling
<1>6. CASE StatsQuery
    BY <1>6 DEF StatsQuery, handles, flags, polling
<1>7. CASE PacketArrives
    BY <1>7 DEF PacketArrives, handles, flags, threads
<1> QED BY <1>1, <1>2, <1>3, <1>4, <1>5, <1>6, <1>7 DEF ThreadsNext

\* The list deletes the device.
LEMMA DeleteStep ==
    ASSUME DeviceInv, ~undefined, DeleteDevice
    PROVE  DeviceInv'
BY ZenonT(60) DEF DeviceInv, TypeOK, Phases, Descriptors, Capturing, Blocking, DeleteDevice, Fresh,
       Unset

------------------------------------------------------------------------------
(* The device among the resets of its list                                 *)

\* Of what the application does with the list only deleting the device it has
\* touches the device.
LEMMA ListMoves ==
    ASSUME [PcapNext]_<<vars, listVars>>
    PROVE  \/ ~undefined /\ (AppNext \/ ThreadsNext \/ DeleteDevice)
           \/ UNCHANGED vars
<1>1. CASE PcapNext
    <2>1. CASE DeviceNext
        BY <1>1, <2>1 DEF PcapNext, DeviceNext
    <2>2. CASE ListNext
        BY <1>1, <2>2 DEF PcapNext, ListNext, Lookup, Clone, DeleteClone, Reset
    <2>3. CASE Change
        BY <2>3 DEF Change
    <2> QED BY <1>1, <2>1, <2>2, <2>3 DEF PcapNext
<1>2. CASE UNCHANGED <<vars, listVars>>
    BY <1>2
<1> QED BY <1>1, <1>2

LEMMA DeviceInvStep ==
    ASSUME DeviceInv, [PcapNext]_<<vars, listVars>>
    PROVE  DeviceInv'
<1>1. CASE ~undefined /\ AppNext
    BY <1>1, HandleSteps, ThreadedSteps, BlockingSteps DEF AppNext
<1>2. CASE ~undefined /\ (ThreadsNext \/ DeleteDevice)
    BY <1>2, ThreadsSteps, DeleteStep
<1>3. CASE UNCHANGED vars
    BY <1>3 DEF DeviceInv, TypeOK, Phases, Descriptors, Capturing, vars, handles, flags,
                threads, polling
<1> QED BY <1>1, <1>2, <1>3, ListMoves

LEMMA DeviceInvariance == PcapSafetySpec => []DeviceInv
<1>1. ListInit => DeviceInv
    BY DeviceInvInit DEF ListInit
<1> QED BY <1>1, DeviceInvStep, PTL DEF PcapSafetySpec

\* PcapLiveDevice.cpp: every member keeps its type, in every order of calls and
\* with every outcome of what libpcap is asked for.
THEOREM DeviceTypeCorrect == PcapSafetySpec => []TypeOK
<1>1. DeviceInv => TypeOK
    BY DEF DeviceInv
<1> QED BY <1>1, DeviceInvariance, PTL

\* startCapture, stopCapture and the destructor: a device that says it is not
\* capturing has no thread, no joinable one either, and the next capture does not
\* begin stopped.
THEOREM QuietDevice == PcapSafetySpec => []QuietWhenInactive
<1>1. DeviceInv => QuietWhenInactive
    BY DEF DeviceInv, TypeOK, Phases, QuietWhenInactive, captureActive, Blocking
<1> QED BY <1>1, DeviceInvariance, PTL

\* open, close, send, getStatistics and the threads: an application that keeps to
\* the order never has libpcap use a descriptor that is not open, but for "nflog".
THEOREM UseIsDefined == PcapSafetySpec => []DefinedUse
<1>1. DeviceInv => DefinedUse
    BY DEF DeviceInv, Descriptors, DefinedUse
<1> QED BY <1>1, DeviceInvariance, PTL

\* Whoever is joined has been broken off, unless it has left its dispatch already.
BrokenOff == app = "joinCapture" /\ capture = "dispatch" => breakLoop # "no"

LEMMA BrokenOffStep ==
    ASSUME DeviceInv, BrokenOff, [PcapNext]_<<vars, listVars>>
    PROVE  BrokenOff'
<1>0. app = "joinCapture" => m_StopThread
    BY DEF DeviceInv, Phases
<1>1. CASE ~undefined /\ AppNext
    <2>1. CASE BreakLoop
        BY <2>1 DEF BreakLoop, BrokenOff
    <2>2. app # "joinCapture" => app' # "joinCapture" \/ BreakLoop
        BY <1>1 DEF AppNext, Open, Close, GetStatistics, Send, StartCapture, CaptureSeen,
                    StartBlocking, BlockTest, Poll, BlockDispatch, BlockFails, BlockEnd,
                    StopCapture, JoinCapture, JoinStats, threads
    <2>3. app = "joinCapture" => JoinCapture
        BY <1>1 DEF AppNext, Open, Close, GetStatistics, Send, StartCapture, CaptureSeen,
                    StartBlocking, BlockTest, Poll, BlockDispatch, BlockFails, BlockEnd,
                    StopCapture, BreakLoop, JoinStats, MayStart
    <2>4. JoinCapture => app' # "joinCapture"
        BY DEF JoinCapture
    <2> QED BY <2>1, <2>2, <2>3, <2>4 DEF BrokenOff
<1>2. CASE ~undefined /\ ThreadsNext
    BY <1>0, <1>2 DEF ThreadsNext, CaptureStarts, CaptureTest, DispatchReturns, DispatchFails,
                      StatsTest, StatsQuery, PacketArrives, BrokenOff, threads
<1>3. CASE ~undefined /\ DeleteDevice
    BY <1>3 DEF DeleteDevice, Fresh, Unset, BrokenOff
<1>4. CASE UNCHANGED vars
    BY <1>4 DEF vars, threads, BrokenOff
<1> QED BY <1>1, <1>2, <1>3, <1>4, ListMoves

\* stopCapture waits for a thread that is there, that will see the flag, and that
\* pcap_breakloop has called out of pcap_dispatch, in every order of calls.
THEOREM StopHeard == PcapSafetySpec => []StopIsHeard
<1>1. ListInit => BrokenOff
    BY DEF ListInit, Init, Unset, BrokenOff
<1>2. DeviceInv /\ BrokenOff => StopIsHeard
    BY DEF DeviceInv, TypeOK, Phases, BrokenOff, StopIsHeard
<1> QED BY <1>1, <1>2, BrokenOffStep, DeviceInvariance, PTL DEF PcapSafetySpec

------------------------------------------------------------------------------
(* The contract of the header                                              *)

Promised == [Contract!ContractNext]_(Contract!contractVars)

LEMMA ContractHandles ==
    ASSUME DeviceInv, ~undefined, Open \/ Close \/ GetStatistics \/ Send \/ DeleteDevice
    PROVE  Promised
<1> USE DEF DeviceInv, TypeOK, Phases, Descriptors, Capturing, Blocking, Promised,
            InStop, Contract!ContractNext, Contract!contractVars, Contract!Quiet
<1>1. CASE Open
    BY <1>1 DEF Open, flags, Contract!OpenDevice, captureActive
<1>2. CASE Close
    BY <1>2 DEF Close, flags, threads, Contract!CloseDevice, captureActive
<1>3. CASE GetStatistics
    BY <1>3 DEF GetStatistics, flags, threads, captureActive
<1>4. CASE Send
    BY <1>4 DEF Send, flags, threads, captureActive
<1>5. CASE DeleteDevice
    BY <1>5 DEF DeleteDevice, Fresh, Contract!CloseDevice, captureActive
<1> QED BY <1>1, <1>2, <1>3, <1>4, <1>5

LEMMA ContractThreaded ==
    ASSUME DeviceInv, ~undefined,
           \/ StartCapture \/ CaptureSeen
           \/ StopCapture \/ BreakLoop \/ JoinCapture \/ JoinStats
    PROVE  Promised
<1> USE DEF DeviceInv, TypeOK, Phases, Descriptors, Capturing, Blocking, Promised,
            InStop, Contract!ContractNext, Contract!contractVars, Contract!Quiet, captureActive
<1>1. CASE StartCapture
    BY <1>1 DEF StartCapture, MayStart, handles, flags, Contract!BeginCapture
<1>2. CASE CaptureSeen
    BY <1>2 DEF CaptureSeen, handles, Contract!BeginStatistics
<1>3. CASE StopCapture
    BY <1>3 DEF StopCapture, handles, Contract!StopCapture
<1>4. CASE BreakLoop
    BY <1>4 DEF BreakLoop, flags
<1>5. CASE JoinCapture
    <2>1. Contract!ShowInactive
        BY <1>5 DEF JoinCapture, handles, Contract!ShowInactive
    <2> QED BY <2>1
<1>6. CASE JoinStats
    <2>1. app = "stopStats" /\ capture = "none" /\ ~m_CaptureThreadStarted
        BY <1>6 DEF JoinStats
    <2>2. stats \notin {"test", "query"} /\ stats' \notin {"test", "query"}
        BY <1>6 DEF JoinStats
    <2>3. Contract!Stopped
        BY <1>6, <2>1, <2>2 DEF JoinStats, handles, Contract!Stopped
    <2> QED BY <2>3
<1> QED BY <1>1, <1>2, <1>3, <1>4, <1>5, <1>6

LEMMA ContractBlocking ==
    ASSUME DeviceInv, ~undefined,
           StartBlocking \/ BlockTest \/ Poll \/ BlockDispatch \/ BlockFails \/ BlockEnd
    PROVE  Promised
<1> USE DEF DeviceInv, TypeOK, Phases, Descriptors, Capturing, Blocking, Promised,
            InStop, Contract!ContractNext, Contract!contractVars, Contract!Quiet, captureActive
<1>1. CASE StartBlocking
    <2>1. /\ app = "idle" /\ m_DeviceOpened /\ ~m_CaptureThreadStarted /\ app' = "blockTest"
          /\ capture = "none" /\ stats = "none" /\ ~m_StopThread
        BY <1>1 DEF StartBlocking, MayStart
    <2>2. m_StopThread = FALSE /\ m_StopThread' = FALSE
        BY <1>1, <2>1 DEF StartBlocking
    <2>3. /\ app' \in Blocking /\ app \notin Blocking /\ app' \notin InStop /\ app \notin InStop
          /\ capture \notin {"starting", "test", "dispatch"} /\ stats' = stats
          /\ m_CaptureThreadStarted' = TRUE
          /\ UNCHANGED handles
        BY <1>1, <2>1 DEF StartBlocking
    <2>4. Contract!Quiet
        BY <2>1, <2>2, <2>3
    <2>5. UNCHANGED <<m_DeviceOpened, misused, undefined>>
        BY <2>3 DEF handles
    <2> HIDE DEF DeviceInv, TypeOK, Phases, Descriptors, Capturing, Blocking, InStop
    <2>6. UNCHANGED <<stats \in {"test", "query"}, m_StopThread, app \in InStop>>
        <3>1. (stats \in {"test", "query"})' = (stats \in {"test", "query"})
            BY <2>3
        <3>2. (app \in InStop)' = (app \in InStop)
            BY <2>3
        <3> QED BY <2>2, <3>1, <3>2
    <2>7. Contract!BeginBlocking
        BY SMT, <2>1, <2>3, <2>4, <2>5, <2>6 DEF Contract!BeginBlocking
    <2> QED BY <2>7
<1>2. CASE BlockTest
    BY <1>2 DEF BlockTest, handles, flags
<1>3. CASE Poll \/ BlockDispatch \/ BlockFails
    <2>1. /\ app \in Blocking /\ app' \in Blocking /\ m_CaptureThreadStarted' = m_CaptureThreadStarted
          /\ UNCHANGED <<handles, capture, stats>> /\ app \notin InStop /\ app' \notin InStop
        BY <1>3 DEF Poll, BlockDispatch, BlockFails
    <2>2. m_StopThread' = TRUE \/ m_StopThread' = m_StopThread
        BY <1>3 DEF Poll, BlockDispatch, BlockFails
    <2>3. CASE m_StopThread' = TRUE
        <3>1. Contract!BreakOff
            BY <2>1, <2>3 DEF handles, Contract!BreakOff
        <3> QED BY <3>1
    <2>4. CASE m_StopThread' = m_StopThread
        BY <2>1, <2>4 DEF handles
    <2> QED BY <2>2, <2>3, <2>4
<1>4. CASE BlockEnd
    BY <1>4 DEF BlockEnd, handles, Contract!EndBlocking
<1> QED BY <1>1, <1>2, <1>3, <1>4

LEMMA ContractThreads ==
    ASSUME DeviceInv, ~undefined, ThreadsNext
    PROVE  Promised
<1> USE DEF DeviceInv, TypeOK, Phases, Descriptors, Capturing, Blocking, Promised,
            InStop, Contract!ContractNext, Contract!contractVars, Contract!Quiet, captureActive
<1>1. CASE CaptureStarts
    BY <1>1 DEF CaptureStarts, handles, Contract!ShowActive
<1>2. CASE CaptureTest \/ StatsTest
    BY <1>2 DEF CaptureTest, StatsTest, flags, Contract!EndCapture, Contract!EndStatistics
<1>3. CASE DispatchReturns \/ DispatchFails
    BY <1>3 DEF DispatchReturns, DispatchFails, handles, flags, Contract!BreakOff
<1>4. CASE StatsQuery
    BY <1>4 DEF StatsQuery, handles, flags
<1>5. CASE PacketArrives
    BY <1>5 DEF PacketArrives, handles, flags, threads
<1> QED BY <1>1, <1>2, <1>3, <1>4, <1>5 DEF ThreadsNext

LEMMA ContractStep ==
    ASSUME DeviceInv, [PcapNext]_<<vars, listVars>>
    PROVE  Promised
<1>1. CASE ~undefined /\ AppNext
    BY <1>1, ContractHandles, ContractThreaded, ContractBlocking DEF AppNext
<1>2. CASE ~undefined /\ (ThreadsNext \/ DeleteDevice)
    BY <1>2, ContractThreads, ContractHandles
<1>3. CASE UNCHANGED vars
    BY <1>3 DEF Promised, Contract!contractVars, vars, handles, flags, threads, captureActive,
                InStop
<1> QED BY <1>1, <1>2, <1>3, ListMoves

\* PcapLiveDevice.cpp keeps LiveDeviceContract, also when the list deletes the device:
\* one capture at a time, of which nothing is left when a stop returns, and which stays
\* active, although its thread has ended, when a dispatch has failed.
THEOREM DeviceRefinement == PcapSafetySpec => ImplementsContract
<1>1. ListInit => Contract!ContractInit
    BY DEF ListInit, Init, Contract!ContractInit, Contract!Quiet, captureActive, Blocking, InStop
<1>2. DeviceInv /\ [PcapNext]_<<vars, listVars>> =>
          [Contract!ContractNext]_(Contract!contractVars)
    BY ContractStep DEF Promised
<1> QED BY <1>1, <1>2, DeviceInvariance, PTL
        DEF PcapSafetySpec, ImplementsContract, Contract!ContractSpec

------------------------------------------------------------------------------
(* What a fetch finds                                                      *)

\* A sequence of the servers that differ from one another and are valid, of the
\* first n.
ServersUpTo(servers, n) ==
    {s \in Seq(ToSet(servers)) :
        /\ IsInjective(s)
        /\ ToSet(s) \subseteq {servers[i] : i \in 1..n} \ {NoAddress}}

\* One more server is left out, or added if it is valid: no other is the same.
LEMMA OneMoreServer ==
    ASSUME NEW servers, IsSequence(servers), IsInjective(servers), NEW n \in 1..Len(servers),
           NEW known \in ServersUpTo(servers, n - 1), NEW s,
           s = known \/ (servers[n] # NoAddress /\ s = Append(known, servers[n]))
    PROVE  s \in ServersUpTo(servers, n)
<1> DEFINE V == ToSet(servers)
           First(k) == {servers[i] : i \in 1..k}
<1>1. servers \in Seq(V)
    BY DEF IsSequence
<1>2. Len(servers) \in Nat /\ n \in DOMAIN servers /\ servers[n] \in V
    BY <1>1 DEF ToSet
<1>3. known \in Seq(V) /\ IsInjective(known) /\ ToSet(known) \subseteq First(n - 1) \ {NoAddress}
    BY DEF ServersUpTo
<1>4. First(n - 1) \subseteq First(n) /\ servers[n] \in First(n)
    OBVIOUS
<1>5. CASE s = known
    BY <1>3, <1>4, <1>5 DEF ServersUpTo
<1>6. CASE servers[n] # NoAddress /\ s = Append(known, servers[n])
    <2>1. servers[n] \notin First(n - 1)
        BY <1>1 DEF IsInjective
    <2>2. s \in Seq(V) /\ Len(s) = Len(known) + 1
        BY <1>2, <1>3, <1>6, AppendProperties
    <2>3. \A i \in 1..Len(s) :
              s[i] = IF i = Len(s) THEN servers[n] ELSE known[i]
        BY <1>2, <1>3, <1>6, <2>2, AppendProperties
    <2>4. DOMAIN s = 1..Len(s) /\ DOMAIN known = 1..Len(known) /\ Len(known) \in Nat
        BY <1>3, <2>2
    <2>5. \A i \in DOMAIN known : known[i] \in First(n - 1) /\ known[i] # NoAddress
        BY <1>3 DEF ToSet
    <2>6. \A i \in DOMAIN s : i = Len(s) \/ i \in DOMAIN known
        BY <2>2, <2>4
    <2>7. \A i \in DOMAIN s : s[i] \in First(n) \ {NoAddress}
        BY <1>4, <1>6, <2>3, <2>4, <2>5, <2>6
    <2>8. IsInjective(s)
        <3>1. ASSUME NEW i \in DOMAIN s, NEW j \in DOMAIN s, s[i] = s[j] PROVE i = j
            <4>1. CASE i = Len(s) \/ j = Len(s)
                BY <2>1, <2>3, <2>4, <2>5, <2>6, <3>1, <4>1
            <4>2. CASE i # Len(s) /\ j # Len(s)
                BY <1>3, <2>3, <2>4, <2>6, <3>1, <4>2 DEF IsInjective
            <4> QED BY <4>1, <4>2
        <3> QED BY <3>1 DEF IsInjective
    <2>9. ToSet(s) \subseteq First(n) \ {NoAddress}
        BY <2>7 DEF ToSet
    <2> QED BY <2>2, <2>8, <2>9 DEF ServersUpTo
<1> QED BY <1>5, <1>6

\* The two ways to take servers in, as steps.
PushServer(acc, s) == IF s = NoAddress THEN acc ELSE Append(acc, s)
AddServer(acc, s) ==
    IF s = NoAddress \/ Contains(acc, s) THEN acc ELSE Append(acc, s)

\* Whatever takes each server in or leaves it out keeps the valid ones, once.
LEMMA ServersFolded ==
    ASSUME NEW servers, IsSequence(servers), IsInjective(servers),
           NEW iter, iter[{}] = << >>,
           \A n \in 1..Len(servers) :
               \/ iter[1..n] = iter[1..n - 1]
               \/ /\ servers[n] # NoAddress
                  /\ iter[1..n] = Append(iter[1..n - 1], servers[n])
    PROVE  iter[1..Len(servers)] \in ServersUpTo(servers, Len(servers))
<1> DEFINE N == Len(servers)
           T == {n \in 0..N : iter[1..n] \in ServersUpTo(servers, n)}
<1>1. N \in Nat
    BY DEF IsSequence
<1>2. 0 \in T
    <2>1. << >> \in ServersUpTo(servers, 0)
        BY DEF ServersUpTo, IsInjective, ToSet
    <2>2. iter[1..0] = << >>
        <3>1. 1..0 = {}
            OBVIOUS
        <3> QED BY <3>1
    <2> QED BY <1>1, <2>1, <2>2
<1>3. ASSUME NEW n \in 1..N, n - 1 \in T PROVE n \in T
    <2>1. iter[1..n] \in ServersUpTo(servers, n)
        BY <1>3, OneMoreServer
    <2> QED BY <1>1, <2>1
<1>4. \A n \in 0..N : n \in T
    <2> HIDE DEF T, N
    <2> QED BY <1>1, <1>2, <1>3, InductionUpTo
<1> QED BY <1>1, <1>4

\* The equations that define the two folds.
PushFold(iter, servers) ==
    iter = [s \in SUBSET (DOMAIN servers) |->
               IF s = {} THEN << >>
               ELSE PushServer(iter[s \ {Max(s)}], servers[Max(s)])]
AddFold(iter, servers) ==
    iter = [s \in SUBSET (DOMAIN servers) |->
               IF s = {} THEN << >>
               ELSE AddServer(iter[s \ {Max(s)}], servers[Max(s)])]

LEMMA ServerFoldsExist ==
    ASSUME NEW servers, IsSequence(servers)
    PROVE  (\E iter : PushFold(iter, servers)) /\ (\E iter : AddFold(iter, servers))
<1> DEFINE N == Len(servers)
           D == Seq(ToSet(servers))
           push == [n \in 1..N |-> [acc \in D |-> PushServer(acc, servers[n])]]
           add == [n \in 1..N |-> [acc \in D |-> AddServer(acc, servers[n])]]
<1>1. N \in Nat /\ DOMAIN servers = 1..N /\ << >> \in D
    BY DEF IsSequence
<1>2. ASSUME NEW n \in 1..N, NEW acc \in D
      PROVE  PushServer(acc, servers[n]) \in D /\ AddServer(acc, servers[n]) \in D
    <2>1. servers[n] \in ToSet(servers)
        BY <1>1 DEF ToSet
    <2> QED BY <2>1, AppendProperties DEF PushServer, AddServer
<1>3. push \in [1..N -> [D -> D]] /\ add \in [1..N -> [D -> D]]
    <2> HIDE DEF D, N
    <2> QED BY <1>2
<1>4. \A s \in SUBSET (1..N) : s # {} => Max(s) \in 1..N /\ s \ {Max(s)} \in SUBSET (1..N)
    BY <1>1, GreatestPosition
<1>5. \E iter : PushFold(iter, servers)
    <2>1. PICK iter \in [SUBSET (1..N) -> D] : FoldsBy(iter, << >>, push, N)
        <3> HIDE DEF D, N, push
        <3> QED BY <1>1, <1>3, FoldExists
    <2>2. ASSUME NEW s \in SUBSET (1..N)
          PROVE  iter[s] = IF s = {} THEN << >>
                           ELSE PushServer(iter[s \ {Max(s)}], servers[Max(s)])
        <3>1. CASE s = {}
            BY <2>1, <3>1 DEF FoldsBy
        <3>2. CASE s # {}
            <4>1. iter[s] = push[Max(s)][iter[s \ {Max(s)}]]
                <5> HIDE DEF D, N, push
                <5> QED BY <2>1, <3>2 DEF FoldsBy
            <4>2. Max(s) \in 1..N /\ iter[s \ {Max(s)}] \in D
                <5> HIDE DEF D, N
                <5> QED BY <1>4, <3>2
            <4> HIDE DEF D, N
            <4> QED BY <3>2, <4>1, <4>2
        <3> QED BY <3>1, <3>2
    <2>3. iter = [s \in SUBSET (1..N) |->
                     IF s = {} THEN << >>
                     ELSE PushServer(iter[s \ {Max(s)}], servers[Max(s)])]
        <3> HIDE DEF D, N
        <3> QED BY <2>2
    <2> QED BY <1>1, <2>3 DEF PushFold
<1>6. \E iter : AddFold(iter, servers)
    <2>1. PICK iter \in [SUBSET (1..N) -> D] : FoldsBy(iter, << >>, add, N)
        <3> HIDE DEF D, N, add
        <3> QED BY <1>1, <1>3, FoldExists
    <2>2. ASSUME NEW s \in SUBSET (1..N)
          PROVE  iter[s] = IF s = {} THEN << >>
                           ELSE AddServer(iter[s \ {Max(s)}], servers[Max(s)])
        <3>1. CASE s = {}
            BY <2>1, <3>1 DEF FoldsBy
        <3>2. CASE s # {}
            <4>1. iter[s] = add[Max(s)][iter[s \ {Max(s)}]]
                <5> HIDE DEF D, N, add
                <5> QED BY <2>1, <3>2 DEF FoldsBy
            <4>2. Max(s) \in 1..N /\ iter[s \ {Max(s)}] \in D
                <5> HIDE DEF D, N
                <5> QED BY <1>4, <3>2
            <4> HIDE DEF D, N
            <4> QED BY <3>2, <4>1, <4>2
        <3> QED BY <3>1, <3>2
    <2>3. iter = [s \in SUBSET (1..N) |->
                     IF s = {} THEN << >>
                     ELSE AddServer(iter[s \ {Max(s)}], servers[Max(s)])]
        <3> HIDE DEF D, N
        <3> QED BY <2>2
    <2> QED BY <1>1, <2>3 DEF AddFold
<1> QED BY <1>5, <1>6

\* setDnsServers: each valid server once, whichever way they are taken in.
LEMMA FetchedServers ==
    ASSUME NEW servers, IsSequence(servers), IsInjective(servers),
           NEW found \in SetDnsServers(<< >>, servers)
    PROVE  IsInjective(found) /\ ToSet(found) \subseteq ToSet(servers) \ {NoAddress}
<1> DEFINE N == Len(servers)
<1>1. N \in Nat /\ DOMAIN servers = 1..N
    BY DEF IsSequence
<1>2. {servers[i] : i \in 1..N} = ToSet(servers)
    BY <1>1 DEF ToSet
<1>3. ASSUME NEW iter, PushFold(iter, servers) \/ AddFold(iter, servers)
      PROVE  iter[1..N] \in ServersUpTo(servers, N)
    <2>1. iter[{}] = << >>
        BY <1>3 DEF PushFold, AddFold
    <2>2. ASSUME NEW n \in 1..N
          PROVE  \/ iter[1..n] = iter[1..n - 1]
                 \/ servers[n] # NoAddress /\ iter[1..n] = Append(iter[1..n - 1], servers[n])
        <3>1. /\ 1..n \in SUBSET (1..N) /\ 1..n # {}
              /\ Max(1..n) = n /\ (1..n) \ {n} = 1..(n - 1)
            BY <1>1, FirstPositions
        <3>2. \/ iter[1..n] = PushServer(iter[1..n - 1], servers[n])
              \/ iter[1..n] = AddServer(iter[1..n - 1], servers[n])
            BY <1>1, <1>3, <3>1 DEF PushFold, AddFold
        <3> QED BY <3>2 DEF PushServer, AddServer
    <2> QED BY <2>1, <2>2, ServersFolded
<1>4. CASE found = PushDnsServers(<< >>, servers)
    <2>1. PICK iter : PushFold(iter, servers) /\ found = iter[DOMAIN servers]
        BY <1>4, ServerFoldsExist
           DEF PushFold, PushServer, PushDnsServers, FoldLeft, MapThenFoldSet
    <2> QED BY <1>1, <1>2, <1>3, <2>1 DEF ServersUpTo
<1>5. CASE found = AddDnsServers(<< >>, servers)
    <2>1. PICK iter : AddFold(iter, servers) /\ found = iter[DOMAIN servers]
        BY <1>5, ServerFoldsExist
           DEF AddFold, AddServer, AddDnsServers, FoldLeft, MapThenFoldSet
    <2> QED BY <1>1, <1>2, <1>3, <2>1 DEF ServersUpTo
<1>6. CASE found = << >>
    BY <1>6 DEF IsInjective, ToSet
<1> QED BY <1>4, <1>5, <1>6 DEF SetDnsServers

------------------------------------------------------------------------------
(* Devices and how they are looked up                                      *)

\* The constructor: the gateway is that of the route the system's way of reading
\* them leaves.
LEMMA GatewayFound ==
    ASSUME NEW m, IsSequence(m.routes), NEW name, NEW answers,
           DefaultGateway(name, m, answers) # NoAddress
    PROVE  IsKeptGateway(DefaultGateway(name, m, answers), name, m)
<1> DEFINE found == {i \in 1..Len(m.routes) : m.routes[i].interface = name}
           kept == IF OnLinux THEN Max(found) ELSE Min(found)
<1>1. Len(m.routes) \in Nat
    BY DEF IsSequence
<1>2. found # {} /\ DefaultGateway(name, m, answers) = m.routes[kept].gateway
    BY DEF DefaultGateway
<1>3. kept \in found /\ \A j \in found : IF OnLinux THEN j <= kept ELSE kept <= j
    <2>1. found \in SUBSET (1..Len(m.routes))
        OBVIOUS
    <2> HIDE DEF found
    <2> QED BY <1>1, <1>2, <2>1, GreatestPosition, LeastPosition
<1>4. \A j \in 1..Len(m.routes) : m.routes[j].interface = name <=> j \in found
    OBVIOUS
<1>5. kept \in 1..Len(m.routes) /\ m.routes[kept].interface = name
    BY <1>3
<1> HIDE DEF found, kept
<1> QED BY <1>2, <1>3, <1>4, <1>5 DEF IsKeptGateway

\* initDeviceList: the devices are those of the interfaces, in order.
LEMMA ListedDevices ==
    ASSUME NEW m \in Machines, NEW number, NEW list \in Devices(<< >>, m, number),
           list # << >>
    PROVE  /\ Len(list) \in Nat /\ Len(list) = Len(m.interfaces)
           /\ DOMAIN list = 1..Len(list)
           /\ \A i \in 1..Len(list) :
                  /\ m.interfaces[i] \in ToSet(m.interfaces)
                  /\ list[i].name = m.interfaces[i].name
                  /\ list[i].addresses = m.interfaces[i].addresses
                  /\ list[i].made = number
                  /\ list[i].gateway # NoAddress =>
                         IsKeptGateway(list[i].gateway, list[i].name, m)
<1> DEFINE N == Len(m.interfaces)
           Made(answers) ==
               [i \in 1..N |-> PcapLiveDevice(m.interfaces[i], m, answers, number)]
<1>1. /\ IsSequence(m.interfaces) /\ IsSequence(m.routes)
      /\ N \in Nat /\ DOMAIN m.interfaces = 1..N
    <2>1. IsSequence(m.interfaces) /\ IsSequence(m.routes)
        BY ListAssumption
    <2> QED BY <2>1 DEF IsSequence
<1>2. PICK answers \in BOOLEAN : list = << >> \o Made(answers)
    BY DEF Devices
<1>3. list = Made(answers)
    <2> DEFINE V == {PcapLiveDevice(m.interfaces[i], m, answers, number) : i \in 1..N}
    <2>1. Made(answers) \in Seq(V)
        BY <1>1
    <2> HIDE DEF Made, V
    <2> QED BY <1>2, <2>1, ConcatEmptySeq
<1>4. Len(list) = N /\ DOMAIN list = 1..N
    BY <1>1, <1>3
<1>5. ASSUME NEW i \in 1..N
      PROVE  /\ m.interfaces[i] \in ToSet(m.interfaces)
             /\ list[i] = PcapLiveDevice(m.interfaces[i], m, answers, number)
    BY <1>1, <1>3 DEF ToSet
<1>6. ASSUME NEW i \in 1..N
      PROVE  /\ list[i].name = m.interfaces[i].name
             /\ list[i].addresses = m.interfaces[i].addresses
             /\ list[i].made = number
             /\ list[i].gateway = DefaultGateway(m.interfaces[i].name, m, answers)
    <2> DEFINE interface == m.interfaces[i]
               gateway == DefaultGateway(interface.name, m, answers)
               mac == MacAddress(interface.name, answers)
    <2>1. list[i] = [name |-> interface.name, addresses |-> interface.addresses,
                     gateway |-> gateway, mac |-> mac, made |-> number]
        BY <1>5, Zenon DEF PcapLiveDevice
    <2> HIDE DEF gateway, mac, interface
    <2>2. /\ list[i].name = interface.name /\ list[i].addresses = interface.addresses
          /\ list[i].made = number /\ list[i].gateway = gateway
        BY <2>1
    <2> QED BY <2>2 DEF gateway, interface
<1> QED BY <1>1, <1>4, <1>5, <1>6, GatewayFound

\* What a query asks of a device.
Fits(q, d) ==
    IF q.family \in {"v4", "v6"}
    THEN [family |-> q.family, value |-> q.value] \in ToSet(d.addresses)
    ELSE d.name = q.value

\* getDeviceByIpOrName and getDeviceByIp of a string: the first device that fits.
LEMMA FirstFits ==
    ASSUME NEW list, Len(list) \in Nat, NEW q, NEW at,
           \/ at = ByIpOrName(list, q)
           \/ q.family \in {"v4", "v6"} /\ at = ByIpString(list, q)
    PROVE  /\ at # 0 => at \in 1..Len(list) /\ Fits(q, list[at])
           /\ \A i \in 1..Len(list) : Fits(q, list[i]) => at # 0 /\ at <= i
<1> DEFINE found == {i \in 1..Len(list) : Fits(q, list[i])}
<1>1. at = IF found = {} THEN 0 ELSE Min(found)
    BY DEF ByIpOrName, ByIpString, ByIp, ByIpv4, ByIpv6, ByName, Position, Fits
<1>2. CASE found = {}
    BY <1>1, <1>2
<1>3. CASE found # {}
    <2>1. Min(found) \in found /\ \A i \in found : Min(found) <= i
        <3>1. found \in SUBSET (1..Len(list))
            OBVIOUS
        <3> HIDE DEF found
        <3> QED BY <1>3, <3>1, LeastPosition
    <2>2. at \in found /\ \A i \in found : at <= i
        BY <1>1, <1>3, <2>1
    <2>3. \A i \in 1..Len(list) : Fits(q, list[i]) <=> i \in found
        OBVIOUS
    <2>4. at \in 1..Len(list) /\ Fits(q, list[at]) /\ at # 0
        BY <2>2
    <2> HIDE DEF found
    <2> QED BY <2>2, <2>3, <2>4
<1> QED BY <1>2, <1>3

\* getIPv4Address and getIPv6Address: one of the device's own.
LEMMA OwnAddress ==
    ASSUME NEW d, IsSequence(d.addresses), \A a \in ToSet(d.addresses) : IsAddress(a),
           NEW family, FirstAddress(d, family) # NoAddress
    PROVE  [family |-> family, value |-> FirstAddress(d, family)] \in ToSet(d.addresses)
<1> DEFINE found == {i \in 1..Len(d.addresses) : d.addresses[i].family = family}
<1>1. Len(d.addresses) \in Nat /\ DOMAIN d.addresses = 1..Len(d.addresses)
    BY DEF IsSequence
<1>2. found # {} /\ FirstAddress(d, family) = d.addresses[Min(found)].value
    BY DEF FirstAddress
<1>3. Min(found) \in found
    <2>1. found \in SUBSET (1..Len(d.addresses))
        OBVIOUS
    <2> HIDE DEF found
    <2> QED BY <1>1, <1>2, <2>1, LeastPosition
<1>4. d.addresses[Min(found)] \in ToSet(d.addresses) /\ d.addresses[Min(found)].family = family
    BY <1>1, <1>3 DEF ToSet
<1> QED BY <1>2, <1>4 DEF IsAddress

\* The list is what one fetch of one machine finds.
ListInv ==
    /\ machine \in Machines /\ fetched \in Machines
    /\ m_LiveDeviceList \in Devices(<< >>, fetched, deleted)
    /\ m_DnsServers \in SetDnsServers(<< >>, fetched.servers)

LEMMA ListInvOneFetch == ListInv => ListIsOneFetch
<1> SUFFICES ASSUME ListInv PROVE ListIsOneFetch
    OBVIOUS
<1> DEFINE list == m_LiveDeviceList
<1>1. fetched \in Machines /\ list \in Devices(<< >>, fetched, deleted)
    BY DEF ListInv
<1>2. ASSUME NEW d \in ToSet(list)
      PROVE  /\ d.made = deleted
             /\ d.gateway # NoAddress => IsKeptGateway(d.gateway, d.name, fetched)
    <2>1. list # << >>
        BY <1>2 DEF ToSet
    <2>2. DOMAIN list = 1..Len(list)
        BY <1>1, <2>1, ListedDevices
    <2>3. PICK i \in 1..Len(list) : d = list[i]
        BY <2>2 DEF ToSet
    <2> HIDE DEF list
    <2> QED BY <1>1, <2>1, <2>3, ListedDevices
<1>3. ASSUME list # << >>
      PROVE  /\ Len(list) = Len(fetched.interfaces)
             /\ \A q \in Queries :
                    LET at == ByIpOrName(list, q) IN
                    /\ at # 0 => /\ Wanted(q, fetched.interfaces[at])
                                 /\ list[at].name = fetched.interfaces[at].name
                    /\ \A i \in 1..Len(list) :
                           Wanted(q, fetched.interfaces[i]) => at # 0 /\ at <= i
             /\ \A i \in 1..Len(list), family \in {"v4", "v6"} :
                    LET address == [family |-> family, value |-> FirstAddress(list[i], family)]
                    IN  address.value # NoAddress => ByIpString(list, address) \in 1..i
    <2> HIDE DEF list
    <2>1. Len(list) \in Nat /\ Len(list) = Len(fetched.interfaces)
        BY <1>1, <1>3, ListedDevices
    <2>2. ASSUME NEW i \in 1..Len(list)
          PROVE  /\ fetched.interfaces[i] \in ToSet(fetched.interfaces)
                 /\ list[i].name = fetched.interfaces[i].name
                 /\ list[i].addresses = fetched.interfaces[i].addresses
        BY <1>1, <1>3, ListedDevices
    <2>3. ASSUME NEW q \in Queries
          PROVE  LET at == ByIpOrName(list, q) IN
                 /\ at # 0 => /\ Wanted(q, fetched.interfaces[at])
                              /\ list[at].name = fetched.interfaces[at].name
                 /\ \A i \in 1..Len(list) :
                        Wanted(q, fetched.interfaces[i]) => at # 0 /\ at <= i
        <3> DEFINE at == ByIpOrName(list, q)
        <3>1. IsAddress(q)
            BY ListAssumption
        <3>2. \A i \in 1..Len(list) : Wanted(q, fetched.interfaces[i]) <=> Fits(q, list[i])
            BY <2>2, <3>1 DEF Wanted, Fits, IsAddress
        <3>3. /\ at # 0 => at \in 1..Len(list) /\ Fits(q, list[at])
              /\ \A i \in 1..Len(list) : Fits(q, list[i]) => at # 0 /\ at <= i
            BY <2>1, FirstFits
        <3> HIDE DEF at
        <3>4. /\ at # 0 => /\ Wanted(q, fetched.interfaces[at])
                           /\ list[at].name = fetched.interfaces[at].name
              /\ \A i \in 1..Len(list) :
                     Wanted(q, fetched.interfaces[i]) => at # 0 /\ at <= i
            BY <2>2, <3>2, <3>3
        <3> QED BY <3>4 DEF at
    <2>4. ASSUME NEW i \in 1..Len(list), NEW family \in {"v4", "v6"},
                 FirstAddress(list[i], family) # NoAddress
          PROVE  ByIpString(list, [family |-> family, value |-> FirstAddress(list[i], family)])
                     \in 1..i
        <3> DEFINE q == [family |-> family, value |-> FirstAddress(list[i], family)]
                   at == ByIpString(list, q)
        <3>1. IsSequence(list[i].addresses) /\ \A a \in ToSet(list[i].addresses) : IsAddress(a)
            BY <1>1, <2>2, ListAssumption
        <3>2. q \in ToSet(list[i].addresses)
            BY <2>4, <3>1, OwnAddress
        <3>3. Fits(q, list[i]) /\ q.family \in {"v4", "v6"}
            BY <3>2 DEF Fits
        <3>4. at # 0 => at \in 1..Len(list)
            BY <2>1, <3>3, FirstFits
        <3>5. at # 0 /\ at <= i
            BY <2>1, <3>3, FirstFits
        <3> HIDE DEF at
        <3>6. at \in 1..i
            BY <2>1, <3>4, <3>5
        <3> QED BY <3>6 DEF at
    <2> QED BY <2>1, <2>3, <2>4
<1>4. IsInjective(m_DnsServers) /\ ToSet(m_DnsServers) \subseteq ToSet(fetched.servers) \ {NoAddress}
    BY FetchedServers, ListAssumption DEF ListInv
<1> QED BY <1>2, <1>3, <1>4 DEF ListIsOneFetch

LEMMA ListInvStep ==
    ASSUME ListInv, [PcapNext]_<<vars, listVars>>
    PROVE  ListInv'
<1>1. CASE Reset
    BY <1>1 DEF Reset, ListInv
<1>2. CASE Lookup \/ Clone \/ DeleteClone
    BY <1>2 DEF Lookup, Clone, DeleteClone, listed, ListInv
<1>3. CASE Change
    BY <1>3 DEF Change, ListInv
<1>4. CASE DeviceNext \/ UNCHANGED <<vars, listVars>>
    BY <1>4 DEF DeviceNext, listVars, ListInv
<1> QED BY <1>1, <1>2, <1>3, <1>4 DEF PcapNext, ListNext

\* PcapLiveDeviceList.cpp: whatever was changed and reset before, the devices, what
\* a query is answered with and the name servers are those of one fetch.
THEOREM OneFetch == PcapSafetySpec => []ListIsOneFetch
<1>1. ListInit => ListInv
    BY DEF ListInit, ListInv
<1> QED BY <1>1, ListInvStep, ListInvOneFetch, PTL DEF PcapSafetySpec

------------------------------------------------------------------------------
(* The core masks                                                          *)

\* The equation that defines the fold of Or.
OrFold(iter, masks) ==
    iter = [s \in SUBSET (DOMAIN masks) |->
               IF s = {} THEN {} ELSE iter[s \ {Max(s)}] \union masks[Max(s)]]

LEMMA OrFoldExists ==
    ASSUME NEW masks \in Seq(SUBSET CoreIds)
    PROVE  \E iter : OrFold(iter, masks)
<1> DEFINE N == Len(masks)
           D == SUBSET CoreIds
           step == [n \in 1..N |-> [result \in D |-> result \union masks[n]]]
<1>1. N \in Nat /\ DOMAIN masks = 1..N /\ {} \in D
    OBVIOUS
<1>2. step \in [1..N -> [D -> D]]
    <2>1. \A n \in 1..N, result \in D : result \union masks[n] \in D
        OBVIOUS
    <2> HIDE DEF D, N
    <2> QED BY <2>1
<1>3. \A s \in SUBSET (1..N) : s # {} => Max(s) \in 1..N /\ s \ {Max(s)} \in SUBSET (1..N)
    BY <1>1, GreatestPosition
<1>4. PICK iter \in [SUBSET (1..N) -> D] : FoldsBy(iter, {}, step, N)
    <2> HIDE DEF D, N, step
    <2> QED BY <1>1, <1>2, FoldExists
<1>5. ASSUME NEW s \in SUBSET (1..N)
      PROVE  iter[s] = IF s = {} THEN {} ELSE iter[s \ {Max(s)}] \union masks[Max(s)]
    <2>1. CASE s = {}
        BY <1>4, <2>1 DEF FoldsBy
    <2>2. CASE s # {}
        <3>1. iter[s] = step[Max(s)][iter[s \ {Max(s)}]]
            <4> HIDE DEF D, N, step
            <4> QED BY <1>4, <2>2 DEF FoldsBy
        <3>2. Max(s) \in 1..N /\ iter[s \ {Max(s)}] \in D
            <4> HIDE DEF D, N
            <4> QED BY <1>3, <2>2
        <3> HIDE DEF D, N
        <3> QED BY <2>2, <3>1, <3>2
    <2> QED BY <2>1, <2>2
<1>6. iter = [s \in SUBSET (1..N) |->
                 IF s = {} THEN {} ELSE iter[s \ {Max(s)}] \union masks[Max(s)]]
    <2> HIDE DEF D, N
    <2> QED BY <1>5
<1> QED BY <1>1, <1>6 DEF OrFold

\* |= over masks: a bit is set if one of them sets it.
LEMMA OrIsUnion ==
    ASSUME NEW masks \in Seq(SUBSET CoreIds)
    PROVE  Or(masks) = UNION {masks[i] : i \in 1..Len(masks)}
<1> DEFINE N == Len(masks)
           First(n) == UNION {masks[i] : i \in 1..n}
<1>1. N \in Nat /\ DOMAIN masks = 1..N
    OBVIOUS
<1>2. PICK iter : OrFold(iter, masks) /\ Or(masks) = iter[DOMAIN masks]
    BY OrFoldExists DEF OrFold, Or, FoldLeft, MapThenFoldSet
<1> DEFINE T == {n \in 0..N : iter[1..n] = First(n)}
<1>3. 0 \in T
    <2>1. 1..0 = {} /\ 0 \in 0..N
        BY <1>1
    <2>2. iter[{}] = {}
        BY <1>2 DEF OrFold
    <2> QED BY <2>1, <2>2
<1>4. ASSUME NEW n \in 1..N, n - 1 \in T PROVE n \in T
    <2>1. /\ 1..n \in SUBSET (1..N) /\ 1..n # {}
          /\ Max(1..n) = n /\ (1..n) \ {n} = 1..(n - 1)
        BY <1>1, FirstPositions
    <2>2. iter[1..n] = iter[1..n - 1] \union masks[n]
        BY <1>1, <1>2, <2>1 DEF OrFold
    <2>3. First(n) = First(n - 1) \union masks[n]
        <3>1. \A i : i \in 1..n <=> i \in 1..(n - 1) \/ i = n
            OBVIOUS
        <3> QED BY <3>1
    <2> QED BY <1>4, <2>2, <2>3
<1>5. \A n \in 0..N : n \in T
    <2> HIDE DEF T, N
    <2> QED BY <1>1, <1>3, <1>4, InductionUpTo
<1> QED BY <1>1, <1>2, <1>5

\* The mask of a vector is the set of the numbers of its cores.
IdsOf(vector) == {vector[i].Id : i \in 1..Len(vector)}

LEMMA CoresAndIds ==
    ASSUME NEW vector \in Seq(AllCores)
    PROVE  /\ IdsOf(vector) \subseteq CoreIds
           /\ \A i \in 1..Len(vector) :
                  /\ vector[i].Id \in CoreIds /\ vector[i] = IdToSystemCore[vector[i].Id]
                  /\ vector[i].Mask = {vector[i].Id}
           /\ ToSet(vector) = {IdToSystemCore[k] : k \in IdsOf(vector)}
<1>1. DOMAIN vector = 1..Len(vector) /\ \A i \in 1..Len(vector) : vector[i] \in AllCores
    OBVIOUS
<1>2. \A k \in CoreIds : IdToSystemCore[k].Id = k /\ IdToSystemCore[k].Mask = {k}
    BY DEF IdToSystemCore
<1>3. ASSUME NEW i \in 1..Len(vector)
      PROVE  /\ vector[i].Id \in CoreIds /\ vector[i] = IdToSystemCore[vector[i].Id]
             /\ vector[i].Mask = {vector[i].Id}
    <2>1. PICK k \in CoreIds : vector[i] = IdToSystemCore[k]
        BY <1>1 DEF AllCores
    <2> QED BY <1>2, <2>1
<1> QED BY <1>1, <1>3 DEF ToSet, IdsOf

\* A core is known by its number.
CoresOf(ids) == {IdToSystemCore[k] : k \in ids}

LEMMA SameCores ==
    ASSUME NEW A \in SUBSET CoreIds, NEW B \in SUBSET CoreIds, CoresOf(A) = CoresOf(B)
    PROVE  A = B
<1>1. \A k \in CoreIds : IdToSystemCore[k].Id = k
    BY DEF IdToSystemCore
<1>2. A = {c.Id : c \in CoresOf(A)}
    BY <1>1 DEF CoresOf
<1>3. B = {c.Id : c \in CoresOf(B)}
    BY <1>1 DEF CoresOf
<1> QED BY <1>2, <1>3

LEMMA MaskOfVector ==
    ASSUME NEW vector \in Seq(AllCores)
    PROVE  CreateCoreMaskFromCoreVector(vector) = IdsOf(vector)
<1> DEFINE masks == [i \in DOMAIN vector |-> vector[i].Mask]
<1>1. DOMAIN vector = 1..Len(vector) /\ Len(vector) \in Nat
    OBVIOUS
<1>2. masks \in Seq(SUBSET CoreIds) /\ Len(masks) = Len(vector)
    <2>1. masks \in [1..Len(vector) -> SUBSET CoreIds]
        BY <1>1, CoresAndIds
    <2>2. masks \in Seq(SUBSET CoreIds) /\ Len(masks) = Len(vector)
        <3> HIDE DEF masks
        <3> QED BY <1>1, <2>1
    <2> QED BY <2>2
<1>3. UNION {masks[i] : i \in 1..Len(masks)} = IdsOf(vector)
    BY <1>1, <1>2, CoresAndIds DEF IdsOf
<1> QED BY <1>2, <1>3, OrIsUnion DEF CreateCoreMaskFromCoreVector

LEMMA MaskOfIds ==
    ASSUME NEW vector \in Seq(AllCores)
    PROVE  CreateCoreMaskFromCoreIds([i \in DOMAIN vector |-> vector[i].Id]) = IdsOf(vector)
<1> DEFINE ids == [i \in DOMAIN vector |-> vector[i].Id]
<1>1. \A i \in DOMAIN vector : IdToSystemCore[ids[i]].Mask = vector[i].Mask
    BY CoresAndIds
<1>2. [i \in DOMAIN ids |-> IdToSystemCore[ids[i]].Mask]
          = [i \in DOMAIN vector |-> vector[i].Mask]
    BY <1>1
<1>3. CreateCoreMaskFromCoreIds(ids) = CreateCoreMaskFromCoreVector(vector)
    BY <1>2 DEF CreateCoreMaskFromCoreIds, CreateCoreMaskFromCoreVector
<1> QED BY <1>3, MaskOfVector

LEMMA MaskOfMachine ==
    ASSUME NEW n \in Nat
    PROVE  GetCoreMaskForAllMachineCores(n) = {k \in CoreIds : k < n}
<1> DEFINE N == IF n < MaxCores THEN n ELSE MaxCores
           masks == [i \in 1..N |-> IdToSystemCore[i - 1].Mask]
<1>1. N \in Nat /\ \A k : k \in CoreIds /\ k < n <=> k \in 0..(N - 1)
    BY CoresAssumption DEF CoreIds
<1>2. \A i \in 1..N : i - 1 \in CoreIds /\ masks[i] = {i - 1}
    BY <1>1 DEF IdToSystemCore
<1>3. masks \in Seq(SUBSET CoreIds) /\ Len(masks) = N
    <2>1. masks \in [1..N -> SUBSET CoreIds]
        <3> HIDE DEF N
        <3> QED BY <1>2
    <2>2. masks \in Seq(SUBSET CoreIds) /\ Len(masks) = N
        <3> HIDE DEF masks, N
        <3> QED BY <1>1, <2>1
    <2> QED BY <2>2
<1>4. UNION {masks[i] : i \in 1..N} = 0..(N - 1)
    <2>1. \A k : k \in 0..(N - 1) <=> \E i \in 1..N : k = i - 1
        <3> HIDE DEF N
        <3>1. ASSUME NEW k \in 0..(N - 1) PROVE k + 1 \in 1..N /\ k = (k + 1) - 1
            BY <1>1
        <3>2. \A i \in 1..N : i - 1 \in 0..(N - 1)
            BY <1>1
        <3> QED BY <3>1, <3>2
    <2> HIDE DEF masks, N
    <2> QED BY <1>2, <2>1
<1>5. Or(masks) = 0..(N - 1)
    <2> HIDE DEF masks, N
    <2> QED BY <1>3, <1>4, OrIsUnion
<1>6. GetCoreMaskForAllMachineCores(n) = Or(masks)
    BY DEF GetCoreMaskForAllMachineCores
<1> QED BY <1>1, <1>5, <1>6

------------------------------------------------------------------------------
(* The way back                                                            *)

Found(mask, resultVec, i) ==
    IF i \in mask THEN Append(resultVec, IdToSystemCore[i]) ELSE resultVec

Bits == [k \in 1..MaxCores |-> k - 1]

\* The equation that defines the fold over the bits.
BitsFold(iter, mask) ==
    iter = [s \in SUBSET (DOMAIN Bits) |->
               IF s = {} THEN << >> ELSE Found(mask, iter[s \ {Max(s)}], Bits[Max(s)])]

LEMMA BitsFoldExists ==
    ASSUME NEW mask \in SUBSET CoreIds
    PROVE  \E iter : BitsFold(iter, mask)
<1> DEFINE D == Seq(AllCores)
           step == [n \in 1..MaxCores |-> [v \in D |-> Found(mask, v, n - 1)]]
<1>1. MaxCores \in Nat /\ << >> \in D
    BY CoresAssumption
<1>2. ASSUME NEW n \in 1..MaxCores, NEW v \in D PROVE Found(mask, v, n - 1) \in D
    <2>1. n - 1 \in CoreIds
        BY <1>1 DEF CoreIds
    <2>2. IdToSystemCore[n - 1] \in AllCores
        BY <2>1 DEF AllCores
    <2> QED BY <2>2, AppendProperties DEF Found
<1>3. step \in [1..MaxCores -> [D -> D]]
    <2> HIDE DEF D
    <2> QED BY <1>2
<1>4. \A s \in SUBSET (1..MaxCores) :
          s # {} => Max(s) \in 1..MaxCores /\ s \ {Max(s)} \in SUBSET (1..MaxCores)
    BY <1>1, GreatestPosition
<1>5. PICK iter \in [SUBSET (1..MaxCores) -> D] : FoldsBy(iter, << >>, step, MaxCores)
    <2> HIDE DEF D, step
    <2> QED BY <1>1, <1>3, FoldExists
<1>6. ASSUME NEW s \in SUBSET (1..MaxCores)
      PROVE  iter[s] = IF s = {} THEN << >> ELSE Found(mask, iter[s \ {Max(s)}], Bits[Max(s)])
    <2>1. CASE s = {}
        BY <1>5, <2>1 DEF FoldsBy
    <2>2. CASE s # {}
        <3>1. iter[s] = step[Max(s)][iter[s \ {Max(s)}]]
            <4> HIDE DEF D, step
            <4> QED BY <1>5, <2>2 DEF FoldsBy
        <3>2. Max(s) \in 1..MaxCores /\ iter[s \ {Max(s)}] \in D
            <4> HIDE DEF D
            <4> QED BY <1>4, <2>2
        <3>3. Bits[Max(s)] = Max(s) - 1
            BY <3>2 DEF Bits
        <3> HIDE DEF D
        <3> QED BY <2>2, <3>1, <3>2, <3>3
    <2> QED BY <2>1, <2>2
<1>7. iter = [s \in SUBSET (1..MaxCores) |->
                 IF s = {} THEN << >> ELSE Found(mask, iter[s \ {Max(s)}], Bits[Max(s)])]
    <2> HIDE DEF D
    <2> QED BY <1>6
<1>8. DOMAIN Bits = 1..MaxCores
    BY DEF Bits
<1> QED BY <1>7, <1>8 DEF BitsFold

\* The vectors that have the cores of the first n bits of a mask, by number.
BitsUpTo(mask, n) ==
    {v \in Seq(AllCores) :
        /\ IdsOf(v) = {k \in mask : k < n}
        /\ \A i, j \in 1..Len(v) : i < j => v[i].Id < v[j].Id}

\* One more bit goes last if it is set.
LEMMA OneMoreBit ==
    ASSUME NEW mask \in SUBSET CoreIds, NEW n \in 1..MaxCores,
           NEW v \in BitsUpTo(mask, n - 1)
    PROVE  Found(mask, v, n - 1) \in BitsUpTo(mask, n)
<1> DEFINE c == IdToSystemCore[n - 1]
<1>1. n - 1 \in CoreIds /\ \A k \in CoreIds : k < n <=> k < n - 1 \/ k = n - 1
    BY CoresAssumption DEF CoreIds
<1>2. c \in AllCores /\ c.Id = n - 1
    BY <1>1 DEF AllCores, IdToSystemCore
<1>3. v \in Seq(AllCores) /\ IdsOf(v) = {k \in mask : k < n - 1}
    BY DEF BitsUpTo
<1>4. CASE n - 1 \notin mask
    <2>1. {k \in mask : k < n} = {k \in mask : k < n - 1}
        BY <1>1, <1>4
    <2> QED BY <1>4, <2>1 DEF BitsUpTo, Found
<1>5. CASE n - 1 \in mask
    <2> DEFINE w == Append(v, c)
    <2>1. w \in Seq(AllCores) /\ Len(w) = Len(v) + 1 /\ Len(v) \in Nat
        BY <1>2, <1>3, AppendProperties
    <2>2. \A i \in 1..Len(v) : w[i] = v[i]
        BY <1>2, <1>3, AppendProperties
    <2>3. w[Len(v) + 1] = c
        BY <1>2, <1>3, AppendProperties
    <2> HIDE DEF w, c
    <2>4. \A i : i \in 1..Len(w) <=> i \in 1..Len(v) \/ i = Len(v) + 1
        BY <2>1
    <2>5. IdsOf(w) = IdsOf(v) \union {n - 1}
        BY <1>2, <2>2, <2>3, <2>4 DEF IdsOf
    <2>6. IdsOf(w) = {k \in mask : k < n}
        BY <1>1, <1>3, <1>5, <2>5
    <2>7. \A i \in 1..Len(v) : v[i].Id < n - 1
        BY <1>3 DEF IdsOf
    <2>8. ASSUME NEW i \in 1..Len(w), NEW j \in 1..Len(w), i < j PROVE w[i].Id < w[j].Id
        <3>1. i \in 1..Len(v)
            BY <2>1, <2>8
        <3>2. CASE j \in 1..Len(v)
            BY <2>2, <2>8, <3>1, <3>2 DEF BitsUpTo
        <3>3. CASE j = Len(v) + 1
            BY <1>2, <2>2, <2>3, <2>7, <3>1, <3>3
        <3> QED BY <2>4, <3>2, <3>3
    <2>9. w \in BitsUpTo(mask, n)
        BY <2>1, <2>6, <2>8 DEF BitsUpTo
    <2> QED BY <1>5, <2>9 DEF Found, w, c
<1> QED BY <1>4, <1>5

LEMMA VectorOfMask ==
    ASSUME NEW mask \in SUBSET CoreIds
    PROVE  CreateCoreVectorFromCoreMask(mask) \in BitsUpTo(mask, MaxCores)
<1>1. MaxCores \in Nat /\ DOMAIN Bits = 1..MaxCores
    BY CoresAssumption DEF Bits
<1>2. PICK iter : /\ BitsFold(iter, mask)
                  /\ CreateCoreVectorFromCoreMask(mask) = iter[DOMAIN Bits]
    BY BitsFoldExists
       DEF BitsFold, Found, Bits, CreateCoreVectorFromCoreMask, FoldLeft, MapThenFoldSet
<1> DEFINE T == {n \in 0..MaxCores : iter[1..n] \in BitsUpTo(mask, n)}
<1>5. 0 \in T
    <2>1. 1..0 = {} /\ 0 \in 0..MaxCores
        BY <1>1
    <2>2. iter[{}] = << >>
        BY <1>2 DEF BitsFold
    <2>3. << >> \in BitsUpTo(mask, 0)
        <3>1. IdsOf(<< >>) = {}
            BY DEF IdsOf
        <3>2. \A k \in CoreIds : ~(k < 0)
            BY CoresAssumption DEF CoreIds
        <3>3. {k \in mask : k < 0} = {}
            BY <3>2
        <3> QED BY <3>1, <3>3 DEF BitsUpTo
    <2> QED BY <2>1, <2>2, <2>3
<1>6. ASSUME NEW n \in 1..MaxCores, n - 1 \in T PROVE n \in T
    <2>1. /\ 1..n \in SUBSET (1..MaxCores) /\ 1..n # {}
          /\ Max(1..n) = n /\ (1..n) \ {n} = 1..(n - 1)
        BY <1>1, FirstPositions
    <2>2. Bits[n] = n - 1
        BY DEF Bits
    <2>3. iter[1..n] = Found(mask, iter[1..n - 1], n - 1)
        BY <1>1, <1>2, <2>1, <2>2 DEF BitsFold
    <2> QED BY <1>1, <1>6, <2>3, OneMoreBit
<1>7. \A n \in 0..MaxCores : n \in T
    <2> HIDE DEF T
    <2> QED BY <1>1, <1>5, <1>6, InductionUpTo
<1> QED BY <1>1, <1>2, <1>7

\* The core masks of SystemUtils.cpp: for any width and any vector of cores, the ways
\* to build a mask and the way back undo one another.
THEOREM MasksUndone == CoresSpec => []MasksAgree
<1> DEFINE CoresInv == cores \in Seq(AllCores)
<1>1. CoresInit => CoresInv
    BY DEF CoresInit
<1>2. CoresInv /\ [AddCore]_cores => CoresInv'
    BY AppendProperties DEF AddCore
<1>3. CoresInv => MasksAgree
    <2> SUFFICES ASSUME CoresInv PROVE MasksAgree
        OBVIOUS
    <2> DEFINE mask == CreateCoreMaskFromCoreVector(cores)
               back == CreateCoreVectorFromCoreMask(mask)
    <2>1. mask = IdsOf(cores) /\ mask \in SUBSET CoreIds
        BY MaskOfVector, CoresAndIds
    <2>2. back \in BitsUpTo(mask, MaxCores)
        BY <2>1, VectorOfMask
    <2>3. back \in Seq(AllCores) /\ IdsOf(back) = mask
        <3>1. {k \in mask : k < MaxCores} = mask
            BY <2>1, CoresAssumption DEF CoreIds
        <3> QED BY <2>2, <3>1 DEF BitsUpTo
    <2>4. ToSet(back) = ToSet(cores)
        BY <2>1, <2>3, CoresAndIds
    <2>5. \A i, j \in 1..Len(back) : i < j => back[i].Id < back[j].Id
        BY <2>2 DEF BitsUpTo
    <2>6. CreateCoreMaskFromCoreVector(back) = mask
        BY <2>3, MaskOfVector
    <2>7. ASSUME NEW n \in 0..MaxCores + 1
          PROVE  mask = GetCoreMaskForAllMachineCores(n)
                     <=> ToSet(cores) = {IdToSystemCore[i] : i \in {k \in CoreIds : k < n}}
        <3>1. GetCoreMaskForAllMachineCores(n) = {k \in CoreIds : k < n}
            BY MaskOfMachine
        <3>2. ToSet(cores) = {IdToSystemCore[k] : k \in mask}
            BY <2>1, CoresAndIds
        <3> DEFINE first == {k \in CoreIds : k < n}
        <3>3. first \in SUBSET CoreIds
            OBVIOUS
        <3> HIDE DEF mask, first
        <3>4. mask = first <=> CoresOf(mask) = CoresOf(first)
            BY <2>1, <3>3, SameCores
        <3> QED BY <3>1, <3>2, <3>4 DEF first, CoresOf
    <2>8. CreateCoreMaskFromCoreIds([i \in DOMAIN cores |-> cores[i].Id]) = mask
        BY <2>1, MaskOfIds
    <2> HIDE DEF CoresInv
    <2> QED BY <2>4, <2>5, <2>6, <2>7, <2>8 DEF MasksAgree
<1> QED BY <1>1, <1>2, <1>3, PTL DEF CoresSpec

------------------------------------------------------------------------------
(* The handler of interrupts                                               *)

HandlerTypeOK ==
    /\ windows \in BOOLEAN /\ installed \in BOOLEAN /\ mismatched \in BOOLEAN
    /\ registered \in 0..MaxRegistrations
    /\ registering \in {"no", "cookie", "install"}
    /\ m_ApplicationInterruptedHandler \in 0..registered
    /\ m_ApplicationInterruptedCookie \in 0..registered
    /\ routine \in [Threads -> {"idle", "lock", "test", "call", "clear"}]
    /\ called \in [Registrations -> 0..2]

\* A routine runs only after the first registration is complete, and calls only
\* while there is a handler.
Registered ==
    /\ installed \/ registering # "no" => registered > 0
    /\ (installed \/ registering = "install") /\ registered = 1 =>
           m_ApplicationInterruptedCookie = 1
    /\ \A t \in Threads : routine[t] # "idle" => installed
    /\ \A t \in Threads : routine[t] = "call" => m_ApplicationInterruptedHandler # Nobody
    /\ windows => /\ \A t \in Threads : routine[t] \notin {"lock", "clear"}
                  /\ registered > 0 => m_ApplicationInterruptedHandler # Nobody
    /\ mismatched => registered > 1

\* The mutex, and what it protects: a handler that is in place has not been called,
\* unless whoever called it is about to forget it.
Exclusive ==
    ~windows =>
        /\ \A t, u \in Threads :
               routine[t] \in {"test", "call", "clear"}
                   /\ routine[u] \in {"test", "call", "clear"} => t = u
        /\ \A r \in Registrations : called[r] < 2 /\ (r > registered => called[r] = 0)
        /\ m_ApplicationInterruptedHandler # Nobody
               /\ (\A t \in Threads : routine[t] # "clear") =>
                   called[m_ApplicationInterruptedHandler] = 0

HandlerInv == HandlerTypeOK /\ Registered /\ Exclusive

LEMMA HandlerInvInit == HandlerInit => HandlerInv
<1> SUFFICES ASSUME HandlerInit PROVE HandlerInv
    OBVIOUS
<1>1. HandlerTypeOK
    <2>1. 0 \in 0..MaxRegistrations /\ 0 \in 0..0 /\ 0 \in 0..2
        BY HandlerAssumption
    <2>2. called \in [Registrations -> 0..2]
        BY <2>1 DEF HandlerInit
    <2>3. routine \in [Threads -> {"idle", "lock", "test", "call", "clear"}]
        BY DEF HandlerInit
    <2> QED BY <2>1, <2>2, <2>3 DEF HandlerInit, HandlerTypeOK, Nobody
<1>2. Registered /\ Exclusive
    BY DEF HandlerInit, Registered, Exclusive, Nobody, Registrations
<1> QED BY <1>1, <1>2 DEF HandlerInv

\* A registration, which takes no mutex.
LEMMA RegistrationSteps ==
    ASSUME HandlerInv, SetHandler \/ SetCookie \/ Install
    PROVE  HandlerInv'
<1> USE HandlerAssumption DEF HandlerInv, Registrations, Nobody
<1>1. CASE SetHandler
    <2>1. HandlerTypeOK'
        BY <1>1 DEF SetHandler, HandlerTypeOK
    <2>2. Registered'
        BY <1>1 DEF SetHandler, HandlerTypeOK, Registered
    <2>3. Exclusive'
        BY <1>1 DEF SetHandler, HandlerTypeOK, Exclusive
    <2> QED BY <2>1, <2>2, <2>3
<1>2. CASE SetCookie
    <2>1. HandlerTypeOK'
        BY <1>2 DEF SetCookie, HandlerTypeOK, Registered
    <2>2. Registered'
        BY <1>2 DEF SetCookie, HandlerTypeOK, Registered
    <2>3. Exclusive'
        BY <1>2 DEF SetCookie, Exclusive
    <2> QED BY <2>1, <2>2, <2>3
<1>3. CASE Install
    <2>1. HandlerTypeOK'
        BY <1>3 DEF Install, HandlerTypeOK
    <2>2. Registered'
        BY <1>3 DEF Install, HandlerTypeOK, Registered
    <2>3. Exclusive'
        BY <1>3 DEF Install, Exclusive
    <2> QED BY <2>1, <2>2, <2>3
<1> QED BY <1>1, <1>2, <1>3

\* A thread that is interrupted, up to the call.
LEMMA EnterSteps ==
    ASSUME HandlerInv, NEW t \in Threads, Interrupt(t) \/ Lock(t) \/ Test(t)
    PROVE  HandlerInv'
<1> USE DEF HandlerInv, Goes, registration, Registrations, Nobody
<1>1. CASE Interrupt(t)
    <2>1. HandlerTypeOK'
        BY <1>1 DEF Interrupt, HandlerTypeOK
    <2>2. Registered'
        BY <1>1 DEF Interrupt, HandlerTypeOK, Registered
    <2>3. Exclusive'
        BY <1>1 DEF Interrupt, HandlerTypeOK, Exclusive
    <2> QED BY <2>1, <2>2, <2>3
<1>2. CASE Lock(t)
    <2>1. HandlerTypeOK'
        BY <1>2 DEF Lock, HandlerTypeOK
    <2>2. Registered'
        BY <1>2 DEF Lock, HandlerTypeOK, Registered
    <2>3. Exclusive'
        BY <1>2 DEF Lock, Locked, HandlerTypeOK, Exclusive
    <2> QED BY <2>1, <2>2, <2>3
<1>3. CASE Test(t)
    <2>1. HandlerTypeOK'
        BY <1>3 DEF Test, HandlerTypeOK
    <2>2. Registered'
        BY <1>3 DEF Test, HandlerTypeOK, Registered
    <2>3. Exclusive'
        BY <1>3 DEF Test, HandlerTypeOK, Exclusive
    <2> QED BY <2>1, <2>2, <2>3
<1> QED BY <1>1, <1>2, <1>3

\* The call and what follows it.
LEMMA CallSteps ==
    ASSUME HandlerInv, NEW t \in Threads, Call(t) \/ Clear(t)
    PROVE  HandlerInv'
<1> USE DEF HandlerInv, Goes, registration, Registrations, Nobody
<1>1. CASE Call(t)
    <2>1. HandlerTypeOK'
        <3>1. called' \in [Registrations -> 0..2]
            <4>1. \A n \in 0..2 : (IF n = 2 THEN 2 ELSE n + 1) \in 0..2
                OBVIOUS
            <4> QED BY <1>1, <4>1 DEF Call, HandlerTypeOK
        <3>2. mismatched' \in BOOLEAN
            BY <1>1 DEF Call
        <3> QED BY <1>1, <3>1, <3>2 DEF Call, HandlerTypeOK
    <2>2. Registered'
        BY <1>1 DEF Call, HandlerTypeOK, Registered
    <2>3. Exclusive'
        BY <1>1 DEF Call, HandlerTypeOK, Exclusive
    <2> QED BY <2>1, <2>2, <2>3
<1>2. CASE Clear(t)
    <2>1. HandlerTypeOK'
        BY <1>2 DEF Clear, HandlerTypeOK
    <2>2. Registered'
        BY <1>2 DEF Clear, HandlerTypeOK, Registered, Exclusive
    <2>3. Exclusive'
        BY <1>2 DEF Clear, HandlerTypeOK, Exclusive
    <2> QED BY <2>1, <2>2, <2>3
<1> QED BY <1>1, <1>2

LEMMA HandlerInvStep ==
    ASSUME HandlerInv, [HandlerNext]_handlerVars
    PROVE  HandlerInv'
<1>1. CASE UNCHANGED handlerVars
    BY <1>1 DEF handlerVars, HandlerInv, HandlerTypeOK, Registered, Exclusive, Registrations
<1> QED BY <1>1, RegistrationSteps, EnterSteps, CallSteps DEF HandlerNext

\* ApplicationEventHandler: for any number of threads that are interrupted and any
\* number of registrations, no handler is called twice where there is a mutex, and
\* only one that replaced another can get a cookie that is not its own.
THEOREM HandlerCalledOnce == HandlerSafetySpec => []CalledOnce
<1>1. HandlerInv => CalledOnce
    BY DEF HandlerInv, Registered, Exclusive, CalledOnce
<1> QED BY <1>1, HandlerInvInit, HandlerInvStep, PTL DEF HandlerSafetySpec
=============================================================================
