----------------------------- MODULE LiveDevice -----------------------------
(***************************************************************************)
(* PcapLiveDevice (header/WpdPack/.../pcap/PcapLiveDevice.cpp), the live   *)
(* device of PcapPlusPlus that the repository carries along: no target     *)
(* compiles it yet.  One application thread opens and closes the device    *)
(* and starts and stops captures in any order, on three threads at most:   *)
(* its own in blocking mode, the capture thread, the statistics thread.    *)
(*                                                                         *)
(* The callbacks do not call the device.                                   *)
(*                                                                         *)
(* close() neither looks at the capture nor forgets the descriptors, and   *)
(* open() may fail after the first of two.  Whatever hands libpcap a null  *)
(* descriptor, a closed one, or closes one that a thread uses has no       *)
(* defined effect: it sets `undefined`, and the model ends there.          *)
(*                                                                         *)
(* Lengths are scaled down: 15 is 0xffffffff, the largest unsigned number, *)
(* 3 stands for the MTU of an Ethernet, 1500, and 4 for its frames, 1514.  *)
(***************************************************************************)
EXTENDS Integers

VARIABLES
    m_DeviceOpened,
    m_PcapDescriptor,        \* "null", "open" or "closed"
    m_PcapSendDescriptor,    \* the same
    m_CaptureThreadStarted,  \* what captureActive() returns
    m_StatsThreadStarted,
    m_StopThread,
    blockingCallback,        \* m_cbOnPacketArrivesBlockingMode # nullptr
    app,                     \* where the application thread is
    withStats,               \* this startCapture has a statistics callback
    capture,                 \* where m_CaptureThread is
    stats,                   \* where m_StatsThread is
    breakLoop,               \* libpcap: pcap_breakloop since the last dispatch: "no",
                             \* "called", or "unheard"
    timed,                   \* this startCaptureBlockingMode has a timeout
    m_UsePoll,
    unread,                  \* m_PcapSelectableFd has something to read
    nflog,                   \* m_Name = NFLOG_IFACE, which is opened only once
    misused,                 \* the application closed or used what it had not opened,
                             \* or closed what was capturing
    undefined

handles == <<m_DeviceOpened, m_PcapDescriptor, m_PcapSendDescriptor, nflog, misused,
             undefined>>
flags   == <<m_CaptureThreadStarted, m_StatsThreadStarted, m_StopThread, blockingCallback>>
threads == <<app, withStats, capture, stats, breakLoop>>
polling == <<timed, m_UsePoll, unread>>
vars    == <<handles, flags, threads, polling>>

\* The constructor does not set m_PcapSendDescriptor, which may be anything.
Unset == {"null", "closed"}

Init ==
    /\ m_DeviceOpened = FALSE
    /\ m_PcapDescriptor = "null"
    /\ m_PcapSendDescriptor \in Unset
    /\ m_CaptureThreadStarted = FALSE
    /\ m_StatsThreadStarted = FALSE
    /\ m_StopThread = FALSE
    /\ blockingCallback = FALSE
    /\ app = "idle"
    /\ withStats = FALSE
    /\ capture = "none"
    /\ stats = "none"
    /\ breakLoop = "no"
    /\ timed = FALSE
    /\ m_UsePoll = FALSE
    /\ unread = FALSE
    /\ nflog \in BOOLEAN
    /\ misused = FALSE
    /\ undefined = FALSE

TypeOK ==
    /\ {m_DeviceOpened, m_CaptureThreadStarted, m_StatsThreadStarted, m_StopThread,
        blockingCallback, withStats, timed, m_UsePoll, unread, nflog, misused,
        undefined} \subseteq BOOLEAN
    /\ m_PcapDescriptor \in {"null", "open", "closed"}
    /\ m_PcapSendDescriptor \in {"null", "open", "closed"}
    /\ app \in {"idle", "spin", "blockTest", "poll", "blockDispatch",
                "break", "joinCapture", "stopStats"}
    /\ capture \in {"none", "starting", "test", "dispatch", "ended"}
    /\ stats \in {"none", "test", "query", "ended"}
    /\ breakLoop \in {"no", "called", "unheard"}

\* What pcap_create and pcap_activate may come to.
DoOpen == {"open", "null"}

\* Whatever else a configuration says is handed to libpcap, which may refuse it:
\* the device is open all the same.
DeviceConfiguration == [usePoll : BOOLEAN]

captureActive == m_CaptureThreadStarted

------------------------------------------------------------------------------
(* The application's calls                                                 *)

\* A failed open leaves what it has opened where it is.  What poll() will watch is
\* the second descriptor, from which nothing is ever read.
Open ==
    /\ app = "idle"
    /\ ~m_DeviceOpened
    /\ m_PcapDescriptor' \in DoOpen
    /\ m_PcapSendDescriptor' \in IF nflog THEN {"null"} ELSE DoOpen
    /\ m_DeviceOpened' = /\ m_PcapDescriptor' # "null"
                         /\ nflog \/ m_PcapSendDescriptor' # "null"
    /\ \E config \in DeviceConfiguration :
           /\ m_UsePoll' = IF m_DeviceOpened' THEN config.usePoll ELSE m_UsePoll
           /\ undefined' = (m_DeviceOpened' /\ config.usePoll
                                /\ m_PcapSendDescriptor' # "open")
    /\ unread' = FALSE
    /\ breakLoop' = "no"
    /\ UNCHANGED <<nflog, misused, flags, app, withStats, capture, stats, timed>>

\* A thread is inside libpcap.
InUse == capture = "dispatch" \/ stats = "query"

\* Nothing happens to two null descriptors; others are closed as they are.
Close ==
    /\ app = "idle"
    /\ m_PcapDescriptor # "null" \/ m_PcapSendDescriptor # "null"
    /\ undefined' = \/ m_PcapDescriptor # "open" \/ m_PcapSendDescriptor # "open"
                    \/ InUse
    /\ misused' = (misused \/ ~m_DeviceOpened \/ m_CaptureThreadStarted)
    /\ m_PcapDescriptor' = "closed"
    /\ m_PcapSendDescriptor' = "closed"
    /\ m_DeviceOpened' = FALSE
    /\ UNCHANGED <<nflog, flags, threads, polling>>

\* getStatistics does not look whether the device is open.
GetStatistics ==
    /\ app = "idle"
    /\ undefined' = (m_PcapDescriptor # "open")
    /\ misused' = (misused \/ ~m_DeviceOpened)
    /\ UNCHANGED <<m_DeviceOpened, m_PcapDescriptor, m_PcapSendDescriptor, nflog,
                   flags, threads, polling>>

UIntMax  == 15
Ethernet == 3
Frame    == 4

\* A number of 32 bits read as an int.
AsInt(u) == IF u > UIntMax \div 2 THEN u - (UIntMax + 1) ELSE u

\* m_DeviceMtu, which the constructor sets once and for all: of a loopback the
\* largest number there is, otherwise what the driver says, the size of a frame
\* taken for that of a payload, or 0 when it says nothing.
DeviceMtu(loopback, driver) ==
    IF loopback THEN UIntMax ELSE IF driver = Frame THEN Ethernet ELSE driver

Mtus == {DeviceMtu(loopback, driver) : loopback \in BOOLEAN, driver \in {0, Ethernet, Frame}}

DoMtuCheck(length, mtu) == length <= AsInt(mtu)

\* A packet of so many bytes whose first layer is the link's (with a header of
\* one), the network's or another, of which the length is not checked.
Packets == [length : 0..Frame, layer : {"link", "network", "other"}]

PayloadLength(p) == IF p.layer = "link" /\ p.length > 0 THEN p.length - 1 ELSE p.length

\* Faulty variant of SendPacket: whether the device is open is not tested.
SendPacketUnopened(p, checkMtu, mtu) ==
    /\ p.length # 0
    /\ checkMtu /\ p.layer # "other" => DoMtuCheck(PayloadLength(p), mtu)

\* Does sendPacket(p, checkMtu) reach pcap_sendpacket?
SendPacket(p, checkMtu, mtu) ==
    /\ m_DeviceOpened
    /\ p.length # 0
    /\ checkMtu /\ p.layer # "other" => DoMtuCheck(PayloadLength(p), mtu)

\* sendPacket, and each turn of the loops in sendPackets: of some packet.
Send ==
    /\ app = "idle"
    /\ undefined' = /\ m_PcapSendDescriptor # "open"
                    /\ \E p \in Packets, checkMtu \in BOOLEAN, mtu \in Mtus :
                           SendPacket(p, checkMtu, mtu)
    /\ UNCHANGED <<m_DeviceOpened, m_PcapDescriptor, m_PcapSendDescriptor, nflog,
                   misused, flags, threads, polling>>

\* Faulty variant of MayStart: a capture that goes on is not looked for.
MayStartTwice ==
    /\ app = "idle"
    /\ m_DeviceOpened /\ m_PcapDescriptor # "null"

\* The tests every start begins with.
MayStart ==
    /\ app = "idle"
    /\ m_DeviceOpened /\ m_PcapDescriptor # "null"
    /\ ~m_CaptureThreadStarted

\* startCapture with callbacks, or into a vector, which has no statistics.
StartCapture ==
    /\ MayStart
    /\ withStats' \in BOOLEAN
    /\ capture' = "starting"
    /\ app' = "spin"
    /\ UNCHANGED <<handles, flags, stats, breakLoop, polling>>

\* The loop around yield() sees the new thread's flag.
CaptureSeen ==
    /\ app = "spin"
    /\ m_CaptureThreadStarted
    /\ IF withStats THEN stats' = "test" /\ m_StatsThreadStarted' = TRUE
                    ELSE UNCHANGED <<stats, m_StatsThreadStarted>>
    /\ withStats' = FALSE
    /\ app' = "idle"
    /\ UNCHANGED <<handles, m_CaptureThreadStarted, m_StopThread, blockingCallback,
                   capture, breakLoop, polling>>

\* Less than a millisecond is no timeout.
StartBlocking ==
    /\ MayStart
    /\ blockingCallback' = TRUE
    /\ m_CaptureThreadStarted' = TRUE
    /\ m_StopThread' = FALSE
    /\ timed' \in BOOLEAN
    /\ app' = "blockTest"
    /\ UNCHANGED <<handles, m_StatsThreadStarted, withStats, capture, stats, breakLoop,
                   m_UsePoll, unread>>

\* The loop goes on.
BlockTest ==
    /\ app = "blockTest"
    /\ ~m_StopThread
    /\ app' = IF timed /\ m_UsePoll THEN "poll" ELSE "blockDispatch"
    /\ UNCHANGED <<handles, flags, withStats, capture, stats, breakLoop, polling>>

\* poll() finds something to read, or fails, or has nothing until the time is up.
Poll ==
    /\ app = "poll"
    /\ \/ unread /\ app' = "blockDispatch" /\ UNCHANGED m_StopThread
       \/ app' = "blockTest" /\ m_StopThread' = TRUE
       \/ ~unread /\ app' = "blockTest" /\ UNCHANGED m_StopThread
    /\ UNCHANGED <<handles, m_CaptureThreadStarted, m_StatsThreadStarted,
                   blockingCallback, withStats, capture, stats, breakLoop, polling>>

\* pcap_dispatch returns; the callback may have asked for the end.
BlockDispatch ==
    /\ app = "blockDispatch"
    /\ m_StopThread' \in BOOLEAN
    /\ app' = "blockTest"
    /\ breakLoop' = "no"
    /\ UNCHANGED <<handles, m_CaptureThreadStarted, m_StatsThreadStarted,
                   blockingCallback, withStats, capture, stats, polling>>

\* It fails.
BlockFails ==
    /\ app = "blockDispatch"
    /\ m_StopThread' = TRUE
    /\ app' = "blockTest"
    /\ UNCHANGED <<handles, m_CaptureThreadStarted, m_StatsThreadStarted,
                   blockingCallback, withStats, capture, stats, breakLoop, polling>>

\* The end of the loop or of its time.
BlockEnd ==
    /\ app = "blockTest"
    /\ m_StopThread \/ timed
    /\ m_CaptureThreadStarted' = FALSE
    /\ m_StopThread' = FALSE
    /\ blockingCallback' = FALSE
    /\ timed' = FALSE
    /\ app' = "idle"
    /\ UNCHANGED <<handles, m_StatsThreadStarted, withStats, capture, stats, breakLoop,
                   m_UsePoll, unread>>

StopCapture ==
    /\ app = "idle"
    /\ ~blockingCallback
    /\ m_StopThread' = TRUE
    /\ app' = IF m_CaptureThreadStarted THEN "break" ELSE "stopStats"
    /\ UNCHANGED <<handles, m_CaptureThreadStarted, m_StatsThreadStarted,
                   blockingCallback, withStats, capture, stats, breakLoop, polling>>

\* Faulty variant of BreakLoop: the capture thread is not interrupted.
BreakLoopMissing ==
    /\ app = "break"
    /\ app' = "joinCapture"
    /\ UNCHANGED <<handles, flags, withStats, capture, stats, breakLoop, polling>>

\* pcap_breakloop.  On macOS and FreeBSD, where pcap has a time-out below 10 ms, as
\* it has on macOS unless the configuration says otherwise, "an issue seems to make
\* pcap_breakloop() to not properly break pcap_dispatch()"; elsewhere it is heard.
BreakLoop ==
    /\ app = "break"
    /\ undefined' = (m_PcapDescriptor # "open")
    /\ breakLoop' \in {"called"} \union IF capture = "dispatch" THEN {"unheard"} ELSE {}
    /\ app' = "joinCapture"
    /\ UNCHANGED <<m_DeviceOpened, m_PcapDescriptor, m_PcapSendDescriptor, nflog,
                   misused, flags, withStats, capture, stats, polling>>

JoinCapture ==
    /\ app = "joinCapture"
    /\ capture = "ended"
    /\ capture' = "none"
    /\ m_CaptureThreadStarted' = FALSE
    /\ app' = "stopStats"
    /\ UNCHANGED <<handles, m_StatsThreadStarted, m_StopThread, blockingCallback,
                   withStats, stats, breakLoop, polling>>

\* Faulty variant of JoinStats: the flag is lowered without waiting.
JoinStatsSkipped ==
    /\ app = "stopStats"
    /\ m_StatsThreadStarted' = FALSE
    /\ m_StopThread' = FALSE
    /\ app' = "idle"
    /\ UNCHANGED <<handles, m_CaptureThreadStarted, blockingCallback, withStats,
                   capture, stats, breakLoop, polling>>

\* The statistics thread, if there is one, is waited for; the stop is over.
JoinStats ==
    /\ app = "stopStats"
    /\ m_StatsThreadStarted => stats = "ended"
    /\ stats' = IF m_StatsThreadStarted THEN "none" ELSE stats
    /\ m_StatsThreadStarted' = FALSE
    /\ m_StopThread' = FALSE
    /\ app' = "idle"
    /\ UNCHANGED <<handles, m_CaptureThreadStarted, blockingCallback, withStats,
                   capture, breakLoop, polling>>

AppNext ==
    \/ Open \/ Close
    \/ GetStatistics \/ Send
    \/ StartCapture \/ CaptureSeen
    \/ StartBlocking \/ BlockTest \/ Poll \/ BlockDispatch \/ BlockFails \/ BlockEnd
    \/ StopCapture \/ BreakLoop \/ JoinCapture \/ JoinStats

------------------------------------------------------------------------------
(* The threads of a capture                                                *)

CaptureStarts ==
    /\ capture = "starting"
    /\ m_CaptureThreadStarted' = TRUE
    /\ capture' = "test"
    /\ UNCHANGED <<handles, m_StatsThreadStarted, m_StopThread, blockingCallback,
                   app, withStats, stats, breakLoop, polling>>

CaptureTest ==
    /\ capture = "test"
    /\ capture' = IF m_StopThread THEN "ended" ELSE "dispatch"
    /\ undefined' = (~m_StopThread /\ m_PcapDescriptor # "open")
    /\ UNCHANGED <<m_DeviceOpened, m_PcapDescriptor, m_PcapSendDescriptor, nflog,
                   misused, flags, app, withStats, stats, breakLoop, polling>>

\* pcap_dispatch returns after packets, a timeout or pcap_breakloop.
DispatchReturns ==
    /\ capture = "dispatch"
    /\ capture' = "test"
    /\ breakLoop' = "no"
    /\ UNCHANGED <<handles, flags, app, withStats, stats, polling>>

\* It fails; the flag of the capture stays up until stopCapture().
DispatchFails ==
    /\ capture = "dispatch"
    /\ m_StopThread' = TRUE
    /\ capture' = "test"
    /\ breakLoop' = IF breakLoop = "unheard" THEN "no" ELSE breakLoop
    /\ UNCHANGED <<handles, m_CaptureThreadStarted, m_StatsThreadStarted,
                   blockingCallback, app, withStats, stats, polling>>

StatsTest ==
    /\ stats = "test"
    /\ stats' = IF m_StopThread THEN "ended" ELSE "query"
    /\ undefined' = (~m_StopThread /\ m_PcapDescriptor # "open")
    /\ UNCHANGED <<m_DeviceOpened, m_PcapDescriptor, m_PcapSendDescriptor, nflog,
                   misused, flags, app, withStats, capture, breakLoop, polling>>

\* getStatistics, the callback and the sleep.
StatsQuery ==
    /\ stats = "query"
    /\ stats' = "test"
    /\ UNCHANGED <<handles, flags, app, withStats, capture, breakLoop, polling>>

\* A packet reaches both descriptors; pcap_dispatch reads the other one.
PacketArrives ==
    /\ m_DeviceOpened /\ m_UsePoll
    /\ ~unread
    /\ unread' = TRUE
    /\ UNCHANGED <<handles, flags, threads, timed, m_UsePoll>>

ThreadsNext ==
    CaptureStarts \/ CaptureTest \/ DispatchReturns \/ DispatchFails
        \/ StatsTest \/ StatsQuery \/ PacketArrives

Next == ~undefined /\ (AppNext \/ ThreadsNext)

\* The threads run; a dispatch that pcap_breakloop breaks off returns, and a call
\* of the application goes on; poll() returns, and its time comes to an end.  Nothing
\* makes the application call, nothing makes packets arrive, and a dispatch nothing
\* breaks off need not return.
Fairness ==
    /\ WF_vars(~undefined /\ (CaptureStarts \/ CaptureTest))
    /\ WF_vars(~undefined /\ breakLoop = "called" /\ DispatchReturns)
    /\ WF_vars(~undefined /\ (StatsTest \/ StatsQuery))
    /\ WF_vars(~undefined /\ (CaptureSeen \/ BreakLoop \/ JoinCapture \/ JoinStats))
    /\ WF_vars(~undefined /\ (BlockTest \/ Poll))
    /\ SF_vars(~undefined /\ BlockEnd)

SafetySpec == Init /\ [][Next]_vars

Spec == SafetySpec /\ Fairness

------------------------------------------------------------------------------
(* Properties                                                              *)

\* A device that says it is not capturing has no thread left that could use its
\* descriptor or still be joined, and the next capture does not begin stopped
\* ("terminates gracefully both packet capture thread and periodic stats
\* collection thread", PcapLiveDevice.h:425-426); also after a failed dispatch.
QuietWhenInactive ==
    app = "idle" /\ ~captureActive =>
        /\ capture = "none" /\ stats = "none"
        /\ ~m_StatsThreadStarted /\ ~m_StopThread /\ ~blockingCallback

\* An application that closes only what it has opened and stopped, and asks only
\* an open device for statistics, never has libpcap use a descriptor that is not
\* open: through an open that fails half way, a dispatch that fails, a capture
\* that is stopped, and whatever it sends, closed or not.  On the interface
\* "nflog" it does: sending and closing take the send descriptor, which is null.
DefinedUse == undefined => misused \/ nflog

\* The device keeps LiveDeviceContract: a start never finds threads of an earlier
\* capture; a stop leaves none, whether they had ended by themselves, after a failed
\* dispatch, or not; and a capture that has failed is over but stays active until it
\* is stopped.  A thread that has ended and waits to be joined does not capture.
Blocking == {"blockTest", "poll", "blockDispatch"}
InStop   == {"break", "joinCapture", "stopStats"}

Contract == INSTANCE LiveDeviceContract WITH
    opened     <- m_DeviceOpened,
    capturing  <- IF app \in Blocking THEN "blocking"
                  ELSE IF capture \in {"starting", "test", "dispatch"} THEN "threads"
                  ELSE "no",
    collecting <- stats \in {"test", "query"},
    active     <- captureActive,
    ending     <- m_StopThread,
    stopping   <- app \in InStop,
    misused    <- misused \/ undefined

ImplementsContract == Contract!ContractSpec

\* stopCapture returns: the loop that waits in libpcap is broken off, whether it
\* was in pcap_dispatch or about to enter it, on every system but macOS and FreeBSD
\* with a short time-out: "10ms is the minimum to fix pcap_breakloop()"
\* (PcapLiveDevice.cpp:42-54), and the default on macOS is 1.  There a stop whose
\* pcap_breakloop goes unheard may wait until packets come.  Of a call with no
\* defined effect nothing is said.
StopReturns ==
    app \in InStop ~> app = "idle" \/ undefined \/ breakLoop = "unheard"

\* What a stop waits for is on its way: the capture thread it joins has been
\* started, finds the flag at its next test, and does not sit in a pcap_dispatch
\* that nothing breaks off, wherever it was when the stop came and whatever failed
\* before (PcapLiveDevice.cpp:635-651).
StopIsHeard ==
    /\ app = "joinCapture" =>
         /\ m_StopThread /\ capture \in {"test", "dispatch", "ended"}
         /\ capture = "dispatch" => breakLoop # "no"
    /\ app = "stopStats" /\ m_StatsThreadStarted =>
         m_StopThread /\ stats \in {"test", "query", "ended"}

\* "Regardless of this callback a timeout is defined when start capturing.  When this
\* timeout expires the method will return", and on Unix "enabling the `usePoll` option
\* prevents the method from blocking indefinitely when no packets are available"
\* (PcapLiveDevice.h:405-406, 420).  The code does not keep it: poll() watches the
\* descriptor for sending, from which nobody reads.  After the first packet it is
\* always readable, and the pcap_dispatch of the other descriptor may wait for ever.
TimeoutKept ==
    app \in Blocking /\ timed /\ m_UsePoll ~> app = "idle" \/ undefined

\* captureActive() returns "True if a capture thread is currently running"
\* (PcapLiveDevice.h:431-432), whenever the application may ask.  The code does not
\* keep it: a failed pcap_dispatch ends the thread and leaves the flag up
\* (PcapLiveDevice.cpp:190-194), so a device whose capture is over says that it goes
\* on, and refuses another, until it is stopped.
ActiveMeansRunning ==
    app = "idle" /\ captureActive => capture \in {"test", "dispatch"}
==============================================================================
