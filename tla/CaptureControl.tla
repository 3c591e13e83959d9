---------------------------- MODULE CaptureControl ----------------------------
(***************************************************************************)
(* The control interface of sniffer_packages.dll (ipc.cpp): the exported   *)
(* functions the clients call from any thread, and the capture loop        *)
(* mainFunc, which runs one session of Sniffer after another on a thread   *)
(* of its own.  They share the flag quit_flag (TRUE: capture), guarded by  *)
(* the mutex m and the condition variable cv, and, outside any lock, the   *)
(* device index d1 and the pcap handle _adhandle1.                         *)
(*                                                                         *)
(* One thread waits on cv, so notify_one and notify_all do the same.  The  *)
(* mutex is held across steps only by that thread, between testing its     *)
(* predicate and falling asleep.  A session is reduced to the device index *)
(* it was built with and the handle it captures from; module Sniffer has   *)
(* its inside, and the conditions under which its Stop returns.            *)
(***************************************************************************)
EXTENDS Integers

CONSTANTS
    Callers,         \* client threads that call the exported functions
    Functions,       \* the exported functions they call
    DeviceCount,     \* devices pcap_findalldevs_ex finds, numbered from 1
    MaxCalls         \* bound: calls ever made

Exported == {"fnPutdev", "fnStopCapture", "fnStartCapture", "fnCloseApp"}

ASSUME ControlAssumption ==
    /\ Functions \subseteq Exported
    /\ DeviceCount \in Nat
    /\ MaxCalls \in Nat

\* Device 0 is what a client passes when no device is selected.
Devices == 0..DeviceCount

\* At most two pcap handles are referred to at a time, by _adhandle1 and by the
\* session, so a third name is always free for the next pcap_open.
Handles == 1..3
Null == 0

VARIABLES
    quit_flag,       \* TRUE: capture
    d1,              \* the device index of the next session
    adhandle1,       \* _adhandle1, the handle fnPutdevCPPDLL opened
    closed,          \* handles pcap_close was called on
    connecting,      \* where fnCPPDLL is
    eventHandle,     \* TRUE iff the event Global\sniffer is open
    pipeHandle,      \* TRUE iff the named pipe, hPipe, is open
    main,            \* where the capture thread is
    stopRequested,   \* the stop token of mainThread
    index,           \* the device index the session was built with
    sessionHandle,   \* the handle of the session
    caller,          \* per caller: the step of its call
    dev,             \* per caller: its argument
    calls            \* calls made so far

sharedVars == <<quit_flag, d1, adhandle1, closed>>
startVars  == <<connecting, eventHandle, pipeHandle>>
mainVars   == <<main, index, sessionHandle>>
callVars   == <<caller, dev, calls>>
dllVars == <<sharedVars, startVars, mainVars, stopRequested, callVars>>

ConnectStates == {"idle", "openEvent", "pipe", "wait", "done"}
MainStates    == {"none", "loop", "startCheck", "startBlock", "startWait", "build",
                  "start", "stopCheck", "stopBlock", "stopWait", "stop", "exited"}
CallStates    == {"idle", "putClear", "putPause", "putOpen", "putFlag",
                  "closeFlag", "closeNotify", "closeHandles", "notify"}

\* The capture thread has a session between Build and ~Sniffer.
InSession == main \in {"start", "stopCheck", "stopBlock", "stopWait", "stop"}

DllTypeOK ==
    /\ quit_flag \in BOOLEAN
    /\ d1 \in Devices
    /\ adhandle1 \in Handles \union {Null}
    /\ closed \subseteq Handles
    /\ connecting \in ConnectStates
    /\ eventHandle \in BOOLEAN
    /\ pipeHandle \in BOOLEAN
    /\ main \in MainStates
    /\ stopRequested \in BOOLEAN
    /\ index \in Devices
    /\ sessionHandle \in Handles \union {Null}
    /\ caller \in [Callers -> CallStates]
    /\ dev \in [Callers -> Devices]
    /\ calls \in 0..MaxCalls

DllInit ==
    /\ quit_flag = FALSE
    /\ d1 = 0
    /\ adhandle1 = Null
    /\ closed = {}
    /\ connecting = "idle"
    /\ eventHandle = FALSE
    /\ pipeHandle = FALSE
    /\ main = "none"
    /\ stopRequested = FALSE
    /\ index = 0
    /\ sessionHandle = Null
    /\ caller = [c \in Callers |-> "idle"]
    /\ dev = [c \in Callers |-> 0]
    /\ calls = 0

------------------------------------------------------------------------------
(* The mutex m, the condition variable cv, and pcap                        *)

\* Faulty variant of CanLock: the flag is written without taking m.
CanLockIgnored == TRUE

\* m is free unless the capture thread is about to fall asleep on cv.
CanLock == main \notin {"startBlock", "stopBlock"}

\* cv.notify: where the capture thread is afterwards.
Woken ==
    CASE main = "startWait" -> "startCheck"
      [] main = "stopWait"  -> "stopCheck"
      [] OTHER              -> main

\* A handle name that neither _adhandle1 nor the session refers to.
FreshHandle == CHOOSE h \in Handles : h \notin {adhandle1, sessionHandle}

\* SelectDevice and OpenSelectedDevice on device d: any device may fail to
\* open, and one outside 1..deviceCount is out of range.
OpenResults(d) == {Null} \union (IF d \in 1..DeviceCount THEN {FreshHandle} ELSE {})

------------------------------------------------------------------------------
(* fnCPPDLL: attach to the event and the pipe, then start mainFunc's thread.
   GetStreamPtr.StartStream sees to it that it is called once.             *)

ConnectCall ==
    /\ connecting = "idle"
    /\ connecting' = "openEvent"
    /\ UNCHANGED <<sharedVars, eventHandle, pipeHandle, mainVars, stopRequested,
                   callVars>>

\* The event is found, or its creator does not turn up within 30 attempts.
OpenEvent ==
    /\ connecting = "openEvent"
    /\ \/ connecting' = "pipe" /\ eventHandle' = TRUE
       \/ connecting' = "done" /\ UNCHANGED eventHandle
    /\ UNCHANGED <<sharedVars, pipeHandle, mainVars, stopRequested, callVars>>

\* CreateNamedPipeW fails, or the pipe is connected, or it is closed again
\* because ConnectNamedPipe failed: fnCPPDLL goes on without it.
ConnectPipe ==
    /\ connecting = "pipe"
    /\ \/ connecting' = "done" /\ UNCHANGED pipeHandle
       \/ connecting' = "wait" /\ pipeHandle' \in BOOLEAN
    /\ UNCHANGED <<sharedVars, eventHandle, mainVars, stopRequested, callVars>>

\* WaitForSingleObject: signalled and timed out both start the thread; the
\* wait can fail once fnCloseApp has closed the event.
StartThread ==
    /\ connecting = "wait"
    /\ connecting' = "done"
    /\ \/ main' = "loop"
       \/ ~eventHandle /\ UNCHANGED main
    /\ UNCHANGED <<sharedVars, eventHandle, pipeHandle, index, sessionHandle,
                   stopRequested, callVars>>

------------------------------------------------------------------------------
(* mainFunc, in the loop of mainThread                                     *)

\* while (!st.stop_requested())
LoopTest ==
    /\ main = "loop"
    /\ main' = IF stopRequested THEN "exited" ELSE "startCheck"
    /\ UNCHANGED <<sharedVars, startVars, index, sessionHandle, stopRequested,
                   callVars>>

\* cv.wait evaluates its predicate with m locked: it goes on, or keeps m until
\* it is asleep.
Check(check, wanted, block, next) ==
    /\ main = check
    /\ main' = IF quit_flag = wanted THEN next ELSE block
    /\ UNCHANGED <<sharedVars, startVars, index, sessionHandle, stopRequested,
                   callVars>>

CheckStart == Check("startCheck", TRUE, "startBlock", "build")
CheckStop  == Check("stopCheck", FALSE, "stopBlock", "stop")

\* Falling asleep releases m.
Block ==
    /\ \/ main = "startBlock" /\ main' = "startWait"
       \/ main = "stopBlock" /\ main' = "stopWait"
    /\ UNCHANGED <<sharedVars, startVars, index, sessionHandle, stopRequested,
                   callVars>>

\* A condition variable may wake its waiter for no reason.
SpuriousWakeup ==
    /\ main \in {"startWait", "stopWait"}
    /\ main' = Woken
    /\ UNCHANGED <<sharedVars, startVars, index, sessionHandle, stopRequested,
                   callVars>>

\* d1.load(), then SnifferBuilder::Build, which swallows every exception.
BuildSession ==
    /\ main = "build"
    /\ index' = d1
    /\ sessionHandle' \in OpenResults(d1)
    /\ closed' = closed \ {sessionHandle'}
    /\ main' = "start"
    /\ UNCHANGED <<quit_flag, d1, adhandle1, startVars, stopRequested, callVars>>

\* Sniffer::Start falls back on _adhandle1 when Build opened nothing.
StartSession ==
    /\ main = "start"
    /\ sessionHandle' = IF sessionHandle = Null THEN adhandle1 ELSE sessionHandle
    /\ main' = "stopCheck"
    /\ UNCHANGED <<sharedVars, startVars, index, stopRequested, callVars>>

\* Sniffer::Stop, and ~Sniffer when mainFunc returns.
StopSession ==
    /\ main = "stop"
    /\ closed' = closed \union ({sessionHandle} \ {Null})
    /\ sessionHandle' = Null
    /\ main' = "loop"
    /\ UNCHANGED <<quit_flag, d1, adhandle1, startVars, index, stopRequested, callVars>>

------------------------------------------------------------------------------
(* The exported functions                                                  *)

\* Caller c, which is in no call, calls f.
Call(c, f) ==
    /\ f \in Functions
    /\ caller[c] = "idle"
    /\ calls < MaxCalls
    /\ calls' = calls + 1

\* Caller c goes from one step of its call to the next.
Step(c, from, to) ==
    /\ caller[c] = from
    /\ caller' = [caller EXCEPT ![c] = to]
    /\ UNCHANGED <<dev, calls>>

\* fnPutdevCPPDLL(d): d1 = dev
Putdev(c, d) ==
    /\ Call(c, "fnPutdev")
    /\ d1' = d
    /\ dev' = [dev EXCEPT ![c] = d]
    /\ caller' = [caller EXCEPT ![c] = "putClear"]
    /\ UNCHANGED <<quit_flag, adhandle1, closed, startVars, mainVars, stopRequested>>

\* _adhandle1 = nullptr
PutClear(c) ==
    /\ Step(c, "putClear", "putPause")
    /\ adhandle1' = Null
    /\ UNCHANGED <<quit_flag, d1, closed, startVars, mainVars, stopRequested>>

\* if (quit_flag) quit_flag = false, without m and without a notification.
PutPause(c) ==
    /\ Step(c, "putPause", "putOpen")
    /\ quit_flag' = FALSE
    /\ UNCHANGED <<d1, adhandle1, closed, startVars, mainVars, stopRequested>>

\* After 20 ms: open the device, or catch the exception.  What _adhandle1 held
\* is not closed.
PutOpen(c) ==
    /\ Step(c, "putOpen", "putFlag")
    /\ adhandle1' \in OpenResults(dev[c])
    /\ closed' = closed \ {adhandle1'}
    /\ UNCHANGED <<quit_flag, d1, startVars, mainVars, stopRequested>>

PutFlag(c) ==
    /\ Step(c, "putFlag", "notify")
    /\ CanLock
    /\ quit_flag' = TRUE
    /\ UNCHANGED <<d1, adhandle1, closed, startVars, mainVars, stopRequested>>

\* fnStartCapture
StartCapture(c) ==
    /\ Call(c, "fnStartCapture")
    /\ CanLock
    /\ quit_flag' = TRUE
    /\ caller' = [caller EXCEPT ![c] = "notify"]
    /\ UNCHANGED <<d1, adhandle1, closed, startVars, mainVars, stopRequested, dev>>

\* Faulty variant of StopCapture: it does not notify.
StopCaptureSilent(c) ==
    /\ Call(c, "fnStopCapture")
    /\ CanLock
    /\ quit_flag' = FALSE
    /\ UNCHANGED <<d1, adhandle1, closed, startVars, mainVars, stopRequested, caller,
                   dev>>

\* fnStopCapture
StopCapture(c) ==
    /\ Call(c, "fnStopCapture")
    /\ CanLock
    /\ quit_flag' = FALSE
    /\ caller' = [caller EXCEPT ![c] = "notify"]
    /\ UNCHANGED <<d1, adhandle1, closed, startVars, mainVars, stopRequested, dev>>

\* cv.notify_one or cv.notify_all, after m is released.
Notify(c) ==
    /\ Step(c, "notify", "idle")
    /\ main' = Woken
    /\ UNCHANGED <<sharedVars, startVars, index, sessionHandle, stopRequested>>

\* fnCloseApp: request_stop and SetEvent if there is a thread.
CloseApp(c) ==
    /\ Call(c, "fnCloseApp")
    /\ IF main = "none"
         THEN /\ caller' = [caller EXCEPT ![c] = "closeHandles"]
              /\ UNCHANGED stopRequested
         ELSE /\ caller' = [caller EXCEPT ![c] = "closeFlag"]
              /\ stopRequested' = TRUE
    /\ UNCHANGED <<sharedVars, startVars, mainVars, dev>>

CloseFlag(c) ==
    /\ Step(c, "closeFlag", "closeNotify")
    /\ CanLock
    /\ quit_flag' = FALSE
    /\ UNCHANGED <<d1, adhandle1, closed, startVars, mainVars, stopRequested>>

CloseNotify(c) ==
    /\ Step(c, "closeNotify", "closeHandles")
    /\ main' = Woken
    /\ UNCHANGED <<sharedVars, startVars, index, sessionHandle, stopRequested>>

\* It returns without joining the thread.
CloseHandles(c) ==
    /\ Step(c, "closeHandles", "idle")
    /\ pipeHandle' = FALSE
    /\ eventHandle' = FALSE
    /\ UNCHANGED <<sharedVars, connecting, mainVars, stopRequested>>

------------------------------------------------------------------------------
ConnectNext == OpenEvent \/ ConnectPipe \/ StartThread

MainNext ==
    \/ LoopTest
    \/ CheckStart \/ BuildSession \/ StartSession
    \/ CheckStop \/ StopSession
    \/ Block

NewCall(c) ==
    \/ \E d \in Devices : Putdev(c, d)
    \/ StopCapture(c) \/ StartCapture(c) \/ CloseApp(c)

CallNext(c) ==
    \/ PutClear(c) \/ PutPause(c) \/ PutOpen(c) \/ PutFlag(c)
    \/ CloseFlag(c) \/ CloseNotify(c) \/ CloseHandles(c)
    \/ Notify(c)

DllNext ==
    \/ ConnectCall \/ ConnectNext
    \/ MainNext \/ SpuriousWakeup
    \/ \E c \in Callers : NewCall(c) \/ CallNext(c)

DllSafetySpec == DllInit /\ [][DllNext]_dllVars

\* Threads that can run do run, and a call that has begun goes on; clients owe
\* no calls, and the implementation of cv owes no spurious wake-up.
DllFairness ==
    /\ WF_dllVars(ConnectNext)
    /\ WF_dllVars(MainNext)
    /\ \A c \in Callers : WF_dllVars(CallNext(c))

DllSpec == DllSafetySpec /\ DllFairness

------------------------------------------------------------------------------
(* Properties                                                              *)

Quiet == \A c \in Callers : caller[c] = "idle"

HasThread == main \notin {"none", "exited"} /\ ~stopRequested

\* A session captures from an open handle, or from none: what ~Sniffer closed
\* (Sniffer.cpp:284) is never captured from again.  mainFunc.cpp:59 says of the
\* fallback in Sniffer::Start "use global _adhandle1".
CapturesFromOpenHandle ==
    main \in {"stopCheck", "stopBlock", "stopWait"} => sessionHandle \notin closed

\* No signal is lost: the capture thread sleeps on a predicate that has come
\* true only while a notification is on its way, or, for the stop, in the gap
\* of a fnPutdevCPPDLL that has cleared quit_flag without m and without a
\* notification (ipc.cpp:153) and is about to set it again.
NoLostSignal ==
    /\ main = "startWait" /\ quit_flag => \E c \in Callers : caller[c] = "notify"
    /\ main = "stopWait" /\ ~quit_flag =>
         \E c \in Callers : caller[c] \in {"notify", "closeNotify", "putOpen", "putFlag"}

\* Once no call is under way the capture thread follows the flag, whatever the
\* interleaving of its two cv.wait with the calls (ipc.cpp:166-180, 212-216).  A
\* start signal makes it run a session; a stop signal ends the session, also one
\* that was just being built; fnCloseApp during a session makes it leave its loop.
SignalsHeeded ==
    /\ (Quiet /\ quit_flag /\ HasThread) ~> (InSession \/ ~Quiet)
    /\ (Quiet /\ ~quit_flag) ~> (~InSession \/ ~Quiet)
    /\ (Quiet /\ stopRequested /\ ~quit_flag /\ InSession)
           ~> (main = "exited" \/ ~Quiet)

\* "Get the latest device index from the global atomic variable"
\* (mainFunc.cpp:54): once a device has been put and no call is under way, the
\* capture thread captures from it.
LatestDeviceCaptured ==
    (Quiet /\ quit_flag /\ HasThread) ~> ((InSession /\ index = d1) \/ ~Quiet)
==============================================================================
