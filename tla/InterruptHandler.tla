--------------------------- MODULE InterruptHandler ---------------------------
(***************************************************************************)
(* ApplicationEventHandler of SystemUtils.cpp: what an application wants   *)
(* called when it is interrupted.  Interrupts are handled on whichever     *)
(* thread they hit, on Windows on a new one each time; on other systems    *)
(* the handler takes a mutex, calls, and forgets whom it has called.  A    *)
(* registration takes no mutex and may be changed while an interrupt is    *)
(* being handled.                                                          *)
(***************************************************************************)
EXTENDS Integers

CONSTANTS
    Threads,             \* threads an interrupt may hit
    MaxRegistrations     \* bound: calls of onApplicationInterrupted

ASSUME HandlerAssumption == MaxRegistrations \in Nat

Nobody == 0
Registrations == 1..MaxRegistrations

VARIABLES
    windows,             \* the build
    registered,          \* calls of onApplicationInterrupted so far
    registering,         \* where the last one is
    m_ApplicationInterruptedHandler,    \* the number of a registration
    m_ApplicationInterruptedCookie,     \* the same
    installed,           \* the system knows handlerRoutine
    routine,             \* per thread: where its handlerRoutine is
    called,              \* per registration: never, once, or more often
    mismatched           \* a handler was called with another one's cookie

handlerVars == <<windows, registered, registering, m_ApplicationInterruptedHandler,
                 m_ApplicationInterruptedCookie, installed, routine, called, mismatched>>

registration == <<registered, registering, m_ApplicationInterruptedCookie, installed>>

HandlerInit ==
    /\ windows \in BOOLEAN
    /\ registered = 0
    /\ registering = "no"
    /\ m_ApplicationInterruptedHandler = Nobody
    /\ m_ApplicationInterruptedCookie = Nobody
    /\ installed = FALSE
    /\ routine = [t \in Threads |-> "idle"]
    /\ called = [r \in Registrations |-> 0]
    /\ mismatched = FALSE

\* onApplicationInterrupted, step by step.
SetHandler ==
    /\ registering = "no"
    /\ registered < MaxRegistrations
    /\ registered' = registered + 1
    /\ m_ApplicationInterruptedHandler' = registered'
    /\ registering' = "cookie"
    /\ UNCHANGED <<windows, m_ApplicationInterruptedCookie, installed, routine, called,
                   mismatched>>

SetCookie ==
    /\ registering = "cookie"
    /\ m_ApplicationInterruptedCookie' = registered
    /\ registering' = "install"
    /\ UNCHANGED <<windows, registered, m_ApplicationInterruptedHandler, installed,
                   routine, called, mismatched>>

Install ==
    /\ registering = "install"
    /\ installed' = TRUE
    /\ registering' = "no"
    /\ UNCHANGED <<windows, registered, m_ApplicationInterruptedHandler,
                   m_ApplicationInterruptedCookie, routine, called, mismatched>>

\* Thread t goes from one step of its routine to the next.
Goes(t, from, to) ==
    /\ routine[t] = from
    /\ routine' = [routine EXCEPT ![t] = to]
    /\ UNCHANGED <<windows, registration>>

\* A thread that handles an interrupt is not hit by another.
Interrupt(t) ==
    /\ installed
    /\ Goes(t, "idle", IF windows THEN "test" ELSE "lock")
    /\ UNCHANGED <<m_ApplicationInterruptedHandler, called, mismatched>>

\* UnixLinuxHandlerRoutineMutex
Locked == \E t \in Threads : routine[t] \in {"test", "call", "clear"}

\* Faulty variant of Lock: the mutex is not taken.
LockMissing(t) ==
    /\ Goes(t, "lock", "test")
    /\ UNCHANGED <<m_ApplicationInterruptedHandler, called, mismatched>>

Lock(t) ==
    /\ ~Locked
    /\ Goes(t, "lock", "test")
    /\ UNCHANGED <<m_ApplicationInterruptedHandler, called, mismatched>>

Test(t) ==
    /\ Goes(t, "test", IF m_ApplicationInterruptedHandler # Nobody THEN "call"
                       ELSE IF windows THEN "idle" ELSE "clear")
    /\ UNCHANGED <<m_ApplicationInterruptedHandler, called, mismatched>>

\* Handler and cookie are read once more.
Call(t) ==
    /\ Goes(t, "call", IF windows THEN "idle" ELSE "clear")
    /\ LET r == m_ApplicationInterruptedHandler IN
       called' = [called EXCEPT ![r] = IF @ = 2 THEN 2 ELSE @ + 1]
    /\ mismatched' = (mismatched \/ m_ApplicationInterruptedHandler
                                      # m_ApplicationInterruptedCookie)
    /\ UNCHANGED m_ApplicationInterruptedHandler

\* Whoever has registered meanwhile is forgotten, too.
Clear(t) ==
    /\ Goes(t, "clear", "idle")
    /\ m_ApplicationInterruptedHandler' = Nobody
    /\ UNCHANGED <<called, mismatched>>

HandlerNext ==
    \/ SetHandler \/ SetCookie \/ Install
    \/ \E t \in Threads : Interrupt(t) \/ Lock(t) \/ Test(t) \/ Call(t) \/ Clear(t)

HandlerSafetySpec == HandlerInit /\ [][HandlerNext]_handlerVars

\* "make sure the signal is called only once" (SystemUtils.cpp:348): no registration
\* is called twice, whichever threads are hit and whenever the next is registered;
\* on Windows nothing keeps it from that.  A handler gets its own cookie unless it
\* is registered in the place of an earlier one.
CalledOnce ==
    /\ windows \/ \A r \in Registrations : called[r] < 2
    /\ mismatched => registered > 1
==============================================================================
