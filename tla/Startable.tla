------------------------------- MODULE Startable -------------------------------
(***************************************************************************)
(* A Startable: an object with a thread of its own that other threads, its *)
(* callers, start, wake up and stop.  PoolThread, Database, Server and the *)
(* managers derive from it; run, what the thread does between two sleeps,  *)
(* is the derived class's.                                                 *)
(*                                                                         *)
(* A step ends where a thread may have to wait: for a mutex, for the wake  *)
(* up signal or in join.  'waiter' and 'worker' are the places where the   *)
(* callers and the thread are.  Signal's own mutex is never held across a  *)
(* step, so a call of set, reset or wait's end is part of one.             *)
(***************************************************************************)
EXTENDS Integers, Sequences

CONSTANTS
    Callers  \* the threads that call start and stop

ASSUME CallersAssumption == Callers \cap {"nobody", "worker"} = {}

VARIABLES
    stopped,   \* _stop
    signal,    \* _wakeUpSignal's _set
    mutex,     \* who holds _mutex
    mutexStop, \* who holds _mutexStop
    worker,    \* where _thread is; "none" when it is not joinable
    woken,     \* what sleep returned last
    waiter     \* where each caller is

startableVars == <<stopped, signal, mutex, mutexStop, worker, woken, waiter>>

\* The thread exists and has not ended.
Alive == {"sleep", "waiting", "awake", "working", "worked", "stopping", "leaving"}

Places == {"out", "pushing", "started", "refused", "starting", "startLocked",
           "startJoining", "stop", "stopLocked", "stopSignal", "stopJoining",
           "returned"}

-----------------------------------------------------------------------------
(* start, called at "starting": returns at "started" or "refused"          *)

StartEnter(c) ==
    /\ waiter[c] = "starting"
    /\ mutex = "nobody"
    /\ IF stopped
       THEN mutex' = c /\ waiter' = [waiter EXCEPT ![c] = "startLocked"]
       ELSE waiter' = [waiter EXCEPT ![c] = "started"] /\ UNCHANGED mutex
    /\ UNCHANGED <<stopped, signal, mutexStop, worker, woken>>

StartLockStop(c) ==
    /\ waiter[c] = "startLocked"
    /\ mutexStop = "nobody"
    /\ mutexStop' = c
    /\ waiter' = [waiter EXCEPT ![c] = "startJoining"]
    /\ UNCHANGED <<stopped, signal, mutex, worker, woken>>

\* join returns when the thread it waits for, if any, has ended.
Joinable == worker \notin Alive

StartThread(c) ==
    /\ waiter[c] = "startJoining"
    /\ Joinable
    /\ signal' = FALSE
    /\ stopped' = FALSE
    /\ worker' = "sleep"
    /\ mutex' = "nobody"
    /\ mutexStop' = "nobody"
    /\ waiter' = [waiter EXCEPT ![c] = "started"]
    /\ UNCHANGED woken

\* The system has no thread left to give.
StartFails(c) ==
    /\ waiter[c] = "startJoining"
    /\ Joinable
    /\ signal' = FALSE
    /\ stopped' = TRUE
    /\ worker' = "none"
    /\ mutex' = "nobody"
    /\ mutexStop' = "nobody"
    /\ waiter' = [waiter EXCEPT ![c] = "refused"]
    /\ UNCHANGED woken

-----------------------------------------------------------------------------
(* stop, called at "stop" by another thread: returns at "returned"         *)

StopEnter(c) ==
    /\ waiter[c] = "stop"
    /\ mutex = "nobody"
    /\ mutex' = c
    /\ waiter' = [waiter EXCEPT ![c] = "stopLocked"]
    /\ UNCHANGED <<stopped, signal, mutexStop, worker, woken>>

\* When _stop is set already, _mutexStop is held until the thread is joined.
StopCheck(c) ==
    /\ waiter[c] = "stopLocked"
    /\ mutexStop = "nobody"
    /\ IF stopped
       THEN /\ mutexStop' = c
            /\ waiter' = [waiter EXCEPT ![c] = "stopJoining"]
       ELSE /\ waiter' = [waiter EXCEPT ![c] = "stopSignal"]
            /\ UNCHANGED mutexStop
    /\ stopped' = TRUE
    /\ UNCHANGED <<signal, mutex, worker, woken>>

StopSignal(c) ==
    /\ waiter[c] = "stopSignal"
    /\ signal' = TRUE
    /\ waiter' = [waiter EXCEPT ![c] = "stopJoining"]
    /\ UNCHANGED <<stopped, mutex, mutexStop, worker, woken>>

StopJoined(c) ==
    /\ waiter[c] = "stopJoining"
    /\ Joinable
    /\ worker' = "none"
    /\ mutex' = "nobody"
    /\ mutexStop' = IF mutexStop = c THEN "nobody" ELSE mutexStop
    /\ waiter' = [waiter EXCEPT ![c] = "returned"]
    /\ UNCHANGED <<stopped, signal, woken>>

-----------------------------------------------------------------------------
(* The thread: sleep, its own call of stop, and the end of process         *)

Sleep ==
    /\ worker = "sleep"
    /\ IF stopped
       THEN worker' = "awake" /\ woken' = "STOP"
       ELSE worker' = "waiting" /\ UNCHANGED woken
    /\ UNCHANGED <<stopped, signal, mutex, mutexStop, waiter>>

WakeUp ==
    /\ worker = "waiting"
    /\ signal
    /\ signal' = FALSE
    /\ worker' = "awake"
    /\ woken' = IF stopped THEN "STOP" ELSE "WAKEUP"
    /\ UNCHANGED <<stopped, mutex, mutexStop, waiter>>

\* A wait whose delay (two minutes in a PoolThread) runs out takes a signal set meanwhile with it.
TimeOut ==
    /\ worker = "waiting"
    /\ signal' = FALSE
    /\ worker' = "awake"
    /\ woken' = IF stopped THEN "STOP" ELSE "TIMEOUT"
    /\ UNCHANGED <<stopped, mutex, mutexStop, waiter>>

\* stop called by the thread itself; run returns after it.
SelfStopOrdinary ==
    /\ worker = "stopping"
    /\ mutex = "nobody" /\ mutexStop = "nobody"
    /\ mutex' = "worker"
    /\ stopped' = TRUE
    /\ worker' = "leaving"
    /\ UNCHANGED <<signal, mutexStop, woken, waiter>>

SelfStop ==
    /\ worker = "stopping"
    /\ mutexStop = "nobody"
    /\ stopped' = TRUE
    /\ worker' = "leaving"
    /\ UNCHANGED <<signal, mutex, mutexStop, woken, waiter>>

ThreadEnds ==
    /\ worker = "leaving"
    /\ mutexStop = "nobody"
    /\ stopped' = TRUE
    /\ worker' = "ended"
    /\ UNCHANGED <<signal, mutex, mutexStop, woken, waiter>>

-----------------------------------------------------------------------------
StartableInit ==
    /\ stopped = TRUE
    /\ signal = FALSE
    /\ mutex = "nobody"
    /\ mutexStop = "nobody"
    /\ worker = "none"
    /\ woken = "STOP"
    /\ waiter = [c \in Callers |-> "out"]

StartableTypeOK ==
    /\ stopped \in BOOLEAN
    /\ signal \in BOOLEAN
    /\ mutex \in Callers \cup {"nobody"}
    /\ mutexStop \in Callers \cup {"nobody"}
    /\ worker \in Alive \cup {"none", "ended"}
    /\ woken \in {"WAKEUP", "TIMEOUT", "STOP"}
    /\ waiter \in [Callers -> Places]
=============================================================================
