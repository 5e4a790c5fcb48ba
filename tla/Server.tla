-------------------------------- MODULE Server --------------------------------
(***************************************************************************)
(* The Server: its own thread, which runs every task, and the threads that *)
(* hand tasks over to it: the ServerManager, every two seconds; the        *)
(* SocketManager, at each event; and the pool's threads, for each piece of *)
(* a packet they have decoded.  The interest is in the shutdown, where the *)
(* server's thread stops all the others one after the other.               *)
(*                                                                         *)
(* The server, the manager and the socket manager are Startables and the   *)
(* workers PoolThreads, of which only what concerns the tasks is kept:     *)
(* a join waits for the end of the thread (see Startable and PoolThread).  *)
(***************************************************************************)
EXTENDS TaskHandler

CONSTANTS
    Workers,    \* the pool's threads
    MaxPieces,  \* bound: pieces of a packet
    MaxEvents,  \* bound: events of the sockets
    MaxJobs,    \* bound: jobs given to the pool
    MaxStarts   \* bound: calls of start

ASSUME ServerAssumption ==
    /\ Threads = Workers \cup {"manager", "sockets"}
    /\ Workers \cap {"manager", "sockets"} = {}
    /\ {MaxPieces, MaxEvents, MaxJobs, MaxStarts} \subseteq Nat

VARIABLES
    server,       \* where the server's thread is
    stopAsked,    \* the server's Startable::_stop, set from outside
    wake,         \* its _wakeUpSignal
    managerStop,  \* the manager's Startable::_stop
    closed,       \* the socket manager's event pipe is closed
    socketsLast,  \* its thread has left its loop: one task more and it ends
    failed,       \* its _ex is set: epoll_wait failed
    jobs,         \* the queue of each worker: the pieces each job will hand over
    events, given, starts  \* counters of the bounds

serverVars == <<server, stopAsked, wake, managerStop, closed, socketsLast, failed,
                jobs, events, given, starts>>
vars == <<taskVars, serverVars>>

-----------------------------------------------------------------------------
(* The threads                                                             *)

\* waitHandle's requestHandle wakes the server up.
Request(t) ==
    /\ place[t] = "asking"
    /\ wake' = TRUE
    /\ place' = [place EXCEPT ![t] = "waiting"]
    /\ UNCHANGED <<tasksStopped, pTask, taskSignal, mutexWait, handling, handled,
                   server, stopAsked, managerStop, closed, socketsLast, failed,
                   jobs, events, given, starts>>

WaitHandle(t) ==
    \/ Request(t)
    \/ (Enter(t) \/ Refuse(t) \/ Ask(t) \/ Answered(t)) /\ UNCHANGED serverVars

Returned(t) == place[t] \in {"answered", "refused"}

Goes(t, to) ==
    /\ place' = [place EXCEPT ![t] = to]
    /\ UNCHANGED <<tasksStopped, pTask, taskSignal, mutexWait, handling, handled>>

\* The manager sleeps two seconds between its tasks.
ManagerSleeps ==
    /\ Returned("manager")
    /\ Goes("manager", "idle")
    /\ UNCHANGED serverVars

ManagerWakes ==
    /\ place["manager"] = "idle"
    /\ Goes("manager", IF managerStop THEN "ended" ELSE "enter")
    /\ UNCHANGED serverVars

\* The socket manager waits for events until its pipe is closed or fails.
SocketEvent ==
    /\ place["sockets"] = "idle"
    /\ events < MaxEvents
    /\ events' = events + 1
    /\ Goes("sockets", "enter")
    /\ UNCHANGED <<server, stopAsked, wake, managerStop, closed, socketsLast, failed,
                   jobs, given, starts>>

SocketsFail ==
    /\ place["sockets"] = "idle"
    /\ events < MaxEvents
    /\ events' = events + 1
    /\ failed' = TRUE
    /\ socketsLast' = TRUE
    /\ Goes("sockets", "enter")
    /\ UNCHANGED <<server, stopAsked, wake, managerStop, closed, jobs, given, starts>>

SocketsLeave ==
    /\ place["sockets"] = "idle"
    /\ closed
    /\ socketsLast' = TRUE
    /\ Goes("sockets", "enter")
    /\ UNCHANGED <<server, stopAsked, wake, managerStop, closed, failed, jobs, events,
                   given, starts>>

SocketsGoOn ==
    /\ Returned("sockets")
    /\ Goes("sockets", IF socketsLast THEN "ended" ELSE "idle")
    /\ UNCHANGED serverVars

\* A worker hands its packet over piece by piece, whatever waitHandle answers,
\* then takes the job off its queue; without the test of _size it would go on.
WorkerOvershoots(w) ==
    /\ place[w] \in {"idle", "answered", "refused"}
    /\ jobs[w] # <<>>
    /\ jobs' = [jobs EXCEPT ![w] = <<Head(@) - 1>> \o Tail(@)]
    /\ Goes(w, "enter")
    /\ UNCHANGED <<server, stopAsked, wake, managerStop, closed, socketsLast, failed,
                   events, given, starts>>

WorkerHandsOver(w) ==
    /\ place[w] \in {"idle", "answered", "refused"}
    /\ jobs[w] # <<>> /\ Head(jobs[w]) > 0
    /\ jobs' = [jobs EXCEPT ![w] = <<Head(@) - 1>> \o Tail(@)]
    /\ Goes(w, "enter")
    /\ UNCHANGED <<server, stopAsked, wake, managerStop, closed, socketsLast, failed,
                   events, given, starts>>

WorkerPops(w) ==
    /\ place[w] \in {"idle", "answered", "refused"}
    /\ jobs[w] # <<>> /\ Head(jobs[w]) = 0
    /\ jobs' = [jobs EXCEPT ![w] = Tail(@)]
    /\ Goes(w, "idle")
    /\ UNCHANGED <<server, stopAsked, wake, managerStop, closed, socketsLast, failed,
                   events, given, starts>>

-----------------------------------------------------------------------------
(* The server's thread: start and loop                                     *)

\* Some job given to a worker, or none: n pieces to decode, or with none a
\* packet to send.
Enqueue(sizes) ==
    \/ UNCHANGED <<jobs, given>>
    \/ /\ given < MaxJobs
       /\ given' = given + 1
       /\ \E w \in Workers, n \in sizes : jobs' = [jobs EXCEPT ![w] = Append(@, n)]

\* start, and run up to its loop.  The sockets' thread, the relay's or the
\* manager's may not start, and the sockets' thread may fail at once; it does
\* when it failed the last time, because nothing resets _ex.
Start ==
    /\ server = "down"
    /\ starts < MaxStarts
    /\ starts' = starts + 1
    /\ StartTasks
    /\ stopAsked' = FALSE /\ wake' = FALSE
    /\ managerStop' = FALSE /\ closed' = FALSE
    /\ failed' \in {failed, TRUE}
    /\ socketsLast' = failed'
    /\ \E up \in {{}, {"sockets"}, {"sockets", "manager"}} :
        /\ server' = IF "manager" \in up THEN "sleeping" ELSE "ending"
        /\ failed' => failed \/ "sockets" \in up
        /\ place' = [t \in Threads |->
                        IF t \in Workers \/ (t = "sockets" /\ t \in up /\ ~failed')
                        THEN "idle"
                        ELSE IF t \in up THEN "enter" ELSE "ended"]
    /\ UNCHANGED <<pTask, taskSignal, mutexWait, handling, handled, jobs, events, given>>

\* sleep: STOP when the server was asked to stop.
Sleep ==
    /\ server = "sleeping"
    /\ stopAsked \/ wake
    /\ wake' = (wake /\ stopAsked)
    /\ server' = IF stopAsked THEN "ending" ELSE "awake"
    /\ UNCHANGED <<taskVars, stopAsked, managerStop, closed, socketsLast, failed, jobs,
                   events, given, starts>>

Give ==
    /\ server = "awake"
    /\ GiveHandle
    /\ server' = IF pTask = "nobody" THEN "sleeping" ELSE "handling"
    /\ UNCHANGED <<stopAsked, wake, managerStop, closed, socketsLast, failed, jobs,
                   events, given, starts>>

\* The tasks make sessions receive and send; the failure of the sockets ends
\* the server.
Handle ==
    /\ server = "handling"
    /\ HandleGiven
    /\ server' = IF pTask = "sockets" /\ failed THEN "ending" ELSE "sleeping"
    /\ Enqueue(IF pTask = "sockets" THEN 0..MaxPieces ELSE {0})
    /\ UNCHANGED <<stopAsked, wake, managerStop, closed, socketsLast, failed, events,
                   starts>>

-----------------------------------------------------------------------------
(* The server's thread: shutdown                                           *)

StopAsked ==
    /\ server # "down"
    /\ ~stopAsked
    /\ stopAsked' = TRUE
    /\ wake' = TRUE
    /\ UNCHANGED <<taskVars, server, managerStop, closed, socketsLast, failed, jobs,
                   events, given, starts>>

EndTasks ==
    /\ server = "ending"
    /\ StopTasks
    /\ server' = "stoppingManager"
    /\ UNCHANGED <<stopAsked, wake, managerStop, closed, socketsLast, failed, jobs,
                   events, given, starts>>

StopManager ==
    /\ server = "stoppingManager"
    /\ managerStop' = TRUE
    /\ server' = "joiningManager"
    /\ UNCHANGED <<taskVars, stopAsked, wake, closed, socketsLast, failed, jobs, events,
                   given, starts>>

\* Then the sessions go, with a last message for their clients.
ManagerJoined ==
    /\ server = "joiningManager"
    /\ place["manager"] = "ended"
    /\ server' = "stoppingSockets"
    /\ Enqueue({0})
    /\ UNCHANGED <<taskVars, stopAsked, wake, managerStop, closed, socketsLast, failed,
                   events, starts>>

StopSockets ==
    /\ server = "stoppingSockets"
    /\ closed' = TRUE
    /\ server' = "joiningSockets"
    /\ UNCHANGED <<taskVars, stopAsked, wake, managerStop, socketsLast, failed, jobs,
                   events, given, starts>>

SocketsJoined ==
    /\ server = "joiningSockets"
    /\ place["sockets"] = "ended"
    /\ server' = "joiningPool"
    /\ UNCHANGED <<taskVars, stopAsked, wake, managerStop, closed, socketsLast, failed,
                   jobs, events, given, starts>>

\* Without poolThreads.join.
PoolUnjoined ==
    /\ server = "joiningPool"
    /\ server' = "down"
    /\ UNCHANGED <<taskVars, stopAsked, wake, managerStop, closed, socketsLast, failed,
                   jobs, events, given, starts>>

PoolJoined ==
    /\ server = "joiningPool"
    /\ \A w \in Workers : jobs[w] = <<>>
    /\ server' = "down"
    /\ UNCHANGED <<taskVars, stopAsked, wake, managerStop, closed, socketsLast, failed,
                   jobs, events, given, starts>>

-----------------------------------------------------------------------------
Init ==
    /\ TaskInit
    /\ server = "down"
    /\ stopAsked = FALSE
    /\ wake = FALSE
    /\ managerStop = FALSE
    /\ closed = FALSE
    /\ socketsLast = FALSE
    /\ failed = FALSE
    /\ jobs = [w \in Workers |-> <<>>]
    /\ events = 0
    /\ given = 0
    /\ starts = 0

ServerStep ==
    \/ Sleep \/ Give \/ Handle
    \/ EndTasks \/ StopManager \/ ManagerJoined \/ StopSockets \/ SocketsJoined
    \/ PoolJoined

ManagerStep == WaitHandle("manager") \/ ManagerSleeps \/ ManagerWakes

SocketsStep == WaitHandle("sockets") \/ SocketsLeave \/ SocketsGoOn

WorkerStep(w) == WaitHandle(w) \/ WorkerHandsOver(w) \/ WorkerPops(w)

Next ==
    \/ Start \/ StopAsked \/ SocketEvent \/ SocketsFail
    \/ ServerStep \/ ManagerStep \/ SocketsStep
    \/ \E w \in Workers : WorkerStep(w)

Spec == Init /\ [][Next]_vars

\* The operating system runs every thread that is not blocked.  _mutexWait is
\* free again and again for the two seconds of the manager's sleep, the only
\* thread that asks for it for ever: who waits for it gets it.
FairSpec ==
    /\ Spec
    /\ WF_vars(ServerStep) /\ WF_vars(ManagerStep) /\ WF_vars(SocketsStep)
    /\ \A w \in Workers : WF_vars(WorkerStep(w))
    /\ \A t \in Threads : SF_vars(Enter(t) /\ UNCHANGED serverVars)

-----------------------------------------------------------------------------
(* Properties                                                              *)

\* Every variable keeps its type.
TypeOK ==
    /\ TaskTypeOK
    /\ server \in {"down", "sleeping", "awake", "handling", "ending",
                   "stoppingManager", "joiningManager", "stoppingSockets",
                   "joiningSockets", "joiningPool"}
    /\ stopAsked \in BOOLEAN /\ wake \in BOOLEAN /\ managerStop \in BOOLEAN
    /\ closed \in BOOLEAN /\ socketsLast \in BOOLEAN /\ failed \in BOOLEAN
    /\ jobs \in [Workers -> Seq(Nat)]
    /\ events \in Nat /\ given \in Nat /\ starts \in Nat

\* While the server runs a task, the thread it belongs to is inside waitHandle:
\* the task, and the packet it points into, are not touched by both.
HandledWhileWaiting == handling => place[pTask] \in {"asking", "waiting"}

\* Unless the tasks are stopped, a thread goes on only when its task was run.
AnsweredWasHandled ==
    \A t \in Threads : (place[t] = "answered" /\ ~tasksStopped) => handled[t]

\* A task runs while its thread waits for it, and a thread goes on when its
\* own has run.
HandOverSound == HandledWhileWaiting /\ AnsweredWasHandled

\* When the server has stopped, no thread is in waitHandle and every job given
\* to the pool, the last messages of the sessions included, has been done.
DownIsQuiet ==
    server = "down" =>
        /\ \A t \in Threads : place[t] \in OutOfCall
        /\ \A w \in Workers : jobs[w] = <<>>

\* A thread that waits for its task goes on, in the shutdown too: again and
\* again nobody waits.
EveryWaitEnds == []<>(\A t \in Threads : place[t] # "waiting")

\* A server that is asked to stop, or whose sockets fail, stops.
ServerStops == (stopAsked \/ failed) ~> (server = "down")

\* Nobody waits for ever, the shutdown included.
ShutdownEnds == EveryWaitEnds /\ ServerStops
=============================================================================
