------------------------------ MODULE PoolThread ------------------------------
(***************************************************************************)
(* One thread of the server's pool: the packets a session decodes or sends *)
(* are pushed, always to the session's own PoolThread, and run there one   *)
(* after the other.  The thread is started by the first push, ends after   *)
(* two minutes without work, and is started again by the next push; join   *)
(* stops it once the queue is empty.                                       *)
(***************************************************************************)
EXTENDS Startable

CONSTANTS
    Pushers,   \* the callers that push
    Joiners,   \* the callers that join
    MaxPushes, \* bound: calls of push
    MaxJoins   \* bound: calls of join

ASSUME PoolAssumption ==
    /\ Pushers \cup Joiners \subseteq Callers
    /\ {MaxPushes, MaxJoins} \subseteq Nat

VARIABLES
    jobs,       \* _jobs
    jobsMutex,  \* who holds PoolThread::_mutex
    accepted,   \* history: the jobs put in the queue, in order
    ran,        \* history: the jobs run, in order
    pushes,     \* calls of push so far; the next job's name
    joins,      \* calls of join so far
    due         \* history: how many jobs had been accepted when join was called

poolVars == <<jobs, jobsMutex, accepted, ran, pushes, joins, due>>
vars == <<startableVars, poolVars>>

-----------------------------------------------------------------------------
(* push                                                                    *)

\* push holds the queue's mutex to its end, through start.
Push(c) ==
    /\ waiter[c] = "out"
    /\ pushes < MaxPushes
    /\ pushes' = pushes + 1
    /\ waiter' = [waiter EXCEPT ![c] = "pushing"]
    /\ UNCHANGED <<stopped, signal, mutex, mutexStop, worker, woken, jobs,
                   jobsMutex, accepted, ran, joins, due>>

PushEnter(c) ==
    /\ waiter[c] = "pushing"
    /\ jobsMutex = "nobody"
    /\ jobsMutex' = c
    /\ waiter' = [waiter EXCEPT ![c] = IF stopped THEN "starting" ELSE "started"]
    /\ UNCHANGED <<stopped, signal, mutex, mutexStop, worker, woken, jobs,
                   accepted, ran, pushes, joins, due>>

PushAccepted(c) ==
    /\ waiter[c] = "started"
    /\ jobs' = Append(jobs, Len(accepted) + 1)
    /\ accepted' = Append(accepted, Len(accepted) + 1)
    /\ signal' = TRUE
    /\ jobsMutex' = "nobody"
    /\ waiter' = [waiter EXCEPT ![c] = "out"]
    /\ UNCHANGED <<stopped, mutex, mutexStop, worker, woken, ran, pushes, joins, due>>

PushRefused(c) ==
    /\ waiter[c] = "refused"
    /\ jobsMutex' = "nobody"
    /\ waiter' = [waiter EXCEPT ![c] = "out"]
    /\ UNCHANGED <<stopped, signal, mutex, mutexStop, worker, woken, jobs,
                   accepted, ran, pushes, joins, due>>

-----------------------------------------------------------------------------
(* join                                                                    *)

Join(c) ==
    /\ waiter[c] = "out"
    /\ joins < MaxJoins
    /\ joins' = joins + 1
    /\ due' = [due EXCEPT ![c] = Len(accepted)]
    /\ waiter' = [waiter EXCEPT ![c] = "stop"]
    /\ UNCHANGED <<stopped, signal, mutex, mutexStop, worker, woken, jobs,
                   jobsMutex, accepted, ran, pushes>>

JoinReturns(c) ==
    /\ waiter[c] = "returned"
    /\ waiter' = [waiter EXCEPT ![c] = "out"]
    /\ UNCHANGED <<stopped, signal, mutex, mutexStop, worker, woken, poolVars>>

-----------------------------------------------------------------------------
(* run                                                                     *)

\* With the queue empty: back to sleep, or stop, called with the queue's mutex
\* held, when sleep did not return WAKEUP.
TakeReleasing ==
    /\ worker = "awake"
    /\ jobsMutex = "nobody"
    /\ worker' = IF jobs # <<>> THEN "working"
                 ELSE IF woken # "WAKEUP" THEN "stopping" ELSE "sleep"
    /\ UNCHANGED <<stopped, signal, mutex, mutexStop, woken, waiter, jobs, jobsMutex,
                   accepted, ran, pushes, joins, due>>

TakeDeaf ==
    /\ worker = "awake"
    /\ jobsMutex = "nobody"
    /\ \/ /\ jobs # <<>>
          /\ worker' = IF woken = "TIMEOUT" THEN "sleep" ELSE "working"
          /\ UNCHANGED jobsMutex
       \/ /\ jobs = <<>> /\ woken # "WAKEUP"
          /\ worker' = "stopping"
          /\ jobsMutex' = "worker"
       \/ /\ jobs = <<>> /\ woken = "WAKEUP"
          /\ worker' = "sleep"
          /\ UNCHANGED jobsMutex
    /\ UNCHANGED <<stopped, signal, mutex, mutexStop, woken, waiter, jobs,
                   accepted, ran, pushes, joins, due>>

Take ==
    /\ worker = "awake"
    /\ jobsMutex = "nobody"
    /\ \/ /\ jobs # <<>>
          /\ worker' = "working"
          /\ UNCHANGED jobsMutex
       \/ /\ jobs = <<>> /\ woken # "WAKEUP"
          /\ worker' = "stopping"
          /\ jobsMutex' = "worker"
       \/ /\ jobs = <<>> /\ woken = "WAKEUP"
          /\ worker' = "sleep"
          /\ UNCHANGED jobsMutex
    /\ UNCHANGED <<stopped, signal, mutex, mutexStop, woken, waiter, jobs,
                   accepted, ran, pushes, joins, due>>

\* The job's own errors are logged and change nothing here.
Work ==
    /\ worker = "working"
    /\ ran' = Append(ran, Head(jobs))
    /\ worker' = "worked"
    /\ UNCHANGED <<stopped, signal, mutex, mutexStop, woken, waiter, jobs,
                   jobsMutex, accepted, pushes, joins, due>>

Pop ==
    /\ worker = "worked"
    /\ jobsMutex = "nobody"
    /\ jobs' = Tail(jobs)
    /\ worker' = "awake"
    /\ UNCHANGED <<stopped, signal, mutex, mutexStop, woken, waiter, jobsMutex,
                   accepted, ran, pushes, joins, due>>

\* run returns from its own call of stop and releases the queue's mutex.
Leave ==
    /\ SelfStop
    /\ jobsMutex' = IF jobsMutex = "worker" THEN "nobody" ELSE jobsMutex
    /\ UNCHANGED <<jobs, accepted, ran, pushes, joins, due>>

-----------------------------------------------------------------------------
Init ==
    /\ StartableInit
    /\ jobs = <<>>
    /\ jobsMutex = "nobody"
    /\ accepted = <<>>
    /\ ran = <<>>
    /\ pushes = 0
    /\ joins = 0
    /\ due = [c \in Callers |-> 0]

\* The steps of a call that has begun.
CallStep(c) ==
    \/ PushEnter(c)
    \/ PushAccepted(c)
    \/ PushRefused(c)
    \/ JoinReturns(c)
    \/ /\ \/ StartEnter(c)
          \/ StartLockStop(c)
          \/ StartThread(c)
          \/ StartFails(c)
          \/ StopEnter(c)
          \/ StopCheck(c)
          \/ StopSignal(c)
          \/ StopJoined(c)
       /\ UNCHANGED poolVars

WorkerStep ==
    \/ Take
    \/ Work
    \/ Pop
    \/ Leave
    \/ (Sleep \/ WakeUp \/ TimeOut \/ ThreadEnds) /\ UNCHANGED poolVars

Next ==
    \/ \E c \in Pushers : Push(c)
    \/ \E c \in Joiners : Join(c)
    \/ \E c \in Callers : CallStep(c)
    \/ WorkerStep

Spec == Init /\ [][Next]_vars

\* The operating system runs every thread that is not blocked.
FairSpec ==
    /\ Spec
    /\ \A c \in Callers : WF_vars(CallStep(c))
    /\ WF_vars(WorkerStep)

-----------------------------------------------------------------------------
(* Properties                                                              *)

\* Every variable keeps its type.
TypeOK ==
    /\ StartableTypeOK
    /\ jobs \in Seq(Nat)
    /\ jobsMutex \in Callers \cup {"nobody", "worker"}
    /\ accepted \in Seq(Nat)
    /\ ran \in Seq(Nat)
    /\ pushes \in Nat
    /\ joins \in Nat
    /\ due \in [Callers -> Nat]

\* Jobs run in the order in which they were pushed, each once: the queue holds
\* what is left, its head included while it runs.
RunInOrder ==
    accepted = ran \o (IF worker = "worked" THEN Tail(jobs) ELSE jobs)

\* running() tells the truth when it says yes: push relies on it to leave a job
\* to the thread, and the thread cannot be about to end then.
RunningIsAlive == ~stopped => worker \in Alive \ {"leaving"}

\* A job in the queue has a thread that will look at the queue again: the
\* thread says that it stops while it still holds the queue's mutex.
NoJobStranded == jobs # <<>> => worker \in Alive \ {"stopping", "leaving"}

\* When join returns, the jobs pushed before it was called have run
\* (Server::run counts on it for the last messages of its sessions).
JoinWaits == \A c \in Callers : waiter[c] = "returned" => Len(ran) >= due[c]

\* No job is lost, repeated, overtaken or left behind, and join waits for those
\* before it.
JobsKept == RunInOrder /\ RunningIsAlive /\ NoJobStranded /\ JoinWaits

\* Threads that wait for each other for ever: a caller joins the thread, and
\* holds _mutexStop, which the thread takes to end, or holds _mutex, for which a
\* push waits that holds the queue's mutex.
Embraced ==
    \/ /\ worker \in {"stopping", "leaving"}
       /\ \E c \in Callers : /\ mutexStop = c
                            /\ waiter[c] \in {"startJoining", "stopJoining"}
    \/ /\ worker \in {"awake", "worked"}
       /\ \E c, d \in Callers : /\ mutex = c /\ waiter[c] = "stopJoining"
                               /\ jobsMutex = d /\ waiter[d] = "starting"

\* A job in the queue is run, unless threads wait for each other for ever.
EveryJobRuns ==
    \A n \in 1..MaxPushes : (Len(accepted) >= n) ~> (Len(ran) >= n \/ Embraced)

\* push and join return, unless threads wait for each other for ever: no other
\* way to hang is left.
EveryCallReturns ==
    \A c \in Callers : (waiter[c] # "out") ~> (waiter[c] = "out" \/ Embraced)

\* Embraced names every way to hang.
NothingElseHangs == EveryJobRuns /\ EveryCallReturns

\* Server.cpp:122, join "waits the end of sending last session messages": it
\* returns.
EveryJoinReturns ==
    \A c \in Joiners : (waiter[c] = "stop") ~> (waiter[c] = "returned")
=============================================================================
