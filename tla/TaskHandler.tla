------------------------------ MODULE TaskHandler ------------------------------
(***************************************************************************)
(* The TaskHandler: a thread that needs the server's state hands a task    *)
(* over and waits; the server's own thread, between two sleeps, takes the  *)
(* task and runs it.  The two threads share the task's data without any    *)
(* other lock, so the hand-over is what keeps them apart.                  *)
(*                                                                         *)
(* A step ends where a thread may have to wait: for _mutexWait, which a    *)
(* thread keeps through its whole call, for _mutex, which the server keeps *)
(* while it runs a task, or for the signal.                                *)
(***************************************************************************)
EXTENDS Integers, Sequences

CONSTANTS Threads  \* the threads that hand tasks over

ASSUME ThreadsAssumption == "nobody" \notin Threads

VARIABLES
    tasksStopped, \* _stop
    pTask,        \* _pTask, by the thread it belongs to; "nobody" for NULL
    taskSignal,   \* _signal's _set
    mutexWait,    \* who holds _mutexWait
    handling,     \* giveHandle is running *_pTask; it holds _mutex
    place,        \* where each thread is in its call of waitHandle, or outside
    handled       \* history: the task of the thread's last call was run

taskVars == <<tasksStopped, pTask, taskSignal, mutexWait, handling, place, handled>>

\* Places inside waitHandle, and outside it.
InCall == {"enter", "entered", "asking", "waiting"}
OutOfCall == {"none", "idle", "answered", "refused", "ended"}

-----------------------------------------------------------------------------
(* waitHandle, called at "enter": returns at "answered" or "refused"       *)

Enter(t) ==
    /\ place[t] = "enter"
    /\ mutexWait = "nobody"
    /\ mutexWait' = t
    /\ place' = [place EXCEPT ![t] = "entered"]
    /\ UNCHANGED <<tasksStopped, pTask, taskSignal, handling, handled>>

Refuse(t) ==
    /\ place[t] = "entered"
    /\ ~handling
    /\ tasksStopped
    /\ mutexWait' = "nobody"
    /\ place' = [place EXCEPT ![t] = "refused"]
    /\ UNCHANGED <<tasksStopped, pTask, taskSignal, handling, handled>>

Ask(t) ==
    /\ place[t] = "entered"
    /\ ~handling
    /\ ~tasksStopped
    /\ pTask' = t
    /\ handled' = [handled EXCEPT ![t] = FALSE]
    /\ place' = [place EXCEPT ![t] = "asking"]
    /\ UNCHANGED <<tasksStopped, taskSignal, mutexWait, handling>>

\* wait() returns, and _mutexWait is released.
Answered(t) ==
    /\ place[t] = "waiting"
    /\ taskSignal
    /\ taskSignal' = FALSE
    /\ mutexWait' = "nobody"
    /\ place' = [place EXCEPT ![t] = "answered"]
    /\ UNCHANGED <<tasksStopped, pTask, handling, handled>>

-----------------------------------------------------------------------------
(* giveHandle, start and stop, called by the handler's thread              *)

\* The thread would be let go before its task has been run.
GiveHandleEarly ==
    /\ handling' = (pTask # "nobody")
    /\ taskSignal' = (taskSignal \/ pTask # "nobody")
    /\ UNCHANGED <<tasksStopped, pTask, mutexWait, place, handled>>

\* giveHandle runs the task, if any.
GiveHandle ==
    /\ handling' = (pTask # "nobody")
    /\ UNCHANGED <<tasksStopped, pTask, taskSignal, mutexWait, place, handled>>

\* The task has been run.
HandleGiven ==
    /\ handling
    /\ handling' = FALSE
    /\ handled' = [handled EXCEPT ![pTask] = TRUE]
    /\ pTask' = "nobody"
    /\ taskSignal' = TRUE
    /\ UNCHANGED <<tasksStopped, mutexWait, place>>

StartTasks == tasksStopped' = FALSE

\* The thread that waits would not be told.
StopTasksSilent ==
    /\ ~handling
    /\ tasksStopped' = TRUE
    /\ UNCHANGED <<pTask, taskSignal, mutexWait, handling, place, handled>>

StopTasks ==
    /\ ~handling
    /\ tasksStopped' = TRUE
    /\ taskSignal' = TRUE
    /\ UNCHANGED <<pTask, mutexWait, handling, place, handled>>

-----------------------------------------------------------------------------
TaskInit ==
    /\ tasksStopped = TRUE
    /\ pTask = "nobody"
    /\ taskSignal = FALSE
    /\ mutexWait = "nobody"
    /\ handling = FALSE
    /\ place = [t \in Threads |-> "none"]
    /\ handled = [t \in Threads |-> FALSE]

TaskTypeOK ==
    /\ tasksStopped \in BOOLEAN
    /\ pTask \in Threads \cup {"nobody"}
    /\ taskSignal \in BOOLEAN
    /\ mutexWait \in Threads \cup {"nobody"}
    /\ handling \in BOOLEAN
    /\ place \in [Threads -> InCall \cup OutOfCall]
    /\ handled \in [Threads -> BOOLEAN]
=============================================================================
