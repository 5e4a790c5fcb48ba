----------------------------- MODULE ServerProofs -----------------------------
(***************************************************************************)
(* The hand-over of tasks is right, for any number of workers, in a server *)
(* that is started once; a second start breaks it (see MCServerRestart).   *)
(* Then what the server keeps for scripts: its services follow the folders *)
(* of www, and what Lua knows is what the server has.                      *)
(***************************************************************************)
EXTENDS Server, Integers, FiniteSets, FiniteSetTheorems, SequenceTheorems, TLAPS

-----------------------------------------------------------------------------
(* The inductive invariant                                                 *)

Serving == {"sleeping", "awake", "handling", "ending"}

Past == {"stoppingManager", "joiningManager", "stoppingSockets", "joiningSockets",
         "joiningPool"}

\* _mutexWait is held by the thread that is inside waitHandle, if any.
Locked ==
    \A t \in Threads : place[t] \in {"entered", "asking", "waiting"} <=> mutexWait = t

\* Where the server's thread is tells whether tasks are taken.
Phase ==
    /\ server \in Serving \cup Past \cup {"down"}
    /\ handling <=> server = "handling"
    /\ tasksStopped <=> server \notin Serving
    /\ starts \in Nat
    /\ server # "down" => starts >= 1
    /\ starts = 0 =>
          /\ pTask = "nobody" /\ mutexWait = "nobody" /\ ~taskSignal
          /\ \A t \in Threads : place[t] = "none"

\* While tasks are taken, _pTask and the signal are about the thread inside
\* waitHandle, and never both: its task is pending, or it has been run.
Exchange ==
    server \in Serving =>
        /\ pTask # "nobody" =>
              mutexWait = pTask /\ place[pTask] \in {"asking", "waiting"} /\ ~taskSignal
        /\ taskSignal =>
              /\ mutexWait # "nobody" /\ place[mutexWait] \in {"asking", "waiting"}
              /\ handled[mutexWait]
        /\ handling => pTask # "nobody"

HInv == TaskTypeOK /\ Locked /\ Phase /\ Exchange /\ AnsweredWasHandled

-----------------------------------------------------------------------------
\* The invariant holds in the initial state.
LEMMA InitHInv == Init => HInv
<1> SUFFICES ASSUME Init PROVE HInv
  OBVIOUS
<1>1. TaskTypeOK
  BY DEF Init, TaskInit, TaskTypeOK, InCall, OutOfCall
<1>2. Locked
  BY ThreadsAssumption DEF Init, TaskInit, Locked
<1>3. Phase
  BY DEF Init, TaskInit, Phase, Serving, Past
<1>4. Exchange /\ AnsweredWasHandled
  BY DEF Init, TaskInit, Exchange, AnsweredWasHandled
<1>5. QED
  BY <1>1, <1>2, <1>3, <1>4 DEF HInv

\* A thread that is outside waitHandle goes on, or to its door.
LEMMA GoesHInv ==
    ASSUME HInv, NEW t \in Threads, NEW to \in {"idle", "enter", "ended"},
           place[t] \in OutOfCall, place[t] # "none", Goes(t, to), UNCHANGED <<server, starts>>
    PROVE  HInv'
<1>1. TaskTypeOK'
  BY DEF HInv, TaskTypeOK, Goes, InCall, OutOfCall
<1>2. Locked'
  BY DEF HInv, TaskTypeOK, Locked, Goes, OutOfCall
<1>3. Phase'
  BY DEF HInv, Phase, Goes
<1>4. Exchange'
  BY DEF HInv, TaskTypeOK, Locked, Exchange, Goes, OutOfCall
<1>5. AnsweredWasHandled'
  BY DEF HInv, TaskTypeOK, AnsweredWasHandled, Goes
<1>6. QED
  BY <1>1, <1>2, <1>3, <1>4, <1>5 DEF HInv

\* The steps of waitHandle keep the invariant.
LEMMA WaitHInv ==
    ASSUME HInv, NEW t \in Threads, WaitHandle(t)
    PROVE  HInv'
<1> USE ThreadsAssumption
<1>1. CASE Request(t)
  BY <1>1 DEF Request, HInv, TaskTypeOK, Locked, Phase, Exchange, AnsweredWasHandled,
              Serving, Past, InCall, OutOfCall
<1>2. CASE Enter(t) /\ UNCHANGED serverVars
  <2>1. TaskTypeOK'
    BY <1>2 DEF Enter, HInv, TaskTypeOK, InCall
  <2>2. Locked'
    BY <1>2 DEF Enter, HInv, TaskTypeOK, Locked
  <2>3. Phase'
    <3>1. starts # 0
      BY <1>2 DEF Enter, HInv, Phase
    <3>2. QED
      BY <1>2, <3>1 DEF Enter, serverVars, HInv, Phase
  <2>4. Exchange'
    BY <1>2 DEF Enter, serverVars, HInv, TaskTypeOK, Locked, Exchange
  <2>5. AnsweredWasHandled'
    BY <1>2 DEF Enter, HInv, TaskTypeOK, AnsweredWasHandled
  <2>6. QED
    BY <2>1, <2>2, <2>3, <2>4, <2>5 DEF HInv
<1>3. CASE Refuse(t) /\ UNCHANGED serverVars
  BY <1>3 DEF Refuse, serverVars, HInv, TaskTypeOK, Locked, Phase, Exchange,
              AnsweredWasHandled, Serving, Past, InCall, OutOfCall
<1>4. CASE Ask(t) /\ UNCHANGED serverVars
  BY <1>4 DEF Ask, serverVars, HInv, TaskTypeOK, Locked, Phase, Exchange,
              AnsweredWasHandled, Serving, Past, InCall, OutOfCall
<1>5. CASE Answered(t) /\ UNCHANGED serverVars
  BY <1>5 DEF Answered, serverVars, HInv, TaskTypeOK, Locked, Phase, Exchange,
              AnsweredWasHandled, Serving, Past, InCall, OutOfCall
<1>6. QED
  BY <1>1, <1>2, <1>3, <1>4, <1>5 DEF WaitHandle

\* The manager, the socket manager and the workers keep the invariant.
LEMMA ThreadsHInv ==
    ASSUME HInv,
           \/ ManagerStep \/ SocketsStep \/ SocketEvent \/ SocketsFail
           \/ \E w \in Workers : WorkerStep(w)
    PROVE  HInv'
<1>1. {"manager", "sockets"} \subseteq Threads /\ Workers \subseteq Threads
  BY ServerAssumption
<1>2. ASSUME NEW t \in {"manager", "sockets"}, WaitHandle(t)
      PROVE  HInv'
  BY <1>1, <1>2, WaitHInv
<1>3. CASE ManagerSleeps
  BY <1>1, <1>3, GoesHInv DEF ManagerSleeps, Returned, OutOfCall, serverVars
<1>4. CASE ManagerWakes
  BY <1>1, <1>4, GoesHInv DEF ManagerWakes, OutOfCall, serverVars
<1>5. CASE SocketsLeave
  BY <1>1, <1>5, GoesHInv DEF SocketsLeave, OutOfCall
<1>6. CASE SocketsGoOn
  BY <1>1, <1>6, GoesHInv DEF SocketsGoOn, Returned, OutOfCall, serverVars
<1>7. CASE SocketEvent
  BY <1>1, <1>7, GoesHInv DEF SocketEvent, OutOfCall
<1>8. CASE SocketsFail
  BY <1>1, <1>8, GoesHInv DEF SocketsFail, OutOfCall
<1>9. ASSUME NEW w \in Workers, WorkerStep(w)
      PROVE  HInv'
  <2>1. w \in Threads
    BY <1>1
  <2>2. CASE WaitHandle(w)
    BY <2>1, <2>2, WaitHInv
  <2>3. CASE WorkerHandsOver(w)
    BY <2>1, <2>3, GoesHInv DEF WorkerHandsOver, OutOfCall
  <2>4. CASE WorkerPops(w)
    BY <2>1, <2>4, GoesHInv DEF WorkerPops, OutOfCall
  <2>5. QED
    BY <1>9, <2>2, <2>3, <2>4 DEF WorkerStep
<1>10. QED
  BY <1>2, <1>3, <1>4, <1>5, <1>6, <1>7, <1>8, <1>9 DEF ManagerStep, SocketsStep

-----------------------------------------------------------------------------
\* The server's thread keeps the invariant, its start excepted.
LEMMA ServerHInv ==
    ASSUME HInv, ServerStep \/ StopAsked
    PROVE  HInv'
<1> USE DEF HInv, TaskTypeOK, Locked, Phase, Exchange, AnsweredWasHandled, Serving, Past
<1>1. CASE Sleep
  BY <1>1 DEF Sleep, taskVars
<1>2. CASE Give
  BY <1>2 DEF Give, GiveHandle
<1>3. CASE Handle
  <2>1. handling /\ server = "handling" /\ pTask \in Threads /\ mutexWait = pTask
        /\ place[pTask] \in {"asking", "waiting"}
    BY <1>3 DEF Handle, HandleGiven
  <2>2. /\ handling' = FALSE /\ handled' = [handled EXCEPT ![pTask] = TRUE]
        /\ pTask' = "nobody" /\ taskSignal' = TRUE /\ server' \in {"ending", "sleeping"}
        /\ UNCHANGED <<tasksStopped, mutexWait, place, starts>>
    BY <1>3 DEF Handle, HandleGiven
  <2>3. QED
    BY <2>1, <2>2, ThreadsAssumption
<1>4. CASE EndTasks
  BY <1>4 DEF EndTasks, StopTasks
<1>5. CASE StopManager
  BY <1>5 DEF StopManager, taskVars
<1>6. CASE ManagerJoined
  BY <1>6 DEF ManagerJoined, taskVars
<1>7. CASE StopSockets
  BY <1>7 DEF StopSockets, taskVars
<1>8. CASE SocketsJoined
  BY <1>8 DEF SocketsJoined, taskVars
<1>9. CASE PoolJoined
  BY <1>9 DEF PoolJoined, taskVars
<1>10. CASE StopAsked
  BY <1>10 DEF StopAsked, taskVars
<1>11. QED
  BY <1>1, <1>2, <1>3, <1>4, <1>5, <1>6, <1>7, <1>8, <1>9, <1>10 DEF ServerStep

\* A first start finds nothing pending and nobody in waitHandle.
LEMMA StartHInv ==
    ASSUME HInv, MaxStarts <= 1, Start
    PROVE  HInv'
<1>1. starts = 0 /\ starts' = 1 /\ server' \in {"sleeping", "ending"} /\ ~tasksStopped'
  BY ServerAssumption DEF HInv, Phase, Start, StartTasks
<1>2. pTask = "nobody" /\ mutexWait = "nobody" /\ ~taskSignal /\ ~handling
  BY <1>1 DEF HInv, Phase, Start
<1>3. UNCHANGED <<pTask, taskSignal, mutexWait, handling, handled>>
  BY DEF Start
<1>4. place' \in [Threads -> {"idle", "enter", "ended"}]
  BY DEF Start
<1>5. TaskTypeOK'
  BY <1>1, <1>3, <1>4 DEF HInv, TaskTypeOK, Start, StartTasks, InCall, OutOfCall
<1>6. Locked'
  BY <1>2, <1>3, <1>4, ThreadsAssumption DEF Locked
<1>7. Phase'
  BY <1>1, <1>2, <1>3 DEF Phase, Serving
<1>8. Exchange'
  BY <1>2, <1>3 DEF Exchange
<1>9. AnsweredWasHandled'
  BY <1>4 DEF AnsweredWasHandled
<1>10. QED
  BY <1>5, <1>6, <1>7, <1>8, <1>9 DEF HInv

\* In a server started once, the invariant holds for ever.
THEOREM HandOverInvariant ==
    ASSUME MaxStarts <= 1
    PROVE  Spec => []HInv
<1>1. HInv /\ [Next]_vars => HInv'
  <2> SUFFICES ASSUME HInv, [Next]_vars PROVE HInv'
    OBVIOUS
  <2>1. CASE UNCHANGED vars
    BY <2>1 DEF vars, taskVars, serverVars, HInv, TaskTypeOK, Locked, Phase, Exchange,
                AnsweredWasHandled
  <2>2. CASE Next
    BY <2>2, StartHInv, ServerHInv, ThreadsHInv DEF Next
  <2>3. QED
    BY <2>1, <2>2
<1>2. QED
  BY InitHInv, <1>1, PTL DEF Spec

\* In a server started once, a task is run only while the thread it belongs to
\* waits, whoever asks and whenever the shutdown comes.
THEOREM HandOverCorrect ==
    ASSUME MaxStarts <= 1
    PROVE  Spec => []HandledWhileWaiting
<1>1. HInv => HandledWhileWaiting
  BY DEF HInv, Phase, Exchange, HandledWhileWaiting, Serving
<1>2. QED
  BY HandOverInvariant, <1>1, PTL

\* In a server started once, a thread that waitHandle lets go before the
\* shutdown has had its own task run.
THEOREM AnswerCorrect ==
    ASSUME MaxStarts <= 1
    PROVE  Spec => []AnsweredWasHandled
<1>1. HInv => AnsweredWasHandled
  BY DEF HInv
<1>2. QED
  BY HandOverInvariant, <1>1, PTL

\* In a server started once, no thread goes on without its task having run, and
\* no task runs without its thread.
THEOREM HandOverSoundCorrect ==
    ASSUME MaxStarts <= 1
    PROVE  Spec => []HandOverSound
<1>1. HInv => HandOverSound
  BY DEF HInv, Phase, Exchange, HandledWhileWaiting, Serving, HandOverSound
<1>2. QED
  BY HandOverInvariant, <1>1, PTL

-----------------------------------------------------------------------------
(* The shutdown leaves nobody behind, however often the server is started  *)

\* The types of what the server and its threads keep besides the tasks.
ServerTypeOK ==
    /\ server \in Serving \cup Past \cup {"down"}
    /\ stopAsked \in BOOLEAN /\ wake \in BOOLEAN /\ managerStop \in BOOLEAN
    /\ closed \in BOOLEAN /\ socketsLast \in BOOLEAN /\ failed \in BOOLEAN
    /\ jobs \in [Workers -> Seq(Nat)]
    /\ events \in Nat /\ given \in Nat /\ starts \in Nat

\* A worker inside waitHandle has not yet left the job that it does.
Working == \A w \in Workers : place[w] \in InCall => jobs[w] # <<>>

\* Once the server's thread has joined a thread, that thread has ended.
Joined ==
    /\ server \in {"stoppingSockets", "joiningSockets", "joiningPool"} =>
          place["manager"] = "ended"
    /\ server = "joiningPool" => place["sockets"] = "ended"
    /\ server = "down" =>
          /\ place["manager"] \in {"none", "ended"} /\ place["sockets"] \in {"none", "ended"}
          /\ \A w \in Workers : jobs[w] = <<>>

QInv == TaskTypeOK /\ ServerTypeOK /\ Working /\ Joined

\* The invariant holds in the initial state.
LEMMA InitQInv == Init => QInv
<1> SUFFICES ASSUME Init PROVE QInv
  OBVIOUS
<1> USE ServerAssumption
<1>1. TaskTypeOK
  BY DEF Init, TaskInit, TaskTypeOK, InCall, OutOfCall
<1>2. ServerTypeOK
  <2>1. jobs = [w \in Workers |-> <<>>] /\ <<>> \in Seq(Nat)
    BY DEF Init
  <2>2. jobs \in [Workers -> Seq(Nat)]
    BY <2>1
  <2>3. QED
    BY <2>2 DEF Init, ServerTypeOK, Past, Serving
<1>3. Working /\ Joined
  BY DEF Init, TaskInit, Working, Joined, InCall
<1>4. QED
  BY <1>1, <1>2, <1>3 DEF QInv

\* The steps of waitHandle keep the invariant: they are those of a thread that
\* has not ended, and leave the jobs alone.
LEMMA WaitQInv ==
    ASSUME QInv, NEW t \in Threads, WaitHandle(t)
    PROVE  QInv'
<1>1. TaskTypeOK'
  BY DEF WaitHandle, Request, Enter, Refuse, Ask, Answered, QInv, TaskTypeOK, InCall,
         OutOfCall
<1>2. ServerTypeOK'
  BY DEF WaitHandle, Request, serverVars, QInv, ServerTypeOK
<1>3. /\ place[t] \in InCall /\ place' = [place EXCEPT ![t] = place'[t]]
      /\ UNCHANGED <<server, jobs>>
  BY DEF WaitHandle, Request, Enter, Refuse, Ask, Answered, serverVars, QInv, TaskTypeOK,
         InCall
<1>4. Working'
  BY <1>1, <1>3, ServerAssumption DEF QInv, TaskTypeOK, Working, InCall
<1>5. Joined'
  BY <1>1, <1>3, ServerAssumption DEF QInv, TaskTypeOK, Joined, InCall
<1>6. QED
  BY <1>1, <1>2, <1>4, <1>5 DEF QInv

\* What the manager's and the socket manager's threads do outside waitHandle
\* keeps the invariant: such a thread was idle or had been let go.
LEMMA GoesQInv ==
    ASSUME QInv, NEW t \in {"manager", "sockets"}, NEW to \in {"idle", "enter", "ended"},
           place[t] \in {"idle", "answered", "refused"}, Goes(t, to),
           UNCHANGED <<server, jobs>>, ServerTypeOK'
    PROVE  QInv'
<1>1. TaskTypeOK'
  BY DEF QInv, TaskTypeOK, Goes, InCall, OutOfCall
<1>2. Working'
  BY ServerAssumption DEF QInv, TaskTypeOK, Working, Goes, InCall
<1>3. Joined'
  BY ServerAssumption DEF QInv, TaskTypeOK, Joined, Goes
<1>4. QED
  BY <1>1, <1>2, <1>3 DEF QInv

\* A worker keeps the invariant: it is let in with its job still in its queue.
LEMMA WorkerQInv ==
    ASSUME QInv, NEW w \in Workers, WorkerHandsOver(w) \/ WorkerPops(w)
    PROVE  QInv'
<1>0. jobs[w] \in Seq(Nat) /\ jobs[w] # <<>> /\ Head(jobs[w]) \in Nat /\ Tail(jobs[w]) \in Seq(Nat)
      /\ w \in Threads
  BY ServerAssumption DEF QInv, ServerTypeOK, WorkerHandsOver, WorkerPops
<1>1. PICK to \in {"idle", "enter"}, q \in Seq(Nat) :
          /\ Goes(w, to) /\ jobs' = [jobs EXCEPT ![w] = q] /\ (to = "enter" => q # <<>>)
          /\ UNCHANGED <<server, stopAsked, wake, managerStop, closed, socketsLast, failed,
                         events, given, starts>>
  <2>1. CASE WorkerHandsOver(w)
    <3> DEFINE q == <<Head(jobs[w]) - 1>> \o Tail(jobs[w])
    <3>1. q \in Seq(Nat) /\ q # <<>>
      BY <1>0, <2>1 DEF WorkerHandsOver
    <3>2. jobs' = [jobs EXCEPT ![w] = q]
      BY <2>1 DEF WorkerHandsOver
    <3>3. QED
      BY <2>1, <3>1, <3>2 DEF WorkerHandsOver
  <2>2. CASE WorkerPops(w)
    BY <1>0, <2>2 DEF WorkerPops
  <2>3. QED
    BY <2>1, <2>2
<1>2. TaskTypeOK'
  BY <1>0, <1>1 DEF QInv, TaskTypeOK, Goes, InCall, OutOfCall
<1>3. ServerTypeOK'
  BY <1>1 DEF QInv, ServerTypeOK
<1>4. Working'
  BY <1>0, <1>1 DEF QInv, TaskTypeOK, ServerTypeOK, Working, Goes, InCall
<1>5. Joined'
  <2>1. server # "down"
    BY <1>0 DEF QInv, Joined
  <2>2. place'["manager"] = place["manager"] /\ place'["sockets"] = place["sockets"]
    BY <1>1, ServerAssumption DEF Goes, QInv, TaskTypeOK
  <2>3. QED
    BY <1>1, <2>1, <2>2 DEF QInv, Joined
<1>6. QED
  BY <1>2, <1>3, <1>4, <1>5 DEF QInv

\* The threads that hand tasks over keep the invariant.
LEMMA ThreadsQInv ==
    ASSUME QInv,
           \/ ManagerStep \/ SocketsStep \/ SocketEvent \/ SocketsFail
           \/ \E w \in Workers : WorkerStep(w)
    PROVE  QInv'
<1>1. {"manager", "sockets"} \subseteq Threads /\ Workers \subseteq Threads
  BY ServerAssumption
<1>2. ASSUME NEW t \in Threads, WaitHandle(t)
      PROVE  QInv'
  BY <1>2, WaitQInv
<1>3. CASE ManagerSleeps
  BY <1>3, GoesQInv DEF ManagerSleeps, Returned, serverVars, QInv, ServerTypeOK
<1>4. CASE ManagerWakes
  BY <1>4, GoesQInv DEF ManagerWakes, serverVars, QInv, ServerTypeOK
<1>5. CASE SocketsLeave
  BY <1>5, GoesQInv DEF SocketsLeave, QInv, ServerTypeOK
<1>6. CASE SocketsGoOn
  BY <1>6, GoesQInv DEF SocketsGoOn, Returned, serverVars, QInv, ServerTypeOK
<1>7. CASE SocketEvent
  BY <1>7, GoesQInv DEF SocketEvent, QInv, ServerTypeOK
<1>8. CASE SocketsFail
  BY <1>8, GoesQInv DEF SocketsFail, QInv, ServerTypeOK
<1>9. ASSUME NEW w \in Workers, WorkerStep(w)
      PROVE  QInv'
  BY <1>1, <1>2, <1>9, WorkerQInv DEF WorkerStep
<1>10. QED
  BY <1>1, <1>2, <1>3, <1>4, <1>5, <1>6, <1>7, <1>8, <1>9 DEF ManagerStep, SocketsStep

\* Jobs given to the pool keep its workers at work.
LEMMA EnqueueWorking ==
    ASSUME QInv, NEW sizes, sizes \subseteq Nat, Enqueue(sizes), UNCHANGED place
    PROVE  /\ jobs' \in [Workers -> Seq(Nat)] /\ given' \in Nat
           /\ Working'
<1>1. CASE UNCHANGED <<jobs, given>>
  BY <1>1 DEF QInv, ServerTypeOK, Working
<1>2. ASSUME given' = given + 1, NEW w \in Workers, NEW n \in sizes,
             jobs' = [jobs EXCEPT ![w] = Append(@, n)]
      PROVE  jobs' \in [Workers -> Seq(Nat)] /\ given' \in Nat /\ Working'
  <2>1. Append(jobs[w], n) \in Seq(Nat) /\ Append(jobs[w], n) # <<>>
    BY DEF QInv, ServerTypeOK
  <2>2. QED
    BY <1>2, <2>1 DEF QInv, ServerTypeOK, Working
<1>3. QED
  BY <1>1, <1>2 DEF Enqueue

\* The server's thread keeps the invariant: it goes past a join only when the
\* thread it joins has ended, or has nothing left to do.
LEMMA ServerQInv ==
    ASSUME QInv, ServerStep \/ StopAsked
    PROVE  QInv'
<1> USE ServerAssumption
<1>1. CASE Sleep
  BY <1>1 DEF Sleep, taskVars, QInv, TaskTypeOK, ServerTypeOK, Working, Joined, Serving, Past
<1>2. CASE Give
  BY <1>2 DEF Give, GiveHandle, QInv, TaskTypeOK, ServerTypeOK, Working, Joined, Serving, Past
<1>3. CASE Handle
  <2>1. /\ server = "handling" /\ server' \in {"ending", "sleeping"} /\ HandleGiven
        /\ UNCHANGED <<place, stopAsked, wake, managerStop, closed, socketsLast, failed,
                       events, starts>>
    BY <1>3 DEF Handle, HandleGiven
  <2>2. 0..MaxPieces \subseteq Nat /\ {0} \subseteq Nat
    OBVIOUS
  <2>3. jobs' \in [Workers -> Seq(Nat)] /\ given' \in Nat /\ Working'
    BY <1>3, <2>1, <2>2, EnqueueWorking DEF Handle
  <2>4. TaskTypeOK'
    BY <2>1 DEF HandleGiven, QInv, TaskTypeOK
  <2>5. ServerTypeOK' /\ Joined'
    BY <2>1, <2>3 DEF QInv, ServerTypeOK, Joined, Serving, Past
  <2>6. QED
    BY <2>3, <2>4, <2>5 DEF QInv
<1>4. CASE EndTasks
  BY <1>4 DEF EndTasks, StopTasks, QInv, TaskTypeOK, ServerTypeOK, Working, Joined, Serving, Past
<1>5. CASE StopManager
  BY <1>5 DEF StopManager, taskVars, QInv, TaskTypeOK, ServerTypeOK, Working, Joined, Serving, Past
<1>6. CASE ManagerJoined
  <2>1. UNCHANGED place
    BY <1>6 DEF ManagerJoined, taskVars
  <2>2. jobs' \in [Workers -> Seq(Nat)] /\ given' \in Nat /\ Working'
    BY <1>6, <2>1, EnqueueWorking DEF ManagerJoined
  <2>3. TaskTypeOK'
    BY <1>6 DEF ManagerJoined, taskVars, QInv, TaskTypeOK
  <2>4. ServerTypeOK' /\ Joined'
    BY <1>6, <2>1, <2>2 DEF ManagerJoined, QInv, ServerTypeOK, Joined, Serving, Past
  <2>5. QED
    BY <2>2, <2>3, <2>4 DEF QInv
<1>7. CASE StopSockets
  BY <1>7 DEF StopSockets, taskVars, QInv, TaskTypeOK, ServerTypeOK, Working, Joined, Serving, Past
<1>8. CASE SocketsJoined
  BY <1>8 DEF SocketsJoined, taskVars, QInv, TaskTypeOK, ServerTypeOK, Working, Joined, Serving, Past
<1>9. CASE PoolJoined
  BY <1>9 DEF PoolJoined, taskVars, QInv, TaskTypeOK, ServerTypeOK, Working, Joined, Serving, Past
<1>10. CASE StopAsked
  BY <1>10 DEF StopAsked, taskVars, QInv, TaskTypeOK, ServerTypeOK, Working, Joined, Serving, Past
<1>11. QED
  BY <1>1, <1>2, <1>3, <1>4, <1>5, <1>6, <1>7, <1>8, <1>9, <1>10 DEF ServerStep

\* A start, the first or another, finds the queues empty.
LEMMA StartQInv ==
    ASSUME QInv, Start
    PROVE  QInv'
<1>1. /\ server' \in {"sleeping", "ending"} /\ starts' \in Nat
      /\ UNCHANGED <<pTask, taskSignal, mutexWait, handling, handled, jobs, events, given>>
  BY DEF Start, QInv, ServerTypeOK
<1>2. place' \in [Threads -> {"idle", "enter", "ended"}] /\ \A w \in Workers : place'[w] = "idle"
  BY ServerAssumption DEF Start
<1>3. TaskTypeOK'
  BY <1>1, <1>2 DEF QInv, TaskTypeOK, Start, StartTasks, InCall, OutOfCall
<1>4. ServerTypeOK'
  BY <1>1 DEF QInv, ServerTypeOK, Start, Serving, Past
<1>5. Working' /\ Joined'
  BY <1>1, <1>2 DEF Working, Joined, InCall
<1>6. QED
  BY <1>3, <1>4, <1>5 DEF QInv

\* Every behaviour keeps the invariant.
THEOREM QuietInvariant == Spec => []QInv
<1>1. QInv /\ [Next]_vars => QInv'
  <2> SUFFICES ASSUME QInv, [Next]_vars PROVE QInv'
    OBVIOUS
  <2>1. CASE UNCHANGED vars
    BY <2>1 DEF vars, taskVars, serverVars, QInv, TaskTypeOK, ServerTypeOK, Working, Joined
  <2>2. CASE Next
    BY <2>2, StartQInv, ServerQInv, ThreadsQInv DEF Next
  <2>3. QED
    BY <2>1, <2>2
<1>2. QED
  BY InitQInv, <1>1, PTL DEF Spec

\* Every variable of the server and of its threads keeps its type, for any
\* number of workers, jobs, events and starts.
THEOREM TypeCorrect == Spec => []TypeOK
<1>1. QInv => TypeOK
  BY DEF QInv, ServerTypeOK, TypeOK, Serving, Past
<1>2. QED
  BY QuietInvariant, <1>1, PTL

\* When the server's thread has ended, no thread is inside waitHandle and no
\* job is left, whenever the shutdown came and however often it was started.
THEOREM DownIsQuietCorrect == Spec => []DownIsQuiet
<1>1. QInv => DownIsQuiet
  <2> SUFFICES ASSUME QInv, server = "down"
               PROVE  /\ \A t \in Threads : place[t] \in OutOfCall
                      /\ \A w \in Workers : jobs[w] = <<>>
    BY DEF DownIsQuiet
  <2>1. \A w \in Workers : jobs[w] = <<>> /\ place[w] \notin InCall
    BY DEF QInv, Working, Joined
  <2>2. place["manager"] \in OutOfCall /\ place["sockets"] \in OutOfCall
    BY DEF QInv, Joined, OutOfCall
  <2>3. \A w \in Workers : place[w] \in OutOfCall
    BY <2>1, ServerAssumption DEF QInv, TaskTypeOK
  <2>4. QED
    BY <2>1, <2>2, <2>3, ServerAssumption
<1>2. QED
  BY QuietInvariant, <1>1, PTL

-----------------------------------------------------------------------------
(* What Lua knows                                                          *)

CONSTANTS Clients, Names, Groups, Addresses, Nobody
VARIABLES connected, pubs, memberships, lua
O == INSTANCE ScriptObjects

LuaObjects == Clients \cup Groups \cup Addresses

\* What Lua holds, an object that it does not know having no collection.
RightLua(l) ==
    /\ l = [objects |-> l.objects, items |-> l.items, clients |-> l.clients,
            publications |-> l.publications, groups |-> l.groups]
    /\ l.objects \subseteq LuaObjects
    /\ l.items = [o \in LuaObjects |-> l.items[o]]
    /\ \A o \in LuaObjects \ l.objects : l.items[o] = {}

\* Every publication and every listener has its address for itself.
OwnAddresses(table) ==
    /\ DOMAIN table \subseteq Names
    /\ \A n \in DOMAIN table :
          /\ table[n] = [at |-> table[n].at, publisher |-> table[n].publisher, listeners |-> table[n].listeners]
          /\ table[n].at \in Addresses /\ table[n].publisher \in Clients \cup {Nobody}
          /\ DOMAIN table[n].listeners \subseteq Clients
          /\ \A c \in DOMAIN table[n].listeners : table[n].listeners[c] \in Addresses
    /\ \A m, n \in DOMAIN table :
          /\ table[m].at = table[n].at => m = n
          /\ \A c \in DOMAIN table[n].listeners :
                /\ table[n].listeners[c] # table[m].at
                /\ \A b \in DOMAIN table[m].listeners :
                      table[m].listeners[b] = table[n].listeners[c] => m = n /\ b = c

\* Lua's part about publications and listeners ...
Published(table) == {n \in DOMAIN table : table[n].publisher # Nobody}
KnowsPublications(l, table) ==
    /\ l.publications = [n \in Published(table) |-> table[n].at]
    /\ \A n \in Published(table) : table[n].at \in l.objects
    /\ \A n \in DOMAIN table : l.items[table[n].at] \subseteq O!Range(table[n].listeners) \cap l.objects
    /\ \A a \in Addresses : (\A n \in DOMAIN table : table[n].at # a) => l.items[a] = {}

\* ... and about clients and groups.
KnowsMembers(l, here, members) ==
    /\ here \subseteq Clients /\ members \in [Groups -> SUBSET here]
    /\ l.clients = here /\ l.groups = {g \in Groups : members[g] # {}}
    /\ \A g \in Groups : l.items[g] = members[g]
    /\ l.objects \cap (Clients \cup Groups) = l.clients \cup l.groups

ObjInv == /\ RightLua(lua) /\ OwnAddresses(pubs)
          /\ KnowsPublications(lua, pubs) /\ KnowsMembers(lua, connected, memberships)

-----------------------------------------------------------------------------
LEMMA KnownSound == ObjInv => O!TypeOK /\ O!ObjectsSound
<1> SUFFICES ASSUME ObjInv PROVE O!TypeOK /\ O!ObjectsSound
  OBVIOUS
<1> USE DEF ObjInv, O!Named
<1>1. O!TypeOK
  BY DEF O!TypeOK, RightLua, OwnAddresses, KnowsMembers, LuaObjects
<1>2. O!CollectionsTrue
  BY DEF O!CollectionsTrue, KnowsMembers, KnowsPublications, Published
<1>3. O!Range(lua.publications) \subseteq lua.objects
  BY DEF O!Range, KnowsPublications
<1>4. \A a \in O!Free : lua.items[a] = {}
  BY DEF O!Free, O!Used, KnowsPublications
<1>5. O!FoundIsAlive
  BY <1>3, <1>4 DEF O!FoundIsAlive, KnowsPublications, KnowsMembers
<1>6. QED
  BY <1>1, <1>2, <1>5 DEF O!ObjectsSound

LEMMA ObjectsInit == O!Init => ObjInv
<1> SUFFICES ASSUME O!Init PROVE ObjInv
  OBVIOUS
<1>1. pubs = <<>> /\ DOMAIN pubs = {} /\ DOMAIN lua.publications = {} /\ lua.publications = <<>>
  BY DEF O!Init
<1>2. RightLua(lua)
  BY DEF O!Init, RightLua, LuaObjects
<1>3. OwnAddresses(pubs)
  BY <1>1 DEF OwnAddresses
<1>4. Published(pubs) = {}
  BY <1>1 DEF Published
<1>5. lua.publications = [n \in Published(pubs) |-> pubs[n].at]
  BY <1>1, <1>4
<1>6. KnowsPublications(lua, pubs)
  BY <1>1, <1>4, <1>5 DEF KnowsPublications, O!Init
<1>7. KnowsMembers(lua, connected, memberships)
  BY DEF KnowsMembers, O!Init
<1>8. QED
  BY <1>2, <1>3, <1>6, <1>7 DEF ObjInv

-----------------------------------------------------------------------------
(* Lua's operations *)

LEMMA LuaAdds ==
    ASSUME NEW l, RightLua(l), NEW o \in LuaObjects
    PROVE  /\ RightLua(O!AddObject(l, o))
           /\ O!AddObject(l, o).objects = l.objects \cup {o} /\ O!AddObject(l, o).items = l.items
           /\ O!AddObject(l, o).clients = l.clients /\ O!AddObject(l, o).groups = l.groups
           /\ O!AddObject(l, o).publications = l.publications
BY DEF RightLua, O!AddObject

LEMMA LuaRemoves ==
    ASSUME NEW l, RightLua(l), NEW o \in LuaObjects
    PROVE  /\ RightLua(O!RemoveObject(l, o))
           /\ O!RemoveObject(l, o).objects = l.objects \ {o}
           /\ O!RemoveObject(l, o).items = [l.items EXCEPT ![o] = {}]
           /\ O!RemoveObject(l, o).clients = l.clients /\ O!RemoveObject(l, o).groups = l.groups
           /\ O!RemoveObject(l, o).publications = l.publications
<1> DEFINE r == O!RemoveObject(l, o)
<1>1. r = [objects |-> l.objects \ {o}, items |-> [l.items EXCEPT ![o] = {}], clients |-> l.clients,
           publications |-> l.publications, groups |-> l.groups]
  <2>1. r = [l EXCEPT !.objects = @ \ {o}, !.items = [@ EXCEPT ![o] = {}]]
    BY DEF O!RemoveObject
  <2>2. QED
    BY <2>1 DEF RightLua
<1>2. /\ r.objects = l.objects \ {o} /\ r.items = [l.items EXCEPT ![o] = {}]
      /\ r.clients = l.clients /\ r.groups = l.groups /\ r.publications = l.publications
  BY <1>1
<1>3. RightLua(r)
  <2>1. r.objects \subseteq LuaObjects
    BY <1>2 DEF RightLua
  <2>2. r.items = [x \in LuaObjects |-> r.items[x]] /\ \A x \in LuaObjects \ r.objects : r.items[x] = {}
    BY <1>2 DEF RightLua
  <2>3. r = [objects |-> r.objects, items |-> r.items, clients |-> r.clients,
             publications |-> r.publications, groups |-> r.groups]
    BY <1>1, <1>2
  <2>4. QED
    BY <2>1, <2>2, <2>3 DEF RightLua
<1>4. QED
  BY <1>2, <1>3

LEMMA LuaAddsItem ==
    ASSUME NEW l, RightLua(l), NEW o \in LuaObjects, NEW item
    PROVE  /\ RightLua(O!AddItem(l, o, item))
           /\ O!AddItem(l, o, item).objects = l.objects
           /\ O!AddItem(l, o, item).items =
                 IF o \in l.objects THEN [l.items EXCEPT ![o] = @ \cup {item}] ELSE l.items
           /\ O!AddItem(l, o, item).clients = l.clients /\ O!AddItem(l, o, item).groups = l.groups
           /\ O!AddItem(l, o, item).publications = l.publications
BY DEF RightLua, O!AddItem

LEMMA LuaRemovesItem ==
    ASSUME NEW l, RightLua(l), NEW o \in LuaObjects, NEW item
    PROVE  /\ RightLua(O!RemoveItem(l, o, item))
           /\ O!RemoveItem(l, o, item).objects = l.objects
           /\ O!RemoveItem(l, o, item).items = [l.items EXCEPT ![o] = @ \ {item}]
           /\ O!RemoveItem(l, o, item).clients = l.clients /\ O!RemoveItem(l, o, item).groups = l.groups
           /\ O!RemoveItem(l, o, item).publications = l.publications
<1>1. CASE o \in l.objects
  BY <1>1 DEF RightLua, O!RemoveItem
<1>2. CASE o \notin l.objects
  <2>1. l.items[o] = {} /\ O!RemoveItem(l, o, item) = l
    BY <1>2 DEF RightLua, O!RemoveItem
  <2>2. l.items = [l.items EXCEPT ![o] = @ \ {item}]
    BY <2>1 DEF RightLua
  <2>3. QED
    BY <2>1, <2>2
<1>3. QED
  BY <1>1, <1>2

\* The collections of mona.
LEMMA LuaClients ==
    ASSUME NEW l, RightLua(l), NEW c
    PROVE  /\ RightLua(O!AddClient(l, c)) /\ O!AddClient(l, c) = [l EXCEPT !.clients = @ \cup {c}]
           /\ RightLua(O!RemoveClient(l, c)) /\ O!RemoveClient(l, c) = [l EXCEPT !.clients = @ \ {c}]
BY DEF RightLua, O!AddClient, O!RemoveClient

LEMMA LuaGroups ==
    ASSUME NEW l, RightLua(l), NEW g
    PROVE  /\ RightLua(O!AddGroup(l, g)) /\ O!AddGroup(l, g) = [l EXCEPT !.groups = @ \cup {g}]
           /\ RightLua(O!RemoveGroup(l, g)) /\ O!RemoveGroup(l, g) = [l EXCEPT !.groups = @ \ {g}]
BY DEF RightLua, O!AddGroup, O!RemoveGroup

LEMMA LuaPublications ==
    ASSUME NEW l, RightLua(l), NEW n, NEW at
    PROVE  /\ RightLua(O!AddPublication(l, n, at))
           /\ O!AddPublication(l, n, at) = [l EXCEPT !.publications = O!With(@, n, at)]
           /\ RightLua(O!RemovePublication(l, n))
           /\ O!RemovePublication(l, n) = [l EXCEPT !.publications = O!Without(@, n)]
BY DEF RightLua, O!AddPublication, O!RemovePublication

\* Each half does not see what is done for the other.
LEMMA PublicationsApart ==
    ASSUME O!ObjectsAssumption, NEW table, OwnAddresses(table), NEW l, NEW m, KnowsPublications(l, table),
           m.publications = l.publications, \A a \in Addresses : m.items[a] = l.items[a],
           \A a \in Addresses : a \in l.objects => a \in m.objects
    PROVE  KnowsPublications(m, table)
BY DEF KnowsPublications, OwnAddresses, O!Range, Published

LEMMA MembersApart ==
    ASSUME O!ObjectsAssumption, NEW here, NEW members, NEW l, NEW m, KnowsMembers(l, here, members),
           m.clients = l.clients, m.groups = l.groups, \A g \in Groups : m.items[g] = l.items[g],
           \A o \in Clients \cup Groups : o \in l.objects <=> o \in m.objects
    PROVE  KnowsMembers(m, here, members)
BY DEF KnowsMembers

-----------------------------------------------------------------------------
(* The table of publications *)

\* A publication that nobody publishes nor plays leaves nothing that is found.
LEMMA KeptSound ==
    ASSUME NEW table, NEW l, NEW n \in DOMAIN table, OwnAddresses(table), KnowsPublications(l, table)
    PROVE  OwnAddresses(O!Kept(table, n)) /\ KnowsPublications(l, O!Kept(table, n))
<1>1. CASE ~(table[n].publisher = Nobody /\ table[n].listeners = <<>>)
  BY <1>1 DEF O!Kept
<1>2. CASE table[n].publisher = Nobody /\ table[n].listeners = <<>>
  <2> DEFINE rest == O!Kept(table, n)
  <2>1. DOMAIN rest = DOMAIN table \ {n} /\ \A m \in DOMAIN rest : rest[m] = table[m]
    BY <1>2 DEF O!Kept, O!Without, O!Restrict
  <2>2. OwnAddresses(rest)
    BY <2>1 DEF OwnAddresses
  <2>3. Published(rest) = Published(table)
    BY <1>2, <2>1 DEF Published
  <2>4. l.publications = [m \in Published(rest) |-> rest[m].at]
    BY <2>1, <2>3 DEF KnowsPublications, Published
  <2>5. l.items[table[n].at] = {}
    <3>1. DOMAIN table[n].listeners = {}
      BY <1>2
    <3>2. QED
      BY <3>1 DEF KnowsPublications, O!Range
  <2>6. ASSUME NEW a \in Addresses, \A m \in DOMAIN rest : rest[m].at # a PROVE l.items[a] = {}
    BY <2>1, <2>5, <2>6 DEF KnowsPublications
  <2>7. \A m \in Published(rest) : rest[m].at \in l.objects
    BY <2>1, <2>3 DEF KnowsPublications, Published
  <2>8. \A m \in DOMAIN rest : l.items[rest[m].at] \subseteq O!Range(rest[m].listeners) \cap l.objects
    BY <2>1 DEF KnowsPublications
  <2>9. KnowsPublications(l, rest)
    BY <2>4, <2>6, <2>7, <2>8 DEF KnowsPublications
  <2>10. QED
    BY <2>2, <2>9
<1>3. QED
  BY <1>1, <1>2

\* Its object may be forgotten, too.
LEMMA ForgottenSound ==
    ASSUME NEW table, NEW l, NEW n \in DOMAIN table, OwnAddresses(table), KnowsPublications(l, table),
           RightLua(l), table[n].publisher = Nobody, table[n].listeners = <<>>
    PROVE  KnowsPublications(O!RemoveObject(l, table[n].at), O!Kept(table, n))
<1> DEFINE rest == O!Kept(table, n)
           left == O!RemoveObject(l, table[n].at)
<1>1. DOMAIN rest = DOMAIN table \ {n} /\ \A m \in DOMAIN rest : rest[m] = table[m]
  BY DEF O!Kept, O!Without, O!Restrict
<1>2. table[n].at \in LuaObjects /\ table[n].at \in Addresses
  BY DEF OwnAddresses, LuaObjects
<1>3. KnowsPublications(l, rest)
  BY KeptSound
<1>4. /\ left.objects = l.objects \ {table[n].at} /\ left.items = [l.items EXCEPT ![table[n].at] = {}]
      /\ left.publications = l.publications
  BY <1>2, LuaRemoves
<1>5. \A m \in DOMAIN rest : rest[m].at # table[n].at /\ table[n].at \notin O!Range(rest[m].listeners)
  BY <1>1 DEF OwnAddresses, O!Range
<1>6. DOMAIN l.items = LuaObjects
  BY DEF RightLua
<1>7. \A a \in Addresses : left.items[a] = IF a = table[n].at THEN {} ELSE l.items[a]
  BY <1>4, <1>6 DEF LuaObjects
<1>8. \A m \in DOMAIN rest : rest[m].at \in Addresses
  BY <1>1 DEF OwnAddresses
<1>9. \A m \in Published(rest) : rest[m].at \in left.objects
  BY <1>3, <1>4, <1>5 DEF KnowsPublications, Published
<1>10. \A m \in DOMAIN rest : left.items[rest[m].at] \subseteq O!Range(rest[m].listeners) \cap left.objects
  <2> TAKE m \in DOMAIN rest
  <2>1. left.items[rest[m].at] = l.items[rest[m].at]
    BY <1>5, <1>7, <1>8
  <2>2. l.items[rest[m].at] \subseteq O!Range(rest[m].listeners) \cap l.objects
    BY <1>3 DEF KnowsPublications
  <2>3. QED
    BY <1>4, <1>5, <2>1, <2>2
<1>11. QED
  BY <1>3, <1>4, <1>7, <1>9, <1>10 DEF KnowsPublications

\* The publication of a name, which may be a new one.
TableWith(n, at) == IF n \in O!Named THEN pubs ELSE O!With(pubs, n, O!NewPublication(at))
MayBeAt(n) == IF n \in O!Named THEN {pubs[n].at} ELSE O!Free
UnusedIn(table, a) ==
    \A m \in DOMAIN table : table[m].at # a /\ a \notin O!Range(table[m].listeners)

LEMMA FreeIsUnused == \A a \in O!Free : a \in Addresses /\ UnusedIn(pubs, a)
BY DEF O!Free, O!Used, O!Named, UnusedIn

LEMMA TableSound ==
    ASSUME ObjInv, NEW n \in Names, NEW at \in MayBeAt(n)
    PROVE  LET table == TableWith(n, at) IN
           /\ OwnAddresses(table) /\ KnowsPublications(lua, table)
           /\ n \in DOMAIN table /\ table[n].at = at /\ at \in Addresses
           /\ \A a \in O!Free \ {at} : UnusedIn(table, a)
<1> DEFINE table == TableWith(n, at)
<1>1. CASE n \in O!Named
  <2>1. table = pubs /\ at = pubs[n].at
    BY <1>1 DEF TableWith, MayBeAt
  <2>2. QED
    BY <1>1, <2>1, FreeIsUnused DEF ObjInv, OwnAddresses, O!Named
<1>2. CASE n \notin O!Named
  <2>1. at \in O!Free /\ at \in Addresses /\ UnusedIn(pubs, at)
    BY <1>2, FreeIsUnused DEF MayBeAt
  <2>2. DOMAIN table = DOMAIN pubs \cup {n} /\ \A m \in DOMAIN pubs : table[m] = pubs[m] /\ m # n
    BY <1>2 DEF TableWith, O!With, O!Named
  <2>3. table[n] = O!NewPublication(at)
    BY <1>2 DEF TableWith, O!With
  <2>4. /\ table[n].at = at /\ table[n].publisher = Nobody /\ DOMAIN table[n].listeners = {}
        /\ table[n] = [at |-> table[n].at, publisher |-> table[n].publisher, listeners |-> table[n].listeners]
    BY <2>3 DEF O!NewPublication
  <2>5. OwnAddresses(table)
    <3>1. OwnAddresses(pubs)
      BY DEF ObjInv
    <3>2. DOMAIN table \subseteq Names
      BY <2>2, <3>1 DEF OwnAddresses
    <3>3. ASSUME NEW m \in DOMAIN table
          PROVE  /\ table[m] = [at |-> table[m].at, publisher |-> table[m].publisher, listeners |-> table[m].listeners]
                 /\ table[m].at \in Addresses /\ table[m].publisher \in Clients \cup {Nobody}
                 /\ DOMAIN table[m].listeners \subseteq Clients
                 /\ \A c \in DOMAIN table[m].listeners : table[m].listeners[c] \in Addresses
      <4>1. CASE m = n
        BY <4>1, <2>4, <2>1
      <4>2. CASE m \in DOMAIN pubs
        BY <4>2, <2>2, <3>1 DEF OwnAddresses
      <4>3. QED
        BY <4>1, <4>2, <2>2
    <3>4. ASSUME NEW m \in DOMAIN table, NEW k \in DOMAIN table
          PROVE  /\ table[m].at = table[k].at => m = k
                 /\ \A c \in DOMAIN table[k].listeners :
                       /\ table[k].listeners[c] # table[m].at
                       /\ \A b \in DOMAIN table[m].listeners :
                             table[m].listeners[b] = table[k].listeners[c] => m = k /\ b = c
      BY <2>1, <2>2, <2>4, <3>1 DEF OwnAddresses, UnusedIn, O!Range
    <3>5. QED
      BY <3>2, <3>3, <3>4 DEF OwnAddresses
  <2>6. KnowsPublications(lua, table)
    <3>1. KnowsPublications(lua, pubs)
      BY DEF ObjInv
    <3>2. Published(table) = Published(pubs)
      BY <2>2, <2>4 DEF Published
    <3>3. lua.items[at] = {}
      BY <2>1, <3>1 DEF KnowsPublications, UnusedIn
    <3>4. /\ lua.publications = [m \in Published(table) |-> table[m].at]
          /\ \A m \in Published(table) : table[m].at \in lua.objects
      BY <2>2, <3>1, <3>2 DEF KnowsPublications, Published
    <3>5. /\ \A m \in DOMAIN table : lua.items[table[m].at] \subseteq O!Range(table[m].listeners) \cap lua.objects
          /\ \A a \in Addresses : (\A m \in DOMAIN table : table[m].at # a) => lua.items[a] = {}
      BY <2>2, <2>4, <3>1, <3>3 DEF KnowsPublications
    <3>6. QED
      BY <3>4, <3>5 DEF KnowsPublications
  <2>7. \A a \in O!Free \ {at} : UnusedIn(table, a)
    BY <2>2, <2>4, FreeIsUnused DEF UnusedIn, O!Range
  <2>8. QED
    BY <2>1, <2>2, <2>4, <2>5, <2>6, <2>7
<1>3. QED
  BY <1>1, <1>2

-----------------------------------------------------------------------------
(* The events of publications *)

\* What happens to publications is not seen by the members of groups.
LEMMA EventSound ==
    ASSUME O!ObjectsAssumption, ObjInv, RightLua(lua'), OwnAddresses(pubs'), KnowsPublications(lua', pubs'),
           lua'.clients = lua.clients, lua'.groups = lua.groups, UNCHANGED <<connected, memberships>>,
           \A o \in Clients \cup Groups : /\ lua'.items[o] = lua.items[o]
                                          /\ o \in lua.objects <=> o \in lua'.objects
    PROVE  ObjInv'
<1>1. KnowsMembers(lua, connected, memberships)
  BY DEF ObjInv
<1>2. KnowsMembers(lua', connected, memberships)
  BY <1>1, MembersApart
<1>3. QED
  BY <1>2 DEF ObjInv

LEMMA PublishSound ==
    ASSUME O!ObjectsAssumption, ObjInv, NEW c \in Clients, NEW n \in Names, NEW accepts \in BOOLEAN,
           O!Publish(c, n, accepts)
    PROVE  ObjInv'
<1>1. PICK at \in MayBeAt(n) :
        LET table == TableWith(n, at) IN
        /\ table[n].publisher = Nobody
        /\ pubs' = IF accepts THEN [table EXCEPT ![n].publisher = c] ELSE O!Kept(table, n)
        /\ lua' = O!OnPublish(lua, n, table[n], accepts)
  BY DEF O!Publish, MayBeAt, TableWith
<1> DEFINE table == TableWith(n, at)
           added == O!AddObject(lua, at)
<1>2. /\ OwnAddresses(table) /\ KnowsPublications(lua, table)
      /\ n \in DOMAIN table /\ table[n].at = at /\ at \in Addresses
  BY TableSound
<1> HIDE DEF table
<1>3. table[n].publisher = Nobody
  BY <1>1 DEF table
<1>4. at \in LuaObjects /\ at \notin Clients \cup Groups
  BY <1>2 DEF LuaObjects, O!ObjectsAssumption
<1>5. RightLua(lua) /\ UNCHANGED <<connected, memberships>>
  BY DEF ObjInv, O!Publish
<1>6. /\ RightLua(added) /\ added.objects = lua.objects \cup {at} /\ added.items = lua.items
      /\ added.clients = lua.clients /\ added.groups = lua.groups /\ added.publications = lua.publications
  BY <1>4, <1>5, LuaAdds
<1>7. KnowsPublications(added, table)
  BY <1>2, <1>6, PublicationsApart
<1> HIDE DEF added
<1>8. CASE accepts
  <2>1. pubs' = [table EXCEPT ![n].publisher = c] /\ lua' = O!AddPublication(added, n, at)
    BY <1>1, <1>2, <1>8 DEF table, added, O!OnPublish
  <2>2. RightLua(lua') /\ lua' = [added EXCEPT !.publications = O!With(@, n, at)]
    BY <2>1, <1>6, LuaPublications
  <2>3. /\ lua'.objects = added.objects /\ lua'.items = added.items /\ lua'.clients = added.clients
        /\ lua'.groups = added.groups /\ lua'.publications = O!With(added.publications, n, at)
    BY <2>2, <1>6 DEF RightLua
  <2>4. /\ DOMAIN pubs' = DOMAIN table /\ pubs'[n].publisher = c /\ pubs'[n].at = at
        /\ pubs'[n].listeners = table[n].listeners
        /\ pubs'[n] = [at |-> pubs'[n].at, publisher |-> pubs'[n].publisher, listeners |-> pubs'[n].listeners]
        /\ \A m \in DOMAIN table : m # n => pubs'[m] = table[m]
    BY <2>1, <1>2 DEF OwnAddresses
  <2>5. \A m \in DOMAIN table : pubs'[m].at = table[m].at /\ pubs'[m].listeners = table[m].listeners
    BY <1>2, <2>4
  <2>6. OwnAddresses(pubs')
    BY <1>2, <2>4, <2>5 DEF OwnAddresses
  <2>7. Published(pubs') = Published(table) \cup {n} /\ n \notin Published(table)
    BY <1>2, <1>3, <2>4 DEF Published, O!ObjectsAssumption
  <2>8. lua'.publications = [m \in Published(pubs') |-> pubs'[m].at]
    <3>1. added.publications = [m \in Published(table) |-> table[m].at]
      BY <1>7 DEF KnowsPublications
    <3>2. \A m \in Published(table) : table[m].at = pubs'[m].at
      BY <2>5 DEF Published
    <3>3. QED
      BY <2>3, <2>4, <2>7, <3>1, <3>2 DEF O!With
  <2>9. \A m \in Published(pubs') : pubs'[m].at \in lua'.objects
    BY <1>6, <1>7, <2>3, <2>4, <2>5, <2>7 DEF KnowsPublications, Published
  <2>10. KnowsPublications(lua', pubs')
    BY <1>7, <2>3, <2>4, <2>5, <2>8, <2>9 DEF KnowsPublications
  <2>11. QED
    BY <1>4, <1>5, <1>6, <2>2, <2>3, <2>6, <2>10, EventSound
<1>9. CASE ~accepts /\ table[n].listeners # <<>>
  <2>1. pubs' = O!Kept(table, n) /\ lua' = added
    BY <1>1, <1>2, <1>9 DEF table, added, O!OnPublish
  <2>2. OwnAddresses(pubs') /\ KnowsPublications(lua', pubs')
    BY <1>2, <1>7, <2>1, KeptSound
  <2>3. QED
    BY <1>4, <1>5, <1>6, <2>1, <2>2, EventSound
<1>10. CASE ~accepts /\ table[n].listeners = <<>>
  <2>1. pubs' = O!Kept(table, n) /\ lua' = O!RemoveObject(added, at)
    BY <1>1, <1>2, <1>10 DEF table, added, O!OnPublish
  <2>2. OwnAddresses(pubs')
    BY <1>2, <2>1, KeptSound
  <2>3. KnowsPublications(lua', pubs')
    BY <1>2, <1>3, <1>6, <1>7, <1>10, <2>1, ForgottenSound
  <2>4. /\ RightLua(lua') /\ lua'.objects = added.objects \ {at} /\ lua'.items = [added.items EXCEPT ![at] = {}]
        /\ lua'.clients = added.clients /\ lua'.groups = added.groups
    BY <1>4, <1>6, <2>1, LuaRemoves
  <2>5. \A o \in Clients \cup Groups : lua'.items[o] = lua.items[o]
    BY <1>4, <1>5, <1>6, <2>4 DEF RightLua, LuaObjects
  <2>6. QED
    BY <1>4, <1>5, <1>6, <2>2, <2>3, <2>4, <2>5, EventSound
<1>11. QED
  BY <1>8, <1>9, <1>10

LEMMA UnpublishSound ==
    ASSUME O!ObjectsAssumption, ObjInv, NEW c \in Clients, NEW n \in Names, O!Unpublish(c, n)
    PROVE  ObjInv'
<1> DEFINE table == [pubs EXCEPT ![n].publisher = Nobody]
           removed == O!RemovePublication(lua, n)
           at == pubs[n].at
<1>1. /\ n \in DOMAIN pubs /\ pubs[n].publisher = c /\ pubs' = O!Kept(table, n)
      /\ lua' = IF pubs[n].listeners = <<>> THEN O!RemoveObject(removed, at) ELSE removed
      /\ UNCHANGED <<connected, memberships>>
  BY DEF O!Unpublish, O!Named
<1>2. RightLua(lua) /\ OwnAddresses(pubs) /\ KnowsPublications(lua, pubs) /\ c # Nobody
  BY DEF ObjInv, O!ObjectsAssumption
<1>3. at \in LuaObjects /\ at \in Addresses /\ at \notin Clients \cup Groups
  BY <1>1, <1>2 DEF OwnAddresses, LuaObjects, O!ObjectsAssumption
<1>4. /\ RightLua(removed) /\ removed.objects = lua.objects /\ removed.items = lua.items
      /\ removed.clients = lua.clients /\ removed.groups = lua.groups
      /\ removed.publications = O!Without(lua.publications, n)
  <2>1. RightLua(removed) /\ removed = [lua EXCEPT !.publications = O!Without(@, n)]
    BY <1>2, LuaPublications
  <2>2. QED
    BY <1>2, <2>1 DEF RightLua
<1>5. /\ DOMAIN table = DOMAIN pubs /\ table[n].publisher = Nobody /\ table[n].at = at
      /\ table[n].listeners = pubs[n].listeners
      /\ table[n] = [at |-> table[n].at, publisher |-> table[n].publisher, listeners |-> table[n].listeners]
      /\ \A m \in DOMAIN pubs : m # n => table[m] = pubs[m]
  BY <1>1, <1>2 DEF OwnAddresses
<1> HIDE DEF table, removed
<1>6. \A m \in DOMAIN pubs : table[m].at = pubs[m].at /\ table[m].listeners = pubs[m].listeners
  BY <1>1, <1>5
<1>7. OwnAddresses(table)
  BY <1>2, <1>5, <1>6 DEF OwnAddresses
<1>8. Published(table) = Published(pubs) \ {n}
  BY <1>1, <1>5 DEF Published
<1>9. removed.publications = [m \in Published(table) |-> table[m].at]
  <2>1. lua.publications = [m \in Published(pubs) |-> pubs[m].at]
    BY <1>2 DEF KnowsPublications
  <2>2. \A m \in Published(table) : table[m].at = pubs[m].at
    BY <1>5, <1>6 DEF Published
  <2>3. QED
    BY <1>4, <1>8, <2>1, <2>2 DEF O!Without, O!Restrict
<1>10. KnowsPublications(removed, table)
  <2>1. \A m \in Published(table) : table[m].at \in removed.objects
    BY <1>2, <1>4, <1>6, <1>8 DEF KnowsPublications, Published
  <2>2. \A m \in DOMAIN table : removed.items[table[m].at] \subseteq O!Range(table[m].listeners) \cap removed.objects
    BY <1>2, <1>4, <1>5, <1>6 DEF KnowsPublications
  <2>3. ASSUME NEW a \in Addresses, \A m \in DOMAIN table : table[m].at # a PROVE removed.items[a] = {}
    BY <1>2, <1>4, <1>5, <1>6, <2>3 DEF KnowsPublications
  <2>4. QED
    BY <1>9, <2>1, <2>2, <2>3 DEF KnowsPublications
<1>11. OwnAddresses(pubs')
  BY <1>1, <1>5, <1>7, <1>10, KeptSound
<1>12. CASE pubs[n].listeners # <<>>
  <2>1. KnowsPublications(lua', pubs')
    BY <1>1, <1>5, <1>7, <1>10, <1>12, KeptSound
  <2>2. QED
    BY <1>1, <1>4, <1>11, <1>12, <2>1, EventSound
<1>13. CASE pubs[n].listeners = <<>>
  <2>1. KnowsPublications(lua', pubs')
    BY <1>1, <1>4, <1>5, <1>7, <1>10, <1>13, ForgottenSound
  <2>2. /\ RightLua(lua') /\ lua'.objects = removed.objects \ {at} /\ lua'.items = [removed.items EXCEPT ![at] = {}]
        /\ lua'.clients = removed.clients /\ lua'.groups = removed.groups
    <3>1. lua' = O!RemoveObject(removed, at)
      BY <1>1, <1>13
    <3>2. QED
      BY <1>3, <1>4, <3>1, LuaRemoves
  <2>3. \A o \in Clients \cup Groups : lua'.items[o] = lua.items[o]
    BY <1>2, <1>3, <1>4, <2>2 DEF RightLua, LuaObjects
  <2>4. QED
    BY <1>1, <1>3, <1>4, <1>11, <2>1, <2>2, <2>3, EventSound
<1>14. QED
  BY <1>12, <1>13

\* Subscribe, and its listener's address.
LEMMA SubscribeSound ==
    ASSUME O!ObjectsAssumption, ObjInv, NEW c \in Clients, NEW n \in Names, NEW accepts \in BOOLEAN,
           O!Subscribe(c, n, accepts)
    PROVE  ObjInv'
<1>1. PICK at \in MayBeAt(n) :
        LET table == TableWith(n, at) IN
        /\ c \notin DOMAIN table[n].listeners
        /\ \E new \in O!Free \ {at} :
              LET added == O!AddItem(O!AddObject(lua, new), at, new) IN
              IF accepts
              THEN pubs' = [table EXCEPT ![n].listeners = O!With(@, c, new)] /\ lua' = added
              ELSE pubs' = O!Kept(table, n) /\ lua' = O!RemoveObject(O!RemoveItem(added, at, new), new)
  BY DEF O!Subscribe, MayBeAt, TableWith
<1> DEFINE table == TableWith(n, at)
<1>2. /\ OwnAddresses(table) /\ KnowsPublications(lua, table)
      /\ n \in DOMAIN table /\ table[n].at = at /\ at \in Addresses
      /\ \A a \in O!Free \ {at} : UnusedIn(table, a)
  BY TableSound
<1>3. PICK new \in O!Free \ {at} :
        LET added == O!AddItem(O!AddObject(lua, new), at, new) IN
        IF accepts
        THEN pubs' = [table EXCEPT ![n].listeners = O!With(@, c, new)] /\ lua' = added
        ELSE pubs' = O!Kept(table, n) /\ lua' = O!RemoveObject(O!RemoveItem(added, at, new), new)
  BY <1>1
<1>4. c \notin DOMAIN table[n].listeners
  BY <1>1
<1> DEFINE known == O!AddObject(lua, new)
           added == O!AddItem(known, at, new)
<1> HIDE DEF table
<1>5. /\ at \in LuaObjects /\ at \notin Clients \cup Groups /\ new # at
      /\ new \in LuaObjects /\ new \in Addresses /\ new \notin Clients \cup Groups /\ UnusedIn(table, new)
  BY <1>2, FreeIsUnused DEF LuaObjects, O!ObjectsAssumption
<1>6. RightLua(lua) /\ UNCHANGED <<connected, memberships>>
  BY DEF ObjInv, O!Subscribe
<1>7. /\ RightLua(known) /\ known.objects = lua.objects \cup {new} /\ known.items = lua.items
      /\ known.clients = lua.clients /\ known.groups = lua.groups /\ known.publications = lua.publications
  BY <1>5, <1>6, LuaAdds
<1> HIDE DEF known
<1>8. /\ RightLua(added) /\ added.objects = known.objects
      /\ added.items = IF at \in known.objects THEN [known.items EXCEPT ![at] = @ \cup {new}] ELSE known.items
      /\ added.clients = known.clients /\ added.groups = known.groups /\ added.publications = known.publications
  BY <1>5, <1>7, LuaAddsItem
<1> HIDE DEF added
<1>9. lua.items[new] = {}
  BY <1>2, <1>5 DEF KnowsPublications, UnusedIn
<1>10. DOMAIN lua.items = LuaObjects
  BY <1>6 DEF RightLua
<1>11. /\ \A o \in LuaObjects \ {at} : added.items[o] = lua.items[o]
       /\ added.items[at] = IF at \in lua.objects THEN lua.items[at] \cup {new} ELSE lua.items[at]
  BY <1>5, <1>7, <1>8, <1>10
<1>12. CASE accepts
  <2>1. pubs' = [table EXCEPT ![n].listeners = O!With(@, c, new)] /\ lua' = added
    BY <1>3, <1>12 DEF added, known
  <2>2. /\ DOMAIN pubs' = DOMAIN table /\ pubs'[n].publisher = table[n].publisher /\ pubs'[n].at = at
        /\ pubs'[n].listeners = O!With(table[n].listeners, c, new)
        /\ pubs'[n] = [at |-> pubs'[n].at, publisher |-> pubs'[n].publisher, listeners |-> pubs'[n].listeners]
        /\ \A m \in DOMAIN table : m # n => pubs'[m] = table[m]
    BY <2>1, <1>2 DEF OwnAddresses
  <2>3. /\ DOMAIN pubs'[n].listeners = DOMAIN table[n].listeners \cup {c} /\ pubs'[n].listeners[c] = new
        /\ \A d \in DOMAIN table[n].listeners : pubs'[n].listeners[d] = table[n].listeners[d]
    BY <1>4, <2>2 DEF O!With
  <2>4. \A m \in DOMAIN table : pubs'[m].at = table[m].at /\ pubs'[m].publisher = table[m].publisher
    BY <1>2, <2>2
  <2>5. O!Range(pubs'[n].listeners) = O!Range(table[n].listeners) \cup {new}
    BY <2>3 DEF O!Range
  <2>6. OwnAddresses(pubs')
    <3>1. ASSUME NEW m \in DOMAIN pubs'
          PROVE  /\ pubs'[m] = [at |-> pubs'[m].at, publisher |-> pubs'[m].publisher, listeners |-> pubs'[m].listeners]
                 /\ pubs'[m].at \in Addresses /\ pubs'[m].publisher \in Clients \cup {Nobody}
                 /\ DOMAIN pubs'[m].listeners \subseteq Clients
                 /\ \A d \in DOMAIN pubs'[m].listeners : pubs'[m].listeners[d] \in Addresses
      <4>1. CASE m = n
        BY <4>1, <1>2, <1>5, <2>2, <2>3 DEF OwnAddresses
      <4>2. CASE m # n
        BY <4>2, <1>2, <2>2 DEF OwnAddresses
      <4>3. QED
        BY <4>1, <4>2
    <3>2. ASSUME NEW m \in DOMAIN table, NEW d \in DOMAIN pubs'[m].listeners
          PROVE  \/ m = n /\ d = c /\ pubs'[m].listeners[d] = new
                 \/ d \in DOMAIN table[m].listeners /\ pubs'[m].listeners[d] = table[m].listeners[d]
                    /\ pubs'[m].listeners[d] # new
      <4>1. CASE m = n /\ d = c
        BY <4>1, <2>3
      <4>2. CASE ~(m = n /\ d = c)
        <5>1. d \in DOMAIN table[m].listeners /\ pubs'[m].listeners[d] = table[m].listeners[d]
          BY <4>2, <2>2, <2>3
        <5>2. table[m].listeners[d] # new
          BY <5>1, <1>5 DEF UnusedIn, O!Range
        <5>3. QED
          BY <5>1, <5>2
      <4>3. QED
        BY <4>1, <4>2
    <3>3. ASSUME NEW m \in DOMAIN pubs', NEW k \in DOMAIN pubs'
          PROVE  /\ pubs'[m].at = pubs'[k].at => m = k
                 /\ \A d \in DOMAIN pubs'[k].listeners :
                       /\ pubs'[k].listeners[d] # pubs'[m].at
                       /\ \A b \in DOMAIN pubs'[m].listeners :
                             pubs'[m].listeners[b] = pubs'[k].listeners[d] => m = k /\ b = d
      <4>1. m \in DOMAIN table /\ k \in DOMAIN table /\ new # table[m].at
        BY <2>2, <1>5 DEF UnusedIn
      <4>2. pubs'[m].at = table[m].at /\ pubs'[k].at = table[k].at
        BY <2>4, <4>1
      <4>3. pubs'[m].at = pubs'[k].at => m = k
        BY <1>2, <4>1, <4>2 DEF OwnAddresses
      <4>4. ASSUME NEW d \in DOMAIN pubs'[k].listeners PROVE pubs'[k].listeners[d] # pubs'[m].at
        BY <1>2, <3>2, <4>1, <4>2 DEF OwnAddresses
      <4>5. ASSUME NEW d \in DOMAIN pubs'[k].listeners, NEW b \in DOMAIN pubs'[m].listeners,
                   pubs'[m].listeners[b] = pubs'[k].listeners[d]
            PROVE  m = k /\ b = d
        BY <1>2, <3>2, <4>1, <4>5 DEF OwnAddresses
      <4>6. QED
        BY <4>3, <4>4, <4>5
    <3>4. QED
      BY <3>1, <3>3, <1>2, <2>2 DEF OwnAddresses
  <2>7. KnowsPublications(lua', pubs')
    <3>1. Published(pubs') = Published(table)
      BY <2>2, <2>4 DEF Published
    <3>2. /\ lua'.publications = [m \in Published(pubs') |-> pubs'[m].at]
          /\ \A m \in Published(pubs') : pubs'[m].at \in lua'.objects
      BY <1>2, <1>7, <1>8, <2>1, <2>4, <3>1 DEF KnowsPublications, Published
    <3>3. ASSUME NEW m \in DOMAIN pubs'
          PROVE  lua'.items[pubs'[m].at] \subseteq O!Range(pubs'[m].listeners) \cap lua'.objects
      <4>1. lua.items[table[m].at] \subseteq O!Range(table[m].listeners) \cap lua.objects
        BY <1>2, <2>2 DEF KnowsPublications
      <4>2. CASE m = n
        <5>1. lua.items[at] \subseteq O!Range(table[n].listeners) \cap lua.objects
          BY <4>1, <4>2, <1>2
        <5>2. lua'.items[at] \subseteq lua.items[at] \cup {new} /\ lua'.objects = lua.objects \cup {new}
          BY <1>7, <1>8, <1>11, <2>1
        <5>3. pubs'[m].at = at /\ O!Range(pubs'[m].listeners) = O!Range(table[n].listeners) \cup {new}
          BY <4>2, <2>2, <2>5
        <5>4. QED
          BY <5>1, <5>2, <5>3
      <4>3. CASE m # n
        <5>1. table[m].at # at /\ table[m].at \in LuaObjects /\ pubs'[m] = table[m]
          BY <4>3, <1>2, <2>2 DEF OwnAddresses, LuaObjects
        <5>2. QED
          BY <4>1, <5>1, <1>7, <1>8, <1>11, <2>1
      <4>4. QED
        BY <4>2, <4>3
    <3>4. ASSUME NEW a \in Addresses, \A m \in DOMAIN pubs' : pubs'[m].at # a PROVE lua'.items[a] = {}
      <4>1. a # at /\ a \in LuaObjects /\ \A m \in DOMAIN table : table[m].at # a
        BY <3>4, <1>2, <2>2, <2>4 DEF LuaObjects
      <4>2. QED
        BY <4>1, <1>2, <1>11, <2>1 DEF KnowsPublications
    <3>5. QED
      BY <3>2, <3>3, <3>4 DEF KnowsPublications
  <2>8. \A o \in Clients \cup Groups : lua'.items[o] = lua.items[o] /\ (o \in lua.objects <=> o \in lua'.objects)
    BY <1>5, <1>7, <1>8, <1>11, <2>1 DEF LuaObjects
  <2>9. QED
    BY <1>6, <1>7, <1>8, <2>1, <2>6, <2>7, <2>8, EventSound
<1>13. CASE ~accepts
  <2> DEFINE emptied == O!RemoveItem(added, at, new)
  <2>1. pubs' = O!Kept(table, n) /\ lua' = O!RemoveObject(emptied, new)
    BY <1>3, <1>13 DEF added, known
  <2>2. /\ RightLua(emptied) /\ emptied.objects = added.objects /\ emptied.items = [added.items EXCEPT ![at] = @ \ {new}]
        /\ emptied.clients = added.clients /\ emptied.groups = added.groups
        /\ emptied.publications = added.publications
    BY <1>5, <1>8, LuaRemovesItem
  <2> HIDE DEF emptied
  <2>3. /\ RightLua(lua') /\ lua'.objects = emptied.objects \ {new} /\ lua'.items = [emptied.items EXCEPT ![new] = {}]
        /\ lua'.clients = emptied.clients /\ lua'.groups = emptied.groups
        /\ lua'.publications = emptied.publications
    <3> DEFINE r == O!RemoveObject(emptied, new)
    <3>1. new \in LuaObjects /\ RightLua(emptied) /\ lua' = r
      BY <1>5, <2>1, <2>2
    <3>2. /\ RightLua(r) /\ r.objects = emptied.objects \ {new} /\ r.items = [emptied.items EXCEPT ![new] = {}]
          /\ r.clients = emptied.clients /\ r.groups = emptied.groups
          /\ r.publications = emptied.publications
      BY <3>1, LuaRemoves
    <3> HIDE DEF r
    <3>3. QED
      BY <3>1, <3>2
  <2>4. new \notin lua.items[at]
    BY <1>2, <1>5 DEF KnowsPublications, UnusedIn
  <2>5. \A o \in LuaObjects : lua'.items[o] = lua.items[o]
    <3>1. DOMAIN added.items = LuaObjects /\ DOMAIN emptied.items = LuaObjects
      BY <1>8, <2>2 DEF RightLua
    <3>2. QED
      <4> TAKE o \in LuaObjects
      <4>1. CASE o = new
        BY <4>1, <3>1, <1>5, <1>9, <2>3
      <4>2. CASE o = at
        <5>1. lua'.items[o] = added.items[at] \ {new}
          BY <4>2, <3>1, <1>5, <2>2, <2>3
        <5>2. QED
          BY <5>1, <4>2, <1>11, <2>4
      <4>3. CASE o # new /\ o # at
        BY <4>3, <3>1, <1>11, <2>2, <2>3
      <4>4. QED
        BY <4>1, <4>2, <4>3
  <2>6. lua'.objects = lua.objects \ {new}
    BY <1>7, <1>8, <2>2, <2>3
  <2>7. KnowsPublications(lua', table)
    <3>1. ASSUME NEW m \in DOMAIN table
          PROVE  lua'.items[table[m].at] \subseteq O!Range(table[m].listeners) \cap lua'.objects
      <4>1. lua.items[table[m].at] \subseteq O!Range(table[m].listeners) \cap lua.objects
        BY <1>2 DEF KnowsPublications
      <4>2. table[m].at \in LuaObjects /\ new \notin O!Range(table[m].listeners)
        BY <1>2, <1>5 DEF OwnAddresses, LuaObjects, UnusedIn
      <4>3. QED
        BY <4>1, <4>2, <2>5, <2>6
    <3>2. \A m \in Published(table) : table[m].at \in lua'.objects
      BY <1>2, <1>5, <2>6 DEF KnowsPublications, Published, UnusedIn
    <3>3. lua'.publications = lua.publications
      BY <1>7, <1>8, <2>2, <2>3
    <3>4. \A a \in Addresses : (\A m \in DOMAIN table : table[m].at # a) => lua'.items[a] = {}
      BY <1>2, <2>5 DEF KnowsPublications, LuaObjects
    <3>5. QED
      BY <3>1, <3>2, <3>3, <3>4, <1>2 DEF KnowsPublications
  <2>8. OwnAddresses(pubs') /\ KnowsPublications(lua', pubs')
    BY <1>2, <2>1, <2>7, KeptSound
  <2>9. \A o \in Clients \cup Groups : lua'.items[o] = lua.items[o] /\ (o \in lua.objects <=> o \in lua'.objects)
    BY <1>5, <2>5, <2>6 DEF LuaObjects
  <2>10. QED
    BY <1>6, <1>7, <1>8, <2>2, <2>3, <2>8, <2>9, EventSound
<1>14. QED
  BY <1>12, <1>13

LEMMA UnsubscribeSound ==
    ASSUME O!ObjectsAssumption, ObjInv, NEW c \in Clients, NEW n \in Names, O!Unsubscribe(c, n)
    PROVE  ObjInv'
<1> DEFINE at == pubs[n].at
           old == pubs[n].listeners[c]
           table == [pubs EXCEPT ![n].listeners = O!Without(@, c)]
           added == O!AddObject(lua, old)
<1>1. /\ n \in DOMAIN pubs /\ c \in DOMAIN pubs[n].listeners /\ pubs' = O!Kept(table, n)
      /\ lua' = O!RemoveItem(added, at, old) /\ UNCHANGED <<connected, memberships>>
  BY DEF O!Unsubscribe, O!Named
<1>2. RightLua(lua) /\ OwnAddresses(pubs) /\ KnowsPublications(lua, pubs)
  BY DEF ObjInv
<1>3. /\ at \in LuaObjects /\ at \in Addresses /\ at \notin Clients \cup Groups
      /\ old \in LuaObjects /\ old \in Addresses /\ old \notin Clients \cup Groups
  BY <1>1, <1>2 DEF OwnAddresses, LuaObjects, O!ObjectsAssumption
<1>4. /\ RightLua(added) /\ added.objects = lua.objects \cup {old} /\ added.items = lua.items
      /\ added.clients = lua.clients /\ added.groups = lua.groups /\ added.publications = lua.publications
  BY <1>2, <1>3, LuaAdds
<1>5. /\ DOMAIN table = DOMAIN pubs /\ table[n].publisher = pubs[n].publisher /\ table[n].at = at
      /\ table[n].listeners = O!Without(pubs[n].listeners, c)
      /\ table[n] = [at |-> table[n].at, publisher |-> table[n].publisher, listeners |-> table[n].listeners]
      /\ \A m \in DOMAIN pubs : m # n => table[m] = pubs[m]
  BY <1>1, <1>2 DEF OwnAddresses
<1> HIDE DEF table, added
<1>6. /\ RightLua(lua') /\ lua'.objects = added.objects /\ lua'.items = [added.items EXCEPT ![at] = @ \ {old}]
      /\ lua'.clients = added.clients /\ lua'.groups = added.groups /\ lua'.publications = added.publications
  BY <1>1, <1>3, <1>4, LuaRemovesItem
<1>7. /\ \A m \in DOMAIN pubs : table[m].at = pubs[m].at /\ table[m].publisher = pubs[m].publisher
      /\ \A m \in DOMAIN pubs : /\ DOMAIN table[m].listeners \subseteq DOMAIN pubs[m].listeners
                                /\ \A d \in DOMAIN table[m].listeners : table[m].listeners[d] = pubs[m].listeners[d]
      /\ DOMAIN table[n].listeners = DOMAIN pubs[n].listeners \ {c}
  BY <1>1, <1>5 DEF O!Without, O!Restrict
<1>8. OwnAddresses(table)
  <2>1. ASSUME NEW m \in DOMAIN table
        PROVE  table[m] = [at |-> table[m].at, publisher |-> table[m].publisher, listeners |-> table[m].listeners]
    BY <1>2, <1>5 DEF OwnAddresses
  <2>2. QED
    BY <2>1, <1>2, <1>5, <1>7 DEF OwnAddresses
<1>9. O!Range(table[n].listeners) = O!Range(pubs[n].listeners) \ {old}
  BY <1>1, <1>2, <1>7 DEF O!Range, OwnAddresses
<1>10. DOMAIN lua.items = LuaObjects
  BY <1>2 DEF RightLua
<1>11. \A o \in LuaObjects : lua'.items[o] = IF o = at THEN lua.items[at] \ {old} ELSE lua.items[o]
  BY <1>3, <1>4, <1>6, <1>10
<1>12. KnowsPublications(lua', table)
  <2>1. Published(table) = Published(pubs)
    BY <1>5, <1>7 DEF Published
  <2>2. /\ lua'.publications = [m \in Published(table) |-> table[m].at]
        /\ \A m \in Published(table) : table[m].at \in lua'.objects
    BY <1>2, <1>4, <1>6, <1>7, <2>1 DEF KnowsPublications, Published
  <2>3. ASSUME NEW m \in DOMAIN table
        PROVE  lua'.items[table[m].at] \subseteq O!Range(table[m].listeners) \cap lua'.objects
    <3>1. lua.items[pubs[m].at] \subseteq O!Range(pubs[m].listeners) \cap lua.objects
      BY <1>2, <1>5 DEF KnowsPublications
    <3>2. CASE m = n
      BY <3>1, <3>2, <1>3, <1>4, <1>5, <1>6, <1>9, <1>11
    <3>3. CASE m # n
      <4>1. pubs[m].at # at /\ pubs[m].at \in LuaObjects /\ table[m] = pubs[m]
        BY <3>3, <1>1, <1>2, <1>5 DEF OwnAddresses, LuaObjects
      <4>2. QED
        BY <3>1, <4>1, <1>4, <1>6, <1>11
    <3>4. QED
      BY <3>2, <3>3
  <2>4. ASSUME NEW a \in Addresses, \A m \in DOMAIN table : table[m].at # a PROVE lua'.items[a] = {}
    <3>1. a # at /\ a \in LuaObjects /\ \A m \in DOMAIN pubs : pubs[m].at # a
      BY <2>4, <1>1, <1>5, <1>7 DEF LuaObjects
    <3>2. QED
      BY <3>1, <1>2, <1>11 DEF KnowsPublications
  <2>5. QED
    BY <2>2, <2>3, <2>4 DEF KnowsPublications
<1>13. OwnAddresses(pubs') /\ KnowsPublications(lua', pubs')
  BY <1>1, <1>5, <1>8, <1>12, KeptSound
<1>14. \A o \in Clients \cup Groups : lua'.items[o] = lua.items[o] /\ (o \in lua.objects <=> o \in lua'.objects)
  BY <1>3, <1>4, <1>6, <1>11 DEF LuaObjects
<1>15. QED
  BY <1>1, <1>4, <1>6, <1>13, <1>14, EventSound

-----------------------------------------------------------------------------
(* The events of clients and groups *)

LEMMA MemberSound ==
    ASSUME O!ObjectsAssumption, ObjInv, RightLua(lua'), KnowsMembers(lua', connected', memberships'),
           pubs' = pubs, lua'.publications = lua.publications,
           \A a \in Addresses : /\ lua'.items[a] = lua.items[a]
                                /\ a \in lua.objects => a \in lua'.objects
    PROVE  ObjInv'
<1>1. OwnAddresses(pubs') /\ KnowsPublications(lua', pubs)
  BY PublicationsApart DEF ObjInv
<1>2. QED
  BY <1>1 DEF ObjInv

LEMMA ConnectSound ==
    ASSUME O!ObjectsAssumption, ObjInv, NEW c \in Clients, NEW accepts \in BOOLEAN, O!Connect(c, accepts)
    PROVE  ObjInv'
<1> DEFINE added == O!AddObject(lua, c)
<1>1. /\ RightLua(lua) /\ KnowsMembers(lua, connected, memberships) /\ c \notin connected
      /\ pubs' = pubs /\ memberships' = memberships
  BY DEF ObjInv, O!Connect
<1>2. c \in LuaObjects /\ c \notin Groups /\ c \notin Addresses
  BY DEF LuaObjects, O!ObjectsAssumption
<1>3. /\ RightLua(added) /\ added.objects = lua.objects \cup {c} /\ added.items = lua.items
      /\ added.clients = lua.clients /\ added.groups = lua.groups /\ added.publications = lua.publications
  BY <1>1, <1>2, LuaAdds
<1>4. c \notin lua.objects
  BY <1>1, <1>2 DEF KnowsMembers
<1> HIDE DEF added
<1>5. CASE accepts
  <2>1. lua' = O!AddClient(added, c) /\ connected' = connected \cup {c}
    BY <1>5 DEF O!Connect, added
  <2>2. RightLua(lua') /\ lua' = [added EXCEPT !.clients = @ \cup {c}]
    BY <1>3, <2>1, LuaClients
  <2>3. /\ lua'.objects = added.objects /\ lua'.items = added.items /\ lua'.clients = added.clients \cup {c}
        /\ lua'.groups = added.groups /\ lua'.publications = added.publications
    BY <1>3, <2>2 DEF RightLua
  <2>4. KnowsMembers(lua', connected', memberships')
    BY <1>1, <1>3, <2>1, <2>3 DEF KnowsMembers
  <2>5. QED
    BY <1>1, <1>3, <2>2, <2>3, <2>4, MemberSound
<1>6. CASE ~accepts
  <2>1. lua' = O!RemoveObject(added, c) /\ connected' = connected
    BY <1>6 DEF O!Connect, added
  <2>2. /\ RightLua(lua') /\ lua'.objects = added.objects \ {c} /\ lua'.items = [added.items EXCEPT ![c] = {}]
        /\ lua'.clients = added.clients /\ lua'.groups = added.groups /\ lua'.publications = added.publications
    BY <1>2, <1>3, <2>1, LuaRemoves
  <2>3. lua'.objects = lua.objects
    BY <1>3, <1>4, <2>2
  <2>4. \A o \in Groups \cup Addresses : lua'.items[o] = lua.items[o]
    BY <1>2, <1>3, <2>2 DEF RightLua, LuaObjects
  <2>5. KnowsMembers(lua', connected', memberships')
    BY <1>1, <1>3, <2>1, <2>2, <2>3, <2>4 DEF KnowsMembers
  <2>6. QED
    BY <1>1, <1>3, <2>2, <2>3, <2>4, <2>5, MemberSound
<1>7. QED
  BY <1>5, <1>6

LEMMA DisconnectSound ==
    ASSUME O!ObjectsAssumption, ObjInv, NEW c \in Clients, O!Disconnect(c)
    PROVE  ObjInv'
<1> DEFINE removed == O!RemoveClient(lua, c)
<1>1. /\ RightLua(lua) /\ KnowsMembers(lua, connected, memberships)
      /\ pubs' = pubs /\ memberships' = memberships /\ connected' = connected \ {c}
      /\ \A g \in Groups : c \notin memberships[g]
      /\ lua' = O!RemoveObject(removed, c)
  BY DEF ObjInv, O!Disconnect
<1>2. c \in LuaObjects /\ c \notin Groups /\ c \notin Addresses
  BY DEF LuaObjects, O!ObjectsAssumption
<1>3. RightLua(removed) /\ removed = [lua EXCEPT !.clients = @ \ {c}]
  BY <1>1, LuaClients
<1>4. /\ removed.objects = lua.objects /\ removed.items = lua.items /\ removed.clients = lua.clients \ {c}
      /\ removed.groups = lua.groups /\ removed.publications = lua.publications
  BY <1>1, <1>3 DEF RightLua
<1> HIDE DEF removed
<1>5. /\ RightLua(lua') /\ lua'.objects = removed.objects \ {c} /\ lua'.items = [removed.items EXCEPT ![c] = {}]
      /\ lua'.clients = removed.clients /\ lua'.groups = removed.groups
      /\ lua'.publications = removed.publications
  BY <1>1, <1>2, <1>3, LuaRemoves
<1>6. \A o \in Groups \cup Addresses : lua'.items[o] = lua.items[o]
  BY <1>1, <1>2, <1>4, <1>5 DEF RightLua, LuaObjects
<1>7. KnowsMembers(lua', connected', memberships')
  <2>1. memberships' \in [Groups -> SUBSET connected'] /\ connected' \subseteq Clients
    BY <1>1 DEF KnowsMembers
  <2>2. lua'.objects \cap (Clients \cup Groups) = lua'.clients \cup lua'.groups
    BY <1>1, <1>2, <1>4, <1>5 DEF KnowsMembers
  <2>3. QED
    BY <2>1, <2>2, <1>1, <1>4, <1>5, <1>6 DEF KnowsMembers
<1>8. QED
  BY <1>1, <1>2, <1>4, <1>5, <1>6, <1>7, MemberSound

LEMMA JoinSound ==
    ASSUME O!ObjectsAssumption, ObjInv, NEW c \in Clients, NEW g \in Groups, O!JoinGroup(c, g)
    PROVE  ObjInv'
<1> DEFINE known == O!AddObject(lua, g)
           listed == O!AddGroup(known, g)
<1>1. /\ RightLua(lua) /\ KnowsMembers(lua, connected, memberships) /\ c \in connected
      /\ pubs' = pubs /\ memberships' = [memberships EXCEPT ![g] = @ \cup {c}] /\ connected' = connected
      /\ lua' = O!AddItem(listed, g, c)
  BY DEF ObjInv, O!JoinGroup
<1>2. g \in LuaObjects /\ g \notin Clients /\ g \notin Addresses
  BY DEF LuaObjects, O!ObjectsAssumption
<1>3. /\ RightLua(known) /\ known.objects = lua.objects \cup {g} /\ known.items = lua.items
      /\ known.clients = lua.clients /\ known.groups = lua.groups /\ known.publications = lua.publications
  BY <1>1, <1>2, LuaAdds
<1> HIDE DEF known
<1>4. RightLua(listed) /\ listed = [known EXCEPT !.groups = @ \cup {g}]
  BY <1>3, LuaGroups
<1>5. /\ listed.objects = known.objects /\ listed.items = known.items /\ listed.clients = known.clients
      /\ listed.groups = known.groups \cup {g} /\ listed.publications = known.publications
  BY <1>3, <1>4 DEF RightLua
<1> HIDE DEF listed
<1>6. /\ RightLua(lua') /\ lua'.objects = listed.objects
      /\ lua'.items = IF g \in listed.objects THEN [listed.items EXCEPT ![g] = @ \cup {c}] ELSE listed.items
      /\ lua'.clients = listed.clients /\ lua'.groups = listed.groups
      /\ lua'.publications = listed.publications
  <2>1. RightLua(listed) /\ lua' = O!AddItem(listed, g, c)
    BY <1>1, <1>4 DEF listed
  <2>2. QED
    BY <1>2, <2>1, LuaAddsItem
<1>7. \A o \in LuaObjects : lua'.items[o] = IF o = g THEN lua.items[o] \cup {c} ELSE lua.items[o]
  <2>1. DOMAIN lua.items = LuaObjects
    BY <1>1 DEF RightLua
  <2>2. lua'.items = [lua.items EXCEPT ![g] = @ \cup {c}]
    BY <1>3, <1>5, <1>6
  <2>3. QED
    BY <1>2, <2>1, <2>2
<1>8. KnowsMembers(lua', connected', memberships')
  <2>1. memberships' \in [Groups -> SUBSET connected'] /\ connected' \subseteq Clients
    BY <1>1 DEF KnowsMembers
  <2>2. \A h \in Groups : memberships'[h] = IF h = g THEN memberships[h] \cup {c} ELSE memberships[h]
    BY <1>1 DEF KnowsMembers
  <2>3. \A h \in Groups : lua'.items[h] = memberships'[h]
    BY <2>2, <1>1, <1>7 DEF KnowsMembers, LuaObjects
  <2>4. lua'.groups = {h \in Groups : memberships'[h] # {}}
    BY <2>2, <1>1, <1>3, <1>5, <1>6 DEF KnowsMembers
  <2>5. lua'.objects \cap (Clients \cup Groups) = lua'.clients \cup lua'.groups
    BY <1>1, <1>3, <1>5, <1>6 DEF KnowsMembers
  <2>6. QED
    BY <2>1, <2>3, <2>4, <2>5, <1>1, <1>3, <1>5, <1>6 DEF KnowsMembers
<1>9. \A a \in Addresses : lua'.items[a] = lua.items[a] /\ (a \in lua.objects => a \in lua'.objects)
  BY <1>2, <1>3, <1>5, <1>6, <1>7 DEF LuaObjects
<1>10. QED
  BY <1>1, <1>3, <1>5, <1>6, <1>8, <1>9, MemberSound

LEMMA UnjoinSound ==
    ASSUME O!ObjectsAssumption, ObjInv, NEW c \in Clients, NEW g \in Groups, O!UnjoinGroup(c, g)
    PROVE  ObjInv'
<1>1. /\ RightLua(lua) /\ KnowsMembers(lua, connected, memberships) /\ c \in memberships[g]
      /\ pubs' = pubs /\ memberships' = [memberships EXCEPT ![g] = @ \ {c}] /\ connected' = connected
      /\ lua' = IF memberships[g] = {c} THEN O!RemoveObject(O!RemoveGroup(lua, g), g) ELSE O!RemoveItem(lua, g, c)
  BY DEF ObjInv, O!UnjoinGroup
<1>2. g \in LuaObjects /\ g \notin Clients /\ g \notin Addresses
  BY DEF LuaObjects, O!ObjectsAssumption
<1>3. memberships' \in [Groups -> SUBSET connected'] /\ connected' \subseteq Clients
  BY <1>1 DEF KnowsMembers
<1>4. \A h \in Groups : memberships'[h] = IF h = g THEN memberships[h] \ {c} ELSE memberships[h]
  BY <1>1 DEF KnowsMembers
<1>5. DOMAIN lua.items = LuaObjects
  BY <1>1 DEF RightLua
<1>6. CASE memberships[g] = {c}
  <2> DEFINE removed == O!RemoveGroup(lua, g)
  <2>1. RightLua(removed) /\ removed = [lua EXCEPT !.groups = @ \ {g}] /\ lua' = O!RemoveObject(removed, g)
    BY <1>1, <1>6, LuaGroups
  <2>2. /\ removed.objects = lua.objects /\ removed.items = lua.items /\ removed.clients = lua.clients
        /\ removed.groups = lua.groups \ {g} /\ removed.publications = lua.publications
    BY <1>1, <2>1 DEF RightLua
  <2> HIDE DEF removed
  <2>3. /\ RightLua(lua') /\ lua'.objects = removed.objects \ {g} /\ lua'.items = [removed.items EXCEPT ![g] = {}]
        /\ lua'.clients = removed.clients /\ lua'.groups = removed.groups
        /\ lua'.publications = removed.publications
    BY <1>2, <2>1, LuaRemoves
  <2>4. \A o \in LuaObjects : lua'.items[o] = IF o = g THEN {} ELSE lua.items[o]
    BY <1>5, <2>2, <2>3
  <2>5. \A h \in Groups : lua'.items[h] = memberships'[h]
    BY <1>1, <1>4, <1>6, <2>4 DEF KnowsMembers, LuaObjects
  <2>6. lua'.groups = {h \in Groups : memberships'[h] # {}}
    BY <1>1, <1>4, <1>6, <2>2, <2>3 DEF KnowsMembers
  <2>7. lua'.objects \cap (Clients \cup Groups) = lua'.clients \cup lua'.groups
    BY <1>1, <1>2, <2>2, <2>3 DEF KnowsMembers
  <2>8. KnowsMembers(lua', connected', memberships')
    BY <1>1, <1>3, <2>2, <2>3, <2>5, <2>6, <2>7 DEF KnowsMembers
  <2>9. \A a \in Addresses : lua'.items[a] = lua.items[a] /\ (a \in lua.objects => a \in lua'.objects)
    BY <1>2, <2>2, <2>3, <2>4 DEF LuaObjects
  <2>10. QED
    BY <1>1, <2>2, <2>3, <2>8, <2>9, MemberSound
<1>7. CASE memberships[g] # {c}
  <2>1. /\ RightLua(lua') /\ lua'.objects = lua.objects /\ lua'.items = [lua.items EXCEPT ![g] = @ \ {c}]
        /\ lua'.clients = lua.clients /\ lua'.groups = lua.groups /\ lua'.publications = lua.publications
    BY <1>1, <1>2, <1>7, LuaRemovesItem
  <2>2. \A o \in LuaObjects : lua'.items[o] = IF o = g THEN lua.items[o] \ {c} ELSE lua.items[o]
    BY <1>5, <2>1
  <2>3. \A h \in Groups : lua'.items[h] = memberships'[h]
    BY <1>1, <1>4, <2>2 DEF KnowsMembers, LuaObjects
  <2>4. \A h \in Groups : memberships'[h] # {} <=> memberships[h] # {}
    BY <1>1, <1>4, <1>7
  <2>5. lua'.groups = {h \in Groups : memberships'[h] # {}}
    BY <1>1, <2>1, <2>4 DEF KnowsMembers
  <2>6. KnowsMembers(lua', connected', memberships')
    BY <1>1, <1>3, <2>1, <2>3, <2>5 DEF KnowsMembers
  <2>7. \A a \in Addresses : lua'.items[a] = lua.items[a]
    BY <1>2, <2>2 DEF LuaObjects
  <2>8. QED
    BY <1>1, <2>1, <2>6, <2>7, MemberSound
<1>8. QED
  BY <1>6, <1>7

\* A script that asks for a publication.
LEMMA AskSound ==
    ASSUME O!ObjectsAssumption, ObjInv, NEW n \in Names, O!Ask(n)
    PROVE  ObjInv'
<1>1. /\ n \in DOMAIN pubs /\ lua' = O!AddObject(lua, pubs[n].at) /\ pubs' = pubs
      /\ UNCHANGED <<connected, memberships>>
  BY DEF O!Ask, O!Named
<1>2. RightLua(lua) /\ OwnAddresses(pubs) /\ KnowsPublications(lua, pubs)
  BY DEF ObjInv
<1>3. pubs[n].at \in LuaObjects /\ pubs[n].at \notin Clients \cup Groups
  BY <1>1, <1>2 DEF OwnAddresses, LuaObjects, O!ObjectsAssumption
<1>4. /\ RightLua(lua') /\ lua'.objects = lua.objects \cup {pubs[n].at} /\ lua'.items = lua.items
      /\ lua'.clients = lua.clients /\ lua'.groups = lua.groups /\ lua'.publications = lua.publications
  BY <1>1, <1>2, <1>3, LuaAdds
<1>5. KnowsPublications(lua', pubs')
  BY <1>1, <1>2, <1>4, PublicationsApart
<1>6. QED
  BY <1>1, <1>2, <1>3, <1>4, <1>5, EventSound

LEMMA ObjectsStep == ASSUME O!ObjectsAssumption, ObjInv, [O!Next]_(O!vars) PROVE ObjInv'
<1>1. CASE UNCHANGED O!vars
  <2>1. connected' = connected /\ pubs' = pubs /\ memberships' = memberships /\ lua' = lua
    BY <1>1 DEF O!vars
  <2>2. QED
    BY <2>1 DEF ObjInv
<1>2. ASSUME NEW c \in Clients, O!Disconnect(c) PROVE ObjInv'
  BY <1>2, DisconnectSound
<1>3. ASSUME NEW c \in Clients, NEW n \in Names, O!Unpublish(c, n) \/ O!Unsubscribe(c, n) PROVE ObjInv'
  BY <1>3, UnpublishSound, UnsubscribeSound
<1>4. ASSUME NEW c \in Clients, NEW g \in Groups, O!JoinGroup(c, g) \/ O!UnjoinGroup(c, g) PROVE ObjInv'
  BY <1>4, JoinSound, UnjoinSound
<1>5. ASSUME NEW c \in Clients, NEW accepts \in BOOLEAN, O!Connect(c, accepts) PROVE ObjInv'
  BY <1>5, ConnectSound
<1>6. ASSUME NEW c \in Clients, NEW accepts \in BOOLEAN, NEW n \in Names,
             O!Publish(c, n, accepts) \/ O!Subscribe(c, n, accepts)
      PROVE  ObjInv'
  BY <1>6, PublishSound, SubscribeSound
<1>7. ASSUME NEW n \in Names, O!Ask(n) PROVE ObjInv'
  BY <1>7, AskSound
<1>8. QED
  BY <1>1, <1>2, <1>3, <1>4, <1>5, <1>6, <1>7 DEF O!Next

LEMMA ObjectsInductive == ASSUME O!ObjectsAssumption PROVE O!Spec => []ObjInv
<1>1. ObjInv /\ [O!Next]_(O!vars) => ObjInv'
  BY ObjectsStep
<1>2. QED
  BY <1>1, ObjectsInit, PTL DEF O!Spec

\* What Lua holds is well formed, and members of groups are connected.
THEOREM ObjectsTypeCorrect == ASSUME O!ObjectsAssumption PROVE O!Spec => []O!TypeOK
BY ObjectsInductive, KnownSound, PTL

\* Whatever scripts accept, refuse or ask, in whatever order clients come, publish,
\* listen, join and leave, the collections that scripts see are those of the server, and
\* what a script finds in one has not been deleted (ObjectsSound).
THEOREM ObjectsCorrect == ASSUME O!ObjectsAssumption PROVE O!Spec => []O!ObjectsSound
BY ObjectsInductive, KnownSound, PTL

-----------------------------------------------------------------------------
(* The services: folders of www that are asked for, watched and loaded.     *)

CONSTANTS Paths, Versions, Failing, MaxIds, MaxChanges
VARIABLES folders, scripts, changes, up, held
S == INSTANCE Services WITH w <- held

ServiceRecord == [id : Nat, seen : Nat, exists : BOOLEAN, recent : BOOLEAN, loaded : BOOLEAN, error : BOOLEAN]
ServiceRef == [path : Paths, id : Nat]
EnvRecord == [by : ServiceRef, content : Nat]
World == [services : [Paths -> ServiceRecord \cup {S!None}], envs : [Paths -> EnvRecord \cup {S!None}],
          running : SUBSET ServiceRef, clients : [Clients -> ServiceRef \cup {S!None}],
          linked : BOOLEAN, told : SUBSET Paths, next : Nat, skipped : BOOLEAN, strayed : BOOLEAN]

Has(x, p) == x.envs[p] # S!None
Runs(x, p) == S!Exists(x, p) /\ x.services[p].loaded

\* What was loaded is what was seen of the file, and is what the environment has.
LoadedAsSeen(x, p) ==
    /\ x.services[p].loaded => /\ x.services[p].seen > 0 /\ Has(x, p)
                               /\ x.envs[p].content = x.services[p].seen
    /\ ~x.services[p].loaded /\ Has(x, p) => x.envs[p].content = 0
    /\ x.services[p].seen > 0 => (x.services[p].loaded <=> ~x.services[p].error)

\* An environment is made by the service of its path or by one below, and by its own
\* unless one was asked for before those above it.
Owned(x, p) ==
    /\ S!Exists(x, p) /\ p \in S!Upper(x.envs[p].by.path)
    /\ x.envs[p].by.path = p => x.envs[p].by = S!Ref(x, p)
    /\ ~x.skipped => x.envs[p].by.path = p

\* A world whose environments are those of services that exist, as do those above these.
Sound(x) ==
    /\ x \in World
    /\ x.strayed => x.skipped
    /\ \A p \in Paths : Has(x, p) => Owned(x, p)
    /\ \A p \in Paths : S!Exists(x, p) => \A q \in S!Upper(p) : S!Exists(x, q)
    /\ \A r \in ServiceRef : r \in x.running <=> Runs(x, r.path) /\ x.services[r.path].id = r.id
    /\ x.linked => \A p \in Paths : Runs(x, p) => p \in x.told
    /\ \A c \in Clients : x.clients[c] # S!None => x.clients[c].id = 0 \/ S!IsAlive(x, x.clients[c])
    /\ \A p \in Paths : S!Exists(x, p) => LoadedAsSeen(x, p)

SvcTyping ==
    /\ S!Root \in folders /\ folders \subseteq Paths /\ scripts \in [Paths -> {0} \cup Versions] /\ up \in BOOLEAN

SvcInv ==
    /\ SvcTyping /\ Sound(held)
    /\ IF up THEN S!Exists(held, S!Root) ELSE \A p \in Paths : ~S!Exists(held, p)

-----------------------------------------------------------------------------
(* Paths *)

LEMMA PathsHaveUpper ==
    ASSUME S!ServiceAssumption
    PROVE  /\ S!Root \in Paths /\ S!Upper(S!Root) = {S!Root}
           /\ \A p \in Paths : p \in S!Upper(p) /\ S!Upper(p) \subseteq Paths /\ S!Root \in S!Upper(p)
<1> USE DEF S!ServiceAssumption, S!Root, S!Upper
<1>1. \A p \in Paths : p \in Seq(S!Range(p))
  OBVIOUS
<1>2. S!Upper(S!Root) = {S!Root} /\ S!Root \in Paths
  OBVIOUS
<1>3. ASSUME NEW p \in Paths PROVE p \in S!Upper(p) /\ S!Upper(p) \subseteq Paths /\ S!Root \in S!Upper(p)
  <2>1. p \in Seq(S!Range(p)) /\ Len(p) \in Nat
    BY <1>1
  <2>2. SubSeq(p, 1, Len(p)) = p /\ SubSeq(p, 1, 0) = <<>>
    BY <2>1
  <2>3. p \in S!Upper(p) /\ S!Root \in S!Upper(p)
    <3>1. SubSeq(p, 1, Len(p)) \in S!Upper(p) /\ SubSeq(p, 1, 0) \in S!Upper(p)
      <4>1. Len(p) \in 0 .. Len(p) /\ 0 \in 0 .. Len(p)
        BY <2>1
      <4>2. QED
        BY <4>1
    <3>2. QED
      BY <2>2, <3>1
  <2>4. S!Upper(p) \subseteq Paths
    OBVIOUS
  <2>5. QED
    BY <2>3, <2>4
<1>4. QED
  BY <1>2, <1>3

LEMMA UpperOfUpper ==
    ASSUME S!ServiceAssumption, NEW p \in Paths, NEW q \in S!Upper(p), NEW r \in S!Upper(q)
    PROVE  r \in S!Upper(p)
<1>1. p \in Seq(S!Range(p)) /\ Len(p) \in Nat
  BY DEF S!ServiceAssumption
<1>2. PICK n \in 0 .. Len(p) : q = SubSeq(p, 1, n)
  BY DEF S!Upper
<1>3. q \in Seq(S!Range(p)) /\ Len(q) = n
  BY <1>1, <1>2
<1>4. PICK k \in 0 .. Len(q) : r = SubSeq(q, 1, k)
  BY DEF S!Upper
<1>5. r = SubSeq(p, 1, k) /\ k \in 0 .. Len(p)
  BY <1>1, <1>2, <1>3, <1>4
<1>6. QED
  BY <1>5 DEF S!Upper

LEMMA UpperShorter ==
    ASSUME S!ServiceAssumption, NEW p \in Paths, NEW q \in S!Upper(p)
    PROVE  Len(q) \in 0 .. Len(p)
<1>1. p \in Seq(S!Range(p)) /\ Len(p) \in Nat
  BY DEF S!ServiceAssumption
<1>2. PICK n \in 0 .. Len(p) : q = SubSeq(p, 1, n)
  BY DEF S!Upper
<1>3. Len(q) = n
  BY <1>1, <1>2
<1>4. QED
  BY <1>3

LEMMA UpperFinite == ASSUME S!ServiceAssumption, NEW p \in Paths PROVE IsFiniteSet(S!Upper(p))
<1> DEFINE f == [n \in 0 .. Len(p) |-> SubSeq(p, 1, n)]
<1>1. Len(p) \in Nat
  BY DEF S!ServiceAssumption
<1>2. f \in Surjection(0 .. Len(p), S!Upper(p))
  BY DEF S!Upper, Surjection
<1>3. IsFiniteSet(0 .. Len(p))
  BY <1>1, FS_Interval
<1>4. QED
  BY <1>2, <1>3, FS_Surjection

LEMMA ParentIsAbove ==
    ASSUME S!ServiceAssumption, NEW p \in Paths, p # S!Root
    PROVE  /\ S!Parent(p) \in Paths /\ S!Upper(p) = S!Upper(S!Parent(p)) \cup {p}
           /\ Append(S!Parent(p), p[Len(p)]) = p
<1>1. p \in Seq(S!Range(p)) /\ Len(p) \in Nat /\ Len(p) >= 1
  BY DEF S!ServiceAssumption, S!Root
<1>2. /\ S!Parent(p) = SubSeq(p, 1, Len(p) - 1) /\ S!Parent(p) \in Seq(S!Range(p)) /\ Len(S!Parent(p)) = Len(p) - 1
      /\ SubSeq(p, 1, Len(p)) = p
  <2>1. S!Parent(p) = SubSeq(p, 1, Len(p) - 1)
    BY DEF S!Parent
  <2>2. SubSeq(p, 1, Len(p)) = p
    BY <1>1
  <2>3. S!Parent(p) \in Seq(S!Range(p)) /\ Len(S!Parent(p)) = Len(p) - 1
    <3> DEFINE n == Len(p) - 1
    <3>1. n \in Nat /\ \A i \in 1 .. n : p[i] \in S!Range(p)
      BY <1>1 DEF S!Range
    <3> HIDE DEF n
    <3>2. SubSeq(p, 1, n) \in Seq(S!Range(p)) /\ Len(SubSeq(p, 1, n)) = IF 1 <= n THEN n - 1 + 1 ELSE 0
      BY <3>1, SubSeqProperties
    <3>3. Len(SubSeq(p, 1, n)) = n
      BY <3>1, <3>2
    <3>4. QED
      BY <2>1, <3>2, <3>3 DEF n
  <2>4. QED
    BY <2>1, <2>2, <2>3
<1>3. S!Parent(p) \in Paths
  BY <1>1, <1>2 DEF S!ServiceAssumption
<1>4. \A n \in 0 .. Len(p) - 1 : SubSeq(S!Parent(p), 1, n) = SubSeq(p, 1, n)
  BY <1>1, <1>2
<1>5. S!Upper(p) = S!Upper(S!Parent(p)) \cup {p}
  BY <1>1, <1>2, <1>4 DEF S!Upper
<1>6. Append(S!Parent(p), p[Len(p)]) = p
  BY <1>1, <1>2
<1>7. QED
  BY <1>3, <1>5, <1>6

LEMMA SameCardinality == \A T : S!Cardinality(T) = Cardinality(T)
BY Zenon DEF S!Cardinality, S!IsFiniteSet, Cardinality, IsFiniteSet

LEMMA NoneIsNothing ==
    /\ S!None \notin ServiceRecord /\ S!None \notin ServiceRef /\ S!None \notin EnvRecord
BY DEF S!None, ServiceRecord, ServiceRef, EnvRecord

-----------------------------------------------------------------------------
\* What a sound world promises.
LEMMA WorldSound == ASSUME S!ServiceAssumption, SvcInv PROVE S!TypeOK /\ S!ServicesSound
<1> USE DEF SvcInv, Sound
<1>1. S!TypeOK
  BY DEF S!TypeOK, SvcTyping, World
<1>2. held.running = {S!Ref(held, p) : p \in {q \in Paths : S!Exists(held, q) /\ held.services[q].loaded}}
  <2>1. held.running \subseteq ServiceRef
    BY DEF World
  <2>2. ASSUME NEW p \in Paths, Runs(held, p) PROVE S!Ref(held, p) \in held.running
    <3>1. S!Ref(held, p) \in ServiceRef
      BY <2>2 DEF World, ServiceRecord, ServiceRef, Runs, S!Exists, S!Ref
    <3>2. QED
      BY <2>2, <3>1 DEF S!Ref
  <2>3. ASSUME NEW r \in held.running PROVE r.path \in Paths /\ Runs(held, r.path) /\ r = S!Ref(held, r.path)
    BY <2>1 DEF ServiceRef, S!Ref
  <2>4. QED
    BY <2>2, <2>3 DEF Runs
<1>3. held.linked => {r.path : r \in held.running} \subseteq held.told
  BY DEF World, ServiceRef
<1>4. \A c \in Clients : held.clients[c] # S!None => S!Expired(c) \/ S!IsAlive(held, held.clients[c])
  BY DEF S!Expired
<1>5. ASSUME NEW p \in Paths, S!Exists(held, p)
      PROVE  /\ p # S!Root => S!Exists(held, S!Parent(p))
             /\ held.services[p].loaded => held.envs[p] # S!None /\ held.envs[p].content = held.services[p].seen
             /\ ~held.services[p].loaded /\ held.envs[p] # S!None => held.envs[p].content = 0
             /\ held.services[p].seen > 0 => (held.services[p].loaded <=> ~held.services[p].error)
  <2>1. ASSUME p # S!Root PROVE S!Exists(held, S!Parent(p))
    <3>1. S!Parent(p) \in S!Upper(p)
      BY <2>1, ParentIsAbove, PathsHaveUpper
    <3>2. QED
      BY <1>5, <3>1
  <2>2. QED
    BY <1>5, <2>1 DEF LoadedAsSeen, Has
<1>6. S!EnvironmentsOwned
  <2>1. ASSUME NEW p \in Paths, Has(held, p)
        PROVE  LET by == held.envs[p].by IN
               /\ S!Exists(held, p) /\ p \in S!Upper(by.path)
               /\ by.path = p => S!IsAlive(held, by)
               /\ ~held.skipped => by.path = p
    <3>1. Owned(held, p)
      BY <2>1
    <3>2. S!Ref(held, p).path = p /\ S!Ref(held, p).id = held.services[p].id
      BY DEF S!Ref
    <3>3. QED
      BY <3>1, <3>2 DEF S!IsAlive, Owned
  <2>2. QED
    BY <2>1 DEF S!EnvironmentsOwned, Has
<1>7. QED
  BY <1>1, <1>2, <1>3, <1>4, <1>5, <1>6 DEF S!ServicesSound, S!RunningLoaded

LEMMA ServicesInit == ASSUME S!ServiceAssumption, S!Init PROVE SvcInv
<1>1. SvcTyping
  BY PathsHaveUpper DEF S!Init, SvcTyping
<1>2. held \in World
  BY DEF S!Init, World
<1>3. \A p \in Paths : ~S!Exists(held, p) /\ ~Has(held, p)
  BY DEF S!Init, S!Exists, Has
<1>4. ~up /\ held.running = {} /\ ~held.linked /\ ~held.strayed /\ \A c \in Clients : held.clients[c] = S!None
  BY DEF S!Init
<1>5. \A r \in ServiceRef : r.path \in Paths
  BY DEF ServiceRef
<1>6. QED
  BY <1>1, <1>2, <1>3, <1>4, <1>5 DEF SvcInv, Sound, Runs

-----------------------------------------------------------------------------
(* What is opened, unloaded and loaded *)

LEMMA OpenIs ==
    ASSUME S!ServiceAssumption, NEW x \in World, NEW path \in Paths, S!Exists(x, path)
    PROVE  LET y == S!Open(x, path) IN
           /\ y \in World
           /\ \A p \in Paths : y.envs[p] = IF p \in S!Upper(path) /\ ~Has(x, p)
                                           THEN [by |-> S!Ref(x, path), content |-> 0] ELSE x.envs[p]
           /\ y.skipped = (x.skipped \/ \E p \in S!Upper(path) \ {path} : ~Has(x, p))
           /\ y.services = x.services /\ y.running = x.running /\ y.clients = x.clients
           /\ y.linked = x.linked /\ y.told = x.told /\ y.next = x.next /\ y.strayed = x.strayed
<1> DEFINE y == S!Open(x, path)
           new == [by |-> S!Ref(x, path), content |-> 0]
           envs == [p \in Paths |-> IF p \in S!Upper(path) /\ x.envs[p] = S!None THEN new ELSE x.envs[p]]
           skipped == x.skipped \/ \E p \in S!Upper(path) \ {path} : x.envs[p] = S!None
<1>1. S!Ref(x, path) \in ServiceRef
  BY DEF World, ServiceRecord, ServiceRef, S!Exists, S!Ref
<1>2. new \in EnvRecord
  BY <1>1 DEF EnvRecord
<1> HIDE DEF new
<1>3. x.envs \in [Paths -> EnvRecord \cup {S!None}]
  BY DEF World
<1>4. envs \in [Paths -> EnvRecord \cup {S!None}] /\ skipped \in BOOLEAN
  <2>1. \A p \in Paths : envs[p] \in EnvRecord \cup {S!None}
    BY <1>2, <1>3
  <2>2. x.skipped \in BOOLEAN
    BY DEF World
  <2> DEFINE missing == \E p \in S!Upper(path) \ {path} : x.envs[p] = S!None
  <2>3. missing \in BOOLEAN
    BY Zenon
  <2>4. QED
    BY <2>1, <2>2, <2>3
<1>5. y = [x EXCEPT !.envs = envs, !.skipped = skipped]
  BY DEF S!Open, new
<1>6. /\ \A p \in Paths : envs[p] = IF p \in S!Upper(path) /\ ~Has(x, p) THEN new ELSE x.envs[p]
      /\ skipped = (x.skipped \/ \E p \in S!Upper(path) \ {path} : ~Has(x, p))
  <2>1. \A p : x.envs[p] = S!None <=> ~Has(x, p)
    BY DEF Has
  <2>2. \A p \in Paths : envs[p] = IF p \in S!Upper(path) /\ x.envs[p] = S!None THEN new ELSE x.envs[p]
    OBVIOUS
  <2>3. (\E p \in S!Upper(path) \ {path} : x.envs[p] = S!None) <=> \E p \in S!Upper(path) \ {path} : ~Has(x, p)
    BY <2>1
  <2>4. skipped = (x.skipped \/ \E p \in S!Upper(path) \ {path} : ~Has(x, p))
    BY <2>3
  <2> HIDE DEF envs
  <2>5. QED
    BY <2>1, <2>2, <2>4
<1> HIDE DEF envs, y, skipped
<1>7. /\ y \in World /\ y.envs = envs /\ y.skipped = skipped
      /\ y.services = x.services /\ y.running = x.running /\ y.clients = x.clients
      /\ y.linked = x.linked /\ y.told = x.told /\ y.next = x.next /\ y.strayed = x.strayed
  BY <1>4, <1>5 DEF World
<1>8. QED
  BY <1>6, <1>7 DEF y, new

\* What is opened has environments that are owned, and what is loaded stays so.
LEMMA OpenOwned ==
    ASSUME S!ServiceAssumption, NEW x \in World, NEW path \in Paths, S!Exists(x, path),
           \A p \in Paths : Has(x, p) => Owned(x, p),
           \A q \in S!Upper(path) : S!Exists(x, q)
    PROVE  LET y == S!Open(x, path) IN
           /\ Has(y, path)
           /\ \A p \in Paths : /\ S!Exists(y, p) <=> S!Exists(x, p)
                               /\ S!Ref(y, p) = S!Ref(x, p) /\ (Runs(y, p) <=> Runs(x, p))
                               /\ Has(y, p) => Owned(y, p)
                               /\ LoadedAsSeen(x, p) => LoadedAsSeen(y, p)
           /\ x.skipped => y.skipped
<1> DEFINE y == S!Open(x, path)
           new == [by |-> S!Ref(x, path), content |-> 0]
<1>1. /\ y \in World
      /\ \A p \in Paths : y.envs[p] = IF p \in S!Upper(path) /\ ~Has(x, p) THEN new ELSE x.envs[p]
      /\ y.skipped = (x.skipped \/ \E p \in S!Upper(path) \ {path} : ~Has(x, p))
      /\ y.services = x.services
  BY OpenIs
<1>2. new # S!None /\ new.by = S!Ref(x, path) /\ new.by.path = path /\ new.content = 0
  BY DEF S!None, S!Ref
<1> HIDE DEF y, new
<1>3. path \in S!Upper(path)
  BY PathsHaveUpper
<1>4. \A p \in Paths : Has(x, p) => Has(y, p) /\ y.envs[p] = x.envs[p]
  BY <1>1 DEF Has
<1>5. Has(y, path)
  BY <1>1, <1>2, <1>3 DEF Has
<1>6. \A p \in Paths : /\ S!Exists(y, p) <=> S!Exists(x, p)
                       /\ S!Ref(y, p) = S!Ref(x, p) /\ (Runs(y, p) <=> Runs(x, p))
  BY <1>1 DEF S!Exists, S!Ref, Runs
<1>7. x.skipped => y.skipped
  BY <1>1
<1>8. ASSUME NEW p \in Paths, Has(y, p) PROVE Owned(y, p)
  <2>1. CASE Has(x, p)
    <3>1. Owned(x, p) /\ y.envs[p] = x.envs[p]
      BY <2>1, <1>4
    <3>2. QED
      BY <3>1, <1>6, <1>7 DEF Owned
  <2>2. CASE ~Has(x, p)
    <3>1. p \in S!Upper(path) /\ y.envs[p] = new
      BY <2>2, <1>1, <1>8 DEF Has
    <3>2. p # path => y.skipped
      BY <2>2, <3>1, <1>1
    <3>3. S!Exists(y, p)
      BY <3>1, <1>6
    <3>4. QED
      BY <3>1, <3>2, <3>3, <1>2, <1>6 DEF Owned
  <2>3. QED
    BY <2>1, <2>2
<1>9. ASSUME NEW p \in Paths, LoadedAsSeen(x, p) PROVE LoadedAsSeen(y, p)
  <2>1. y.services[p] = x.services[p]
    BY <1>1
  <2>2. CASE Has(x, p)
    BY <2>1, <2>2, <1>4, <1>9 DEF LoadedAsSeen
  <2>3. CASE ~Has(x, p)
    <3>1. Has(y, p) => y.envs[p].content = 0
      BY <2>3, <1>1, <1>2 DEF Has
    <3>2. QED
      BY <2>1, <2>3, <3>1, <1>9 DEF LoadedAsSeen
  <2>4. QED
    BY <2>2, <2>3
<1>10. QED
  BY <1>5, <1>6, <1>7, <1>8, <1>9 DEF y

LEMMA OpenSound ==
    ASSUME S!ServiceAssumption, NEW x, NEW path \in Paths, Sound(x), S!Exists(x, path)
    PROVE  LET y == S!Open(x, path) IN
           /\ Sound(y) /\ y.services = x.services /\ y.clients = x.clients /\ y.next = x.next
<1> DEFINE y == S!Open(x, path)
<1>1. x \in World /\ \A q \in S!Upper(path) : S!Exists(x, q)
  BY DEF Sound
<1>2. /\ y \in World
      /\ y.services = x.services /\ y.running = x.running /\ y.clients = x.clients
      /\ y.linked = x.linked /\ y.told = x.told /\ y.next = x.next /\ y.strayed = x.strayed
  BY <1>1, OpenIs
<1>3. /\ \A p \in Paths : /\ S!Exists(y, p) <=> S!Exists(x, p)
                          /\ S!Ref(y, p) = S!Ref(x, p) /\ (Runs(y, p) <=> Runs(x, p))
                          /\ Has(y, p) => Owned(y, p)
                          /\ LoadedAsSeen(x, p) => LoadedAsSeen(y, p)
      /\ x.skipped => y.skipped
  BY <1>1, OpenOwned DEF Sound
<1> HIDE DEF y
<1>4. \A p \in Paths : S!Exists(y, p) => \A q \in S!Upper(p) : S!Exists(y, q)
  BY <1>3, PathsHaveUpper DEF Sound
<1>5. \A r \in ServiceRef : r \in y.running <=> Runs(y, r.path) /\ y.services[r.path].id = r.id
  BY <1>2, <1>3 DEF Sound, ServiceRef
<1>6. /\ y.linked => \A p \in Paths : Runs(y, p) => p \in y.told
      /\ \A c \in Clients : y.clients[c] # S!None => y.clients[c].id = 0 \/ S!IsAlive(y, y.clients[c])
  BY <1>2, <1>3 DEF Sound, S!IsAlive, S!Exists
<1>7. \A p \in Paths : S!Exists(y, p) => LoadedAsSeen(y, p)
  BY <1>3 DEF Sound
<1>8. Sound(y)
  BY <1>2, <1>3, <1>4, <1>5, <1>6, <1>7 DEF Sound
<1>9. QED
  BY <1>2, <1>8 DEF y

LEMMA CloseIs ==
    ASSUME S!ServiceAssumption, NEW x \in World, NEW path \in Paths, S!Exists(x, path)
    PROVE  LET y == S!Close(x, path) IN
           /\ y \in World /\ y.running = x.running \ (IF Has(x, path) THEN {S!Ref(x, path)} ELSE {})
           /\ y.services = [x.services EXCEPT ![path] = [@ EXCEPT !.loaded = FALSE, !.error = FALSE]]
           /\ y.envs = [x.envs EXCEPT ![path] = IF @ = S!None THEN @ ELSE [@ EXCEPT !.content = 0]]
           /\ y.clients = x.clients /\ y.linked = x.linked /\ y.told = x.told /\ y.next = x.next
           /\ y.skipped = x.skipped /\ y.strayed = x.strayed
<1> DEFINE y == S!Close(x, path)
           running == x.running \ (IF Has(x, path) THEN {S!Ref(x, path)} ELSE {})
           envs == [x.envs EXCEPT ![path] = IF @ = S!None THEN @ ELSE [@ EXCEPT !.content = 0]]
           services == [x.services EXCEPT ![path] = [@ EXCEPT !.loaded = FALSE, !.error = FALSE]]
<1>1. S!Withdrawn(x, {path}) = running
  BY DEF S!Withdrawn, Has
<1>2. y = [x EXCEPT !.running = running, !.envs = envs, !.services = services]
  BY <1>1 DEF S!Close
<1>3. x.services[path] \in ServiceRecord /\ x.services \in [Paths -> ServiceRecord \cup {S!None}]
  BY DEF World, S!Exists
<1>4. [x.services[path] EXCEPT !.loaded = FALSE, !.error = FALSE] \in ServiceRecord
  BY <1>3 DEF ServiceRecord
<1>5. services \in [Paths -> ServiceRecord \cup {S!None}]
  BY <1>3, <1>4
<1>6. x.envs \in [Paths -> EnvRecord \cup {S!None}]
  BY DEF World
<1>7. envs \in [Paths -> EnvRecord \cup {S!None}]
  BY <1>6 DEF EnvRecord
<1>8. running \subseteq ServiceRef
  BY DEF World
<1> HIDE DEF y, running, envs, services
<1>9. /\ y \in World /\ y.running = running /\ y.envs = envs /\ y.services = services
      /\ y.clients = x.clients /\ y.linked = x.linked /\ y.told = x.told /\ y.next = x.next
           /\ y.skipped = x.skipped /\ y.strayed = x.strayed
  BY <1>2, <1>5, <1>7, <1>8 DEF World
<1>10. QED
  BY <1>9 DEF y, running, envs, services

LEMMA LoadIs ==
    ASSUME S!ServiceAssumption, NEW x \in World, NEW path \in Paths, S!Exists(x, path),
           Has(S!Open(x, path), path), scripts[path] \in Nat
    PROVE  LET o == S!Open(x, path)
               y == S!Load(x, path)
               ok == scripts[path] \notin Failing
           IN
           /\ y \in World
           /\ y.services = [x.services EXCEPT ![path] =
                               IF ok THEN [@ EXCEPT !.error = FALSE, !.loaded = TRUE] ELSE [@ EXCEPT !.error = TRUE]]
           /\ y.envs = [o.envs EXCEPT ![path] = [@ EXCEPT !.content = IF ok THEN scripts[path] ELSE 0]]
           /\ y.running = IF ok THEN x.running \cup {S!Ref(x, path)} ELSE x.running
           /\ y.told = IF ok /\ x.linked THEN x.told \cup {path} ELSE x.told
           /\ y.clients = x.clients /\ y.linked = x.linked /\ y.next = x.next
           /\ y.skipped = o.skipped /\ y.strayed = x.strayed
<1> DEFINE o == S!Open(x, path)
           y == S!Load(x, path)
           version == scripts[path]
<1>1. /\ o \in World
      /\ o.services = x.services /\ o.running = x.running /\ o.clients = x.clients
      /\ o.linked = x.linked /\ o.told = x.told /\ o.next = x.next /\ o.strayed = x.strayed
  BY OpenIs
<1>2. /\ version \in Failing =>
            y = [o EXCEPT !.services[path] = [@ EXCEPT !.error = TRUE], !.envs[path] = [@ EXCEPT !.content = 0]]
      /\ version \notin Failing =>
            y = [o EXCEPT !.services[path] = [@ EXCEPT !.error = FALSE, !.loaded = TRUE],
                          !.envs[path] = [@ EXCEPT !.content = version],
                          !.running = @ \cup {S!Ref(x, path)},
                          !.told = IF x.linked THEN @ \cup {path} ELSE @]
  BY DEF S!Load
<1>12. Has(o, path)
  OBVIOUS
<1> HIDE DEF y, o
<1>3. S!Ref(x, path) \in ServiceRef
  BY DEF World, ServiceRecord, ServiceRef, S!Exists, S!Ref
<1>4. /\ x.services \in [Paths -> ServiceRecord \cup {S!None}] /\ x.services[path] \in ServiceRecord
      /\ o.envs \in [Paths -> EnvRecord \cup {S!None}] /\ o.envs[path] \in EnvRecord
      /\ x.running \subseteq ServiceRef /\ x.told \subseteq Paths
  BY <1>1, <1>12 DEF World, S!Exists, Has
<1>5. \A v \in Nat : [o.envs[path] EXCEPT !.content = v] \in EnvRecord
  BY <1>4 DEF EnvRecord
<1>6. \A v \in Nat : [o.envs EXCEPT ![path] = [@ EXCEPT !.content = v]] \in [Paths -> EnvRecord \cup {S!None}]
  BY <1>4, <1>5
<1>7. \A s \in ServiceRecord : [x.services EXCEPT ![path] = s] \in [Paths -> ServiceRecord \cup {S!None}]
  BY <1>4
<1>8. /\ [x.services[path] EXCEPT !.error = FALSE, !.loaded = TRUE] \in ServiceRecord
      /\ [x.services[path] EXCEPT !.error = TRUE] \in ServiceRecord
  BY <1>4 DEF ServiceRecord
<1>9. CASE version \in Failing
  <2> DEFINE services == [x.services EXCEPT ![path] = [@ EXCEPT !.error = TRUE]]
             envs == [o.envs EXCEPT ![path] = [@ EXCEPT !.content = 0]]
  <2>1. y = [o EXCEPT !.services = services, !.envs = envs]
    BY <1>1, <1>2, <1>9 DEF World
  <2>2. services \in [Paths -> ServiceRecord \cup {S!None}] /\ envs \in [Paths -> EnvRecord \cup {S!None}]
    BY <1>6, <1>7, <1>8
  <2> HIDE DEF services, envs
  <2>3. /\ y \in World /\ y.services = services /\ y.envs = envs /\ y.running = x.running /\ y.told = x.told
        /\ y.clients = x.clients /\ y.linked = x.linked /\ y.next = x.next
        /\ y.skipped = o.skipped /\ y.strayed = x.strayed
    BY <2>1, <2>2, <1>1 DEF World
  <2>4. QED
    BY <2>3, <1>9 DEF y, o, services, envs
<1>10. CASE version \notin Failing
  <2> DEFINE services == [x.services EXCEPT ![path] = [@ EXCEPT !.error = FALSE, !.loaded = TRUE]]
             envs == [o.envs EXCEPT ![path] = [@ EXCEPT !.content = version]]
             running == x.running \cup {S!Ref(x, path)}
             told == IF x.linked THEN x.told \cup {path} ELSE x.told
  <2>1. y = [o EXCEPT !.services = services, !.envs = envs, !.running = running, !.told = told]
    BY <1>1, <1>2, <1>10 DEF World
  <2>2. /\ services \in [Paths -> ServiceRecord \cup {S!None}] /\ envs \in [Paths -> EnvRecord \cup {S!None}]
        /\ running \subseteq ServiceRef /\ told \subseteq Paths
    BY <1>3, <1>4, <1>6, <1>7, <1>8
  <2> HIDE DEF services, envs, running, told
  <2>3. /\ y \in World /\ y.services = services /\ y.envs = envs /\ y.running = running /\ y.told = told
        /\ y.clients = x.clients /\ y.linked = x.linked /\ y.next = x.next
        /\ y.skipped = o.skipped /\ y.strayed = x.strayed
    BY <2>1, <2>2, <1>1 DEF World
  <2>4. QED
    BY <2>3, <1>10 DEF y, o, services, envs, running, told
<1>11. QED
  BY <1>9, <1>10

\* A file that is looked at: how the service and its environment are then.
LEMMA WatchSound ==
    ASSUME S!ServiceAssumption, SvcTyping, NEW x, NEW path \in Paths,
           Sound(x), S!Exists(x, path)
    PROVE  LET y == S!Watch(x, path) IN
           /\ Sound(y) /\ y.next = x.next
           /\ \A p \in Paths : S!Exists(y, p) <=> S!Exists(x, p)
<1> DEFINE y == S!Watch(x, path)
           s == x.services[path]
           ref == S!Ref(x, path)
           stamp == IF scripts[path] > 0 THEN scripts[path] ELSE s.seen
<1>1. /\ x \in World /\ s \in ServiceRecord /\ x.services \in [Paths -> ServiceRecord \cup {S!None}]
      /\ x.envs \in [Paths -> EnvRecord \cup {S!None}]
  BY DEF Sound, World, S!Exists
<1>2. ref \in ServiceRef /\ ref.path = path /\ ref.id = s.id
  BY <1>1 DEF ServiceRecord, ServiceRef, S!Ref
<1>3. scripts[path] \in Nat /\ stamp \in Nat
  <2>1. scripts[path] \in {0} \cup Versions
    BY DEF SvcTyping
  <2>2. scripts[path] \in Nat
    <3>1. Versions \subseteq Nat \ {0}
      BY DEF S!ServiceAssumption
    <3>2. \A v \in Versions : v \in Nat
      BY <3>1
    <3>3. scripts[path] = 0 \/ scripts[path] \in Versions
      BY <2>1
    <3>4. QED
      BY <3>2, <3>3
  <2>3. s.seen \in Nat
    BY <1>1 DEF ServiceRecord
  <2>4. QED
    BY <2>2, <2>3
<1>4. LoadedAsSeen(x, path)
  BY DEF Sound
<1>5. CASE s.recent
  <2>1. y = x
    BY <1>5 DEF S!Watch
  <2>2. QED
    BY <2>1
<1>6. CASE ~s.recent /\ stamp = s.seen
  <2>1. y = [x EXCEPT !.services = [x.services EXCEPT ![path] = [s EXCEPT !.recent = TRUE]]]
    BY <1>6 DEF S!Watch
  <2>2. [s EXCEPT !.recent = TRUE] \in ServiceRecord
    BY <1>1 DEF ServiceRecord
  <2>3. /\ y \in World /\ y.services = [x.services EXCEPT ![path] = [s EXCEPT !.recent = TRUE]]
        /\ y.envs = x.envs /\ y.running = x.running /\ y.clients = x.clients
        /\ y.linked = x.linked /\ y.told = x.told /\ y.next = x.next
        /\ y.skipped = x.skipped /\ y.strayed = x.strayed
    <3> DEFINE services == [x.services EXCEPT ![path] = [s EXCEPT !.recent = TRUE]]
    <3>1. services \in [Paths -> ServiceRecord \cup {S!None}] /\ y = [x EXCEPT !.services = services]
      BY <1>1, <2>1, <2>2
    <3> HIDE DEF services, y, s, ref, stamp
    <3>2. /\ y \in World /\ y.services = services
          /\ y.envs = x.envs /\ y.running = x.running /\ y.clients = x.clients
          /\ y.linked = x.linked /\ y.told = x.told /\ y.next = x.next
          /\ y.skipped = x.skipped /\ y.strayed = x.strayed
      BY <1>1, <3>1 DEF World
    <3>3. QED
      BY <3>2 DEF services
  <2> HIDE DEF y
  <2>4. /\ y.services[path] \in ServiceRecord /\ y.services[path].id = s.id
        /\ y.services[path].seen = s.seen /\ y.services[path].loaded = s.loaded
        /\ y.services[path].error = s.error
        /\ \A p \in Paths : p # path => y.services[p] = x.services[p]
    BY <1>1, <2>2, <2>3 DEF ServiceRecord
  <2>5. ASSUME NEW p \in Paths
        PROVE  /\ S!Exists(y, p) <=> S!Exists(x, p)
               /\ Has(y, p) <=> Has(x, p)
               /\ S!Exists(x, p) => /\ S!Ref(y, p) = S!Ref(x, p) /\ y.services[p].id = x.services[p].id
                                    /\ Runs(y, p) <=> Runs(x, p)
                                    /\ LoadedAsSeen(x, p) => LoadedAsSeen(y, p)
    <3>1. CASE p = path
      BY <3>1, <2>3, <2>4, NoneIsNothing DEF S!Exists, Has, S!Ref, Runs, LoadedAsSeen
    <3>2. CASE p # path
      BY <3>2, <2>3, <2>4 DEF S!Exists, Has, S!Ref, Runs, LoadedAsSeen
    <3>3. QED
      BY <3>1, <3>2
  <2>6. ASSUME NEW r \in ServiceRef PROVE r \in y.running <=> Runs(y, r.path) /\ y.services[r.path].id = r.id
    <3>1. r.path \in Paths
      BY DEF ServiceRef
    <3>2. r \in x.running <=> Runs(x, r.path) /\ x.services[r.path].id = r.id
      BY DEF Sound
    <3>3. QED
      BY <2>3, <2>5, <3>1, <3>2 DEF Runs
  <2>7. \A p \in Paths : Runs(y, p) <=> Runs(x, p)
    BY <2>5 DEF Runs
  <2>8. ASSUME NEW c \in Clients, y.clients[c] # S!None
        PROVE  y.clients[c].id = 0 \/ S!IsAlive(y, y.clients[c])
    <3>1. y.clients[c] = x.clients[c] /\ y.clients[c].path \in Paths
      BY <1>1, <2>3, <2>8 DEF World, ServiceRef
    <3>2. QED
      BY <2>5, <2>8, <3>1 DEF Sound, S!IsAlive
  <2>9. \A p \in Paths : S!Upper(p) \subseteq Paths
    BY PathsHaveUpper
  <2>10. ASSUME NEW p \in Paths, Has(y, p)
         PROVE  Owned(y, p)
    BY <2>3, <2>5, <2>10 DEF Sound, Owned
  <2>11. \A p \in Paths : S!Exists(y, p) => \A q \in S!Upper(p) : S!Exists(y, q)
    BY <2>5, <2>9 DEF Sound
  <2>12. Sound(y)
    BY <2>3, <2>5, <2>6, <2>7, <2>8, <2>10, <2>11 DEF Sound
  <2>13. QED
    BY <2>3, <2>5, <2>12 DEF y
<1>7. CASE ~s.recent /\ stamp # s.seen
  <2> DEFINE unloaded == IF s.seen > 0 THEN S!Close(x, path) ELSE x
             kept == IF s.seen > 0 THEN [s EXCEPT !.loaded = FALSE, !.error = FALSE] ELSE s
             seen == [kept EXCEPT !.recent = TRUE, !.seen = stamp, !.exists = TRUE]
             stamped == [unloaded EXCEPT !.services[path] = [@ EXCEPT !.recent = TRUE, !.seen = stamp, !.exists = TRUE]]
             ok == scripts[path] \notin Failing
  <2>1. y = S!Load(stamped, path)
    BY <1>7 DEF S!Watch
  <2>2. stamp = scripts[path] /\ stamp > 0
    BY <1>3, <1>7
  <2>3. /\ unloaded \in World
        /\ unloaded.services[path] = kept /\ \A p \in Paths : p # path => unloaded.services[p] = x.services[p]
        /\ Has(unloaded, path) <=> Has(x, path)
        /\ Has(x, path) => unloaded.envs[path].by = x.envs[path].by
        /\ \A p \in Paths : p # path => unloaded.envs[p] = x.envs[p]
        /\ \A r \in ServiceRef : r \in unloaded.running <=> r \in x.running /\ r # ref
        /\ unloaded.clients = x.clients /\ unloaded.linked = x.linked /\ unloaded.told = x.told /\ unloaded.next = x.next
        /\ unloaded.skipped = x.skipped /\ unloaded.strayed = x.strayed
    <3>1. ~Has(x, path) \/ s.seen = 0 => ref \notin x.running
      BY <1>2, <1>4 DEF Sound, LoadedAsSeen, Runs
    <3>2. CASE s.seen > 0
      <4>1. /\ unloaded \in World /\ unloaded.running = x.running \ (IF Has(x, path) THEN {ref} ELSE {})
            /\ unloaded.services = [x.services EXCEPT ![path] = [@ EXCEPT !.loaded = FALSE, !.error = FALSE]]
            /\ unloaded.envs = [x.envs EXCEPT ![path] = IF @ = S!None THEN @ ELSE [@ EXCEPT !.content = 0]]
            /\ unloaded.clients = x.clients /\ unloaded.linked = x.linked /\ unloaded.told = x.told /\ unloaded.next = x.next
            /\ unloaded.skipped = x.skipped /\ unloaded.strayed = x.strayed
        BY <1>1, <3>2, CloseIs
      <4> HIDE DEF unloaded
      <4>2. unloaded.services[path] = kept /\ \A p \in Paths : p # path => unloaded.services[p] = x.services[p]
        BY <1>1, <3>2, <4>1
      <4>3. /\ Has(unloaded, path) <=> Has(x, path)
            /\ Has(x, path) => unloaded.envs[path].by = x.envs[path].by
            /\ \A p \in Paths : p # path => unloaded.envs[p] = x.envs[p]
        <5>1. Has(x, path) => [x.envs[path] EXCEPT !.content = 0] \in EnvRecord
                              /\ [x.envs[path] EXCEPT !.content = 0].by = x.envs[path].by
          BY <1>1 DEF Has, EnvRecord
        <5>2. QED
          BY <1>1, <4>1, <5>1, NoneIsNothing DEF Has
      <4>4. \A r \in ServiceRef : r \in unloaded.running <=> r \in x.running /\ r # ref
        BY <3>1, <4>1
      <4>5. QED
        BY <4>1, <4>2, <4>3, <4>4
    <3>3. CASE ~(s.seen > 0)
      <4>1. s.seen = 0 /\ unloaded = x
        BY <3>3, <1>1 DEF ServiceRecord
      <4>2. \A r \in ServiceRef : r \in x.running <=> r \in x.running /\ r # ref
        BY <3>1, <4>1
      <4>3. QED
        BY <1>1, <3>3, <4>1, <4>2
    <3>4. QED
      BY <3>2, <3>3
  <2>4. seen \in ServiceRecord /\ kept \in ServiceRecord /\ kept.loaded = FALSE
    <3>1. s.seen = 0 => s.loaded = FALSE
      BY <1>1, <1>4 DEF LoadedAsSeen, ServiceRecord
    <3>2. kept \in ServiceRecord /\ kept.loaded = FALSE
      <4>1. CASE s.seen > 0
        <5>1. [s EXCEPT !.loaded = FALSE, !.error = FALSE] \in ServiceRecord
              /\ [s EXCEPT !.loaded = FALSE, !.error = FALSE].loaded = FALSE
          BY <1>1 DEF ServiceRecord
        <5>2. kept = [s EXCEPT !.loaded = FALSE, !.error = FALSE]
          BY <4>1
        <5>3. QED
          BY <5>1, <5>2
      <4>2. CASE ~(s.seen > 0)
        <5>1. s.seen = 0
          BY <4>2, <1>1 DEF ServiceRecord
        <5>2. kept = s
          BY <4>2
        <5>3. QED
          BY <1>1, <3>1, <5>1, <5>2
      <4>3. QED
        BY <4>1, <4>2
    <3> HIDE DEF kept
    <3>3. seen \in ServiceRecord
      BY <1>3, <3>2 DEF ServiceRecord
    <3>4. QED
      BY <3>2, <3>3
  <2> HIDE DEF unloaded
  <2>5. stamped = [unloaded EXCEPT !.services = [unloaded.services EXCEPT ![path] = seen]]
    BY <2>3
  <2> HIDE DEF stamped
  <2>6. /\ stamped \in World /\ stamped.services = [unloaded.services EXCEPT ![path] = seen]
        /\ stamped.envs = unloaded.envs /\ stamped.running = unloaded.running /\ stamped.clients = unloaded.clients
        /\ stamped.linked = unloaded.linked /\ stamped.told = unloaded.told /\ stamped.next = unloaded.next
        /\ stamped.skipped = x.skipped /\ stamped.strayed = x.strayed
    BY <2>3, <2>4, <2>5 DEF World
  <2>7. stamped.services[path] = seen /\ \A p \in Paths : p # path => stamped.services[p] = x.services[p]
    BY <2>3, <2>6 DEF World
  <2>8. S!Exists(stamped, path) /\ S!Ref(stamped, path) = ref
    BY <2>4, <2>7, NoneIsNothing DEF S!Exists, S!Ref, ServiceRecord
  <2>9. \A q \in Paths : /\ Has(stamped, q) <=> Has(x, q)
                         /\ S!Exists(stamped, q) <=> S!Exists(x, q)
                         /\ S!Exists(x, q) => S!Ref(stamped, q) = S!Ref(x, q)
    BY <1>2, <2>3, <2>6, <2>7, <2>8 DEF Has, S!Exists, S!Ref
  <2>10. /\ \A p \in Paths : Has(stamped, p) => Owned(stamped, p)
         /\ \A q \in S!Upper(path) : S!Exists(stamped, q)
    <3>1. ASSUME NEW p \in Paths, Has(stamped, p) PROVE Owned(stamped, p)
      <4>1. Has(x, p) /\ Owned(x, p)
        BY <2>9, <3>1 DEF Sound
      <4>2. stamped.envs[p].by = x.envs[p].by
        BY <2>3, <2>6, <4>1
      <4>3. S!Exists(x, p) /\ S!Exists(stamped, p) /\ S!Ref(stamped, p) = S!Ref(x, p)
        BY <2>9, <4>1 DEF Owned
      <4>4. QED
        BY <2>6, <4>1, <4>2, <4>3 DEF Owned
    <3>2. \A q \in S!Upper(path) : S!Exists(stamped, q)
      BY <2>9, PathsHaveUpper DEF Sound
    <3>3. QED
      BY <3>1, <3>2
  <2> DEFINE o == S!Open(stamped, path)
  <2>11. /\ o.envs \in [Paths -> EnvRecord \cup {S!None}]
         /\ \A p \in Paths : o.envs[p] = IF p \in S!Upper(path) /\ ~Has(stamped, p)
                                         THEN [by |-> ref, content |-> 0] ELSE stamped.envs[p]
    <3>1. o \in World
          /\ \A p \in Paths : o.envs[p] = IF p \in S!Upper(path) /\ ~Has(stamped, p)
                                         THEN [by |-> S!Ref(stamped, path), content |-> 0] ELSE stamped.envs[p]
      BY <2>6, <2>8, OpenIs
    <3> HIDE DEF o
    <3>2. QED
      BY <2>8, <3>1 DEF World
  <2>12. /\ Has(o, path) /\ (x.skipped => o.skipped)
         /\ \A p \in Paths : /\ Has(o, p) => Owned(o, p)
                             /\ S!Exists(o, p) <=> S!Exists(x, p)
                             /\ S!Exists(x, p) => S!Ref(o, p) = S!Ref(x, p)
    BY <2>6, <2>8, <2>9, <2>10, OpenOwned
  <2>13. /\ y \in World
         /\ y.services = [stamped.services EXCEPT ![path] =
                             IF ok THEN [seen EXCEPT !.error = FALSE, !.loaded = TRUE] ELSE [seen EXCEPT !.error = TRUE]]
         /\ y.envs = [o.envs EXCEPT ![path] = [@ EXCEPT !.content = IF ok THEN scripts[path] ELSE 0]]
         /\ y.running = IF ok THEN stamped.running \cup {ref} ELSE stamped.running
         /\ y.told = IF ok /\ stamped.linked THEN stamped.told \cup {path} ELSE stamped.told
         /\ y.clients = stamped.clients /\ y.linked = stamped.linked /\ y.next = stamped.next
         /\ y.skipped = o.skipped /\ y.strayed = stamped.strayed
    <3> DEFINE old == stamped.services[path]
    <3>1. /\ y \in World
          /\ y.services = [stamped.services EXCEPT ![path] =
                              IF ok THEN [old EXCEPT !.error = FALSE, !.loaded = TRUE] ELSE [old EXCEPT !.error = TRUE]]
          /\ y.envs = [o.envs EXCEPT ![path] = [@ EXCEPT !.content = IF ok THEN scripts[path] ELSE 0]]
          /\ y.running = IF ok THEN stamped.running \cup {S!Ref(stamped, path)} ELSE stamped.running
          /\ y.told = IF ok /\ stamped.linked THEN stamped.told \cup {path} ELSE stamped.told
          /\ y.clients = stamped.clients /\ y.linked = stamped.linked /\ y.next = stamped.next
          /\ y.skipped = o.skipped /\ y.strayed = stamped.strayed
      <4>1. stamped \in World /\ S!Exists(stamped, path) /\ Has(o, path) /\ scripts[path] \in Nat
        BY <1>3, <2>6, <2>8, <2>12
      <4> HIDE DEF y
      <4>2. QED
        BY <4>1, <2>1, LoadIs
    <3>2. old = seen
      BY <2>7
    <3> HIDE DEF y, seen, old, o
    <3>3. QED
      BY <3>1, <3>2, <2>8
  <2>14. /\ [seen EXCEPT !.error = FALSE, !.loaded = TRUE] \in ServiceRecord
         /\ [seen EXCEPT !.error = TRUE] \in ServiceRecord
         /\ seen.id = s.id /\ seen.seen = stamp /\ seen.loaded = FALSE
    <3>1. kept.id = s.id
      BY <1>1 DEF ServiceRecord
    <3> HIDE DEF kept
    <3>2. seen.id = s.id /\ seen.seen = stamp /\ seen.loaded = FALSE
      BY <2>4, <3>1 DEF ServiceRecord
    <3> HIDE DEF seen
    <3>3. QED
      BY <2>4, <3>2 DEF ServiceRecord
  <2> HIDE DEF kept, seen, y, o
  <2>15. /\ y.services[path] \in ServiceRecord /\ y.services[path].id = s.id /\ y.services[path].seen = stamp
         /\ y.services[path].loaded = ok /\ y.services[path].error = ~ok
         /\ \A p \in Paths : p # path => y.services[p] = x.services[p]
    <3>1. stamped.services \in [Paths -> ServiceRecord \cup {S!None}]
      BY <2>6 DEF World
    <3>2. \A p \in Paths : p # path => y.services[p] = x.services[p]
      BY <2>7, <2>13, <3>1
    <3>3. y.services[path] = IF ok THEN [seen EXCEPT !.error = FALSE, !.loaded = TRUE] ELSE [seen EXCEPT !.error = TRUE]
      BY <2>13, <3>1
    <3>4. QED
      BY <2>4, <2>14, <3>2, <3>3 DEF ServiceRecord
  <2>16. /\ Has(y, path) /\ y.envs[path].content = IF ok THEN stamp ELSE 0
         /\ y.envs[path].by = o.envs[path].by
         /\ \A p \in Paths : p # path => y.envs[p] = o.envs[p]
    <3>1. \A p \in Paths : p # path => y.envs[p] = o.envs[p]
      BY <2>11, <2>13
    <3>2. o.envs[path] \in EnvRecord
      BY <2>11, <2>12 DEF Has
    <3>3. y.envs[path] = [o.envs[path] EXCEPT !.content = IF ok THEN scripts[path] ELSE 0]
      BY <2>11, <2>13
    <3>4. y.envs[path] \in EnvRecord /\ y.envs[path].content = (IF ok THEN stamp ELSE 0)
          /\ y.envs[path].by = o.envs[path].by
      <4> DEFINE v == IF ok THEN scripts[path] ELSE 0
      <4>1. v \in Nat /\ v = IF ok THEN stamp ELSE 0
        BY <1>3, <2>2
      <4> HIDE DEF v
      <4>2. y.envs[path] = [o.envs[path] EXCEPT !.content = v]
        BY <3>3 DEF v
      <4>3. QED
        BY <3>2, <4>1, <4>2 DEF EnvRecord
    <3>5. Has(y, path)
      BY <3>4, NoneIsNothing DEF Has
    <3>6. QED
      BY <3>1, <3>4, <3>5
  <2>17. /\ \A r \in ServiceRef : r \in y.running <=> (r \in x.running /\ r # ref) \/ (ok /\ r = ref)
         /\ y.linked = x.linked /\ y.clients = x.clients /\ y.next = x.next
         /\ \A p \in Paths : p \in x.told => p \in y.told
         /\ x.linked /\ ok => path \in y.told
    BY <2>3, <2>6, <2>13
  <2> HIDE DEF stamp, ok
  <2>18. \A p \in Paths : S!Exists(y, p) <=> S!Exists(x, p)
    BY <2>15, NoneIsNothing DEF S!Exists
  <2>19. \A p \in Paths : /\ p # path => (Runs(x, p) <=> Runs(y, p))
                          /\ Has(y, p) <=> Has(o, p)
                          /\ Has(o, p) => y.envs[p].by = o.envs[p].by
                          /\ S!Exists(x, p) => S!Ref(y, p) = S!Ref(x, p) /\ y.services[p].id = x.services[p].id
    BY <2>12, <2>15, <2>16, <2>18 DEF Has, Runs, S!Ref
  <2>20. Runs(y, path) <=> ok
    BY <2>15, <2>18 DEF Runs
  <2>21. ASSUME NEW p \in Paths, Has(y, p) PROVE Owned(y, p)
    <3>1. Owned(o, p) /\ y.envs[p].by = o.envs[p].by
      BY <2>12, <2>19, <2>21
    <3>2. S!Exists(y, p) /\ S!Ref(y, p) = S!Ref(o, p)
      BY <2>12, <2>18, <2>19, <3>1 DEF Owned
    <3>3. QED
      BY <2>13, <3>1, <3>2 DEF Owned
  <2>22. \A p \in Paths : S!Exists(y, p) => \A q \in S!Upper(p) : S!Exists(y, q)
    BY <2>18, PathsHaveUpper DEF Sound
  <2>23. ASSUME NEW r \in ServiceRef PROVE r \in y.running <=> Runs(y, r.path) /\ y.services[r.path].id = r.id
    <3>1. r.path \in Paths /\ (r \in x.running <=> Runs(x, r.path) /\ x.services[r.path].id = r.id)
      BY DEF Sound, ServiceRef
    <3>2. r = ref <=> r.path = path /\ r.id = s.id
      BY <1>2 DEF ServiceRef
    <3>3. CASE r.path = path
      <4>1. r \in x.running => r.id = s.id
        BY <3>1, <3>3
      <4>2. QED
        BY <3>2, <3>3, <4>1, <2>15, <2>17, <2>20
    <3>4. CASE r.path # path
      BY <3>1, <3>2, <3>4, <2>15, <2>17, <2>19
    <3>5. QED
      BY <3>3, <3>4
  <2>24. y.linked => \A p \in Paths : Runs(y, p) => p \in y.told
    BY <2>17, <2>19, <2>20 DEF Sound
  <2>25. ASSUME NEW c \in Clients, y.clients[c] # S!None
         PROVE  y.clients[c].id = 0 \/ S!IsAlive(y, y.clients[c])
    <3>1. y.clients[c] = x.clients[c] /\ y.clients[c].path \in Paths
      BY <1>1, <2>17, <2>25 DEF World, ServiceRef
    <3>2. QED
      BY <2>18, <2>19, <2>25, <3>1 DEF Sound, S!IsAlive
  <2>26. ASSUME NEW p \in Paths, S!Exists(y, p) PROVE LoadedAsSeen(y, p)
    <3>1. CASE p = path
      BY <3>1, <2>2, <2>15, <2>16 DEF LoadedAsSeen
    <3>2. CASE p # path
      <4>1. LoadedAsSeen(x, p) /\ y.services[p] = x.services[p] /\ y.envs[p] = o.envs[p]
        BY <3>2, <2>15, <2>16, <2>18, <2>26 DEF Sound
      <4>2. CASE Has(x, p)
        <5>1. y.envs[p] = x.envs[p] /\ Has(y, p)
          BY <3>2, <4>1, <4>2, <2>3, <2>6, <2>9, <2>11 DEF Has
        <5>2. QED
          BY <4>1, <4>2, <5>1 DEF LoadedAsSeen
      <4>3. CASE ~Has(x, p)
        <5>1. Has(y, p) => y.envs[p].content = 0
          BY <3>2, <4>1, <4>3, <2>3, <2>6, <2>9, <2>11 DEF Has
        <5>2. QED
          BY <4>1, <4>3, <5>1 DEF LoadedAsSeen
      <4>4. QED
        BY <4>2, <4>3
    <3>3. QED
      BY <3>1, <3>2
  <2>27. y.strayed => y.skipped
    BY <2>6, <2>12, <2>13 DEF Sound
  <2>28. Sound(y)
    BY <2>13, <2>21, <2>22, <2>23, <2>24, <2>25, <2>26, <2>27 DEF Sound
  <2>29. QED
    BY <2>17, <2>18, <2>28 DEF y
<1>8. QED
  BY <1>5, <1>6, <1>7

-----------------------------------------------------------------------------
(* What is deleted *)

LEMMA DeleteIs ==
    ASSUME S!ServiceAssumption, NEW x \in World, NEW path \in Paths
    PROVE  LET y == S!Delete(x, path)
               gone == {p \in S!Below(path) : S!Exists(x, p)}
           IN
           /\ y \in World
           /\ y.running = S!Withdrawn(x, gone)
           /\ \A p \in Paths : /\ y.envs[p] = IF p \in S!Below(path) THEN S!None ELSE x.envs[p]
                               /\ y.services[p] = IF p \in gone THEN S!None ELSE x.services[p]
           /\ \A c \in Clients : y.clients[c] = IF x.clients[c] # S!None /\ x.clients[c].path \in gone
                                               THEN [x.clients[c] EXCEPT !.id = 0] ELSE x.clients[c]
           /\ y.linked = x.linked /\ y.told = x.told /\ y.next = x.next
           /\ y.skipped = x.skipped /\ y.strayed = x.strayed
<1> DEFINE y == S!Delete(x, path)
           gone == {p \in S!Below(path) : S!Exists(x, p)}
           running == S!Withdrawn(x, gone)
           envs == [p \in Paths |-> IF p \in S!Below(path) THEN S!None ELSE x.envs[p]]
           services == [p \in Paths |-> IF p \in gone THEN S!None ELSE x.services[p]]
           client(c) == IF x.clients[c] # S!None /\ x.clients[c].path \in gone
                        THEN [x.clients[c] EXCEPT !.id = 0] ELSE x.clients[c]
           clients == [c \in Clients |-> client(c)]
<1>1. y = [x EXCEPT !.running = running, !.envs = envs, !.services = services, !.clients = clients]
  BY DEF S!Delete
<1>2. running \subseteq ServiceRef
  BY DEF S!Withdrawn, World
<1> HIDE DEF gone, running
<1>3. envs \in [Paths -> EnvRecord \cup {S!None}] /\ services \in [Paths -> ServiceRecord \cup {S!None}]
  BY DEF World
<1>4. ASSUME NEW c \in Clients PROVE client(c) \in ServiceRef \cup {S!None}
  <2>1. x.clients[c] \in ServiceRef \cup {S!None}
    BY DEF World
  <2>2. x.clients[c] \in ServiceRef => [x.clients[c] EXCEPT !.id = 0] \in ServiceRef
    BY DEF ServiceRef
  <2>3. QED
    BY <2>1, <2>2
<1> HIDE DEF client
<1>5. clients \in [Clients -> ServiceRef \cup {S!None}]
  BY <1>4
<1>6. /\ \A p \in Paths : envs[p] = (IF p \in S!Below(path) THEN S!None ELSE x.envs[p])
                        /\ services[p] = IF p \in gone THEN S!None ELSE x.services[p]
      /\ \A c \in Clients : clients[c] = client(c)
  OBVIOUS
<1> HIDE DEF y, envs, services, clients
<1>7. /\ y \in World /\ y.running = running /\ y.envs = envs /\ y.services = services /\ y.clients = clients
      /\ y.linked = x.linked /\ y.told = x.told /\ y.next = x.next
           /\ y.skipped = x.skipped /\ y.strayed = x.strayed
  BY <1>1, <1>2, <1>3, <1>5 DEF World
<1>8. QED
  BY <1>6, <1>7 DEF y, gone, running, client

\* Everything at a path and below goes, with its environments and its running.
LEMMA DeleteSound ==
    ASSUME S!ServiceAssumption, NEW x, NEW path \in Paths, Sound(x)
    PROVE  LET y == S!Delete(x, path) IN
           /\ Sound(y) /\ y.next = x.next
           /\ \A p \in Paths : S!Exists(y, p) <=> S!Exists(x, p) /\ path \notin S!Upper(p)
           /\ \A c \in Clients : x.clients[c] = S!None => y.clients[c] = S!None
<1> DEFINE y == S!Delete(x, path)
           gone == {p \in S!Below(path) : S!Exists(x, p)}
<1>1. x \in World
  BY DEF Sound
<1>2. /\ y \in World
      /\ y.running = S!Withdrawn(x, gone)
      /\ \A p \in Paths : /\ y.envs[p] = IF p \in S!Below(path) THEN S!None ELSE x.envs[p]
                          /\ y.services[p] = IF p \in gone THEN S!None ELSE x.services[p]
      /\ \A c \in Clients : y.clients[c] = IF x.clients[c] # S!None /\ x.clients[c].path \in gone
                                          THEN [x.clients[c] EXCEPT !.id = 0] ELSE x.clients[c]
      /\ y.linked = x.linked /\ y.told = x.told /\ y.next = x.next
      /\ y.skipped = x.skipped /\ y.strayed = x.strayed
  BY <1>1, DeleteIs
<1> HIDE DEF y
<1>3. \A p \in Paths : p \in S!Below(path) <=> path \in S!Upper(p)
  BY DEF S!Below
<1>4. \A p \in Paths : p \in gone <=> path \in S!Upper(p) /\ S!Exists(x, p)
  BY <1>3 DEF S!Below
<1>5. ASSUME NEW p \in Paths
      PROVE  /\ S!Exists(y, p) <=> S!Exists(x, p) /\ path \notin S!Upper(p)
             /\ Has(y, p) <=> Has(x, p) /\ path \notin S!Upper(p)
             /\ path \notin S!Upper(p) => y.services[p] = x.services[p] /\ y.envs[p] = x.envs[p]
             /\ path \notin S!Upper(p) => S!Ref(y, p) = S!Ref(x, p)
             /\ Runs(y, p) <=> Runs(x, p) /\ path \notin S!Upper(p)
  <2>1. /\ path \notin S!Upper(p) => y.services[p] = x.services[p] /\ y.envs[p] = x.envs[p]
        /\ path \in S!Upper(p) => y.envs[p] = S!None
        /\ path \in S!Upper(p) /\ S!Exists(x, p) => y.services[p] = S!None
        /\ path \in S!Upper(p) /\ ~S!Exists(x, p) => y.services[p] = x.services[p]
    BY <1>2, <1>3, <1>4
  <2>2. QED
    BY <2>1 DEF S!Exists, Has, S!Ref, Runs
<1>6. ASSUME NEW r \in ServiceRef
      PROVE  r \in y.running <=> Runs(y, r.path) /\ y.services[r.path].id = r.id
  <2>1. r.path \in Paths /\ (r \in x.running <=> Runs(x, r.path) /\ x.services[r.path].id = r.id)
    BY DEF Sound, ServiceRef
  <2>2. r \in y.running <=> r \in x.running /\ \A p \in gone : Has(x, p) => r # S!Ref(x, p)
    BY <1>2 DEF S!Withdrawn, Has
  <2>3. CASE path \in S!Upper(r.path)
    <3>1. ASSUME r \in x.running PROVE r.path \in gone /\ Has(x, r.path) /\ r = S!Ref(x, r.path)
      <4>1. Runs(x, r.path) /\ x.services[r.path].id = r.id
        BY <2>1, <3>1
      <4>2. r.path \in gone
        BY <1>4, <2>1, <2>3, <4>1 DEF Runs
      <4>3. Has(x, r.path)
        BY <2>1, <4>1 DEF Sound, LoadedAsSeen, Runs
      <4>4. r = S!Ref(x, r.path)
        BY <4>1 DEF ServiceRef, S!Ref
      <4>5. QED
        BY <4>2, <4>3, <4>4
    <3>2. QED
      BY <1>5, <2>1, <2>2, <2>3, <3>1
  <2>4. CASE path \notin S!Upper(r.path)
    <3>1. \A p \in gone : S!Ref(x, p).path = p /\ p # r.path
      BY <1>4, <2>4 DEF S!Ref, S!Below
    <3>2. r \in y.running <=> r \in x.running
      BY <2>2, <3>1
    <3>3. QED
      BY <1>5, <2>1, <2>4, <3>2
  <2>5. QED
    BY <2>3, <2>4
<1>7. ASSUME NEW c \in Clients, y.clients[c] # S!None PROVE y.clients[c].id = 0 \/ S!IsAlive(y, y.clients[c])
  <2>1. x.clients[c] \in ServiceRef \cup {S!None}
    BY <1>1 DEF World
  <2>2. x.clients[c] # S!None
    <3>1. CASE x.clients[c] = S!None
      BY <1>2, <1>7, <3>1
    <3>2. QED
      BY <3>1
  <2>3. x.clients[c] \in ServiceRef /\ x.clients[c].path \in Paths
    BY <2>1, <2>2 DEF ServiceRef
  <2>4. CASE x.clients[c].path \in gone
    <3>1. y.clients[c] = [x.clients[c] EXCEPT !.id = 0]
      BY <1>2, <2>2, <2>4
    <3>2. QED
      BY <2>3, <3>1 DEF ServiceRef
  <2>5. CASE x.clients[c].path \notin gone
    <3>1. y.clients[c] = x.clients[c]
      BY <1>2, <2>5
    <3>2. x.clients[c].id = 0 \/ S!IsAlive(x, x.clients[c])
      BY <2>2 DEF Sound
    <3>3. QED
      BY <1>4, <1>5, <2>3, <2>5, <3>1, <3>2 DEF S!IsAlive
  <2>6. QED
    BY <2>4, <2>5
<1>8. ASSUME NEW p \in Paths, Has(y, p) PROVE Owned(y, p)
  <2>1. Has(x, p) /\ path \notin S!Upper(p) /\ Owned(x, p)
    BY <1>5, <1>8 DEF Sound
  <2>2. QED
    BY <1>2, <1>5, <2>1 DEF Owned
<1>9. ASSUME NEW p \in Paths, S!Exists(y, p), NEW q \in S!Upper(p) PROVE S!Exists(y, q)
  <2>1. q \in Paths /\ path \notin S!Upper(q) /\ S!Exists(x, q)
    BY <1>5, <1>9, PathsHaveUpper, UpperOfUpper DEF Sound
  <2>2. QED
    BY <1>5, <2>1
<1>10. ASSUME NEW p \in Paths, S!Exists(y, p) PROVE LoadedAsSeen(y, p)
  <2>1. S!Exists(x, p) /\ path \notin S!Upper(p) /\ LoadedAsSeen(x, p)
    BY <1>5, <1>10 DEF Sound
  <2>2. QED
    BY <1>5, <2>1 DEF LoadedAsSeen
<1>11. y.linked => \A p \in Paths : Runs(y, p) => p \in y.told
  BY <1>2, <1>5 DEF Sound
<1>12. Sound(y)
  BY <1>2, <1>6, <1>7, <1>8, <1>9, <1>10, <1>11 DEF Sound
<1>13. \A c \in Clients : x.clients[c] = S!None => y.clients[c] = S!None
  BY <1>2
<1>14. QED
  BY <1>2, <1>5, <1>12, <1>13 DEF y

-----------------------------------------------------------------------------
(* What is built and kept *)

\* Services that nothing is loaded for yet.
LEMMA WorldBuilt ==
    ASSUME S!ServiceAssumption, NEW x, NEW path \in Paths, Sound(x),
           NEW services \in [Paths -> ServiceRecord \cup {S!None}], NEW n \in Nat,
           \A p \in Paths : IF p \in S!Upper(path) /\ ~S!Exists(x, p)
                            THEN services[p] # S!None /\ services[p].seen = 0 /\ services[p].loaded = FALSE
                            ELSE services[p] = x.services[p]
    PROVE  LET y == [x EXCEPT !.services = services, !.next = n] IN
           /\ Sound(y) /\ \A q \in S!Upper(path) : S!Exists(y, q)
           /\ \A p \in Paths : S!Exists(x, p) => S!Exists(y, p)
<1> DEFINE y == [x EXCEPT !.services = services, !.next = n]
<1>1. x \in World
  BY DEF Sound
<1>2. /\ y \in World /\ y.services = services /\ y.envs = x.envs /\ y.running = x.running
      /\ y.clients = x.clients /\ y.linked = x.linked /\ y.told = x.told
      /\ y.skipped = x.skipped /\ y.strayed = x.strayed
  BY <1>1 DEF World
<1> HIDE DEF y
<1>3. \A p \in Paths : S!Upper(p) \subseteq Paths
  BY PathsHaveUpper
<1>4. \A p \in Paths : S!Exists(x, p) => y.services[p] = x.services[p] /\ S!Exists(y, p)
  BY <1>2 DEF S!Exists
<1>5. \A p \in Paths : S!Exists(y, p) => S!Exists(x, p) \/ p \in S!Upper(path)
  BY <1>2 DEF S!Exists
<1>6. \A q \in S!Upper(path) : S!Exists(y, q)
  BY <1>2, <1>3 DEF S!Exists
<1>7. \A p \in Paths : /\ Has(y, p) <=> Has(x, p)
                       /\ S!Exists(x, p) => S!Ref(y, p) = S!Ref(x, p)
                       /\ Runs(y, p) <=> Runs(x, p)
  <2>1. \A p \in Paths : Has(y, p) <=> Has(x, p)
    BY <1>2 DEF Has
  <2>2. \A p \in Paths : S!Exists(x, p) => S!Ref(y, p) = S!Ref(x, p)
    BY <1>4 DEF S!Ref
  <2>3. ASSUME NEW p \in Paths PROVE Runs(y, p) <=> Runs(x, p)
    <3>1. CASE S!Exists(x, p)
      BY <3>1, <1>4 DEF Runs
    <3>2. CASE ~S!Exists(x, p)
      <4>1. ~S!Exists(y, p) \/ y.services[p].loaded = FALSE
        BY <3>2, <1>2, <1>5
      <4>2. QED
        BY <3>2, <4>1 DEF Runs
    <3>3. QED
      BY <3>1, <3>2
  <2>4. QED
    BY <2>1, <2>2, <2>3
<1>8. ASSUME NEW p \in Paths, Has(y, p) PROVE Owned(y, p)
  <2>1. Owned(x, p) /\ y.envs[p] = x.envs[p]
    BY <1>2, <1>7, <1>8 DEF Sound
  <2>2. S!Exists(x, p)
    BY <2>1 DEF Owned
  <2>3. QED
    BY <1>2, <1>4, <1>7, <2>1, <2>2 DEF Owned
<1>9. ASSUME NEW p \in Paths, S!Exists(y, p), NEW q \in S!Upper(p) PROVE S!Exists(y, q)
  <2>1. CASE S!Exists(x, p)
    BY <2>1, <1>3, <1>4 DEF Sound
  <2>2. CASE p \in S!Upper(path)
    <3>1. q \in S!Upper(path)
      BY <2>2, UpperOfUpper
    <3>2. QED
      BY <1>6, <3>1
  <2>3. QED
    BY <1>5, <1>9, <2>1, <2>2
<1>10. ASSUME NEW r \in ServiceRef PROVE r \in y.running <=> Runs(y, r.path) /\ y.services[r.path].id = r.id
  <2>1. r.path \in Paths /\ (r \in x.running <=> Runs(x, r.path) /\ x.services[r.path].id = r.id)
    BY DEF Sound, ServiceRef
  <2>2. Runs(x, r.path) => y.services[r.path] = x.services[r.path]
    BY <1>4, <2>1 DEF Runs
  <2>3. QED
    BY <1>2, <1>7, <2>1, <2>2
<1>11. y.linked => \A p \in Paths : Runs(y, p) => p \in y.told
  BY <1>2, <1>7 DEF Sound
<1>12. ASSUME NEW c \in Clients, y.clients[c] # S!None PROVE y.clients[c].id = 0 \/ S!IsAlive(y, y.clients[c])
  <2>1. y.clients[c] = x.clients[c] /\ y.clients[c].path \in Paths
    BY <1>1, <1>2, <1>12 DEF World, ServiceRef
  <2>2. QED
    BY <1>4, <1>12, <2>1 DEF Sound, S!IsAlive
<1>13. ASSUME NEW p \in Paths, S!Exists(y, p) PROVE LoadedAsSeen(y, p)
  <2>1. CASE S!Exists(x, p)
    BY <1>2, <1>4, <1>7, <2>1 DEF Sound, LoadedAsSeen
  <2>2. CASE ~S!Exists(x, p)
    <3>1. y.services[p].loaded = FALSE /\ y.services[p].seen = 0
      BY <1>2, <1>5, <1>13, <2>2
    <3>2. ~Has(y, p)
      BY <1>7, <2>2 DEF Sound, Owned
    <3>3. QED
      BY <3>1, <3>2 DEF LoadedAsSeen
  <2>3. QED
    BY <2>1, <2>2
<1>14. Sound(y)
  BY <1>2, <1>8, <1>9, <1>10, <1>11, <1>12, <1>13 DEF Sound
<1>15. QED
  BY <1>4, <1>6, <1>14 DEF y

\* What does not touch the services' files, environments and running.
LEMMA WorldKept ==
    ASSUME S!ServiceAssumption, NEW x, Sound(x), NEW y \in World,
           y.envs = x.envs, y.running = x.running, y.skipped = x.skipped, y.strayed => x.skipped,
           \A p \in Paths : S!Exists(y, p) <=> S!Exists(x, p),
           \A p \in Paths : S!Exists(x, p) =>
               /\ y.services[p].id = x.services[p].id /\ y.services[p].seen = x.services[p].seen
               /\ y.services[p].loaded = x.services[p].loaded /\ y.services[p].error = x.services[p].error,
           y.linked => \A p \in Paths : Runs(x, p) => p \in y.told,
           \A c \in Clients : y.clients[c] # S!None => y.clients[c].id = 0 \/ S!IsAlive(x, y.clients[c])
    PROVE  Sound(y)
<1>1. \A p \in Paths : /\ Has(y, p) <=> Has(x, p)
                       /\ S!Exists(x, p) => S!Ref(y, p) = S!Ref(x, p)
                       /\ Runs(y, p) <=> Runs(x, p)
  BY DEF Has, S!Ref, Runs
<1>2. \A p \in Paths : S!Upper(p) \subseteq Paths
  BY PathsHaveUpper
<1>3. ASSUME NEW p \in Paths, Has(y, p) PROVE Owned(y, p)
  <2>1. Owned(x, p)
    BY <1>1, <1>3 DEF Sound
  <2>2. QED
    BY <1>1, <2>1 DEF Owned
<1>4. \A p \in Paths : S!Exists(y, p) => \A q \in S!Upper(p) : S!Exists(y, q)
  BY <1>2 DEF Sound
<1>5. ASSUME NEW r \in ServiceRef PROVE r \in y.running <=> Runs(y, r.path) /\ y.services[r.path].id = r.id
  <2>1. r.path \in Paths /\ (r \in x.running <=> Runs(x, r.path) /\ x.services[r.path].id = r.id)
    BY DEF Sound, ServiceRef
  <2>2. QED
    BY <1>1, <2>1 DEF Runs
<1>6. ASSUME NEW c \in Clients, y.clients[c] # S!None PROVE y.clients[c].id = 0 \/ S!IsAlive(y, y.clients[c])
  <2>1. y.clients[c].path \in Paths
    BY <1>6 DEF World, ServiceRef
  <2>2. QED
    BY <1>6, <2>1 DEF S!IsAlive
<1>7. ASSUME NEW p \in Paths, S!Exists(y, p) PROVE LoadedAsSeen(y, p)
  <2>1. LoadedAsSeen(x, p) /\ S!Exists(x, p)
    BY <1>7 DEF Sound
  <2>2. QED
    BY <1>1, <2>1 DEF LoadedAsSeen
<1>8. y.linked => \A p \in Paths : Runs(y, p) => p \in y.told
  BY <1>1
<1>9. QED
  BY <1>3, <1>4, <1>5, <1>6, <1>7, <1>8 DEF Sound

-----------------------------------------------------------------------------
(* What is asked for *)

LEMMA GetSound ==
    ASSUME S!ServiceAssumption, SvcTyping, NEW x, NEW path \in Paths, Sound(x), S!Exists(x, S!Root)
    PROVE  LET got == S!Get(x, path) IN
           /\ Sound(got.world) /\ S!Exists(got.world, S!Root)
           /\ got.found => S!Exists(got.world, path)
<1> DEFINE missing == {p \in S!Upper(path) : ~S!Exists(x, p)}
           number(p) == x.next + Len(path) - Len(p)
           services == [p \in Paths |-> IF p \in missing THEN S!NewService(number(p)) ELSE x.services[p]]
           next == x.next + S!Cardinality(missing)
           built == [x EXCEPT !.services = services, !.next = next]
           watched == S!Watch(built, path)
           kept == watched.services[path].exists \/ path \in folders
           left == IF path = S!Root THEN watched ELSE S!Delete(watched, path)
<1>1. S!Get(x, path) = IF kept THEN [found |-> TRUE, world |-> watched] ELSE [found |-> FALSE, world |-> left]
  BY Zenon, SameCardinality DEF S!Get
<1>2. x \in World /\ path \in S!Upper(path) /\ S!Upper(path) \subseteq Paths /\ S!Root \in S!Upper(path)
  BY PathsHaveUpper DEF Sound
<1>3. Sound(built) /\ S!Exists(built, path) /\ S!Exists(built, S!Root)
  <2>1. next \in Nat
    BY <1>2, UpperFinite, FS_Subset, FS_CardinalityType, SameCardinality DEF World
  <2>2. ASSUME NEW p \in missing
        PROVE  S!NewService(number(p)) \in ServiceRecord /\ S!NewService(number(p)).seen = 0
               /\ S!NewService(number(p)).loaded = FALSE
    <3>1. x.next \in Nat /\ Len(path) \in Nat /\ Len(p) \in 0 .. Len(path)
      BY <1>2, UpperShorter DEF World, S!ServiceAssumption
    <3>2. number(p) \in Nat
      BY <3>1
    <3> HIDE DEF number
    <3>3. QED
      BY <3>2 DEF S!NewService, ServiceRecord
  <2> HIDE DEF number
  <2>3. services \in [Paths -> ServiceRecord \cup {S!None}]
    <3>1. x.services \in [Paths -> ServiceRecord \cup {S!None}]
      BY <1>2 DEF World
    <3>2. \A p \in Paths : services[p] \in ServiceRecord \cup {S!None}
      BY <2>2, <3>1
    <3>3. QED
      BY <3>2
  <2>4. \A p \in Paths : IF p \in S!Upper(path) /\ ~S!Exists(x, p)
                         THEN services[p] # S!None /\ services[p].seen = 0 /\ services[p].loaded = FALSE
                         ELSE services[p] = x.services[p]
    BY <2>2, NoneIsNothing
  <2> HIDE DEF services, next
  <2>5. LET y == [x EXCEPT !.services = services, !.next = next] IN
        /\ Sound(y) /\ \A q \in S!Upper(path) : S!Exists(y, q)
        /\ \A p \in Paths : S!Exists(x, p) => S!Exists(y, p)
    BY <2>1, <2>3, <2>4, WorldBuilt
  <2>6. QED
    BY <1>2, <2>5
<1> HIDE DEF built
<1>4. /\ Sound(watched)
      /\ \A p \in Paths : S!Exists(watched, p) <=> S!Exists(built, p)
  BY <1>3, WatchSound
<1>5. S!Exists(watched, path) /\ S!Exists(watched, S!Root)
  BY <1>3, <1>4, PathsHaveUpper
<1> HIDE DEF watched
<1>6. ASSUME ~kept PROVE Sound(left) /\ S!Exists(left, S!Root)
  <2>1. path # S!Root
    BY <1>6 DEF SvcTyping
  <2>2. left = S!Delete(watched, path)
    BY <2>1
  <2>3. path \notin S!Upper(S!Root) /\ S!Root \in Paths
    BY <2>1, PathsHaveUpper
  <2>4. QED
    BY <1>4, <1>5, <2>2, <2>3, DeleteSound
<1> HIDE DEF kept, left
<1>7. QED
  BY <1>1, <1>4, <1>5, <1>6

\* What is got and opened.
LEMMA AskedSound ==
    ASSUME S!ServiceAssumption, SvcInv, up, NEW path \in Paths
    PROVE  LET got == S!Get(held, path)
               o == S!Opened(got, path)
           IN  Sound(o) /\ S!Exists(o, S!Root) /\ (got.found => S!Exists(o, path))
<1> DEFINE got == S!Get(held, path)
           o == S!Opened(got, path)
<1>1. /\ Sound(got.world) /\ S!Exists(got.world, S!Root)
      /\ got.found => S!Exists(got.world, path)
  BY GetSound DEF SvcInv
<1> HIDE DEF got
<1>2. CASE got.found
  <2>1. o = S!Open(got.world, path)
    BY <1>2 DEF S!Opened
  <2>2. Sound(o) /\ o.services = got.world.services
    BY <1>1, <1>2, <2>1, OpenSound
  <2>3. QED
    BY <1>1, <1>2, <2>2 DEF S!Exists, got
<1>3. CASE ~got.found
  <2>1. o = got.world
    BY <1>3 DEF S!Opened
  <2>2. QED
    BY <1>1, <1>3, <2>1 DEF got
<1>4. QED
  BY <1>2, <1>3

-----------------------------------------------------------------------------
(* The steps *)

LEMMA StepOfSound ==
    ASSUME S!ServiceAssumption, SvcInv, SvcTyping', up' = up, Sound(held'),
           S!Exists(held, S!Root) => S!Exists(held', S!Root), up
    PROVE  SvcInv'
BY DEF SvcInv

LEMMA ServicesSame == ASSUME S!ServiceAssumption, SvcInv, UNCHANGED S!vars PROVE SvcInv'
BY DEF SvcInv, SvcTyping, S!vars, S!diskVars

LEMMA ServicesDisk ==
    ASSUME S!ServiceAssumption, SvcInv, S!ChangeFile \/ S!MakeFolder \/ S!RemoveFolder
    PROVE  SvcInv'
<1>1. S!Root \in Paths /\ S!Upper(S!Root) = {S!Root}
  BY PathsHaveUpper
<1>2. CASE S!ChangeFile
  <2>1. held' = held /\ up' = up /\ folders' = folders /\ scripts' \in [Paths -> {0} \cup Versions]
    BY <1>2 DEF S!ChangeFile, S!Change, SvcInv, SvcTyping
  <2>2. QED
    BY <2>1 DEF SvcInv, SvcTyping
<1>3. CASE S!MakeFolder
  <2>1. held' = held /\ up' = up /\ scripts' = scripts /\ S!Root \in folders' /\ folders' \subseteq Paths
    BY <1>3 DEF S!MakeFolder, S!Change, SvcInv, SvcTyping
  <2>2. QED
    BY <2>1 DEF SvcInv, SvcTyping
<1>4. CASE S!RemoveFolder
  <2>1. PICK p \in folders \ {S!Root} :
             /\ folders' = folders \ S!Below(p)
             /\ scripts' = [q \in Paths |-> IF q \in S!Below(p) THEN 0 ELSE scripts[q]]
    BY <1>4 DEF S!RemoveFolder
  <2>2. held' = held /\ up' = up
    BY <1>4 DEF S!RemoveFolder, S!Change
  <2>3. S!Root \notin S!Below(p)
    BY <1>1, <2>1 DEF S!Below
  <2>4. S!Root \in folders' /\ folders' \subseteq Paths
    BY <2>1, <2>3 DEF SvcInv, SvcTyping
  <2>5. scripts' \in [Paths -> {0} \cup Versions]
    <3>1. scripts \in [Paths -> {0} \cup Versions]
      BY DEF SvcInv, SvcTyping
    <3>2. QED
      BY <2>1, <3>1
  <2>6. QED
    BY <2>2, <2>4, <2>5 DEF SvcInv, SvcTyping
<1>5. QED
  BY <1>2, <1>3, <1>4

LEMMA ServicesStart == ASSUME S!ServiceAssumption, SvcInv, S!Start PROVE SvcInv'
<1> DEFINE services == [held.services EXCEPT ![S!Root] = S!NewService(held.next)]
           next == held.next + 1
           built == [held EXCEPT !.services = services, !.next = next]
<1>1. ~up /\ up' = TRUE /\ held' = S!Watch(built, S!Root) /\ UNCHANGED S!diskVars
  BY DEF S!Start
<1>2. Sound(held) /\ ~S!Exists(held, S!Root) /\ S!Root \in Paths /\ S!Upper(S!Root) = {S!Root}
  BY <1>1, PathsHaveUpper DEF SvcInv
<1>3. Sound(built) /\ S!Exists(built, S!Root)
  <2>1. held.next \in Nat /\ held.services \in [Paths -> ServiceRecord \cup {S!None}]
    BY <1>2 DEF Sound, World
  <2>2. S!NewService(held.next) \in ServiceRecord /\ S!NewService(held.next).seen = 0
        /\ S!NewService(held.next).loaded = FALSE
    BY <2>1 DEF S!NewService, ServiceRecord
  <2>3. services \in [Paths -> ServiceRecord \cup {S!None}] /\ next \in Nat
    BY <1>2, <2>1, <2>2
  <2>4. \A p \in Paths : IF p \in S!Upper(S!Root) /\ ~S!Exists(held, p)
                         THEN services[p] # S!None /\ services[p].seen = 0 /\ services[p].loaded = FALSE
                         ELSE services[p] = held.services[p]
    BY <1>2, <2>1, <2>2, NoneIsNothing
  <2> HIDE DEF services, next
  <2>5. LET y == [held EXCEPT !.services = services, !.next = next] IN
        /\ Sound(y) /\ \A q \in S!Upper(S!Root) : S!Exists(y, q)
        /\ \A p \in Paths : S!Exists(held, p) => S!Exists(y, p)
    BY <1>2, <2>3, <2>4, WorldBuilt
  <2>6. QED
    BY <1>2, <2>5
<1> HIDE DEF built
<1>4. SvcTyping
  BY DEF SvcInv
<1>5. Sound(held') /\ S!Exists(held', S!Root)
  BY <1>1, <1>2, <1>3, <1>4, WatchSound
<1>6. SvcTyping'
  BY <1>1, <1>4 DEF SvcTyping, S!diskVars
<1>7. QED
  BY <1>1, <1>5, <1>6 DEF SvcInv

LEMMA ServicesStop == ASSUME S!ServiceAssumption, SvcInv, S!Stop PROVE SvcInv'
<1> DEFINE left == S!Delete(held, S!Root)
<1>1. up' = FALSE /\ held' = [left EXCEPT !.linked = FALSE, !.told = {}] /\ UNCHANGED S!diskVars
  BY DEF S!Stop
<1>2. Sound(held) /\ S!Root \in Paths /\ \A p \in Paths : S!Root \in S!Upper(p)
  BY PathsHaveUpper DEF SvcInv
<1>3. Sound(left) /\ \A p \in Paths : ~S!Exists(left, p)
  BY <1>2, DeleteSound
<1> HIDE DEF left
<1>4. left \in World
  BY <1>3 DEF Sound
<1>5. /\ held' \in World /\ held'.services = left.services /\ held'.envs = left.envs /\ held'.running = left.running
      /\ held'.clients = left.clients /\ held'.linked = FALSE
      /\ held'.skipped = left.skipped /\ held'.strayed = left.strayed
  BY <1>1, <1>4 DEF World
<1>6. \A p \in Paths : S!Exists(held', p) <=> S!Exists(left, p)
  BY <1>5 DEF S!Exists
<1>7. Sound(held')
  <2>1. \A c \in Clients : held'.clients[c] # S!None => held'.clients[c].id = 0 \/ S!IsAlive(left, held'.clients[c])
    BY <1>3, <1>5 DEF Sound
  <2> DEFINE y == held'
  <2>2. /\ y \in World /\ y.envs = left.envs /\ y.running = left.running
        /\ y.skipped = left.skipped /\ y.strayed = left.strayed
        /\ \A p \in Paths : S!Exists(y, p) <=> S!Exists(left, p)
        /\ \A p \in Paths : S!Exists(left, p) =>
               /\ y.services[p].id = left.services[p].id /\ y.services[p].seen = left.services[p].seen
               /\ y.services[p].loaded = left.services[p].loaded /\ y.services[p].error = left.services[p].error
        /\ y.linked => \A p \in Paths : Runs(left, p) => p \in y.told
        /\ \A c \in Clients : y.clients[c] # S!None => y.clients[c].id = 0 \/ S!IsAlive(left, y.clients[c])
    BY <1>5, <1>6, <2>1
  <2> HIDE DEF y
  <2>3. Sound(y)
    BY <1>3, <2>2, WorldKept DEF Sound
  <2>4. QED
    BY <2>3 DEF y
<1>8. SvcTyping'
  BY <1>1 DEF SvcInv, SvcTyping, S!diskVars
<1>9. QED
  BY <1>1, <1>3, <1>6, <1>7, <1>8 DEF SvcInv

LEMMA ServicesElapse == ASSUME S!ServiceAssumption, SvcInv, S!Elapse PROVE SvcInv'
<1> DEFINE services == [p \in Paths |-> IF held.services[p] = S!None THEN S!None
                                        ELSE [held.services[p] EXCEPT !.recent = FALSE]]
           y == held'
<1>1. y = [held EXCEPT !.services = services] /\ UNCHANGED <<S!diskVars, up>>
  BY DEF S!Elapse
<1>2. Sound(held) /\ held \in World /\ held.services \in [Paths -> ServiceRecord \cup {S!None}]
  BY DEF SvcInv, Sound, World
<1>3. ASSUME NEW p \in Paths, held.services[p] # S!None
      PROVE  /\ services[p] \in ServiceRecord
             /\ services[p].id = held.services[p].id /\ services[p].seen = held.services[p].seen
             /\ services[p].loaded = held.services[p].loaded /\ services[p].error = held.services[p].error
  <2>1. held.services[p] \in ServiceRecord /\ services[p] = [held.services[p] EXCEPT !.recent = FALSE]
    BY <1>2, <1>3
  <2>2. QED
    BY <2>1 DEF ServiceRecord
<1>4. \A p \in Paths : held.services[p] = S!None => services[p] = S!None
  OBVIOUS
<1>5. services \in [Paths -> ServiceRecord \cup {S!None}]
  <2>1. \A p \in Paths : services[p] \in ServiceRecord \cup {S!None}
    BY <1>3, <1>4
  <2>2. QED
    BY <2>1
<1> HIDE DEF services, y
<1>6. /\ y \in World /\ y.services = services /\ y.envs = held.envs /\ y.running = held.running
      /\ y.clients = held.clients /\ y.linked = held.linked /\ y.told = held.told
      /\ y.skipped = held.skipped /\ y.strayed = held.strayed
  BY <1>1, <1>2, <1>5 DEF World
<1>7. \A p \in Paths : S!Exists(y, p) <=> S!Exists(held, p)
  BY <1>3, <1>4, <1>6, NoneIsNothing DEF S!Exists
<1>8. Sound(y)
  <2>1. \A p \in Paths : S!Exists(held, p) =>
               /\ y.services[p].id = held.services[p].id /\ y.services[p].seen = held.services[p].seen
               /\ y.services[p].loaded = held.services[p].loaded /\ y.services[p].error = held.services[p].error
    BY <1>3, <1>6 DEF S!Exists
  <2>2. /\ y.linked => \A p \in Paths : Runs(held, p) => p \in y.told
        /\ \A c \in Clients : y.clients[c] # S!None => y.clients[c].id = 0 \/ S!IsAlive(held, y.clients[c])
    BY <1>2, <1>6 DEF Sound
  <2>3. QED
    BY <1>2, <1>6, <1>7, <2>1, <2>2, WorldKept DEF Sound
<1>9. SvcTyping' /\ up' = up
  BY <1>1 DEF SvcInv, SvcTyping, S!diskVars
<1>10. S!Root \in Paths
  BY PathsHaveUpper
<1>11. QED
  BY <1>7, <1>8, <1>9, <1>10 DEF SvcInv, y

LEMMA ServicesManage == ASSUME S!ServiceAssumption, SvcInv, S!Manage PROVE SvcInv'
<1> DEFINE x == S!Watch(held, S!Root)
<1>1. up /\ up' = up /\ held' = S!Open(x, S!Root) /\ UNCHANGED S!diskVars
  BY DEF S!Manage
<1>2. SvcTyping /\ Sound(held) /\ S!Exists(held, S!Root) /\ S!Root \in Paths
  BY <1>1, PathsHaveUpper DEF SvcInv
<1>3. Sound(x) /\ S!Exists(x, S!Root)
  BY <1>2, WatchSound
<1> HIDE DEF x
<1>4. Sound(held') /\ held'.services = x.services
  BY <1>1, <1>2, <1>3, OpenSound
<1>5. SvcTyping'
  BY <1>1, <1>2 DEF SvcTyping, S!diskVars
<1>6. QED
  BY <1>1, <1>3, <1>4, <1>5 DEF SvcInv, S!Exists

LEMMA ServicesAsk == ASSUME S!ServiceAssumption, SvcInv, S!Ask \/ S!AskChild PROVE SvcInv'
<1>1. up /\ up' = up /\ UNCHANGED S!diskVars
  BY DEF S!Ask, S!AskChild
<1>2. SvcTyping'
  BY <1>1 DEF SvcInv, SvcTyping, S!diskVars
<1>3. ASSUME NEW p \in Paths, held' = S!Opened(S!Get(held, p), p) PROVE SvcInv'
  <2>1. Sound(held') /\ S!Exists(held', S!Root)
    BY <1>1, <1>3, AskedSound
  <2>2. QED
    BY <1>1, <1>2, <2>1 DEF SvcInv
\* The service that an environment names is gone only if it was one below.
<1>4. ASSUME NEW p \in Paths, Has(held, p), ~S!IsAlive(held, held.envs[p].by),
             held' = [held EXCEPT !.strayed = TRUE]
      PROVE  SvcInv'
  <2>1. Sound(held) /\ held \in World
    BY DEF SvcInv, Sound
  <2>2. held.skipped
    <3>1. Owned(held, p)
      BY <1>4, <2>1 DEF Sound
    <3>2. held.envs[p].by = S!Ref(held, p) => S!IsAlive(held, held.envs[p].by)
      BY <3>1 DEF Owned, S!IsAlive, S!Ref
    <3>3. QED
      BY <1>4, <3>1, <3>2 DEF Owned
  <2> DEFINE y == held'
  <2>3. /\ y \in World /\ y.services = held.services /\ y.envs = held.envs /\ y.running = held.running
        /\ y.clients = held.clients /\ y.linked = held.linked /\ y.told = held.told
        /\ y.skipped = held.skipped
    BY <1>4, <2>1 DEF World
  <2> HIDE DEF y
  <2>4. \A q \in Paths : S!Exists(y, q) <=> S!Exists(held, q)
    BY <2>3 DEF S!Exists
  <2>5. Sound(y)
    <3>1. /\ y.linked => \A q \in Paths : Runs(held, q) => q \in y.told
          /\ \A c \in Clients : y.clients[c] # S!None => y.clients[c].id = 0 \/ S!IsAlive(held, y.clients[c])
      BY <2>1, <2>3 DEF Sound
    <3>2. QED
      BY <2>1, <2>2, <2>3, <2>4, <3>1, WorldKept
  <2>6. S!Root \in Paths
    BY PathsHaveUpper
  <2>7. QED
    BY <1>1, <1>2, <2>4, <2>5, <2>6 DEF SvcInv, y
<1>5. CASE S!Ask
  BY <1>3, <1>5 DEF S!Ask
<1>6. CASE S!AskChild
  <2>1. PICK p \in Paths \ {S!Root} :
            LET env == held.envs[S!Parent(p)]
                path == Append(env.by.path, p[Len(p)])
            IN  /\ env # S!None
                /\ IF S!IsAlive(held, env.by) THEN path \in Paths /\ held' = S!Opened(S!Get(held, path), path)
                   ELSE held' = [held EXCEPT !.strayed = TRUE]
    BY <1>6 DEF S!AskChild
  <2>2. S!Parent(p) \in Paths
    BY <2>1, ParentIsAbove
  <2>3. QED
    BY <1>3, <1>4, <2>1, <2>2 DEF Has
<1>7. QED
  BY <1>5, <1>6

LEMMA ServicesConnect == ASSUME S!ServiceAssumption, SvcInv, S!Connect PROVE SvcInv'
<1>1. up /\ up' = up /\ UNCHANGED S!diskVars
  BY DEF S!Connect
<1>2. PICK c \in Clients, p \in Paths, accepts \in BOOLEAN :
          LET got == S!Get(held, p)
              opened == S!Opened(got, p)
          IN  held' = IF got.found /\ accepts /\ ~opened.services[p].error
                      THEN [opened EXCEPT !.clients[c] = S!Ref(opened, p)] ELSE opened
  BY DEF S!Connect
<1> DEFINE got == S!Get(held, p)
           o == S!Opened(got, p)
<1>3. held' = o \/ (got.found /\ held' = [o EXCEPT !.clients = [o.clients EXCEPT ![c] = S!Ref(o, p)]])
  BY <1>2
<1>5. Sound(o) /\ S!Exists(o, S!Root) /\ (got.found => S!Exists(o, p))
  BY <1>1, AskedSound
<1> HIDE DEF o, got
<1>6. Sound(held') /\ S!Exists(held', S!Root)
  <2>1. CASE held' = o
    BY <1>5, <2>1
  <2>2. CASE got.found /\ held' = [o EXCEPT !.clients = [o.clients EXCEPT ![c] = S!Ref(o, p)]]
    <3> DEFINE y == held'
               clients == [o.clients EXCEPT ![c] = S!Ref(o, p)]
    <3>1. o \in World /\ S!Exists(o, p) /\ o.clients \in [Clients -> ServiceRef \cup {S!None}]
      BY <1>5, <2>2 DEF Sound, World
    <3>2. S!Ref(o, p) \in ServiceRef /\ S!IsAlive(o, S!Ref(o, p))
      BY <3>1 DEF S!Ref, S!IsAlive, S!Exists, World, ServiceRef, ServiceRecord
    <3>3. clients \in [Clients -> ServiceRef \cup {S!None}]
      BY <3>1, <3>2
    <3>4. \A d \in Clients : clients[d] # S!None => clients[d].id = 0 \/ S!IsAlive(o, clients[d])
      <4>1. \A d \in Clients : clients[d] = S!Ref(o, p) \/ clients[d] = o.clients[d]
        BY <3>1
      <4>2. QED
        BY <1>5, <3>2, <4>1 DEF Sound
    <3>5. y = [o EXCEPT !.clients = clients]
      BY <2>2
    <3> HIDE DEF y, clients
    <3>6. /\ y \in World /\ y.services = o.services /\ y.envs = o.envs /\ y.running = o.running
          /\ y.clients = clients /\ y.linked = o.linked /\ y.told = o.told
          /\ y.skipped = o.skipped /\ y.strayed = o.strayed
      BY <3>1, <3>3, <3>5 DEF World
    <3>7. \A q \in Paths : S!Exists(y, q) <=> S!Exists(o, q)
      BY <3>6 DEF S!Exists
    <3>8. y.linked => \A q \in Paths : Runs(o, q) => q \in y.told
      BY <1>5, <3>6 DEF Sound
    <3>9. \A d \in Clients : y.clients[d] # S!None => y.clients[d].id = 0 \/ S!IsAlive(o, y.clients[d])
      BY <3>4, <3>6
    <3>10. \A q \in Paths : S!Exists(o, q) =>
               /\ y.services[q].id = o.services[q].id /\ y.services[q].seen = o.services[q].seen
               /\ y.services[q].loaded = o.services[q].loaded /\ y.services[q].error = o.services[q].error
      BY <3>6
    <3>11. Sound(y)
      BY <1>5, <3>6, <3>7, <3>8, <3>9, <3>10, WorldKept DEF Sound
    <3>12. S!Root \in Paths
      BY PathsHaveUpper
    <3>13. QED
      BY <1>5, <3>7, <3>11, <3>12 DEF y
  <2>3. QED
    BY <1>3, <2>1, <2>2
<1>7. SvcTyping'
  BY <1>1 DEF SvcInv, SvcTyping, S!diskVars
<1>8. QED
  BY <1>1, <1>6, <1>7 DEF SvcInv

\* A client whose service has not expired has it opened.
LEMMA ClientOpens ==
    ASSUME S!ServiceAssumption, SvcInv, NEW c \in Clients, held.clients[c] # S!None, ~S!Expired(c)
    PROVE  LET y == S!Open(held, held.clients[c].path) IN
           Sound(y) /\ y.services = held.services /\ y.clients = held.clients
<1> DEFINE path == held.clients[c].path
<1>1. path \in Paths /\ S!Exists(held, path) /\ Sound(held)
  BY DEF SvcInv, Sound, World, ServiceRef, S!Expired, S!IsAlive
<1> HIDE DEF path
<1>2. LET y == S!Open(held, path) IN Sound(y) /\ y.services = held.services /\ y.clients = held.clients
  BY <1>1, OpenSound
<1>3. QED
  BY <1>2 DEF path

LEMMA ServicesClientCalls == ASSUME S!ServiceAssumption, SvcInv, S!ClientCalls PROVE SvcInv'
<1>1. PICK c \in Clients : held.clients[c] # S!None /\ ~S!Expired(c) /\ held' = S!Open(held, held.clients[c].path)
  BY DEF S!ClientCalls
<1>2. UNCHANGED <<S!diskVars, up>>
  BY DEF S!ClientCalls
<1>3. Sound(held') /\ held'.services = held.services
  BY <1>1, ClientOpens
<1>4. SvcTyping'
  BY <1>2 DEF SvcInv, SvcTyping, S!diskVars
<1>5. QED
  BY <1>2, <1>3, <1>4 DEF SvcInv, S!Exists

LEMMA ServicesDisconnect == ASSUME S!ServiceAssumption, SvcInv, S!Disconnect PROVE SvcInv'
<1>1. PICK c \in Clients :
          /\ held.clients[c] # S!None
          /\ held' = [IF S!Expired(c) THEN held ELSE S!Open(held, held.clients[c].path) EXCEPT !.clients[c] = S!None]
  BY DEF S!Disconnect
<1>2. UNCHANGED <<S!diskVars, up>>
  BY DEF S!Disconnect
<1> DEFINE x == IF S!Expired(c) THEN held ELSE S!Open(held, held.clients[c].path)
           y == held'
           clients == [x.clients EXCEPT ![c] = S!None]
<1>3. Sound(x) /\ x.services = held.services
  BY <1>1, ClientOpens DEF SvcInv
<1>4. y = [x EXCEPT !.clients = clients]
  BY <1>1
<1> HIDE DEF x
<1>5. x \in World /\ x.clients \in [Clients -> ServiceRef \cup {S!None}]
  BY <1>3 DEF Sound, World
<1>6. clients \in [Clients -> ServiceRef \cup {S!None}] /\ \A d \in Clients : clients[d] = S!None \/ clients[d] = x.clients[d]
  BY <1>5
<1> HIDE DEF y, clients
<1>7. /\ y \in World /\ y.services = x.services /\ y.envs = x.envs /\ y.running = x.running
      /\ y.clients = clients /\ y.linked = x.linked /\ y.told = x.told
      /\ y.skipped = x.skipped /\ y.strayed = x.strayed
  BY <1>4, <1>5, <1>6 DEF World
<1>8. \A q \in Paths : S!Exists(y, q) <=> S!Exists(x, q)
  BY <1>7 DEF S!Exists
<1>9. /\ y.linked => \A q \in Paths : Runs(x, q) => q \in y.told
      /\ \A d \in Clients : y.clients[d] # S!None => y.clients[d].id = 0 \/ S!IsAlive(x, y.clients[d])
  BY <1>3, <1>6, <1>7 DEF Sound
<1>10. \A q \in Paths : S!Exists(x, q) =>
           /\ y.services[q].id = x.services[q].id /\ y.services[q].seen = x.services[q].seen
           /\ y.services[q].loaded = x.services[q].loaded /\ y.services[q].error = x.services[q].error
  BY <1>7
<1>11. Sound(y)
  BY <1>3, <1>7, <1>8, <1>9, <1>10, WorldKept DEF Sound
<1>12. SvcTyping'
  BY <1>2 DEF SvcInv, SvcTyping, S!diskVars
<1>13. \A q \in Paths : S!Exists(held', q) <=> S!Exists(held, q)
  BY <1>3, <1>7 DEF S!Exists, y
<1>14. S!Root \in Paths
  BY PathsHaveUpper
<1>15. QED
  BY <1>2, <1>11, <1>12, <1>13, <1>14 DEF SvcInv, y

LEMMA ServicesLink == ASSUME S!ServiceAssumption, SvcInv, S!Link \/ S!Unlink PROVE SvcInv'
<1> DEFINE linked == ~held.linked
           told == IF linked THEN {r.path : r \in held.running} ELSE {}
           x == [held EXCEPT !.linked = linked, !.told = told]
<1>1. up /\ up' = up /\ held' = S!Open(x, S!Root) /\ UNCHANGED S!diskVars
  <2>1. CASE S!Link
    BY <2>1 DEF S!Link
  <2>2. CASE S!Unlink
    BY <2>2 DEF S!Unlink
  <2>3. QED
    BY <2>1, <2>2
<1>2. Sound(held) /\ held \in World /\ S!Exists(held, S!Root) /\ S!Root \in Paths
  BY <1>1, PathsHaveUpper DEF SvcInv, Sound
<1>3. told \subseteq Paths /\ linked \in BOOLEAN
  BY <1>2 DEF World, ServiceRef
<1>4. ASSUME linked, NEW p \in Paths, Runs(held, p) PROVE p \in told
  <2>1. S!Ref(held, p) \in ServiceRef /\ S!Ref(held, p).path = p /\ S!Ref(held, p).id = held.services[p].id
    BY <1>2, <1>4 DEF S!Ref, Runs, S!Exists, World, ServiceRef, ServiceRecord
  <2>2. S!Ref(held, p) \in held.running
    BY <1>2, <1>4, <2>1 DEF Sound
  <2>3. QED
    BY <1>4, <2>1, <2>2
<1> HIDE DEF linked, told, x
<1>5. x = [held EXCEPT !.linked = linked, !.told = told]
  BY DEF x
<1>6. /\ x \in World /\ x.services = held.services /\ x.envs = held.envs /\ x.running = held.running
      /\ x.clients = held.clients /\ x.linked = linked /\ x.told = told
      /\ x.skipped = held.skipped /\ x.strayed = held.strayed
  BY <1>2, <1>3, <1>5 DEF World
<1>7. \A q \in Paths : S!Exists(x, q) <=> S!Exists(held, q)
  BY <1>6 DEF S!Exists
<1>8. /\ x.linked => \A q \in Paths : Runs(held, q) => q \in x.told
      /\ \A d \in Clients : x.clients[d] # S!None => x.clients[d].id = 0 \/ S!IsAlive(held, x.clients[d])
  BY <1>2, <1>4, <1>6 DEF Sound
<1>9. \A q \in Paths : S!Exists(held, q) =>
          /\ x.services[q].id = held.services[q].id /\ x.services[q].seen = held.services[q].seen
          /\ x.services[q].loaded = held.services[q].loaded /\ x.services[q].error = held.services[q].error
  BY <1>6
<1>10. Sound(x) /\ S!Exists(x, S!Root)
  BY <1>2, <1>6, <1>7, <1>8, <1>9, WorldKept DEF Sound
<1>12. Sound(held') /\ held'.services = x.services
  BY <1>1, <1>2, <1>10, OpenSound
<1>13. SvcTyping'
  BY <1>1 DEF SvcInv, SvcTyping, S!diskVars
<1>14. QED
  BY <1>1, <1>10, <1>12, <1>13 DEF SvcInv, S!Exists

LEMMA ServicesNext == ASSUME S!ServiceAssumption, SvcInv, [S!Next]_S!vars PROVE SvcInv'
<1>1. CASE UNCHANGED S!vars
  BY <1>1, ServicesSame
<1>2. CASE S!ChangeFile \/ S!MakeFolder \/ S!RemoveFolder
  BY <1>2, ServicesDisk
<1>3. CASE S!Start
  BY <1>3, ServicesStart
<1>4. CASE S!Stop
  BY <1>4, ServicesStop
<1>5. CASE S!Elapse
  BY <1>5, ServicesElapse
<1>6. CASE S!Manage
  BY <1>6, ServicesManage
<1>7. CASE S!Ask \/ S!AskChild
  BY <1>7, ServicesAsk
<1>8. CASE S!Connect
  BY <1>8, ServicesConnect
<1>9. CASE S!ClientCalls
  BY <1>9, ServicesClientCalls
<1>10. CASE S!Disconnect
  BY <1>10, ServicesDisconnect
<1>11. CASE S!Link \/ S!Unlink
  BY <1>11, ServicesLink
<1>12. QED
  BY <1>1, <1>2, <1>3, <1>4, <1>5, <1>6, <1>7, <1>8, <1>9, <1>10, <1>11 DEF S!Next

\* The inductive invariant of the services.
LEMMA ServicesInv == ASSUME S!ServiceAssumption PROVE S!Spec => []SvcInv
<1>1. S!Init => SvcInv
  BY ServicesInit
<1>2. SvcInv /\ [S!Next]_S!vars => SvcInv'
  BY ServicesNext
<1>3. QED
  BY <1>1, <1>2, PTL DEF S!Spec

\* Folders, files and services are what they are declared to be (Service.cpp), for
\* every tree of folders.
THEOREM ServicesTypeCorrect == ASSUME S!ServiceAssumption PROVE S!Spec => []S!TypeOK
<1>1. SvcInv => S!TypeOK
  BY WorldSound
<1>2. QED
  BY <1>1, ServicesInv, PTL

\* The services that the application counts as running are those that loaded their
\* file and still exist; what a client has exists or is known to have expired; an
\* environment that its own service made names it as long as it lives, and scripts are
\* answered by a service that was deleted only if one was opened before those above it.
THEOREM ServicesCorrect == ASSUME S!ServiceAssumption PROVE S!Spec => []S!ServicesSound
<1>1. SvcInv => S!ServicesSound
  BY WorldSound
<1>2. QED
  BY <1>1, ServicesInv, PTL
===============================================================================
