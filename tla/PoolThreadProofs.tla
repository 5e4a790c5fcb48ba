--------------------------- MODULE PoolThreadProofs ---------------------------
(***************************************************************************)
(* For any number of callers, pushes and joins, whatever waits run out and *)
(* whatever threads cannot be created: jobs run in order and once, none is *)
(* left to a thread that is about to end, and join returns when the jobs   *)
(* pushed before it have run.                                              *)
(*                                                                         *)
(* The properties are inductive with the discipline of the three mutexes:  *)
(* who is where holds what (Locks), and a caller about to append a job     *)
(* faces a thread that will still look at the queue (Awaited).             *)
(***************************************************************************)
EXTENDS PoolThread, TLAPS, SequenceTheorems

HoldsMutex == {"startLocked", "startJoining", "stopLocked", "stopSignal", "stopJoining"}

HoldsJobs == {"started", "refused", "starting", "startLocked", "startJoining"}

\* The thread is alive and will look at the queue before it stops.
Attentive == {"sleep", "waiting", "awake", "working", "worked"}

\* A caller at one of these places holds the mutex, and only there.
Locks ==
    /\ \A c \in Callers : waiter[c] \in HoldsMutex <=> mutex = c
    /\ \A c \in Callers : waiter[c] \in HoldsJobs <=> jobsMutex = c
    /\ worker = "stopping" <=> jobsMutex = "worker"

\* A job about to be appended has a thread for it.
Awaited == \A c \in Callers : waiter[c] = "started" => worker \in Attentive

\* The job that runs is in the queue.
HeadStays == worker \in {"working", "worked"} => jobs # <<>>

DueAccepted == \A c \in Callers : due[c] <= Len(accepted)

Control == Locks /\ Awaited /\ HeadStays /\ RunningIsAlive /\ NoJobStranded

History == RunInOrder /\ DueAccepted /\ JoinWaits

IInv == TypeOK /\ Control /\ History

-----------------------------------------------------------------------------
\* A job appended to the queue is appended to what the queue is the end of.
LEMMA AppendConcat ==
    ASSUME NEW s \in Seq(Nat), NEW t \in Seq(Nat), NEW e \in Nat
    PROVE  Append(s \o t, e) = s \o Append(t, e)
<1> DEFINE last == <<e>>
<1>1. last \in Seq(Nat) /\ s \o t \in Seq(Nat)
  BY ConcatProperties
<1>2. Append(t, e) = t \o last /\ Append(s \o t, e) = (s \o t) \o last
  BY <1>1, AppendIsConcat
<1> HIDE DEF last
<1>3. (s \o t) \o last = s \o (t \o last)
  BY <1>1, ConcatAssociative
<1>4. QED
  BY <1>2, <1>3

\* A job that moves from the head of the queue to the end of what ran.
LEMMA HeadMoves ==
    ASSUME NEW s \in Seq(Nat), NEW t \in Seq(Nat), t # <<>>
    PROVE  Append(s, Head(t)) \o Tail(t) = s \o t
<1> DEFINE first == <<Head(t)>>
           rest == Tail(t)
<1>1. Head(t) \in Nat /\ rest \in Seq(Nat)
  BY HeadTailProperties
<1>2. first \in Seq(Nat) /\ rest \in Seq(Nat)
  BY <1>1
<1>3. t = first \o rest
  BY <1>1
<1>4. Append(s, Head(t)) = s \o first
  BY <1>1, AppendIsConcat
<1> HIDE DEF first, rest
<1>5. (s \o first) \o rest = s \o (first \o rest)
  BY <1>2, ConcatAssociative
<1>6. QED
  BY <1>3, <1>4, <1>5 DEF rest

\* Every step keeps the types.
LEMMA TypeStep ==
    ASSUME TypeOK, Control, [Next]_vars
    PROVE  TypeOK'
<1> USE DEF TypeOK, StartableTypeOK, Places, Alive
<1>1. CASE UNCHANGED vars
  BY <1>1 DEF vars, startableVars, poolVars
<1>2. ASSUME NEW c \in Pushers, Push(c) PROVE TypeOK'
  BY <1>2, PoolAssumption DEF Push
<1>3. ASSUME NEW c \in Joiners, Join(c) PROVE TypeOK'
  BY <1>3, PoolAssumption DEF Join
<1>4. ASSUME NEW c \in Callers, PushEnter(c) PROVE TypeOK'
  BY <1>4 DEF PushEnter
<1>5. ASSUME NEW c \in Callers, PushAccepted(c) PROVE TypeOK'
  BY <1>5 DEF PushAccepted
<1>6. ASSUME NEW c \in Callers, PushRefused(c) PROVE TypeOK'
  BY <1>6 DEF PushRefused
<1>7. ASSUME NEW c \in Callers, JoinReturns(c) PROVE TypeOK'
  BY <1>7 DEF JoinReturns, startableVars, poolVars
<1>8. ASSUME NEW c \in Callers, StartEnter(c), UNCHANGED poolVars PROVE TypeOK'
  BY <1>8 DEF StartEnter, poolVars
<1>9. ASSUME NEW c \in Callers, StartLockStop(c), UNCHANGED poolVars PROVE TypeOK'
  BY <1>9 DEF StartLockStop, poolVars
<1>10. ASSUME NEW c \in Callers, StartThread(c), UNCHANGED poolVars PROVE TypeOK'
  BY <1>10 DEF StartThread, poolVars, Joinable
<1>11. ASSUME NEW c \in Callers, StartFails(c), UNCHANGED poolVars PROVE TypeOK'
  BY <1>11 DEF StartFails, poolVars, Joinable
<1>12. ASSUME NEW c \in Callers, StopEnter(c), UNCHANGED poolVars PROVE TypeOK'
  BY <1>12 DEF StopEnter, poolVars
<1>13. ASSUME NEW c \in Callers, StopCheck(c), UNCHANGED poolVars PROVE TypeOK'
  BY <1>13 DEF StopCheck, poolVars
<1>14. ASSUME NEW c \in Callers, StopSignal(c), UNCHANGED poolVars PROVE TypeOK'
  BY <1>14 DEF StopSignal, poolVars
<1>15. ASSUME NEW c \in Callers, StopJoined(c), UNCHANGED poolVars PROVE TypeOK'
  BY <1>15 DEF StopJoined, poolVars, Joinable
<1>16. CASE Take
  BY <1>16 DEF Take
<1>17. CASE Work
  <2>1. Head(jobs) \in Nat
    BY <1>17, HeadTailProperties DEF Work, Control, HeadStays, TypeOK
  <2>2. QED
    BY <1>17, <2>1 DEF Work, TypeOK, StartableTypeOK, Places, Alive
<1>18. CASE Pop
  <2>1. jobs # <<>> /\ Tail(jobs) \in Seq(Nat)
    BY <1>18, HeadTailProperties DEF Pop, Control, HeadStays, TypeOK
  <2>2. QED
    BY <1>18, <2>1 DEF Pop, TypeOK, StartableTypeOK, Places, Alive
<1>19. CASE Leave
  BY <1>19 DEF Leave, SelfStop
<1>20. CASE Sleep /\ UNCHANGED poolVars
  BY <1>20 DEF Sleep, poolVars
<1>21. CASE WakeUp /\ UNCHANGED poolVars
  BY <1>21 DEF WakeUp, poolVars
<1>22. CASE TimeOut /\ UNCHANGED poolVars
  BY <1>22 DEF TimeOut, poolVars
<1>23. CASE ThreadEnds /\ UNCHANGED poolVars
  BY <1>23 DEF ThreadEnds, poolVars
<1>24. QED
  BY <1>1, <1>2, <1>3, <1>4, <1>5, <1>6, <1>7, <1>8, <1>9, <1>10,
     <1>11, <1>12, <1>13, <1>14, <1>15, <1>16, <1>17, <1>18, <1>19, <1>20, <1>21,
     <1>22, <1>23 DEF Next, CallStep, WorkerStep

\* Every step keeps the discipline of the mutexes and of the queue's thread.
LEMMA ControlStep ==
    ASSUME TypeOK, Control, [Next]_vars
    PROVE  Control'
<1> USE CallersAssumption
    DEF Control, Locks, Awaited, HeadStays, RunningIsAlive, NoJobStranded,
        HoldsMutex, HoldsJobs, Attentive, TypeOK, StartableTypeOK, Places, Alive
<1>1. CASE UNCHANGED vars
  BY <1>1 DEF vars, startableVars, poolVars
<1>2. ASSUME NEW c \in Pushers, Push(c) PROVE Control'
  BY <1>2, PoolAssumption DEF Push
<1>3. ASSUME NEW c \in Joiners, Join(c) PROVE Control'
  BY <1>3, PoolAssumption DEF Join
<1>4. ASSUME NEW c \in Callers, PushEnter(c) PROVE Control'
  BY <1>4 DEF PushEnter
<1>5. ASSUME NEW c \in Callers, PushAccepted(c) PROVE Control'
  <2>1. worker' \in Attentive /\ jobs' # <<>>
    <3>1. waiter[c] = "started" /\ UNCHANGED worker
      BY <1>5 DEF PushAccepted
    <3>2. worker \in Attentive
      BY <3>1
    <3>3. jobs \in Seq(Nat) /\ Len(accepted) + 1 \in Nat
      BY LenProperties
    <3>4. jobs' = Append(jobs, Len(accepted) + 1)
      BY <1>5 DEF PushAccepted
    <3>5. jobs' # <<>>
      BY <3>3, <3>4, AppendProperties
    <3>6. QED
      BY <3>1, <3>2, <3>5
  <2>2. (HeadStays /\ RunningIsAlive /\ NoJobStranded /\ Awaited)'
    BY <1>5, <2>1 DEF PushAccepted
  <2>3. Locks'
    BY <1>5 DEF PushAccepted
  <2>4. QED
    BY <2>2, <2>3
<1>6. ASSUME NEW c \in Callers, PushRefused(c) PROVE Control'
  BY <1>6 DEF PushRefused
<1>7. ASSUME NEW c \in Callers, JoinReturns(c) PROVE Control'
  BY <1>7 DEF JoinReturns, startableVars, poolVars
<1>8. ASSUME NEW c \in Callers, StartEnter(c), UNCHANGED poolVars PROVE Control'
  BY <1>8 DEF StartEnter, poolVars
<1>9. ASSUME NEW c \in Callers, StartLockStop(c), UNCHANGED poolVars PROVE Control'
  BY <1>9 DEF StartLockStop, poolVars
<1>10. ASSUME NEW c \in Callers, StartThread(c), UNCHANGED poolVars PROVE Control'
  BY <1>10 DEF StartThread, poolVars, Joinable
<1>11. ASSUME NEW c \in Callers, StartFails(c), UNCHANGED poolVars PROVE Control'
  BY <1>11 DEF StartFails, poolVars, Joinable
<1>12. ASSUME NEW c \in Callers, StopEnter(c), UNCHANGED poolVars PROVE Control'
  BY <1>12 DEF StopEnter, poolVars
<1>13. ASSUME NEW c \in Callers, StopCheck(c), UNCHANGED poolVars PROVE Control'
  BY <1>13 DEF StopCheck, poolVars
<1>14. ASSUME NEW c \in Callers, StopSignal(c), UNCHANGED poolVars PROVE Control'
  BY <1>14 DEF StopSignal, poolVars
<1>15. ASSUME NEW c \in Callers, StopJoined(c), UNCHANGED poolVars PROVE Control'
  BY <1>15 DEF StopJoined, poolVars, Joinable
<1>16. CASE Take
  BY <1>16 DEF Take
<1>17. CASE Work
  BY <1>17 DEF Work
<1>18. CASE Pop
  BY <1>18 DEF Pop
<1>19. CASE Leave
  BY <1>19 DEF Leave, SelfStop
<1>20. CASE Sleep /\ UNCHANGED poolVars
  BY <1>20 DEF Sleep, poolVars
<1>21. CASE WakeUp /\ UNCHANGED poolVars
  BY <1>21 DEF WakeUp, poolVars
<1>22. CASE TimeOut /\ UNCHANGED poolVars
  BY <1>22 DEF TimeOut, poolVars
<1>23. CASE ThreadEnds /\ UNCHANGED poolVars
  BY <1>23 DEF ThreadEnds, poolVars
<1>24. QED
  BY <1>1, <1>2, <1>3, <1>4, <1>5, <1>6, <1>7, <1>8, <1>9, <1>10,
     <1>11, <1>12, <1>13, <1>14, <1>15, <1>16, <1>17, <1>18, <1>19, <1>20, <1>21,
     <1>22, <1>23 DEF Next, CallStep, WorkerStep

\* Every step keeps the order of the jobs and what joins are owed.
LEMMA HistoryStep ==
    ASSUME TypeOK, Control, History, [Next]_vars
    PROVE  History'
<1> DEFINE Quiet ==
        /\ UNCHANGED <<accepted, ran, jobs, due>>
        /\ worker' = "worked" <=> worker = "worked"
        /\ \A c \in Callers : waiter'[c] = "returned" => waiter[c] = "returned"
<1>1. Quiet => History'
  BY DEF History, RunInOrder, DueAccepted, JoinWaits
<1>2. CASE UNCHANGED vars
  BY <1>1, <1>2 DEF vars, startableVars, poolVars
<1>3. ASSUME NEW c \in Pushers, Push(c) PROVE History'
  BY <1>1, <1>3, PoolAssumption DEF Push, TypeOK, StartableTypeOK
<1>4. ASSUME NEW c \in Joiners, Join(c) PROVE History'
  BY <1>4, PoolAssumption
  DEF Join, History, RunInOrder, DueAccepted, JoinWaits, TypeOK, StartableTypeOK
<1>5. ASSUME NEW c \in Callers, PushAccepted(c) PROVE History'
  <2> DEFINE job == Len(accepted) + 1
  <2>1. job \in Nat
    BY DEF TypeOK
  <2>2. ASSUME worker = "worked" PROVE RunInOrder'
    <3>1. jobs # <<>> /\ Tail(jobs) \in Seq(Nat)
      BY <2>2, HeadTailProperties DEF Control, HeadStays, TypeOK
    <3>2. Tail(Append(jobs, job)) = Append(Tail(jobs), job)
      BY <2>1, <3>1, HeadTailAppend DEF TypeOK
    <3>3. Append(accepted, job) = ran \o Append(Tail(jobs), job)
      BY <2>1, <2>2, <3>1, AppendConcat DEF History, RunInOrder, TypeOK
    <3>4. QED
      BY <1>5, <2>2, <3>2, <3>3 DEF PushAccepted, RunInOrder
  <2>3. ASSUME worker # "worked" PROVE RunInOrder'
    <3>1. Append(accepted, job) = ran \o Append(jobs, job)
      BY <2>1, <2>3, AppendConcat DEF History, RunInOrder, TypeOK
    <3>2. QED
      BY <1>5, <2>3, <3>1 DEF PushAccepted, RunInOrder
  <2>4. RunInOrder'
    BY <2>2, <2>3
  <2>5. Len(accepted') = Len(accepted) + 1
    BY <1>5 DEF PushAccepted, TypeOK
  <2>6. \A d \in Callers : due[d] \in Nat
    BY DEF TypeOK
  <2>7. (DueAccepted /\ JoinWaits)'
    BY <1>5, <2>5, <2>6
    DEF PushAccepted, History, DueAccepted, JoinWaits, TypeOK,
        StartableTypeOK, Places
  <2>8. QED
    BY <2>4, <2>7 DEF History
<1>6. ASSUME NEW c \in Callers, PushEnter(c) PROVE History'
  BY <1>1, <1>6 DEF PushEnter, TypeOK, StartableTypeOK
<1>7. ASSUME NEW c \in Callers, PushRefused(c) PROVE History'
  BY <1>1, <1>7 DEF PushRefused, TypeOK, StartableTypeOK
<1>8. ASSUME NEW c \in Callers, JoinReturns(c) PROVE History'
  BY <1>1, <1>8 DEF JoinReturns, startableVars, poolVars, TypeOK, StartableTypeOK
<1>9. ASSUME NEW c \in Callers, UNCHANGED poolVars,
            StartEnter(c) \/ StartLockStop(c) \/ StopEnter(c) \/ StopCheck(c)
            \/ StopSignal(c)
     PROVE  History'
  BY <1>1, <1>9
  DEF StartEnter, StartLockStop, StopEnter, StopCheck, StopSignal, poolVars,
      TypeOK, StartableTypeOK
<1>10. ASSUME NEW c \in Callers, UNCHANGED poolVars,
            StartThread(c) \/ StartFails(c)
     PROVE  History'
  BY <1>1, <1>10
  DEF StartThread, StartFails, Joinable, Alive, poolVars, TypeOK, StartableTypeOK
<1>11. ASSUME NEW c \in Callers, StopJoined(c), UNCHANGED poolVars PROVE History'
  <2>1. worker \notin Alive
    BY <1>11 DEF StopJoined, Joinable
  <2>2. jobs = <<>> /\ accepted = ran
    BY <2>1 DEF Control, NoJobStranded, History, RunInOrder, Alive, TypeOK
  <2>3. RunInOrder'
    BY <1>11, <2>2 DEF StopJoined, poolVars, RunInOrder, TypeOK
  <2>4. (DueAccepted /\ JoinWaits)'
    BY <1>11, <2>2 DEF StopJoined, poolVars, History, DueAccepted, JoinWaits, TypeOK
  <2>5. QED
    BY <2>3, <2>4 DEF History
<1>12. CASE Take
  BY <1>1, <1>12 DEF Take
<1>13. CASE Work
  <2>1. jobs # <<>> /\ accepted = ran \o jobs
    BY <1>13 DEF Work, Control, HeadStays, History, RunInOrder
  <2>2. RunInOrder'
    BY <1>13, <2>1, HeadMoves DEF Work, RunInOrder, TypeOK
  <2>3. Len(ran') = Len(ran) + 1
    BY <1>13, <2>1 DEF Work, TypeOK
  <2>4. \A d \in Callers : due[d] \in Nat
    BY DEF TypeOK
  <2>5. QED
    BY <1>13, <2>2, <2>3, <2>4 DEF Work, History, DueAccepted, JoinWaits, TypeOK
<1>14. CASE Pop
  BY <1>14 DEF Pop, History, RunInOrder, DueAccepted, JoinWaits
<1>15. CASE Leave
  BY <1>1, <1>15 DEF Leave, SelfStop
<1>16. CASE (Sleep \/ WakeUp \/ TimeOut \/ ThreadEnds) /\ UNCHANGED poolVars
  BY <1>1, <1>16 DEF Sleep, WakeUp, TimeOut, ThreadEnds, poolVars
<1>17. QED
  BY <1>2, <1>3, <1>4, <1>5, <1>6, <1>7, <1>8, <1>9, <1>10, <1>11, <1>12, <1>13,
     <1>14, <1>15, <1>16 DEF Next, CallStep, WorkerStep

-----------------------------------------------------------------------------
\* The invariant holds in the initial state.
LEMMA InitInvariant == Init => IInv
<1> SUFFICES ASSUME Init PROVE IInv
  OBVIOUS
<1>1. TypeOK
  <2>1. StartableTypeOK
    BY DEF Init, StartableInit, StartableTypeOK, Places
  <2>2. QED
    BY <2>1 DEF Init, TypeOK
<1>2. Control
  BY CallersAssumption
  DEF Init, StartableInit, Control, Locks, Awaited, HeadStays, RunningIsAlive,
      NoJobStranded, HoldsMutex, HoldsJobs
<1>3. RunInOrder
  BY DEF Init, StartableInit, RunInOrder
<1>4. DueAccepted /\ JoinWaits
  BY DEF Init, StartableInit, DueAccepted, JoinWaits
<1>5. QED
  BY <1>1, <1>2, <1>3, <1>4 DEF IInv, History

\* The invariant holds for ever.
THEOREM Invariant == Spec => []IInv
<1>1. IInv /\ [Next]_vars => IInv'
  BY TypeStep, ControlStep, HistoryStep DEF IInv
<1>2. QED
  BY InitInvariant, <1>1, PTL DEF Spec

\* Jobs run in the order of the pushes, each once, for any number of threads.
THEOREM RunInOrderCorrect == Spec => []RunInOrder
<1>1. IInv => RunInOrder
  BY DEF IInv, History
<1>2. QED
  BY Invariant, <1>1, PTL

\* No job is left in the queue of a thread that is about to end or has ended.
THEOREM NoJobStrandedCorrect == Spec => []NoJobStranded
<1>1. IInv => NoJobStranded
  BY DEF IInv, Control
<1>2. QED
  BY Invariant, <1>1, PTL

\* When join returns, every job pushed before it was called has run.
THEOREM JoinWaitsCorrect == Spec => []JoinWaits
<1>1. IInv => JoinWaits
  BY DEF IInv, History
<1>2. QED
  BY Invariant, <1>1, PTL

\* For any number of threads no job is lost, repeated, overtaken or left behind,
\* and join waits for those pushed before it.
THEOREM JobsKeptCorrect == Spec => []JobsKept
<1>1. IInv => JobsKept
  BY DEF IInv, Control, History, JobsKept
<1>2. QED
  BY Invariant, <1>1, PTL

\* Every variable of the pool's thread keeps its type.
THEOREM TypeCorrect == Spec => []TypeOK
<1>1. IInv => TypeOK
  BY DEF IInv
<1>2. QED
  BY Invariant, <1>1, PTL
=============================================================================
