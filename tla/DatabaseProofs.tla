---------------------------- MODULE DatabaseProofs ----------------------------
(***************************************************************************)
(* What TLAPS proves of the database, for any paths and any number of      *)
(* calls: the file system is what the calls say since the last load, with  *)
(* files that cannot be removed, errors and crashes, and entries are       *)
(* stranded only by an error.                                              *)
(***************************************************************************)
EXTENDS Database, TLAPS

Busy == {"remove", "create", "open", "write", "pop"}

\* The queue is the calls that are not done, in their order.
Ordered ==
    /\ done \in Nat /\ done + Len(queue) = Len(calls) /\ Len(calls) <= MaxCalls
    /\ \A i \in DOMAIN calls : calls[i].call = i
    /\ \A i \in DOMAIN queue : queue[i] = calls[done + i]

\* How far the thread is with the first entry of the queue.
Progress ==
    /\ thread \in Busy => queue # <<>>
    /\ thread \in {"create", "open", "write"} => ~Current.toRemove
    /\ thread \in {"create", "open", "write", "pop"} =>
          \A x \in disk : (Whole(x) /\ x[1] \in Below(Current.path)) =>
             x[2] = Current.call \/ <<Current.call, x[2]>> \in spared
    /\ thread = "write" => File(Current) \in disk
    /\ thread = "pop" => \/ Current.toRemove \/ Current.call \in lost
                         \/ File(Current) \in disk /\ Current.call \notin torn

\* A file holds the value of a call, in the directory of its path.
Stored == \A x \in disk : x[2] # 0 => x[2] \in 1 .. Len(calls) /\ calls[x[2]].path = x[1]

\* A thread about to end, or that ended, is not waited for by entries unless it failed.
Running ==
    /\ thread \in {"none", "leaving"} => stopping /\ (queue # <<>> => failed)
    /\ process = "down" => thread = "none" /\ queue = <<>>

IInv == TypeOK /\ Ordered /\ Progress /\ Stored /\ Running /\ DiskIsDone

-----------------------------------------------------------------------------
\* The entry that the thread does is the call after those that are done.
LEMMA CurrentCall ==
    ASSUME IInv, queue # <<>>
    PROVE  /\ Current \in Entry /\ Current = queue[1] /\ Current = calls[done + 1]
           /\ Current.call = done + 1 /\ done + 1 \in DOMAIN calls /\ done + 1 \in 1 .. MaxCalls
           /\ Current.path \in Paths /\ Current.toRemove \in BOOLEAN
<1>1. /\ queue \in Seq(Entry) /\ calls \in Seq(Entry) /\ done \in Nat
      /\ done + Len(queue) = Len(calls) /\ Len(calls) <= MaxCalls
  BY DEF IInv, TypeOK, Ordered
<1>2. Len(queue) \in Nat /\ Len(queue) > 0 /\ DOMAIN queue = 1 .. Len(queue) /\ Current = queue[1]
      /\ Len(calls) \in Nat /\ DOMAIN calls = 1 .. Len(calls) /\ Current \in Entry
  BY <1>1 DEF Current
<1>3. done + 1 \in DOMAIN calls /\ done + 1 \in 1 .. Len(calls) /\ 1 \in DOMAIN queue
  BY <1>1, <1>2
<1>4. Current = calls[done + 1] /\ Current.call = done + 1
  BY <1>2, <1>3 DEF IInv, Ordered
<1>5. Current.path \in Paths /\ Current.toRemove \in BOOLEAN /\ Current.call \in 1 .. MaxCalls
  BY <1>2 DEF Entry
<1>6. QED
  BY <1>2, <1>3, <1>4, <1>5

\* The calls that are done, and those that wait in the queue.
LEMMA CallDone ==
    ASSUME IInv
    PROVE  /\ done \in Nat /\ Len(queue) \in Nat /\ Len(calls) \in Nat /\ done + Len(queue) = Len(calls)
           /\ DOMAIN calls = 1 .. Len(calls) /\ DOMAIN queue = 1 .. Len(queue)
           /\ \A i \in 1 .. done : i \in 1 .. Len(calls) /\ calls[i].path \in Places
<1>1. /\ queue \in Seq(Entry) /\ calls \in Seq(Entry) /\ done \in Nat
      /\ done + Len(queue) = Len(calls)
  BY DEF IInv, TypeOK, Ordered
<1>2. Len(queue) \in Nat /\ Len(calls) \in Nat /\ DOMAIN calls = 1 .. Len(calls) /\ DOMAIN queue = 1 .. Len(queue)
  BY <1>1
<1>3. ASSUME NEW i \in 1 .. done PROVE i \in 1 .. Len(calls) /\ calls[i].path \in Places
  <2>1. i \in 1 .. Len(calls)
    BY <1>1, <1>2
  <2>2. calls[i] \in Entry
    BY <1>1, <2>1
  <2>3. QED
    BY <2>1, <2>2 DEF Entry, Places
<1>4. QED
  BY <1>1, <1>2, <1>3

\* Paths and what is under them.
LEMMA PathsBelow ==
    ASSUME DatabaseAssumption, NEW p \in Places
    PROVE  p \in Below(p) /\ Below(p) \subseteq Places /\ p \notin Under[p] /\ Under[p] \subseteq Below(p)
BY DEF DatabaseAssumption, Places, Below

\* What a step leaves as it is when it touches neither the entries nor the files.
LEMMA ControlOnly ==
    ASSUME IInv, UNCHANGED <<queue, disk, torn, calls, done, lost, spared, since>>
    PROVE  Ordered' /\ Stored' /\ DiskIsDone'
<1>1. Ordered'
  BY DEF IInv, Ordered
<1>2. Stored'
  BY DEF IInv, Stored
<1>3. DiskIsDone'
  BY DEF IInv, DiskIsDone, NothingBack, NothingMissing, Whole, Concerns, Below, File
<1>4. QED
  BY <1>1, <1>2, <1>3

LEMMA InitSound == ASSUME DatabaseAssumption PROVE Init => IInv
<1> SUFFICES ASSUME Init PROVE IInv
  OBVIOUS
<1>1. /\ queue = <<>> /\ calls = <<>> /\ done = 0 /\ lost = {} /\ thread = "none" /\ stopping = TRUE
      /\ disk = {<<Root, 0>>} /\ torn = {} /\ resisting = {} /\ process = "up" /\ spared = {} /\ since = 0
      /\ wakeUpType = "STOP" /\ signal = FALSE /\ flushing = FALSE /\ failed = FALSE
  BY DEF Init, Directory
<1>2. <<>> \in Seq(Entry) /\ Len(<<>>) = 0 /\ DOMAIN <<>> = {}
  OBVIOUS
<1>3. MaxCalls \in Nat /\ 0 \in 0 .. MaxCalls /\ Root \in Places
  BY DEF DatabaseAssumption, Places
<1>4. TypeOK
  <2>1. disk \subseteq Items
    BY <1>1, <1>3 DEF Items
  <2>2. Len(calls) = 0 /\ done \in 0 .. Len(calls) /\ since \in 0 .. done
    BY <1>1, <1>2
  <2>3. QED
    BY <1>1, <1>2, <2>1, <2>2 DEF TypeOK
<1>5. Ordered
  BY <1>1, <1>2, <1>3 DEF Ordered
<1>6. Progress /\ Running
  BY <1>1 DEF Progress, Running, Busy
<1>7. Stored
  BY <1>1 DEF Stored
<1>8. DiskIsDone
  <2>1. \A x \in disk : ~Whole(x)
    BY <1>1 DEF Whole
  <2>2. since + 1 .. done = {}
    BY <1>1
  <2>3. QED
    BY <2>1, <2>2 DEF DiskIsDone, NothingBack, NothingMissing
<1>9. QED
  BY <1>4, <1>5, <1>6, <1>7, <1>8 DEF IInv

-----------------------------------------------------------------------------
(* The server's thread                                                     *)

\* add and remove.
LEMMA QueueSound ==
    ASSUME DatabaseAssumption, IInv, NEW p \in Paths, NEW toRemove \in BOOLEAN, Queue(p, toRemove)
    PROVE  IInv'
<1> DEFINE entry == [path |-> p, toRemove |-> toRemove, call |-> Len(calls) + 1]
<1>1. /\ process = "up" /\ Len(calls) < MaxCalls /\ (stopping => thread = "none")
      /\ queue' = Append(queue, entry) /\ calls' = Append(calls, entry)
      /\ thread' = IF stopping THEN "sleep" ELSE thread
      /\ stopping' = FALSE /\ signal' = TRUE /\ failed' = FALSE
      /\ UNCHANGED <<process, wakeUpType, flushing, disk, torn, resisting, done, lost, spared, since>>
  BY DEF Queue, Free, fileSystem
<1>2. /\ queue \in Seq(Entry) /\ calls \in Seq(Entry) /\ done \in Nat
      /\ done + Len(queue) = Len(calls) /\ Len(calls) \in Nat /\ Len(queue) \in Nat
      /\ MaxCalls \in Nat
  BY DEF IInv, TypeOK, Ordered, DatabaseAssumption
<1>3. entry \in Entry /\ entry.call = Len(calls) + 1
  BY <1>1, <1>2 DEF Entry
<1> HIDE DEF entry
<1>4. /\ queue' \in Seq(Entry) /\ calls' \in Seq(Entry)
      /\ Len(queue') = Len(queue) + 1 /\ Len(calls') = Len(calls) + 1
      /\ DOMAIN queue' = 1 .. Len(queue) + 1 /\ DOMAIN calls' = 1 .. Len(calls) + 1
      /\ \A i \in 1 .. Len(queue) : queue'[i] = queue[i]
      /\ \A i \in 1 .. Len(calls) : calls'[i] = calls[i]
      /\ queue'[Len(queue) + 1] = entry /\ calls'[Len(calls) + 1] = entry
      /\ queue' # <<>>
  BY <1>1, <1>2, <1>3
<1>5. TypeOK'
  <2>1. lost' \subseteq DOMAIN calls' /\ done' \in 0 .. Len(calls')
    BY <1>1, <1>2, <1>4 DEF IInv, TypeOK
  <2>2. QED
    BY <1>1, <1>4, <2>1 DEF IInv, TypeOK, Alive
<1>6. Ordered'
  <2>1. done' \in Nat /\ done' + Len(queue') = Len(calls') /\ Len(calls') <= MaxCalls
    <3>1. done + (Len(queue) + 1) = Len(calls) + 1 /\ Len(calls) + 1 <= MaxCalls
      BY <1>1, <1>2
    <3>2. QED
      BY <1>1, <1>2, <1>4, <3>1
  <2>2. \A i \in DOMAIN calls' : calls'[i].call = i
    <3> SUFFICES ASSUME NEW i \in DOMAIN calls' PROVE calls'[i].call = i
      OBVIOUS
    <3>1. CASE i \in 1 .. Len(calls)
      BY <1>2, <1>4, <3>1 DEF IInv, Ordered
    <3>2. CASE i = Len(calls) + 1
      BY <1>3, <1>4, <3>2
    <3>3. QED
      BY <1>2, <1>4, <3>1, <3>2
  <2>3. \A i \in DOMAIN queue' : queue'[i] = calls'[done' + i]
    <3> SUFFICES ASSUME NEW i \in DOMAIN queue' PROVE queue'[i] = calls'[done + i]
      BY <1>1
    <3>1. CASE i \in 1 .. Len(queue)
      <4>1. done + i \in 1 .. Len(calls)
        BY <1>2, <3>1
      <4>2. queue[i] = calls[done + i]
        BY <1>2, <3>1 DEF IInv, Ordered
      <4>3. QED
        BY <1>4, <3>1, <4>1, <4>2
    <3>2. CASE i = Len(queue) + 1
      <4>1. done + i = Len(calls) + 1
        BY <1>2, <3>2
      <4>2. QED
        BY <1>4, <3>2, <4>1
    <3>3. QED
      BY <1>2, <1>4, <3>1, <3>2
  <2>4. QED
    BY <2>1, <2>2, <2>3 DEF Ordered
<1>7. Progress'
  <2>1. CASE thread' \in Busy
    <3>1. thread' = thread /\ queue # <<>>
      BY <1>1, <2>1 DEF IInv, Progress, Busy
    <3>2. Current' = Current
      <4>1. Current = queue[1] /\ 1 \in 1 .. Len(queue)
        BY <1>2, <3>1 DEF Current
      <4>2. Current' = queue'[1]
        BY <1>4 DEF Current
      <4>3. QED
        BY <1>4, <4>1, <4>2
    <3>3. QED
      BY <1>1, <1>4, <3>1, <3>2 DEF IInv, Progress, Below, Busy, Whole, File
  <2>2. CASE thread' \notin Busy
    BY <2>2 DEF Progress, Busy
  <2>3. QED
    BY <2>1, <2>2
<1>8. Stored'
  BY <1>1, <1>2, <1>4 DEF IInv, Stored
<1>9. Running'
  BY <1>1 DEF IInv, Running
<1>10. NothingBack'
  <2> SUFFICES ASSUME NEW x \in disk, Whole(x)
               PROVE  /\ calls'[x[2]].path = x[1] /\ ~calls'[x[2]].toRemove /\ x[2] <= done + 1
                      /\ \A j \in x[2] + 1 .. done : Concerns(j, x[1])' => j \in lost \/ <<j, x[2]>> \in spared
    BY <1>1 DEF NothingBack, Whole
  <2>1. x[2] \in 1 .. Len(calls) /\ calls'[x[2]] = calls[x[2]]
    BY <1>4 DEF IInv, Stored, Whole
  <2>2. /\ calls[x[2]].path = x[1] /\ ~calls[x[2]].toRemove /\ x[2] <= done + 1
        /\ \A j \in x[2] + 1 .. done : Concerns(j, x[1]) => j \in lost \/ <<j, x[2]>> \in spared
    BY DEF IInv, DiskIsDone, NothingBack
  <2>3. \A j \in x[2] + 1 .. done : Concerns(j, x[1])' => Concerns(j, x[1])
    BY <1>2, <1>4, <2>1 DEF Concerns, Below
  <2>4. QED
    BY <2>1, <2>2, <2>3
<1>11. NothingMissing'
  <2> SUFFICES ASSUME NEW i \in since + 1 .. done, ~calls'[i].toRemove, i \notin lost,
                      \A j \in i + 1 .. Len(calls') : j <= done + 1 => ~Concerns(j, calls[i].path)'
               PROVE  File(calls'[i]) \in disk /\ i \notin torn
    BY <1>1 DEF NothingMissing, File
  <2>1. i \in 1 .. Len(calls) /\ calls'[i] = calls[i]
    BY <1>2, <1>4 DEF IInv, TypeOK
  <2>2. ASSUME NEW j \in i + 1 .. Len(calls), j <= done + 1 PROVE ~Concerns(j, calls[i].path)
    <3>1. j \in i + 1 .. Len(calls') /\ j \in 1 .. Len(calls) /\ calls'[j] = calls[j]
      BY <1>2, <1>4, <2>1
    <3>2. QED
      BY <2>1, <2>2, <3>1 DEF Concerns, Below
  <2>3. QED
    BY <2>1, <2>2 DEF IInv, DiskIsDone, NothingMissing
<1>12. QED
  BY <1>5, <1>6, <1>7, <1>8, <1>9, <1>10, <1>11 DEF IInv, DiskIsDone

\* flush, which waits for the end of the thread.
LEMMA FlushSound ==
    ASSUME IInv, FlushEnter \/ FlushReturns
    PROVE  IInv'
<1>1. /\ UNCHANGED <<process, queue, thread, wakeUpType, disk, torn, resisting, calls, done, failed, lost, spared, since>>
      /\ stopping' \in BOOLEAN /\ signal' \in BOOLEAN /\ flushing' \in BOOLEAN
      /\ stopping => stopping'
  <2>1. {stopping, signal, flushing} \subseteq BOOLEAN
    BY DEF IInv, TypeOK
  <2>2. CASE FlushEnter
    BY <2>1, <2>2 DEF FlushEnter, fileSystem, history
  <2>3. CASE FlushReturns
    BY <2>1, <2>3 DEF FlushReturns, fileSystem, history
  <2>4. QED
    BY <2>2, <2>3
<1>2. TypeOK'
  BY <1>1 DEF IInv, TypeOK
<1>3. Progress'
  BY <1>1 DEF IInv, Progress, Current, Below, Whole, File
<1>4. Running'
  BY <1>1 DEF IInv, Running
<1>5. QED
  BY <1>1, <1>2, <1>3, <1>4, ControlOnly DEF IInv

-----------------------------------------------------------------------------
(* The database's thread                                                   *)

\* Sleep, the look at the queue, and the end: nothing is done.
LEMMA IdleSound ==
    ASSUME IInv, SleepEnds \/ Look \/ ThreadEnds
    PROVE  IInv'
<1>1. /\ UNCHANGED <<process, queue, disk, torn, resisting, calls, done, failed, lost, spared, since, flushing>>
      /\ thread' \in {"look", "leaving", "sleep", "remove", "none"}
      /\ thread' = "remove" => queue # <<>>
      /\ thread' \in {"none", "leaving"} => stopping' /\ (queue # <<>> => failed)
      /\ thread \notin {"none"} /\ process = "up"
      /\ wakeUpType' \in {"WAKEUP", "TIMEOUT", "STOP"} /\ stopping' \in BOOLEAN /\ signal' \in BOOLEAN
  <2>1. {stopping, signal, flushing} \subseteq BOOLEAN /\ wakeUpType \in {"WAKEUP", "TIMEOUT", "STOP"}
        /\ process \in {"up", "down"}
    BY DEF IInv, TypeOK
  <2>2. CASE SleepEnds
    BY <2>1, <2>2 DEF SleepEnds, Moves, fileSystem, history, IInv, Running
  <2>3. CASE Look
    BY <2>1, <2>3 DEF Look, Moves, fileSystem, history, IInv, Running
  <2>4. CASE ThreadEnds
    BY <2>1, <2>4 DEF ThreadEnds, Moves, fileSystem, history, IInv, Running
  <2>5. QED
    BY <2>2, <2>3, <2>4
<1>2. TypeOK'
  <2>1. thread' \in Alive \cup {"none"}
    BY <1>1 DEF Alive
  <2>2. QED
    BY <1>1, <2>1 DEF IInv, TypeOK
<1>3. Progress'
  BY <1>1 DEF Progress, Busy
<1>4. Running'
  BY <1>1 DEF Running
<1>5. QED
  BY <1>1, <1>2, <1>3, <1>4, ControlOnly DEF IInv

\* A step of the thread on the file system, before the entry goes: what is right of the
\* file system remains, when a file that goes is the entry's to remove, and one that
\* comes is the entry's own.
LEMMA DiskChanged ==
    ASSUME DatabaseAssumption, IInv, queue # <<>>,
           UNCHANGED <<queue, calls, done, since>>, lost \subseteq lost', spared \subseteq spared',
           \A x \in disk : x \in disk' \/ x[1] \in Below(Current.path),
           \A x \in disk' : x \in disk \/ x[2] = 0 \/ x = File(Current),
           \A x \in disk' : Whole(x)' => (x \in disk /\ Whole(x)) \/ (x = File(Current) /\ ~Current.toRemove),
           \A c \in torn' : c \in torn \/ c = Current.call
    PROVE  Ordered' /\ Stored' /\ DiskIsDone'
<1>1. /\ Current = calls[done + 1] /\ Current.call = done + 1 /\ done + 1 \in 1 .. Len(calls)
      /\ done \in Nat /\ Len(calls) \in Nat /\ since \in 0 .. done
  BY CurrentCall, CallDone DEF IInv, TypeOK
<1>2. Ordered'
  BY DEF IInv, Ordered
<1>3. Stored'
  <2> SUFFICES ASSUME NEW x \in disk', x[2] # 0 PROVE x[2] \in 1 .. Len(calls) /\ calls[x[2]].path = x[1]
    BY DEF Stored
  <2>1. CASE x \in disk
    BY <2>1 DEF IInv, Stored
  <2>2. CASE x = File(Current)
    BY <1>1, <2>2 DEF File
  <2>3. QED
    BY <2>1, <2>2
<1>4. NothingBack'
  <2> SUFFICES ASSUME NEW x \in disk', Whole(x)'
               PROVE  /\ calls[x[2]].path = x[1] /\ ~calls[x[2]].toRemove /\ x[2] <= done + 1
                      /\ \A j \in x[2] + 1 .. done : Concerns(j, x[1]) => j \in lost' \/ <<j, x[2]>> \in spared'
    BY DEF NothingBack, Concerns, Below
  <2>1. CASE x \in disk /\ Whole(x)
    BY <2>1 DEF IInv, DiskIsDone, NothingBack
  <2>2. CASE x = File(Current) /\ ~Current.toRemove
    <3>1. x[2] = done + 1 /\ x[1] = Current.path
      BY <1>1, <2>2 DEF File
    <3>2. x[2] + 1 .. done = {}
      BY <1>1, <3>1
    <3>3. QED
      BY <1>1, <2>2, <3>1, <3>2
  <2>3. QED
    BY <2>1, <2>2
<1>5. NothingMissing'
  <2> SUFFICES ASSUME NEW i \in since + 1 .. done, ~calls[i].toRemove, i \notin lost',
                      \A j \in i + 1 .. Len(calls) : j <= done + 1 => ~Concerns(j, calls[i].path)
               PROVE  File(calls[i]) \in disk' /\ i \notin torn'
    BY DEF NothingMissing, Concerns, Below, File
  <2>1. File(calls[i]) \in disk /\ i \notin torn
    BY DEF IInv, DiskIsDone, NothingMissing
  <2>2. done + 1 \in i + 1 .. Len(calls) /\ i # done + 1
    BY <1>1
  <2>3. ~Concerns(done + 1, calls[i].path)
    BY <1>1, <2>2
  <2>4. File(calls[i])[1] = calls[i].path
    BY DEF File
  <2>5. QED
    BY <1>1, <2>1, <2>2, <2>3, <2>4 DEF Concerns
<1>6. QED
  BY <1>2, <1>3, <1>4, <1>5 DEF DiskIsDone

\* RemoveAll takes away only what the entry concerns.
LEMMA RemoveOneSound ==
    ASSUME DatabaseAssumption, IInv, NEW x \in disk, RemoveOne(x)
    PROVE  IInv'
<1>1. /\ thread = "remove" /\ thread' = "remove" /\ queue # <<>> /\ x[1] \in Below(Current.path)
      /\ disk' \subseteq disk /\ \A y \in disk : y = x \/ y \in disk'
      /\ resisting' \subseteq resisting \cup {x}
      /\ UNCHANGED <<process, queue, wakeUpType, stopping, signal, flushing, torn,
                     calls, done, failed, lost, spared, since>>
  BY DEF RemoveOne, Moves, history, IInv, Progress, Busy
<1>2. TypeOK'
  BY <1>1 DEF IInv, TypeOK
<1>3. Progress' /\ Running'
  BY <1>1 DEF Progress, Busy, IInv, Running
<1>4. Ordered' /\ Stored' /\ DiskIsDone'
  <2>1. \A y \in disk' : y \in disk /\ (Whole(y)' => Whole(y))
    BY <1>1 DEF Whole
  <2>2. QED
    BY <1>1, <2>1, DiskChanged
<1>5. QED
  BY <1>2, <1>3, <1>4 DEF IInv

\* Then what is left of what the entry concerns has resisted.
LEMMA RemoveAllSound == ASSUME DatabaseAssumption, IInv, RemoveAll PROVE IInv'
<1>1. /\ thread = "remove" /\ queue # <<>> /\ AllTried /\ resisting' = {}
      /\ Current.toRemove => resisting = {} /\ thread' = "pop"
      /\ ~Current.toRemove => thread' = "create"
      /\ spared' = spared \cup {<<Current.call, y[2]>> : y \in {z \in resisting : z[2] # 0}}
      /\ UNCHANGED <<process, queue, wakeUpType, stopping, signal, flushing, disk, torn,
                     calls, done, failed, lost, since>>
  BY DEF RemoveAll, Moves, IInv, Progress, Busy
<1>2. /\ Current' = Current /\ Current.call \in 1 .. MaxCalls /\ Current.toRemove \in BOOLEAN
  BY <1>1, CurrentCall DEF Current
<1>3. spared \subseteq spared' /\ spared' \subseteq (1 .. MaxCalls) \X (1 .. MaxCalls)
  <2>1. MaxCalls \in Nat /\ \A y \in resisting : y[2] \in 0 .. MaxCalls
    BY DEF IInv, TypeOK, Items, DatabaseAssumption
  <2>2. \A y \in resisting : y[2] # 0 => y[2] \in 1 .. MaxCalls
    BY <2>1
  <2>3. QED
    BY <1>1, <1>2, <2>2 DEF IInv, TypeOK
<1>4. TypeOK'
  <2>1. thread' \in Alive \cup {"none"}
    BY <1>1, <1>2 DEF Alive
  <2>2. QED
    BY <1>1, <1>3, <2>1 DEF IInv, TypeOK
<1>5. ASSUME NEW x \in disk, Whole(x), x[1] \in Below(Current.path)
      PROVE  <<Current.call, x[2]>> \in spared' /\ ~Current.toRemove
  <2>1. x \in resisting /\ x[2] # 0
    BY <1>1, <1>5 DEF AllTried, Whole
  <2>2. QED
    BY <1>1, <2>1
<1>6. Progress'
  BY <1>1, <1>2, <1>5 DEF Progress, Busy, Below, Whole
<1>7. Running'
  BY <1>1, <1>2 DEF IInv, Running
<1>8. Ordered' /\ Stored' /\ DiskIsDone'
  <2>1. \A y \in disk' : y \in disk /\ (Whole(y)' => Whole(y))
    BY <1>1 DEF Whole
  <2>2. QED
    BY <1>1, <1>3, <2>1, DiskChanged
<1>9. QED
  BY <1>4, <1>6, <1>7, <1>8 DEF IInv

\* The directories of a value, and its file, which is torn until it is written.
LEMMA MadeSound == ASSUME DatabaseAssumption, IInv, CreateDirectories \/ OpenFile PROVE IInv'
<1>1. /\ thread \in {"create", "open"} /\ thread' \in {"open", "write"} /\ queue # <<>> /\ ~Current.toRemove
      /\ disk \subseteq disk' /\ \A x \in disk' : x \in disk \/ (x[2] = 0 /\ x \in Items) \/ x = File(Current)
      /\ thread' = "write" => File(Current) \in disk' /\ torn' = torn \cup {Current.call}
      /\ thread' = "open" => torn' = torn /\ \A x \in disk' : x \in disk \/ x[2] = 0
      /\ UNCHANGED <<process, queue, wakeUpType, stopping, signal, flushing, resisting,
                     calls, done, failed, lost, spared, since>>
  <2>1. \A q \in Places : Directory(q)[2] = 0 /\ Directory(q) \in Items
    BY DEF Directory, Items, DatabaseAssumption
  <2>2. CASE CreateDirectories
    BY <2>1, <2>2 DEF CreateDirectories, Moves, history, IInv, Progress, Busy
  <2>3. CASE OpenFile
    BY <2>3 DEF OpenFile, Moves, history, IInv, Progress, Busy
  <2>4. QED
    BY <2>2, <2>3
<1>2. /\ Current' = Current /\ Current.call \in 1 .. MaxCalls /\ Current.path \in Paths /\ MaxCalls \in Nat
  BY <1>1, CurrentCall DEF Current, DatabaseAssumption
<1>3. File(Current) \in Items /\ File(Current)[2] = Current.call
  BY <1>2 DEF File, Items, Places
<1>4. TypeOK'
  <2>1. thread' \in Alive \cup {"none"} /\ disk' \subseteq Items /\ torn' \subseteq 1 .. MaxCalls
    BY <1>1, <1>2, <1>3 DEF Alive, IInv, TypeOK
  <2>2. QED
    BY <1>1, <2>1 DEF IInv, TypeOK
<1>5. \A x \in disk' : Whole(x)' => x \in disk /\ Whole(x)
  BY <1>1, <1>3 DEF Whole
<1>6. Progress'
  BY <1>1, <1>2, <1>5 DEF Progress, Busy, Below, IInv, File
<1>7. Running'
  BY <1>1 DEF IInv, Running
<1>8. Ordered' /\ Stored' /\ DiskIsDone'
  BY <1>1, <1>5, DiskChanged
<1>9. QED
  BY <1>4, <1>6, <1>7, <1>8 DEF IInv

\* A value that is written is its call's, or lost.
LEMMA WriteSound ==
    ASSUME DatabaseAssumption, IInv, NEW short \in BOOLEAN, WriteFile(short)
    PROVE  IInv'
<1>1. /\ thread = "write" /\ thread' = "pop" /\ queue # <<>> /\ ~Current.toRemove /\ File(Current) \in disk
      /\ torn' = IF short THEN torn ELSE torn \ {Current.call}
      /\ lost' = IF short THEN lost \cup {Current.call} ELSE lost
      /\ UNCHANGED <<process, queue, wakeUpType, stopping, signal, flushing, disk, resisting,
                     calls, done, failed, spared, since>>
  BY DEF WriteFile, Moves, IInv, Progress, Busy
<1>2. /\ Current' = Current /\ Current.call \in DOMAIN calls /\ Current = calls[Current.call]
      /\ Current.call = done + 1 /\ done \in Nat
  BY <1>1, CurrentCall, CallDone DEF Current
<1>3. lost \subseteq lost' /\ lost' \subseteq DOMAIN calls /\ torn' \subseteq torn
      /\ (Current.call \in lost' \/ Current.call \notin torn')
  BY <1>1, <1>2 DEF IInv, TypeOK
<1>4. TypeOK'
  BY <1>1, <1>3 DEF IInv, TypeOK, Alive
<1>5. \A x \in disk : Whole(x)' => Whole(x) \/ x = File(Current)
  <2> SUFFICES ASSUME NEW x \in disk, Whole(x)', ~Whole(x) PROVE x = File(Current)
    OBVIOUS
  <2>1. x[2] = Current.call /\ x[2] # 0
    BY <1>1 DEF Whole
  <2>2. x[1] = Current.path
    BY <1>2, <2>1 DEF IInv, Stored
  <2>3. x = <<x[1], x[2]>>
    BY DEF IInv, TypeOK, Items
  <2>4. QED
    BY <2>1, <2>2, <2>3 DEF File
<1>6. Progress'
  <2>1. ASSUME NEW x \in disk, Whole(x)', x[1] \in Below(Current.path)
        PROVE  x[2] = Current.call \/ <<Current.call, x[2]>> \in spared
    <3>1. x = File(Current) => x[2] = Current.call
      BY DEF File
    <3>2. QED
      BY <1>1, <1>5, <2>1, <3>1 DEF IInv, Progress
  <2>2. QED
    BY <1>1, <1>2, <1>3, <2>1 DEF Progress, Busy, Below, File
<1>7. Running'
  BY <1>1 DEF IInv, Running
<1>8. Ordered' /\ Stored' /\ DiskIsDone'
  BY <1>1, <1>3, <1>5, DiskChanged
<1>9. QED
  BY <1>4, <1>6, <1>7, <1>8 DEF IInv

\* The first entry goes, done or lost.
LEMMA DoneSound ==
    ASSUME IInv, queue # <<>>, queue' = Tail(queue), done' = Current.call,
           UNCHANGED <<disk, torn, calls, spared, since>>, lost \subseteq lost',
           \/ Current.call \in lost'
           \/ \A x \in disk : (Whole(x) /\ x[1] \in Below(Current.path)) =>
                  x[2] = Current.call \/ <<Current.call, x[2]>> \in spared,
           Current.toRemove \/ Current.call \in lost' \/ (File(Current) \in disk /\ Current.call \notin torn)
    PROVE  queue' \in Seq(Entry) /\ done' \in 0 .. Len(calls') /\ since' \in 0 .. done' /\ Ordered' /\ DiskIsDone'
<1>1. /\ done \in Nat /\ Len(queue) \in Nat /\ Len(calls) \in Nat /\ done + Len(queue) = Len(calls)
      /\ DOMAIN calls = 1 .. Len(calls) /\ DOMAIN queue = 1 .. Len(queue)
  BY CallDone
<1>2. Current = calls[done + 1] /\ Current.call = done + 1 /\ done + 1 \in 1 .. Len(calls)
      /\ Current.path \in Paths
  BY <1>1, CurrentCall
<1>3. /\ queue' \in Seq(Entry) /\ Len(queue') = Len(queue) - 1 /\ DOMAIN queue' = 1 .. Len(queue')
      /\ \A i \in 1 .. Len(queue') : queue'[i] = queue[i + 1]
  <2>1. queue \in Seq(Entry)
    BY DEF IInv, TypeOK
  <2>2. QED
    BY <1>1, <2>1
<1>4. done' = done + 1 /\ done' \in Nat /\ done' \in 0 .. Len(calls') /\ since \in 0 .. done /\ since' \in 0 .. done'
  BY <1>1, <1>2 DEF IInv, TypeOK
<1>5. Ordered'
  <2>1. done' + Len(queue') = Len(calls')
    BY <1>1, <1>3, <1>4
  <2>2. ASSUME NEW i \in DOMAIN queue' PROVE queue'[i] = calls'[done' + i]
    <3>1. i \in Nat /\ i + 1 \in DOMAIN queue /\ queue'[i] = queue[i + 1] /\ done' + i = done + (i + 1)
      <4>1. i \in 1 .. Len(queue')
        BY <1>3
      <4>2. queue'[i] = queue[i + 1]
        BY <1>3, <4>1
      <4>3. i \in Nat /\ i + 1 \in 1 .. Len(queue)
        BY <1>1, <1>3, <4>1
      <4>4. done' + i = done + (i + 1)
        BY <1>1, <1>4, <4>3
      <4>5. QED
        BY <1>1, <4>2, <4>3, <4>4
    <3>2. queue[i + 1] = calls[done + (i + 1)]
      BY <3>1 DEF IInv, Ordered
    <3>3. QED
      BY <3>1, <3>2
  <2>3. QED
    BY <1>4, <2>1, <2>2 DEF IInv, Ordered
<1>6. NothingBack'
  <2> SUFFICES ASSUME NEW x \in disk, Whole(x)
               PROVE  /\ calls[x[2]].path = x[1] /\ ~calls[x[2]].toRemove /\ x[2] <= done' + 1
                      /\ \A j \in x[2] + 1 .. done' : Concerns(j, x[1]) => j \in lost' \/ <<j, x[2]>> \in spared
    BY DEF NothingBack, Whole, Concerns, Below
  <2>1. /\ calls[x[2]].path = x[1] /\ ~calls[x[2]].toRemove /\ x[2] <= done + 1 /\ x[2] \in Nat
        /\ \A j \in x[2] + 1 .. done : Concerns(j, x[1]) => j \in lost \/ <<j, x[2]>> \in spared
    BY <1>1 DEF IInv, DiskIsDone, NothingBack, Stored, Whole
  <2>2. ASSUME NEW j \in x[2] + 1 .. done', Concerns(j, x[1]) PROVE j \in lost' \/ <<j, x[2]>> \in spared
    <3>1. CASE j = done + 1
      <4>1. x[1] \in Below(Current.path) /\ x[2] # done + 1
        BY <1>1, <1>2, <2>1, <2>2, <3>1 DEF Concerns
      <4>2. QED
        BY <1>2, <3>1, <4>1
    <3>2. CASE j # done + 1
      <4>1. j \in x[2] + 1 .. done
        BY <1>1, <1>4, <2>1, <3>2
      <4>2. QED
        BY <2>1, <2>2, <4>1
    <3>3. QED
      BY <3>1, <3>2
  <2>3. x[2] <= done' + 1
    BY <1>1, <1>4, <2>1
  <2>4. QED
    BY <2>1, <2>2, <2>3
<1>7. NothingMissing'
  <2> SUFFICES ASSUME NEW i \in since + 1 .. done', ~calls[i].toRemove, i \notin lost',
                      \A j \in i + 1 .. Len(calls) : j <= done' + 1 => ~Concerns(j, calls[i].path)
               PROVE  File(calls[i]) \in disk /\ i \notin torn
    BY DEF NothingMissing, Concerns, Below, File
  <2>1. CASE i = done + 1
    BY <1>2, <2>1
  <2>2. CASE i # done + 1
    <3>1. i \in since + 1 .. done
      BY <1>1, <1>4, <2>2
    <3>2. \A j \in i + 1 .. Len(calls) : j <= done + 1 => ~Concerns(j, calls[i].path)
      BY <1>1, <1>4
    <3>3. QED
      BY <3>1, <3>2 DEF IInv, DiskIsDone, NothingMissing
  <2>3. QED
    BY <2>1, <2>2
<1>8. QED
  BY <1>3, <1>4, <1>5, <1>6, <1>7 DEF DiskIsDone

LEMMA PopSound == ASSUME DatabaseAssumption, IInv, Pop PROVE IInv'
<1>1. /\ thread = "pop" /\ thread' = "look" /\ queue # <<>>
      /\ queue' = Tail(queue) /\ done' = Current.call
      /\ UNCHANGED <<process, wakeUpType, stopping, signal, flushing, disk, torn, resisting,
                     calls, failed, lost, spared, since>>
  BY DEF Pop, Moves, fileSystem, IInv, Progress, Busy
<1>2. /\ \A x \in disk : (Whole(x) /\ x[1] \in Below(Current.path)) =>
             x[2] = Current.call \/ <<Current.call, x[2]>> \in spared
      /\ Current.toRemove \/ Current.call \in lost \/ (File(Current) \in disk /\ Current.call \notin torn)
  BY <1>1 DEF IInv, Progress
<1>3. queue' \in Seq(Entry) /\ done' \in 0 .. Len(calls') /\ since' \in 0 .. done' /\ Ordered' /\ DiskIsDone'
  BY <1>1, <1>2, DoneSound
<1>4. TypeOK'
  BY <1>1, <1>3 DEF IInv, TypeOK, Alive
<1>5. Progress' /\ Stored' /\ Running'
  BY <1>1 DEF Progress, Busy, IInv, Stored, Running
<1>6. QED
  BY <1>3, <1>4, <1>5 DEF IInv

LEMMA EntryFailsSound == ASSUME DatabaseAssumption, IInv, EntryFails PROVE IInv'
<1>1. /\ thread \in Busy /\ thread' = "leaving" /\ queue # <<>> /\ stopping' = TRUE /\ failed' = TRUE
      /\ queue' = Tail(queue) /\ done' = Current.call /\ lost' = lost \cup {Current.call} /\ resisting' = {}
      /\ UNCHANGED <<process, wakeUpType, signal, flushing, disk, torn, calls, spared, since>>
  BY DEF EntryFails, Moves, IInv, Progress, Busy
<1>2. Current.call \in DOMAIN calls
  BY <1>1, CurrentCall
<1>3. queue' \in Seq(Entry) /\ done' \in 0 .. Len(calls') /\ since' \in 0 .. done' /\ Ordered' /\ DiskIsDone'
  BY <1>1, DoneSound
<1>4. TypeOK'
  BY <1>1, <1>2, <1>3 DEF IInv, TypeOK, Alive
<1>5. Progress' /\ Stored'
  BY <1>1 DEF Progress, Busy, IInv, Stored
<1>6. Running'
  BY <1>1 DEF IInv, Running, Busy
<1>7. QED
  BY <1>3, <1>4, <1>5, <1>6 DEF IInv

-----------------------------------------------------------------------------
(* Crash and load                                                          *)

\* A crash costs the entries that wait, and leaves the file system.
LEMMA CrashSound == ASSUME DatabaseAssumption, IInv, Crash PROVE IInv'
<1>1. /\ process' = "down" /\ queue' = <<>> /\ thread' = "none" /\ stopping' = TRUE /\ signal' = FALSE
      /\ flushing' = FALSE /\ failed' = FALSE /\ done' = Len(calls)
      /\ lost' = lost \cup {queue[i].call : i \in DOMAIN queue}
      /\ resisting' = {}
      /\ UNCHANGED <<wakeUpType, disk, torn, calls, spared, since>>
  BY DEF Crash
<1>2. /\ done \in Nat /\ Len(queue) \in Nat /\ Len(calls) \in Nat /\ done + Len(queue) = Len(calls)
      /\ DOMAIN calls = 1 .. Len(calls) /\ DOMAIN queue = 1 .. Len(queue) /\ since \in 0 .. done
  BY CallDone DEF IInv, TypeOK
<1>3. \A i \in DOMAIN queue : queue[i].call = done + i
  <2>1. SUFFICES ASSUME NEW i \in DOMAIN queue PROVE queue[i].call = done + i
    OBVIOUS
  <2>2. done + i \in DOMAIN calls /\ queue[i] = calls[done + i]
    BY <1>2 DEF IInv, Ordered
  <2>3. QED
    BY <2>2 DEF IInv, Ordered
<1>4. \A j \in done + 1 .. Len(calls) : j \in lost'
  <2>1. SUFFICES ASSUME NEW j \in done + 1 .. Len(calls) PROVE j \in lost'
    OBVIOUS
  <2>2. j - done \in DOMAIN queue /\ done + (j - done) = j
    BY <1>2
  <2>3. queue[j - done].call = j
    BY <1>3, <2>2
  <2>4. QED
    BY <1>1, <2>2, <2>3
<1>5. lost \subseteq lost' /\ lost' \subseteq DOMAIN calls
  <2>1. \A i \in DOMAIN queue : queue[i].call \in DOMAIN calls
    BY <1>2, <1>3
  <2>2. QED
    BY <1>1, <2>1 DEF IInv, TypeOK
<1>6. TypeOK'
  <2>1. queue' \in Seq(Entry) /\ done' \in 0 .. Len(calls') /\ since' \in 0 .. done'
    BY <1>1, <1>2
  <2>2. QED
    BY <1>1, <1>5, <2>1 DEF IInv, TypeOK
<1>7. Ordered'
  <2>1. Len(queue') = 0 /\ DOMAIN queue' = {}
    BY <1>1
  <2>2. done' + Len(queue') = Len(calls')
    BY <1>1, <1>2, <2>1
  <2>3. QED
    BY <1>1, <1>2, <2>1, <2>2 DEF IInv, Ordered
<1>8. Progress' /\ Running'
  BY <1>1 DEF Progress, Running, Busy
<1>9. Stored'
  BY <1>1 DEF IInv, Stored
<1>10. NothingBack'
  <2> SUFFICES ASSUME NEW x \in disk, Whole(x)
               PROVE  /\ calls[x[2]].path = x[1] /\ ~calls[x[2]].toRemove /\ x[2] <= done' + 1
                      /\ \A j \in x[2] + 1 .. done' : Concerns(j, x[1]) => j \in lost' \/ <<j, x[2]>> \in spared
    BY <1>1 DEF NothingBack, Whole, Concerns, Below
  <2>1. /\ calls[x[2]].path = x[1] /\ ~calls[x[2]].toRemove /\ x[2] \in 1 .. Len(calls)
        /\ \A j \in x[2] + 1 .. done : Concerns(j, x[1]) => j \in lost \/ <<j, x[2]>> \in spared
    BY DEF IInv, DiskIsDone, NothingBack, Stored, Whole
  <2>2. ASSUME NEW j \in x[2] + 1 .. done', Concerns(j, x[1]) PROVE j \in lost' \/ <<j, x[2]>> \in spared
    <3>1. j \in x[2] + 1 .. done \/ j \in done + 1 .. Len(calls)
      BY <1>1, <1>2, <2>1
    <3>2. QED
      BY <1>4, <1>5, <2>1, <2>2, <3>1
  <2>3. x[2] <= done' + 1
    BY <1>1, <1>2, <2>1
  <2>4. QED
    BY <2>1, <2>2, <2>3
<1>11. NothingMissing'
  <2> SUFFICES ASSUME NEW i \in since + 1 .. done', ~calls[i].toRemove, i \notin lost',
                      \A j \in i + 1 .. Len(calls) : j <= done' + 1 => ~Concerns(j, calls[i].path)
               PROVE  File(calls[i]) \in disk /\ i \notin torn
    BY <1>1 DEF NothingMissing, Concerns, Below, File
  <2>1. i \in since + 1 .. done
    BY <1>1, <1>2, <1>4
  <2>2. \A j \in i + 1 .. Len(calls) : j <= done + 1 => ~Concerns(j, calls[i].path)
    BY <1>1, <1>2
  <2>3. QED
    BY <1>5, <2>1, <2>2 DEF IInv, DiskIsDone, NothingMissing
<1>12. QED
  BY <1>6, <1>7, <1>8, <1>9, <1>10, <1>11 DEF IInv, DiskIsDone

\* A load takes away files and writes none: it says anew since when nothing is missing.
LEMMA LoadSound == ASSUME DatabaseAssumption, IInv, Load PROVE IInv'
<1>1. /\ process = "down" /\ process' = "up" /\ since' = done
      /\ disk' \subseteq disk
      /\ UNCHANGED <<queue, thread, wakeUpType, stopping, signal, flushing, torn, resisting,
                     calls, done, failed, lost, spared>>
  BY DEF Load, memory
<1>2. thread = "none" /\ queue = <<>> /\ done \in Nat
  BY <1>1, CallDone DEF IInv, Running
<1>3. TypeOK'
  <2>1. since' \in 0 .. done' /\ disk' \subseteq Items
    BY <1>1, <1>2 DEF IInv, TypeOK
  <2>2. QED
    BY <1>1, <2>1 DEF IInv, TypeOK
<1>4. Ordered' /\ Progress' /\ Stored' /\ Running'
  BY <1>1, <1>2 DEF IInv, Ordered, Progress, Busy, Stored, Running
<1>5. NothingBack'
  BY <1>1 DEF IInv, DiskIsDone, NothingBack, Whole, Concerns, Below
<1>6. NothingMissing'
  <2>1. since' + 1 .. done' = {}
    BY <1>1, <1>2
  <2>2. QED
    BY <2>1 DEF NothingMissing
<1>7. QED
  BY <1>3, <1>4, <1>5, <1>6 DEF IInv, DiskIsDone

-----------------------------------------------------------------------------
LEMMA Inductive == ASSUME DatabaseAssumption PROVE IInv /\ [Next]_vars => IInv'
<1> SUFFICES ASSUME IInv, [Next]_vars PROVE IInv'
  OBVIOUS
<1>1. CASE \E p \in Paths, toRemove \in BOOLEAN : Queue(p, toRemove)
  BY <1>1, QueueSound
<1>2. CASE FlushEnter \/ FlushReturns
  BY <1>2, FlushSound
<1>3. CASE SleepEnds \/ Look \/ ThreadEnds
  BY <1>3, IdleSound
<1>4. CASE RemoveAll
  BY <1>4, RemoveAllSound
<1>5. CASE CreateDirectories \/ OpenFile
  BY <1>5, MadeSound
<1>6. CASE \E x \in disk : RemoveOne(x)
  BY <1>6, RemoveOneSound
<1>7. CASE \E short \in BOOLEAN : WriteFile(short)
  BY <1>7, WriteSound
<1>8. CASE Pop
  BY <1>8, PopSound
<1>9. CASE EntryFails
  BY <1>9, EntryFailsSound
<1>10. CASE Crash
  BY <1>10, CrashSound
<1>11. CASE Load
  BY <1>11, LoadSound
<1>12. CASE UNCHANGED vars
  <2>1. UNCHANGED <<process, queue, thread, wakeUpType, stopping, signal, flushing, disk, torn, resisting,
                    calls, done, failed, lost, spared, since>>
    BY <1>12 DEF vars, memory, fileSystem, history
  <2>2. TypeOK'
    BY <2>1 DEF IInv, TypeOK
  <2>3. Progress'
    BY <2>1 DEF IInv, Progress, Current, Below, Whole, File
  <2>4. Running'
    BY <2>1 DEF IInv, Running
  <2>5. QED
    BY <2>1, <2>2, <2>3, <2>4, ControlOnly DEF IInv
<1>13. QED
  BY <1>1, <1>2, <1>3, <1>4, <1>5, <1>6, <1>7, <1>8, <1>9, <1>10, <1>11, <1>12 DEF Next

LEMMA IInvHolds == ASSUME DatabaseAssumption PROVE Spec => []IInv
BY InitSound, Inductive, PTL DEF Spec

\* The types of Database.cpp's state hold in every state that is reached.
THEOREM TypeCorrect == ASSUME DatabaseAssumption PROVE Spec => []TypeOK
<1>1. IInv => TypeOK
  BY DEF IInv
<1>2. QED
  BY <1>1, IInvHolds, PTL

\* For any paths and any number of calls, whatever cannot be removed, fails, is cut short
\* or crashes: the file system holds what the calls of add and remove since the last load
\* say, taken in their order, but for what an error, a short write or a crash cost; a value
\* that a later call concerns is there only when that call was lost or could not remove
\* its file; and entries wait without a thread only after an error.
THEOREM DataKeptCorrect == ASSUME DatabaseAssumption PROVE Spec => []DataKept
<1>1. IInv => DataKept
  BY DEF IInv, Running, DataKept, StrandedOnlyByError
<1>2. QED
  BY <1>1, IInvHolds, PTL
=============================================================================
