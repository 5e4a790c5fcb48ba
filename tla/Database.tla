---- MODULE Database ----
(* The database of a server's data (Database.cpp): the server's thread queues   *)
(* what is to be written or removed, a thread of its own does it on the file    *)
(* system, and the next start of the server loads what it finds there.  A value *)
(* at a path is one file, in the path's directory, named after the value.  A    *)
(* value is here the number of the call of add that gave it: no two are equal.   *)
EXTENDS Naturals, Sequences, SequencesExt, FiniteSets, Functions

CONSTANTS
    Paths,
    Under,      \* Under[p]: the paths below p
    Root,       \* the directory of the database; not in Paths
    MaxCalls    \* bound: calls of add and remove

Places == Paths \cup {Root}

DatabaseAssumption ==
    /\ Root \notin Paths /\ MaxCalls \in Nat
    /\ Under \in [Places -> SUBSET Paths] /\ Under[Root] = Paths
    /\ \A p \in Places : p \notin Under[p] /\ \A q \in Under[p] : Under[q] \subseteq Under[p]

VARIABLES
    process,    \* "up", or "down" after a crash or a stop, until the next load
    queue,      \* _entries
    thread,     \* the database's thread
    wakeUpType, \* what its sleep returned
    stopping,   \* _stop: running() is its negation
    signal,     \* the thread was woken up
    flushing,   \* the server's thread is in flush
    disk,       \* the directories, and the files in them
    torn,       \* the calls whose file is not the whole of their value
    resisting,  \* what the removal that goes on could not remove
    calls,      \* history: the entries accepted, in order
    done,       \* history: how many of them the thread has finished with
    failed,     \* history: the last start of the thread ended by an error
    lost,       \* history: entries that an error, a short write or a crash cost
    spared,     \* history: <<j, i>> when the addition j could not remove the file of i
    since       \* history: how many calls there were at the last load

memory == <<queue, thread, wakeUpType, stopping, signal, flushing>>
fileSystem == <<disk, torn, resisting>>
history == <<calls, done, failed, lost, spared, since>>
vars == <<process, memory, fileSystem, history>>

Entry == [path : Paths, toRemove : BOOLEAN, call : 1 .. MaxCalls]

(* The directory of a path, and the file in it of a call's value. *)
Directory(p) == <<p, 0>>
File(entry) == <<entry.path, entry.call>>
Items == Places \X (0 .. MaxCalls)
Whole(x) == x[2] # 0 /\ x[2] \notin torn

Alive == {"sleep", "look", "remove", "create", "open", "write", "pop", "leaving"}

TypeOK ==
    /\ process \in {"up", "down"} /\ queue \in Seq(Entry)
    /\ thread \in Alive \cup {"none"} /\ wakeUpType \in {"WAKEUP", "TIMEOUT", "STOP"}
    /\ {stopping, signal, flushing, failed} \subseteq BOOLEAN
    /\ disk \subseteq Items /\ torn \subseteq 1 .. MaxCalls /\ resisting \subseteq Items
    /\ calls \in Seq(Entry) /\ done \in 0 .. Len(calls) /\ lost \subseteq DOMAIN calls
    /\ spared \subseteq (1 .. MaxCalls) \X (1 .. MaxCalls) /\ since \in 0 .. done

Init ==
    /\ process = "up" /\ queue = <<>> /\ thread = "none" /\ wakeUpType = "STOP"
    /\ stopping = TRUE /\ signal = FALSE /\ flushing = FALSE
    /\ disk = {Directory(Root)} /\ torn = {} /\ resisting = {}
    /\ calls = <<>> /\ done = 0 /\ failed = FALSE /\ lost = {} /\ spared = {} /\ since = 0

-----------------------------------------------------------------------------
(* The server's thread. *)

Free == process = "up" /\ ~flushing

(* add and remove: the thread is started when it does not run, after the one    *)
(* before has ended; a start that fails refuses the entry.                       *)
Queue(p, toRemove) ==
    LET entry == [path |-> p, toRemove |-> toRemove, call |-> Len(calls) + 1] IN
    /\ Free /\ Len(calls) < MaxCalls
    /\ stopping => thread = "none"
    /\ queue' = Append(queue, entry) /\ calls' = Append(calls, entry)
    /\ thread' = IF stopping THEN "sleep" ELSE thread
    /\ stopping' = FALSE /\ signal' = TRUE /\ failed' = FALSE
    /\ UNCHANGED <<process, wakeUpType, flushing, fileSystem, done, lost, spared, since>>

(* flush is the stop of the thread: it waits for its end. *)
FlushEnter ==
    /\ Free
    /\ flushing' = TRUE /\ stopping' = TRUE /\ signal' = TRUE
    /\ UNCHANGED <<process, queue, thread, wakeUpType, fileSystem, history>>

FlushReturns ==
    /\ flushing /\ thread = "none"
    /\ flushing' = FALSE
    /\ UNCHANGED <<process, queue, thread, wakeUpType, stopping, signal, fileSystem, history>>

-----------------------------------------------------------------------------
(* The thread. *)

Moves(to) ==
    /\ thread' = to
    /\ UNCHANGED <<process, flushing>>

SleepEnds ==
    /\ thread = "sleep"
    /\ wakeUpType' \in IF stopping THEN {"STOP"} ELSE {"TIMEOUT"} \cup (IF signal THEN {"WAKEUP"} ELSE {})
    /\ signal' = FALSE
    /\ Moves("look")
    /\ UNCHANGED <<queue, stopping, fileSystem, history>>

(* An empty queue: back to sleep, or the end when sleep returned STOP or TIMEOUT. *)
Look ==
    /\ thread = "look"
    /\ LET leaves == queue = <<>> /\ wakeUpType # "WAKEUP"
       IN  /\ stopping' = (stopping \/ leaves)
           /\ Moves(IF leaves THEN "leaving" ELSE IF queue = <<>> THEN "sleep" ELSE "remove")
    /\ UNCHANGED <<queue, wakeUpType, signal, fileSystem, history>>

Current == Head(queue)
Below(p) == Under[p] \cup {p}

(* RemoveAll of the entry's directory: what is in it goes one by one, a directory  *)
(* after what is in it, and each may resist, as a directory does that is not empty.  *)
InDirectory(x) == {y \in disk : y[1] \in Under[x[1]] \/ (y[1] = x[1] /\ y[2] # 0)}
Inside(x) == IF x[2] = 0 THEN InDirectory(x) ELSE {}

RemoveOne(x) ==
    /\ thread = "remove" /\ x \in disk \ resisting /\ x[1] \in Below(Current.path)
    /\ Inside(x) \subseteq resisting
    /\ \/ Inside(x) = {} /\ disk' = disk \ {x} /\ UNCHANGED resisting
       \/ resisting' = resisting \cup {x} /\ UNCHANGED disk
    /\ Moves("remove")
    /\ UNCHANGED <<queue, wakeUpType, stopping, signal, torn, history>>

(* What resists is ignored before an addition, and ends a removal by an error.     *)
AllTried == {x \in disk : x[1] \in Below(Current.path)} \subseteq resisting
RemoveAll ==
    /\ thread = "remove" /\ AllTried
    /\ Current.toRemove => resisting = {}
    /\ resisting' = {}
    /\ spared' = spared \cup {<<Current.call, x[2]>> : x \in {y \in resisting : y[2] # 0}}
    /\ Moves(IF Current.toRemove THEN "pop" ELSE "create")
    /\ UNCHANGED <<queue, wakeUpType, stopping, signal, disk, torn, calls, done, failed, lost, since>>

CreateDirectories ==
    /\ thread = "create"
    /\ disk' = disk \cup {Directory(q) : q \in {r \in Places : Current.path \in Below(r)}}
    /\ Moves("open")
    /\ UNCHANGED <<queue, wakeUpType, stopping, signal, torn, resisting, history>>

OpenFile ==
    /\ thread = "open"
    /\ disk' = disk \cup {File(Current)} /\ torn' = torn \cup {Current.call}
    /\ Moves("write")
    /\ UNCHANGED <<queue, wakeUpType, stopping, signal, resisting, history>>

(* What write takes of the value is not looked at. *)
WriteFile(short) ==
    /\ thread = "write"
    /\ torn' = IF short THEN torn ELSE torn \ {Current.call}
    /\ lost' = IF short THEN lost \cup {Current.call} ELSE lost
    /\ Moves("pop")
    /\ UNCHANGED <<queue, wakeUpType, stopping, signal, disk, resisting, calls, done, failed, spared, since>>

(* Variant: the entry that was just pushed goes, not the one that was done. *)
PopLast ==
    /\ thread = "pop"
    /\ queue' = Front(queue) /\ done' = Current.call
    /\ Moves("look")
    /\ UNCHANGED <<wakeUpType, stopping, signal, fileSystem, calls, failed, lost, spared, since>>

Pop ==
    /\ thread = "pop"
    /\ queue' = Tail(queue) /\ done' = Current.call
    /\ Moves("look")
    /\ UNCHANGED <<wakeUpType, stopping, signal, fileSystem, calls, failed, lost, spared, since>>

(* An error anywhere in processEntry: the entry goes, the thread stops and the  *)
(* rest of the queue waits for the next call.                                    *)
EntryFails ==
    /\ \/ thread \in {"create", "open"}
       \/ thread = "remove" /\ AllTried /\ Current.toRemove /\ resisting # {}
    /\ queue' = Tail(queue) /\ done' = Current.call
    /\ lost' = lost \cup {Current.call}
    /\ stopping' = TRUE /\ failed' = TRUE /\ resisting' = {}
    /\ Moves("leaving")
    /\ UNCHANGED <<wakeUpType, signal, disk, torn, calls, spared, since>>

ThreadEnds ==
    /\ thread = "leaving"
    /\ Moves("none")
    /\ UNCHANGED <<queue, wakeUpType, stopping, signal, fileSystem, history>>

-----------------------------------------------------------------------------
(* Crash, and the load of the next start. *)

Crash ==
    /\ process = "up"
    /\ process' = "down"
    /\ queue' = <<>> /\ thread' = "none" /\ stopping' = TRUE /\ signal' = FALSE /\ flushing' = FALSE
    /\ resisting' = {}
    /\ lost' = lost \cup {queue[i].call : i \in DOMAIN queue}
    /\ done' = Len(calls) /\ failed' = FALSE
    /\ UNCHANGED <<wakeUpType, disk, torn, calls, spared, since>>

(* loadDirectory compares with 32, the length of a file's name, that of its full name, *)
(* to which the test for a directory has added a '/': none is that short, so that every *)
(* file is removed, and then the directories, which have no data; something may resist.    *)
Load ==
    /\ process = "down"
    /\ process' = "up"
    /\ \E stays \in SUBSET disk :
          /\ \A x \in disk : Inside(x) \cap stays # {} => x \in stays
          /\ disk' = stays
    /\ since' = done
    /\ UNCHANGED <<memory, torn, resisting, calls, done, failed, lost, spared>>

Next ==
    \/ \E p \in Paths, toRemove \in BOOLEAN : Queue(p, toRemove)
    \/ FlushEnter \/ FlushReturns
    \/ SleepEnds \/ Look \/ RemoveAll \/ CreateDirectories \/ OpenFile
    \/ \E x \in disk : RemoveOne(x)
    \/ \E short \in BOOLEAN : WriteFile(short)
    \/ Pop \/ EntryFails \/ ThreadEnds
    \/ Crash \/ Load

Spec == Init /\ [][Next]_vars
-----------------------------------------------------------------------------
Concerns(i, p) == p \in Below(calls[i].path)

(* What is on the file system is what the calls say, taken in their order: no     *)
(* value comes back that a later call wrote over or removed, unless that call was  *)
(* lost or could not remove its file; and a value that was added since the last    *)
(* load, and that no later call concerns, is there, whole, unless an error, a      *)
(* short write or a crash cost it.                                                  *)
NothingBack ==
    \A x \in {y \in disk : Whole(y)} :
        LET i == x[2] IN
        /\ calls[i].path = x[1] /\ ~calls[i].toRemove /\ i <= done + 1
        /\ \A j \in i + 1 .. done : Concerns(j, x[1]) => j \in lost \/ <<j, i>> \in spared

NothingMissing ==
    \A i \in since + 1 .. done :
        (~calls[i].toRemove /\ i \notin lost
           /\ \A j \in i + 1 .. Len(calls) : j <= done + 1 => ~Concerns(j, calls[i].path))
        => File(calls[i]) \in disk /\ i \notin torn

DiskIsDone == NothingBack /\ NothingMissing

(* Entries wait without a thread only after an error: a thread that stops because *)
(* nothing came has seen the queue empty, and flush leaves nothing behind.         *)
StrandedOnlyByError ==
    (process = "up" /\ thread = "none" /\ queue # <<>>) => failed

DataKept == DiskIsDone /\ StrandedOnlyByError
====
