---- MODULE Sockets ----
(* The sockets (Socket.cpp, SocketSender.cpp, TCPClient.cpp) and their manager *)
(* (SocketManager.cpp, on Linux): three threads share them.  The server's      *)
(* thread owns them, closes them and is called back; the manager's thread      *)
(* waits for events, flushes what is queued and hands the rest to the server;  *)
(* a thread of the pool sends.  A packet is a run of consecutive units, so the  *)
(* units a socket is given to send are 1, 2, 3...                               *)
EXTENDS Naturals, Sequences, SequencesExt, FiniteSets, Functions

CONSTANTS
    Socks,
    Size,       \* units in a packet
    Room,       \* units the system's send buffer takes
    MaxPackets  \* bound: packets given to the sockets

None == "none"

ASSUME SocketsAssumption ==
    /\ {Size, Room} \subseteq Nat \ {0} /\ MaxPackets \in Nat
    /\ None \notin Socks

VARIABLES
    stage,      \* of each socket: "new", then "open" until its owner closes it, then "closed"
    link,       \* of its connection: "connecting", "up", "lost" (by the peer) or "shut" (by disconnect)
    unread,     \* bytes of the peer have come and were not read
    senders,    \* _senders: the units each has left, [from, to]
    interest,   \* the manager waits until the socket can be written; also _writing
    pointer,    \* its Socket**: "none", "live", "null" once the socket is closed, "freed"
    given,      \* history: the units it was given to send
    wire,       \* history: the units the system took, in order
    taken,      \* of them, those that left the system's buffer

    mutex,      \* who holds the manager's _mutex across several steps
    closing,    \* the socket whose _mutexManaged the server holds, waiting for _mutex
    manager,    \* the manager's thread: [pc, batch, current, removed]
    pipe,       \* the pointers removed, on their way to the manager's thread
    calls,      \* what the server, in handle, has left to call on manager.current
    sending     \* the pool's thread, in send: [sock, from, to] or NoSending

vars == <<stage, link, unread, senders, interest, pointer, given, wire, taken,
          mutex, closing, manager, pipe, calls, sending>>

NoSending == [sock |-> None, from |-> 1, to |-> 0]
Packets == {p \in [from : Nat \ {0}, to : Nat] : p.from <= p.to}
Held == {p \in [sock : Socks, from : Nat \ {0}, to : Nat] : p.from <= p.to}
Item == [sock : Socks \cup {None}, out : BOOLEAN, in : BOOLEAN, error : BOOLEAN]
NoItem == [sock |-> None, out |-> FALSE, in |-> FALSE, error |-> FALSE]
PipeItem == [NoItem EXCEPT !.in = TRUE]

TypeOK ==
    /\ stage \in [Socks -> {"new", "open", "closed"}]
    /\ link \in [Socks -> {"connecting", "up", "lost", "shut"}]
    /\ unread \in [Socks -> BOOLEAN] /\ interest \in [Socks -> BOOLEAN]
    /\ senders \in [Socks -> Seq(Packets)]
    /\ pointer \in [Socks -> {"none", "live", "null", "freed"}]
    /\ given \in [Socks -> Nat] /\ wire \in [Socks -> Seq(Nat)] /\ taken \in [Socks -> Nat]
    /\ \A s \in Socks : taken[s] <= Len(wire[s]) /\ Len(wire[s]) - taken[s] <= Room
    /\ mutex \in {"nobody", "manager", "server"} /\ closing \in Socks \cup {None}
    /\ manager \in [pc : {"poll", "next", "flush", "wait"}, batch : SUBSET Item,
                    current : Item, removed : SUBSET Socks]
    /\ pipe \subseteq Socks
    /\ calls \in Seq({"error", "readable"})
    /\ sending \in Held \cup {NoSending}

Init ==
    /\ stage = [s \in Socks |-> "new"] /\ link = [s \in Socks |-> "up"]
    /\ unread = [s \in Socks |-> FALSE] /\ interest = [s \in Socks |-> FALSE]
    /\ senders = [s \in Socks |-> <<>>] /\ pointer = [s \in Socks |-> "none"]
    /\ given = [s \in Socks |-> 0] /\ wire = [s \in Socks |-> <<>>] /\ taken = [s \in Socks |-> 0]
    /\ mutex = "nobody" /\ closing = None
    /\ manager = [pc |-> "poll", batch |-> {}, current |-> NoItem, removed |-> {}]
    /\ pipe = {} /\ calls = <<>> /\ sending = NoSending

-----------------------------------------------------------------------------
(* The system: a send buffer, a peer that reads and writes, and may leave. *)

Free(s) == Room - (Len(wire[s]) - taken[s])

(* What sendBytes takes of n units: none while the connection is not made, and  *)
(* an error, which ends the sender, once it is lost or shut.                    *)
Sendable(s, n) ==
    IF link[s] # "up" THEN 0 ELSE IF n < Free(s) THEN n ELSE Free(s)
Broken(s) == link[s] \in {"lost", "shut"}

Units(from, n) == [i \in 1 .. n |-> from + i - 1]

PeerReads(s) ==
    /\ taken[s] < Len(wire[s])
    /\ taken' = [taken EXCEPT ![s] = Len(wire[s])]
    /\ UNCHANGED <<stage, link, unread, senders, interest, pointer, given, wire,
                   mutex, closing, manager, pipe, calls, sending>>

PeerWrites(s) ==
    /\ stage[s] = "open" /\ link[s] = "up" /\ ~unread[s]
    /\ unread' = [unread EXCEPT ![s] = TRUE]
    /\ UNCHANGED <<stage, link, senders, interest, pointer, given, wire, taken,
                   mutex, closing, manager, pipe, calls, sending>>

Connected(s) ==
    /\ link[s] = "connecting"
    /\ link' = [link EXCEPT ![s] = "up"]
    /\ UNCHANGED <<stage, unread, senders, interest, pointer, given, wire, taken,
                   mutex, closing, manager, pipe, calls, sending>>

Lost(s) ==
    /\ stage[s] = "open"
    /\ link' = [link EXCEPT ![s] = "lost"]
    /\ UNCHANGED <<stage, unread, senders, interest, pointer, given, wire, taken,
                   mutex, closing, manager, pipe, calls, sending>>

-----------------------------------------------------------------------------
(* Sending. *)

(* The units in a queue: its senders are consecutive. *)
Queued(q) == IF q = <<>> THEN 0 ELSE Last(q).to - Head(q).from + 1

(* Variant: a sender that has sent all it had stays in the queue. *)
RemainingKept(q, next) == [i \in DOMAIN q |-> [q[i] EXCEPT !.from = IF @ < next THEN next ELSE @]]

(* What remains of a queue whose units before this one were taken. *)
Remaining(q, next) ==
    LET done == CHOOSE k \in 0 .. Len(q) : \A i \in DOMAIN q : (i <= k) <=> (q[i].to < next)
    IN  [i \in 1 .. Len(q) - done |-> [q[i + done] EXCEPT !.from = IF @ < next THEN next ELSE @]]

(* The senders in order, each as far as the system takes it. *)
Flushed(s) ==
    LET sent  == Sendable(s, Queued(senders[s]))
        first == IF senders[s] = <<>> THEN 1 ELSE Head(senders[s]).from
    IN  [wire |-> wire[s] \o Units(first, sent),
         senders |-> IF Broken(s) THEN <<>> ELSE Remaining(senders[s], first + sent)]

(* Variant: nothing more is waited for, whatever is left. *)
FlushForgetting(s) ==
    /\ wire' = [wire EXCEPT ![s] = Flushed(s).wire]
    /\ senders' = [senders EXCEPT ![s] = Flushed(s).senders]
    /\ interest' = [interest EXCEPT ![s] = FALSE]

(* SocketImpl::flush. *)
Flush(s) ==
    /\ wire' = [wire EXCEPT ![s] = Flushed(s).wire]
    /\ senders' = [senders EXCEPT ![s] = Flushed(s).senders]
    /\ interest' = [interest EXCEPT ![s] = Flushed(s).senders # <<>>]

(* Variant: a packet does not wait for those that are queued. *)
CanSendHasty(s) == link[s] # "connecting"

(* canSend.  _connecting is only reset by an error, so that a socket that had   *)
(* to wait for its connection queues all it sends.                              *)
CanSend(s) == link[s] # "connecting" /\ senders[s] = <<>>

MayGive == FoldFunction(+, 0, given) < Size * MaxPackets

(* Socket::send, in the pool: what can be written is written at once... *)
Send(s) ==
    /\ stage[s] # "new" /\ sending = NoSending /\ MayGive
    /\ given' = [given EXCEPT ![s] = @ + Size]
    /\ LET sent == IF CanSend(s) THEN Sendable(s, Size) ELSE 0
           ends == sent = Size \/ (CanSend(s) /\ Broken(s))
       IN  /\ wire' = [wire EXCEPT ![s] = @ \o Units(given[s] + 1, sent)]
           /\ sending' = IF ends THEN NoSending
                         ELSE [sock |-> s, from |-> given[s] + sent + 1, to |-> given'[s]]
    /\ UNCHANGED <<stage, link, unread, senders, interest, pointer, taken,
                   mutex, closing, manager, pipe, calls>>

(* ... and the rest is queued: addSender, refused for a socket that was closed   *)
(* meanwhile, which is not managed any more.                                     *)
AddSender ==
    LET s == sending.sock IN
    /\ sending # NoSending /\ closing # s
    /\ sending' = NoSending
    /\ IF pointer[s] = "live"
       THEN /\ senders' = [senders EXCEPT ![s] = Append(@, [from |-> sending.from, to |-> sending.to])]
            /\ interest' = [interest EXCEPT ![s] = TRUE]
       ELSE UNCHANGED <<senders, interest>>
    /\ UNCHANGED <<stage, link, unread, pointer, given, wire, taken, mutex, closing, manager, pipe, calls>>

-----------------------------------------------------------------------------
(* The owner, on the server's thread. *)

(* A socket is accepted, or connected; it is managed from then on. *)
Open(s, connected) ==
    /\ stage[s] = "new" /\ closing = None
    /\ mutex # "manager"
    /\ stage' = [stage EXCEPT ![s] = "open"]
    /\ link' = [link EXCEPT ![s] = IF connected THEN "up" ELSE "connecting"]
    /\ pointer' = [pointer EXCEPT ![s] = "live"]
    /\ UNCHANGED <<unread, senders, interest, given, wire, taken, mutex, closing, manager, pipe, calls, sending>>

(* TCPClient::disconnect: what can be sent is, and the peer is told of the end. *)
Disconnect(s) ==
    /\ stage[s] = "open" /\ link[s] = "up" /\ closing = None
    /\ link' = [link EXCEPT ![s] = "shut"]
    /\ Flush(s)
    /\ UNCHANGED <<stage, unread, pointer, given, taken, mutex, closing, manager, pipe, calls, sending>>

(* TCPClient::close of these sockets: shutdown, which also stops those who still *)
(* share the connection, release and the manager's remove.                       *)
Released(closed) ==
    /\ link' = [s \in Socks |-> IF s \in closed /\ link[s] # "lost" THEN "shut" ELSE link[s]]
    /\ stage' = [s \in Socks |-> IF s \in closed THEN "closed" ELSE stage[s]]
    /\ pointer' = [s \in Socks |-> IF s \in closed THEN "null" ELSE pointer[s]]
    /\ pipe' = pipe \cup closed
    /\ senders' = [s \in Socks |-> IF s \in closed THEN <<>> ELSE senders[s]]
    /\ interest' = [s \in Socks |-> interest[s] /\ s \notin closed]

(* close outside a call of the manager: _mutexManaged, then _mutex. *)
CloseOutside(s) ==
    /\ stage[s] = "open" /\ closing = None /\ mutex # "server"
    /\ closing' = s
    /\ UNCHANGED <<stage, link, unread, senders, interest, pointer, given, wire, taken,
                   mutex, manager, pipe, calls, sending>>

CloseRemoves ==
    /\ closing # None /\ mutex = "nobody"
    /\ Released({closing})
    /\ closing' = None
    /\ UNCHANGED <<unread, given, wire, taken, mutex, manager, calls, sending>>

-----------------------------------------------------------------------------
(* The manager's thread. *)

Live == {s \in Socks : pointer[s] = "live"}

Event(s) ==
    [sock |-> s, out |-> interest[s] /\ (Broken(s) \/ (link[s] = "up" /\ Free(s) > 0)),
     in |-> unread[s] \/ link[s] = "lost", error |-> link[s] = "lost"]

Ready == {Event(s) : s \in {t \in Live : Event(t).out \/ Event(t).in}}
         \cup IF pipe = {} THEN {} ELSE {PipeItem}

(* epoll_wait: there is room for the events of every socket. *)
Poll ==
    /\ manager.pc = "poll" /\ Ready # {}
    /\ manager' = [manager EXCEPT !.pc = "next", !.batch = Ready]
    /\ UNCHANGED <<stage, link, unread, senders, interest, pointer, given, wire, taken,
                   mutex, closing, pipe, calls, sending>>

(* The pointers of the sockets removed are kept to the end of the batch. *)
ReadPipe ==
    /\ manager.pc = "next" /\ PipeItem \in manager.batch
    /\ manager' = [manager EXCEPT !.batch = @ \ {PipeItem}, !.removed = @ \cup pipe]
    /\ pipe' = {}
    /\ UNCHANGED <<stage, link, unread, senders, interest, pointer, given, wire, taken,
                   mutex, closing, calls, sending>>

(* A socket that can be written is flushed by this thread, under _mutex. *)
NextEvent(e) ==
    /\ manager.pc = "next" /\ e # PipeItem
    /\ e.out => mutex = "nobody"
    /\ mutex' = IF e.out THEN "manager" ELSE mutex
    /\ manager' = [manager EXCEPT !.batch = @ \ {e}, !.current = e, !.pc = IF e.out THEN "flush" ELSE "wait"]
    /\ UNCHANGED <<stage, link, unread, senders, interest, pointer, given, wire, taken,
                   closing, pipe, calls, sending>>

FlushEvent ==
    LET s == manager.current.sock
        failed == pointer[s] = "live" /\ Broken(s) /\ senders[s] # <<>>
    IN  /\ manager.pc = "flush" /\ closing # s
        /\ IF pointer[s] = "live" THEN Flush(s) ELSE UNCHANGED <<wire, senders, interest>>
        /\ mutex' = "nobody"
        /\ manager' = [manager EXCEPT !.current.error = @ \/ failed,
               !.pc = IF failed \/ manager.current.error \/ manager.current.in THEN "wait" ELSE "next"]
        /\ UNCHANGED <<stage, link, unread, pointer, given, taken, closing, pipe, calls, sending>>

EndBatch ==
    /\ manager.pc = "next" /\ manager.batch = {}
    /\ pointer' = [s \in Socks |-> IF s \in manager.removed THEN "freed" ELSE pointer[s]]
    /\ manager' = [manager EXCEPT !.pc = "poll", !.current = NoItem, !.removed = {}]
    /\ UNCHANGED <<stage, link, unread, senders, interest, given, wire, taken,
                   mutex, closing, pipe, calls, sending>>

-----------------------------------------------------------------------------
(* handle, on the server's thread, while the manager's thread waits. *)

Handle ==
    LET e == manager.current IN
    /\ manager.pc = "wait" /\ calls = <<>> /\ closing = None
    /\ IF pointer[e.sock] = "live"
       THEN /\ mutex' = "server"
            /\ calls' = (IF e.error THEN <<"error">> ELSE <<>>) \o (IF e.in THEN <<"readable">> ELSE <<>>)
            /\ UNCHANGED manager
       ELSE /\ manager' = [manager EXCEPT !.pc = "next"]
            /\ UNCHANGED <<mutex, calls>>
    /\ UNCHANGED <<stage, link, unread, senders, interest, pointer, given, wire, taken, closing, pipe, sending>>

(* Variant: the socket is called again though it was closed. *)
CallsLeftHasty(s) == Tail(calls)

(* After each call the pointer tells whether the socket is still there. *)
CallsLeft(s) == IF pointer'[s] = "live" THEN Tail(calls) ELSE <<>>

(* onError or onReadable, in which the owner may close this socket and others.  *)
(* With nothing to read, TCPClient closes it.                                    *)
Call(closed) ==
    LET s == manager.current.sock IN
    /\ calls # <<>> /\ closed \subseteq {t \in Socks : stage[t] = "open"}
    /\ (Head(calls) = "readable" /\ ~unread[s]) => s \in closed
    /\ unread' = IF Head(calls) = "readable" THEN [unread EXCEPT ![s] = FALSE] ELSE unread
    /\ Released(closed)
    /\ calls' = CallsLeft(s)
    /\ mutex' = IF calls' = <<>> THEN "nobody" ELSE mutex
    /\ manager' = IF calls' = <<>> THEN [manager EXCEPT !.pc = "next"] ELSE manager
    /\ UNCHANGED <<given, wire, taken, closing, sending>>

Next ==
    \/ \E s \in Socks : PeerReads(s) \/ PeerWrites(s) \/ Connected(s) \/ Lost(s)
    \/ \E s \in Socks : Send(s) \/ Disconnect(s) \/ CloseOutside(s)
    \/ \E s \in Socks, connected \in BOOLEAN : Open(s, connected)
    \/ AddSender \/ CloseRemoves
    \/ \E e \in manager.batch : NextEvent(e)
    \/ Poll \/ ReadPipe \/ FlushEvent \/ EndBatch
    \/ Handle
    \/ \E closed \in SUBSET Socks : Call(closed)

Spec == Init /\ [][Next]_vars

(* The threads run, epoll tells of every event in the end, a connection is made *)
(* or lost, and the peer reads.                                                  *)
Fairness ==
    /\ WF_vars(Poll) /\ WF_vars(\E e \in manager.batch : NextEvent(e))
    /\ WF_vars(ReadPipe) /\ WF_vars(FlushEvent) /\ WF_vars(EndBatch)
    /\ WF_vars(Handle) /\ WF_vars(\E closed \in SUBSET Socks : Call(closed))
    /\ WF_vars(AddSender) /\ WF_vars(CloseRemoves)
    /\ \A s \in Socks : WF_vars(PeerReads(s))
                       /\ WF_vars(link[s] = "connecting" /\ (Connected(s) \/ Lost(s)))

FairSpec == Spec /\ Fairness
-----------------------------------------------------------------------------
(* The last unit of a socket that was sent or is queued. *)
EndOf(s) == IF senders[s] = <<>> THEN Len(wire[s]) ELSE Last(senders[s]).to

(* What is queued goes on from what was sent, and what the pool's thread holds from *)
(* what is queued, up to the last unit given.                                       *)
Continues(s) ==
    /\ senders[s] # <<>> => Head(senders[s]).from = Len(wire[s]) + 1
    /\ \A i \in DOMAIN senders[s] : i > 1 => senders[s][i].from = senders[s][i - 1].to + 1
    /\ IF sending.sock = s THEN sending.from = EndOf(s) + 1 /\ sending.to = given[s]
       ELSE given[s] = EndOf(s)

(* The peer is sent the units in the order they were given, none twice and none *)
(* missing: a packet that is written at once never overtakes one that waits in  *)
(* _senders, nor is one written from two threads.                                *)
InOrder ==
    \A s \in Socks :
        /\ \A i \in DOMAIN wire[s] : wire[s][i] = i
        /\ stage[s] = "open" /\ ~Broken(s) => Continues(s)

(* The server's thread holds _mutexManaged and waits for _mutex, the manager's   *)
(* thread the other way round: both wait for ever.                               *)
Embraced == manager.pc = "flush" /\ closing = manager.current.sock

(* What a socket was given to send is taken by the system, unless the           *)
(* connection ends or two threads are embraced: the interest in writing is      *)
(* armed whenever something waits, though three threads arm and disarm it.      *)
EverySentLeaves ==
    \A s \in Socks : []<>(Len(wire[s]) = given[s] \/ stage[s] = "closed" \/ Broken(s) \/ Embraced)

(* No event of the batch, nor the one at hand, names a pointer that was deleted: *)
(* a socket may be closed, by a call for another one, while its own event waits. *)
PointersKept ==
    \A e \in manager.batch \cup {manager.current} :
        e.sock # None => pointer[e.sock] # "freed"

(* handle calls a socket only while its owner has not closed it: the object may *)
(* not exist any more.                                                            *)
CalledIsOpen == calls # <<>> => stage[manager.current.sock] = "open"

(* Whatever is closed, and whenever: the manager reads no pointer that was freed and *)
(* calls no socket that was closed.                                                   *)
ClosedIsLeft == PointersKept /\ CalledIsOpen

(* A socket can be closed whatever the manager's thread is doing with it: remove *)
(* is said to avoid a dead lock on the deletion of sockets.                       *)
NoEmbrace == ~Embraced

====
