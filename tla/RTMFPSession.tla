---- MODULE RTMFPSession ----
(* The life of one RTMFP session (RTMFPSession.cpp, RTMFPSession.h, with the    *)
(* parts of RTMFPWriter, RTMFPFlow, FlashMainStream and Peer it calls): its     *)
(* flows, the map of its writers, its client's connection, the ways it fails    *)
(* and its death.  What a writer numbers and repeats is RTMFPWriter; here a     *)
(* writer has data queued or not, and unacknowledged reliable data that its     *)
(* trigger watches or not.                                                      *)
EXTENDS Naturals, Sequences, FiniteSets, FiniteSetsExt, Functions

CONSTANTS
    Kinds,       \* kinds of flows the client opens: "main", "stream", "group"
    FailSignals, \* failure signals sent before death: 10 in the code
    Keepalives,  \* keepalives sent to a silent client: 10 in the code
    MaxWriters, MaxIds

SessionAssumption ==
    /\ Kinds \subseteq {"main", "stream", "group"}
    /\ FailSignals \in Nat \ {0} /\ Keepalives \in Nat /\ MaxWriters \in Nat /\ MaxIds \in Nat

VARIABLES
    writers,     \* the objects: [state, critical, queued, armed]
    map,         \* _flowWriters: identifier to object
    lastId,      \* _nextRTMFPWriterId
    flows,       \* _flows: kind to its writer's object
    group,       \* the client is in a group
    connected,   \* peer.connected
    peerWriter,  \* peer._pWriter, or 0
    failed, died, timesFailed, keepalives,
    silence,     \* time since the last packet: 0, 1 (2 minutes) or 2 (6 minutes)
    away,        \* the client will send nothing more
    farewells,   \* history: calls of onDisconnection
    closedByApp  \* history: the application closed the client's main writer
life == <<failed, died, timesFailed>>
vars == <<writers, map, lastId, flows, group, connected, peerWriter, failed, died,
          timesFailed, keepalives, silence, away, farewells, closedByApp>>

Writer == [state : {"open", "closed"}, critical : BOOLEAN, queued : BOOLEAN, armed : BOOLEAN]
Objects == 1 .. Len(writers)

TypeOK ==
    /\ writers \in Seq(Writer)
    /\ DOMAIN map \subseteq 1 .. lastId /\ Range(map) \subseteq Objects
    /\ DOMAIN flows \subseteq Kinds /\ Range(flows) \subseteq Objects
    /\ {group, connected, failed, died, away, closedByApp} \subseteq BOOLEAN
    /\ peerWriter \in 0 .. Len(writers)
    /\ timesFailed \in 0 .. FailSignals /\ keepalives \in 0 .. Keepalives
    /\ silence \in 0 .. 2 /\ farewells \in Nat

Init ==
    /\ writers = <<>> /\ map = <<>> /\ lastId = 0 /\ flows = <<>>
    /\ group = FALSE /\ connected = FALSE /\ peerWriter = 0
    /\ failed = FALSE /\ died = FALSE /\ timesFailed = 0 /\ keepalives = 0
    /\ silence = 0 /\ away = FALSE /\ farewells = 0 /\ closedByApp = FALSE

-----------------------------------------------------------------------------
(* Writers. *)

Cleared(w) == [w EXCEPT !.queued = FALSE, !.armed = FALSE]

(* close: its END is flushed at once, and repeated until acknowledged. *)
Closed(w) == IF w.state = "closed" THEN w ELSE [w EXCEPT !.state = "closed", !.queued = FALSE, !.armed = TRUE]

(* FlashMainStream::close: the error is told, and the writer closed. *)
Refused(w) == Closed(w)

(* What RTMFPWriter's constructor for a rejected writer leaves under its        *)
(* identifier.                                                                  *)
ClosedCopy == [state |-> "closed", critical |-> FALSE, queued |-> FALSE, armed |-> FALSE]

(* A table with an entry more, or another under the key. *)
With(table, key, entry) ==
    [k \in DOMAIN table \cup {key} |-> IF k = key THEN entry ELSE table[k]]

(* initWriter, for a new writer. *)
NewWriter(w) ==
    /\ Len(writers) < MaxWriters /\ lastId < MaxIds
    /\ writers' = Append(writers, w)
    /\ map' = With(map, lastId + 1, Len(writers) + 1)
    /\ lastId' = lastId + 1

-----------------------------------------------------------------------------
(* Failure and death.  An operation may fail the session half-way, so it goes   *)
(* through records of what failing changes.                                      *)

Now == [writers |-> writers, map |-> map, flows |-> flows, group |-> group,
        connected |-> connected, peerWriter |-> peerWriter, failed |-> failed, died |-> died,
        timesFailed |-> timesFailed, farewells |-> farewells]

Becomes(next) ==
    \E s \in {next} :
        /\ writers' = s.writers /\ map' = s.map /\ flows' = s.flows /\ group' = s.group
        /\ connected' = s.connected /\ peerWriter' = s.peerWriter /\ failed' = s.failed /\ died' = s.died
        /\ timesFailed' = s.timesFailed /\ farewells' = s.farewells

(* kill, once the session is failed: groups, flows (whose end closes their     *)
(* writers), the client's disconnection, writers, in that order.               *)
Dies(s) ==
    Becomes([s EXCEPT !.group = FALSE, !.flows = <<>>,
                      !.writers = [o \in DOMAIN s.writers |->
                                       IF o \in Range(s.flows) THEN Closed(s.writers[o]) ELSE s.writers[o]],
                      !.connected = FALSE, !.peerWriter = 0,
                      !.farewells = IF s.connected THEN @ + 1 ELSE @,
                      !.died = TRUE, !.map = <<>>])

(* failSignal: long is the test of 6 minutes without a packet. *)
Signals(s, long) ==
    \E t \in {[s EXCEPT !.failed = TRUE, !.timesFailed = @ + 1]} :
        IF t.timesFailed = FailSignals \/ long THEN Dies(t) ELSE Becomes(t)

(* Variant: what waits on the writers stays there. *)
FailsKeeping(s, long) ==
    IF s.failed THEN Becomes(s) ELSE Signals([s EXCEPT !.group = FALSE], long)

(* fail, with an error. *)
Fails(s, long) ==
    IF s.failed THEN Becomes(s)
    ELSE Signals([s EXCEPT !.group = FALSE,
                           !.writers = [o \in DOMAIN s.writers |->
                                            IF o \in Range(s.map) THEN Cleared(s.writers[o]) ELSE s.writers[o]]],
                 long)

-----------------------------------------------------------------------------
(* Packets.  Each updates the time of the last one; packetHandler handles the   *)
(* messages of a packet one after the other, with nothing kept between two but  *)
(* for chunks of a flow, so a message is a step.                                *)

Heard == /\ ~away /\ ~died /\ silence' = 0

(* 0x0c or 0x18. *)
ClientFails ==
    /\ Heard
    /\ Fails(Now, FALSE)
    /\ UNCHANGED <<lastId, keepalives, away, closedByApp>>

(* 0x4c: no signal is sent. *)
ClientEnds ==
    /\ Heard
    /\ Dies([Now EXCEPT !.failed = TRUE])
    /\ UNCHANGED <<lastId, keepalives, away, closedByApp>>

(* 0x01, 0x41. *)
Keepalive(answer) ==
    /\ Heard
    /\ IF answer \/ connected THEN Becomes(Now) ELSE Fails(Now, FALSE)
    /\ keepalives' = 0
    /\ UNCHANGED <<lastId, away, closedByApp>>

(* 0x51, which acknowledges all. *)
Acknowledgment(id) ==
    /\ Heard
    /\ Becomes([Now EXCEPT !.writers = [writers EXCEPT ![map[id]].armed = FALSE]])
    /\ UNCHANGED <<lastId, keepalives, away, closedByApp>>

(* RTMFPWriter::fail: the object takes a new identifier, a closed copy its old. *)
Rejected(id) ==
    LET o == map[id] IN
    IF writers[o].state = "closed" THEN UNCHANGED <<writers, map, lastId>>
    ELSE /\ Len(writers) < MaxWriters /\ lastId < MaxIds
         /\ writers' = Append([writers EXCEPT ![o] = Cleared(@)], ClosedCopy)
         /\ map' = With(With(map, id, Len(writers) + 1), lastId + 1, o)
         /\ lastId' = lastId + 1

(* 0x5e. *)
Rejection(id) ==
    /\ Heard
    /\ Rejected(id)
    /\ UNCHANGED <<flows, group, connected, peerWriter, failed, died, timesFailed, keepalives, away, farewells, closedByApp>>

(* 0x10 for a new flow. *)
OpenFlow(kind) ==
    /\ Heard /\ ~failed
    /\ kind \notin DOMAIN flows
    /\ NewWriter([state |-> "open", critical |-> kind = "main", queued |-> FALSE, armed |-> FALSE])
    /\ flows' = With(flows, kind, Len(writers) + 1)
    /\ UNCHANGED <<group, connected, peerWriter, failed, died, timesFailed, keepalives, away, farewells, closedByApp>>

(* 0x10 with the last stage of a flow, which is deleted: its writer is closed,  *)
(* and the group its stream had joined is left.                                 *)
EndFlow(kind) ==
    /\ Heard /\ ~failed
    /\ kind \in DOMAIN flows
    /\ flows' = Restrict(flows, DOMAIN flows \ {kind})
    /\ writers' = [writers EXCEPT ![flows[kind]] = Closed(@)]
    /\ group' = (group /\ kind # "group")
    /\ UNCHANGED <<map, lastId, connected, peerWriter, failed, died, timesFailed, keepalives, away, farewells, closedByApp>>

JoinGroup ==
    /\ Heard /\ ~failed
    /\ "group" \in DOMAIN flows
    /\ group' = TRUE
    /\ UNCHANGED <<writers, map, lastId, flows, connected, peerWriter, failed, died, timesFailed, keepalives, away, farewells, closedByApp>>

(* The message connect: Peer::onConnection sets the state of the writer after   *)
(* the application's handler, so a close made inside it is lost, and that of a    *)
(* client that was refused and asks again is undone; a refusal is told and the     *)
(* main writer closed.  Real clients connect by the main flow.                      *)
Connect(accepted, closing) ==
    /\ Heard /\ ~failed /\ ~connected
    /\ "main" \in DOMAIN flows
    /\ LET o == flows["main"] open == [writers[o] EXCEPT !.state = "open", !.armed = TRUE] IN
       /\ writers' = [writers EXCEPT ![o] = IF accepted THEN open ELSE Refused(open)]
       /\ peerWriter' = IF accepted THEN o ELSE 0
    /\ connected' = accepted
    /\ closedByApp' = (closedByApp \/ closing)
    /\ UNCHANGED <<map, lastId, flows, group, failed, died, timesFailed, keepalives, away, farewells>>

Leave ==
    /\ away' = TRUE
    /\ UNCHANGED <<writers, map, lastId, flows, group, connected, peerWriter, failed, died,
                   timesFailed, keepalives, silence, farewells, closedByApp>>

-----------------------------------------------------------------------------
(* The application. *)

(* A listener asks for a writer of its own. *)
AppNewWriter ==
    /\ connected /\ ~failed
    /\ NewWriter([state |-> "open", critical |-> FALSE, queued |-> FALSE, armed |-> FALSE])
    /\ UNCHANGED <<flows, group, connected, peerWriter, failed, died, timesFailed, keepalives, silence, away, farewells, closedByApp>>

(* A message, queued until a flush, or flushed and to be acknowledged. *)
AppWrite(o, flushed) ==
    /\ ~failed /\ writers[o].state = "open" /\ o \in Range(map)
    /\ writers' = [writers EXCEPT ![o] = IF flushed THEN [@ EXCEPT !.queued = FALSE, !.armed = TRUE]
                                                   ELSE [@ EXCEPT !.queued = TRUE]]
    /\ UNCHANGED <<map, lastId, flows, group, connected, peerWriter, failed, died, timesFailed,
                   keepalives, silence, away, farewells, closedByApp>>

AppClose(o) ==
    /\ o \in Range(map) /\ writers[o].state = "open"
    /\ o = peerWriter \/ o \notin Range(flows)
    /\ writers' = [writers EXCEPT ![o] = IF failed THEN [@ EXCEPT !.state = "closed"] ELSE Closed(@)]
    /\ closedByApp' = (closedByApp \/ o = peerWriter)
    /\ UNCHANGED <<map, lastId, flows, group, connected, peerWriter, failed, died, timesFailed,
                   keepalives, silence, away, farewells>>

-----------------------------------------------------------------------------
(* manage. *)

Flushed(w) == IF w.queued THEN [w EXCEPT !.queued = FALSE, !.armed = TRUE] ELSE w

(* Variant: the main writer goes like the others. *)
WalkErasing(s) ==
    \E gone \in {{id \in DOMAIN s.map : s.writers[s.map[id]].state = "closed"}} :
        Becomes([s EXCEPT !.map = Restrict(s.map, DOMAIN s.map \ gone),
                          !.writers = [o \in DOMAIN s.writers |->
                                          IF o \in Range(s.map) THEN Flushed(s.writers[o]) ELSE s.writers[o]]])

(* The walk of the writers when none gives up: the first main writer found      *)
(* closed fails the session, those before it that are closed are erased.        *)
Walk(s) ==
    \E closing \in {{id \in DOMAIN s.map : LET w == s.writers[s.map[id]] IN w.critical /\ w.state = "closed"}} :
    \E passed \in {IF closing = {} THEN DOMAIN s.map ELSE {id \in DOMAIN s.map : id < Min(closing)}} :
    \E gone \in {{id \in passed : s.writers[s.map[id]].state = "closed"}} :
    \E t \in {[s EXCEPT !.map = Restrict(s.map, DOMAIN s.map \ gone),
                        !.writers = [o \in DOMAIN s.writers |-> IF \E id \in passed : s.map[id] = o
                                                                THEN Flushed(s.writers[o]) ELSE s.writers[o]]]} :
        IF closing = {} THEN Becomes(t) ELSE Fails(t, FALSE)

(* A writer whose trigger gives up in the walk: it takes a new identifier, and  *)
(* its closed copy, visited again at the same place, is erased, so that the     *)
(* test of critical meets the copy.  The rest of the walk is Walk's.            *)
GaveUp(s, id) ==
    LET o == s.map[id] IN
    [s EXCEPT !.writers = [s.writers EXCEPT ![o] = Cleared(s.writers[o])],
              !.map = With(Restrict(s.map, DOMAIN s.map \ {id}), lastId + 1, o)]

(* A closed main writer whose trigger gives up fails the session too.           *)
Visit(elapsed, giveUps) ==
    LET long == elapsed = 2 IN
    /\ ~died
    /\ elapsed \in silence .. 2 /\ elapsed <= silence + 1
    /\ silence' = elapsed
    /\ IF failed THEN giveUps = {} /\ Signals(Now, long) /\ UNCHANGED <<keepalives, lastId>>
       ELSE IF long THEN giveUps = {} /\ Fails(Now, TRUE) /\ UNCHANGED <<keepalives, lastId>>
       ELSE IF elapsed = 1 /\ (~connected \/ keepalives = Keepalives)
       THEN giveUps = {} /\ Fails(Now, FALSE) /\ UNCHANGED <<keepalives, lastId>>
       ELSE /\ keepalives' = IF elapsed = 1 THEN keepalives + 1 ELSE keepalives
            /\ \/ giveUps = {} /\ Walk(Now) /\ UNCHANGED lastId
               \/ \E id \in giveUps :
                    /\ giveUps = {id} /\ lastId < MaxIds
                    /\ writers[map[id]].state = "open" /\ writers[map[id]].armed
                    /\ Walk(GaveUp(Now, id))
                    /\ lastId' = lastId + 1
    /\ UNCHANGED <<away, closedByApp>>

Manage == \E elapsed \in 0 .. 2, giveUps \in {{}} \cup {{id} : id \in DOMAIN map} : Visit(elapsed, giveUps)
Elapse == Visit(IF silence < 2 THEN silence + 1 ELSE 2, {})

Next ==
    \/ ClientFails \/ ClientEnds \/ Leave \/ JoinGroup
    \/ \E b \in BOOLEAN : Keepalive(b) \/ \E closing \in BOOLEAN : Connect(b, closing)
    \/ \E id \in DOMAIN map : Acknowledgment(id) \/ Rejection(id)
    \/ \E kind \in Kinds : OpenFlow(kind) \/ EndFlow(kind)
    \/ AppNewWriter
    \/ \E o \in Objects : AppClose(o) \/ \E flushed \in BOOLEAN : AppWrite(o, flushed)
    \/ Manage

Spec == Init /\ [][Next]_vars

(* ServerManager visits every two seconds, and time passes for a client that    *)
(* is gone; at most MaxIds visits see a writer give up.                          *)
FairSpec == Spec /\ WF_vars(Visit(silence, {})) /\ WF_vars(away /\ Elapse)
-----------------------------------------------------------------------------
(* The writer that the application holds as client.writer is in the map, so   *)
(* not deleted, whatever was rejected, given up or closed meanwhile; and an    *)
(* open writer of a flow is in the map too.                                     *)
HeldWritersLive ==
    /\ connected <=> peerWriter # 0
    /\ connected => peerWriter \in Range(map)
    /\ \A kind \in DOMAIN flows : writers[flows[kind]].state = "open" => flows[kind] \in Range(map)

(* A failed session has nothing left to send or repeat but its failure; a dead *)
(* one has left its groups, deleted its flows and writers, and told the         *)
(* application, once, if it had told it of the connection.                      *)
EndsClean ==
    /\ failed => \A o \in Range(map) : ~writers[o].queued /\ ~writers[o].armed
    /\ failed => ~group
    /\ died => failed /\ ~connected /\ flows = <<>> /\ map = <<>>
    /\ farewells <= 1 /\ (farewells = 1 => died)

(* Both: no writer is used after its end, whichever way the session goes. *)
SessionSound == HeldWritersLive /\ EndsClean

MainClosed == \E o \in Range(map) : writers[o].critical /\ writers[o].state = "closed"

(* A session dies when its client vanishes and when it fails; and when its main *)
(* writer is closed, by a refusal, by the client or by the application, unless     *)
(* the client connects again, and is accepted, before the next visit.                *)
EveryEndComes ==
    /\ (away \/ failed) ~> died
    /\ MainClosed ~> (died \/ (connected /\ ~MainClosed))

(* doc/api.rst:232: closing the main writer closes the entire session.               *)
ClosingEnds == closedByApp ~> died

====
