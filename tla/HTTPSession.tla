---- MODULE HTTPSession ----
(* A connection of HTTP that may become one of WebSocket: HTTPSession.cpp,       *)
(* HTTPPacket.cpp, HTTPWriter.cpp, WSSession.cpp, and the decodings that          *)
(* TCPSession.cpp and Decoding.cpp run on a thread of the pool.  Each segment    *)
(* that TCP gives is a decoding with a packet of its own, which reads the bytes   *)
(* kept from the segments before it.                                              *)
(* The client waits for its answer before it asks again, so that a segment has   *)
(* bytes of one request; frames of a WebSocket are masked, as a client must.     *)
EXTENDS Naturals, Sequences, FiniteSets, Functions

CONSTANTS
    Paths,
    Kinds,       \* kinds of requests, "upgrade" to WebSocket among them
    Frames,      \* of a WebSocket
    MaxRequests  \* bound of requests and frames

HTTPAssumption ==
    /\ Kinds \subseteq {"file", "live", "call", "options", "bad", "upgrade"}
    /\ Frames \subseteq {"text", "ping", "close"} /\ MaxRequests \in Nat /\ Paths # {}

VARIABLES
    requests,     \* what the client sent: its kind, path and where it was cut, if it was
    waiting,      \* the client waits for an answer
    wire,         \* segments that come: the request, and whether it ends there
    decodings,    \* _decodings; a decoding is the number of its segment
    jobs,         \* decodings queued on the pool's thread, which waits when handed
    handed,
    packets,      \* _packets
    buffer,       \* the bytes kept: of the request, whether they begin it (0: none)
    parsed,       \* of each decoding: the request, and whether its packet has it all
    peer,         \* connected, its path, the listener's pointer and whether it is listed
    isWS,
    died,
    disconnecting, \* no byte can be sent
    handled       \* history: the last request, and the packet that it was handled with

vars == <<requests, waiting, wire, decodings, jobs, handed, packets, buffer, parsed,
          peer, isWS, died, disconnecting, handled>>

NoPath == "none"

TypeOK ==
    /\ Len(requests) <= MaxRequests
    /\ \A i \in DOMAIN requests : requests[i].kind \in Kinds \cup Frames
    /\ peer \in [connected : BOOLEAN, path : Paths \cup {NoPath}, listener : BOOLEAN, listed : BOOLEAN]
    /\ {waiting, handed, isWS, died, disconnecting} \subseteq BOOLEAN
    /\ \A s \in {decodings, jobs, packets} : Range(s) \subseteq DOMAIN parsed

Init ==
    /\ requests = <<>> /\ waiting = FALSE /\ wire = <<>>
    /\ decodings = <<>> /\ jobs = <<>> /\ handed = FALSE /\ packets = <<>> /\ buffer = 0 /\ parsed = <<>>
    /\ peer = [connected |-> FALSE, path |-> NoPath, listener |-> FALSE, listed |-> FALSE]
    /\ isWS = FALSE /\ died = FALSE /\ disconnecting = FALSE
    /\ handled = [request |-> 0, of |-> 0, whole |-> TRUE]

-----------------------------------------------------------------------------
(* The client.  A request may come in two segments, cut in its header or in its  *)
(* body; a frame does not wait.                                                   *)
Sends(kind, path, cut) ==
    LET n == Len(requests) + 1 IN
    /\ n <= MaxRequests /\ ~disconnecting
    /\ requests' = Append(requests, [kind |-> kind, path |-> path, cut |-> cut])
    /\ wire' = wire \o (IF cut = "no" THEN <<>> ELSE <<[request |-> n, ends |-> FALSE]>>)
                    \o <<[request |-> n, ends |-> TRUE]>>
    /\ UNCHANGED <<decodings, jobs, handed, packets, buffer, parsed, peer, isWS, died, disconnecting, handled>>

Ask ==
    /\ ~waiting /\ ~isWS
    /\ \E kind \in Kinds, path \in Paths, cut \in {"no", "header", "body"} : Sends(kind, path, cut)
    /\ waiting' = TRUE

SendFrame ==
    /\ ~waiting /\ isWS
    /\ \E kind \in Frames, path \in {peer.path} : Sends(kind, path, "no")
    /\ UNCHANGED waiting

-----------------------------------------------------------------------------
(* TCPSession::onReception: each segment is decoded on the thread; the packets   *)
(* of HTTP wait for it in order.                                                  *)
Receive ==
    /\ wire # <<>> /\ wire' = Tail(wire)
    /\ IF died THEN UNCHANGED <<decodings, jobs, packets, parsed>>
       ELSE LET id == Len(parsed) + 1 IN
            /\ parsed' = Append(parsed, [request |-> Head(wire).request, ends |-> Head(wire).ends, whole |-> FALSE])
            /\ decodings' = Append(decodings, id) /\ jobs' = Append(jobs, id)
            /\ packets' = IF isWS THEN packets ELSE Append(packets, id)
    /\ UNCHANGED <<requests, waiting, handed, buffer, peer, isWS, died, disconnecting, handled>>

(* HTTPPacket::build on the thread: without the end of the request the bytes     *)
(* are kept and the decoding ends; otherwise the session is given the request    *)
(* and the thread waits.  A frame is unmasked.                                    *)
Decode ==
    /\ jobs # <<>> /\ ~handed
    /\ LET id == Head(jobs) IN
       IF parsed[id].ends
       THEN /\ parsed' = [parsed EXCEPT ![id].whole =
                                requests[parsed[id].request].cut = "no" \/ buffer = parsed[id].request]
            /\ buffer' = 0
            /\ handed' = TRUE /\ UNCHANGED jobs
       ELSE /\ buffer' = parsed[id].request /\ jobs' = Tail(jobs) /\ UNCHANGED <<parsed, handed>>
    /\ UNCHANGED <<requests, waiting, wire, decodings, packets, peer, isWS, died, disconnecting, handled>>

(* Variant: the packets of a request's beginning are kept. *)
PacketsAll == packets

(* HTTPSession::packet: the packets that no decoding holds any more are those of *)
(* the beginning of a request.                                                    *)
Unique(id) == id \notin Range(decodings) \cup Range(jobs)
PacketsHeld == LET first == {i \in DOMAIN packets : \A j \in 1 .. i : Unique(packets[j])}
               IN  SubSeq(packets, Cardinality(first) + 1, Len(packets))
(* TCPSession::receive: the decodings that ended, and one that has not. *)
DecodingsLeft ==
    LET ended == {i \in DOMAIN decodings : \A j \in 1 .. i : decodings[j] \notin Range(jobs)}
    IN  SubSeq(decodings, Cardinality(ended) + 2, Len(decodings))

-----------------------------------------------------------------------------
Unsubscribed(p) == [p EXCEPT !.listener = FALSE, !.listed = @ /\ ~p.listener]
Disconnected(p) == [p EXCEPT !.connected = FALSE]

(* kill *)
Killed(p) == Disconnected(Unsubscribed(p))

(* What a request does for the application: the function it calls or the file it *)
(* reads may answer, or not, or fail, and a file that is not there is a stream   *)
(* that is played.                                                                *)
Outcomes(kind) ==
    IF kind = "bad" THEN {"error"}
    ELSE IF kind = "live" THEN {"listen", "error", "silent"}
    ELSE IF kind = "options" THEN {"answer", "error"}
    ELSE {"answer", "error", "silent"}

(* A packet of the beginning of a request has its command, unless that was cut,  *)
(* but not the headers that follow.                                               *)
Commands(r, whole) ==
    IF whole THEN {r.kind}
    ELSE IF r.cut = "body" THEN {r.kind}
    ELSE {"bad", IF r.kind = "upgrade" THEN "file" ELSE r.kind}

(* packetHandler, up to the request's own work: the subscription of the request  *)
(* before ends, and the peer of another path leaves.                              *)
Prepared(path) ==
    LET p == Unsubscribed(peer) IN
    [(IF p.path # path THEN Disconnected(p) ELSE p) EXCEPT !.path = path]

(* An error closes the writer, and the session's socket before the answer is     *)
(* flushed: what was written is lost.                                             *)
Closes == disconnecting' = TRUE /\ UNCHANGED waiting

(* What was written is flushed when no decoding is left. *)
Answers(written) ==
    /\ UNCHANGED disconnecting
    /\ waiting' = (waiting /\ ~(written /\ DecodingsLeft = <<>>))

Upgrades(path) ==
    /\ isWS' = TRUE
    /\ \/ peer' = [Prepared(path) EXCEPT !.connected = TRUE] /\ Answers(TRUE)
       \/ peer' = Disconnected(Prepared(path)) /\ Closes

Serves(kind, path) ==
    /\ UNCHANGED isWS
    /\ \/ /\ ~Prepared(path).connected \* onConnection refuses it
          /\ peer' = Prepared(path) /\ Closes
       \/ \E outcome \in Outcomes(kind) :
             LET p == [Prepared(path) EXCEPT !.connected = TRUE] IN
             CASE outcome = "listen" -> peer' = [p EXCEPT !.listener = TRUE, !.listed = TRUE] /\ Answers(FALSE)
               [] outcome = "error"  -> peer' = p /\ Closes
               [] outcome = "answer" -> peer' = p /\ Answers(TRUE)
               [] outcome = "silent" -> peer' = p /\ Answers(FALSE)

(* WSSession::packetHandler. *)
HandleFrame(kind) ==
    /\ UNCHANGED <<isWS, waiting, packets, handled>>
    /\ IF kind = "close" \/ ~peer.connected
       THEN peer' = Killed(peer) /\ died' = TRUE /\ disconnecting' = TRUE
       ELSE UNCHANGED <<peer, died>> /\ (UNCHANGED disconnecting \/ disconnecting' = (disconnecting \/ kind = "text"))

HandleRequest(request) ==
    LET held == PacketsHeld
        id == Head(held)
        r == requests[parsed[id].request]
    IN
    /\ packets' = Tail(held) /\ UNCHANGED died
    /\ handled' = [request |-> request, of |-> parsed[id].request, whole |-> parsed[id].whole]
    /\ \E kind \in Commands(r, parsed[id].whole) :
          IF kind = "upgrade" THEN Upgrades(r.path) ELSE Serves(kind, r.path)

(* Decoding::handle: the session handles what was decoded, and the thread's job  *)
(* is done.                                                                       *)
Handle ==
    /\ handed /\ handed' = FALSE /\ jobs' = Tail(jobs)
    /\ decodings' = DecodingsLeft
    /\ LET request == parsed[Head(jobs)].request IN
       IF died THEN UNCHANGED <<packets, peer, isWS, died, disconnecting, waiting, handled>>
       ELSE IF isWS THEN HandleFrame(requests[request].kind)
       ELSE HandleRequest(request)
    /\ UNCHANGED <<requests, wire, buffer, parsed>>

-----------------------------------------------------------------------------
(* The publication has its first packet for the listener, which begins the       *)
(* answer: its request is not known any more, and the writer closes.              *)
Push ==
    /\ peer.listed /\ ~disconnecting /\ disconnecting' = TRUE
    /\ UNCHANGED <<requests, waiting, wire, decodings, jobs, handed, packets, buffer, parsed, peer, isWS, died, handled>>

Kill ==
    /\ died' = TRUE /\ disconnecting' = TRUE /\ peer' = Killed(peer)
    /\ UNCHANGED <<requests, waiting, decodings, jobs, handed, packets, buffer, parsed, isWS, handled>>

(* manage: a connected peer that asks nothing, and listens to nothing. *)
TimesOut == ~died /\ ~isWS /\ peer.connected /\ ~peer.listener /\ Kill /\ UNCHANGED wire

(* The client leaves; what it sent may be lost. *)
Leave == ~died /\ Kill /\ wire' = <<>>

Next == Ask \/ SendFrame \/ Receive \/ Decode \/ Handle \/ Push \/ TimesOut \/ Leave

Spec == Init /\ [][Next]_vars

-----------------------------------------------------------------------------
(* A request is handled with what the client sent for it, and all of it when it  *)
(* came at once, however the requests before it came (HTTPSession.cpp:68-76,     *)
(* HTTPPacket.cpp:65-181).                                                        *)
HandledOwn ==
    /\ handled.of = handled.request
    /\ handled.request # 0 /\ requests[handled.request].cut = "no" => handled.whole

(* The session's listener is one that its publication has, and a session that   *)
(* is dead has none, which a publication would write to                          *)
(* (HTTPSession.cpp:46-56, 91-95).                                                *)
ListenerSound == peer.listed = peer.listener /\ (peer.listener => ~died /\ peer.connected)

(* Both: what a request says, it says to the session once, and leaves it as it should. *)
RequestsSound == HandledOwn /\ ListenerSound
====
