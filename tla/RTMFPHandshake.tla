---- MODULE RTMFPHandshake ----
(* How an RTMFP session comes to be (RTMFPHandshake.cpp, RTMFPCookie*.cpp,     *)
(* RTMFProtocol.cpp, AttemptCounter.cpp): a client says hello, is given a      *)
(* cookie, sends it back with its key; a thread of the pool computes the       *)
(* secret and hands it to the server's thread, which creates the session; the  *)
(* client repeats itself until it is answered.  A cookie, its computation, its *)
(* peer and the session it leads to bear the same number.  The session goes    *)
(* into the table of Sessions.h and Sessions.cpp: three indexes of the same    *)
(* objects, and the counter of identifiers.                                    *)
EXTENDS Integers, FiniteSets, Sequences, Functions

CONSTANTS
    Tags,        \* the client's random tags
    PeerIds, Addresses,
    NoId,        \* the identifier of a peer whose key is not known
    IdLimit,     \* the sessions' identifiers are 0 .. IdLimit - 1: 2^32 in the code
    Life,        \* units of time in 120 s, after which attempts, cookies and silent sessions are obsolete
    DeathVisits, \* visits of a failed session before its death: 10 in the code
    MaxCookies, MaxDecoding

HandshakeAssumption ==
    /\ Life \in Nat \ {0} /\ DeathVisits \in Nat \ {0} /\ MaxCookies \in Nat /\ MaxDecoding \in Nat
    /\ NoId \notin PeerIds /\ IdLimit \in Nat \ {0, 1}

VARIABLES
    cookies,   \* the cookies created: [tag, live, keyed, id, age], keyed once their key came (farId)
    attempts,  \* _attempts: for a tag [cookie, age]; cookie 0 is the null pointer
    computing, \* RTMFPCookieComputing: [jobs, ready, packet, asking]
    peers,     \* the cookies' peers: [id, address, moved], moved (history) once the key came
               \* again from another address though the session was there
    table,     \* Sessions: [sessions, byPeer, byAddress, nextId]
    sessions,  \* objects created: [status, computing, silence, visits]
    decoding   \* packets of sessions on their way through the pool: [object, address]
vars == <<cookies, attempts, computing, peers, table, sessions, decoding>>

Cookies == 1 .. Len(cookies)
Live == {c \in Cookies : cookies[c].live}

Statuses == {"none", "open", "failed", "dead", "gone"}
NoSession == [status |-> "none", computing |-> FALSE, silence |-> 0, visits |-> 0]

TypeOK ==
    /\ cookies \in Seq([tag : Tags, live : BOOLEAN, keyed : BOOLEAN, id : 0 .. IdLimit - 1, age : 0 .. Life])
    /\ DOMAIN attempts \subseteq Tags
    /\ \A t \in DOMAIN attempts : attempts[t] \in [cookie : 0 .. Len(cookies), age : 0 .. Life]
    /\ computing \in [Cookies -> [jobs : 0 .. 2, ready : BOOLEAN, packet : BOOLEAN, asking : BOOLEAN]]
    /\ peers \in [Cookies -> [id : PeerIds \cup {NoId}, address : Addresses, moved : BOOLEAN]]
    /\ sessions \in [Cookies -> [status : Statuses, computing : BOOLEAN, silence : 0 .. Life, visits : 0 .. DeathVisits]]
    /\ table.nextId \in 0 .. IdLimit - 1
    /\ \A id \in DOMAIN table.sessions : id < IdLimit /\ table.sessions[id] \in Cookies
    /\ \A id \in DOMAIN table.byPeer : id \in PeerIds /\ table.byPeer[id] \in Cookies
    /\ \A a \in DOMAIN table.byAddress : a \in Addresses /\ table.byAddress[a] \in Cookies
    /\ decoding \subseteq [object : Cookies, address : Addresses]

-----------------------------------------------------------------------------
(* The table of sessions.  A peer is a record with an id and an address. *)

Empty == [sessions |-> <<>>, byPeer |-> <<>>, byAddress |-> <<>>, nextId |-> 1]

Put(f, key, value) == [k \in DOMAIN f \cup {key} |-> IF k = key THEN value ELSE f[k]]
Drop(f, key) == Restrict(f, DOMAIN f \ {key})

(* find: an object, or none. *)
Find(index, key, none) == IF key \in DOMAIN index THEN index[key] ELSE none

(* The identifier after the present one: only 0 is ever tested. *)
FreeId(indexes) ==
    LET next == (indexes.nextId + 1) % IdLimit
    IN  IF next = 0 /\ 0 \in DOMAIN indexes.sessions THEN 1 ELSE next

Create(indexes, object, peer) ==
    [sessions  |-> Put(indexes.sessions, indexes.nextId, object),
     byPeer    |-> Put(indexes.byPeer, peer.id, object),
     byAddress |-> Put(indexes.byAddress, peer.address, object),
     nextId    |-> FreeId(indexes)]

(* The address in peer has just replaced old. *)
UpdateAddress(indexes, object, peer, old) ==
    IF old \in DOMAIN indexes.byAddress
    THEN [indexes EXCEPT !.byAddress = Put(Drop(@, old), peer.address, object)]
    ELSE indexes

(* Variant: the entries by peer stay. *)
RemoveByIdOnly(indexes, ids, peer) ==
    [indexes EXCEPT !.sessions = Restrict(@, DOMAIN @ \ ids),
                    !.byAddress = Restrict(@, DOMAIN @ \ {peer[indexes.sessions[id]].address : id \in ids})]

(* remove, for each of these identifiers: an entry goes with whoever it names. *)
Remove(indexes, ids, peer) ==
    [indexes EXCEPT !.sessions = Restrict(@, DOMAIN @ \ ids),
                    !.byPeer = Restrict(@, DOMAIN @ \ {peer[indexes.sessions[id]].id : id \in ids}),
                    !.byAddress = Restrict(@, DOMAIN @ \ {peer[indexes.sessions[id]].address : id \in ids})]

-----------------------------------------------------------------------------
Init ==
    /\ cookies = <<>> /\ attempts = <<>> /\ computing = <<>> /\ peers = <<>> /\ sessions = <<>>
    /\ table = Empty
    /\ decoding = {}

-----------------------------------------------------------------------------
(* Cookies and attempts. *)

(* Variant: the attempt outlives the cookies it may point to. *)
ClearAttemptsNever(gone) == attempts

(* clearAttempt, for each of these cookies. *)
ClearAttempts(gone) == Restrict(attempts, DOMAIN attempts \ {cookies[c].tag : c \in gone})

DeleteCookies(gone) == [c \in Cookies |-> [cookies[c] EXCEPT !.live = @ /\ c \notin gone]]

(* 0x30/0x0a without a cookie: the application redirects the client, or the    *)
(* pool refuses the computation.                                                *)
HelloWithoutCookie(tag) ==
    /\ attempts' = IF tag \in DOMAIN attempts THEN attempts ELSE Put(attempts, tag, [cookie |-> 0, age |-> 0])
    /\ UNCHANGED <<cookies, computing, peers, table, sessions, decoding>>

(* 0x30/0x0a: a cookie for this attempt.  When it has one already, that one is  *)
(* sent again and nothing changes.                                              *)
Hello(tag, address) ==
    /\ Len(cookies) < MaxCookies
    /\ tag \in DOMAIN attempts => attempts[tag].cookie = 0
    /\ cookies' = Append(cookies, [tag |-> tag, live |-> TRUE, keyed |-> FALSE, id |-> 0, age |-> 0])
    /\ computing' = Append(computing, [jobs |-> 1, ready |-> FALSE, packet |-> FALSE, asking |-> FALSE])
    /\ peers' = Append(peers, [id |-> NoId, address |-> address, moved |-> FALSE])
    /\ sessions' = Append(sessions, NoSession)
    /\ attempts' = Put(attempts, tag, [cookie |-> Len(cookies) + 1,
                                       age |-> IF tag \in DOMAIN attempts THEN attempts[tag].age ELSE 0])
    /\ UNCHANGED <<table, decoding>>

(* 0x38.  The first one starts the computation; one that comes once the session *)
(* exists is answered again (Answered); one in between is left.  Any of them    *)
(* writes its address into the peer, which is the session's too, and the table  *)
(* does not learn of it.                                                        *)
Key(c, id, address) ==
    /\ c \in Live
    /\ peers' = [peers EXCEPT ![c] =
          [id |-> IF cookies[c].keyed THEN @.id ELSE id, address |-> address,
           moved |-> @.moved \/ (cookies[c].id > 0 /\ address # @.address)]]
    /\ IF cookies[c].keyed
       THEN UNCHANGED <<cookies, computing>>
       ELSE /\ cookies' = [cookies EXCEPT ![c].keyed = TRUE]
            /\ computing' = [computing EXCEPT ![c].jobs = @ + 1]
    /\ UNCHANGED <<attempts, table, sessions, decoding>>

Answered == {c \in Live : cookies[c].keyed /\ cookies[c].id > 0}

-----------------------------------------------------------------------------
(* The pool, and the server's thread when it is handed a computation. *)

Ready(c) == computing[c].jobs > 0 /\ ~computing[c].asking

(* run: the first execution prepares Diffie-Hellman and may fail, the next     *)
(* computes the secret; with a key that cannot be used it fails too.           *)
Compute(c, succeeds) ==
    /\ Ready(c)
    /\ LET k == computing[c]
           executed == [k EXCEPT !.jobs = k.jobs - 1]
       IN  computing' = [computing EXCEPT ![c] =
               IF ~k.ready THEN [executed EXCEPT !.ready = succeeds]
               ELSE IF k.packet \/ ~succeeds THEN executed
               ELSE [executed EXCEPT !.packet = TRUE, !.asking = TRUE]]
    /\ UNCHANGED <<cookies, attempts, peers, table, sessions, decoding>>

(* handle, createSession. *)
Handle(c) ==
    /\ computing[c].asking
    /\ computing' = [computing EXCEPT ![c].asking = FALSE]
    /\ IF c \in Live
       THEN /\ table' = Create(table, c, peers[c])
            /\ cookies' = [cookies EXCEPT ![c].id = table.nextId]
            /\ sessions' = [sessions EXCEPT ![c] = [NoSession EXCEPT !.status = "open", !.computing = TRUE]]
       ELSE UNCHANGED <<table, cookies, sessions>>
    /\ UNCHANGED <<attempts, peers, decoding>>

-----------------------------------------------------------------------------
(* Packets of a session. *)

(* onPacket: the session is found by the identifier in the packet, its cookie   *)
(* is committed, and the packet goes to the pool.                               *)
OnPacket(id, address) ==
    /\ id \in DOMAIN table.sessions \ {0}
    /\ Cardinality(decoding) < MaxDecoding
    /\ LET s == table.sessions[id]
           committed == {s} \cap (IF sessions[s].computing THEN Live ELSE {})
       IN  /\ attempts' = ClearAttempts(committed)
           /\ cookies' = DeleteCookies(committed)
           /\ sessions' = [sessions EXCEPT ![s].computing = FALSE]
           /\ decoding' = decoding \cup {[object |-> s, address |-> address]}
    /\ UNCHANGED <<computing, peers, table>>

(* What a packet does to a session that is not dead: nothing, fail it (0x0c,     *)
(* 0x18), or end it (0x4c).                                                      *)
Handled(session, outcome) ==
    [session EXCEPT !.silence = 0,
                    !.status = IF outcome = "ends" THEN "dead"
                               ELSE IF outcome = "fails" THEN "failed" ELSE @,
                    !.visits = IF outcome = "fails" /\ session.status = "open" THEN 1 ELSE @]

(* Decoding's hand-over and Session::receive: nothing for a session that expired *)
(* meanwhile, but a dead one still has its address changed.                      *)
Receive(p, outcome) ==
    LET s == p.object
        peer == [peers[s] EXCEPT !.address = p.address]
    IN  /\ decoding' = decoding \ {p}
        /\ IF sessions[s].status = "gone" THEN UNCHANGED <<peers, table, sessions>>
           ELSE /\ peers' = [peers EXCEPT ![s] = peer]
                /\ table' = IF peers[s].address = p.address THEN table
                            ELSE UpdateAddress(table, s, peer, peers[s].address)
                /\ sessions' = IF sessions[s].status = "dead" THEN sessions
                               ELSE [sessions EXCEPT ![s] = Handled(@, outcome)]
        /\ UNCHANGED <<cookies, attempts, computing>>

-----------------------------------------------------------------------------
(* ServerManager's visit: the protocols, then the sessions. *)

Aged(age, elapsed) == IF age + elapsed > Life THEN Life ELSE age + elapsed

(* RTMFPSession::manage of a session whose client is not connected: a failed    *)
(* one repeats it is, DeathVisits times in all; a silent one fails.             *)
Visited(session) ==
    IF session.status = "failed"
    THEN IF session.visits + 1 < DeathVisits THEN [session EXCEPT !.visits = @ + 1]
         ELSE [session EXCEPT !.visits = DeathVisits, !.status = "dead"]
    ELSE IF session.status = "open" /\ session.silence = Life
    THEN [session EXCEPT !.status = "failed", !.visits = 1]
    ELSE session

Manage(elapsed) ==
    LET aged == [c \in Cookies |-> [cookies[c] EXCEPT !.age = Aged(@, elapsed)]]
        fresh == {t \in DOMAIN attempts : Aged(attempts[t].age, elapsed) < Life}
        obsolete == {c \in Live : aged[c].age = Life}
        visited == [s \in Cookies |->
            IF sessions[s].status \in {"none", "gone"} THEN sessions[s]
            ELSE Visited([sessions[s] EXCEPT !.silence = Aged(@, elapsed)])]
        dead == {s \in Cookies : visited[s].status = "dead"}
    IN  /\ cookies' = [c \in Cookies |-> [aged[c] EXCEPT !.live = @ /\ c \notin obsolete]]
        /\ attempts' = [t \in fresh \cap DOMAIN ClearAttempts(obsolete) |->
                           [attempts[t] EXCEPT !.age = Aged(@, elapsed)]]
        /\ sessions' = [s \in Cookies |->
               IF s \in dead THEN [visited[s] EXCEPT !.status = "gone"] ELSE visited[s]]
        /\ table' = Remove(table, {id \in DOMAIN table.sessions : table.sessions[id] \in dead}, peers)
        /\ UNCHANGED <<computing, peers, decoding>>

Next ==
    \/ \E t \in Tags : HelloWithoutCookie(t)
    \/ \E t \in Tags, a \in Addresses : Hello(t, a)
    \/ \E c \in Live, id \in PeerIds, a \in Addresses : Key(c, id, a)
    \/ \E c \in Cookies, succeeds \in BOOLEAN : Compute(c, succeeds)
    \/ \E c \in Cookies : Handle(c)
    \/ \E id \in DOMAIN table.sessions, a \in Addresses : OnPacket(id, a)
    \/ \E p \in decoding, outcome \in {"fine", "fails", "ends"} : Receive(p, outcome)
    \/ \E elapsed \in 0 .. 1 : Manage(elapsed)

Spec == Init /\ [][Next]_vars
-----------------------------------------------------------------------------
(* An attempt points to no cookie, or to one that lives and bears its tag: the *)
(* raw pointer of HelloAttempt is read at each repetition of the hello, while  *)
(* commitCookie, manage and clear delete cookies.                              *)
AttemptsKnowTheirCookie ==
    \A t \in DOMAIN attempts :
        LET c == attempts[t].cookie IN c # 0 => c \in Live /\ cookies[c].tag = t

(* A key that is repeated is answered with a session that is in the table and  *)
(* not dead: the cookie is forgotten before the session can end, by its first  *)
(* packet, or because it is older.                                             *)
RepeatNamesLive ==
    \A c \in Answered :
        /\ cookies[c].id \in DOMAIN table.sessions /\ table.sessions[cookies[c].id] = c
        /\ sessions[c].status \in {"open", "failed"}

(* Both: a repeated hello or key finds what its first occurrence made, or nothing. *)
CookiesSound == AttemptsKnowTheirCookie /\ RepeatNamesLive

Alive(s) == sessions[s].status \in {"open", "failed", "dead"}

(* Whoever is found in one of the three indexes has not been deleted: an      *)
(* introduction (0x30/0x0f) reads two of them, for a client that may have left *)
(* or moved at any time.  The entry by address of a session whose client       *)
(* repeated its key from another address is forgotten, and may outlive it.     *)
(* Every session is found by its identifier, and by its peer's unless another  *)
(* session had the same.                                                       *)
FoundIsAlive ==
    /\ \A id \in PeerIds : LET s == Find(table.byPeer, id, 0) IN s # 0 => Alive(s)
    /\ \A a \in Addresses : LET s == Find(table.byAddress, a, 0) IN s # 0 => Alive(s) \/ peers[s].moved
    /\ \A id \in DOMAIN table.sessions : Alive(table.sessions[id])
    /\ \A s \in Cookies : Alive(s) =>
          /\ \E id \in DOMAIN table.sessions : table.sessions[id] = s
          /\ \/ Find(table.byPeer, peers[s].id, 0) = s
             \/ \E other \in Cookies \ {s} :
                   sessions[other].status # "none" /\ peers[other].id = peers[s].id

====
