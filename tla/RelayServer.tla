---- MODULE RelayServer ----
(* The relays between peers that cannot reach each other (RelayServer.cpp).  A  *)
(* relay joins two addresses of two peers on the port of a socket, which several *)
(* relays share as long as no address is in two of them.  Relays are known by    *)
(* four tables: the server's, each peer's, each socket's addresses, and the turn *)
(* peers that the application sees.                                              *)
EXTENDS Naturals, FiniteSets, FiniteSetsExt, Functions

CONSTANTS
    Peers, Addresses,
    LastPort,  \* 65535 in the code, where the first port is 60000; here it is 1
    MaxRelays  \* bound: relays created

RelayAssumption == LastPort \in Nat \ {0} /\ MaxRelays \in Nat

VARIABLES
    relays,    \* _relays: number of a relay to what it is
    byPeer,    \* _peers
    sockets,   \* _sockets: port to the addresses relayed on it, and their relay
    relayable, \* the peers' flag
    turns,     \* the peers' turnPeers
    alive,     \* the peers that exist
    created,   \* counter of the bound
    corrupted  \* a deleted socket was used

vars == <<relays, byPeer, sockets, relayable, turns, alive, created, corrupted>>

Relay == [first : Peers, near : Addresses, second : Peers, far : Addresses,
          port : 1 .. LastPort, received : BOOLEAN, idle : BOOLEAN]

TypeOK ==
    /\ DOMAIN relays \subseteq 1 .. created /\ Range(relays) \subseteq Relay
    /\ DOMAIN byPeer \subseteq Peers /\ Range(byPeer) \subseteq SUBSET (1 .. created)
    /\ DOMAIN sockets \subseteq 1 .. LastPort
    /\ \A port \in DOMAIN sockets :
          DOMAIN sockets[port] \subseteq Addresses /\ Range(sockets[port]) \subseteq 1 .. created
    /\ relayable \subseteq Peers /\ alive \subseteq Peers /\ turns \subseteq Peers \X Peers
    /\ created \in Nat /\ corrupted \in BOOLEAN

Init ==
    /\ relays = <<>> /\ byPeer = <<>> /\ sockets = <<>>
    /\ relayable = {} /\ turns = {} /\ alive = Peers /\ created = 0 /\ corrupted = FALSE

Of(peer) == IF peer \in DOMAIN byPeer THEN byPeer[peer] ELSE {}
Ends(r) == {relays[r].near, relays[r].far}
Between(r) == {<<relays[r].first, relays[r].second>>, <<relays[r].second, relays[r].first>>}

-----------------------------------------------------------------------------
(* add.  The sockets are looked at in the order of their ports, until one has   *)
(* this relay, or can have it.                                                   *)

Has(port, a, b) == a \in DOMAIN sockets[port] /\ Ends(sockets[port][a]) = {a, b}

(* Variant: the other address may be relayed on this port already. *)
CanHaveEither(port, a, b) == a \notin DOMAIN sockets[port]
CanHave(port, a, b) == {a, b} \cap DOMAIN sockets[port] = {}

Stops(a, b) == {port \in DOMAIN sockets : Has(port, a, b) \/ CanHave(port, a, b)}

(* A table with an entry more, or another under the key. *)
With(table, key, entry) ==
    [k \in DOMAIN table \cup {key} |-> IF k = key THEN entry ELSE table[k]]

(* createRelay and the tables. *)
NewRelay(port, p, a, q, b) ==
    LET r == created + 1
        used == IF port \in DOMAIN sockets THEN sockets[port] ELSE <<>>
    IN  /\ created' = r
        /\ relays' = With(relays, r, [first |-> p, near |-> a, second |-> q, far |-> b,
                                      port |-> port, received |-> FALSE, idle |-> FALSE])
        /\ sockets' = With(sockets, port, With(With(used, b, r), a, r))
        /\ byPeer' = With(With(byPeer, q, Of(q) \cup {r}), p, Of(p) \cup {r})
        /\ relayable' = relayable \cup {p, q}
        /\ UNCHANGED <<turns, alive, corrupted>>

(* A new socket takes the port after the last one.  When it cannot be bound it is *)
(* deleted, and its pointer used by createRelay, as the loop sees it is not NULL. *)
Add(p, a, q, b, bound) ==
    LET next == IF DOMAIN sockets = {} THEN 1 ELSE Max(DOMAIN sockets) + 1 IN
    /\ ~corrupted /\ created < MaxRelays
    /\ {p, q} \subseteq alive /\ p # q /\ a # b
    /\ IF Stops(a, b) # {}
       THEN LET port == Min(Stops(a, b)) IN
            /\ bound /\ ~Has(port, a, b)
            /\ NewRelay(port, p, a, q, b)
       ELSE /\ next <= LastPort
            /\ IF bound THEN NewRelay(next, p, a, q, b)
               ELSE corrupted' = TRUE /\ UNCHANGED <<relays, byPeer, sockets, relayable, turns, alive, created>>

-----------------------------------------------------------------------------
(* A packet, on the manager's thread: the first one makes turn peers of the two. *)
Reception(port, a) ==
    LET r == sockets[port][a] IN
    /\ ~corrupted
    /\ relays' = [relays EXCEPT ![r].received = TRUE, ![r].idle = FALSE]
    /\ turns' = IF relays[r].received THEN turns ELSE turns \cup Between(r)
    /\ UNCHANGED <<byPeer, sockets, relayable, alive, created, corrupted>>

(* The timeout of a relay passes without a packet. *)
Idle(r) ==
    /\ ~corrupted /\ ~relays[r].idle
    /\ relays' = [relays EXCEPT ![r].idle = TRUE]
    /\ UNCHANGED <<byPeer, sockets, relayable, turns, alive, created, corrupted>>

(* removePeerRelay, of both its peers, and releaseRelay, for each of some relays: *)
(* the addresses go, and a socket without any.                                     *)
ReleasedTurns(gone) == turns \ UNION {Between(r) : r \in {g \in gone : relays[g].received}}

Release(gone) ==
    LET left == [port \in DOMAIN sockets |->
                    Restrict(sockets[port], {a \in DOMAIN sockets[port] : sockets[port][a] \notin gone})]
        idle == {p \in DOMAIN byPeer : byPeer[p] \subseteq gone}
    IN  /\ relays' = Restrict(relays, DOMAIN relays \ gone)
        /\ sockets' = Restrict(left, {port \in DOMAIN left : DOMAIN left[port] # {}})
        /\ byPeer' = [p \in DOMAIN byPeer \ idle |-> byPeer[p] \ gone]
        /\ relayable' = relayable \ idle
        /\ turns' = ReleasedTurns(gone)

Manage ==
    /\ ~corrupted
    /\ {r \in DOMAIN relays : relays[r].idle} # {}
    /\ Release({r \in DOMAIN relays : relays[r].idle})
    /\ UNCHANGED <<alive, created, corrupted>>

(* remove, from the end of a peer, which asks for it only if it is relayable. *)
Remove(p) ==
    /\ ~corrupted
    /\ alive' = alive \ {p}
    /\ IF p \in relayable THEN Release(Of(p)) ELSE UNCHANGED <<relays, byPeer, sockets, relayable, turns>>
    /\ UNCHANGED <<created, corrupted>>

Stop ==
    /\ ~corrupted /\ relays # <<>>
    /\ Release(DOMAIN relays)
    /\ UNCHANGED <<alive, created, corrupted>>

Next ==
    \/ \E p, q \in Peers, a, b \in Addresses, bound \in BOOLEAN : Add(p, a, q, b, bound)
    \/ \E port \in DOMAIN sockets : \E a \in DOMAIN sockets[port] : Reception(port, a)
    \/ \E r \in DOMAIN relays : Idle(r)
    \/ Manage \/ Stop
    \/ \E p \in alive : Remove(p)

Spec == Init /\ [][Next]_vars
-----------------------------------------------------------------------------
(* The tables agree: a relay is with both its peers, and on its socket under both *)
(* its addresses; a peer with relays, and no other, is relayable, so that its end *)
(* releases them; a socket without a relay does not stay.                         *)
TablesAgree ==
    /\ UNION Range(byPeer) = DOMAIN relays /\ {} \notin Range(byPeer)
    /\ relayable = DOMAIN byPeer /\ relayable \subseteq alive
    /\ \A r \in DOMAIN relays :
          /\ {p \in DOMAIN byPeer : r \in byPeer[p]} = {relays[r].first, relays[r].second}
          /\ relays[r].port \in DOMAIN sockets
    /\ \A port \in DOMAIN sockets :
          /\ sockets[port] # <<>>
          /\ Range(sockets[port]) = {r \in DOMAIN relays : relays[r].port = port}
          /\ \A r \in Range(sockets[port]) : {a \in DOMAIN sockets[port] : sockets[port][a] = r} = Ends(r)

(* The turn peers of a peer exist, and a relay that has been used joins them.      *)
TurnsAreRelayed ==
    \A t \in turns : \E r \in DOMAIN relays : relays[r].received /\ t \in Between(r)

RelaysSound == TablesAgree /\ TurnsAreRelayed
====
