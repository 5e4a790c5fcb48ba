----------------------------- MODULE ScriptObjects -----------------------------
(* What scripts see of the server (MonaServer.cpp:457-752, Script.h:111-476,       *)
(* LUAInvoker, LUAPublication, LUAGroup): an object of Lua for each client,         *)
(* publication, listener and group they were given, known by its address, and the   *)
(* collections mona.clients, mona.publications, mona.groups, publication.listeners  *)
(* and the members of a group.  Objects and collections are changed by the handlers  *)
(* of events; what they stand for is changed by Invoker, Publication and Peer,        *)
(* around the events.  An address is used again once what was there is deleted.       *)
EXTENDS FiniteSets, Functions

CONSTANTS
    Clients, Names, Groups,
    Addresses, \* of publications and listeners
    Nobody     \* the publisher of a publication without one

ObjectsAssumption ==
    /\ Nobody \notin Clients
    /\ Clients \cap Groups = {} /\ (Clients \cup Groups) \cap Addresses = {}

VARIABLES
    connected, \* _handler.clients
    pubs,      \* of the names in use: its address, publisher and listeners (of each client, the address)
    memberships, \* of the groups: their members
    lua        \* objects: |objects; items: of an object, its collection; clients, publications, groups: mona's

vars == <<connected, pubs, memberships, lua>>

Named == DOMAIN pubs
Used == UNION {{pubs[n].at} \cup Range(pubs[n].listeners) : n \in Named}
Free == Addresses \ Used
NewPublication(at) == [at |-> at, publisher |-> Nobody, listeners |-> <<>>]
With(table, key, value) == [k \in DOMAIN table \cup {key} |-> IF k = key THEN value ELSE table[k]]
Without(table, key) == Restrict(table, DOMAIN table \ {key})

(* Invoker: a publication nobody publishes nor plays any more is erased. *)
Kept(table, n) == IF table[n].publisher = Nobody /\ table[n].listeners = <<>> THEN Without(table, n) ELSE table

(* Script::AddObject and RemoveObject; a collection goes with its object. *)
AddObject(l, o) == [l EXCEPT !.objects = @ \cup {o}]
RemoveObject(l, o) == [l EXCEPT !.objects = @ \ {o}, !.items[o] = {}]

(* LUAPublicationBase::AddListener and RemoveListener, LUAGroup::AddClient and           *)
(* RemoveClient: an item of the collection of an object that is known.                    *)
AddItem(l, o, item) == IF o \in l.objects THEN [l EXCEPT !.items[o] = @ \cup {item}] ELSE l
RemoveItem(l, o, item) == IF o \in l.objects THEN [l EXCEPT !.items[o] = @ \ {item}] ELSE l

(* LUAInvoker: the collections of mona. *)
AddClient(l, c) == [l EXCEPT !.clients = @ \cup {c}]
RemoveClient(l, c) == [l EXCEPT !.clients = @ \ {c}]
AddPublication(l, n, at) == [l EXCEPT !.publications = With(@, n, at)]
RemovePublication(l, n) == [l EXCEPT !.publications = Without(@, n)]
AddGroup(l, g) == [l EXCEPT !.groups = @ \cup {g}]
RemoveGroup(l, g) == [l EXCEPT !.groups = @ \ {g}]

Init ==
    /\ connected = {} /\ pubs = <<>> /\ memberships = [g \in Groups |-> {}]
    /\ lua = [objects |-> {}, items |-> [o \in Clients \cup Groups \cup Addresses |-> {}],
              clients |-> {}, publications |-> <<>>, groups |-> {}]

-----------------------------------------------------------------------------
(* Peer::onConnection and onDisconnection: a session has left what it published, played *)
(* and joined before.                                                                      *)
Connect(c, accepts) ==
    /\ c \notin connected
    /\ LET added == AddObject(lua, c) IN
       IF accepts THEN lua' = AddClient(added, c) /\ connected' = connected \cup {c}
                  ELSE lua' = RemoveObject(added, c) /\ UNCHANGED connected
    /\ UNCHANGED <<pubs, memberships>>
Disconnect(c) ==
    /\ c \in connected
    /\ \A n \in Named : pubs[n].publisher # c /\ c \notin DOMAIN pubs[n].listeners
    /\ \A g \in Groups : c \notin memberships[g]
    /\ connected' = connected \ {c}
    /\ lua' = RemoveObject(RemoveClient(lua, c), c)
    /\ UNCHANGED <<pubs, memberships>>

(* onPublish of MonaServer. *)
OnPublish(l, n, pub, accepts) ==
    LET added == AddObject(l, pub.at) IN
    IF accepts THEN AddPublication(added, n, pub.at)
    ELSE IF pub.listeners = <<>> THEN RemoveObject(added, pub.at) ELSE added

(* Invoker::publish and Publication::start. *)
Publish(c, n, accepts) ==
    /\ c \in connected
    /\ \E at \in IF n \in Named THEN {pubs[n].at} ELSE Free :
          LET table == IF n \in Named THEN pubs ELSE With(pubs, n, NewPublication(at)) IN
          /\ table[n].publisher = Nobody
          /\ pubs' = IF accepts THEN [table EXCEPT ![n].publisher = c] ELSE Kept(table, n)
          /\ lua' = OnPublish(lua, n, table[n], accepts)
    /\ UNCHANGED <<connected, memberships>>

(* Invoker::unpublish, Publication::stop and onUnpublish, which runs while the             *)
(* publication still has its publisher.                                                      *)
Unpublish(c, n) ==
    /\ n \in Named /\ pubs[n].publisher = c
    /\ pubs' = Kept([pubs EXCEPT ![n].publisher = Nobody], n)
    /\ LET removed == RemovePublication(lua, n) IN
       lua' = IF pubs[n].listeners = <<>> THEN RemoveObject(removed, pubs[n].at) ELSE removed
    /\ UNCHANGED <<connected, memberships>>

(* Invoker::subscribe, Publication::addListener and onSubscribe, which runs before the     *)
(* listener is in the publication.                                                            *)
Subscribe(c, n, accepts) ==
    /\ c \in connected
    /\ \E at \in IF n \in Named THEN {pubs[n].at} ELSE Free :
          LET table == IF n \in Named THEN pubs ELSE With(pubs, n, NewPublication(at)) IN
          /\ c \notin DOMAIN table[n].listeners
          /\ \E new \in Free \ {at} :
                LET added == AddItem(AddObject(lua, new), at, new) IN
                IF accepts
                THEN pubs' = [table EXCEPT ![n].listeners = With(@, c, new)] /\ lua' = added
                ELSE pubs' = Kept(table, n) /\ lua' = RemoveObject(RemoveItem(added, at, new), new)
    /\ UNCHANGED <<connected, memberships>>

(* Invoker::unsubscribe, Publication::removeListener and onUnsubscribe, which runs while  *)
(* the listener is still in the publication: "no listener left" is never so.                *)
Unsubscribe(c, n) ==
    /\ n \in Named /\ c \in DOMAIN pubs[n].listeners
    /\ pubs' = Kept([pubs EXCEPT ![n].listeners = Without(@, c)], n)
    /\ lua' = RemoveItem(AddObject(lua, pubs[n].listeners[c]), pubs[n].at, pubs[n].listeners[c])
    /\ UNCHANGED <<connected, memberships>>

(* Peer::joinGroup, onJoinGroup; Peer::onUnjoinGroup, MonaServer::onUnjoinGroup, once the *)
(* client has left the group.                                                                *)
JoinGroup(c, g) ==
    /\ c \in connected \ memberships[g]
    /\ memberships' = [memberships EXCEPT ![g] = @ \cup {c}]
    /\ lua' = AddItem(AddGroup(AddObject(lua, g), g), g, c)
    /\ UNCHANGED <<connected, pubs>>
UnjoinGroup(c, g) ==
    /\ c \in memberships[g]
    /\ memberships' = [memberships EXCEPT ![g] = @ \ {c}]
    /\ lua' = IF memberships[g] = {c} THEN RemoveObject(RemoveGroup(lua, g), g)
              ELSE RemoveItem(lua, g, c)
    /\ UNCHANGED <<connected, pubs>>

(* A script asks mona.publications(name), or listener.publication: the publication is     *)
(* known from then on.                                                                        *)
Ask(n) == /\ n \in Named /\ lua' = AddObject(lua, pubs[n].at)
          /\ UNCHANGED <<connected, pubs, memberships>>

Next ==
    \/ \E c \in Clients : \/ Disconnect(c)
                          \/ \E n \in Names : Unpublish(c, n) \/ Unsubscribe(c, n)
                          \/ \E g \in Groups : JoinGroup(c, g) \/ UnjoinGroup(c, g)
                          \/ \E accepts \in BOOLEAN :
                                \/ Connect(c, accepts)
                                \/ \E n \in Names : Publish(c, n, accepts) \/ Subscribe(c, n, accepts)
    \/ \E n \in Names : Ask(n)

Spec == Init /\ [][Next]_vars

-----------------------------------------------------------------------------
TypeOK ==
    /\ connected \subseteq Clients /\ Named \subseteq Names /\ memberships \in [Groups -> SUBSET connected]
    /\ lua.objects \subseteq Clients \cup Groups \cup Addresses

(* mona's collections are the server's: its clients, the publications that have a           *)
(* publisher, the groups that have members, with what belongs to each.                         *)
CollectionsTrue ==
    /\ lua.clients = connected
    /\ lua.groups = {g \in Groups : memberships[g] # {}}
    /\ \A g \in Groups : lua.items[g] = memberships[g]
    /\ LET published == {n \in Named : pubs[n].publisher # Nobody} IN
       lua.publications = [n \in published |-> pubs[n].at]

(* What a script finds in a collection is known and has not been deleted: an object left     *)
(* by a publication or a listener that has gone (which happens: the last listener's leaving    *)
(* is not seen) is in no collection of something alive.                                          *)
FoundIsAlive ==
    /\ lua.objects \cap (Clients \cup Groups) = lua.clients \cup lua.groups
    /\ Range(lua.publications) \subseteq lua.objects
    /\ \A n \in Named : lua.items[pubs[n].at] \subseteq Range(pubs[n].listeners) \cap lua.objects
    /\ \A a \in Free : lua.items[a] = {}

ObjectsSound == CollectionsTrue /\ FoundIsAlive
=============================================================================
