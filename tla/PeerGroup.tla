---- MODULE PeerGroup ----
(* The groups of peers (Peer.cpp, Group.h, Entities.h): a flow of a session     *)
(* joins its peer to groups and keeps a pointer to the last (FlashMainStream.cpp), *)
(* the application adds members without a session, and each is told, by the     *)
(* writer that the group is known by, of some members.  A member is the rank of *)
(* its identifier, and no two members have one identifier.  A behaviour ends     *)
(* when a writer is used that is NULL or was deleted.                              *)
EXTENDS Integers, FiniteSets, Functions

CONSTANTS
    Clients,     \* members with a session
    Virtual,     \* members of the application
    Groups,
    Flows,       \* the flows of a client
    Neighbours,  \* 6 in the code
    MaxOpen      \* bound: flows open at a time

GroupAssumption ==
    /\ Clients \cup Virtual \subseteq Nat \ {0} /\ Clients \cap Virtual = {}
    /\ Flows \subseteq Nat \ {0} /\ Neighbours \in Nat \ {0, 1} /\ MaxOpen \in Nat /\ {"none", "deleted"} \cap Groups = {}

VARIABLES
    groups,    \* _handler.groups: the groups that exist, and their members
    memberOf,  \* _groups of each: group to the writer, or NullWriter or DeletedWriter
    joined,    \* the flows that are open, and the group their stream points to
    leaving,   \* the member that leaves groups, and the group the application is being told of
    told,      \* who was told of whom by the last step
    abandoned, \* history: <<c, g>> when the flow by whose writer c knows g joined another
    crashed    \* a writer that is NULL or deleted was used

vars == <<groups, memberOf, joined, leaving, told, abandoned, crashed>>

Members == Clients \cup Virtual
NoGroup == "none"
DeletedGroup == "deleted"
NullWriter == 0
DeletedWriter == -1
Staying == [member |-> 0, todo |-> {}, left |-> {}, flow |-> 0, group |-> NoGroup, next |-> 0]

TypeOK ==
    /\ DOMAIN groups \subseteq Groups /\ Range(groups) \subseteq SUBSET Members
    /\ \A m \in Members : DOMAIN memberOf[m] \subseteq Groups /\ Range(memberOf[m]) \subseteq Flows \cup {NullWriter, DeletedWriter}
    /\ DOMAIN joined \subseteq Clients \X Flows /\ Range(joined) \subseteq Groups \cup {NoGroup, DeletedGroup}
    /\ crashed \in BOOLEAN /\ told \subseteq Groups \X Members \X Members
    /\ abandoned \subseteq Clients \X Groups

Init ==
    /\ groups = <<>> /\ memberOf = [m \in Members |-> <<>>] /\ joined = <<>>
    /\ leaving = Staying /\ told = {} /\ abandoned = {} /\ crashed = FALSE

-----------------------------------------------------------------------------
With(table, key, entry) ==
    [k \in DOMAIN table \cup {key} |-> IF k = key THEN entry ELSE table[k]]

MembersIn(g) == IF g \in DOMAIN groups THEN groups[g] ELSE {}

Above(n, S) == {k \in S : k > n}

(* The last members, in the order of the map; the newcomer does not count. *)
LastMembers(g, m) ==
    {n \in MembersIn(g) \ {m} : Cardinality(Above(n, MembersIn(g) \ {m})) < Neighbours}

(* exchangeMemberId. *)
Tells(g, who, of) ==
    /\ told' = {<<g, w, o>> : w \in who, o \in of}
    /\ crashed' = \E w \in who : memberOf[w][g] \in {NullWriter, DeletedWriter}

(* joinGroup of a client, by a flow: it is told of the last members even when   *)
(* it is one already, and remains known by the writer it joined with first.  The  *)
(* group that the stream pointed to before is not left, nor ever by this stream.    *)
Abandons(c, f, g) == {h \in DOMAIN memberOf[c] \ {g} : memberOf[c][h] = f /\ joined[<<c, f>>] = h}
Rejoins(c, f, g) == {h \in DOMAIN memberOf[c] \cap {g} : memberOf[c][h] = f}

JoinGroup(c, f, g) ==
    /\ ~crashed /\ leaving = Staying
    /\ <<c, f>> \in DOMAIN joined
    /\ abandoned' = (abandoned \ ({c} \X Rejoins(c, f, g))) \cup ({c} \X Abandons(c, f, g))
    /\ joined' = [joined EXCEPT ![<<c, f>>] = g]
    /\ told' = {<<g, c, m>> : m \in LastMembers(g, c)}
    /\ groups' = With(groups, g, MembersIn(g) \cup {c})
    /\ memberOf' = IF g \in DOMAIN memberOf[c] THEN memberOf
                   ELSE [memberOf EXCEPT ![c] = With(memberOf[c], g, f)]
    /\ UNCHANGED <<leaving, crashed>>

(* joinGroup of a member of the application: the others are told of it. *)
JoinVirtual(m, g) ==
    /\ ~crashed /\ DOMAIN memberOf[m] = {}
    /\ Tells(g, LastMembers(g, m), {m})
    /\ groups' = With(groups, g, MembersIn(g) \cup {m})
    /\ memberOf' = [memberOf EXCEPT ![m] = With(memberOf[m], g, NullWriter)]
    /\ UNCHANGED <<joined, leaving, abandoned>>

-----------------------------------------------------------------------------
(* Leaving: a flow that ends leaves its group (unjoinGroup), a member that ends *)
(* all of its groups (unsubscribeGroups), one after the other.                   *)

Leaves(m, todo, flow) ==
    /\ ~crashed /\ leaving = Staying
    /\ leaving' = [member |-> m, todo |-> todo, left |-> {}, flow |-> flow, group |-> NoGroup, next |-> 0]
    /\ told' = {}
    /\ UNCHANGED <<groups, memberOf, joined, abandoned, crashed>>

(* Variant: the stream leaves its group to the other members. *)
EndFlowJoined(c, f) ==
    /\ <<c, f>> \in DOMAIN joined
    /\ Leaves(c, {}, f)

(* The end of a flow: its stream's group may have been left by another flow, and  *)
(* when it was deleted since, the pointer may be that of a group made there later.  *)
PointsTo(c, f) ==
    IF joined[<<c, f>>] = DeletedGroup THEN {NoGroup} \cup DOMAIN memberOf[c] ELSE {joined[<<c, f>>]}
EndFlow(c, f) ==
    /\ <<c, f>> \in DOMAIN joined
    /\ \E g \in PointsTo(c, f) : Leaves(c, {g} \cap DOMAIN memberOf[c], f)

EndSession(c) ==
    /\ \E f \in Flows : <<c, f>> \in DOMAIN joined
    /\ Leaves(c, DOMAIN memberOf[c], 0)

(* onUnjoinGroup, to the call of the application, with the member that follows. *)
UnjoinGroup(g) ==
    LET m == leaving.member
        after == Above(m, groups[g])
    IN  /\ ~crashed /\ leaving.group = NoGroup /\ g \in leaving.todo
        /\ groups' = [groups EXCEPT ![g] = groups[g] \ {m}]
        /\ leaving' = [member |-> m, todo |-> leaving.todo \ {g}, left |-> leaving.left \cup {g},
                       flow |-> leaving.flow, group |-> g,
                       next |-> IF after = {} THEN 0 ELSE CHOOSE n \in after : \A k \in after : n <= k]
        /\ told' = {}
        /\ UNCHANGED <<memberOf, joined, abandoned, crashed>>

Without(g) == Restrict(groups, DOMAIN groups \ {g})

(* The member as many places before the follower, if there is one. *)
Fifth ==
    LET before == {n \in groups[leaving.group] : n < leaving.next}
    IN  {n \in before : Cardinality(Above(n, before)) = Neighbours - 2}

(* onUnjoinGroup, from there: a group without members is deleted, otherwise the *)
(* follower of the one who left is told of the member five places before it.     *)
Returned ==
    LET g == leaving.group IN
        /\ ~crashed /\ g # NoGroup
        /\ leaving' = [leaving EXCEPT !.group = NoGroup, !.next = 0]
        /\ groups' = IF groups[g] = {} THEN Without(g) ELSE groups
        /\ joined' = [k \in DOMAIN joined |->
                         IF groups[g] = {} /\ joined[k] = g THEN DeletedGroup ELSE joined[k]]
        /\ IF Fifth # {} THEN Tells(g, {leaving.next}, Fifth) ELSE Tells(g, {}, {})
        /\ UNCHANGED <<memberOf, abandoned>>

(* unjoinGroup and unsubscribeGroups forget what was left; the flow is deleted,  *)
(* or with the session all of them.                                                 *)
Writer(m, g) == IF leaving.flow # 0 /\ memberOf[m][g] = leaving.flow THEN DeletedWriter ELSE memberOf[m][g]
Left ==
    LET m == leaving.member
        ended == {k \in DOMAIN joined : k[1] = m /\ leaving.flow \in {0, k[2]}}
    IN  /\ ~crashed /\ m # 0 /\ leaving.todo = {} /\ leaving.group = NoGroup
        /\ memberOf' = [memberOf EXCEPT ![m] = [g \in DOMAIN memberOf[m] \ leaving.left |-> Writer(m, g)]]
        /\ abandoned' = abandoned \ ({m} \X leaving.left)
        /\ joined' = Restrict(joined, DOMAIN joined \ ended)
        /\ leaving' = Staying /\ told' = {}
        /\ UNCHANGED <<groups, crashed>>

(* LUAMember's release: not in a call of onUnjoinGroup, where it could delete     *)
(* what the caller goes on with.                                                  *)
ReleaseVirtual(m) ==
    /\ DOMAIN memberOf[m] # {}
    /\ Leaves(m, DOMAIN memberOf[m], 0)

-----------------------------------------------------------------------------
(* The session. *)

OpenFlow(c, f) ==
    /\ ~crashed /\ leaving = Staying /\ <<c, f>> \notin DOMAIN joined
    /\ Cardinality(DOMAIN joined) < MaxOpen
    /\ joined' = With(joined, <<c, f>>, NoGroup)
    /\ told' = {}
    /\ UNCHANGED <<groups, memberOf, leaving, abandoned, crashed>>

Next ==
    \/ \E c \in Clients : EndSession(c)
    \/ \E c \in Clients, f \in Flows : OpenFlow(c, f) \/ EndFlow(c, f) \/ \E g \in Groups : JoinGroup(c, f, g)
    \/ \E m \in Virtual : ReleaseVirtual(m) \/ \E g \in Groups : JoinVirtual(m, g)
    \/ \E g \in Groups : UnjoinGroup(g)
    \/ Returned \/ Left

Spec == Init /\ [][Next]_vars
-----------------------------------------------------------------------------
Forgetting(m) == IF m = leaving.member THEN leaving.left ELSE {}

(* A group exists while it has members, and its members are those who know they *)
(* are in it, but for the one that is leaving; exchangeMemberId relies on it.    *)
GroupsAgree ==
    /\ \A g \in DOMAIN groups \ {leaving.group} : groups[g] # {}
    /\ \A m \in Members : {g \in DOMAIN groups : m \in groups[g]} = DOMAIN memberOf[m] \ Forgetting(m)
    /\ leaving.group # NoGroup =>
          /\ leaving.group \in DOMAIN groups
          /\ leaving.next # 0 => leaving.next \in groups[leaving.group]

(* The writer by which a client is told of others is that of a flow that is open: *)
(* a writer is deleted with its flow.  Known not to: a group that the flow left     *)
(* behind when its stream joined another one.                                          *)
WritersOpen ==
    \A c \in Clients : \A g \in DOMAIN memberOf[c] :
        <<c, g>> \in abandoned \/ <<c, memberOf[c][g]>> \in DOMAIN joined

(* A member is told of members of its group, and not of itself.                   *)
ToldOfMembers == \A t \in told : t[2] # t[3] /\ {t[2], t[3]} \subseteq MembersIn(t[1])

(* Only a member of the application has no writer, so that without them, and with  *)
(* no group left behind, none is missed.                                              *)
CrashesOnlySo ==
    crashed => \/ abandoned # {}
               \/ \E m \in Virtual : DOMAIN memberOf[m] # {}

(* All of it, so that what a member is told can be relied on.                     *)
IntroducedRight == GroupsAgree /\ WritersOpen /\ ToldOfMembers /\ CrashesOnlySo
====
