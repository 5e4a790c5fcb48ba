----------------------------- MODULE ClientProofs -----------------------------
(***************************************************************************)
(* What TLAPS proves of the life of a client of RTMFP: of the handshake by *)
(* which its session comes to be, whose three indexes introduce it to      *)
(* others, for any tags, peers and addresses and any number of cookies; of *)
(* the session, for any number of writers and identifiers; of the streams  *)
(* by which clients publish and play, for any names, streams and number of *)
(* listeners; of the relay server, which joins clients that cannot reach   *)
(* each other, for any peers, addresses and ports; and of the groups in    *)
(* which they are told of each other, for any members and groups.  They    *)
(* share no state: the session is the instance RS, the streams FS, the     *)
(* relay server R, the groups G.                                           *)
(***************************************************************************)
EXTENDS RTMFPHandshake, FiniteSetTheorems, SequenceTheorems, WellFoundedInduction, TLAPS

-----------------------------------------------------------------------------
(* The handshake *)

\* What a cookie, its computation, its peer and its session are made of.
CookieRecord == [tag : Tags, live : BOOLEAN, keyed : BOOLEAN, id : 0 .. IdLimit - 1, age : 0 .. Life]
Job == [jobs : 0 .. 2, ready : BOOLEAN, packet : BOOLEAN, asking : BOOLEAN]
PeerRecord == [id : PeerIds \cup {NoId}, address : Addresses, moved : BOOLEAN]
SessionRecord == [status : Statuses, computing : BOOLEAN, silence : 0 .. Life, visits : 0 .. DeathVisits]

\* An index of Sessions leads from some keys to objects that were created.
Entries(index, keys) ==
    \A k \in DOMAIN index : k \in keys /\ index[k] \in Cookies

\* What TypeOK says, with the cookies as a function of their numbers.
Typing ==
    /\ Len(cookies) \in Nat /\ cookies \in Seq(CookieRecord)
    /\ cookies \in [Cookies -> CookieRecord]
    /\ computing \in [Cookies -> Job] /\ peers \in [Cookies -> PeerRecord]
    /\ sessions \in [Cookies -> SessionRecord]
    /\ DOMAIN attempts \subseteq Tags
    /\ \A t \in DOMAIN attempts : attempts[t] \in [cookie : 0 .. Len(cookies), age : 0 .. Life]
    /\ table.nextId \in 0 .. IdLimit - 1
    /\ Entries(table.sessions, 1 .. IdLimit - 1)
    /\ Entries(table.byPeer, PeerIds) /\ Entries(table.byAddress, Addresses)
    /\ decoding \subseteq [object : Cookies, address : Addresses]

\* The cookies for which a session was created, were it deleted since.
Created == {c \in Cookies : sessions[c].status # "none"}

\* A computation runs at most once for the hello and once for the key, makes one
\* packet, and asks the server's thread for one session.
ComputingRight ==
    \A c \in Cookies :
        /\ ~cookies[c].keyed => /\ computing[c].jobs <= 1 /\ (computing[c].ready => computing[c].jobs = 0)
                                /\ ~computing[c].packet
        /\ cookies[c].keyed => peers[c].id \in PeerIds
        /\ computing[c].ready => computing[c].jobs <= 1
        /\ computing[c].packet => computing[c].jobs = 0
        /\ computing[c].asking => computing[c].packet /\ c \notin Created
        /\ c \in Created => computing[c].packet /\ ~computing[c].asking

\* Sessions take their identifiers in order: the next one is free.
Counted ==
    /\ Len(cookies) <= MaxCookies
    /\ table.nextId = 1 + Cardinality(Created)
    /\ \A c \in Cookies : IF c \in Created THEN cookies[c].id \in 1 .. (table.nextId - 1)
                          ELSE cookies[c].id = 0

\* An entry of an index leads to a session that is not deleted, with its key, unless
\* the index is that of the addresses and the session's client moved ...
EntriesRight ==
    /\ \A id \in DOMAIN table.sessions :
          LET s == table.sessions[id] IN Alive(s) /\ cookies[s].id = id
    /\ \A p \in DOMAIN table.byPeer :
          LET s == table.byPeer[p] IN Alive(s) /\ peers[s].id = p
    /\ \A a \in DOMAIN table.byAddress :
          LET s == table.byAddress[a] IN ~peers[s].moved => Alive(s) /\ peers[s].address = a

\* ... and a session that is not deleted is found by its identifier, and by its peer's
\* unless another session had the same.
Twinned(s) == \E other \in Cookies \ {s} : other \in Created /\ peers[other].id = peers[s].id

EntriesThere ==
    \A s \in Cookies : Alive(s) =>
        /\ cookies[s].id \in DOMAIN table.sessions /\ table.sessions[cookies[s].id] = s
        /\ (peers[s].id \in DOMAIN table.byPeer /\ table.byPeer[peers[s].id] = s) \/ Twinned(s)

\* A cookie that lives is younger than the time at which it is obsolete, and its
\* session has been silent no longer than it lives: the cookie is forgotten
\* before its session can fail.
NotYetOld ==
    /\ \A c \in Live : /\ cookies[c].age < Life
                       /\ c \in Created => /\ sessions[c].computing /\ sessions[c].status = "open"
                                           /\ sessions[c].silence <= cookies[c].age
    /\ \A p \in decoding : p.object \in Created /\ ~sessions[p.object].computing

\* The indexes make a record, which a step changes field by field.
TableShape == table = [sessions |-> table.sessions, byPeer |-> table.byPeer,
                       byAddress |-> table.byAddress, nextId |-> table.nextId]

\* The inductive invariant.
HInv == /\ Typing /\ TableShape /\ AttemptsKnowTheirCookie /\ ComputingRight /\ Counted /\ EntriesRight
        /\ EntriesThere /\ NotYetOld

\* The identifiers, of 32 bits in the code, do not come round.
Bounds == HandshakeAssumption /\ MaxCookies + 1 < IdLimit

-----------------------------------------------------------------------------
(* Tables and sequences *)

\* Put adds one entry or replaces it.
LEMMA PutFacts ==
    ASSUME NEW f, NEW key, NEW value
    PROVE  /\ DOMAIN Put(f, key, value) = DOMAIN f \cup {key}
           /\ Put(f, key, value)[key] = value
           /\ \A k \in DOMAIN f : k # key => Put(f, key, value)[k] = f[k]
BY DEF Put

\* Restrict keeps the entries of some keys.
LEMMA RestrictFacts ==
    ASSUME NEW f, NEW D, D \subseteq DOMAIN f
    PROVE  DOMAIN Restrict(f, D) = D /\ \A k \in D : Restrict(f, D)[k] = f[k]
BY DEF Restrict

\* A set of natural numbers that is not empty has a least element.
LEMMA LeastNumber ==
    ASSUME NEW S, S \subseteq Nat, S # {}
    PROVE  \E x \in S : \A y \in S : x <= y
<1>1. PICK x \in S : \A y \in S : ~(<<y, x>> \in OpToRel(<, Nat))
  BY NatLessThanWellFounded, WFMin
<1>2. \A y, z \in Nat : y < z => <<y, z>> \in OpToRel(<, Nat)
  BY DEF OpToRel
<1>3. \A y \in S : ~(y < x)
  BY <1>1, <1>2
<1>4. QED
  BY <1>3

\* Append, of a function on the first numbers.
LEMMA Appended ==
    ASSUME NEW S, NEW n \in Nat, NEW f \in [1 .. n -> S], NEW x \in S
    PROVE  /\ Append(f, x) \in [1 .. (n + 1) -> S]
           /\ \A i \in 1 .. n : Append(f, x)[i] = f[i]
           /\ Append(f, x)[n + 1] = x
<1>1. f \in Seq(S) /\ Len(f) = n
  OBVIOUS
<1>2. /\ Append(f, x) \in Seq(S) /\ Len(Append(f, x)) = n + 1
      /\ \A i \in 1 .. n : Append(f, x)[i] = f[i]
      /\ Append(f, x)[n + 1] = x
  BY <1>1, AppendProperties
<1>3. Append(f, x) \in [1 .. (n + 1) -> S]
  BY <1>2, LenProperties
<1>4. QED
  BY <1>2, <1>3

\* A sequence is a function on the first numbers.
LEMMA SeqTyped ==
    ASSUME NEW S, NEW s \in Seq(S)
    PROVE  Len(s) \in Nat /\ s \in [1 .. Len(s) -> S]
BY LenProperties

\* Both forms of the types say the same of the state.
LEMMA TypingTypes == Bounds /\ Typing => TypeOK
<1> SUFFICES ASSUME Bounds, Typing PROVE TypeOK
  OBVIOUS
<1>1. \A id \in DOMAIN table.sessions : id < IdLimit /\ table.sessions[id] \in Cookies
  BY DEF Typing, Entries, Bounds, HandshakeAssumption
<1>2. QED
  BY <1>1 DEF TypeOK, Typing, Entries, CookieRecord, Job, PeerRecord, SessionRecord

\* At the start nothing was created.
LEMMA InitSound == ASSUME Bounds, Init PROVE HInv
<1>1. Len(cookies) = 0 /\ Cookies = {} /\ cookies \in Seq(CookieRecord)
  BY DEF Init, Cookies
<1>2. Created = {} /\ Live = {} /\ Cardinality(Created) = 0
  BY <1>1, FS_EmptySet DEF Created, Live
<1>3. DOMAIN attempts = {} /\ computing \in [{} -> Job] /\ peers \in [{} -> PeerRecord]
      /\ sessions \in [{} -> SessionRecord]
  BY DEF Init
<1>4. /\ table = [sessions |-> <<>>, byPeer |-> <<>>, byAddress |-> <<>>, nextId |-> 1]
      /\ DOMAIN table.sessions = {} /\ DOMAIN table.byPeer = {} /\ DOMAIN table.byAddress = {} /\ table.nextId = 1
  BY DEF Init, Empty
<1>5. Typing
  BY <1>1, <1>3, <1>4 DEF Typing, Entries, Init, Bounds, HandshakeAssumption, CookieRecord, Job, PeerRecord, SessionRecord
<1>6. TableShape /\ EntriesRight
  BY <1>4 DEF TableShape, EntriesRight
<1>7. AttemptsKnowTheirCookie
  BY <1>3 DEF AttemptsKnowTheirCookie
<1>8. ComputingRight /\ EntriesThere
  BY <1>1 DEF ComputingRight, EntriesThere
<1>9. Counted
  BY <1>1, <1>2, <1>4 DEF Counted, Bounds, HandshakeAssumption
<1>10. NotYetOld
  BY <1>2 DEF NotYetOld, Init
<1>11. QED
  BY <1>5, <1>6, <1>7, <1>8, <1>9, <1>10 DEF HInv

-----------------------------------------------------------------------------
(* Hellos and keys *)

\* A hello that gets no cookie leaves an attempt that points to none.
LEMMA HelloWithoutSound ==
    ASSUME Bounds, HInv, NEW tag \in Tags, HelloWithoutCookie(tag)
    PROVE  HInv'
<1>1. /\ UNCHANGED <<cookies, computing, peers, table, sessions, decoding>>
      /\ Typing /\ AttemptsKnowTheirCookie /\ 0 \in 0 .. Life
  BY DEF HelloWithoutCookie, HInv, Bounds, HandshakeAssumption
<1>2. /\ DOMAIN attempts' \subseteq Tags
      /\ \A t \in DOMAIN attempts' : \/ t \in DOMAIN attempts /\ attempts'[t] = attempts[t]
                                     \/ attempts'[t] = [cookie |-> 0, age |-> 0]
  <2>1. CASE tag \in DOMAIN attempts
    BY <1>1, <2>1 DEF HelloWithoutCookie, Typing
  <2>2. CASE tag \notin DOMAIN attempts
    <3> DEFINE attempt == [cookie |-> 0, age |-> 0]
    <3>1. attempts' = Put(attempts, tag, attempt)
      BY <2>2 DEF HelloWithoutCookie
    <3> HIDE DEF attempt
    <3>2. /\ DOMAIN attempts' = DOMAIN attempts \cup {tag} /\ attempts'[tag] = attempt
          /\ \A t \in DOMAIN attempts : t # tag => attempts'[t] = attempts[t]
      BY <3>1, Zenon DEF Put
    <3>3. QED
      BY <1>1, <3>2 DEF Typing, attempt
  <2>3. QED
    BY <2>1, <2>2
<1>3. Typing'
  BY <1>1, <1>2 DEF Typing, Entries, Cookies
<1>4. AttemptsKnowTheirCookie'
  BY <1>1, <1>2 DEF AttemptsKnowTheirCookie, Live, Cookies
<1>5. Cookies' = Cookies /\ Created' = Created /\ Live' = Live
  BY <1>1 DEF Cookies, Created, Live
<1>6. TableShape' /\ ComputingRight' /\ Counted' /\ NotYetOld'
  BY <1>1, <1>5 DEF HInv, TableShape, ComputingRight, Counted, NotYetOld
<1>7. EntriesRight' /\ EntriesThere'
  BY <1>1, <1>5 DEF HInv, EntriesRight, EntriesThere, Twinned, Alive
<1>8. QED
  BY <1>3, <1>4, <1>6, <1>7 DEF HInv

\* A cookie comes with its attempt, and no session yet.
LEMMA HelloSound ==
    ASSUME Bounds, HInv, NEW tag \in Tags, NEW address \in Addresses, Hello(tag, address)
    PROVE  HInv'
<1> DEFINE n == Len(cookies)
<1>1. /\ Typing /\ n \in Nat /\ n < MaxCookies /\ MaxCookies \in Nat /\ Cookies = 1 .. n
      /\ Life \in Nat \ {0} /\ DeathVisits \in Nat /\ IdLimit \in Nat \ {0}
  BY DEF Hello, HInv, Typing, Cookies, Bounds, HandshakeAssumption
<1> DEFINE cookie == [tag |-> tag, live |-> TRUE, keyed |-> FALSE, id |-> 0, age |-> 0]
           job == [jobs |-> 1, ready |-> FALSE, packet |-> FALSE, asking |-> FALSE]
           peer == [id |-> NoId, address |-> address, moved |-> FALSE]
<1>2. cookie \in CookieRecord /\ job \in Job /\ peer \in PeerRecord /\ NoSession \in SessionRecord
  BY <1>1 DEF CookieRecord, Job, PeerRecord, SessionRecord, NoSession, Statuses
<1>3. /\ cookies' = Append(cookies, cookie) /\ computing' = Append(computing, job)
      /\ peers' = Append(peers, peer) /\ sessions' = Append(sessions, NoSession)
      /\ UNCHANGED <<table, decoding>>
  BY DEF Hello
<1>4. /\ cookies' \in Seq(CookieRecord) /\ Len(cookies') = n + 1 /\ Cookies' = 1 .. (n + 1)
      /\ cookies' \in [1 .. (n + 1) -> CookieRecord]
  <2>1. cookies' \in Seq(CookieRecord) /\ Len(cookies') = n + 1
    BY <1>1, <1>2, <1>3, AppendProperties DEF Typing
  <2>2. cookies' \in [1 .. Len(cookies') -> CookieRecord]
    BY <2>1, LenProperties
  <2>3. QED
    BY <2>1, <2>2 DEF Cookies
<1>5. /\ computing' \in [1 .. (n + 1) -> Job] /\ peers' \in [1 .. (n + 1) -> PeerRecord]
      /\ sessions' \in [1 .. (n + 1) -> SessionRecord]
  BY <1>1, <1>2, <1>3, Appended DEF Typing
<1>6. ASSUME NEW i \in 1 .. n
      PROVE  /\ cookies'[i] = cookies[i] /\ computing'[i] = computing[i]
             /\ peers'[i] = peers[i] /\ sessions'[i] = sessions[i]
  BY <1>1, <1>2, <1>3, Appended DEF Typing
<1>7. /\ cookies'[n + 1] = cookie /\ computing'[n + 1] = job
      /\ peers'[n + 1] = peer /\ sessions'[n + 1] = NoSession
  BY <1>1, <1>2, <1>3, Appended DEF Typing
<1>8. /\ DOMAIN attempts' = DOMAIN attempts \cup {tag}
      /\ attempts'[tag].cookie = n + 1 /\ attempts'[tag] \in [cookie : 0 .. (n + 1), age : 0 .. Life]
      /\ \A t \in DOMAIN attempts : t # tag => attempts'[t] = attempts[t]
  <2> DEFINE age == IF tag \in DOMAIN attempts THEN attempts[tag].age ELSE 0
  <2>1. attempts' = Put(attempts, tag, [cookie |-> n + 1, age |-> age])
    BY DEF Hello
  <2>2. age \in 0 .. Life
    BY <1>1 DEF Typing
  <2> HIDE DEF age
  <2> DEFINE attempt == [cookie |-> n + 1, age |-> age]
  <2>3. attempt \in [cookie : 0 .. (n + 1), age : 0 .. Life] /\ attempt.cookie = n + 1
    BY <1>1, <2>2
  <2> HIDE DEF attempt
  <2>4. /\ DOMAIN attempts' = DOMAIN attempts \cup {tag} /\ attempts'[tag] = attempt
        /\ \A t \in DOMAIN attempts : t # tag => attempts'[t] = attempts[t]
    BY <2>1 DEF attempt, Put
  <2>5. QED
    BY <2>3, <2>4
<1> HIDE DEF n
<1>9. \A i : i \in 1 .. (n + 1) <=> i \in 1 .. n \/ i = n + 1
  BY <1>1
<1>10. Created' = Created /\ Created \subseteq 1 .. n
  BY <1>1, <1>4, <1>6, <1>7, <1>9 DEF Created, NoSession
<1>11. Live' = Live \cup {n + 1} /\ Live \subseteq 1 .. n
  BY <1>1, <1>4, <1>6, <1>7, <1>9 DEF Live
<1>12. Typing'
  <2>1. ASSUME NEW t \in DOMAIN attempts' PROVE attempts'[t] \in [cookie : 0 .. (n + 1), age : 0 .. Life]
    BY <1>1, <1>8 DEF Typing, n
  <2>2. Entries(table.sessions, 1 .. IdLimit - 1)' /\ Entries(table.byPeer, PeerIds)'
        /\ Entries(table.byAddress, Addresses)'
    BY <1>1, <1>3, <1>4, <1>9 DEF Typing, Entries
  <2>3. decoding' \subseteq [object : 1 .. (n + 1), address : Addresses]
    BY <1>1, <1>3, <1>9 DEF Typing
  <2>4. Len(cookies') \in Nat /\ DOMAIN attempts' \subseteq Tags /\ table'.nextId \in 0 .. IdLimit - 1
    BY <1>1, <1>3, <1>4, <1>8 DEF Typing
  <2>5. QED
    BY <1>4, <1>5, <2>1, <2>2, <2>3, <2>4 DEF Typing
<1>13. AttemptsKnowTheirCookie'
  <2>1. ASSUME NEW t \in DOMAIN attempts', attempts'[t].cookie # 0
        PROVE  attempts'[t].cookie \in Live' /\ cookies'[attempts'[t].cookie].tag = t
    <3>1. CASE t = tag
      BY <1>7, <1>8, <1>11, <3>1
    <3>2. CASE t # tag
      <4> DEFINE c == attempts[t].cookie
      <4>1. t \in DOMAIN attempts /\ attempts'[t] = attempts[t]
        BY <1>8, <2>1, <3>2
      <4>2. c \in Live /\ cookies[c].tag = t
        BY <2>1, <4>1 DEF HInv, AttemptsKnowTheirCookie
      <4>3. c \in Live' /\ cookies'[c] = cookies[c]
        BY <1>6, <1>11, <4>2
      <4>4. QED
        BY <4>1, <4>2, <4>3
    <3>3. QED
      BY <3>1, <3>2
  <2>2. QED
    BY <2>1 DEF AttemptsKnowTheirCookie
<1>14. ComputingRight'
  <2>1. \A c \in 1 .. n : cookies[c] = cookies'[c] /\ computing'[c] = computing[c] /\ peers'[c] = peers[c]
    BY <1>6
  <2>2. n + 1 \notin Created
    BY <1>1, <1>10
  <2>3. QED
    BY <1>1, <1>4, <1>7, <1>9, <1>10, <2>1, <2>2 DEF HInv, ComputingRight
<1>15. Counted'
  BY <1>1, <1>3, <1>4, <1>6, <1>7, <1>9, <1>10 DEF HInv, Counted, n
<1>16. EntriesRight' /\ TableShape'
  <2>1. ASSUME NEW s \in Cookies
        PROVE  (Alive(s) => Alive(s)') /\ cookies'[s] = cookies[s] /\ peers'[s] = peers[s]
    BY <1>1, <1>6 DEF Alive
  <2>2. QED
    BY <1>1, <1>3, <2>1 DEF HInv, EntriesRight, TableShape, Typing, Entries, Alive
<1>17. EntriesThere'
  <2>1. sessions'[n + 1].status = "none"
    BY <1>7 DEF NoSession
  <2>2. QED
    <3>1. ASSUME NEW s \in Cookies', Alive(s)'
          PROVE  /\ s \in Cookies /\ Alive(s) /\ cookies'[s] = cookies[s] /\ table' = table
                 /\ peers'[s] = peers[s] /\ (Twinned(s) => Twinned(s)')
      <4>1. s \in 1 .. n /\ s \in Cookies /\ cookies'[s] = cookies[s] /\ table' = table /\ peers'[s] = peers[s]
        BY <1>1, <1>3, <1>4, <1>6, <1>9, <2>1, <3>1 DEF Alive
      <4>2. Alive(s)
        BY <1>6, <3>1, <4>1 DEF Alive
      <4>3. ASSUME Twinned(s) PROVE Twinned(s)'
        <5>1. PICK other \in Cookies \ {s} : other \in Created /\ peers[other].id = peers[s].id
          BY <4>3 DEF Twinned
        <5>2. other \in Cookies' /\ other \in Created' /\ peers'[other] = peers[other]
          BY <1>1, <1>4, <1>6, <1>9, <1>10, <5>1
        <5>3. QED
          BY <4>1, <5>1, <5>2 DEF Twinned
      <4>4. QED
        BY <4>1, <4>2, <4>3
    <3>2. QED
      BY <3>1 DEF HInv, EntriesThere
<1>18. NotYetOld'
  <2>1. n + 1 \notin Created
    BY <1>1, <1>10
  <2>2. QED
    BY <1>1, <1>3, <1>6, <1>7, <1>10, <1>11, <2>1 DEF HInv, NotYetOld, Typing
<1>19. QED
  BY <1>12, <1>13, <1>14, <1>15, <1>16, <1>17, <1>18 DEF HInv

-----------------------------------------------------------------------------
\* The cookies after a step that changes some of them and creates none.
LEMMA CookiesRetyped ==
    ASSUME Typing, cookies' \in [Cookies -> CookieRecord]
    PROVE  /\ Len(cookies') = Len(cookies) /\ Cookies' = Cookies
           /\ cookies' \in Seq(CookieRecord) /\ Len(cookies') \in Nat
<1>1. Len(cookies) \in Nat /\ Cookies = 1 .. Len(cookies)
  BY DEF Typing, Cookies
<1>2. cookies' \in Seq(CookieRecord) /\ Len(cookies') = Len(cookies)
  BY <1>1
<1>3. QED
  BY <1>1, <1>2 DEF Cookies

\* The tables stay right when neither they nor the sessions change.
LEMMA TableKept ==
    ASSUME HInv, Cookies' = Cookies, Len(cookies') = Len(cookies), table' = table,
           \A s \in Cookies : sessions'[s].status = sessions[s].status,
           \A s \in Cookies : cookies'[s].id = cookies[s].id,
           \A s \in Created : peers'[s].id = peers[s].id /\ (~peers'[s].moved => peers'[s] = peers[s]),
           \A s \in Cookies : ~peers'[s].moved => ~peers[s].moved
    PROVE  /\ Created' = Created
           /\ TableShape' /\ EntriesRight' /\ EntriesThere' /\ Counted'
<1>1. Created' = Created
  BY DEF Created
<1>2. \A s \in Cookies : Alive(s) => s \in Created
  BY DEF Alive, Created
<1>3. TableShape' /\ EntriesThere'
  <2>1. ASSUME NEW s \in Cookies, Alive(s), Twinned(s) PROVE Twinned(s)'
    BY <1>1, <1>2, <2>1 DEF Twinned
  <2>2. QED
    BY <1>1, <1>2, <2>1 DEF HInv, TableShape, EntriesThere, Alive
<1>4. EntriesRight'
  <2>1. ASSUME NEW s \in Cookies, Alive(s)
        PROVE  /\ sessions'[s].status \in {"open", "failed", "dead"}
               /\ cookies'[s].id = cookies[s].id /\ peers'[s].id = peers[s].id
               /\ (~peers'[s].moved => peers'[s] = peers[s])
    BY <1>2, <2>1 DEF Alive
  <2>2. ASSUME NEW id \in DOMAIN table.sessions
        PROVE  sessions'[table.sessions[id]].status \in {"open", "failed", "dead"}
               /\ cookies'[table.sessions[id]].id = id
    BY <2>1 DEF HInv, EntriesRight, Typing, Entries
  <2>3. ASSUME NEW q \in DOMAIN table.byPeer
        PROVE  sessions'[table.byPeer[q]].status \in {"open", "failed", "dead"}
               /\ peers'[table.byPeer[q]].id = q
    BY <2>1 DEF HInv, EntriesRight, Typing, Entries
  <2>4. ASSUME NEW a \in DOMAIN table.byAddress, ~peers'[table.byAddress[a]].moved
        PROVE  sessions'[table.byAddress[a]].status \in {"open", "failed", "dead"}
               /\ peers'[table.byAddress[a]].address = a
    <3>1. table.byAddress[a] \in Cookies
      BY DEF HInv, Typing, Entries
    <3>2. Alive(table.byAddress[a]) /\ peers[table.byAddress[a]].address = a
      BY <2>4, <3>1 DEF HInv, EntriesRight
    <3>3. QED
      BY <2>1, <2>4, <3>1, <3>2
  <2>5. QED
    BY <2>2, <2>3, <2>4 DEF EntriesRight, Alive
<1>5. Counted'
  BY <1>1 DEF HInv, Counted
<1>6. QED
  BY <1>1, <1>3, <1>4, <1>5

\* A key makes the peer known, of a cookie whose session need not exist.
LEMMA KeySound ==
    ASSUME Bounds, HInv, NEW c \in Live, NEW id \in PeerIds, NEW address \in Addresses, Key(c, id, address)
    PROVE  HInv'
<1>1. Typing /\ c \in Cookies /\ UNCHANGED <<attempts, table, sessions, decoding>>
  BY DEF HInv, Live, Key
<1>2. /\ cookies[c] \in CookieRecord /\ computing[c] \in Job /\ peers[c] \in PeerRecord
      /\ cookies[c].keyed \in BOOLEAN /\ computing[c].jobs \in 0 .. 2
  BY <1>1 DEF Typing, CookieRecord, Job
<1>3. /\ peers' \in [Cookies -> PeerRecord]
      /\ \A s \in Cookies : s # c => peers'[s] = peers[s]
      /\ peers'[c].id = IF cookies[c].keyed THEN peers[c].id ELSE id
      /\ cookies[c].keyed /\ cookies[c].id > 0 /\ ~peers'[c].moved => peers'[c] = peers[c]
      /\ ~peers'[c].moved => ~peers[c].moved
  <2> DEFINE peer == [id |-> IF cookies[c].keyed THEN peers[c].id ELSE id, address |-> address,
                      moved |-> peers[c].moved \/ (cookies[c].id > 0 /\ address # peers[c].address)]
  <2>1. peers' = [peers EXCEPT ![c] = peer]
    BY DEF Key
  <2>2. /\ peers \in [Cookies -> PeerRecord] /\ peers[c].id \in PeerIds \cup {NoId}
        /\ peers[c].moved \in BOOLEAN
        /\ peers[c] = [id |-> peers[c].id, address |-> peers[c].address, moved |-> peers[c].moved]
    BY <1>1, <1>2 DEF Typing, PeerRecord
  <2>3. peer \in PeerRecord
    BY <2>2 DEF PeerRecord
  <2>4. /\ cookies[c].keyed /\ cookies[c].id > 0 /\ ~peer.moved => peer = peers[c]
        /\ ~peer.moved => ~peers[c].moved
    BY <2>2
  <2>5. peer.id = IF cookies[c].keyed THEN peers[c].id ELSE id
    OBVIOUS
  <2> HIDE DEF peer
  <2>6. QED
    BY <1>1, <2>1, <2>2, <2>3, <2>4, <2>5
<1>4. /\ cookies' \in [Cookies -> CookieRecord]
      /\ \A s \in Cookies : s # c => cookies'[s] = cookies[s]
      /\ cookies'[c].keyed /\ cookies'[c].id = cookies[c].id /\ cookies'[c].live = cookies[c].live
      /\ cookies'[c].age = cookies[c].age /\ cookies'[c].tag = cookies[c].tag
  <2>1. CASE cookies[c].keyed
    <3>1. cookies' = cookies /\ cookies \in [Cookies -> CookieRecord]
      BY <2>1 DEF Key, HInv, Typing
    <3>2. QED
      BY <2>1, <3>1
  <2>2. CASE ~cookies[c].keyed
    <3>1. cookies' = [cookies EXCEPT ![c].keyed = TRUE] /\ cookies \in [Cookies -> CookieRecord]
      BY <2>2 DEF Key, HInv, Typing
    <3>2. QED
      BY <1>1, <1>2, <3>1 DEF CookieRecord
  <2>3. QED
    BY <2>1, <2>2
<1>5. /\ computing' \in [Cookies -> Job]
      /\ \A s \in Cookies : s # c => computing'[s] = computing[s]
      /\ computing'[c].ready = computing[c].ready /\ computing'[c].packet = computing[c].packet
      /\ computing'[c].asking = computing[c].asking
      /\ computing'[c].jobs = IF cookies[c].keyed THEN computing[c].jobs ELSE computing[c].jobs + 1
  <2>1. CASE cookies[c].keyed
    BY <1>1, <1>2, <2>1 DEF Key, Typing
  <2>2. CASE ~cookies[c].keyed
    <3>1. computing' = [computing EXCEPT ![c].jobs = @ + 1] /\ computing[c].jobs <= 1
      BY <1>1, <2>2 DEF Key, HInv, ComputingRight
    <3>2. computing[c].jobs + 1 \in 0 .. 2
      BY <1>2, <3>1
    <3>3. QED
      BY <1>1, <1>2, <2>2, <3>1, <3>2 DEF Typing, Job
  <2>3. QED
    BY <2>1, <2>2
<1>6. /\ Len(cookies') = Len(cookies) /\ Cookies' = Cookies
      /\ cookies' \in Seq(CookieRecord) /\ Len(cookies') \in Nat
  BY <1>1, <1>4, CookiesRetyped
<1>7. Live' = Live
  BY <1>4, <1>6 DEF Live
<1>8. /\ Created' = Created
      /\ TableShape' /\ EntriesRight' /\ EntriesThere' /\ Counted'
  <2>1. \A s \in Created : peers'[s].id = peers[s].id /\ (~peers'[s].moved => peers'[s] = peers[s])
    <3>1. c \in Created => cookies[c].keyed /\ cookies[c].id > 0
      BY <1>1, <1>2 DEF HInv, ComputingRight, Counted, Typing
    <3>2. QED
      BY <1>3, <3>1 DEF Created
  <2>2. \A s \in Cookies : ~peers'[s].moved => ~peers[s].moved
    BY <1>3
  <2>3. QED
    BY <1>1, <1>4, <1>6, <2>1, <2>2, TableKept
<1>9. Typing'
  BY <1>1, <1>3, <1>4, <1>5, <1>6 DEF Typing, Entries
<1>10. AttemptsKnowTheirCookie'
  BY <1>1, <1>4, <1>7 DEF HInv, AttemptsKnowTheirCookie, Live
<1>11. ComputingRight'
  <2>1. ASSUME NEW s \in Cookies, s # c
        PROVE  cookies'[s] = cookies[s] /\ computing'[s] = computing[s] /\ peers'[s] = peers[s]
    BY <1>3, <1>4, <1>5, <2>1
  <2> DEFINE Right(s) ==
        /\ ~cookies[s].keyed => /\ computing[s].jobs <= 1 /\ (computing[s].ready => computing[s].jobs = 0)
                                /\ ~computing[s].packet
        /\ cookies[s].keyed => peers[s].id \in PeerIds
        /\ computing[s].ready => computing[s].jobs <= 1
        /\ computing[s].packet => computing[s].jobs = 0
        /\ computing[s].asking => computing[s].packet /\ s \notin Created
        /\ s \in Created => computing[s].packet /\ ~computing[s].asking
  <2>2. \A s \in Cookies : Right(s)
    BY DEF HInv, ComputingRight
  <2>3. /\ cookies'[c].keyed /\ peers'[c].id \in PeerIds
        /\ computing'[c].ready => computing'[c].jobs <= 1
        /\ computing'[c].packet => computing'[c].jobs = 0
        /\ computing'[c].asking => computing'[c].packet /\ c \notin Created
        /\ c \in Created => computing'[c].packet /\ ~computing'[c].asking
    BY <1>1, <1>2, <1>3, <1>4, <1>5, <2>2
  <2>4. QED
    BY <1>6, <1>8, <2>1, <2>2, <2>3 DEF ComputingRight
<1>12. NotYetOld'
  BY <1>1, <1>4, <1>7, <1>8 DEF HInv, NotYetOld, Live
<1>13. QED
  BY <1>8, <1>9, <1>10, <1>11, <1>12 DEF HInv

\* A computation asks for a session once.
LEMMA ComputeSound ==
    ASSUME Bounds, HInv, NEW c \in Cookies, NEW succeeds \in BOOLEAN, Compute(c, succeeds)
    PROVE  HInv'
<1> DEFINE k == computing[c]
<1>1. /\ Typing /\ UNCHANGED <<cookies, attempts, peers, table, sessions, decoding>>
      /\ Cookies' = Cookies
  BY DEF HInv, Compute, Cookies
<1>2. /\ computing \in [Cookies -> Job] /\ k \in Job /\ k.jobs \in 1 .. 2 /\ ~k.asking
      /\ k.ready \in BOOLEAN /\ k.packet \in BOOLEAN
  BY <1>1 DEF Typing, Job, Compute, Ready
<1>3. /\ ~cookies[c].keyed => k.jobs <= 1 /\ ~k.ready
      /\ k.ready => k.jobs <= 1
      /\ ~k.packet /\ c \notin Created
      /\ cookies[c].keyed => peers[c].id \in PeerIds
  BY <1>2 DEF HInv, ComputingRight
<1>4. Live' = Live /\ Created' = Created /\ TableShape' /\ EntriesRight' /\ EntriesThere' /\ Counted'
  BY <1>1, TableKept DEF Live
<1>5. /\ computing' \in [Cookies -> Job]
      /\ \A s \in Cookies : s # c => computing'[s] = computing[s]
      /\ computing'[c].jobs = k.jobs - 1
      /\ IF k.ready THEN /\ computing'[c].ready
                         /\ computing'[c].packet => cookies[c].keyed
                         /\ computing'[c].asking => computing'[c].packet
                    ELSE ~computing'[c].packet /\ ~computing'[c].asking
  <2> DEFINE failed == [k EXCEPT !.jobs = k.jobs - 1]
             started == [failed EXCEPT !.ready = succeeds]
             done == [failed EXCEPT !.packet = TRUE, !.asking = TRUE]
  <2>1. /\ started \in Job /\ started.jobs = k.jobs - 1 /\ ~started.packet /\ ~started.asking
        /\ failed \in Job /\ failed.jobs = k.jobs - 1 /\ failed.ready = k.ready /\ ~failed.packet
        /\ ~failed.asking
        /\ done \in Job /\ done.jobs = k.jobs - 1 /\ done.ready = k.ready /\ done.packet
    <3>1. /\ k \in Job /\ k.jobs - 1 \in 0 .. 2 /\ k.packet = FALSE /\ k.asking = FALSE
          /\ k.ready \in BOOLEAN
      BY <1>2, <1>3
    <3> HIDE DEF k
    <3>3. /\ failed \in Job /\ failed.jobs = k.jobs - 1 /\ failed.ready = k.ready /\ failed.packet = FALSE
          /\ failed.asking = FALSE
      BY <3>1 DEF Job
    <3> HIDE DEF failed
    <3>2. started \in Job /\ started.jobs = k.jobs - 1 /\ started.packet = FALSE /\ started.asking = FALSE
      BY <3>3 DEF Job
    <3>4. done \in Job /\ done.jobs = k.jobs - 1 /\ done.ready = k.ready /\ done.packet = TRUE
      BY <3>3 DEF Job
    <3>5. QED
      BY <3>2, <3>3, <3>4
  <2>2. computing' = [computing EXCEPT ![c] = IF ~k.ready THEN started
                                              ELSE IF k.packet \/ ~succeeds THEN failed ELSE done]
    BY DEF Compute
  <2> HIDE DEF started, failed, done
  <2>3. k.ready => cookies[c].keyed
    BY <1>3
  <2>4. QED
    BY <1>2, <1>3, <2>1, <2>2, <2>3
<1>6. Typing'
  BY <1>1, <1>5 DEF Typing, Entries
<1>7. AttemptsKnowTheirCookie' /\ NotYetOld'
  BY <1>1, <1>4 DEF HInv, AttemptsKnowTheirCookie, NotYetOld
<1> HIDE DEF k
<1>8. ComputingRight'
  <2>1. \A s \in Cookies : s # c => computing'[s] = computing[s]
    BY <1>5
  <2>2. /\ ~cookies[c].keyed => /\ computing'[c].jobs <= 1 /\ (computing'[c].ready => computing'[c].jobs = 0)
                                /\ ~computing'[c].packet
        /\ cookies[c].keyed => peers[c].id \in PeerIds
        /\ computing'[c].ready => computing'[c].jobs <= 1
        /\ computing'[c].packet => computing'[c].jobs = 0
        /\ computing'[c].asking => computing'[c].packet
    BY <1>2, <1>3, <1>5
  <2>3. QED
    BY <1>1, <1>3, <1>4, <2>1, <2>2 DEF HInv, ComputingRight
<1>9. QED
  BY <1>4, <1>6, <1>7, <1>8 DEF HInv

-----------------------------------------------------------------------------
(* A session is created, and receives *)

\* While identifiers do not come round, the next one is that of no session, and the
\* one after it can be stored.
LEMMA FreeIdNext ==
    ASSUME Bounds, HInv, NEW c \in Cookies, c \notin Created
    PROVE  /\ Cardinality(Created \cup {c}) = Cardinality(Created) + 1 /\ Cardinality(Created) \in Nat
           /\ table.nextId \in 1 .. IdLimit - 2
           /\ FreeId(table) = table.nextId + 1
<1>1. /\ Len(cookies) \in Nat /\ Cookies = 1 .. Len(cookies) /\ Len(cookies) <= MaxCookies
      /\ MaxCookies \in Nat /\ MaxCookies + 1 < IdLimit /\ IdLimit \in Nat
      /\ table.nextId = 1 + Cardinality(Created)
  BY DEF HInv, Typing, Cookies, Counted, Bounds, HandshakeAssumption
<1>2. IsFiniteSet(Cookies) /\ Cardinality(Cookies) = Len(cookies)
  <2>1. 1 \in Int /\ Len(cookies) \in Int /\ 1 <= Len(cookies)
    BY <1>1
  <2>2. IsFiniteSet(1 .. Len(cookies)) /\ Cardinality(1 .. Len(cookies)) = Len(cookies) - 1 + 1
    BY <2>1, FS_Interval
  <2>3. QED
    BY <1>1, <2>2
<1>3. Created \subseteq Cookies /\ Created \cup {c} \subseteq Cookies
  BY DEF Created
<1>4. IsFiniteSet(Created) /\ Cardinality(Created) \in Nat
  BY <1>2, <1>3, FS_Subset, FS_CardinalityType
<1>5. Cardinality(Created \cup {c}) = Cardinality(Created) + 1
  BY <1>4, FS_AddElement
<1>6. Cardinality(Created \cup {c}) <= Len(cookies)
  BY <1>1, <1>2, <1>3, FS_Subset
<1>7. table.nextId \in 1 .. IdLimit - 2 /\ table.nextId + 1 \in 1 .. IdLimit - 1
  BY <1>1, <1>4, <1>5, <1>6
<1>8. (table.nextId + 1) % IdLimit = table.nextId + 1
  BY <1>1, <1>7
<1>9. QED
  BY <1>4, <1>5, <1>7, <1>8 DEF FreeId

\* createSession: the session is put in the indexes under its own keys.
LEMMA HandleSound ==
    ASSUME Bounds, HInv, NEW c \in Cookies, Handle(c)
    PROVE  HInv'
<1>1. /\ Typing /\ UNCHANGED <<attempts, peers, decoding>> /\ computing[c].asking
      /\ computing' = [computing EXCEPT ![c].asking = FALSE]
      /\ computing \in [Cookies -> Job]
  BY DEF HInv, Handle, Typing
<1>2. /\ computing' \in [Cookies -> Job]
      /\ \A s \in Cookies : /\ s # c => computing'[s] = computing[s]
                            /\ computing'[s].jobs = computing[s].jobs
                            /\ computing'[s].ready = computing[s].ready
                            /\ computing'[s].packet = computing[s].packet
      /\ ~computing'[c].asking
  BY <1>1 DEF Job
<1>3. computing[c].packet /\ c \notin Created /\ cookies[c].keyed /\ peers[c].id \in PeerIds
  BY <1>1 DEF HInv, ComputingRight
<1>4. CASE c \notin Live
  <2>1. UNCHANGED <<table, cookies, sessions>> /\ Cookies' = Cookies
    BY <1>4 DEF Handle, Cookies
  <2>2. Live' = Live /\ Created' = Created /\ TableShape' /\ EntriesRight' /\ EntriesThere' /\ Counted'
    BY <1>1, <2>1, TableKept DEF Live
  <2>3. Typing'
    BY <1>1, <1>2, <2>1 DEF Typing, Entries
  <2>4. AttemptsKnowTheirCookie' /\ NotYetOld'
    BY <1>1, <2>1, <2>2 DEF HInv, AttemptsKnowTheirCookie, NotYetOld
  <2>5. ComputingRight'
    BY <1>1, <1>2, <1>3, <2>1, <2>2 DEF HInv, ComputingRight
  <2>6. QED
    BY <2>2, <2>3, <2>4, <2>5 DEF HInv
<1>5. CASE c \in Live
  <2> DEFINE id == table.nextId
  <2>1. /\ table' = Create(table, c, peers[c])
        /\ cookies' = [cookies EXCEPT ![c].id = id]
        /\ sessions' = [sessions EXCEPT ![c] = [NoSession EXCEPT !.status = "open", !.computing = TRUE]]
    BY <1>5 DEF Handle
  <2>2. /\ Cardinality(Created \cup {c}) = Cardinality(Created) + 1 /\ Cardinality(Created) \in Nat
        /\ id \in 1 .. IdLimit - 2 /\ FreeId(table) = id + 1
        /\ IdLimit \in Nat /\ Life \in Nat /\ DeathVisits \in Nat
    BY <1>3, FreeIdNext DEF Bounds, HandshakeAssumption
  <2> HIDE DEF id
  <2>3. /\ cookies \in [Cookies -> CookieRecord] /\ cookies[c] \in CookieRecord /\ id \in 0 .. IdLimit - 1
        /\ sessions \in [Cookies -> SessionRecord]
    BY <1>1, <2>2 DEF Typing
  <2>4. /\ cookies' \in [Cookies -> CookieRecord]
        /\ \A s \in Cookies : /\ s # c => cookies'[s] = cookies[s]
                              /\ cookies'[s].live = cookies[s].live /\ cookies'[s].tag = cookies[s].tag
                              /\ cookies'[s].keyed = cookies[s].keyed /\ cookies'[s].age = cookies[s].age
        /\ cookies'[c].id = id
    BY <2>1, <2>3 DEF CookieRecord
  <2>5. /\ sessions' \in [Cookies -> SessionRecord]
        /\ \A s \in Cookies : s # c => sessions'[s] = sessions[s]
        /\ sessions'[c].status = "open" /\ sessions'[c].computing /\ sessions'[c].silence = 0
    <3> DEFINE new == [NoSession EXCEPT !.status = "open", !.computing = TRUE]
    <3>1. NoSession \in SessionRecord /\ NoSession.silence = 0
      BY <2>2 DEF SessionRecord, NoSession, Statuses
    <3>2. /\ new \in SessionRecord
          /\ new.status = "open" /\ new.computing /\ new.silence = 0
      BY <3>1 DEF SessionRecord, Statuses
    <3>3. sessions' = [sessions EXCEPT ![c] = new]
      BY <2>1
    <3> HIDE DEF new
    <3>4. QED
      BY <2>3, <3>2, <3>3
  <2>6. /\ Len(cookies') = Len(cookies) /\ Cookies' = Cookies
        /\ cookies' \in Seq(CookieRecord) /\ Len(cookies') \in Nat
    BY <1>1, <2>4, CookiesRetyped
  <2>7. Live' = Live /\ Created' = Created \cup {c}
    BY <2>4, <2>5, <2>6 DEF Live, Created
  <2>8. /\ table' = [sessions |-> table'.sessions, byPeer |-> table'.byPeer,
                     byAddress |-> table'.byAddress, nextId |-> table'.nextId]
        /\ table'.sessions = Put(table.sessions, id, c) /\ table'.byPeer = Put(table.byPeer, peers[c].id, c)
        /\ table'.byAddress = Put(table.byAddress, peers[c].address, c) /\ table'.nextId = id + 1
    BY <2>1, <2>2 DEF Create, id
  <2>9. /\ DOMAIN table'.sessions = DOMAIN table.sessions \cup {id} /\ table'.sessions[id] = c
        /\ \A i \in DOMAIN table.sessions : i # id => table'.sessions[i] = table.sessions[i]
    BY <2>8 DEF Put
  <2>10. /\ DOMAIN table'.byPeer = DOMAIN table.byPeer \cup {peers[c].id} /\ table'.byPeer[peers[c].id] = c
         /\ \A p \in DOMAIN table.byPeer : p # peers[c].id => table'.byPeer[p] = table.byPeer[p]
    BY <2>8 DEF Put
  <2>11. /\ DOMAIN table'.byAddress = DOMAIN table.byAddress \cup {peers[c].address}
         /\ table'.byAddress[peers[c].address] = c
         /\ \A a \in DOMAIN table.byAddress : a # peers[c].address => table'.byAddress[a] = table.byAddress[a]
    BY <2>8 DEF Put
  <2>12. peers[c].address \in Addresses
    BY <1>1 DEF Typing, PeerRecord
  <2>13. /\ Entries(table.sessions, 1 .. IdLimit - 1)' /\ Entries(table.byPeer, PeerIds)'
         /\ Entries(table.byAddress, Addresses)'
    <3>1. Entries(table.sessions, 1 .. IdLimit - 1)'
      BY <1>1, <2>2, <2>6, <2>9 DEF Typing, Entries
    <3>2. Entries(table.byPeer, PeerIds)'
      BY <1>1, <1>3, <2>6, <2>10 DEF Typing, Entries
    <3>3. Entries(table.byAddress, Addresses)'
      BY <1>1, <2>6, <2>11, <2>12 DEF Typing, Entries
    <3>4. QED
      BY <3>1, <3>2, <3>3
  <2>14. table'.nextId \in 0 .. IdLimit - 1
    BY <2>2, <2>8
  <2>15. Typing'
    BY <1>1, <1>2, <2>4, <2>5, <2>6, <2>13, <2>14 DEF Typing
  <2>16. AttemptsKnowTheirCookie'
    BY <1>1, <2>4, <2>7 DEF HInv, AttemptsKnowTheirCookie, Live
  <2>17. ComputingRight'
    BY <1>1, <1>2, <1>3, <2>4, <2>6, <2>7 DEF HInv, ComputingRight
  <2>18. \A s \in Cookies : /\ s \in Created => cookies[s].id \in 1 .. (id - 1)
                            /\ s \notin Created => cookies[s].id = 0
    BY DEF HInv, Counted, id
  <2>19. Counted'
    <3>1. Len(cookies') <= MaxCookies /\ table'.nextId = 1 + Cardinality(Created')
      BY <2>2, <2>6, <2>7, <2>8 DEF HInv, Counted, id
    <3>2. ASSUME NEW s \in Cookies
          PROVE  IF s \in Created' THEN cookies'[s].id \in 1 .. (table'.nextId - 1) ELSE cookies'[s].id = 0
      BY <2>2, <2>4, <2>7, <2>8, <2>18
    <3>3. QED
      BY <2>6, <3>1, <3>2 DEF Counted
  <2>20. ~Alive(c) /\ sessions'[c].status \in {"open", "failed", "dead"}
         /\ \A s \in Cookies : Alive(s) => s \in Created
    BY <1>3, <2>5 DEF Alive, Created
  <2>21. EntriesRight'
    <3>1. ASSUME NEW i \in DOMAIN table'.sessions
          PROVE  sessions'[table'.sessions[i]].status \in {"open", "failed", "dead"} /\ cookies'[table'.sessions[i]].id = i
      <4>1. CASE i = id
        BY <2>4, <2>9, <2>20, <4>1 DEF Alive
      <4>2. CASE i # id
        <5>1. /\ i \in DOMAIN table.sessions /\ table'.sessions[i] = table.sessions[i]
              /\ table.sessions[i] \in Cookies
          BY <1>1, <2>9, <4>2 DEF Typing, Entries
        <5>2. Alive(table.sessions[i]) /\ cookies[table.sessions[i]].id = i
          BY <5>1 DEF HInv, EntriesRight
        <5>3. QED
          BY <2>4, <2>5, <2>20, <5>1, <5>2 DEF Alive
      <4>3. QED
        BY <4>1, <4>2
    <3>2. ASSUME NEW p \in DOMAIN table'.byPeer
          PROVE  sessions'[table'.byPeer[p]].status \in {"open", "failed", "dead"} /\ peers'[table'.byPeer[p]].id = p
      <4>1. CASE p = peers[c].id
        BY <1>1, <2>10, <2>20, <4>1 DEF Alive
      <4>2. CASE p # peers[c].id
        <5>1. /\ p \in DOMAIN table.byPeer /\ table'.byPeer[p] = table.byPeer[p]
              /\ table.byPeer[p] \in Cookies
          BY <1>1, <2>10, <4>2 DEF Typing, Entries
        <5>2. Alive(table.byPeer[p]) /\ peers[table.byPeer[p]].id = p
          BY <5>1 DEF HInv, EntriesRight
        <5>3. QED
          BY <1>1, <2>5, <2>20, <5>1, <5>2 DEF Alive
      <4>3. QED
        BY <4>1, <4>2
    <3>3. ASSUME NEW a \in DOMAIN table'.byAddress, ~peers'[table'.byAddress[a]].moved
          PROVE  sessions'[table'.byAddress[a]].status \in {"open", "failed", "dead"} /\ peers'[table'.byAddress[a]].address = a
      <4>1. CASE a = peers[c].address
        BY <1>1, <2>11, <2>20, <4>1 DEF Alive
      <4>2. CASE a # peers[c].address
        <5>1. /\ a \in DOMAIN table.byAddress /\ table'.byAddress[a] = table.byAddress[a]
              /\ table.byAddress[a] \in Cookies
          BY <1>1, <2>11, <4>2 DEF Typing, Entries
        <5>2. Alive(table.byAddress[a]) /\ peers[table.byAddress[a]].address = a
          BY <1>1, <3>3, <5>1 DEF HInv, EntriesRight
        <5>3. QED
          BY <1>1, <2>5, <2>20, <5>1, <5>2 DEF Alive
      <4>3. QED
        BY <4>1, <4>2
    <3>4. QED
      BY <3>1, <3>2, <3>3 DEF EntriesRight, Alive
  <2>22. EntriesThere'
    <3>1. ASSUME NEW s \in Cookies, sessions'[s].status \in {"open", "failed", "dead"}
          PROVE  /\ cookies'[s].id \in DOMAIN table'.sessions /\ table'.sessions[cookies'[s].id] = s
                 /\ \/ peers[s].id \in DOMAIN table'.byPeer /\ table'.byPeer[peers[s].id] = s
                    \/ Twinned(s)'
      <4>1. CASE s = c
        BY <2>4, <2>9, <2>10, <4>1
      <4>2. CASE s # c
        <5>1. Alive(s) /\ cookies'[s] = cookies[s]
          BY <2>4, <2>5, <3>1, <4>2 DEF Alive
        <5>2. /\ cookies[s].id \in DOMAIN table.sessions /\ table.sessions[cookies[s].id] = s /\ cookies[s].id # id
              /\ (peers[s].id \in DOMAIN table.byPeer /\ table.byPeer[peers[s].id] = s) \/ Twinned(s)
          BY <2>2, <2>18, <2>20, <5>1 DEF HInv, EntriesThere
        <5>3. Twinned(s) => Twinned(s)'
          BY <1>1, <2>6, <2>7 DEF Twinned
        <5>4. peers[s].id = peers[c].id => Twinned(s)'
          BY <1>1, <2>6, <2>7, <4>2 DEF Twinned
        <5>5. QED
          BY <2>9, <2>10, <5>1, <5>2, <5>3, <5>4
      <4>3. QED
        BY <4>1, <4>2
    <3>2. QED
      BY <1>1, <2>6, <3>1 DEF EntriesThere, Alive
  <2>23. NotYetOld'
    <3>1. ASSUME NEW s \in Live', s \in Created'
          PROVE  /\ sessions'[s].computing /\ sessions'[s].status = "open"
                 /\ sessions'[s].silence <= cookies'[s].age
      <4>1. CASE s = c
        <5>1. cookies'[c].age \in Nat
          BY <2>2, <2>4 DEF CookieRecord
        <5>2. QED
          BY <2>5, <4>1, <5>1
      <4>2. CASE s # c
        BY <2>4, <2>5, <2>7, <3>1, <4>2 DEF HInv, NotYetOld, Live
      <4>3. QED
        BY <4>1, <4>2
    <3>2. \A s \in Live' : cookies'[s].age < Life
      BY <2>4, <2>7 DEF HInv, NotYetOld, Live
    <3>3. \A p \in decoding' : p.object \in Created' /\ ~sessions'[p.object].computing
      BY <1>1, <1>3, <2>5, <2>7 DEF HInv, NotYetOld, Created
    <3>4. QED
      BY <3>1, <3>2, <3>3 DEF NotYetOld
  <2>24. TableShape'
    BY <2>8 DEF TableShape
  <2>25. QED
    BY <2>15, <2>16, <2>17, <2>19, <2>21, <2>22, <2>23, <2>24 DEF HInv
<1>6. QED
  BY <1>4, <1>5

-----------------------------------------------------------------------------
\* What becomes of the cookies when some are deleted, and of the attempts.
LEMMA Deleted ==
    ASSUME Typing, NEW gone, cookies' = DeleteCookies(gone)
    PROVE  /\ cookies' \in [Cookies -> CookieRecord]
           /\ \A c \in Cookies : /\ cookies'[c].live = (cookies[c].live /\ c \notin gone)
                                 /\ cookies'[c].tag = cookies[c].tag /\ cookies'[c].id = cookies[c].id
                                 /\ cookies'[c].keyed = cookies[c].keyed /\ cookies'[c].age = cookies[c].age
<1> DEFINE New(c) == [cookies[c] EXCEPT !.live = cookies[c].live /\ c \notin gone]
<1>1. ASSUME NEW c \in Cookies
      PROVE  /\ New(c) \in CookieRecord
             /\ New(c).live = (cookies[c].live /\ c \notin gone) /\ New(c).tag = cookies[c].tag
             /\ New(c).id = cookies[c].id /\ New(c).keyed = cookies[c].keyed /\ New(c).age = cookies[c].age
  <2>1. cookies[c] \in CookieRecord /\ (cookies[c].live /\ c \notin gone) \in BOOLEAN
    BY DEF Typing
  <2>2. QED
    BY <2>1 DEF CookieRecord
<1>2. cookies' = [c \in Cookies |-> New(c)]
  BY DEF DeleteCookies
<1> HIDE DEF New
<1>3. QED
  BY <1>1, <1>2

\* The attempts that are left point to cookies that are.
LEMMA AttemptsCleared ==
    ASSUME Typing, AttemptsKnowTheirCookie, Cookies' = Cookies, NEW gone,
           \A c \in Cookies : /\ cookies'[c].tag = cookies[c].tag
                              /\ cookies[c].live /\ c \notin gone => cookies'[c].live,
           DOMAIN attempts' \subseteq DOMAIN attempts \ {cookies[c].tag : c \in gone},
           \A t \in DOMAIN attempts' : attempts'[t].cookie = attempts[t].cookie
    PROVE  AttemptsKnowTheirCookie'
<1>1. ASSUME NEW t \in DOMAIN attempts', attempts'[t].cookie # 0
      PROVE  attempts'[t].cookie \in Live' /\ cookies'[attempts'[t].cookie].tag = t
  <2> DEFINE c == attempts[t].cookie
  <2>1. t \in DOMAIN attempts /\ attempts'[t].cookie = c /\ c # 0
    BY <1>1
  <2>2. c \in Live /\ cookies[c].tag = t
    BY <2>1 DEF AttemptsKnowTheirCookie
  <2>3. c \notin gone
    BY <2>2
  <2>4. QED
    BY <2>1, <2>2, <2>3 DEF Live
<1>2. QED
  BY <1>1 DEF AttemptsKnowTheirCookie

\* The first packet of a session forgets its cookie.
LEMMA OnPacketSound ==
    ASSUME Bounds, HInv, NEW id \in DOMAIN table.sessions, NEW address \in Addresses, OnPacket(id, address)
    PROVE  HInv'
<1> DEFINE s == table.sessions[id]
           committed == {s} \cap (IF sessions[s].computing THEN Live ELSE {})
           packet == [object |-> s, address |-> address]
<1>1. /\ Typing /\ AttemptsKnowTheirCookie /\ UNCHANGED <<computing, peers, table>>
      /\ attempts' = ClearAttempts(committed) /\ cookies' = DeleteCookies(committed)
      /\ sessions' = [sessions EXCEPT ![s].computing = FALSE]
      /\ decoding' = decoding \cup {packet}
  BY DEF OnPacket, HInv
<1>2. s \in Cookies /\ s \in Created
  BY DEF HInv, Typing, Entries, EntriesRight, Alive, Created
<1>3. committed \subseteq Live /\ (sessions[s].computing /\ s \in Live => s \in committed)
      /\ committed \subseteq Cookies
  BY <1>2 DEF Live
<1>4. packet \in [object : Cookies, address : Addresses] /\ packet.object = s
  BY <1>2
<1> HIDE DEF s, committed, packet
<1>5. /\ cookies' \in [Cookies -> CookieRecord]
      /\ \A c \in Cookies : /\ cookies'[c].live = (cookies[c].live /\ c \notin committed)
                            /\ cookies'[c].tag = cookies[c].tag /\ cookies'[c].id = cookies[c].id
                            /\ cookies'[c].keyed = cookies[c].keyed /\ cookies'[c].age = cookies[c].age
  BY <1>1, Deleted
<1>6. /\ Len(cookies') = Len(cookies) /\ Cookies' = Cookies
      /\ cookies' \in Seq(CookieRecord) /\ Len(cookies') \in Nat
  BY <1>1, <1>5, CookiesRetyped
<1>7. /\ sessions' \in [Cookies -> SessionRecord]
      /\ \A c \in Cookies : /\ c # s => sessions'[c] = sessions[c]
                            /\ sessions'[c].status = sessions[c].status
                            /\ sessions'[c].silence = sessions[c].silence
      /\ ~sessions'[s].computing
  <2>1. sessions \in [Cookies -> SessionRecord]
    BY <1>1 DEF Typing
  <2>2. QED
    BY <1>1, <1>2, <2>1 DEF SessionRecord
<1>8. /\ DOMAIN attempts' = DOMAIN attempts \ {cookies[c].tag : c \in committed}
      /\ \A t \in DOMAIN attempts' : attempts'[t] = attempts[t]
  BY <1>1 DEF ClearAttempts, Restrict
<1>9. Created' = Created /\ TableShape' /\ EntriesRight' /\ EntriesThere' /\ Counted'
  BY <1>1, <1>5, <1>6, <1>7, TableKept
<1>10. AttemptsKnowTheirCookie'
  BY <1>1, <1>5, <1>6, <1>8, AttemptsCleared
<1>11. Typing'
  <2>1. decoding' \subseteq [object : Cookies, address : Addresses]
    BY <1>1, <1>4 DEF Typing
  <2>2. DOMAIN attempts' \subseteq Tags
        /\ \A t \in DOMAIN attempts' : attempts'[t] \in [cookie : 0 .. Len(cookies), age : 0 .. Life]
    BY <1>1, <1>8 DEF Typing
  <2>3. QED
    BY <1>1, <1>5, <1>6, <1>7, <2>1, <2>2 DEF Typing, Entries
<1>12. ComputingRight'
  BY <1>1, <1>5, <1>6, <1>9 DEF HInv, ComputingRight
<1>13. NotYetOld'
  <2>1. Live' \subseteq Live /\ (s \in Live' => ~sessions[s].computing)
    BY <1>2, <1>3, <1>5, <1>6 DEF Live
  <2>2. s \notin Live'
    BY <1>2, <2>1 DEF HInv, NotYetOld
  <2>3. ASSUME NEW c \in Live'
        PROVE  c \in Live /\ c # s /\ c \in Cookies /\ cookies'[c].age = cookies[c].age
               /\ sessions'[c] = sessions[c]
    BY <1>5, <1>7, <2>1, <2>2 DEF Live
  <2>4. ASSUME NEW p \in decoding' PROVE p.object \in Created /\ ~sessions'[p.object].computing
    <3>1. CASE p = packet
      BY <1>2, <1>4, <1>7, <3>1
    <3>2. CASE p \in decoding
      BY <1>7, <3>2 DEF HInv, NotYetOld, Created
    <3>3. QED
      BY <1>1, <3>1, <3>2
  <2>5. QED
    BY <1>9, <2>3, <2>4 DEF HInv, NotYetOld
<1>14. QED
  BY <1>9, <1>10, <1>11, <1>12, <1>13 DEF HInv

\* A decoded packet moves its session in the index of addresses, and may end it.
LEMMA ReceiveSound ==
    ASSUME Bounds, HInv, NEW p \in decoding, NEW outcome \in {"fine", "fails", "ends"}, Receive(p, outcome)
    PROVE  HInv'
<1> DEFINE s == p.object
           old == peers[s].address
           peer == [peers[s] EXCEPT !.address = p.address]
<1>1. /\ Typing /\ UNCHANGED <<cookies, attempts, computing>> /\ decoding' = decoding \ {p}
      /\ Cookies' = Cookies /\ Live' = Live /\ Len(cookies') = Len(cookies)
  BY DEF Receive, HInv, Live, Cookies
<1>2. s \in Cookies /\ s \in Created /\ ~sessions[s].computing /\ p.address \in Addresses
  BY <1>1 DEF HInv, Typing, NotYetOld
<1>3. s \notin Live
  BY <1>2 DEF HInv, NotYetOld
<1>4. /\ peers[s] \in PeerRecord /\ sessions[s] \in SessionRecord
      /\ peers \in [Cookies -> PeerRecord] /\ sessions \in [Cookies -> SessionRecord]
  BY <1>1, <1>2 DEF Typing
<1>5. peer \in PeerRecord /\ peer.id = peers[s].id /\ peer.address = p.address /\ peer.moved = peers[s].moved
  BY <1>2, <1>4 DEF PeerRecord
<1>6. CASE sessions[s].status = "gone"
  <2>1. UNCHANGED <<peers, table, sessions>>
    BY <1>6 DEF Receive
  <2>2. Created' = Created /\ TableShape' /\ EntriesRight' /\ EntriesThere' /\ Counted'
    BY <1>1, <2>1, TableKept
  <2>3. Typing' /\ AttemptsKnowTheirCookie' /\ ComputingRight' /\ NotYetOld'
    BY <1>1, <2>1, <2>2 DEF HInv, Typing, Entries, AttemptsKnowTheirCookie, ComputingRight, NotYetOld
  <2>4. QED
    BY <2>2, <2>3 DEF HInv
<1>7. CASE sessions[s].status # "gone"
  <2>1. /\ peers' = [peers EXCEPT ![s] = peer]
        /\ table' = IF old = p.address THEN table ELSE UpdateAddress(table, s, peer, old)
        /\ sessions' = IF sessions[s].status = "dead" THEN sessions
                       ELSE [sessions EXCEPT ![s] = Handled(sessions[s], outcome)]
    BY <1>7 DEF Receive
  <2>2. Alive(s)
    BY <1>2, <1>4, <1>7 DEF Alive, Created, SessionRecord, Statuses
  <2>3. /\ peers' \in [Cookies -> PeerRecord] /\ peers'[s] = peer
        /\ \A c \in Cookies : c # s => peers'[c] = peers[c]
    BY <1>2, <1>4, <1>5, <2>1
  <2> HIDE DEF peer
  <2>4. /\ sessions' \in [Cookies -> SessionRecord]
        /\ \A c \in Cookies : c # s => sessions'[c] = sessions[c]
        /\ sessions'[s].status \in {"open", "failed", "dead"} /\ ~sessions'[s].computing
    <3>1. CASE sessions[s].status = "dead"
      BY <1>2, <1>4, <2>1, <3>1
    <3>2. CASE sessions[s].status # "dead"
      <4> DEFINE new == Handled(sessions[s], outcome)
      <4>1. new \in SessionRecord /\ new.status \in {"open", "failed", "dead"} /\ new.computing = sessions[s].computing
        <5>1. Life \in Nat /\ 1 \in 0 .. DeathVisits
          BY DEF Bounds, HandshakeAssumption
        <5> DEFINE x == sessions[s]
        <5>2. x \in SessionRecord /\ x.status \in {"open", "failed"} /\ 0 \in 0 .. Life
          BY <1>4, <2>2, <3>2, <5>1 DEF Alive
        <5> HIDE DEF x
        <5>3. CASE outcome = "fine"
          BY <5>2, <5>3 DEF Handled, SessionRecord, Statuses, x
        <5>4. CASE outcome = "fails"
          BY <5>1, <5>2, <5>4 DEF Handled, SessionRecord, Statuses, x
        <5>5. CASE outcome = "ends"
          BY <5>2, <5>5 DEF Handled, SessionRecord, Statuses, x
        <5>6. QED
          BY <5>3, <5>4, <5>5
      <4>2. sessions' = [sessions EXCEPT ![s] = new]
        BY <2>1, <3>2
      <4> HIDE DEF new
      <4>3. QED
        BY <1>2, <1>4, <4>1, <4>2
    <3>3. QED
      BY <3>1, <3>2
  <2>5. Created' = Created
    BY <1>1, <1>2, <2>4 DEF Created
  <2>6. \A c \in Cookies : Alive(c) <=> sessions'[c].status \in {"open", "failed", "dead"}
    BY <2>2, <2>4 DEF Alive
  <2>7. /\ TableShape' /\ UNCHANGED <<table.sessions, table.byPeer, table.nextId>>
        /\ \A a \in DOMAIN table'.byAddress :
              \/ a = p.address /\ table'.byAddress[a] = s
              \/ a \in DOMAIN table.byAddress /\ table'.byAddress[a] = table.byAddress[a]
                 /\ (a = old => p.address = old)
    <3>1. TableShape
      BY DEF HInv
    <3>2. CASE old = p.address \/ old \notin DOMAIN table.byAddress
      <4>1. table' = table
        BY <2>1, <3>2 DEF UpdateAddress
      <4>2. QED
        BY <3>1, <3>2, <4>1 DEF TableShape
    <3>3. CASE old # p.address /\ old \in DOMAIN table.byAddress
      <4>1. table' = [table EXCEPT !.byAddress = Put(Drop(table.byAddress, old), p.address, s)]
        BY <1>5, <2>1, <3>3 DEF UpdateAddress, peer
      <4>2. /\ table' = [sessions |-> table.sessions, byPeer |-> table.byPeer,
                         byAddress |-> Put(Drop(table.byAddress, old), p.address, s), nextId |-> table.nextId]
        BY <3>1, <4>1 DEF TableShape
      <4>3. TableShape' /\ UNCHANGED <<table.sessions, table.byPeer, table.nextId>>
            /\ table'.byAddress = Put(Drop(table.byAddress, old), p.address, s)
        BY <4>2 DEF TableShape
      <4>4. QED
        BY <4>3 DEF Put, Drop, Restrict
    <3>4. QED
      BY <3>2, <3>3
  <2>8. Typing'
    <3>1. Entries(table.sessions, 1 .. IdLimit - 1)' /\ Entries(table.byPeer, PeerIds)'
          /\ table'.nextId \in 0 .. IdLimit - 1
      BY <1>1, <2>7 DEF Typing, Entries
    <3>2. Entries(table.byAddress, Addresses)'
      BY <1>1, <1>2, <2>7 DEF Typing, Entries
    <3>3. QED
      BY <1>1, <2>3, <2>4, <3>1, <3>2 DEF Typing
  <2>9. AttemptsKnowTheirCookie'
    BY <1>1 DEF HInv, AttemptsKnowTheirCookie
  <2>10. ComputingRight'
    BY <1>1, <1>5, <2>3, <2>5 DEF HInv, ComputingRight
  <2>11. Counted'
    BY <1>1, <2>5, <2>7 DEF HInv, Counted
  <2>12. EntriesThere'
    <3>1. \A c \in Cookies : peers'[c].id = peers[c].id
      BY <1>5, <2>3
    <3>2. \A c \in Cookies : Twinned(c) => Twinned(c)'
      BY <1>1, <2>5, <3>1 DEF Twinned
    <3>3. QED
      BY <1>1, <2>6, <2>7, <3>1, <3>2 DEF HInv, EntriesThere, Alive
  <2>13. EntriesRight'
    <3>1. ASSUME NEW id \in DOMAIN table.sessions
          PROVE  sessions'[table.sessions[id]].status \in {"open", "failed", "dead"}
                 /\ cookies'[table.sessions[id]].id = id
      BY <1>1, <2>6 DEF HInv, Typing, Entries, EntriesRight
    <3>2. ASSUME NEW q \in DOMAIN table.byPeer
          PROVE  sessions'[table.byPeer[q]].status \in {"open", "failed", "dead"}
                 /\ peers'[table.byPeer[q]].id = q
      BY <1>1, <1>5, <2>3, <2>6 DEF HInv, Typing, Entries, EntriesRight
    <3>3. ASSUME NEW a \in DOMAIN table'.byAddress, ~peers'[table'.byAddress[a]].moved
          PROVE  sessions'[table'.byAddress[a]].status \in {"open", "failed", "dead"}
                 /\ peers'[table'.byAddress[a]].address = a
      <4>1. CASE a = p.address /\ table'.byAddress[a] = s
        BY <1>5, <2>3, <2>4, <4>1
      <4>2. CASE a \in DOMAIN table.byAddress /\ table'.byAddress[a] = table.byAddress[a]
                 /\ (a = old => p.address = old)
        <5> DEFINE c == table.byAddress[a]
        <5>1. c \in Cookies
          BY <1>1, <4>2 DEF Typing, Entries
        <5>2. ~peers[c].moved
          BY <1>5, <2>3, <3>3, <4>2, <5>1
        <5>3. Alive(c) /\ peers[c].address = a
          BY <4>2, <5>2 DEF HInv, EntriesRight
        <5>4. c = s => p.address = a
          BY <4>2, <5>3
        <5>5. QED
          BY <1>5, <2>3, <2>6, <4>2, <5>1, <5>3, <5>4
      <4>3. QED
        BY <2>7, <4>1, <4>2
    <3>4. QED
      BY <2>7, <3>1, <3>2, <3>3 DEF EntriesRight, Alive
  <2>14. NotYetOld'
    <3>1. ASSUME NEW c \in Live PROVE sessions'[c] = sessions[c] /\ cookies'[c] = cookies[c]
      BY <1>1, <1>3, <2>4 DEF Live
    <3>2. ASSUME NEW q \in decoding PROVE q.object \in Created /\ ~sessions'[q.object].computing
      BY <2>4 DEF HInv, NotYetOld, Created
    <3>3. QED
      BY <1>1, <2>5, <3>1, <3>2 DEF HInv, NotYetOld
  <2>15. QED
    BY <2>7, <2>8, <2>9, <2>10, <2>11, <2>12, <2>13, <2>14 DEF HInv
<1>8. QED
  BY <1>6, <1>7

-----------------------------------------------------------------------------
(* The visit of ServerManager *)

\* An age grows up to Life.
LEMMA AgedFacts ==
    ASSUME Bounds, NEW elapsed \in 0 .. 1, NEW age \in 0 .. Life
    PROVE  /\ Aged(age, elapsed) \in 0 .. Life /\ age <= Aged(age, elapsed)
           /\ \A other \in 0 .. Life : age <= other => Aged(age, elapsed) <= Aged(other, elapsed)
BY DEF Bounds, HandshakeAssumption, Aged

\* A session fails at a visit only when it has been silent for Life.
LEMMA VisitedFacts ==
    ASSUME Bounds, NEW x \in SessionRecord, x.status \in {"open", "failed", "dead"}
    PROVE  /\ Visited(x) \in SessionRecord
           /\ Visited(x).computing = x.computing /\ Visited(x).silence = x.silence
           /\ Visited(x).status \in {"open", "failed", "dead"}
           /\ x.status = "open" /\ x.silence # Life => Visited(x).status = "open"
<1>1. DeathVisits \in Nat \ {0} /\ Life \in Nat
  BY DEF Bounds, HandshakeAssumption
<1>2. x.visits \in 0 .. DeathVisits /\ x.visits \in Nat
  BY <1>1 DEF SessionRecord
<1>3. CASE x.status = "failed" /\ x.visits + 1 < DeathVisits
  <2>1. Visited(x) = [x EXCEPT !.visits = x.visits + 1] /\ x.visits + 1 \in 0 .. DeathVisits
    BY <1>1, <1>2, <1>3 DEF Visited
  <2>2. QED
    BY <1>3, <2>1 DEF SessionRecord, Statuses
<1>4. CASE x.status = "failed" /\ ~(x.visits + 1 < DeathVisits)
  <2>1. Visited(x) = [x EXCEPT !.visits = DeathVisits, !.status = "dead"] /\ DeathVisits \in 0 .. DeathVisits
    BY <1>1, <1>4 DEF Visited
  <2>2. QED
    BY <1>4, <2>1 DEF SessionRecord, Statuses
<1>5. CASE x.status = "open" /\ x.silence = Life
  <2>1. Visited(x) = [x EXCEPT !.status = "failed", !.visits = 1] /\ 1 \in 0 .. DeathVisits
    BY <1>1, <1>5 DEF Visited
  <2>2. QED
    BY <1>5, <2>1 DEF SessionRecord, Statuses
<1>6. CASE x.status # "failed" /\ ~(x.status = "open" /\ x.silence = Life)
  BY <1>6 DEF Visited
<1>7. QED
  BY <1>3, <1>4, <1>5, <1>6

\* Obsolete cookies go before the sessions that failed, with their attempts; dead
\* sessions go from every index that leads to them.
LEMMA ManageSound ==
    ASSUME Bounds, HInv, NEW elapsed \in 0 .. 1, Manage(elapsed)
    PROVE  HInv'
<1> DEFINE aged == [c \in Cookies |-> [cookies[c] EXCEPT !.age = Aged(cookies[c].age, elapsed)]]
           fresh == {t \in DOMAIN attempts : Aged(attempts[t].age, elapsed) < Life}
           obsolete == {c \in Live : aged[c].age = Life}
           older(s) == [sessions[s] EXCEPT !.silence = Aged(sessions[s].silence, elapsed)]
           visited == [s \in Cookies |->
               IF sessions[s].status \in {"none", "gone"} THEN sessions[s] ELSE Visited(older(s))]
           dead == {s \in Cookies : visited[s].status = "dead"}
           ids == {id \in DOMAIN table.sessions : table.sessions[id] \in dead}
<1>1. /\ Typing /\ AttemptsKnowTheirCookie /\ UNCHANGED <<computing, peers, decoding>>
      /\ Life \in Nat \ {0} /\ HInv
  BY DEF HInv, Manage, Bounds, HandshakeAssumption
<1>2. /\ cookies' = [c \in Cookies |-> [aged[c] EXCEPT !.live = aged[c].live /\ c \notin obsolete]]
      /\ attempts' = [t \in fresh \cap DOMAIN ClearAttempts(obsolete) |->
                         [attempts[t] EXCEPT !.age = Aged(attempts[t].age, elapsed)]]
      /\ sessions' = [s \in Cookies |->
             IF s \in dead THEN [visited[s] EXCEPT !.status = "gone"] ELSE visited[s]]
      /\ table' = Remove(table, ids, peers)
  BY DEF Manage
<1>3. ASSUME NEW c \in Cookies
      PROVE  /\ aged[c] \in CookieRecord /\ aged[c].live = cookies[c].live /\ aged[c].tag = cookies[c].tag
             /\ aged[c].id = cookies[c].id /\ aged[c].keyed = cookies[c].keyed
             /\ aged[c].age = Aged(cookies[c].age, elapsed)
  <2>1. cookies[c] \in CookieRecord /\ cookies[c].age \in 0 .. Life
    BY <1>1 DEF Typing, CookieRecord
  <2>2. Aged(cookies[c].age, elapsed) \in 0 .. Life
    BY <2>1, AgedFacts
  <2>3. QED
    BY <2>1, <2>2 DEF CookieRecord
<1>4. /\ cookies' \in [Cookies -> CookieRecord]
      /\ \A c \in Cookies : /\ cookies'[c].live = (cookies[c].live /\ c \notin obsolete)
                            /\ cookies'[c].tag = cookies[c].tag /\ cookies'[c].id = cookies[c].id
                            /\ cookies'[c].keyed = cookies[c].keyed
                            /\ cookies'[c].age = Aged(cookies[c].age, elapsed)
  <2> HIDE DEF aged, obsolete
  <2> DEFINE New(c) == [aged[c] EXCEPT !.live = aged[c].live /\ c \notin obsolete]
  <2>1. ASSUME NEW c \in Cookies
        PROVE  /\ New(c) \in CookieRecord
               /\ New(c).live = (aged[c].live /\ c \notin obsolete) /\ New(c).tag = aged[c].tag
               /\ New(c).id = aged[c].id /\ New(c).keyed = aged[c].keyed /\ New(c).age = aged[c].age
    <3>1. aged[c] \in CookieRecord /\ (aged[c].live /\ c \notin obsolete) \in BOOLEAN
      BY <1>3
    <3>2. QED
      BY <3>1 DEF CookieRecord
  <2>2. cookies' = [c \in Cookies |-> New(c)]
    BY <1>2
  <2> HIDE DEF New
  <2>3. QED
    BY <1>3, <2>1, <2>2
<1>5. /\ Len(cookies') = Len(cookies) /\ Cookies' = Cookies
      /\ cookies' \in Seq(CookieRecord) /\ Len(cookies') \in Nat
  BY <1>1, <1>4, CookiesRetyped
<1>6. Live' = Live \ obsolete /\ Live \subseteq Cookies
      /\ \A c \in Live : c \in obsolete <=> Aged(cookies[c].age, elapsed) = Life
  <2>1. \A c \in Live : c \in obsolete <=> Aged(cookies[c].age, elapsed) = Life
    <3> HIDE DEF aged
    <3>1. QED
      BY <1>3 DEF Live
  <2> HIDE DEF obsolete
  <2>2. QED
    BY <1>4, <1>5, <2>1 DEF Live
<1>7. /\ DOMAIN attempts' \subseteq DOMAIN attempts \ {cookies[c].tag : c \in obsolete}
      /\ \A t \in DOMAIN attempts' : /\ attempts'[t].cookie = attempts[t].cookie
                                     /\ attempts'[t] \in [cookie : 0 .. Len(cookies), age : 0 .. Life]
  <2> HIDE DEF obsolete
  <2>1. DOMAIN ClearAttempts(obsolete) = DOMAIN attempts \ {cookies[c].tag : c \in obsolete}
    BY DEF ClearAttempts, Restrict
  <2>2. ASSUME NEW t \in DOMAIN attempts
        PROVE  LET new == [attempts[t] EXCEPT !.age = Aged(attempts[t].age, elapsed)]
               IN  new.cookie = attempts[t].cookie /\ new \in [cookie : 0 .. Len(cookies), age : 0 .. Life]
    <3>1. attempts[t] \in [cookie : 0 .. Len(cookies), age : 0 .. Life] /\ attempts[t].age \in 0 .. Life
      BY <1>1 DEF Typing
    <3>2. Aged(attempts[t].age, elapsed) \in 0 .. Life
      BY <3>1, AgedFacts
    <3>3. QED
      BY <3>1, <3>2
  <2>3. QED
    BY <1>2, <2>1, <2>2
<1>8. ASSUME NEW s \in Cookies, Alive(s)
      PROVE  /\ visited[s] \in SessionRecord /\ visited[s].computing = sessions[s].computing
             /\ visited[s].silence = Aged(sessions[s].silence, elapsed)
             /\ visited[s].status \in {"open", "failed", "dead"}
             /\ sessions[s].status = "open" /\ visited[s].silence # Life => visited[s].status = "open"
  <2>1. sessions[s] \in SessionRecord /\ sessions[s].silence \in 0 .. Life
    BY <1>1 DEF Typing, SessionRecord
  <2>2. Aged(sessions[s].silence, elapsed) \in 0 .. Life
    BY <2>1, AgedFacts
  <2>3. /\ older(s) \in SessionRecord /\ older(s).status = sessions[s].status
        /\ older(s).computing = sessions[s].computing /\ older(s).silence = Aged(sessions[s].silence, elapsed)
    BY <2>1, <2>2 DEF SessionRecord
  <2>4. visited[s] = Visited(older(s)) /\ older(s).status \in {"open", "failed", "dead"}
    BY <1>8, <2>3 DEF Alive
  <2> HIDE DEF older, visited
  <2>5. QED
    BY <2>3, <2>4, VisitedFacts
<1>9. ASSUME NEW s \in Cookies, ~Alive(s)
      PROVE  visited[s] = sessions[s] /\ s \notin dead
  BY <1>1, <1>9 DEF Alive, Typing, SessionRecord, Statuses
<1> HIDE DEF visited
<1>10. ASSUME NEW s \in Cookies
       PROVE  /\ sessions'[s] \in SessionRecord
              /\ sessions'[s].computing = sessions[s].computing
              /\ ~Alive(s) => sessions'[s] = sessions[s] /\ s \notin dead
              /\ Alive(s) => /\ sessions'[s].silence = Aged(sessions[s].silence, elapsed)
                             /\ s \in dead => sessions'[s].status = "gone"
                             /\ s \notin dead => sessions'[s].status \in {"open", "failed"}
              /\ sessions[s].status = "open" /\ Aged(sessions[s].silence, elapsed) # Life
                    => sessions'[s].status = "open" /\ s \notin dead
  <2>1. sessions[s] \in SessionRecord /\ (s \in dead <=> visited[s].status = "dead")
    BY <1>1 DEF Typing
  <2>2. sessions'[s] = IF s \in dead THEN [visited[s] EXCEPT !.status = "gone"] ELSE visited[s]
    BY <1>2
  <2> HIDE DEF dead
  <2>3. CASE ~Alive(s)
    <3>1. visited[s] = sessions[s] /\ s \notin dead
      BY <1>9, <2>3
    <3>2. sessions[s].status # "open"
      BY <2>3 DEF Alive
    <3>3. QED
      BY <2>1, <2>2, <2>3, <3>1, <3>2
  <2>4. CASE Alive(s) /\ s \notin dead
    <3>1. sessions'[s] = visited[s] /\ visited[s].status # "dead"
      BY <2>1, <2>2, <2>4
    <3>2. QED
      BY <1>8, <2>4, <3>1
  <2>5. CASE Alive(s) /\ s \in dead
    <3>1. /\ visited[s] \in SessionRecord /\ visited[s].computing = sessions[s].computing
          /\ visited[s].silence = Aged(sessions[s].silence, elapsed)
          /\ sessions[s].status = "open" /\ visited[s].silence # Life => visited[s].status = "open"
      BY <1>8, <2>5
    <3>2. sessions'[s] = [visited[s] EXCEPT !.status = "gone"] /\ visited[s].status = "dead"
      BY <2>1, <2>2, <2>5
    <3>3. QED
      BY <2>5, <3>1, <3>2 DEF SessionRecord, Statuses
  <2>6. QED
    BY <2>3, <2>4, <2>5
<1>11. sessions' \in [Cookies -> SessionRecord]
  <2>1. DOMAIN sessions' = Cookies
    BY <1>2
  <2>2. sessions' = [s \in Cookies |-> sessions'[s]]
    BY <1>2
  <2>3. QED
    BY <1>10, <2>2
<1>12. Created' = Created /\ \A s \in Cookies : Alive(s) => s \in Created
  BY <1>5, <1>10 DEF Created, Alive
<1>13. \A s \in Cookies : s \notin dead /\ Alive(s) <=> sessions'[s].status \in {"open", "failed", "dead"}
  <2> HIDE DEF dead
  <2>1. QED
    BY <1>10 DEF Alive
<1>14. /\ TableShape' /\ table'.nextId = table.nextId
       /\ table'.sessions = Restrict(table.sessions, DOMAIN table.sessions \ ids)
       /\ table'.byPeer = Restrict(table.byPeer,
                                   DOMAIN table.byPeer \ {peers[table.sessions[id]].id : id \in ids})
       /\ table'.byAddress = Restrict(table.byAddress,
                                      DOMAIN table.byAddress \ {peers[table.sessions[id]].address : id \in ids})
  <2> HIDE DEF ids
  <2>1. table = [sessions |-> table.sessions, byPeer |-> table.byPeer,
                 byAddress |-> table.byAddress, nextId |-> table.nextId]
    BY DEF HInv, TableShape
  <2>2. table' = [sessions  |-> Restrict(table.sessions, DOMAIN table.sessions \ ids),
                  byPeer    |-> Restrict(table.byPeer,
                                   DOMAIN table.byPeer \ {peers[table.sessions[id]].id : id \in ids}),
                  byAddress |-> Restrict(table.byAddress,
                                   DOMAIN table.byAddress \ {peers[table.sessions[id]].address : id \in ids}),
                  nextId    |-> table.nextId]
    BY <1>2, <2>1 DEF Remove
  <2>3. QED
    BY <2>2 DEF TableShape
<1>15. /\ DOMAIN table'.sessions = {id \in DOMAIN table.sessions : table.sessions[id] \notin dead}
       /\ \A id \in DOMAIN table'.sessions : table'.sessions[id] = table.sessions[id]
  <2> HIDE DEF dead
  <2>1. QED
    BY <1>14 DEF Restrict
<1>16. ASSUME NEW s \in dead, Alive(s)
       PROVE  cookies[s].id \in ids /\ table.sessions[cookies[s].id] = s
  <2>1. s \in Cookies
    BY <1>16
  <2>2. cookies[s].id \in DOMAIN table.sessions /\ table.sessions[cookies[s].id] = s
    BY <1>16, <2>1 DEF HInv, EntriesThere
  <2> HIDE DEF dead
  <2>3. QED
    BY <1>16, <2>2
<1>17. ASSUME NEW q \in DOMAIN table'.byPeer
       PROVE  /\ q \in DOMAIN table.byPeer /\ table'.byPeer[q] = table.byPeer[q]
              /\ table.byPeer[q] \in Cookies /\ Alive(table.byPeer[q])
              /\ table.byPeer[q] \notin dead /\ peers[table.byPeer[q]].id = q
  <2> HIDE DEF dead, ids
  <2>1. /\ q \in DOMAIN table.byPeer /\ table'.byPeer[q] = table.byPeer[q]
        /\ q \notin {peers[table.sessions[id]].id : id \in ids}
    BY <1>14 DEF Restrict
  <2>2. /\ table.byPeer[q] \in Cookies /\ Alive(table.byPeer[q]) /\ peers[table.byPeer[q]].id = q
    BY <1>1, <2>1 DEF HInv, Typing, Entries, EntriesRight
  <2>3. QED
    BY <1>16, <2>1, <2>2
<1>18. ASSUME NEW a \in DOMAIN table'.byAddress
       PROVE  /\ a \in DOMAIN table.byAddress /\ table'.byAddress[a] = table.byAddress[a]
              /\ table.byAddress[a] \in Cookies
              /\ ~peers[table.byAddress[a]].moved =>
                    /\ Alive(table.byAddress[a]) /\ table.byAddress[a] \notin dead
                    /\ peers[table.byAddress[a]].address = a
  <2> HIDE DEF dead, ids
  <2>1. /\ a \in DOMAIN table.byAddress /\ table'.byAddress[a] = table.byAddress[a]
        /\ a \notin {peers[table.sessions[id]].address : id \in ids}
    BY <1>14 DEF Restrict
  <2>2. /\ table.byAddress[a] \in Cookies
        /\ ~peers[table.byAddress[a]].moved =>
              Alive(table.byAddress[a]) /\ peers[table.byAddress[a]].address = a
    BY <1>1, <2>1 DEF HInv, Typing, Entries, EntriesRight
  <2>3. QED
    BY <1>16, <2>1, <2>2
<1> HIDE DEF dead, ids, fresh, obsolete, aged
<1>19. Typing'
  <2>1. Entries(table.sessions, 1 .. IdLimit - 1)' /\ table'.nextId \in 0 .. IdLimit - 1
    BY <1>1, <1>5, <1>14, <1>15 DEF Typing, Entries
  <2>2. Entries(table.byPeer, PeerIds)' /\ Entries(table.byAddress, Addresses)'
    BY <1>1, <1>5, <1>17, <1>18 DEF Typing, Entries
  <2>3. DOMAIN attempts' \subseteq Tags
    BY <1>1, <1>7 DEF Typing
  <2>4. QED
    BY <1>1, <1>4, <1>5, <1>7, <1>11, <2>1, <2>2, <2>3 DEF Typing
<1>20. AttemptsKnowTheirCookie'
  BY <1>1, <1>4, <1>5, <1>7, AttemptsCleared
<1>21. ComputingRight'
  BY <1>1, <1>4, <1>5, <1>12 DEF HInv, ComputingRight
<1>22. Counted'
  BY <1>4, <1>5, <1>12, <1>14 DEF HInv, Counted
<1>23. EntriesRight'
  <2>1. ASSUME NEW id \in DOMAIN table'.sessions
        PROVE  sessions'[table'.sessions[id]].status \in {"open", "failed", "dead"}
               /\ cookies'[table'.sessions[id]].id = id
    <3> DEFINE s == table.sessions[id]
    <3>1. id \in DOMAIN table.sessions /\ table'.sessions[id] = s /\ s \notin dead
      BY <1>15
    <3>2. s \in Cookies /\ Alive(s) /\ cookies[s].id = id
      BY <1>1, <3>1 DEF HInv, Typing, Entries, EntriesRight
    <3> HIDE DEF s
    <3>3. QED
      BY <1>4, <1>13, <3>1, <3>2
  <2>2. ASSUME NEW q \in DOMAIN table'.byPeer
        PROVE  sessions'[table'.byPeer[q]].status \in {"open", "failed", "dead"}
               /\ peers'[table'.byPeer[q]].id = q
    BY <1>1, <1>13, <1>17
  <2>3. ASSUME NEW a \in DOMAIN table'.byAddress, ~peers'[table'.byAddress[a]].moved
        PROVE  sessions'[table'.byAddress[a]].status \in {"open", "failed", "dead"}
               /\ peers'[table'.byAddress[a]].address = a
    BY <1>1, <1>13, <1>18, <2>3
  <2>4. QED
    BY <2>1, <2>2, <2>3 DEF EntriesRight, Alive
<1>24. EntriesThere'
  <2>1. ASSUME NEW s \in Cookies, sessions'[s].status \in {"open", "failed", "dead"}
        PROVE  /\ cookies'[s].id \in DOMAIN table'.sessions /\ table'.sessions[cookies'[s].id] = s
               /\ \/ peers[s].id \in DOMAIN table'.byPeer /\ table'.byPeer[peers[s].id] = s
                  \/ Twinned(s)'
    <3>1. Alive(s) /\ s \notin dead
      BY <1>13, <2>1
    <3>2. cookies'[s].id \in DOMAIN table'.sessions /\ table'.sessions[cookies'[s].id] = s
      BY <1>4, <1>15, <3>1 DEF HInv, EntriesThere
    <3>3. Twinned(s) => Twinned(s)'
      BY <1>1, <1>5, <1>12 DEF Twinned
    <3>4. CASE Twinned(s)
      BY <3>2, <3>3, <3>4
    <3>5. CASE ~Twinned(s)
      <4> DEFINE q == peers[s].id
      <4>1. q \in DOMAIN table.byPeer /\ table.byPeer[q] = s
        BY <3>1, <3>5 DEF HInv, EntriesThere
      <4>2. ASSUME NEW id \in ids PROVE peers[table.sessions[id]].id # q
        <5>1. table.sessions[id] \in dead /\ id \in DOMAIN table.sessions
          BY <4>2 DEF ids
        <5>2. table.sessions[id] \in Cookies /\ table.sessions[id] \in Created
          BY <1>1, <1>12, <5>1 DEF HInv, Typing, Entries, EntriesRight
        <5>3. QED
          BY <3>1, <3>5, <5>1, <5>2 DEF Twinned
      <4>3. q \in DOMAIN table'.byPeer /\ table'.byPeer[q] = s
        BY <1>14, <4>1, <4>2 DEF Restrict
      <4>4. QED
        BY <3>2, <4>3
    <3>6. QED
      BY <3>4, <3>5
  <2>2. QED
    BY <1>1, <1>5, <2>1 DEF EntriesThere, Alive
<1>25. NotYetOld'
  <2>1. ASSUME NEW c \in Live'
        PROVE  /\ cookies'[c].age < Life
               /\ c \in Created' => /\ sessions'[c].computing /\ sessions'[c].status = "open"
                                    /\ sessions'[c].silence <= cookies'[c].age
    <3>1. c \in Live /\ c \in Cookies /\ cookies[c].age \in 0 .. Life /\ sessions[c].silence \in 0 .. Life
          /\ cookies'[c].age = Aged(cookies[c].age, elapsed) /\ cookies'[c].age # Life
      BY <1>1, <1>4, <1>6 DEF Typing, CookieRecord, SessionRecord
    <3>2. cookies'[c].age \in 0 .. Life
      BY <3>1, AgedFacts
    <3>3. cookies'[c].age < Life
      BY <1>1, <3>1, <3>2
    <3>4. ASSUME c \in Created
          PROVE  /\ sessions'[c].computing /\ sessions'[c].status = "open"
                 /\ sessions'[c].silence <= cookies'[c].age
      <4>1. sessions[c].computing /\ sessions[c].status = "open" /\ sessions[c].silence <= cookies[c].age
        BY <3>1, <3>4 DEF HInv, NotYetOld
      <4>2. Aged(sessions[c].silence, elapsed) \in 0 .. Life
            /\ Aged(sessions[c].silence, elapsed) <= Aged(cookies[c].age, elapsed)
        BY <3>1, <4>1, AgedFacts
      <4>3. Aged(sessions[c].silence, elapsed) # Life
        BY <1>1, <3>1, <3>2, <3>3, <4>2
      <4>4. Alive(c)
        BY <4>1 DEF Alive
      <4>5. QED
        BY <1>10, <3>1, <4>1, <4>2, <4>3, <4>4
    <3>5. QED
      BY <1>12, <3>3, <3>4
  <2>2. \A p \in decoding' : p.object \in Created' /\ ~sessions'[p.object].computing
    BY <1>1, <1>10, <1>12 DEF HInv, NotYetOld, Created
  <2>3. QED
    BY <2>1, <2>2 DEF NotYetOld
<1>26. QED
  BY <1>14, <1>19, <1>20, <1>21, <1>22, <1>23, <1>24, <1>25 DEF HInv

-----------------------------------------------------------------------------
(* The theorems of the handshake *)

\* Every step preserves the invariant.
LEMMA Inductive == Bounds => (Spec => []HInv)
<1> SUFFICES ASSUME Bounds PROVE Spec => []HInv
  OBVIOUS
<1>1. Init => HInv
  BY InitSound
<1>2. HInv /\ [Next]_vars => HInv'
  <2> SUFFICES ASSUME HInv, [Next]_vars PROVE HInv'
    OBVIOUS
  <2>1. ASSUME NEW t \in Tags, HelloWithoutCookie(t) PROVE HInv'
    BY <2>1, HelloWithoutSound
  <2>2. ASSUME NEW t \in Tags, NEW a \in Addresses, Hello(t, a) PROVE HInv'
    BY <2>2, HelloSound
  <2>3. ASSUME NEW c \in Live, NEW id \in PeerIds, NEW a \in Addresses, Key(c, id, a) PROVE HInv'
    BY <2>3, KeySound
  <2>4. ASSUME NEW c \in Cookies, NEW succeeds \in BOOLEAN, Compute(c, succeeds) PROVE HInv'
    BY <2>4, ComputeSound
  <2>5. ASSUME NEW c \in Cookies, Handle(c) PROVE HInv'
    BY <2>5, HandleSound
  <2>6. ASSUME NEW id \in DOMAIN table.sessions, NEW a \in Addresses, OnPacket(id, a) PROVE HInv'
    BY <2>6, OnPacketSound
  <2>7. ASSUME NEW p \in decoding, NEW outcome \in {"fine", "fails", "ends"}, Receive(p, outcome)
        PROVE  HInv'
    BY <2>7, ReceiveSound
  <2>8. ASSUME NEW elapsed \in 0 .. 1, Manage(elapsed) PROVE HInv'
    BY <2>8, ManageSound
  <2>9. CASE UNCHANGED vars
    <3>1. Cookies' = Cookies /\ Live' = Live /\ Created' = Created
      BY <2>9 DEF vars, Cookies, Live, Created
    <3>2. Typing' /\ TableShape' /\ AttemptsKnowTheirCookie' /\ ComputingRight' /\ Counted'
      BY <2>9, <3>1 DEF vars, HInv, Typing, Entries, TableShape, AttemptsKnowTheirCookie, ComputingRight,
                        Counted
    <3>3. EntriesRight' /\ NotYetOld'
      BY <2>9, <3>1 DEF vars, HInv, EntriesRight, NotYetOld, Alive
    <3>4. EntriesThere'
      BY <2>9, <3>1 DEF vars, HInv, EntriesThere, Twinned, Alive
    <3>5. QED
      BY <3>2, <3>3, <3>4 DEF HInv
  <2>10. QED
    BY <2>1, <2>2, <2>3, <2>4, <2>5, <2>6, <2>7, <2>8, <2>9 DEF Next
<1>3. QED
  BY <1>1, <1>2, PTL DEF Spec

\* The state of the handshake and of Sessions keeps its types.
THEOREM TypeCorrect == Bounds => (Spec => []TypeOK)
<1> SUFFICES ASSUME Bounds PROVE Spec => []TypeOK
  OBVIOUS
<1>1. HInv => TypeOK
  BY TypingTypes DEF HInv
<1>2. QED
  BY <1>1, Inductive, PTL

\* RTMFPHandshake.cpp:236,296, AttemptCounter.cpp: a hello or a key that is repeated
\* finds the cookie that its first occurrence made, with its tag, or none; and a key
\* that is answered names a session of the table which is not dead.
THEOREM CookiesCorrect == Bounds => (Spec => []CookiesSound)
<1> SUFFICES ASSUME Bounds PROVE Spec => []CookiesSound
  OBVIOUS
<1>1. HInv => CookiesSound
  <2> SUFFICES ASSUME HInv PROVE CookiesSound
    OBVIOUS
  <2>1. ASSUME NEW c \in Answered
        PROVE  /\ cookies[c].id \in DOMAIN table.sessions /\ table.sessions[cookies[c].id] = c
               /\ sessions[c].status \in {"open", "failed"}
    <3>1. c \in Live /\ c \in Cookies /\ cookies[c].id > 0
      BY DEF Answered, Live
    <3>2. c \in Created
      BY <3>1 DEF HInv, Counted
    <3>3. sessions[c].status = "open"
      BY <3>1, <3>2 DEF HInv, NotYetOld
    <3>4. QED
      BY <3>1, <3>3 DEF HInv, EntriesThere, Alive
  <2>2. QED
    BY <2>1 DEF HInv, CookiesSound, RepeatNamesLive
<1>2. QED
  BY <1>1, Inductive, PTL

\* Sessions.cpp:46-62: whoever is found by its identifier, its peer identifier or
\* its address has not been deleted, but for an address that the client left when it
\* repeated its key; and a session that is not deleted is found by its identifier,
\* and by its peer's unless another session had the same.
THEOREM FoundCorrect == Bounds => (Spec => []FoundIsAlive)
<1> SUFFICES ASSUME Bounds PROVE Spec => []FoundIsAlive
  OBVIOUS
<1>1. HInv => FoundIsAlive
  <2> SUFFICES ASSUME HInv PROVE FoundIsAlive
    OBVIOUS
  <2>1. \A id \in DOMAIN table.sessions : Alive(table.sessions[id])
    BY DEF HInv, EntriesRight
  <2>2. \A id \in PeerIds : LET s == Find(table.byPeer, id, 0) IN s # 0 => Alive(s)
    BY DEF HInv, EntriesRight, Find
  <2>3. \A a \in Addresses : LET s == Find(table.byAddress, a, 0) IN s # 0 => Alive(s) \/ peers[s].moved
    BY DEF HInv, EntriesRight, Find
  <2>4. ASSUME NEW s \in Cookies, Alive(s)
        PROVE  /\ \E id \in DOMAIN table.sessions : table.sessions[id] = s
               /\ \/ Find(table.byPeer, peers[s].id, 0) = s
                  \/ \E other \in Cookies \ {s} :
                        sessions[other].status # "none" /\ peers[other].id = peers[s].id
    <3>1. /\ cookies[s].id \in DOMAIN table.sessions /\ table.sessions[cookies[s].id] = s
          /\ (peers[s].id \in DOMAIN table.byPeer /\ table.byPeer[peers[s].id] = s) \/ Twinned(s)
      BY <2>4 DEF HInv, EntriesThere
    <3>2. QED
      BY <3>1 DEF Find, Twinned, Created
  <2>5. QED
    BY <2>1, <2>2, <2>3, <2>4 DEF FoundIsAlive
<1>2. QED
  BY <1>1, Inductive, PTL

-----------------------------------------------------------------------------
(* The session *)

CONSTANTS Kinds, FailSignals, Keepalives, MaxWriters, MaxIds
VARIABLES writers, map, lastId, flows, group, connected, peerWriter, failed, died, timesFailed,
          keepalives, silence, away, farewells, closedByApp

RS == INSTANCE RTMFPSession

\* The state, as operations that may fail half-way pass it on, has these parts.
Shape(s) ==
    DOMAIN s = {"writers", "map", "flows", "group", "connected", "peerWriter", "failed", "died",
                "timesFailed", "farewells"}

\* Its types, when identifiers have been given up to last.
Typed(s, last) ==
    /\ last \in Nat
    /\ s.writers \in Seq(RS!Writer) /\ Len(s.writers) \in Nat /\ s.writers \in [1 .. Len(s.writers) -> RS!Writer]
    /\ \A id \in DOMAIN s.map : id \in 1 .. last /\ s.map[id] \in 1 .. Len(s.writers)
    /\ \A kind \in DOMAIN s.flows : kind \in Kinds /\ s.flows[kind] \in 1 .. Len(s.writers)
    /\ s.group \in BOOLEAN /\ s.connected \in BOOLEAN /\ s.failed \in BOOLEAN /\ s.died \in BOOLEAN
    /\ s.peerWriter \in 0 .. Len(s.writers)
    /\ s.timesFailed \in 0 .. FailSignals /\ s.farewells \in Nat

\* An object that the map leads to is not deleted.
Mapped(s, o) == \E id \in DOMAIN s.map : s.map[id] = o

\* What the application and the flows hold is in the map.  The main writer is critical,
\* and so is the one the application holds: a walk that finds it closed fails the
\* session before it erases it, so that a client that connects again opens it there.
Held(s) ==
    /\ s.connected <=> s.peerWriter # 0
    /\ s.connected => Mapped(s, s.peerWriter) /\ s.writers[s.peerWriter].critical
    /\ \A kind \in DOMAIN s.flows :
          /\ s.writers[s.flows[kind]].state = "open" \/ kind = "main" => Mapped(s, s.flows[kind])
          /\ kind = "main" => s.writers[s.flows[kind]].critical

\* Nothing waits to be sent or acknowledged.
Quiet(s) == \A id \in DOMAIN s.map : ~s.writers[s.map[id]].queued /\ ~s.writers[s.map[id]].armed

\* A failed session is quiet, a dead one has nothing, and one that is not dead has
\* signals of its failure left to send.
Ended(s) ==
    /\ s.failed => Quiet(s) /\ ~s.group
    /\ s.died => s.failed /\ ~s.connected /\ s.flows = <<>> /\ s.map = <<>>
    /\ s.farewells <= 1 /\ (s.farewells = 1 => s.died)
    /\ ~s.died => s.timesFailed < FailSignals

Good(s, last) == Shape(s) /\ Typed(s, last) /\ Held(s) /\ Ended(s)

\* The inductive invariant.
SInv == Good(RS!Now, lastId) /\ keepalives \in 0 .. Keepalives /\ silence \in 0 .. 2 /\ away \in BOOLEAN
        /\ closedByApp \in BOOLEAN

-----------------------------------------------------------------------------
\* What the operations on a writer leave of it.
LEMMA WriterFacts ==
    ASSUME NEW w \in RS!Writer
    PROVE  /\ RS!Cleared(w) \in RS!Writer /\ ~RS!Cleared(w).queued /\ ~RS!Cleared(w).armed
           /\ RS!Cleared(w).state = w.state /\ RS!Cleared(w).critical = w.critical
           /\ RS!Closed(w) \in RS!Writer /\ RS!Closed(w).state = "closed" /\ RS!Closed(w).critical = w.critical
           /\ RS!Flushed(w) \in RS!Writer /\ RS!Flushed(w).state = w.state /\ RS!Flushed(w).critical = w.critical
           /\ ~w.queued => RS!Flushed(w) = w
<1>1. /\ RS!Cleared(w) \in RS!Writer /\ ~RS!Cleared(w).queued /\ ~RS!Cleared(w).armed
      /\ RS!Cleared(w).state = w.state /\ RS!Cleared(w).critical = w.critical
  BY DEF RS!Writer, RS!Cleared
<1>2. /\ RS!Closed(w) \in RS!Writer /\ RS!Closed(w).state = "closed" /\ RS!Closed(w).critical = w.critical
  BY DEF RS!Writer, RS!Closed
<1>3. /\ RS!Flushed(w) \in RS!Writer /\ RS!Flushed(w).state = w.state /\ RS!Flushed(w).critical = w.critical
      /\ ~w.queued => RS!Flushed(w) = w
  BY DEF RS!Writer, RS!Flushed
<1>4. QED
  BY <1>1, <1>2, <1>3

\* A function on the first numbers is a sequence.
LEMMA Sequenced ==
    ASSUME NEW S, NEW n \in Nat, NEW f \in [1 .. n -> S]
    PROVE  f \in Seq(S) /\ Len(f) = n
OBVIOUS

\* Writers may change, if none is opened or made critical.
LEMMA WritersChanged ==
    ASSUME NEW s, NEW last, Good(s, last),
           NEW ws \in [1 .. Len(s.writers) -> RS!Writer],
           \A o \in 1 .. Len(s.writers) : /\ ws[o].critical = s.writers[o].critical
                                          /\ ws[o].state = "open" => s.writers[o].state = "open",
           s.failed => \A id \in DOMAIN s.map : ~ws[s.map[id]].queued /\ ~ws[s.map[id]].armed
    PROVE  Good([s EXCEPT !.writers = ws], last)
<1> DEFINE t == [s EXCEPT !.writers = ws]
<1>1. Shape(s) /\ Typed(s, last) /\ Held(s) /\ Ended(s)
  BY DEF Good
<1>2. /\ Shape(t) /\ t.writers = ws /\ t.map = s.map /\ t.flows = s.flows /\ t.group = s.group
      /\ t.connected = s.connected /\ t.peerWriter = s.peerWriter /\ t.failed = s.failed
      /\ t.died = s.died /\ t.timesFailed = s.timesFailed /\ t.farewells = s.farewells
  BY <1>1 DEF Shape
<1> HIDE DEF t
<1>3. ws \in Seq(RS!Writer) /\ Len(ws) = Len(s.writers)
  BY <1>1, Sequenced DEF Typed
<1>4. Typed(t, last)
  BY <1>1, <1>2, <1>3 DEF Typed
<1>5. Held(t)
  <2>1. \A o : Mapped(s, o) <=> Mapped(t, o)
    BY <1>2 DEF Mapped
  <2>2. /\ s.connected <=> s.peerWriter # 0
        /\ s.connected => /\ Mapped(s, s.peerWriter) /\ s.writers[s.peerWriter].critical
                          /\ s.peerWriter \in 1 .. Len(s.writers)
    BY <1>1 DEF Held, Typed
  <2>3. /\ t.connected <=> t.peerWriter # 0
        /\ t.connected => Mapped(t, t.peerWriter) /\ t.writers[t.peerWriter].critical
    BY <1>2, <2>1, <2>2
  <2>4. ASSUME NEW kind \in DOMAIN t.flows
        PROVE  /\ t.writers[t.flows[kind]].state = "open" \/ kind = "main" => Mapped(t, t.flows[kind])
               /\ kind = "main" => t.writers[t.flows[kind]].critical
    <3>1. /\ s.flows[kind] \in 1 .. Len(s.writers)
          /\ s.writers[s.flows[kind]].state = "open" \/ kind = "main" => Mapped(s, s.flows[kind])
          /\ kind = "main" => s.writers[s.flows[kind]].critical
      BY <1>1, <1>2 DEF Held, Typed
    <3>2. QED
      BY <1>2, <2>1, <3>1
  <2>5. QED
    BY <2>3, <2>4 DEF Held
<1>6. Ended(t)
  BY <1>1, <1>2 DEF Ended, Quiet
<1>7. QED
  BY <1>2, <1>4, <1>5, <1>6 DEF Good, t

\* A group may be left.
LEMMA GroupLeft ==
    ASSUME NEW s, NEW last, Good(s, last)
    PROVE  Good([s EXCEPT !.group = FALSE], last)
<1> DEFINE t == [s EXCEPT !.group = FALSE]
<1>1. Shape(s) /\ Typed(s, last) /\ Held(s) /\ Ended(s)
  BY DEF Good
<1>2. /\ Shape(t) /\ t.writers = s.writers /\ t.map = s.map /\ t.flows = s.flows /\ t.group = FALSE
      /\ t.connected = s.connected /\ t.peerWriter = s.peerWriter /\ t.failed = s.failed
      /\ t.died = s.died /\ t.timesFailed = s.timesFailed /\ t.farewells = s.farewells
  BY <1>1 DEF Shape
<1> HIDE DEF t
<1>3. Typed(t, last)
  BY <1>1, <1>2 DEF Typed
<1>4. Held(t) /\ Ended(t)
  BY <1>1, <1>2 DEF Held, Mapped, Ended, Quiet
<1>5. QED
  BY <1>2, <1>3, <1>4 DEF Good, t

-----------------------------------------------------------------------------
(* Failure and death *)

\* The state is what an operation that may fail half-way arrives at.
LEMMA BecomesGood ==
    ASSUME NEW s, NEW last, Good(s, last), RS!Becomes(s), lastId' = last
    PROVE  Good(RS!Now, lastId)'
<1>1. /\ writers' = s.writers /\ map' = s.map /\ flows' = s.flows /\ group' = s.group
      /\ connected' = s.connected /\ peerWriter' = s.peerWriter /\ failed' = s.failed /\ died' = s.died
      /\ timesFailed' = s.timesFailed /\ farewells' = s.farewells
  BY DEF RS!Becomes
<1>2. Shape(RS!Now)'
  BY DEF Shape, RS!Now
<1>3. Typed(RS!Now, lastId)'
  BY <1>1 DEF Good, Typed, RS!Now
<1>4. Held(RS!Now)' /\ Ended(RS!Now)'
  BY <1>1 DEF Good, Held, Mapped, Ended, Quiet, RS!Now
<1>5. QED
  BY <1>2, <1>3, <1>4 DEF Good

\* A session that dies has no flow, writer or group left, and tells its end if it
\* was connected.
LEMMA DiesGood ==
    ASSUME NEW s, NEW last, Shape(s), Typed(s, last), s.failed, s.farewells = 0,
           RS!Dies(s), lastId' = last
    PROVE  Good(RS!Now, lastId)'
<1> DEFINE ws == [o \in DOMAIN s.writers |->
                     IF o \in RS!Range(s.flows) THEN RS!Closed(s.writers[o]) ELSE s.writers[o]]
           t == [s EXCEPT !.group = FALSE, !.flows = <<>>, !.writers = ws,
                          !.connected = FALSE, !.peerWriter = 0,
                          !.farewells = IF s.connected THEN s.farewells + 1 ELSE s.farewells,
                          !.died = TRUE, !.map = <<>>]
<1>1. RS!Becomes(t)
  BY DEF RS!Dies
<1>2. ws \in [1 .. Len(s.writers) -> RS!Writer]
  BY WriterFacts DEF Typed
<1> HIDE DEF ws
<1>3. /\ Shape(t) /\ t.writers = ws /\ t.map = <<>> /\ t.flows = <<>> /\ t.group = FALSE
      /\ t.connected = FALSE /\ t.peerWriter = 0 /\ t.failed = s.failed
      /\ t.died = TRUE /\ t.timesFailed = s.timesFailed
      /\ t.farewells = IF s.connected THEN s.farewells + 1 ELSE s.farewells
  BY DEF Shape
<1> HIDE DEF t
<1>4. ws \in Seq(RS!Writer) /\ Len(ws) = Len(s.writers)
  BY <1>2, Sequenced DEF Typed
<1>5. t.farewells \in Nat /\ t.farewells <= 1
  BY <1>3 DEF Typed
<1>6. DOMAIN t.map = {} /\ DOMAIN t.flows = {}
  BY <1>3
<1>7. Typed(t, last)
  <2>1. /\ last \in Nat /\ Len(ws) \in Nat /\ s.failed \in BOOLEAN /\ s.timesFailed \in 0 .. FailSignals
        /\ ws \in [1 .. Len(ws) -> RS!Writer]
    BY <1>2, <1>4 DEF Typed
  <2>2. t.peerWriter \in 0 .. Len(t.writers) /\ t.failed \in BOOLEAN
    BY <1>3, <2>1
  <2>3. QED
    BY <1>3, <1>4, <1>5, <1>6, <2>1, <2>2 DEF Typed
<1>8. Held(t) /\ Ended(t)
  BY <1>3, <1>5, <1>6 DEF Held, Mapped, Ended, Quiet
<1>9. QED
  BY <1>1, <1>3, <1>7, <1>8, BecomesGood DEF Good

\* A quiet session that signals its failure dies with the last signal.
LEMMA SignalsGood ==
    ASSUME RS!SessionAssumption, NEW s, NEW last, NEW long, Good(s, last), ~s.died, Quiet(s), ~s.group,
           RS!Signals(s, long), lastId' = last
    PROVE  Good(RS!Now, lastId)'
<1> DEFINE t == [s EXCEPT !.failed = TRUE, !.timesFailed = s.timesFailed + 1]
<1>1. IF t.timesFailed = FailSignals \/ long THEN RS!Dies(t) ELSE RS!Becomes(t)
  BY DEF RS!Signals
<1>2. Shape(s) /\ Typed(s, last) /\ Held(s) /\ Ended(s) /\ FailSignals \in Nat
  BY DEF Good, RS!SessionAssumption
<1>3. /\ Shape(t) /\ t.writers = s.writers /\ t.map = s.map /\ t.flows = s.flows /\ t.group = s.group
      /\ t.connected = s.connected /\ t.peerWriter = s.peerWriter /\ t.failed = TRUE
      /\ t.died = s.died /\ t.timesFailed = s.timesFailed + 1 /\ t.farewells = s.farewells
  BY <1>2 DEF Shape
<1> HIDE DEF t
<1>4. t.timesFailed \in 0 .. FailSignals /\ s.farewells = 0
  BY <1>2, <1>3 DEF Typed, Ended
<1>5. Typed(t, last)
  BY <1>2, <1>3, <1>4 DEF Typed
<1>6. CASE t.timesFailed = FailSignals \/ long
  BY <1>1, <1>3, <1>4, <1>5, <1>6, DiesGood
<1>7. CASE ~(t.timesFailed = FailSignals \/ long)
  <2>1. Held(t)
    BY <1>2, <1>3 DEF Held, Mapped
  <2>2. Ended(t)
    BY <1>2, <1>3, <1>4, <1>7 DEF Ended, Quiet
  <2>3. QED
    BY <1>1, <1>3, <1>5, <1>7, <2>1, <2>2, BecomesGood DEF Good
<1>8. QED
  BY <1>6, <1>7

\* A session that fails clears its writers before it signals.
LEMMA FailsGood ==
    ASSUME RS!SessionAssumption, NEW s, NEW last, NEW long, Good(s, last), ~s.died, RS!Fails(s, long), lastId' = last
    PROVE  Good(RS!Now, lastId)'
<1>1. CASE s.failed
  BY <1>1, BecomesGood DEF RS!Fails
<1>2. CASE ~s.failed
  <2> DEFINE left == [s EXCEPT !.group = FALSE]
             ws == [o \in DOMAIN s.writers |->
                       IF o \in RS!Range(s.map) THEN RS!Cleared(s.writers[o]) ELSE s.writers[o]]
             t == [left EXCEPT !.writers = ws]
  <2>1. Shape(s) /\ Typed(s, last)
    BY DEF Good
  <2>2. Good(left, last) /\ left.writers = s.writers /\ left.failed = s.failed /\ left.map = s.map
    BY <2>1, GroupLeft DEF Shape
  <2>3. /\ ws \in [1 .. Len(s.writers) -> RS!Writer]
        /\ \A o \in 1 .. Len(s.writers) : ws[o].critical = s.writers[o].critical /\ ws[o].state = s.writers[o].state
    BY <2>1, WriterFacts DEF Typed
  <2>4. \A id \in DOMAIN s.map : ~ws[s.map[id]].queued /\ ~ws[s.map[id]].armed
    BY <2>1, WriterFacts DEF Typed, RS!Range
  <2>5. RS!Signals([s EXCEPT !.group = FALSE, !.writers = ws], long)
    BY <1>2 DEF RS!Fails
  <2> HIDE DEF ws
  <2>6. /\ t = [s EXCEPT !.group = FALSE, !.writers = ws]
        /\ t.died = s.died /\ t.map = s.map /\ t.writers = ws /\ t.group = FALSE
    BY <2>1 DEF Shape
  <2>7. Good(t, last)
    BY <1>2, <2>2, <2>3, <2>4, WritersChanged
  <2>8. Quiet(t)
    BY <2>4, <2>6 DEF Quiet
  <2> HIDE DEF t
  <2>9. QED
    BY <2>5, <2>6, <2>7, <2>8, SignalsGood
<1>3. QED
  BY <1>1, <1>2

-----------------------------------------------------------------------------
(* The walk of the writers *)

\* Identifiers may go that lead to closed writers, but for the one that the application
\* holds, which is critical.
LEMMA MapTrimmed ==
    ASSUME NEW s, NEW last, Good(s, last), NEW gone,
           \A id \in gone : id \in DOMAIN s.map /\ s.writers[s.map[id]].state = "closed",
           \A id \in gone : ~s.writers[s.map[id]].critical
    PROVE  Good([s EXCEPT !.map = RS!Restrict(s.map, DOMAIN s.map \ gone)], last)
<1> DEFINE m == RS!Restrict(s.map, DOMAIN s.map \ gone)
           t == [s EXCEPT !.map = m]
<1>1. Shape(s) /\ Typed(s, last) /\ Held(s) /\ Ended(s)
  BY DEF Good
<1>2. DOMAIN m = DOMAIN s.map \ gone /\ \A id \in DOMAIN m : m[id] = s.map[id]
  BY DEF RS!Restrict
<1> HIDE DEF m
<1>3. /\ Shape(t) /\ t.writers = s.writers /\ t.map = m /\ t.flows = s.flows /\ t.group = s.group
      /\ t.connected = s.connected /\ t.peerWriter = s.peerWriter /\ t.failed = s.failed
      /\ t.died = s.died /\ t.timesFailed = s.timesFailed /\ t.farewells = s.farewells
  BY <1>1 DEF Shape
<1> HIDE DEF t
<1>4. Typed(t, last)
  BY <1>1, <1>2, <1>3 DEF Typed
<1>5. ASSUME NEW o, Mapped(s, o), s.writers[o].state # "closed" \/ s.writers[o].critical
      PROVE  Mapped(t, o)
  <2>1. PICK id \in DOMAIN s.map : s.map[id] = o
    BY <1>5 DEF Mapped
  <2>2. id \notin gone
    BY <1>5, <2>1
  <2>3. QED
    BY <1>2, <1>3, <2>1, <2>2 DEF Mapped
<1>6. Held(t)
  <2>1. t.connected => Mapped(t, t.peerWriter) /\ t.writers[t.peerWriter].critical
    BY <1>1, <1>3, <1>5 DEF Held
  <2>2. ASSUME NEW kind \in DOMAIN t.flows
        PROVE  /\ t.writers[t.flows[kind]].state = "open" \/ kind = "main" => Mapped(t, t.flows[kind])
               /\ kind = "main" => t.writers[t.flows[kind]].critical
    BY <1>1, <1>3, <1>5 DEF Held
  <2>3. QED
    BY <1>1, <1>3, <2>1, <2>2 DEF Held
<1>7. Ended(t)
  <2>1. s.failed => Quiet(t)
    BY <1>1, <1>2, <1>3 DEF Ended, Quiet
  <2>2. t.died => t.map = <<>>
    <3>1. SUFFICES ASSUME t.died PROVE m = <<>>
      BY <1>3
    <3>2. s.map = <<>>
      BY <1>1, <1>3, <3>1 DEF Ended
    <3>3. DOMAIN m = {}
      BY <1>2, <3>2
    <3>4. QED
      BY <3>3 DEF m, RS!Restrict
  <2>3. QED
    BY <1>1, <1>3, <2>1, <2>2 DEF Ended
<1>8. QED
  BY <1>3, <1>4, <1>6, <1>7 DEF Good, t, m

\* The walk erases closed writers before the first main one that is closed, none of
\* which is critical, and fails the session if there is one.
LEMMA WalkGood ==
    ASSUME RS!SessionAssumption, NEW s, NEW last, Good(s, last), ~s.died, ~s.failed, RS!Walk(s), lastId' = last
    PROVE  Good(RS!Now, lastId)'
<1> DEFINE closing == {id \in DOMAIN s.map : LET w == s.writers[s.map[id]] IN w.critical /\ w.state = "closed"}
           passed == IF closing = {} THEN DOMAIN s.map ELSE {id \in DOMAIN s.map : id < RS!Min(closing)}
           gone == {id \in passed : s.writers[s.map[id]].state = "closed"}
           ws == [o \in DOMAIN s.writers |-> IF \E id \in passed : s.map[id] = o
                                             THEN RS!Flushed(s.writers[o]) ELSE s.writers[o]]
           m == RS!Restrict(s.map, DOMAIN s.map \ gone)
           t == [s EXCEPT !.map = m, !.writers = ws]
           r == [s EXCEPT !.map = m]
<1>1. IF closing = {} THEN RS!Becomes(t) ELSE RS!Fails(t, FALSE)
  <2>1. PICK c \in {closing} :
           \E p \in {IF c = {} THEN DOMAIN s.map ELSE {id \in DOMAIN s.map : id < RS!Min(c)}} :
           \E g \in {{id \in p : s.writers[s.map[id]].state = "closed"}} :
           \E x \in {[s EXCEPT !.map = RS!Restrict(s.map, DOMAIN s.map \ g),
                              !.writers = [o \in DOMAIN s.writers |-> IF \E id \in p : s.map[id] = o
                                                  THEN RS!Flushed(s.writers[o]) ELSE s.writers[o]]]} :
              IF c = {} THEN RS!Becomes(x) ELSE RS!Fails(x, FALSE)
    BY Zenon DEF RS!Walk
  <2>2. c = closing
    BY <2>1
  <2>3. PICK p \in {IF c = {} THEN DOMAIN s.map ELSE {id \in DOMAIN s.map : id < RS!Min(c)}} :
           \E g \in {{id \in p : s.writers[s.map[id]].state = "closed"}} :
           \E x \in {[s EXCEPT !.map = RS!Restrict(s.map, DOMAIN s.map \ g),
                              !.writers = [o \in DOMAIN s.writers |-> IF \E id \in p : s.map[id] = o
                                                  THEN RS!Flushed(s.writers[o]) ELSE s.writers[o]]]} :
              IF c = {} THEN RS!Becomes(x) ELSE RS!Fails(x, FALSE)
    BY <2>1, Zenon
  <2> HIDE DEF closing
  <2>4. p = passed
    BY <2>2, <2>3, Zenon
  <2> HIDE DEF passed
  <2>5. PICK g \in {{id \in p : s.writers[s.map[id]].state = "closed"}} :
           \E x \in {[s EXCEPT !.map = RS!Restrict(s.map, DOMAIN s.map \ g),
                              !.writers = [o \in DOMAIN s.writers |-> IF \E id \in p : s.map[id] = o
                                                  THEN RS!Flushed(s.writers[o]) ELSE s.writers[o]]]} :
              IF c = {} THEN RS!Becomes(x) ELSE RS!Fails(x, FALSE)
    BY <2>3, Zenon
  <2>6. g = gone
    BY <2>4, <2>5, Zenon
  <2> HIDE DEF gone
  <2>7. PICK x \in {[s EXCEPT !.map = RS!Restrict(s.map, DOMAIN s.map \ g),
                              !.writers = [o \in DOMAIN s.writers |-> IF \E id \in p : s.map[id] = o
                                                  THEN RS!Flushed(s.writers[o]) ELSE s.writers[o]]]} :
           IF c = {} THEN RS!Becomes(x) ELSE RS!Fails(x, FALSE)
    BY <2>5, Zenon
  <2>8. x = t
    BY <2>4, <2>6, <2>7, Zenon
  <2> HIDE DEF t
  <2>9. QED
    BY <2>2, <2>7, <2>8, Zenon
<1>2. Shape(s) /\ Typed(s, last)
  BY DEF Good
<1>3. passed \subseteq DOMAIN s.map /\ passed \cap closing = {}
  <2>1. CASE closing = {}
    BY <2>1
  <2>2. CASE closing # {}
    <3>1. closing \in SUBSET Nat
      BY <1>2 DEF Typed
    <3> HIDE DEF closing
    <3>2. \A id \in closing : RS!Min(closing) <= id /\ RS!Min(closing) \in Nat /\ id \in Nat
      BY <2>2, <3>1, LeastNumber DEF RS!Min
    <3>3. \A id \in closing : ~(id < RS!Min(closing))
      BY <3>2
    <3>4. QED
      BY <2>2, <3>3
  <2>3. QED
    BY <2>1, <2>2
<1>4. ws \in [1 .. Len(s.writers) -> RS!Writer]
  BY <1>2, WriterFacts DEF Typed
<1>5. \A o \in 1 .. Len(s.writers) : ws[o].critical = s.writers[o].critical /\ ws[o].state = s.writers[o].state
  BY <1>2, WriterFacts DEF Typed
<1>6. \A id \in gone : id \in DOMAIN s.map /\ s.writers[s.map[id]].state = "closed" /\ ~s.writers[s.map[id]].critical
  BY <1>3
<1>7. Good(r, last)
  <2> HIDE DEF gone
  <2>1. QED
    BY <1>6, MapTrimmed
<1> HIDE DEF gone, ws, m
<1>8. /\ t = [r EXCEPT !.writers = ws] /\ r.writers = s.writers /\ r.failed = s.failed
      /\ t.died = s.died /\ t.failed = s.failed
  BY <1>2 DEF Shape
<1> HIDE DEF r
<1>9. Good([r EXCEPT !.writers = ws], last)
  BY <1>4, <1>5, <1>7, <1>8, WritersChanged
<1>10. Good(t, last) /\ ~t.died
  BY <1>8, <1>9
<1> HIDE DEF t
<1>11. CASE closing = {}
  BY <1>1, <1>10, <1>11, BecomesGood
<1>12. CASE closing # {}
  BY <1>1, <1>10, <1>12, FailsGood
<1>13. QED
  BY <1>11, <1>12

\* A writer that gives up takes the next identifier.
LEMMA GaveUpGood ==
    ASSUME Good(RS!Now, lastId), ~failed, NEW id \in DOMAIN map
    PROVE  /\ Good(RS!GaveUp(RS!Now, id), lastId + 1)
           /\ RS!GaveUp(RS!Now, id).died = died /\ RS!GaveUp(RS!Now, id).failed = failed
<1> DEFINE o == map[id]
           ws == [writers EXCEPT ![o] = RS!Cleared(writers[o])]
           left == RS!Restrict(map, DOMAIN map \ {id})
           m == RS!With(left, lastId + 1, o)
           t == [RS!Now EXCEPT !.writers = ws, !.map = m]
<1>1. RS!GaveUp(RS!Now, id) = t
  BY DEF RS!GaveUp, RS!Now
<1>2. Shape(RS!Now) /\ Typed(RS!Now, lastId) /\ Held(RS!Now) /\ Ended(RS!Now)
  BY DEF Good
<1>3. /\ lastId \in Nat /\ writers \in Seq(RS!Writer) /\ Len(writers) \in Nat /\ writers \in [1 .. Len(writers) -> RS!Writer]
      /\ \A i \in DOMAIN map : i \in 1 .. lastId /\ map[i] \in 1 .. Len(writers)
  BY <1>2 DEF Typed, RS!Now
<1>4. /\ ws \in [1 .. Len(writers) -> RS!Writer]
      /\ \A x \in 1 .. Len(writers) : ws[x].critical = writers[x].critical /\ ws[x].state = writers[x].state
  BY <1>3, WriterFacts
<1>5. /\ DOMAIN m = (DOMAIN map \ {id}) \cup {lastId + 1} /\ m[lastId + 1] = o
      /\ \A i \in DOMAIN map \ {id} : m[i] = map[i]
  <2>1. DOMAIN left = DOMAIN map \ {id} /\ \A i \in DOMAIN map \ {id} : left[i] = map[i]
    BY DEF RS!Restrict
  <2> HIDE DEF left
  <2>2. \A i \in DOMAIN map : i # lastId + 1
    BY <1>3
  <2>3. QED
    BY <2>1, <2>2 DEF RS!With
<1> HIDE DEF ws, m
<1>6. /\ Shape(t) /\ t.writers = ws /\ t.map = m /\ t.flows = flows /\ t.group = group
      /\ t.connected = connected /\ t.peerWriter = peerWriter /\ t.failed = failed
      /\ t.died = died /\ t.timesFailed = timesFailed /\ t.farewells = farewells
  BY DEF Shape, RS!Now
<1> HIDE DEF t
<1>7. ws \in Seq(RS!Writer) /\ Len(ws) = Len(writers)
  BY <1>3, <1>4, Sequenced
<1>8. Typed(t, lastId + 1)
  <2>1. \A i \in DOMAIN m : i \in 1 .. lastId + 1 /\ m[i] \in 1 .. Len(writers)
    BY <1>3, <1>5
  <2>2. QED
    BY <1>2, <1>3, <1>4, <1>6, <1>7, <2>1 DEF Typed, RS!Now
<1>9. \A x : Mapped(RS!Now, x) => Mapped(t, x)
  BY <1>3, <1>5, <1>6 DEF Mapped, RS!Now
<1>10. Held(t)
  <2>1. /\ connected <=> peerWriter # 0
        /\ connected => Mapped(RS!Now, peerWriter) /\ writers[peerWriter].critical /\ peerWriter \in 1 .. Len(writers)
    BY <1>2, <1>3 DEF Held, Typed, RS!Now
  <2>2. \A kind \in DOMAIN flows :
          /\ flows[kind] \in 1 .. Len(writers)
          /\ writers[flows[kind]].state = "open" \/ kind = "main" => Mapped(RS!Now, flows[kind])
          /\ kind = "main" => writers[flows[kind]].critical
    BY <1>2 DEF Held, Typed, RS!Now
  <2>3. QED
    BY <1>4, <1>6, <1>9, <2>1, <2>2 DEF Held
<1>11. Ended(t)
  BY <1>2, <1>6 DEF Ended, RS!Now
<1>12. QED
  BY <1>1, <1>6, <1>8, <1>10, <1>11 DEF Good

-----------------------------------------------------------------------------
(* Packets and calls *)

\* What most packets and calls leave alone.
Others == <<group, connected, peerWriter, failed, died, timesFailed, farewells>>

\* A step that changes writers only, and opens none.
LEMMA WritersStep ==
    ASSUME Good(RS!Now, lastId), writers' \in [1 .. Len(writers) -> RS!Writer],
           \A o \in 1 .. Len(writers) : /\ writers'[o].critical = writers[o].critical
                                        /\ writers'[o].state = "open" => writers[o].state = "open",
           failed => \A id \in DOMAIN map : ~writers'[map[id]].queued /\ ~writers'[map[id]].armed,
           UNCHANGED <<map, flows, lastId, Others>>
    PROVE  Good(RS!Now, lastId)'
<1> DEFINE t == [RS!Now EXCEPT !.writers = writers']
<1>1. /\ t.writers = writers' /\ t.map = map /\ t.flows = flows /\ t.group = group
      /\ t.connected = connected /\ t.peerWriter = peerWriter /\ t.failed = failed
      /\ t.died = died /\ t.timesFailed = timesFailed /\ t.farewells = farewells
  BY DEF RS!Now
<1>2. RS!Becomes(t)
  <2> HIDE DEF t
  <2>1. QED
    BY <1>1 DEF RS!Becomes, Others
<1>3. RS!Now.writers = writers /\ RS!Now.failed = failed /\ RS!Now.map = map
  BY DEF RS!Now
<1>4. Good(t, lastId)
  <2> DEFINE ws == writers'
  <2>1. /\ ws \in [1 .. Len(writers) -> RS!Writer]
        /\ \A o \in 1 .. Len(writers) : /\ ws[o].critical = writers[o].critical
                                        /\ ws[o].state = "open" => writers[o].state = "open"
        /\ failed => \A id \in DOMAIN map : ~ws[map[id]].queued /\ ~ws[map[id]].armed
    OBVIOUS
  <2> HIDE DEF ws
  <2>2. Good([RS!Now EXCEPT !.writers = ws], lastId)
    BY <1>3, <2>1, WritersChanged
  <2>3. QED
    BY <2>2 DEF ws
<1> HIDE DEF t
<1>5. lastId' = lastId
  OBVIOUS
<1>6. QED
  BY <1>2, <1>4, <1>5, BecomesGood

\* A new writer, of the application's or of a new flow.
LEMMA NewWriterStep ==
    ASSUME Good(RS!Now, lastId), ~failed, NEW w \in RS!Writer, RS!NewWriter(w), UNCHANGED Others,
           \/ UNCHANGED flows
           \/ \E kind \in Kinds : flows' = RS!With(flows, kind, Len(writers) + 1) /\ (kind = "main" => w.critical)
    PROVE  Good(RS!Now, lastId)'
<1> DEFINE n == Len(writers)
<1>1. Shape(RS!Now) /\ Typed(RS!Now, lastId) /\ Held(RS!Now) /\ Ended(RS!Now)
  BY DEF Good
<1>2. /\ lastId \in Nat /\ writers \in Seq(RS!Writer) /\ n \in Nat /\ writers \in [1 .. n -> RS!Writer]
      /\ \A i \in DOMAIN map : i \in 1 .. lastId /\ map[i] \in 1 .. n
      /\ \A kind \in DOMAIN flows : kind \in Kinds /\ flows[kind] \in 1 .. n
  BY <1>1 DEF Typed, RS!Now
<1>3. /\ writers' = Append(writers, w) /\ lastId' = lastId + 1 /\ map' = RS!With(map, lastId + 1, n + 1)
  BY DEF RS!NewWriter
<1>4. /\ writers' \in Seq(RS!Writer) /\ Len(writers') = n + 1
      /\ \A o \in 1 .. n : writers'[o] = writers[o]
      /\ writers'[n + 1] = w
  BY <1>2, <1>3, AppendProperties
<1>5. writers' \in [1 .. Len(writers') -> RS!Writer]
  BY <1>4, LenProperties
<1>6. /\ DOMAIN map' = DOMAIN map \cup {lastId + 1} /\ map'[lastId + 1] = n + 1
      /\ \A i \in DOMAIN map : map'[i] = map[i]
  BY <1>2, <1>3 DEF RS!With
<1>7. /\ \A kind \in DOMAIN flows' :
            /\ kind \in Kinds
            /\ \/ kind \in DOMAIN flows /\ flows'[kind] = flows[kind]
               \/ flows'[kind] = n + 1 /\ (kind = "main" => w.critical)
  <2>1. CASE UNCHANGED flows
    BY <1>2, <2>1
  <2>2. CASE ~UNCHANGED flows
    <3>1. PICK kind \in Kinds : flows' = RS!With(flows, kind, n + 1) /\ (kind = "main" => w.critical)
      BY <2>2
    <3>2. QED
      BY <1>2, <3>1 DEF RS!With
  <2>3. QED
    BY <2>1, <2>2
<1>8. Typed(RS!Now, lastId)'
  <2>1. \A i \in DOMAIN map' : i \in 1 .. lastId' /\ map'[i] \in 1 .. Len(writers')
    BY <1>2, <1>3, <1>4, <1>6
  <2>2. \A kind \in DOMAIN flows' : kind \in Kinds /\ flows'[kind] \in 1 .. Len(writers')
    BY <1>2, <1>4, <1>7
  <2>3. peerWriter' \in 0 .. Len(writers')
    BY <1>1, <1>2, <1>4 DEF Typed, RS!Now, Others
  <2>4. QED
    BY <1>1, <1>2, <1>3, <1>4, <1>5, <2>1, <2>2, <2>3 DEF Typed, RS!Now, Others
<1>9. \A o : (\E i \in DOMAIN map : map[i] = o) \/ o = n + 1 => \E i \in DOMAIN map' : map'[i] = o
  BY <1>6
<1>10. Held(RS!Now)'
  <2>1. /\ connected' <=> peerWriter' # 0
        /\ connected' => /\ \E i \in DOMAIN map' : map'[i] = peerWriter'
                         /\ writers'[peerWriter'].critical
    <3>1. /\ connected <=> peerWriter # 0
          /\ connected => /\ \E i \in DOMAIN map : map[i] = peerWriter
                          /\ writers[peerWriter].critical /\ peerWriter \in 1 .. n
      BY <1>1, <1>2 DEF Held, Mapped, RS!Now
    <3>2. QED
      BY <1>4, <1>9, <3>1 DEF Others
  <2>2. ASSUME NEW kind \in DOMAIN flows'
        PROVE  /\ writers'[flows'[kind]].state = "open" \/ kind = "main" => \E i \in DOMAIN map' : map'[i] = flows'[kind]
               /\ kind = "main" => writers'[flows'[kind]].critical
    <3>1. CASE kind \in DOMAIN flows /\ flows'[kind] = flows[kind]
      <4>1. /\ flows[kind] \in 1 .. n
            /\ writers[flows[kind]].state = "open" \/ kind = "main" => \E i \in DOMAIN map : map[i] = flows[kind]
            /\ kind = "main" => writers[flows[kind]].critical
        BY <1>1, <1>2, <3>1 DEF Held, Mapped, RS!Now
      <4>2. QED
        BY <1>4, <1>9, <3>1, <4>1
    <3>2. CASE flows'[kind] = n + 1 /\ (kind = "main" => w.critical)
      BY <1>4, <1>9, <3>2
    <3>3. QED
      BY <1>7, <3>1, <3>2
  <2>3. QED
    BY <2>1, <2>2 DEF Held, Mapped, RS!Now
<1>11. Ended(RS!Now)'
  BY <1>1 DEF Ended, RS!Now, Others
<1>12. Shape(RS!Now)'
  BY DEF Shape, RS!Now
<1>13. QED
  BY <1>8, <1>10, <1>11, <1>12 DEF Good

\* An object that is rejected takes the next identifier, and a closed copy its old one.
LEMMA RejectedStep ==
    ASSUME Good(RS!Now, lastId), NEW id \in DOMAIN map, RS!Rejected(id), UNCHANGED <<flows, Others>>
    PROVE  Good(RS!Now, lastId)'
<1> DEFINE n == Len(writers)
           o == map[id]
<1>1. Shape(RS!Now) /\ Typed(RS!Now, lastId) /\ Held(RS!Now) /\ Ended(RS!Now)
  BY DEF Good
<1>2. /\ lastId \in Nat /\ writers \in Seq(RS!Writer) /\ n \in Nat /\ writers \in [1 .. n -> RS!Writer]
      /\ \A i \in DOMAIN map : i \in 1 .. lastId /\ map[i] \in 1 .. n
      /\ \A kind \in DOMAIN flows : kind \in Kinds /\ flows[kind] \in 1 .. n
  BY <1>1 DEF Typed, RS!Now
<1>3. CASE writers[o].state = "closed"
  <2>1. UNCHANGED <<writers, map, lastId, flows, Others>>
    BY <1>3 DEF RS!Rejected
  <2>2. QED
    BY <2>1 DEF Good, Shape, Typed, Held, Mapped, Ended, Quiet, RS!Now, Others
<1>4. CASE writers[o].state # "closed"
  <2> DEFINE ws == [writers EXCEPT ![o] = RS!Cleared(writers[o])]
  <2>1. /\ writers' = Append(ws, RS!ClosedCopy) /\ lastId' = lastId + 1
        /\ map' = RS!With(RS!With(map, id, n + 1), lastId + 1, o)
    BY <1>4 DEF RS!Rejected
  <2>2. /\ ws \in [1 .. n -> RS!Writer]
        /\ \A x \in 1 .. n : /\ ws[x].critical = writers[x].critical /\ ws[x].state = writers[x].state
                             /\ ws[x] = writers[x] \/ (~ws[x].queued /\ ~ws[x].armed)
    BY <1>2, WriterFacts
  <2>3. ws \in Seq(RS!Writer) /\ Len(ws) = n
    BY <1>2, <2>2, Sequenced
  <2>4. RS!ClosedCopy \in RS!Writer
    BY DEF RS!ClosedCopy, RS!Writer
  <2> HIDE DEF ws
  <2>5. /\ writers' \in Seq(RS!Writer) /\ Len(writers') = n + 1
        /\ \A x \in 1 .. n : writers'[x] = ws[x]
        /\ writers'[n + 1] = RS!ClosedCopy
    BY <2>1, <2>3, <2>4, AppendProperties
  <2>6. writers' \in [1 .. Len(writers') -> RS!Writer]
    BY <2>5, LenProperties
  <2>7. /\ DOMAIN map' = DOMAIN map \cup {lastId + 1} /\ map'[lastId + 1] = o /\ map'[id] = n + 1
        /\ \A i \in DOMAIN map \ {id} : map'[i] = map[i]
    <3>1. /\ DOMAIN RS!With(map, id, n + 1) = DOMAIN map /\ RS!With(map, id, n + 1)[id] = n + 1
          /\ \A i \in DOMAIN map \ {id} : RS!With(map, id, n + 1)[i] = map[i]
      BY DEF RS!With
    <3>2. lastId + 1 \notin DOMAIN map /\ id # lastId + 1
      BY <1>2
    <3> DEFINE one == RS!With(map, id, n + 1)
    <3>3. map' = RS!With(one, lastId + 1, o)
      BY <2>1
    <3> HIDE DEF one
    <3>4. /\ DOMAIN map' = DOMAIN one \cup {lastId + 1} /\ map'[lastId + 1] = o
          /\ \A i \in DOMAIN one : i # lastId + 1 => map'[i] = one[i]
      BY <3>3 DEF RS!With
    <3>5. QED
      BY <3>1, <3>2, <3>4 DEF one
  <2>8. \A x : (\E i \in DOMAIN map : map[i] = x) => \E i \in DOMAIN map' : map'[i] = x
    BY <1>2, <2>7
  <2>9. Typed(RS!Now, lastId)'
    <3>1. \A i \in DOMAIN map' : i \in 1 .. lastId' /\ map'[i] \in 1 .. Len(writers')
      BY <1>2, <2>1, <2>5, <2>7
    <3>2. \A kind \in DOMAIN flows' : kind \in Kinds /\ flows'[kind] \in 1 .. Len(writers')
      BY <1>2, <2>5
    <3>3. peerWriter' \in 0 .. Len(writers')
      BY <1>1, <1>2, <2>5 DEF Typed, RS!Now, Others
    <3>4. QED
      BY <1>1, <1>2, <2>1, <2>5, <2>6, <3>1, <3>2, <3>3 DEF Typed, RS!Now, Others
  <2>10. Held(RS!Now)'
    <3>1. /\ connected' <=> peerWriter' # 0
          /\ connected' => /\ \E i \in DOMAIN map' : map'[i] = peerWriter'
                           /\ writers'[peerWriter'].critical
      <4>1. /\ connected <=> peerWriter # 0
            /\ connected => /\ \E i \in DOMAIN map : map[i] = peerWriter
                            /\ writers[peerWriter].critical /\ peerWriter \in 1 .. n
        BY <1>1, <1>2 DEF Held, Mapped, RS!Now
      <4>2. QED
        BY <2>2, <2>5, <2>8, <4>1 DEF Others
    <3>2. ASSUME NEW kind \in DOMAIN flows'
          PROVE  /\ writers'[flows'[kind]].state = "open" \/ kind = "main" => \E i \in DOMAIN map' : map'[i] = flows'[kind]
                 /\ kind = "main" => writers'[flows'[kind]].critical
      <4>1. /\ flows[kind] \in 1 .. n /\ flows'[kind] = flows[kind]
            /\ writers[flows[kind]].state = "open" \/ kind = "main" => \E i \in DOMAIN map : map[i] = flows[kind]
            /\ kind = "main" => writers[flows[kind]].critical
        BY <1>1, <1>2 DEF Held, Mapped, RS!Now
      <4>2. QED
        BY <2>2, <2>5, <2>8, <4>1
    <3>3. QED
      BY <3>1, <3>2 DEF Held, Mapped, RS!Now
  <2>11. Ended(RS!Now)'
    <3>1. ~died
      BY <1>1 DEF Ended, RS!Now
    <3>2. failed => \A i \in DOMAIN map' : ~writers'[map'[i]].queued /\ ~writers'[map'[i]].armed
      <4>1. ASSUME failed, NEW i \in DOMAIN map' PROVE ~writers'[map'[i]].queued /\ ~writers'[map'[i]].armed
        <5>1. \A j \in DOMAIN map : ~writers[map[j]].queued /\ ~writers[map[j]].armed
          BY <1>1, <4>1 DEF Ended, Quiet, RS!Now
        <5>2. \A j \in DOMAIN map : ~writers'[map[j]].queued /\ ~writers'[map[j]].armed
          BY <1>2, <2>2, <2>5, <5>1
        <5>3. CASE i = id
          BY <2>5, <2>7, <5>3 DEF RS!ClosedCopy
        <5>4. CASE i # id
          BY <2>7, <5>2, <5>4
        <5>5. QED
          BY <5>3, <5>4
      <4>2. QED
        BY <4>1
    <3>3. QED
      BY <1>1, <3>1, <3>2 DEF Ended, Quiet, RS!Now, Others
  <2>12. Shape(RS!Now)'
    BY DEF Shape, RS!Now
  <2>13. QED
    BY <2>9, <2>10, <2>11, <2>12 DEF Good
<1>5. QED
  BY <1>3, <1>4

\* A flow that ends leaves its writer in the map, closed.
LEMMA EndFlowStep ==
    ASSUME Good(RS!Now, lastId), NEW kind \in Kinds, RS!EndFlow(kind)
    PROVE  Good(RS!Now, lastId)'
<1> DEFINE o == flows[kind]
           n == Len(writers)
<1>1. Shape(RS!Now) /\ Typed(RS!Now, lastId) /\ Held(RS!Now) /\ Ended(RS!Now) /\ ~failed
  BY DEF Good, RS!EndFlow
<1>2. /\ writers \in [1 .. n -> RS!Writer] /\ n \in Nat /\ o \in 1 .. n
      /\ \A k \in DOMAIN flows : k \in Kinds /\ flows[k] \in 1 .. n
  BY <1>1 DEF Typed, RS!Now, RS!EndFlow
<1>3. /\ writers' = [writers EXCEPT ![o] = RS!Closed(writers[o])]
      /\ flows' = RS!Restrict(flows, DOMAIN flows \ {kind}) /\ group' = (group /\ kind # "group")
      /\ UNCHANGED <<map, lastId, connected, peerWriter, failed, died, timesFailed, farewells>>
  BY DEF RS!EndFlow
<1>4. /\ writers' \in [1 .. n -> RS!Writer]
      /\ \A x \in 1 .. n : /\ writers'[x].critical = writers[x].critical
                           /\ writers'[x].state = "open" => writers[x].state = "open"
  BY <1>2, <1>3, WriterFacts
<1>5. writers' \in Seq(RS!Writer) /\ Len(writers') = n
  BY <1>2, <1>4, Sequenced
<1>6. DOMAIN flows' \subseteq DOMAIN flows /\ \A k \in DOMAIN flows' : flows'[k] = flows[k]
  BY <1>3 DEF RS!Restrict
<1>7. Typed(RS!Now, lastId)'
  BY <1>1, <1>2, <1>3, <1>4, <1>5, <1>6 DEF Typed, RS!Now
<1>8. Held(RS!Now)'
  <2>1. /\ connected' <=> peerWriter' # 0
        /\ connected' => /\ \E i \in DOMAIN map' : map'[i] = peerWriter'
                         /\ writers'[peerWriter'].critical
    <3>1. /\ connected <=> peerWriter # 0
          /\ connected => /\ \E i \in DOMAIN map : map[i] = peerWriter
                          /\ writers[peerWriter].critical /\ peerWriter \in 1 .. n
      BY <1>1, <1>2 DEF Held, Mapped, Typed, RS!Now
    <3>2. QED
      BY <1>3, <1>4, <3>1
  <2>2. ASSUME NEW k \in DOMAIN flows'
        PROVE  /\ writers'[flows'[k]].state = "open" \/ k = "main" => \E i \in DOMAIN map' : map'[i] = flows'[k]
               /\ k = "main" => writers'[flows'[k]].critical
    <3>1. /\ writers[flows[k]].state = "open" \/ k = "main" => \E i \in DOMAIN map : map[i] = flows[k]
          /\ k = "main" => writers[flows[k]].critical
      BY <1>1, <1>6 DEF Held, Mapped, RS!Now
    <3>2. QED
      BY <1>2, <1>3, <1>4, <1>6, <3>1
  <2>3. QED
    BY <2>1, <2>2 DEF Held, Mapped, RS!Now
<1>9. Ended(RS!Now)' /\ Shape(RS!Now)'
  BY <1>1, <1>3 DEF Ended, RS!Now, Shape
<1>10. QED
  BY <1>7, <1>8, <1>9 DEF Good

\* The client that connects holds the main writer, which is in the map while it is open.
LEMMA ConnectStep ==
    ASSUME Good(RS!Now, lastId), NEW accepted \in BOOLEAN, NEW closing \in BOOLEAN, RS!Connect(accepted, closing)
    PROVE  Good(RS!Now, lastId)'
<1> DEFINE o == flows["main"]
           n == Len(writers)
           open == [writers[o] EXCEPT !.state = "open", !.armed = TRUE]
           w == IF accepted THEN open ELSE RS!Refused(open)
<1>1. Shape(RS!Now) /\ Typed(RS!Now, lastId) /\ Held(RS!Now) /\ Ended(RS!Now) /\ ~failed
  BY DEF Good, RS!Connect
<1>2. /\ writers \in [1 .. n -> RS!Writer] /\ n \in Nat /\ o \in 1 .. n
      /\ \A k \in DOMAIN flows : k \in Kinds /\ flows[k] \in 1 .. n
  BY <1>1 DEF Typed, RS!Now, RS!Connect
<1>3. /\ "main" \in DOMAIN flows
      /\ writers' = [writers EXCEPT ![o] = w]
      /\ connected' = accepted /\ peerWriter' = IF accepted THEN o ELSE 0
      /\ UNCHANGED <<map, lastId, flows, group, failed, died, timesFailed, farewells>>
  BY DEF RS!Connect
<1>4. w \in RS!Writer /\ w.critical = writers[o].critical
  <2>1. writers[o] \in RS!Writer
    BY <1>2
  <2>2. open \in RS!Writer /\ open.critical = writers[o].critical
    BY <2>1 DEF RS!Writer
  <2> HIDE DEF open
  <2>3. RS!Refused(open) \in RS!Writer /\ RS!Refused(open).critical = open.critical
    BY <2>2, WriterFacts DEF RS!Refused
  <2>4. QED
    BY <2>2, <2>3
<1> HIDE DEF open, w
<1>5. /\ writers' \in [1 .. n -> RS!Writer]
      /\ \A x \in 1 .. n : /\ writers'[x].critical = writers[x].critical
                           /\ x # o => writers'[x] = writers[x]
  BY <1>2, <1>3, <1>4
<1>6. writers' \in Seq(RS!Writer) /\ Len(writers') = n
  BY <1>2, <1>5, Sequenced
<1>7. Typed(RS!Now, lastId)'
  BY <1>1, <1>2, <1>3, <1>5, <1>6 DEF Typed, RS!Now
<1>8. Held(RS!Now)'
  <2>1. /\ \E i \in DOMAIN map : map[i] = o
        /\ writers[o].critical
    BY <1>1, <1>3 DEF Held, Mapped, RS!Now
  <2>2. /\ connected' <=> peerWriter' # 0
        /\ connected' => /\ \E i \in DOMAIN map' : map'[i] = peerWriter'
                         /\ writers'[peerWriter'].critical
    BY <1>2, <1>3, <1>5, <2>1
  <2>3. ASSUME NEW k \in DOMAIN flows'
        PROVE  /\ writers'[flows'[k]].state = "open" \/ k = "main" => \E i \in DOMAIN map' : map'[i] = flows'[k]
               /\ k = "main" => writers'[flows'[k]].critical
    <3>1. /\ writers[flows[k]].state = "open" \/ k = "main" => \E i \in DOMAIN map : map[i] = flows[k]
          /\ k = "main" => writers[flows[k]].critical
      BY <1>1, <1>3 DEF Held, Mapped, RS!Now
    <3>2. QED
      BY <1>2, <1>3, <1>5, <2>1, <3>1
  <2>4. QED
    BY <2>2, <2>3 DEF Held, Mapped, RS!Now
<1>9. Ended(RS!Now)' /\ Shape(RS!Now)'
  <2>1. ~died
    BY <1>1 DEF Ended, RS!Now
  <2>2. QED
    BY <1>1, <1>3, <2>1 DEF Ended, RS!Now, Shape
<1>10. QED
  BY <1>7, <1>8, <1>9 DEF Good

\* The calls of the application on a writer, and an acknowledgment.
LEMMA CallsStep ==
    ASSUME Good(RS!Now, lastId),
           \/ \E id \in DOMAIN map : RS!Acknowledgment(id)
           \/ \E o \in RS!Objects, flushed \in BOOLEAN : RS!AppWrite(o, flushed)
           \/ \E o \in RS!Objects : RS!AppClose(o)
    PROVE  Good(RS!Now, lastId)'
<1> DEFINE n == Len(writers)
<1>1. Shape(RS!Now) /\ Typed(RS!Now, lastId) /\ Ended(RS!Now)
  BY DEF Good
<1>2. /\ writers \in [1 .. n -> RS!Writer] /\ n \in Nat
      /\ \A i \in DOMAIN map : map[i] \in 1 .. n
      /\ failed => \A i \in DOMAIN map : ~writers[map[i]].queued /\ ~writers[map[i]].armed
  BY <1>1 DEF Typed, Ended, Quiet, RS!Now
<1>3. PICK o \in 1 .. n, w \in RS!Writer :
         /\ writers' = [writers EXCEPT ![o] = w]
         /\ w.critical = writers[o].critical /\ (w.state = "open" => writers[o].state = "open")
         /\ failed => /\ w.queued => writers[o].queued
                      /\ w.armed => writers[o].armed
         /\ UNCHANGED <<map, flows, lastId, Others>>
  <2>1. ASSUME NEW id \in DOMAIN map, RS!Acknowledgment(id)
        PROVE  \E o \in 1 .. n, w \in RS!Writer :
                  /\ writers' = [writers EXCEPT ![o] = w]
                  /\ w.critical = writers[o].critical /\ (w.state = "open" => writers[o].state = "open")
                  /\ failed => /\ w.queued => writers[o].queued
                               /\ w.armed => writers[o].armed
                  /\ UNCHANGED <<map, flows, lastId, Others>>
    <3> DEFINE o == map[id]
               w == [writers[o] EXCEPT !.armed = FALSE]
    <3>1. o \in 1 .. n /\ writers[o] \in RS!Writer
      BY <1>2
    <3>2. /\ w \in RS!Writer /\ w.critical = writers[o].critical /\ w.state = writers[o].state
          /\ w.queued = writers[o].queued /\ w.armed = FALSE
      BY <3>1 DEF RS!Writer
    <3>3. RS!Becomes([RS!Now EXCEPT !.writers = [writers EXCEPT ![o] = w]]) /\ UNCHANGED lastId
      BY <2>1 DEF RS!Acknowledgment
    <3> HIDE DEF w
    <3>4. writers' = [writers EXCEPT ![o] = w] /\ UNCHANGED <<map, flows, lastId, Others>>
      BY <3>3 DEF RS!Becomes, RS!Now, Others
    <3>5. QED
      BY <3>1, <3>2, <3>4
  <2>2. ASSUME NEW o \in RS!Objects, NEW flushed \in BOOLEAN, RS!AppWrite(o, flushed)
        PROVE  \E x \in 1 .. n, w \in RS!Writer :
                  /\ writers' = [writers EXCEPT ![x] = w]
                  /\ w.critical = writers[x].critical /\ (w.state = "open" => writers[x].state = "open")
                  /\ failed => /\ w.queued => writers[x].queued
                               /\ w.armed => writers[x].armed
                  /\ UNCHANGED <<map, flows, lastId, Others>>
    <3> DEFINE w == IF flushed THEN [writers[o] EXCEPT !.queued = FALSE, !.armed = TRUE]
                               ELSE [writers[o] EXCEPT !.queued = TRUE]
    <3>1. o \in 1 .. n /\ writers[o] \in RS!Writer
      BY <1>2 DEF RS!Objects
    <3>2. /\ w \in RS!Writer /\ w.critical = writers[o].critical /\ w.state = writers[o].state
      BY <3>1 DEF RS!Writer
    <3>3. writers' = [writers EXCEPT ![o] = w] /\ UNCHANGED <<map, flows, lastId, Others>> /\ ~failed
      BY <2>2 DEF RS!AppWrite, Others
    <3> HIDE DEF w
    <3>4. QED
      BY <3>1, <3>2, <3>3
  <2>3. ASSUME NEW o \in RS!Objects, RS!AppClose(o)
        PROVE  \E x \in 1 .. n, w \in RS!Writer :
                  /\ writers' = [writers EXCEPT ![x] = w]
                  /\ w.critical = writers[x].critical /\ (w.state = "open" => writers[x].state = "open")
                  /\ failed => /\ w.queued => writers[x].queued
                               /\ w.armed => writers[x].armed
                  /\ UNCHANGED <<map, flows, lastId, Others>>
    <3> DEFINE w == IF failed THEN [writers[o] EXCEPT !.state = "closed"] ELSE RS!Closed(writers[o])
    <3>1. o \in 1 .. n /\ writers[o] \in RS!Writer
      BY <1>2 DEF RS!Objects
    <3>2. /\ w \in RS!Writer /\ w.critical = writers[o].critical /\ w.state = "closed"
          /\ failed => w.queued = writers[o].queued /\ w.armed = writers[o].armed
      BY <3>1, WriterFacts DEF RS!Writer
    <3>3. writers' = [writers EXCEPT ![o] = w] /\ UNCHANGED <<map, flows, lastId, Others>>
      BY <2>3 DEF RS!AppClose, Others
    <3> HIDE DEF w
    <3>4. QED
      BY <3>1, <3>2, <3>3
  <2>4. QED
    BY <2>1, <2>2, <2>3
<1>4. /\ writers' \in [1 .. n -> RS!Writer]
      /\ \A x \in 1 .. n : /\ writers'[x].critical = writers[x].critical
                           /\ writers'[x].state = "open" => writers[x].state = "open"
                           /\ failed => /\ writers'[x].queued => writers[x].queued
                                        /\ writers'[x].armed => writers[x].armed
  BY <1>2, <1>3
<1>5. failed => \A id \in DOMAIN map : ~writers'[map[id]].queued /\ ~writers'[map[id]].armed
  BY <1>2, <1>4
<1>6. QED
  BY <1>3, <1>4, <1>5, WritersStep

\* A visit of manage.
LEMMA VisitStep ==
    ASSUME RS!SessionAssumption, SInv, NEW elapsed \in 0 .. 2,
           NEW giveUps \in {{}} \cup {{id} : id \in DOMAIN map}, RS!Visit(elapsed, giveUps)
    PROVE  SInv'
<1>1. /\ Good(RS!Now, lastId) /\ keepalives \in 0 .. Keepalives /\ away \in BOOLEAN
      /\ silence' = elapsed /\ ~died /\ UNCHANGED <<away, closedByApp>> /\ closedByApp \in BOOLEAN /\ Keepalives \in Nat
  BY DEF SInv, RS!Visit, RS!SessionAssumption
<1>2. RS!Now.died = died /\ RS!Now.failed = failed /\ RS!Now.group = group /\ RS!Now.map = map
  BY DEF RS!Now
<1>3. SUFFICES Good(RS!Now, lastId)' /\ keepalives' \in 0 .. Keepalives
  BY <1>1 DEF SInv
<1>4. CASE failed
  <2>1. RS!Signals(RS!Now, elapsed = 2) /\ UNCHANGED <<keepalives, lastId>>
    BY <1>4 DEF RS!Visit
  <2>2. Quiet(RS!Now) /\ ~group
    BY <1>1, <1>2, <1>4 DEF Good, Ended
  <2>3. QED
    BY <1>1, <1>2, <2>1, <2>2, SignalsGood
<1>5. CASE ~failed /\ (elapsed = 2 \/ (elapsed = 1 /\ (~connected \/ keepalives = Keepalives)))
  <2>1. (RS!Fails(RS!Now, TRUE) \/ RS!Fails(RS!Now, FALSE)) /\ UNCHANGED <<keepalives, lastId>>
    BY <1>5 DEF RS!Visit
  <2>2. QED
    BY <1>1, <1>2, <2>1, FailsGood
<1>6. CASE ~failed /\ ~(elapsed = 2 \/ (elapsed = 1 /\ (~connected \/ keepalives = Keepalives)))
  <2> DEFINE Yields(id) == /\ giveUps = {id} /\ lastId < MaxIds
                           /\ writers[map[id]].state = "open" /\ writers[map[id]].armed
                           /\ RS!Walk(RS!GaveUp(RS!Now, id))
                           /\ lastId' = lastId + 1
  <2>1. /\ keepalives' = IF elapsed = 1 THEN keepalives + 1 ELSE keepalives
        /\ \/ giveUps = {} /\ RS!Walk(RS!Now) /\ UNCHANGED lastId
           \/ \E id \in giveUps : Yields(id)
    BY <1>6, Zenon DEF RS!Visit
  <2>2. keepalives' \in 0 .. Keepalives
    BY <1>1, <1>6, <2>1
  <2>3. CASE RS!Walk(RS!Now) /\ UNCHANGED lastId
    BY <1>1, <1>2, <1>6, <2>2, <2>3, WalkGood
  <2>4. ASSUME NEW id \in giveUps, Yields(id) PROVE Good(RS!Now, lastId)'
    <3>1. id \in DOMAIN map
      OBVIOUS
    <3>2. RS!Walk(RS!GaveUp(RS!Now, id)) /\ lastId' = lastId + 1
      BY <2>4
    <3> DEFINE s == RS!GaveUp(RS!Now, id)
    <3>3. Good(s, lastId + 1) /\ ~s.died /\ ~s.failed
      BY <1>1, <1>6, <3>1, GaveUpGood
    <3> HIDE DEF s
    <3>4. RS!Walk(s)
      BY <3>2 DEF s
    <3>5. QED
      BY <3>2, <3>3, <3>4, WalkGood
  <2>5. QED
    BY <2>1, <2>2, <2>3, <2>4
<1>7. QED
  BY <1>4, <1>5, <1>6

-----------------------------------------------------------------------------
\* Every step preserves the invariant.
LEMMA SessionInductive == RS!SessionAssumption => (RS!Spec => []SInv)
<1> SUFFICES ASSUME RS!SessionAssumption PROVE RS!Spec => []SInv
  OBVIOUS
<1>1. ASSUME RS!Init PROVE SInv
  <2>1. /\ writers = <<>> /\ map = <<>> /\ lastId = 0 /\ flows = <<>>
        /\ group = FALSE /\ connected = FALSE /\ peerWriter = 0
        /\ failed = FALSE /\ died = FALSE /\ timesFailed = 0 /\ keepalives = 0
        /\ silence = 0 /\ away = FALSE /\ farewells = 0 /\ closedByApp = FALSE
    BY <1>1 DEF RS!Init
  <2>2. /\ writers \in Seq(RS!Writer) /\ Len(writers) = 0 /\ DOMAIN map = {} /\ DOMAIN flows = {}
        /\ writers \in [1 .. 0 -> RS!Writer] /\ FailSignals \in Nat \ {0} /\ Keepalives \in Nat
    BY <2>1 DEF RS!SessionAssumption
  <2>3. Shape(RS!Now) /\ Typed(RS!Now, lastId)
    <3>1. /\ lastId \in Nat /\ writers \in Seq(RS!Writer) /\ Len(writers) \in Nat
          /\ writers \in [1 .. Len(writers) -> RS!Writer] /\ peerWriter \in 0 .. Len(writers)
          /\ timesFailed \in 0 .. FailSignals /\ farewells \in Nat
      BY <2>1, <2>2
    <3>2. QED
      BY <2>1, <2>2, <3>1 DEF Shape, Typed, RS!Now
  <2>4. Held(RS!Now) /\ Ended(RS!Now)
    BY <2>1, <2>2 DEF Held, Ended, Quiet, RS!Now
  <2>5. keepalives \in 0 .. Keepalives /\ silence \in 0 .. 2 /\ away \in BOOLEAN /\ closedByApp \in BOOLEAN
    <3>1. Keepalives \in Nat /\ keepalives = 0 /\ silence = 0
      BY <2>1, <2>2
    <3>2. keepalives \in 0 .. Keepalives /\ silence \in 0 .. 2
      BY <3>1
    <3>3. away \in BOOLEAN /\ closedByApp \in BOOLEAN
      BY <2>1, Zenon
    <3>4. QED
      BY <3>2, <3>3
  <2>6. QED
    BY <2>3, <2>4, <2>5 DEF SInv, Good
<1>2. ASSUME SInv, [RS!Next]_RS!vars PROVE SInv'
  <2> DEFINE Clock == keepalives' \in 0 .. Keepalives /\ silence' \in 0 .. 2 /\ away' \in BOOLEAN
                   /\ closedByApp' \in BOOLEAN
  <2>1. /\ Good(RS!Now, lastId) /\ keepalives \in 0 .. Keepalives /\ silence \in 0 .. 2 /\ away \in BOOLEAN
        /\ closedByApp \in BOOLEAN /\ Keepalives \in Nat
    BY <1>2 DEF SInv, RS!SessionAssumption
  <2>2. /\ RS!Now.died = died /\ RS!Now.failed = failed /\ RS!Now.group = group /\ RS!Now.connected = connected
    BY DEF RS!Now
  <2>3. CASE RS!ClientFails
    <3>1. RS!Fails(RS!Now, FALSE) /\ UNCHANGED <<lastId, keepalives, away, closedByApp>> /\ ~died /\ silence' = 0
      BY <2>3, Zenon DEF RS!ClientFails, RS!Heard
    <3>2. Good(RS!Now, lastId)'
      BY <2>1, <2>2, <3>1, FailsGood
    <3>3. QED
      BY <2>1, <3>1, <3>2 DEF SInv
  <2>4. CASE RS!ClientEnds
    <3> DEFINE s == [RS!Now EXCEPT !.failed = TRUE]
    <3>1. RS!Dies(s) /\ lastId' = lastId /\ ~died /\ Clock
      BY <2>1, <2>4 DEF RS!ClientEnds, RS!Heard
    <3>2. Shape(RS!Now) /\ Typed(RS!Now, lastId) /\ Ended(RS!Now)
      BY <2>1 DEF Good
    <3>3. /\ Shape(s) /\ s.writers = writers /\ s.map = map /\ s.flows = flows /\ s.group = group
          /\ s.connected = connected /\ s.peerWriter = peerWriter /\ s.failed = TRUE
          /\ s.died = died /\ s.timesFailed = timesFailed /\ s.farewells = farewells
      BY DEF Shape, RS!Now
    <3> HIDE DEF s
    <3>4. Typed(s, lastId) /\ s.farewells = 0
      <4>1. farewells = 0
        BY <3>1, <3>2 DEF Typed, Ended, RS!Now
      <4>2. QED
        BY <3>2, <3>3, <4>1 DEF Typed, RS!Now
    <3>5. Good(RS!Now, lastId)'
      BY <3>1, <3>3, <3>4, DiesGood
    <3>6. QED
      BY <3>1, <3>5 DEF SInv
  <2>5. CASE RS!Leave
    <3>1. UNCHANGED <<writers, map, lastId, flows, group, connected, peerWriter, failed, died,
                     timesFailed, keepalives, silence, farewells, closedByApp>> /\ away' = TRUE
      BY <2>5 DEF RS!Leave
    <3>2. QED
      BY <2>1, <3>1 DEF SInv, Good, Shape, Typed, Held, Mapped, Ended, Quiet, RS!Now
  <2>6. CASE RS!JoinGroup
    <3>1. /\ UNCHANGED <<writers, map, lastId, flows, connected, peerWriter, failed, died,
                         timesFailed, keepalives, away, farewells, closedByApp>>
          /\ group' = TRUE /\ silence' = 0 /\ ~failed
      BY <2>6 DEF RS!JoinGroup, RS!Heard
    <3>2. Shape(RS!Now)' /\ Typed(RS!Now, lastId)'
      BY <2>1, <3>1 DEF Good, Shape, Typed, RS!Now
    <3>3. Held(RS!Now)' /\ Ended(RS!Now)'
      BY <2>1, <3>1 DEF Good, Held, Mapped, Ended, Quiet, RS!Now
    <3>4. QED
      BY <2>1, <3>1, <3>2, <3>3 DEF SInv, Good
  <2>7. ASSUME NEW b \in BOOLEAN, RS!Keepalive(b) PROVE SInv'
    <3>1. /\ RS!Becomes(RS!Now) \/ RS!Fails(RS!Now, FALSE)
          /\ UNCHANGED <<lastId, away, closedByApp>> /\ ~died /\ silence' = 0 /\ keepalives' = 0
      BY <2>7, Zenon DEF RS!Keepalive, RS!Heard
    <3>2. Good(RS!Now, lastId)'
      BY <2>1, <2>2, <3>1, FailsGood, BecomesGood
    <3>3. QED
      BY <2>1, <3>1, <3>2 DEF SInv
  <2>8. ASSUME NEW b \in BOOLEAN, NEW closing \in BOOLEAN, RS!Connect(b, closing) PROVE SInv'
    <3>1. Clock
      BY <2>1, <2>8 DEF RS!Connect, RS!Heard
    <3>2. QED
      BY <2>1, <2>8, <3>1, ConnectStep DEF SInv
  <2>9. ASSUME NEW id \in DOMAIN map, RS!Acknowledgment(id) PROVE SInv'
    <3>1. Clock
      BY <2>1, <2>9 DEF RS!Acknowledgment, RS!Heard
    <3>2. QED
      BY <2>1, <2>9, <3>1, CallsStep DEF SInv
  <2>10. ASSUME NEW id \in DOMAIN map, RS!Rejection(id) PROVE SInv'
    <3>1. Clock /\ RS!Rejected(id) /\ UNCHANGED <<flows, Others>>
      BY <2>1, <2>10 DEF RS!Rejection, RS!Heard, Others
    <3>2. QED
      BY <2>1, <3>1, RejectedStep DEF SInv
  <2>11. ASSUME NEW kind \in Kinds, RS!OpenFlow(kind) PROVE SInv'
    <3> DEFINE w == [state |-> "open", critical |-> kind = "main", queued |-> FALSE, armed |-> FALSE]
    <3>1. Clock /\ RS!NewWriter(w) /\ UNCHANGED Others /\ ~failed /\ flows' = RS!With(flows, kind, Len(writers) + 1)
      BY <2>1, <2>11 DEF RS!OpenFlow, RS!Heard, Others
    <3>2. w \in RS!Writer /\ (kind = "main" => w.critical)
      BY DEF RS!Writer
    <3> HIDE DEF w
    <3>3. Good(RS!Now, lastId)'
      BY <2>1, <3>1, <3>2, NewWriterStep
    <3>4. QED
      BY <3>1, <3>3 DEF SInv
  <2>12. ASSUME NEW kind \in Kinds, RS!EndFlow(kind) PROVE SInv'
    <3>1. Clock
      BY <2>1, <2>12 DEF RS!EndFlow, RS!Heard
    <3>2. QED
      BY <2>1, <2>12, <3>1, EndFlowStep DEF SInv
  <2>13. CASE RS!AppNewWriter
    <3> DEFINE w == [state |-> "open", critical |-> FALSE, queued |-> FALSE, armed |-> FALSE]
    <3>1. Clock /\ RS!NewWriter(w) /\ UNCHANGED <<flows, Others>> /\ ~failed
      BY <2>1, <2>13 DEF RS!AppNewWriter, Others
    <3>2. w \in RS!Writer
      BY DEF RS!Writer
    <3> HIDE DEF w
    <3>3. Good(RS!Now, lastId)'
      BY <2>1, <3>1, <3>2, NewWriterStep
    <3>4. QED
      BY <3>1, <3>3 DEF SInv
  <2>14. ASSUME NEW o \in RS!Objects, RS!AppClose(o) PROVE SInv'
    <3>1. Clock
      BY <2>1, <2>14 DEF RS!AppClose
    <3>2. QED
      BY <2>1, <2>14, <3>1, CallsStep DEF SInv
  <2>15. ASSUME NEW o \in RS!Objects, NEW flushed \in BOOLEAN, RS!AppWrite(o, flushed) PROVE SInv'
    <3>1. Clock
      BY <2>1, <2>15 DEF RS!AppWrite
    <3>2. QED
      BY <2>1, <2>15, <3>1, CallsStep DEF SInv
  <2>16. CASE RS!Manage
    <3>1. PICK elapsed \in 0 .. 2, giveUps \in {{}} \cup {{id} : id \in DOMAIN map} : RS!Visit(elapsed, giveUps)
      BY <2>16 DEF RS!Manage
    <3>2. QED
      BY <1>2, <3>1, VisitStep
  <2>17. CASE UNCHANGED RS!vars
    <3>1. Good(RS!Now, lastId)'
      BY <2>1, <2>17 DEF RS!vars, Good, Shape, Typed, Held, Mapped, Ended, Quiet, RS!Now
    <3>2. QED
      BY <2>1, <2>17, <3>1 DEF RS!vars, SInv
  <2>18. QED
    BY <1>2, <2>3, <2>4, <2>5, <2>6, <2>7, <2>8, <2>9, <2>10, <2>11, <2>12, <2>13, <2>14, <2>15, <2>16, <2>17 DEF RS!Next
<1>3. QED
  BY <1>1, <1>2, PTL DEF RS!Spec

\* The state of RTMFPSession keeps its types.
THEOREM SessionTypeCorrect == RS!SessionAssumption => (RS!Spec => []RS!TypeOK)
<1> SUFFICES ASSUME RS!SessionAssumption PROVE RS!Spec => []RS!TypeOK
  OBVIOUS
<1>1. ASSUME SInv PROVE RS!TypeOK
  <2>1. Typed(RS!Now, lastId) /\ keepalives \in 0 .. Keepalives /\ silence \in 0 .. 2 /\ away \in BOOLEAN
        /\ closedByApp \in BOOLEAN
    BY <1>1 DEF SInv, Good
  <2>2. /\ \A id \in DOMAIN map : id \in 1 .. lastId /\ map[id] \in RS!Objects
        /\ \A kind \in DOMAIN flows : kind \in Kinds /\ flows[kind] \in RS!Objects
    BY <2>1 DEF Typed, RS!Now, RS!Objects
  <2>3. RS!Range(map) \subseteq RS!Objects /\ RS!Range(flows) \subseteq RS!Objects
    BY <2>2 DEF RS!Range
  <2>4. /\ writers \in Seq(RS!Writer) /\ peerWriter \in 0 .. Len(writers) /\ timesFailed \in 0 .. FailSignals
        /\ {group, connected, failed, died, away, closedByApp} \subseteq BOOLEAN /\ farewells \in Nat
    BY <2>1 DEF Typed, RS!Now
  <2>5. QED
    BY <2>1, <2>2, <2>3, <2>4 DEF RS!TypeOK
<1>2. QED
  BY <1>1, SessionInductive, PTL

\* RTMFPSession.cpp:56-136, RTMFPSession.h:68-89, Peer.cpp:147-166: however flows open and end,
\* writers are rejected, give up and are closed, and the client connects, fails, leaves
\* or falls silent, no writer that is held has been deleted, a failed session has nothing
\* to send but its failure, and a dead one has nothing left and told its end once.
THEOREM SessionCorrect == RS!SessionAssumption => (RS!Spec => []RS!SessionSound)
<1> SUFFICES ASSUME RS!SessionAssumption PROVE RS!Spec => []RS!SessionSound
  OBVIOUS
<1>1. ASSUME SInv PROVE RS!SessionSound
  <2>1. Held(RS!Now) /\ Ended(RS!Now)
    BY <1>1 DEF SInv, Good
  <2>2. RS!HeldWritersLive
    <3>1. connected <=> peerWriter # 0
      BY <2>1 DEF Held, RS!Now
    <3>2. connected => peerWriter \in RS!Range(map)
      BY <2>1 DEF Held, Mapped, RS!Now, RS!Range
    <3>3. \A kind \in DOMAIN flows : writers[flows[kind]].state = "open" \/ kind = "main" => flows[kind] \in RS!Range(map)
      BY <2>1 DEF Held, Mapped, RS!Now, RS!Range
    <3>4. QED
      BY <3>1, <3>2, <3>3 DEF RS!HeldWritersLive
  <2>3. RS!EndsClean
    <3>1. failed => \A o \in RS!Range(map) : ~writers[o].queued /\ ~writers[o].armed
      BY <2>1 DEF Ended, Quiet, RS!Now, RS!Range
    <3>2. QED
      BY <2>1, <3>1 DEF Ended, RS!Now, RS!EndsClean
  <2>4. QED
    BY <2>2, <2>3 DEF RS!SessionSound
<1>2. QED
  BY <1>1, SessionInductive, PTL

-----------------------------------------------------------------------------
(* The streams *)

CONSTANTS Names, Streams, PeerOf, Application, Versions, Failing, MaxStreams, MaxListeners, MaxFailures
VARIABLES publications, streams, listenerCount, failures, lent, strayed

FS == INSTANCE FlashStream

Parties == {PeerOf[s] : s \in Streams}

\* A listener that had its first frame knows the settings in force.
Informed(first, known, settings) ==
    (~first => known = settings) /\ (settings = 0 => known = 0)

\* What is kept of the settings, of a gap and of the publisher's coming, of a listener
\* that nothing has spoiled; of a medium that is cut, nothing is kept.
RightListener(l, pub) ==
    /\ l \in FS!Listener /\ ~l.spoiled
    /\ l.told <=> pub.publisher # FS!NobodyPublishes
    /\ pub.publisher # FS!NobodyPublishes =>
          /\ "video" \notin l.cut => /\ pub.firstKeyFrame /\ l.firstKeyFrame => l.unbroken
                                    /\ Informed(l.firstVideo, l.video, pub.videoCodec)
          /\ "audio" \notin l.cut => Informed(l.firstAudio, l.audio, pub.audioCodec)

RightPublication(pub) ==
    /\ DOMAIN pub = {"publisher", "firstKeyFrame", "videoCodec", "audioCodec", "listeners"}
    /\ pub.publisher \in Parties \cup {FS!NobodyPublishes} /\ pub.firstKeyFrame \in BOOLEAN
    /\ pub.videoCodec \in {0} \cup Versions /\ pub.audioCodec \in {0} \cup Versions
    /\ pub.publisher = FS!NobodyPublishes => pub.videoCodec = 0 /\ pub.audioCodec = 0
    /\ \A p \in DOMAIN pub.listeners : RightListener(pub.listeners[p], pub)

Publishing(name) == [FS!Idle EXCEPT !.publication = name]
Playing(name, id) == [FS!Idle EXCEPT !.playing = name, !.listener = id]

\* A stream does nothing, publishes what has its peer for publisher, or plays.
RightStream(s, e, pubs, n) ==
    \/ e = FS!Idle
    \/ \E name \in DOMAIN pubs : e = Publishing(name) /\ pubs[name].publisher = PeerOf[s]
    \/ \E name \in Names, id \in 1 .. n : e = Playing(name, id) /\ PeerOf[s] # Application

\* The listener that a stream points to is the one its peer has there.
Holding(pubs, s, e) ==
    /\ e.playing \in DOMAIN pubs /\ PeerOf[s] \in DOMAIN pubs[e.playing].listeners
    /\ pubs[e.playing].listeners[PeerOf[s]].id = e.listener

\* A listener has one stream that points to it, and it is there, unless it was lent.
Loans(pubs, strs, n, lnt, str) ==
    /\ lnt \subseteq 1 .. n /\ str \in BOOLEAN /\ (str => lnt # {})
    /\ \A s, x \in DOMAIN strs :
          strs[s].listener # 0 /\ strs[s].listener = strs[x].listener /\ s # x => strs[s].listener \in lnt
    /\ ~str => \A s \in DOMAIN strs :
          strs[s].listener # 0 /\ strs[s].listener \notin lnt => Holding(pubs, s, strs[s])

\* A publication has one stream that publishes it.
Apart(strs) ==
    \A s, x \in DOMAIN strs :
        strs[s].publication # "none" /\ strs[s].publication = strs[x].publication => s = x

\* Who publishes or listens has a stream.
Backed(pubs, strs) ==
    \A name \in DOMAIN pubs :
        /\ pubs[name].publisher # FS!NobodyPublishes => \E s \in DOMAIN strs : strs[s].publication = name
        /\ \A p \in DOMAIN pubs[name].listeners :
              \E s \in DOMAIN strs : /\ strs[s].listener = pubs[name].listeners[p].id
                                     /\ strs[s].playing = name /\ PeerOf[s] = p

Agree(pubs, strs, n, lnt, str) ==
    /\ DOMAIN pubs \subseteq Names /\ DOMAIN strs \subseteq Streams /\ n \in 0 .. MaxListeners
    /\ \A name \in DOMAIN pubs : RightPublication(pubs[name])
    /\ \A s \in DOMAIN strs : RightStream(s, strs[s], pubs, n)
    /\ Apart(strs) /\ Backed(pubs, strs) /\ Loans(pubs, strs, n, lnt, str)

\* Every publication has a publisher or a listener, but for the names of some.
InUse(pub) == pub.publisher # FS!NobodyPublishes \/ DOMAIN pub.listeners # {}
UsedBut(pubs, some) == \A name \in DOMAIN pubs \ some : InUse(pubs[name])

FInv == /\ Agree(publications, streams, listenerCount, lent, strayed) /\ UsedBut(publications, {})
        /\ failures \in 0 .. MaxFailures

-----------------------------------------------------------------------------
\* The fields of a stream, and the names that nothing real has.
LEMMA Engaged ==
    ASSUME FS!StreamAssumption
    PROVE  /\ FS!Idle.publication = "none" /\ FS!Idle.playing = "none" /\ FS!Idle.listener = 0
           /\ \A name : /\ Publishing(name).publication = name /\ Publishing(name).playing = "none"
                        /\ Publishing(name).listener = 0
           /\ \A name, id : /\ Playing(name, id).publication = "none" /\ Playing(name, id).playing = name
                            /\ Playing(name, id).listener = id
           /\ "none" \notin Names /\ FS!NobodyPublishes \notin Parties /\ \A s \in Streams : PeerOf[s] \in Parties
BY DEF FS!StreamAssumption, FS!Idle, Publishing, Playing, Parties

\* What a stream's fields say of it.
LEMMA StreamFacts ==
    ASSUME FS!StreamAssumption, NEW pubs, NEW strs, NEW n, NEW lnt, NEW str, Agree(pubs, strs, n, lnt, str), NEW s \in DOMAIN strs
    PROVE  /\ s \in Streams /\ PeerOf[s] \in Parties /\ PeerOf[s] # FS!NobodyPublishes
           /\ strs[s].publication # "none" =>
                 /\ strs[s].publication \in DOMAIN pubs /\ pubs[strs[s].publication].publisher = PeerOf[s]
                 /\ strs[s] = Publishing(strs[s].publication)
           /\ strs[s].publication = "none" /\ strs[s].listener = 0 => strs[s] = FS!Idle
           /\ strs[s].listener # 0 =>
                 /\ strs[s].playing \in Names /\ strs[s].listener \in 1 .. n /\ PeerOf[s] # Application
                 /\ strs[s] = Playing(strs[s].playing, strs[s].listener)
                 /\ strs[s].publication = "none"
           /\ strs[s].listener = 0 => strs[s].playing = "none"
<1>1. s \in Streams /\ RightStream(s, strs[s], pubs, n) /\ DOMAIN pubs \subseteq Names /\ n \in Nat
  BY DEF Agree, FS!StreamAssumption
<1>2. CASE strs[s] = FS!Idle
  BY <1>1, <1>2, Engaged
<1>3. CASE \E name \in DOMAIN pubs : strs[s] = Publishing(name) /\ pubs[name].publisher = PeerOf[s]
  BY <1>1, <1>3, Engaged
<1>4. CASE \E name \in Names, id \in 1 .. n : strs[s] = Playing(name, id) /\ PeerOf[s] # Application
  BY <1>1, <1>4, Engaged
<1>5. QED
  BY <1>1, <1>2, <1>3, <1>4 DEF RightStream

\* What is lent stays right where the streams that play stay, with the listeners they have.
LEMMA LoansKept ==
    ASSUME NEW pubs, NEW strs, NEW n, NEW lnt, NEW str, Loans(pubs, strs, n, lnt, str),
           NEW new, NEW left, NEW now \in BOOLEAN, str => now, now => lnt # {},
           \A x \in DOMAIN left : left[x].listener # 0 =>
               /\ x \in DOMAIN strs /\ left[x] = strs[x]
               /\ ~now /\ left[x].listener \notin lnt /\ Holding(pubs, x, strs[x]) => Holding(new, x, left[x])
    PROVE  Loans(new, left, n, lnt, now)
BY DEF Loans

\* A publication may change, if its publisher and its listeners stay who they are.
LEMMA Changed ==
    ASSUME FS!StreamAssumption, NEW pubs, NEW strs, NEW n, NEW lnt, NEW str, Agree(pubs, strs, n, lnt, str), UsedBut(pubs, {}),
           NEW name \in DOMAIN pubs, NEW r, RightPublication(r), r.publisher = pubs[name].publisher,
           DOMAIN r.listeners = DOMAIN pubs[name].listeners,
           \A p \in DOMAIN r.listeners : r.listeners[p].id = pubs[name].listeners[p].id
    PROVE  Agree([pubs EXCEPT ![name] = r], strs, n, lnt, str) /\ UsedBut([pubs EXCEPT ![name] = r], {})
<1> DEFINE new == [pubs EXCEPT ![name] = r]
<1>1. /\ DOMAIN new = DOMAIN pubs /\ new[name] = r
      /\ \A x \in DOMAIN pubs : x # name => new[x] = pubs[x]
  OBVIOUS
<1> HIDE DEF new
<1>2. \A x \in DOMAIN pubs : /\ new[x].publisher = pubs[x].publisher
                             /\ DOMAIN new[x].listeners = DOMAIN pubs[x].listeners
                             /\ \A p \in DOMAIN new[x].listeners : new[x].listeners[p].id = pubs[x].listeners[p].id
  BY <1>1
<1>3. \A x \in DOMAIN new : RightPublication(new[x])
  BY <1>1 DEF Agree
<1>4. \A s \in DOMAIN strs : RightStream(s, strs[s], new, n)
  BY <1>1, <1>2 DEF Agree, RightStream
<1>5. Backed(new, strs) /\ UsedBut(new, {})
  BY <1>1, <1>2 DEF Agree, Backed, UsedBut, InUse
<1>6. Loans(new, strs, n, lnt, str)
  <2>1. \A x \in DOMAIN strs : Holding(pubs, x, strs[x]) => Holding(new, x, strs[x])
    BY <1>1, <1>2 DEF Holding
  <2>2. QED
    BY <2>1 DEF Agree, Loans
<1>7. QED
  BY <1>1, <1>3, <1>4, <1>5, <1>6 DEF Agree, new

\* A publication that nobody publishes or listens to is in no stream, so it may go.
LEMMA KeptAgrees ==
    ASSUME FS!StreamAssumption, NEW pubs, NEW strs, NEW n, NEW lnt, NEW str, Agree(pubs, strs, n, lnt, str),
           NEW name \in DOMAIN pubs, UsedBut(pubs, {name})
    PROVE  Agree(FS!Kept(pubs, name), strs, n, lnt, str) /\ UsedBut(FS!Kept(pubs, name), {})
<1>1. CASE InUse(pubs[name])
  BY <1>1 DEF FS!Kept, InUse, UsedBut
<1>2. CASE ~InUse(pubs[name])
  <2> DEFINE new == FS!Kept(pubs, name)
  <2>1. /\ DOMAIN new = DOMAIN pubs \ {name} /\ \A x \in DOMAIN new : new[x] = pubs[x]
        /\ pubs[name].publisher = FS!NobodyPublishes /\ DOMAIN pubs[name].listeners = {}
    BY <1>2 DEF FS!Kept, InUse, FS!Restrict
  <2> HIDE DEF new
  <2>2. \A s \in DOMAIN strs : RightStream(s, strs[s], new, n)
    <3> SUFFICES ASSUME NEW s \in DOMAIN strs PROVE RightStream(s, strs[s], new, n)
      OBVIOUS
    <3>1. RightStream(s, strs[s], pubs, n) /\ PeerOf[s] # FS!NobodyPublishes
      BY StreamFacts DEF Agree
    <3>2. QED
      BY <2>1, <3>1 DEF RightStream
  <2>3. Backed(new, strs) /\ UsedBut(new, {})
    BY <2>1 DEF Agree, Backed, UsedBut
  <2>4. Loans(new, strs, n, lnt, str)
    <3>1. \A x \in DOMAIN strs : Holding(pubs, x, strs[x]) => Holding(new, x, strs[x])
      BY <2>1 DEF Holding
    <3>2. QED
      BY <3>1 DEF Agree, Loans
  <2>5. QED
    BY <2>1, <2>2, <2>3, <2>4 DEF Agree, new
<1>3. QED
  BY <1>1, <1>2

\* A name may be looked up as the code does, which makes a publication of it.
LEMMA EmplacedAgrees ==
    ASSUME FS!StreamAssumption, NEW pubs, NEW strs, NEW n, NEW lnt, NEW str, Agree(pubs, strs, n, lnt, str), UsedBut(pubs, {}), NEW name \in Names
    PROVE  /\ Agree(FS!Emplaced(pubs, name), strs, n, lnt, str) /\ UsedBut(FS!Emplaced(pubs, name), {name})
           /\ name \in DOMAIN FS!Emplaced(pubs, name)
           /\ FS!CanPublish(pubs, name) => FS!Emplaced(pubs, name)[name].publisher = FS!NobodyPublishes
           /\ \A p : ~FS!Listens(pubs, p, name) => p \notin DOMAIN FS!Emplaced(pubs, name)[name].listeners
<1>1. CASE name \in DOMAIN pubs
  BY <1>1 DEF FS!Emplaced, UsedBut, FS!CanPublish, FS!Listens
<1>2. CASE name \notin DOMAIN pubs
  <2> DEFINE new == FS!Emplaced(pubs, name)
  <2>1. /\ DOMAIN new = DOMAIN pubs \cup {name} /\ \A x \in DOMAIN pubs : new[x] = pubs[x]
        /\ new[name] = FS!NewPublication
    BY <1>2 DEF FS!Emplaced, FS!With
  <2> HIDE DEF new
  <2>2. /\ RightPublication(FS!NewPublication) /\ FS!NewPublication.publisher = FS!NobodyPublishes
        /\ DOMAIN FS!NewPublication.listeners = {}
    <3>1. \A x : x \notin DOMAIN << >>
      OBVIOUS
    <3>2. QED
      BY <3>1 DEF FS!NewPublication, RightPublication
  <2>3. \A s \in DOMAIN strs : RightStream(s, strs[s], new, n)
    BY <1>2, <2>1 DEF Agree, RightStream
  <2>4. Backed(new, strs) /\ UsedBut(new, {name})
    BY <1>2, <2>1, <2>2 DEF Agree, Backed, UsedBut
  <2>5. Loans(new, strs, n, lnt, str)
    <3>1. \A x \in DOMAIN strs : Holding(pubs, x, strs[x]) => Holding(new, x, strs[x])
      BY <2>1 DEF Holding
    <3>2. QED
      BY <3>1 DEF Agree, Loans
  <2>6. QED
    BY <2>1, <2>2, <2>3, <2>4, <2>5 DEF Agree, new
<1>3. QED
  BY <1>1, <1>2

-----------------------------------------------------------------------------
(* A stream ends what it does *)

\* What a publisher leaves of a publication.
LEMMA StoppedRight ==
    ASSUME FS!StreamAssumption, NEW pub, RightPublication(pub)
    PROVE  /\ RightPublication(FS!Stop(pub)) /\ FS!Stop(pub).publisher = FS!NobodyPublishes
           /\ DOMAIN FS!Stop(pub).listeners = DOMAIN pub.listeners
           /\ \A p \in DOMAIN pub.listeners : FS!Stop(pub).listeners[p].id = pub.listeners[p].id
<1> DEFINE r == FS!Stop(pub)
<1>1. /\ DOMAIN r = DOMAIN pub /\ r.publisher = FS!NobodyPublishes /\ r.firstKeyFrame = pub.firstKeyFrame
      /\ r.videoCodec = 0 /\ r.audioCodec = 0 /\ DOMAIN r.listeners = DOMAIN pub.listeners
      /\ \A p \in DOMAIN pub.listeners : r.listeners[p] = FS!StopPublishing(pub.listeners[p])
  BY DEF FS!Stop, RightPublication
<1> HIDE DEF r
<1>2. ASSUME NEW p \in DOMAIN pub.listeners
      PROVE  /\ RightListener(FS!StopPublishing(pub.listeners[p]), r)
             /\ FS!StopPublishing(pub.listeners[p]).id = pub.listeners[p].id
  BY <1>1 DEF RightPublication, RightListener, FS!StopPublishing, FS!Listener
<1>3. QED
  BY <1>1, <1>2 DEF RightPublication, r

\* unpublish, by the stream that publishes.
LEMMA StopAgrees ==
    ASSUME FS!StreamAssumption, NEW pubs, NEW strs, NEW n, NEW lnt, NEW str, Agree(pubs, strs, n, lnt, str), UsedBut(pubs, {}),
           NEW s \in DOMAIN strs, NEW name, name = strs[s].publication, name # "none"
    PROVE  /\ Agree(FS!Unpublish(pubs, PeerOf[s], name), [strs EXCEPT ![s] = FS!Idle], n, lnt, str)
           /\ UsedBut(FS!Unpublish(pubs, PeerOf[s], name), {})
<1> DEFINE pub == FS!Stop(pubs[name])
<1> DEFINE new == [pubs EXCEPT ![name] = pub]
<1> DEFINE left == [strs EXCEPT ![s] = FS!Idle]
<1>1. /\ s \in Streams /\ name \in DOMAIN pubs /\ pubs[name].publisher = PeerOf[s] /\ PeerOf[s] # FS!NobodyPublishes
      /\ strs[s] = Publishing(name)
  BY StreamFacts
<1>2. FS!Unpublish(pubs, PeerOf[s], name) = FS!Kept(new, name)
  BY <1>1 DEF FS!Unpublish
<1>3. /\ RightPublication(pub) /\ pub.publisher = FS!NobodyPublishes
      /\ DOMAIN pub.listeners = DOMAIN pubs[name].listeners
      /\ \A p \in DOMAIN pub.listeners : pub.listeners[p].id = pubs[name].listeners[p].id
  BY <1>1, StoppedRight DEF Agree
<1> HIDE DEF pub
<1>4. /\ DOMAIN new = DOMAIN pubs /\ new[name] = pub /\ \A x \in DOMAIN pubs : x # name => new[x] = pubs[x]
      /\ DOMAIN left = DOMAIN strs /\ left[s] = FS!Idle /\ \A x \in DOMAIN strs : x # s => left[x] = strs[x]
  BY <1>1
<1> HIDE DEF new, left
<1>5. \A x \in DOMAIN new : /\ RightPublication(new[x])
                            /\ DOMAIN new[x].listeners = DOMAIN pubs[x].listeners
                            /\ \A p \in DOMAIN new[x].listeners : new[x].listeners[p].id = pubs[x].listeners[p].id
  BY <1>3, <1>4 DEF Agree
<1>6. \A x \in DOMAIN left : RightStream(x, left[x], new, n)
  <2> SUFFICES ASSUME NEW x \in DOMAIN left, x # s PROVE RightStream(x, left[x], new, n)
    BY <1>4 DEF RightStream
  <2>1. left[x] = strs[x] /\ RightStream(x, strs[x], pubs, n) /\ strs[x].publication # name
    BY <1>1, <1>4 DEF Agree, Apart
  <2>2. QED
    BY <2>1, <1>4, <1>5, Engaged DEF RightStream
<1>7. Apart(left)
  BY <1>4, Engaged DEF Agree, Apart
<1>8. Backed(new, left)
  <2>1. ASSUME NEW x \in DOMAIN new, new[x].publisher # FS!NobodyPublishes
        PROVE  \E y \in DOMAIN left : left[y].publication = x
    <3>1. x # name /\ new[x] = pubs[x]
      BY <2>1, <1>3, <1>4
    <3>2. PICK y \in DOMAIN strs : strs[y].publication = x
      BY <2>1, <3>1, <1>4 DEF Agree, Backed
    <3>3. QED
      BY <3>1, <3>2, <1>1, <1>4, Engaged
  <2>2. ASSUME NEW x \in DOMAIN new, NEW p \in DOMAIN new[x].listeners
        PROVE  \E y \in DOMAIN left : left[y].listener = new[x].listeners[p].id /\ left[y].playing = x /\ PeerOf[y] = p
    <3>1. x \in DOMAIN pubs /\ p \in DOMAIN pubs[x].listeners /\ new[x].listeners[p].id = pubs[x].listeners[p].id
      BY <2>2, <1>4, <1>5
    <3>2. PICK y \in DOMAIN strs : strs[y].listener = pubs[x].listeners[p].id /\ strs[y].playing = x /\ PeerOf[y] = p
      BY <3>1 DEF Agree, Backed
    <3>3. x # "none" /\ strs[s].playing = "none"
      BY <3>1, <1>1, Engaged DEF Agree
    <3>4. QED
      BY <3>1, <3>2, <3>3, <1>4
  <2>3. QED
    BY <2>1, <2>2 DEF Backed
<1>9. Loans(new, left, n, lnt, str)
  <2>1. \A x \in DOMAIN left : left[x].listener # 0 =>
            x \in DOMAIN strs /\ left[x] = strs[x] /\ (Holding(pubs, x, strs[x]) => Holding(new, x, left[x]))
    BY <1>4, <1>5, Engaged DEF Holding
  <2>2. QED
    BY <2>1, LoansKept DEF Agree, Loans
<1>10. Agree(new, left, n, lnt, str) /\ UsedBut(new, {name})
  BY <1>4, <1>5, <1>6, <1>7, <1>8, <1>9 DEF Agree, UsedBut
<1>11. QED
  BY <1>1, <1>2, <1>4, <1>10, KeptAgrees DEF left

\* Its own listener is the only one that a stream plays by.
Own(pubs, s, e, name) == name = e.playing \/ ~Holding(pubs, s, e)

\* A listener less, or none less where it is not there.
LEMMA UnsubscribeFacts ==
    ASSUME NEW pubs, NEW name, NEW peer, \A x \in DOMAIN pubs : RightPublication(pubs[x])
    PROVE  LET new == IF name \in DOMAIN pubs
                      THEN [pubs EXCEPT ![name] = FS!RemoveListener(pubs[name], peer)] ELSE pubs
           IN  /\ DOMAIN new = DOMAIN pubs
               /\ \A x \in DOMAIN pubs :
                     /\ RightPublication(new[x]) /\ new[x].publisher = pubs[x].publisher
                     /\ x # name => new[x] = pubs[x]
                     /\ DOMAIN new[x].listeners = DOMAIN pubs[x].listeners \ (IF x = name THEN {peer} ELSE {})
                     /\ \A p \in DOMAIN new[x].listeners : new[x].listeners[p] = pubs[x].listeners[p]
<1>1. CASE name \notin DOMAIN pubs
  BY <1>1
<1>2. CASE name \in DOMAIN pubs
  <2> DEFINE pub == FS!RemoveListener(pubs[name], peer)
             new == [pubs EXCEPT ![name] = pub]
  <2>1. RightPublication(pubs[name])
    BY <1>2
  <2>2. /\ DOMAIN pub = DOMAIN pubs[name] /\ pub.publisher = pubs[name].publisher
        /\ pub.firstKeyFrame = pubs[name].firstKeyFrame
        /\ pub.videoCodec = pubs[name].videoCodec /\ pub.audioCodec = pubs[name].audioCodec
        /\ DOMAIN pub.listeners = DOMAIN pubs[name].listeners \ {peer}
        /\ \A p \in DOMAIN pub.listeners : pub.listeners[p] = pubs[name].listeners[p]
    BY <2>1 DEF FS!RemoveListener, FS!Restrict, RightPublication
  <2> HIDE DEF pub
  <2>3. RightPublication(pub)
    BY <2>1, <2>2 DEF RightPublication, RightListener
  <2>4. DOMAIN new = DOMAIN pubs /\ new[name] = pub /\ \A x \in DOMAIN pubs : x # name => new[x] = pubs[x]
    BY <1>2
  <2> HIDE DEF new
  <2>5. /\ DOMAIN new = DOMAIN pubs
        /\ \A x \in DOMAIN pubs :
              /\ RightPublication(new[x]) /\ new[x].publisher = pubs[x].publisher
              /\ x # name => new[x] = pubs[x]
              /\ DOMAIN new[x].listeners = DOMAIN pubs[x].listeners \ (IF x = name THEN {peer} ELSE {})
              /\ \A p \in DOMAIN new[x].listeners : new[x].listeners[p] = pubs[x].listeners[p]
    BY <2>2, <2>3, <2>4
  <2>6. QED
    BY <1>2, <2>5 DEF new, pub
<1>3. QED
  BY <1>1, <1>2

\* unsubscribe, by the stream that plays, or by one that reads some name in a listener
\* that is no longer there.
LEMMA UnsubscribeAgrees ==
    ASSUME FS!StreamAssumption, NEW pubs, NEW strs, NEW n, NEW lnt, NEW str, Agree(pubs, strs, n, lnt, str),
           UsedBut(pubs, {}), NEW s \in DOMAIN strs, strs[s].listener # 0, NEW name, Own(pubs, s, strs[s], name)
    PROVE  /\ Agree(FS!Unsubscribe(pubs, PeerOf[s], name), [strs EXCEPT ![s] = FS!Idle], n, lnt,
                    str \/ ~Holding(pubs, s, strs[s]))
           /\ UsedBut(FS!Unsubscribe(pubs, PeerOf[s], name), {})
<1> DEFINE new == IF name \in DOMAIN pubs
                  THEN [pubs EXCEPT ![name] = FS!RemoveListener(pubs[name], PeerOf[s])] ELSE pubs
           left == [strs EXCEPT ![s] = FS!Idle]
           now == str \/ ~Holding(pubs, s, strs[s])
<1>1. /\ s \in Streams /\ strs[s].publication = "none" /\ strs[s].listener \in 1 .. n
      /\ strs[s] = Playing(strs[s].playing, strs[s].listener)
  BY StreamFacts
<1>2. FS!Unsubscribe(pubs, PeerOf[s], name) = IF name \in DOMAIN pubs THEN FS!Kept(new, name) ELSE new
  BY DEF FS!Unsubscribe
<1>3. /\ DOMAIN new = DOMAIN pubs
      /\ \A x \in DOMAIN pubs :
            /\ RightPublication(new[x]) /\ new[x].publisher = pubs[x].publisher
            /\ x # name => new[x] = pubs[x]
            /\ DOMAIN new[x].listeners = DOMAIN pubs[x].listeners \ (IF x = name THEN {PeerOf[s]} ELSE {})
            /\ \A p \in DOMAIN new[x].listeners : new[x].listeners[p] = pubs[x].listeners[p]
  BY UnsubscribeFacts DEF Agree
<1>4. DOMAIN left = DOMAIN strs /\ left[s] = FS!Idle /\ \A x \in DOMAIN strs : x # s => left[x] = strs[x]
  OBVIOUS
<1> HIDE DEF new, left
<1>5. \A x \in DOMAIN left : RightStream(x, left[x], new, n)
  <2> SUFFICES ASSUME NEW x \in DOMAIN left, x # s PROVE RightStream(x, left[x], new, n)
    BY <1>4 DEF RightStream
  <2>1. left[x] = strs[x] /\ RightStream(x, strs[x], pubs, n)
    BY <1>4 DEF Agree
  <2>2. QED
    BY <2>1, <1>3 DEF RightStream
<1>6. Apart(left)
  BY <1>4, Engaged DEF Agree, Apart
<1>7. Backed(new, left)
  <2>1. ASSUME NEW x \in DOMAIN new, new[x].publisher # FS!NobodyPublishes
        PROVE  \E y \in DOMAIN left : left[y].publication = x
    <3>1. x \in DOMAIN pubs /\ pubs[x].publisher # FS!NobodyPublishes /\ x # "none"
      BY <2>1, <1>3, Engaged DEF Agree
    <3>2. PICK y \in DOMAIN strs : strs[y].publication = x
      BY <3>1 DEF Agree, Backed
    <3>3. QED
      BY <3>1, <3>2, <1>1, <1>4
  <2>2. ASSUME NEW x \in DOMAIN new, NEW p \in DOMAIN new[x].listeners
        PROVE  \E y \in DOMAIN left : left[y].listener = new[x].listeners[p].id /\ left[y].playing = x /\ PeerOf[y] = p
    <3>1. /\ x \in DOMAIN pubs /\ p \in DOMAIN pubs[x].listeners /\ new[x].listeners[p] = pubs[x].listeners[p]
          /\ x = name => p # PeerOf[s]
      BY <2>2, <1>3
    <3>2. PICK y \in DOMAIN strs : strs[y].listener = pubs[x].listeners[p].id /\ strs[y].playing = x /\ PeerOf[y] = p
      BY <3>1 DEF Agree, Backed
    <3>3. y # s
      BY <3>1, <3>2 DEF Own, Holding
    <3>4. QED
      BY <3>1, <3>2, <3>3, <1>4
  <2>3. QED
    BY <2>1, <2>2 DEF Backed
<1>8. Loans(new, left, n, lnt, now)
  <2>1. Loans(pubs, strs, n, lnt, str) /\ now \in BOOLEAN
    BY DEF Agree, Loans
  <2>2. now => lnt # {}
    BY <2>1 DEF Loans
  <2>3. ASSUME NEW x \in DOMAIN left, left[x].listener # 0
        PROVE  /\ x \in DOMAIN strs /\ left[x] = strs[x]
               /\ ~now /\ left[x].listener \notin lnt /\ Holding(pubs, x, strs[x]) => Holding(new, x, left[x])
    <3>1. x \in DOMAIN strs /\ x # s /\ left[x] = strs[x]
      BY <2>3, <1>4, Engaged
    <3>2. ASSUME ~now, left[x].listener \notin lnt, Holding(pubs, x, strs[x])
          PROVE  Holding(new, x, left[x])
      <4>1. strs[x].listener # strs[s].listener
        BY <2>1, <2>3, <3>1, <3>2 DEF Loans
      <4>2. ~(strs[x].playing = name /\ PeerOf[x] = PeerOf[s])
        BY <3>2, <4>1 DEF Own, Holding
      <4>3. QED
        BY <3>1, <3>2, <4>2, <1>3 DEF Holding
    <3>3. QED
      BY <3>1, <3>2
  <2> HIDE DEF now
  <2>4. str => now
    BY DEF now
  <2>5. QED
    BY <2>1, <2>2, <2>3, <2>4, LoansKept
<1>9. Agree(new, left, n, lnt, now) /\ UsedBut(new, {name})
  BY <1>3, <1>4, <1>5, <1>6, <1>7, <1>8 DEF Agree, UsedBut, InUse
<1>10. CASE name \in DOMAIN pubs
  BY <1>2, <1>3, <1>9, <1>10, KeptAgrees DEF left
<1>11. CASE name \notin DOMAIN pubs
  BY <1>2, <1>9, <1>11, <1>3 DEF left, UsedBut
<1>12. QED
  BY <1>10, <1>11

\* A stream's listener is there, or the stream's pointer dangles.
LEMMA DanglesFacts ==
    ASSUME NEW s
    PROVE  /\ FS!ListenerAlive(s) <=> Holding(publications, s, streams[s])
           /\ FS!Dangles(s) <=> streams[s].listener # 0 /\ ~Holding(publications, s, streams[s])
BY DEF FS!ListenerAlive, FS!Dangles, FS!Listens, Holding

\* disengage leaves a stream that does nothing, and nothing of it behind.
LEMMA DisengageAgrees ==
    ASSUME FS!StreamAssumption, Agree(publications, streams, listenerCount, lent, strayed), UsedBut(publications, {}),
           NEW s \in DOMAIN streams, NEW read \in FS!NamesRead(s)
    PROVE  /\ Agree(FS!Disengage(s, read), [streams EXCEPT ![s] = FS!Idle], listenerCount, lent,
                    strayed \/ FS!Dangles(s))
           /\ UsedBut(FS!Disengage(s, read), {})
<1> DEFINE left == [streams EXCEPT ![s] = FS!Idle]
<1>1. /\ streams[s].listener # 0 => streams[s].publication = "none"
      /\ streams[s].publication = "none" /\ streams[s].listener = 0 => streams[s] = FS!Idle
      /\ streams[s].publication # "none" => streams[s].listener = 0
  BY StreamFacts, Engaged
<1>2. strayed \in BOOLEAN
  BY DEF Agree, Loans
<1>3. CASE streams[s].publication # "none"
  <2>1. (strayed \/ FS!Dangles(s)) = strayed
    BY <1>1, <1>2, <1>3 DEF FS!Dangles
  <2>2. QED
    BY <1>1, <1>3, <2>1, StopAgrees DEF FS!Disengage
<1>4. CASE streams[s].listener # 0
  <2>1. (strayed \/ FS!Dangles(s)) = (strayed \/ ~Holding(publications, s, streams[s]))
    BY <1>4, DanglesFacts
  <2>2. Own(publications, s, streams[s], read)
    BY DanglesFacts DEF Own, FS!NamesRead
  <2>3. FS!Disengage(s, read) = FS!Unsubscribe(publications, PeerOf[s], read)
    BY <1>1, <1>4 DEF FS!Disengage
  <2>4. QED
    BY <1>4, <2>1, <2>2, <2>3, UnsubscribeAgrees
<1>5. CASE streams[s].publication = "none" /\ streams[s].listener = 0
  <2>1. FS!Disengage(s, read) = publications /\ (strayed \/ FS!Dangles(s)) = strayed
    BY <1>2, <1>5 DEF FS!Disengage, FS!Dangles
  <2>2. DOMAIN left = DOMAIN streams /\ \A x \in DOMAIN streams : left[x] = streams[x]
    BY <1>1, <1>5
  <2> HIDE DEF left
  <2>3. Agree(publications, left, listenerCount, lent, strayed)
    BY <2>2 DEF Agree, Apart, Backed, Loans
  <2>4. QED
    BY <2>1, <2>3 DEF left
<1>6. QED
  BY <1>3, <1>4, <1>5

\* A stream that does nothing may go.
LEMMA DroppedAgrees ==
    ASSUME NEW pubs, NEW strs, NEW n, NEW lnt, NEW str, Agree(pubs, strs, n, lnt, str), NEW s \in DOMAIN strs, strs[s] = FS!Idle,
           FS!StreamAssumption
    PROVE  Agree(pubs, FS!Restrict(strs, DOMAIN strs \ {s}), n, lnt, str)
<1> DEFINE left == FS!Restrict(strs, DOMAIN strs \ {s})
<1>1. DOMAIN left = DOMAIN strs \ {s} /\ \A x \in DOMAIN left : left[x] = strs[x]
  BY DEF FS!Restrict
<1> HIDE DEF left
<1>2. Backed(pubs, left)
  <2>1. \A name \in DOMAIN pubs : name # "none"
    BY Engaged DEF Agree
  <2>2. strs[s].publication = "none" /\ strs[s].playing = "none"
    BY Engaged
  <2>3. QED
    BY <1>1, <2>1, <2>2 DEF Agree, Backed
<1>3. QED
  BY <1>1, <1>2 DEF Agree, Apart, Loans, left

\* A new stream does nothing.
LEMMA AddedAgrees ==
    ASSUME NEW pubs, NEW strs, NEW n, NEW lnt, NEW str, Agree(pubs, strs, n, lnt, str), NEW s \in Streams, s \notin DOMAIN strs,
           FS!StreamAssumption
    PROVE  Agree(pubs, FS!With(strs, s, FS!Idle), n, lnt, str)
<1> DEFINE more == FS!With(strs, s, FS!Idle)
<1>1. /\ DOMAIN more = DOMAIN strs \cup {s} /\ \A x \in DOMAIN strs : more[x] = strs[x]
      /\ more[s] = FS!Idle
  BY DEF FS!With
<1> HIDE DEF more
<1>2. Apart(more)
  BY <1>1, Engaged DEF Agree, Apart
<1>3. \A x \in DOMAIN more : RightStream(x, more[x], pubs, n)
  BY <1>1 DEF Agree, RightStream
<1>4. Backed(pubs, more)
  BY <1>1 DEF Agree, Backed
<1>5. Loans(pubs, more, n, lnt, str)
  <2>1. \A x \in DOMAIN more : more[x].listener # 0 => x \in DOMAIN strs /\ more[x] = strs[x]
    BY <1>1, Engaged
  <2>2. QED
    BY <2>1, LoansKept DEF Agree, Loans
<1>6. QED
  BY <1>1, <1>2, <1>3, <1>4, <1>5 DEF Agree, more

-----------------------------------------------------------------------------
(* A stream begins to play or to publish *)

\* A listener is told that somebody publishes, and forgets the settings of before.
LEMMA StartedRight ==
    ASSUME NEW l \in FS!Listener, ~l.spoiled, NEW pub, pub.publisher # FS!NobodyPublishes,
           FS!StartPublishing(l).firstKeyFrame => pub.firstKeyFrame,
           l.firstVideo \/ pub.videoCodec = 0, l.firstAudio \/ pub.audioCodec = 0
    PROVE  RightListener(FS!StartPublishing(l), pub) /\ FS!StartPublishing(l).id = l.id
BY DEF RightListener, Informed, FS!StartPublishing, FS!Listener

\* A new listener knows nothing and was spoiled by nothing.
LEMMA NewListenerFacts ==
    ASSUME FS!StreamAssumption, NEW id \in 1 .. MaxListeners
    PROVE  /\ FS!NewListener(id) \in FS!Listener /\ FS!NewListener(id).id = id /\ ~FS!NewListener(id).spoiled
           /\ ~FS!NewListener(id).told /\ FS!NewListener(id).firstVideo /\ FS!NewListener(id).firstAudio
BY DEF FS!NewListener, FS!Listener, FS!Media

\* What a new listener makes of a publication.
LEMMA ListenedRight ==
    ASSUME FS!StreamAssumption, NEW pub, RightPublication(pub), NEW peer \in Parties, NEW id \in 1 .. MaxListeners
    PROVE  LET r == FS!AddListener(pub, peer, FS!NewListener(id))
           IN  /\ RightPublication(r) /\ r.publisher = pub.publisher
               /\ DOMAIN r.listeners = DOMAIN pub.listeners \cup {peer} /\ r.listeners[peer].id = id
               /\ \A p \in DOMAIN pub.listeners : p # peer => r.listeners[p] = pub.listeners[p]
<1> DEFINE l == IF pub.publisher = FS!NobodyPublishes THEN FS!NewListener(id) ELSE FS!StartPublishing(FS!NewListener(id))
<1> DEFINE r == FS!AddListener(pub, peer, FS!NewListener(id))
<1>1. RightListener(l, pub) /\ l.id = id
  <2>1. CASE pub.publisher = FS!NobodyPublishes
    BY <2>1, NewListenerFacts DEF RightListener
  <2>2. CASE pub.publisher # FS!NobodyPublishes
    <3>1. ~FS!StartPublishing(FS!NewListener(id)).firstKeyFrame
      BY DEF FS!StartPublishing, FS!NewListener
    <3>2. QED
      BY <2>2, <3>1, NewListenerFacts, StartedRight
  <2>3. QED
    BY <2>1, <2>2
<1>2. r = [pub EXCEPT !.listeners = FS!With(pub.listeners, peer, l)]
  BY DEF FS!AddListener
<1> HIDE DEF l
<1>3. /\ DOMAIN r = DOMAIN pub /\ r.publisher = pub.publisher /\ r.firstKeyFrame = pub.firstKeyFrame
      /\ r.videoCodec = pub.videoCodec /\ r.audioCodec = pub.audioCodec
      /\ r.listeners = FS!With(pub.listeners, peer, l)
  BY <1>2 DEF RightPublication
<1>4. /\ DOMAIN r.listeners = DOMAIN pub.listeners \cup {peer} /\ r.listeners[peer] = l
      /\ \A p \in DOMAIN pub.listeners : p # peer => r.listeners[p] = pub.listeners[p]
  BY <1>3 DEF FS!With
<1> HIDE DEF r
<1>5. RightPublication(r)
  BY <1>1, <1>3, <1>4 DEF RightPublication, RightListener
<1>6. QED
  BY <1>1, <1>3, <1>4, <1>5 DEF r

\* subscribe, for a stream that does nothing.
LEMMA ListenAgrees ==
    ASSUME FS!StreamAssumption, NEW pubs, NEW strs, NEW n, NEW lnt, NEW str, Agree(pubs, strs, n, lnt, str), n < MaxListeners,
           NEW name \in DOMAIN pubs, UsedBut(pubs, {name}), NEW s \in DOMAIN strs, strs[s] = FS!Idle,
           PeerOf[s] # Application, PeerOf[s] \notin DOMAIN pubs[name].listeners
    PROVE  LET new == [pubs EXCEPT ![name] = FS!AddListener(pubs[name], PeerOf[s], FS!NewListener(n + 1))]
           IN  Agree(new, [strs EXCEPT ![s] = Playing(name, n + 1)], n + 1, lnt, str) /\ UsedBut(new, {})
<1> DEFINE pub == FS!AddListener(pubs[name], PeerOf[s], FS!NewListener(n + 1))
<1> DEFINE new == [pubs EXCEPT ![name] = pub]
<1> DEFINE more == [strs EXCEPT ![s] = Playing(name, n + 1)]
<1>1. n \in Nat /\ n + 1 \in 1 .. MaxListeners /\ s \in Streams /\ PeerOf[s] \in Parties /\ RightPublication(pubs[name])
  BY Engaged DEF Agree, FS!StreamAssumption
<1>2. /\ RightPublication(pub) /\ pub.publisher = pubs[name].publisher
      /\ DOMAIN pub.listeners = DOMAIN pubs[name].listeners \cup {PeerOf[s]} /\ pub.listeners[PeerOf[s]].id = n + 1
      /\ \A p \in DOMAIN pubs[name].listeners : pub.listeners[p] = pubs[name].listeners[p]
  BY <1>1, ListenedRight
<1> HIDE DEF pub
<1>3. /\ DOMAIN new = DOMAIN pubs /\ new[name] = pub /\ \A x \in DOMAIN pubs : x # name => new[x] = pubs[x]
      /\ DOMAIN more = DOMAIN strs /\ more[s] = Playing(name, n + 1)
      /\ \A x \in DOMAIN strs : x # s => more[x] = strs[x]
  OBVIOUS
<1> HIDE DEF new, more
<1>4. \A x \in DOMAIN more : RightStream(x, more[x], new, n + 1)
  <2> SUFFICES ASSUME NEW x \in DOMAIN more PROVE RightStream(x, more[x], new, n + 1)
    OBVIOUS
  <2>1. CASE x = s
    <3>1. name \in Names /\ n + 1 \in 1 .. n + 1
      BY <1>1 DEF Agree
    <3>2. QED
      BY <2>1, <3>1, <1>3 DEF RightStream
  <2>2. CASE x # s
    <3>1. more[x] = strs[x] /\ RightStream(x, strs[x], pubs, n)
      BY <2>2, <1>3 DEF Agree
    <3>2. \A a \in DOMAIN pubs : new[a].publisher = pubs[a].publisher
      BY <1>2, <1>3
    <3>3. 1 .. n \subseteq 1 .. n + 1
      BY <1>1
    <3>4. QED
      BY <3>1, <3>2, <3>3, <1>3 DEF RightStream
  <2>3. QED
    BY <2>1, <2>2
<1>5. Apart(more)
  BY <1>3, Engaged DEF Agree, Apart
<1>6. Backed(new, more)
  <2>1. ASSUME NEW x \in DOMAIN new, new[x].publisher # FS!NobodyPublishes
        PROVE  \E y \in DOMAIN more : more[y].publication = x
    <3>1. x \in DOMAIN pubs /\ pubs[x].publisher # FS!NobodyPublishes /\ x # "none"
      BY <2>1, <1>2, <1>3, Engaged DEF Agree
    <3>2. PICK y \in DOMAIN strs : strs[y].publication = x
      BY <3>1 DEF Agree, Backed
    <3>3. y # s
      BY <3>1, <3>2, Engaged
    <3>4. QED
      BY <3>2, <3>3, <1>3
  <2>2. ASSUME NEW x \in DOMAIN new, NEW p \in DOMAIN new[x].listeners
        PROVE  \E y \in DOMAIN more : more[y].listener = new[x].listeners[p].id /\ more[y].playing = x /\ PeerOf[y] = p
    <3>1. CASE x = name /\ p = PeerOf[s]
      BY <3>1, <1>2, <1>3, Engaged
    <3>2. CASE ~(x = name /\ p = PeerOf[s])
      <4>1. x \in DOMAIN pubs /\ p \in DOMAIN pubs[x].listeners /\ new[x].listeners[p] = pubs[x].listeners[p]
        BY <2>2, <3>2, <1>2, <1>3
      <4>2. PICK y \in DOMAIN strs : strs[y].listener = pubs[x].listeners[p].id /\ strs[y].playing = x /\ PeerOf[y] = p
        BY <4>1 DEF Agree, Backed
      <4>3. strs[s].playing = "none" /\ x # "none"
        BY <4>1, Engaged DEF Agree
      <4>4. QED
        BY <4>1, <4>2, <4>3, <1>3
    <3>3. QED
      BY <3>1, <3>2
  <2>3. QED
    BY <2>1, <2>2 DEF Backed
<1>7. UsedBut(new, {})
  BY <1>2, <1>3 DEF UsedBut, InUse
<1>8. \A x \in DOMAIN new : RightPublication(new[x])
  BY <1>2, <1>3 DEF Agree
<1>9. Loans(new, more, n + 1, lnt, str)
  <2>1. Loans(pubs, strs, n, lnt, str) /\ 1 .. n \subseteq 1 .. n + 1 /\ name # "none" /\ n + 1 # 0
    BY <1>1, Engaged DEF Agree
  <2>2. \A x \in DOMAIN strs : strs[x].listener # n + 1
    BY <1>1, StreamFacts
  <2>3. more[s].listener = n + 1 /\ Holding(new, s, more[s]) /\ \A x \in DOMAIN strs : x # s => more[x] = strs[x]
    BY <1>2, <1>3, Engaged DEF Holding
  <2>4. \A x \in DOMAIN strs : Holding(pubs, x, strs[x]) => Holding(new, x, strs[x])
    <3> SUFFICES ASSUME NEW x \in DOMAIN strs, Holding(pubs, x, strs[x]) PROVE Holding(new, x, strs[x])
      OBVIOUS
    <3>1. strs[x].playing = name => PeerOf[x] # PeerOf[s]
      BY DEF Holding
    <3>2. QED
      BY <3>1, <1>2, <1>3 DEF Holding
  <2>5. DOMAIN more = DOMAIN strs
    BY <1>3
  <2>6. \A x, y \in DOMAIN more :
            more[x].listener # 0 /\ more[x].listener = more[y].listener /\ x # y => more[x].listener \in lnt
    <3> SUFFICES ASSUME NEW x \in DOMAIN more, NEW y \in DOMAIN more, more[x].listener # 0,
                        more[x].listener = more[y].listener, x # y
                 PROVE  more[x].listener \in lnt
      OBVIOUS
    <3>1. x # s /\ y # s
      BY <2>2, <2>3, <2>5
    <3>2. more[x] = strs[x] /\ more[y] = strs[y]
      BY <3>1, <2>3, <2>5
    <3>3. QED
      BY <3>2, <2>1, <2>5 DEF Loans
  <2>7. ASSUME ~str, NEW x \in DOMAIN more, more[x].listener # 0, more[x].listener \notin lnt
        PROVE  Holding(new, x, more[x])
    BY <2>7, <2>1, <2>3, <2>4, <2>5 DEF Loans
  <2>8. lnt \subseteq 1 .. n + 1 /\ str \in BOOLEAN /\ (str => lnt # {})
    BY <2>1 DEF Loans
  <2>9. QED
    BY <2>6, <2>7, <2>8, Zenon DEF Loans
<1>10. Agree(new, more, n + 1, lnt, str)
  <2>1. DOMAIN new \subseteq Names /\ DOMAIN more \subseteq Streams /\ n + 1 \in 0 .. MaxListeners
    BY <1>1, <1>3 DEF Agree
  <2>2. QED
    BY <2>1, <1>4, <1>5, <1>6, <1>8, <1>9, Zenon DEF Agree
<1>11. QED
  BY <1>7, <1>10 DEF new, more, pub

\* subscribe, for a stream whose client has a listener there by another: it is lent.
LEMMA LendAgrees ==
    ASSUME FS!StreamAssumption, NEW pubs, NEW strs, NEW n, NEW lnt, NEW str, Agree(pubs, strs, n, lnt, str),
           NEW name \in DOMAIN pubs, NEW s \in DOMAIN strs, strs[s] = FS!Idle, PeerOf[s] # Application,
           PeerOf[s] \in DOMAIN pubs[name].listeners, NEW id, id = pubs[name].listeners[PeerOf[s]].id
    PROVE  id \in 1 .. n /\ Agree(pubs, [strs EXCEPT ![s] = Playing(name, id)], n, lnt \cup {id}, str)
<1> DEFINE more == [strs EXCEPT ![s] = Playing(name, id)]
<1>1. id \in 1 .. n
  <2>1. PICK y \in DOMAIN strs : strs[y].listener = id
    BY DEF Agree, Backed
  <2>2. id # 0
    BY DEF Agree, RightPublication, RightListener, FS!Listener, FS!StreamAssumption
  <2>3. QED
    BY <2>1, <2>2, StreamFacts
<1>2. /\ DOMAIN more = DOMAIN strs /\ more[s] = Playing(name, id) /\ \A x \in DOMAIN strs : x # s => more[x] = strs[x]
      /\ name \in Names /\ name # "none"
  BY Engaged DEF Agree
<1> HIDE DEF more
<1>3. \A x \in DOMAIN more : RightStream(x, more[x], pubs, n)
  BY <1>1, <1>2 DEF Agree, RightStream
<1>4. Apart(more)
  BY <1>2, Engaged DEF Agree, Apart
<1>5. Backed(pubs, more)
  <2>1. ASSUME NEW x \in DOMAIN pubs, pubs[x].publisher # FS!NobodyPublishes
        PROVE  \E y \in DOMAIN more : more[y].publication = x
    <3>1. x # "none"
      BY Engaged DEF Agree
    <3>2. PICK y \in DOMAIN strs : strs[y].publication = x
      BY <2>1 DEF Agree, Backed
    <3>3. QED
      BY <3>1, <3>2, <1>2, Engaged
  <2>2. ASSUME NEW x \in DOMAIN pubs, NEW p \in DOMAIN pubs[x].listeners
        PROVE  \E y \in DOMAIN more : more[y].listener = pubs[x].listeners[p].id /\ more[y].playing = x /\ PeerOf[y] = p
    <3>1. x # "none"
      BY Engaged DEF Agree
    <3>2. PICK y \in DOMAIN strs : strs[y].listener = pubs[x].listeners[p].id /\ strs[y].playing = x /\ PeerOf[y] = p
      BY DEF Agree, Backed
    <3>3. QED
      BY <3>1, <3>2, <1>2, Engaged
  <2>3. QED
    BY <2>1, <2>2 DEF Backed
<1>6. Loans(pubs, more, n, lnt \cup {id}, str)
  <2>1. Loans(pubs, strs, n, lnt, str) /\ more[s].listener = id
    BY <1>2, Engaged DEF Agree
  <2>2. \A x, y \in DOMAIN more :
            more[x].listener # 0 /\ more[x].listener = more[y].listener /\ x # y => more[x].listener \in lnt \cup {id}
    BY <2>1, <1>2 DEF Loans
  <2>3. ASSUME ~str, NEW x \in DOMAIN more, more[x].listener # 0, more[x].listener \notin lnt \cup {id}
        PROVE  Holding(pubs, x, more[x])
    BY <2>1, <2>3, <1>2 DEF Loans
  <2>4. lnt \cup {id} \subseteq 1 .. n /\ str \in BOOLEAN /\ (str => lnt \cup {id} # {})
    BY <2>1, <1>1 DEF Loans
  <2>5. QED
    BY <2>2, <2>3, <2>4, Zenon DEF Loans
<1>7. QED
  BY <1>1, <1>2, <1>3, <1>4, <1>5, <1>6 DEF Agree, more

\* What a publisher makes of a publication that has none.
LEMMA PublishedRight ==
    ASSUME FS!StreamAssumption, NEW pub, RightPublication(pub), pub.publisher = FS!NobodyPublishes, NEW peer \in Parties
    PROVE  LET r == FS!Start(pub, peer)
           IN  /\ RightPublication(r) /\ r.publisher = peer /\ DOMAIN r.listeners = DOMAIN pub.listeners
               /\ \A p \in DOMAIN pub.listeners : r.listeners[p].id = pub.listeners[p].id
<1> DEFINE r == FS!Start(pub, peer)
<1>1. /\ DOMAIN r = DOMAIN pub /\ r.publisher = peer /\ r.firstKeyFrame = FALSE
      /\ r.videoCodec = 0 /\ r.audioCodec = 0 /\ DOMAIN r.listeners = DOMAIN pub.listeners
      /\ \A p \in DOMAIN pub.listeners : r.listeners[p] = FS!StartPublishing(pub.listeners[p])
  BY DEF FS!Start, RightPublication
<1> HIDE DEF r
<1>2. peer # FS!NobodyPublishes
  BY Engaged
<1>3. ASSUME NEW p \in DOMAIN pub.listeners
      PROVE  RightListener(r.listeners[p], r) /\ r.listeners[p].id = pub.listeners[p].id
  <2>1. pub.listeners[p] \in FS!Listener /\ ~pub.listeners[p].spoiled
    BY DEF RightPublication, RightListener
  <2>2. ~FS!StartPublishing(pub.listeners[p]).firstKeyFrame
    BY <2>1 DEF FS!StartPublishing, FS!Listener
  <2>3. QED
    BY <1>1, <1>2, <2>1, <2>2, StartedRight
<1>4. QED
  BY <1>1, <1>2, <1>3 DEF RightPublication, r

\* publish, for a stream that does nothing.
LEMMA PublishAgrees ==
    ASSUME FS!StreamAssumption, NEW pubs, NEW strs, NEW n, NEW lnt, NEW str, Agree(pubs, strs, n, lnt, str),
           NEW name \in DOMAIN pubs, UsedBut(pubs, {name}), pubs[name].publisher = FS!NobodyPublishes,
           NEW s \in DOMAIN strs, strs[s] = FS!Idle
    PROVE  LET new == [pubs EXCEPT ![name] = FS!Start(pubs[name], PeerOf[s])]
           IN  Agree(new, [strs EXCEPT ![s] = Publishing(name)], n, lnt, str) /\ UsedBut(new, {})
<1> DEFINE pub == FS!Start(pubs[name], PeerOf[s])
<1> DEFINE new == [pubs EXCEPT ![name] = pub]
<1> DEFINE more == [strs EXCEPT ![s] = Publishing(name)]
<1>1. s \in Streams /\ PeerOf[s] \in Parties /\ PeerOf[s] # FS!NobodyPublishes /\ RightPublication(pubs[name])
  BY Engaged DEF Agree
<1>2. /\ RightPublication(pub) /\ pub.publisher = PeerOf[s] /\ DOMAIN pub.listeners = DOMAIN pubs[name].listeners
      /\ \A p \in DOMAIN pubs[name].listeners : pub.listeners[p].id = pubs[name].listeners[p].id
  BY <1>1, PublishedRight
<1> HIDE DEF pub
<1>3. /\ DOMAIN new = DOMAIN pubs /\ new[name] = pub /\ \A x \in DOMAIN pubs : x # name => new[x] = pubs[x]
      /\ DOMAIN more = DOMAIN strs /\ more[s] = Publishing(name)
      /\ \A x \in DOMAIN strs : x # s => more[x] = strs[x]
  OBVIOUS
<1> HIDE DEF new, more
<1>4. \A x \in DOMAIN new : /\ RightPublication(new[x])
                            /\ DOMAIN new[x].listeners = DOMAIN pubs[x].listeners
                            /\ \A p \in DOMAIN new[x].listeners : new[x].listeners[p].id = pubs[x].listeners[p].id
  BY <1>2, <1>3 DEF Agree
<1>5. \A x \in DOMAIN strs : strs[x].publication # name
  <2> SUFFICES ASSUME NEW x \in DOMAIN strs, strs[x].publication = name PROVE FALSE
    OBVIOUS
  <2>1. name # "none"
    BY Engaged DEF Agree
  <2>2. QED
    BY <2>1, StreamFacts
<1>6. \A x \in DOMAIN more : RightStream(x, more[x], new, n)
  <2> SUFFICES ASSUME NEW x \in DOMAIN more PROVE RightStream(x, more[x], new, n)
    OBVIOUS
  <2>1. CASE x = s
    BY <2>1, <1>2, <1>3 DEF RightStream
  <2>2. CASE x # s
    <3>1. more[x] = strs[x] /\ RightStream(x, strs[x], pubs, n) /\ strs[x].publication # name
      BY <2>2, <1>3, <1>5 DEF Agree
    <3>2. QED
      BY <3>1, <1>3, <1>4, Engaged DEF RightStream
  <2>3. QED
    BY <2>1, <2>2
<1>7. Apart(more)
  BY <1>3, <1>5, Engaged DEF Agree, Apart
<1>8. Backed(new, more)
  <2>1. ASSUME NEW x \in DOMAIN new, new[x].publisher # FS!NobodyPublishes
        PROVE  \E y \in DOMAIN more : more[y].publication = x
    <3>1. CASE x = name
      BY <3>1, <1>3, Engaged
    <3>2. CASE x # name
      <4>1. x \in DOMAIN pubs /\ pubs[x].publisher # FS!NobodyPublishes /\ x # "none"
        BY <2>1, <3>2, <1>3, Engaged DEF Agree
      <4>2. PICK y \in DOMAIN strs : strs[y].publication = x
        BY <4>1 DEF Agree, Backed
      <4>3. y # s
        BY <4>1, <4>2, Engaged
      <4>4. QED
        BY <4>2, <4>3, <1>3
    <3>3. QED
      BY <3>1, <3>2
  <2>2. ASSUME NEW x \in DOMAIN new, NEW p \in DOMAIN new[x].listeners
        PROVE  \E y \in DOMAIN more : more[y].listener = new[x].listeners[p].id /\ more[y].playing = x /\ PeerOf[y] = p
    <3>1. x \in DOMAIN pubs /\ p \in DOMAIN pubs[x].listeners /\ new[x].listeners[p].id = pubs[x].listeners[p].id
      BY <2>2, <1>3, <1>4
    <3>2. PICK y \in DOMAIN strs : strs[y].listener = pubs[x].listeners[p].id /\ strs[y].playing = x /\ PeerOf[y] = p
      BY <3>1 DEF Agree, Backed
    <3>3. strs[s].playing = "none" /\ x # "none"
      BY <3>1, Engaged DEF Agree
    <3>4. QED
      BY <3>1, <3>2, <3>3, <1>3
  <2>3. QED
    BY <2>1, <2>2 DEF Backed
<1>9. UsedBut(new, {})
  BY <1>1, <1>2, <1>3 DEF UsedBut, InUse
<1>10. Loans(new, more, n, lnt, str)
  <2>1. \A x \in DOMAIN more : more[x].listener # 0 =>
            x \in DOMAIN strs /\ more[x] = strs[x] /\ (Holding(pubs, x, strs[x]) => Holding(new, x, more[x]))
    BY <1>3, <1>4, Engaged DEF Holding
  <2>2. QED
    BY <2>1, LoansKept DEF Agree, Loans
<1>11. QED
  BY <1>3, <1>4, <1>6, <1>7, <1>8, <1>9, <1>10 DEF Agree, new, more, pub

-----------------------------------------------------------------------------
(* The media *)

\* What a write makes of a listener's writers.
LEMMA WritersFacts ==
    ASSUME NEW l \in FS!Listener, NEW media \in FS!Media
    PROVE  /\ FS!Ready(l) \in FS!Listener /\ \E b \in SUBSET FS!Media : FS!Ready(l) = [l EXCEPT !.begun = b]
           /\ FS!WrittenOn(l, media) \in FS!Listener
           /\ \E b \in SUBSET FS!Media : FS!WrittenOn(l, media) = [l EXCEPT !.begun = b]
<1>1. l.begun \in SUBSET FS!Media
  BY DEF FS!Listener
<1>2. FS!Ready(l) = [l EXCEPT !.begun = IF l.begun = {} THEN FS!Media ELSE l.begun]
  BY DEF FS!Ready
<1>3. FS!WrittenOn(l, media) = [l EXCEPT !.begun = IF media \in l.begun THEN l.begun ELSE FS!Media]
  BY DEF FS!WrittenOn
<1>4. \A b \in SUBSET FS!Media : [l EXCEPT !.begun = b] \in FS!Listener
  BY DEF FS!Listener
<1>5. QED
  BY <1>1, <1>2, <1>3, <1>4

\* What a listener is once it was given a frame of the one medium or the other.
VideoPushed(m, l, settings) ==
    /\ m \in FS!Listener /\ m.id = l.id /\ m.told = l.told /\ ~m.spoiled
    /\ "video" \notin m.cut => (m.firstKeyFrame => m.unbroken) /\ Informed(m.firstVideo, m.video, settings)
    /\ m.firstAudio = l.firstAudio /\ m.audio = l.audio /\ ("audio" \in m.cut <=> "audio" \in l.cut)

AudioPushed(m, l, settings) ==
    /\ m \in FS!Listener /\ m.id = l.id /\ m.told = l.told /\ ~m.spoiled
    /\ "audio" \notin m.cut => Informed(m.firstAudio, m.audio, settings)
    /\ m.firstVideo = l.firstVideo /\ m.video = l.video
    /\ m.firstKeyFrame = l.firstKeyFrame /\ m.unbroken = l.unbroken
    /\ "video" \in m.cut <=> "video" \in l.cut

\* A listener that is given a video frame, with the settings in force before and after it.
LEMMA VideoRight ==
    ASSUME FS!StreamAssumption, NEW l \in FS!Listener, ~l.spoiled, NEW f \in FS!VideoFrames(Versions),
           NEW codec \in {0} \cup Versions, NEW settings \in {0} \cup Versions,
           FS!IsCodecInfos(f) => settings = f.version, ~FS!IsCodecInfos(f) => settings = codec,
           "video" \notin l.cut => /\ FS!IsKeyFrame(f) \/ (l.firstKeyFrame => l.unbroken)
                                  /\ Informed(l.firstVideo, l.video, codec)
    PROVE  VideoPushed(FS!PushVideo(l, f, settings), l, settings)
<1> USE DEF VideoPushed
<1> DEFINE m == FS!PushVideo(l, f, settings)
           known == FS!Known(f, settings, l.firstVideo, l.video)
           good == known = settings /\ (l.unbroken \/ FS!IsKeyFrame(f))
<1>1. /\ FS!IsCodecInfos(f) => FS!IsKeyFrame(f) /\ f.version \in Versions
      /\ 0 \notin Versions
  BY DEF FS!IsCodecInfos, FS!IsKeyFrame, FS!VideoFrames, FS!StreamAssumption
<1>2. /\ "video" \notin l.cut => known = settings
      /\ settings = 0 => codec = 0
      /\ known \in {0} \cup Versions
  BY <1>1 DEF FS!Known, Informed, FS!Listener
<1>3. CASE ~l.receiveVideo
  <2>1. m = [l EXCEPT !.firstKeyFrame = FALSE, !.firstVideo = TRUE, !.unbroken = FALSE]
    BY <1>3 DEF FS!PushVideo
  <2> HIDE DEF m
  <2>2. /\ m \in FS!Listener /\ m.id = l.id /\ m.told = l.told /\ ~m.spoiled
        /\ "video" \notin m.cut => /\ m.firstKeyFrame => m.unbroken
                                   /\ Informed(m.firstVideo, m.video, settings)
        /\ m.firstAudio = l.firstAudio /\ m.audio = l.audio /\ m.cut = l.cut
    BY <2>1, <1>2 DEF FS!Listener, Informed
  <2>3. QED
    BY <2>2 DEF m
<1>4. CASE l.receiveVideo /\ ~l.firstKeyFrame /\ ~FS!IsKeyFrame(f)
  <2>1. PICK b \in SUBSET FS!Media : FS!Ready(l) = [l EXCEPT !.begun = b]
    BY WritersFacts DEF FS!Media
  <2>2. m = [FS!Ready(l) EXCEPT !.unbroken = FALSE]
    BY <1>4 DEF FS!PushVideo
  <2>3. m = [l EXCEPT !.begun = b, !.unbroken = FALSE]
    BY <2>1, <2>2 DEF FS!Listener
  <2> HIDE DEF m
  <2>4. settings = codec
    BY <1>1, <1>4
  <2>5. /\ m \in FS!Listener /\ m.id = l.id /\ m.told = l.told /\ ~m.spoiled
        /\ "video" \notin m.cut => /\ m.firstKeyFrame => m.unbroken
                                   /\ Informed(m.firstVideo, m.video, settings)
        /\ m.firstAudio = l.firstAudio /\ m.audio = l.audio /\ m.cut = l.cut
    BY <2>3, <2>4, <1>4 DEF FS!Listener, Informed
  <2>6. QED
    BY <2>5 DEF m
<1>5. CASE l.receiveVideo /\ (l.firstKeyFrame \/ FS!IsKeyFrame(f))
  <2>1. PICK b \in SUBSET FS!Media : FS!WrittenOn(l, "video") = [l EXCEPT !.begun = b]
    BY WritersFacts DEF FS!Media
  <2> DEFINE w == FS!WrittenOn(l, "video")
  <2>2. m = [w EXCEPT !.firstKeyFrame = TRUE, !.firstVideo = FALSE, !.video = known,
                      !.unbroken = w.unbroken \/ FS!IsKeyFrame(f),
                      !.cut = IF good THEN w.cut \ {"video"} ELSE w.cut,
                      !.spoiled = w.spoiled \/ (~good /\ "video" \notin l.cut)]
    BY <1>5 DEF FS!PushVideo, FS!VideoWritten
  <2>3. w.unbroken = l.unbroken /\ w.spoiled = l.spoiled /\ w.cut = l.cut
    BY <2>1 DEF FS!Listener
  <2>4. "video" \notin l.cut => good
    BY <1>2, <1>5
  <2>5. (w.spoiled \/ (~good /\ "video" \notin l.cut)) = FALSE
    BY <2>3, <2>4
  <2>6. (w.unbroken \/ FS!IsKeyFrame(f)) \in BOOLEAN
    BY <2>3 DEF FS!Listener, FS!IsKeyFrame
  <2>7. PICK c \in BOOLEAN : c = (w.unbroken \/ FS!IsKeyFrame(f))
    BY <2>6
  <2>8. m = [l EXCEPT !.begun = b, !.firstKeyFrame = TRUE, !.firstVideo = FALSE, !.video = known, !.unbroken = c,
                      !.cut = IF good THEN l.cut \ {"video"} ELSE l.cut, !.spoiled = FALSE]
    BY <2>1, <2>2, <2>3, <2>5, <2>7 DEF FS!Listener
  <2>9. good => c
    BY <2>3, <2>7
  <2> HIDE DEF m
  <2>10. CASE good
    <3>1. known = settings
      BY <2>10
    <3>2. m = [l EXCEPT !.begun = b, !.firstKeyFrame = TRUE, !.firstVideo = FALSE, !.video = settings,
                        !.unbroken = TRUE, !.cut = l.cut \ {"video"}, !.spoiled = FALSE]
      BY <2>8, <2>9, <2>10, <3>1
    <3>3. /\ m \in FS!Listener /\ m.id = l.id /\ m.told = l.told /\ ~m.spoiled
          /\ m.unbroken /\ Informed(m.firstVideo, m.video, settings)
          /\ m.firstAudio = l.firstAudio /\ m.audio = l.audio /\ ("audio" \in m.cut <=> "audio" \in l.cut)
      BY <3>2 DEF FS!Listener, Informed
    <3>4. QED
      BY <3>3 DEF m
  <2>11. CASE ~good
    <3>1. "video" \in l.cut
      BY <2>4, <2>11
    <3>2. m = [l EXCEPT !.begun = b, !.firstKeyFrame = TRUE, !.firstVideo = FALSE, !.video = known,
                        !.unbroken = c, !.cut = l.cut, !.spoiled = FALSE]
      BY <2>8, <2>11
    <3> HIDE DEF known
    <3>3. /\ m \in FS!Listener /\ m.id = l.id /\ m.told = l.told /\ ~m.spoiled /\ m.cut = l.cut
          /\ m.firstAudio = l.firstAudio /\ m.audio = l.audio
      BY <3>2, <1>2 DEF FS!Listener
    <3>4. QED
      BY <3>1, <3>3 DEF m
  <2>12. QED
    BY <2>10, <2>11
<1>6. QED
  BY <1>3, <1>4, <1>5

\* The same of an audio frame.
LEMMA AudioRight ==
    ASSUME FS!StreamAssumption, NEW l \in FS!Listener, ~l.spoiled, NEW f \in FS!AudioFrames(Versions),
           NEW codec \in {0} \cup Versions, NEW settings \in {0} \cup Versions,
           FS!IsCodecInfos(f) => settings = f.version, ~FS!IsCodecInfos(f) => settings = codec,
           "audio" \notin l.cut => Informed(l.firstAudio, l.audio, codec)
    PROVE  AudioPushed(FS!PushAudio(l, f, settings), l, settings)
<1> USE DEF AudioPushed
<1> DEFINE m == FS!PushAudio(l, f, settings)
           known == FS!Known(f, settings, l.firstAudio, l.audio)
<1>1. (FS!IsCodecInfos(f) => f.version \in Versions) /\ 0 \notin Versions
  BY DEF FS!IsCodecInfos, FS!AudioFrames, FS!StreamAssumption
<1>2. /\ "audio" \notin l.cut => known = settings
      /\ settings = 0 => codec = 0
      /\ known \in {0} \cup Versions
  BY <1>1 DEF FS!Known, Informed, FS!Listener
<1>3. CASE ~l.receiveAudio
  <2>1. m = [l EXCEPT !.firstAudio = TRUE]
    BY <1>3 DEF FS!PushAudio
  <2> HIDE DEF m
  <2>2. QED
    BY <2>1, <1>2 DEF FS!Listener, Informed, m
<1>4. CASE l.receiveAudio
  <2>1. PICK b \in SUBSET FS!Media : FS!WrittenOn(l, "audio") = [l EXCEPT !.begun = b]
    BY WritersFacts DEF FS!Media
  <2> DEFINE w == FS!WrittenOn(l, "audio")
  <2>2. m = [w EXCEPT !.firstAudio = FALSE, !.audio = known,
                      !.cut = IF known = settings THEN w.cut \ {"audio"} ELSE w.cut,
                      !.spoiled = w.spoiled \/ (known # settings /\ "audio" \notin l.cut)]
    BY <1>4 DEF FS!PushAudio
  <2>3. w.spoiled = l.spoiled /\ w.cut = l.cut
    BY <2>1 DEF FS!Listener
  <2>4. (w.spoiled \/ (known # settings /\ "audio" \notin l.cut)) = FALSE
    BY <2>3, <1>2
  <2>5. m = [l EXCEPT !.begun = b, !.firstAudio = FALSE, !.audio = known,
                      !.cut = IF known = settings THEN l.cut \ {"audio"} ELSE l.cut, !.spoiled = FALSE]
    BY <2>1, <2>2, <2>3, <2>4 DEF FS!Listener
  <2> HIDE DEF m, known
  <2>6. PICK d \in SUBSET FS!Media : d = (IF known = settings THEN l.cut \ {"audio"} ELSE l.cut)
    BY DEF FS!Listener
  <2>7. ("video" \in d <=> "video" \in l.cut) /\ ("audio" \notin d => known = settings)
    BY <1>2, <2>6
  <2>8. m = [l EXCEPT !.begun = b, !.firstAudio = FALSE, !.audio = known, !.cut = d, !.spoiled = FALSE]
    BY <2>5, <2>6
  <2>9. /\ m \in FS!Listener /\ m.id = l.id /\ m.told = l.told /\ ~m.spoiled /\ m.cut = d
        /\ ~m.firstAudio /\ m.audio = known /\ m.firstVideo = l.firstVideo /\ m.video = l.video
        /\ m.firstKeyFrame = l.firstKeyFrame /\ m.unbroken = l.unbroken
    BY <2>8, <1>2 DEF FS!Listener
  <2>10. "audio" \notin m.cut => Informed(m.firstAudio, m.audio, settings)
    BY <2>7, <2>9, <1>2 DEF Informed
  <2>11. QED
    BY <2>7, <2>9, <2>10 DEF m
<1>5. QED
  BY <1>3, <1>4

\* What a publication is after it passed media on.
Same(r, pub) ==
    /\ RightPublication(r) /\ r.publisher = pub.publisher /\ DOMAIN r.listeners = DOMAIN pub.listeners
    /\ \A p \in DOMAIN r.listeners : r.listeners[p].id = pub.listeners[p].id

\* pushVideo, whatever was lost before the frame.
LEMMA VideoSame ==
    ASSUME FS!StreamAssumption, NEW pub, RightPublication(pub), pub.publisher # FS!NobodyPublishes,
           NEW f \in FS!VideoFrames(Versions), NEW lost \in BOOLEAN
    PROVE  Same(FS!Video(pub, f, lost), pub)
<1> DEFINE going == (pub.firstKeyFrame /\ ~lost) \/ FS!IsKeyFrame(f)
           settings == IF FS!IsCodecInfos(f) THEN f.version ELSE pub.videoCodec
           Missed(l) == [l EXCEPT !.unbroken = FALSE]
           r == FS!Video(pub, f, lost)
<1>1. /\ DOMAIN r = DOMAIN pub /\ r.publisher = pub.publisher /\ r.firstKeyFrame = going
      /\ r.videoCodec = settings /\ r.audioCodec = pub.audioCodec /\ DOMAIN r.listeners = DOMAIN pub.listeners
  BY DEF FS!Video, RightPublication
<1>2. ASSUME NEW p \in DOMAIN pub.listeners
      PROVE  r.listeners[p] =
                 IF going THEN FS!PushVideo(IF lost THEN Missed(pub.listeners[p]) ELSE pub.listeners[p], f, settings)
                 ELSE Missed(pub.listeners[p])
  BY DEF FS!Video, RightPublication
<1> HIDE DEF r
<1>3. settings \in {0} \cup Versions /\ going \in BOOLEAN /\ (~going => settings = pub.videoCodec)
  BY DEF RightPublication, FS!VideoFrames, FS!IsCodecInfos, FS!IsKeyFrame
<1>4. ASSUME NEW p \in DOMAIN pub.listeners
      PROVE  RightListener(r.listeners[p], r) /\ r.listeners[p].id = pub.listeners[p].id
  <2> DEFINE l == pub.listeners[p]
  <2>1. RightListener(l, pub) /\ l \in FS!Listener
    BY DEF RightPublication, RightListener
  <2> HIDE DEF l
  <2>2. /\ Missed(l) \in FS!Listener /\ Missed(l).id = l.id /\ Missed(l).told = l.told /\ ~Missed(l).unbroken
        /\ Missed(l).firstKeyFrame = l.firstKeyFrame /\ Missed(l).firstVideo = l.firstVideo
        /\ Missed(l).video = l.video /\ Missed(l).firstAudio = l.firstAudio /\ Missed(l).audio = l.audio
        /\ Missed(l).spoiled = l.spoiled /\ Missed(l).cut = l.cut
    BY <2>1 DEF FS!Listener
  <2> HIDE DEF Missed
  <2>3. CASE ~going
    <3>1. r.listeners[p] = Missed(l) /\ r.firstKeyFrame = FALSE /\ r.videoCodec = pub.videoCodec
      BY <2>3, <1>1, <1>2, <1>3 DEF l
    <3>2. QED
      BY <2>1, <2>2, <3>1, <1>1 DEF RightListener, l
  <2>4. CASE going
    <3> DEFINE given == IF lost THEN Missed(l) ELSE l
    <3>1. r.listeners[p] = FS!PushVideo(given, f, settings)
      BY <2>4, <1>2 DEF l
    <3>2. /\ given \in FS!Listener /\ given.id = l.id /\ given.told = l.told /\ ~given.spoiled
          /\ given.firstVideo = l.firstVideo /\ given.video = l.video /\ given.firstAudio = l.firstAudio
          /\ given.audio = l.audio /\ given.firstKeyFrame = l.firstKeyFrame /\ given.cut = l.cut
      BY <2>1, <2>2 DEF RightListener
    <3>3. "video" \notin given.cut => FS!IsKeyFrame(f) \/ (given.firstKeyFrame => given.unbroken)
      BY <2>1, <2>4, <3>2 DEF RightListener
    <3> HIDE DEF given
    <3>4. /\ "video" \notin given.cut => Informed(given.firstVideo, given.video, pub.videoCodec)
          /\ "audio" \notin given.cut => Informed(given.firstAudio, given.audio, pub.audioCodec)
          /\ given.told = (pub.publisher # FS!NobodyPublishes)
      BY <2>1, <3>2 DEF RightListener, FS!Listener
    <3>5. pub.videoCodec \in {0} \cup Versions
      BY DEF RightPublication
    <3> HIDE DEF settings, going
    <3> DEFINE m == FS!PushVideo(given, f, settings)
    <3>6. VideoPushed(m, given, settings)
      <4>1. /\ FS!IsCodecInfos(f) => settings = f.version
            /\ ~FS!IsCodecInfos(f) => settings = pub.videoCodec
            /\ settings \in {0} \cup Versions
        BY <1>3 DEF settings
      <4>2. "video" \notin given.cut =>
               /\ FS!IsKeyFrame(f) \/ (given.firstKeyFrame => given.unbroken)
               /\ Informed(given.firstVideo, given.video, pub.videoCodec)
        BY <3>3, <3>4
      <4>3. given \in FS!Listener /\ ~given.spoiled
        BY <3>2
      <4>4. QED
        BY <3>5, <4>1, <4>2, <4>3, VideoRight
    <3> HIDE DEF m
    <3>7. r.listeners[p] = m /\ m.id = l.id
      BY <3>1, <3>2, <3>6 DEF m, VideoPushed
    <3>8. QED
      BY <3>4, <3>6, <3>7, <1>1 DEF RightListener, VideoPushed, l
  <2>5. QED
    BY <2>3, <2>4
<1>5. QED
  BY <1>1, <1>3, <1>4 DEF RightPublication, Same, r

\* pushAudio.
LEMMA AudioSame ==
    ASSUME FS!StreamAssumption, NEW pub, RightPublication(pub), pub.publisher # FS!NobodyPublishes,
           NEW f \in FS!AudioFrames(Versions)
    PROVE  Same(FS!Audio(pub, f), pub)
<1> DEFINE settings == IF FS!IsCodecInfos(f) THEN f.version ELSE pub.audioCodec
           r == FS!Audio(pub, f)
<1>1. /\ DOMAIN r = DOMAIN pub /\ r.publisher = pub.publisher /\ r.firstKeyFrame = pub.firstKeyFrame
      /\ r.videoCodec = pub.videoCodec /\ r.audioCodec = settings /\ DOMAIN r.listeners = DOMAIN pub.listeners
      /\ \A p \in DOMAIN pub.listeners : r.listeners[p] = FS!PushAudio(pub.listeners[p], f, settings)
  BY DEF FS!Audio, RightPublication
<1> HIDE DEF r
<1>2. /\ FS!IsCodecInfos(f) => settings = f.version
      /\ ~FS!IsCodecInfos(f) => settings = pub.audioCodec
      /\ settings \in {0} \cup Versions
  BY DEF RightPublication, FS!AudioFrames, FS!IsCodecInfos
<1> HIDE DEF settings
<1>3. ASSUME NEW p \in DOMAIN pub.listeners
      PROVE  RightListener(r.listeners[p], r) /\ r.listeners[p].id = pub.listeners[p].id
  <2> DEFINE l == pub.listeners[p]
  <2>1. RightListener(l, pub) /\ l \in FS!Listener
    BY DEF RightPublication, RightListener
  <2> HIDE DEF l
  <2>2. ~l.spoiled
    BY <2>1 DEF RightListener
  <2>3. "audio" \notin l.cut => Informed(l.firstAudio, l.audio, pub.audioCodec)
    BY <2>1 DEF RightListener
  <2>4. l \in FS!Listener
    BY <2>1
  <2>5. pub.audioCodec \in {0} \cup Versions
    BY DEF RightPublication
  <2> DEFINE m == FS!PushAudio(l, f, settings)
  <2>6. AudioPushed(m, l, settings)
    BY <2>2, <2>3, <2>4, <2>5, <1>2, AudioRight
  <2>7. r.listeners[p] = m
    BY <1>1 DEF l
  <2> HIDE DEF m
  <2>8. QED
    BY <2>1, <2>6, <2>7, <1>1 DEF RightListener, AudioPushed, l
<1>4. QED
  BY <1>1, <1>2, <1>3 DEF RightPublication, Same, r

\* A listener keeps what is kept of it when only its writers or its wishes change.
LEMMA WishesRight ==
    ASSUME NEW pub, NEW l, RightListener(l, pub), NEW m \in FS!Listener,
           m.id = l.id, m.told = l.told, m.spoiled = l.spoiled, m.firstKeyFrame = l.firstKeyFrame,
           m.unbroken = l.unbroken, m.firstVideo = l.firstVideo, m.video = l.video,
           m.firstAudio = l.firstAudio, m.audio = l.audio, m.cut = l.cut
    PROVE  RightListener(m, pub)
BY DEF RightListener

\* pushData.
LEMMA DataSame ==
    ASSUME NEW pub, RightPublication(pub)
    PROVE  Same(FS!Data(pub), pub)
<1> DEFINE r == FS!Data(pub)
<1>1. /\ DOMAIN r = DOMAIN pub /\ r.publisher = pub.publisher /\ r.firstKeyFrame = pub.firstKeyFrame
      /\ r.videoCodec = pub.videoCodec /\ r.audioCodec = pub.audioCodec /\ DOMAIN r.listeners = DOMAIN pub.listeners
      /\ \A p \in DOMAIN pub.listeners : r.listeners[p] = FS!WrittenOn(pub.listeners[p], "data")
  BY DEF FS!Data, FS!PushData, RightPublication
<1> HIDE DEF r
<1>2. ASSUME NEW p \in DOMAIN pub.listeners
      PROVE  RightListener(r.listeners[p], pub) /\ r.listeners[p].id = pub.listeners[p].id
  <2>1. RightListener(pub.listeners[p], pub) /\ pub.listeners[p] \in FS!Listener
    BY DEF RightPublication, RightListener
  <2>2. PICK b \in SUBSET FS!Media : r.listeners[p] = [pub.listeners[p] EXCEPT !.begun = b]
    BY <1>1, <2>1, WritersFacts DEF FS!Media
  <2>3. r.listeners[p] \in FS!Listener
    BY <2>1, <2>2 DEF FS!Listener
  <2>4. QED
    BY <2>1, <2>2, <2>3, WishesRight DEF FS!Listener
<1>3. QED
  BY <1>1, <1>2 DEF RightPublication, RightListener, Same, r

\* One listener changes in what it wishes or in its writers.
LEMMA WishesSame ==
    ASSUME NEW pub, RightPublication(pub), NEW peer \in DOMAIN pub.listeners, NEW m \in FS!Listener,
           RightListener(m, pub), m.id = pub.listeners[peer].id
    PROVE  Same([pub EXCEPT !.listeners = [pub.listeners EXCEPT ![peer] = m]], pub)
<1> DEFINE r == [pub EXCEPT !.listeners = [pub.listeners EXCEPT ![peer] = m]]
<1>1. /\ DOMAIN r = DOMAIN pub /\ r.publisher = pub.publisher /\ r.firstKeyFrame = pub.firstKeyFrame
      /\ r.videoCodec = pub.videoCodec /\ r.audioCodec = pub.audioCodec /\ DOMAIN r.listeners = DOMAIN pub.listeners
      /\ r.listeners[peer] = m /\ \A p \in DOMAIN pub.listeners : p # peer => r.listeners[p] = pub.listeners[p]
  BY DEF RightPublication
<1> HIDE DEF r
<1>2. QED
  BY <1>1 DEF RightPublication, RightListener, Same, r

\* A publication passed media on, and the rest of the state stays.
LEMMA PassedOn ==
    ASSUME FS!StreamAssumption, FInv, NEW name \in DOMAIN publications, NEW r, Same(r, publications[name]),
           publications' = [publications EXCEPT ![name] = r], UNCHANGED <<streams, listenerCount, lent, strayed>>
    PROVE  Agree(publications, streams, listenerCount, lent, strayed)' /\ UsedBut(publications, {})'
<1>1. Agree(publications, streams, listenerCount, lent, strayed) /\ UsedBut(publications, {})
  BY DEF FInv
<1>2. Agree([publications EXCEPT ![name] = r], streams, listenerCount, lent, strayed) /\ UsedBut([publications EXCEPT ![name] = r], {})
  BY <1>1, Changed DEF Same
<1>3. QED
  BY <1>2

\* The streams, publications and listeners of a step are these.
LEMMA Arrived ==
    ASSUME NEW pubs, NEW strs, NEW n, NEW lnt, NEW str, Agree(pubs, strs, n, lnt, str), UsedBut(pubs, {}),
           publications' = pubs, streams' = strs, listenerCount' = n, failures' = failures, lent' = lnt,
           strayed' = str, FInv
    PROVE  FInv'
BY DEF FInv

-----------------------------------------------------------------------------
(* The steps *)

LEMMA CreateStep ==
    ASSUME FS!StreamAssumption, FInv, NEW s \in Streams, FS!CreateStream(s)
    PROVE  FInv'
<1>1. /\ Agree(publications, FS!With(streams, s, FS!Idle), listenerCount, lent, strayed)
      /\ UsedBut(publications, {})
  BY AddedAgrees DEF FInv, FS!CreateStream
<1>2. QED
  BY <1>1, Arrived DEF FS!CreateStream

\* A stream, or a handle of the application, goes with all that it does.
LEMMA GoneStep ==
    ASSUME FS!StreamAssumption, FInv, NEW s \in DOMAIN streams, NEW read \in FS!NamesRead(s),
           publications' = FS!Disengage(s, read), streams' = FS!Restrict(streams, DOMAIN streams \ {s}),
           strayed' = (strayed \/ FS!Dangles(s)), UNCHANGED <<listenerCount, failures, lent>>
    PROVE  FInv'
<1> DEFINE left == [streams EXCEPT ![s] = FS!Idle]
           now == strayed \/ FS!Dangles(s)
<1>1. Agree(FS!Disengage(s, read), left, listenerCount, lent, now) /\ UsedBut(FS!Disengage(s, read), {})
  BY DisengageAgrees DEF FInv
<1>2. DOMAIN left = DOMAIN streams /\ left[s] = FS!Idle /\ \A x \in DOMAIN left \ {s} : left[x] = streams[x]
  OBVIOUS
<1>3. FS!Restrict(left, DOMAIN left \ {s}) = FS!Restrict(streams, DOMAIN streams \ {s})
  BY <1>2 DEF FS!Restrict
<1> HIDE DEF left
<1>4. Agree(FS!Disengage(s, read), FS!Restrict(left, DOMAIN left \ {s}), listenerCount, lent, now)
  BY <1>1, <1>2, DroppedAgrees
<1>5. QED
  BY <1>1, <1>3, <1>4, Arrived

LEMMA CloseStep ==
    ASSUME FS!StreamAssumption, FInv, NEW s \in Streams, NEW read, FS!CloseStream(s, read)
    PROVE  FInv'
<1>1. /\ Agree(FS!Disengage(s, read), [streams EXCEPT ![s] = FS!Idle], listenerCount, lent, strayed \/ FS!Dangles(s))
      /\ UsedBut(FS!Disengage(s, read), {})
  BY DisengageAgrees DEF FInv, FS!CloseStream, FS!Client
<1>2. QED
  BY <1>1, Arrived DEF FS!CloseStream, FS!Uses

LEMMA AppCloseStep ==
    ASSUME FS!StreamAssumption, FInv, NEW s \in Streams, FS!AppClose(s)
    PROVE  FInv'
<1>1. /\ s \in DOMAIN streams /\ PeerOf[s] = Application
      /\ Agree(publications, streams, listenerCount, lent, strayed)
  BY DEF FS!AppClose, FInv
<1>2. streams[s].listener = 0 /\ streams[s].playing = "none"
  BY <1>1, StreamFacts
<1>3. streams[s].publication = "none" => streams[s].publication \notin DOMAIN publications
  BY <1>1, Engaged DEF Agree
<1>4. FS!Unpublish(publications, Application, streams[s].publication) = FS!Disengage(s, "none")
  BY <1>1, <1>2, <1>3 DEF FS!Disengage, FS!Unpublish
<1>5. "none" \in FS!NamesRead(s) /\ (strayed \/ FS!Dangles(s)) = strayed
  BY <1>1, <1>2 DEF FS!NamesRead, FS!Dangles, Agree, Loans
<1>6. QED
  BY <1>1, <1>4, <1>5, GoneStep DEF FS!AppClose

\* Whoever publishes has a publication that is his.
LEMMA PublishesFacts ==
    ASSUME FS!StreamAssumption, FInv, NEW s \in Streams, FS!Publishes(s)
    PROVE  /\ streams[s].publication \in DOMAIN publications
           /\ RightPublication(publications[streams[s].publication])
           /\ publications[streams[s].publication].publisher # FS!NobodyPublishes
BY StreamFacts DEF FInv, FS!Publishes, Agree

LEMMA MediaStep ==
    ASSUME FS!StreamAssumption, FInv, NEW s \in Streams,
           \/ FS!PushDataPacket(s)
           \/ \E f \in FS!VideoFrames(Versions), lost \in BOOLEAN : FS!PushVideoFrame(s, f, lost)
           \/ \E f \in FS!AudioFrames(Versions) : FS!PushAudioFrame(s, f)
    PROVE  FInv'
<1> DEFINE name == streams[s].publication
           pub == publications[name]
<1>1. UNCHANGED <<streams, listenerCount, failures, lent, strayed>> /\ FS!Publishes(s)
  BY DEF FS!PushDataPacket, FS!PushVideoFrame, FS!PushAudioFrame
<1>2. name \in DOMAIN publications /\ RightPublication(pub) /\ pub.publisher # FS!NobodyPublishes
  BY <1>1, PublishesFacts
<1>3. \E r : Same(r, pub) /\ publications' = [publications EXCEPT ![name] = r]
  <2>1. CASE FS!PushDataPacket(s)
    BY <2>1, <1>2, DataSame DEF FS!PushDataPacket
  <2>2. ASSUME NEW f \in FS!VideoFrames(Versions), NEW lost \in BOOLEAN, FS!PushVideoFrame(s, f, lost)
        PROVE  \E r : Same(r, pub) /\ publications' = [publications EXCEPT ![name] = r]
    BY <2>2, <1>2, VideoSame DEF FS!PushVideoFrame
  <2>3. ASSUME NEW f \in FS!AudioFrames(Versions), FS!PushAudioFrame(s, f)
        PROVE  \E r : Same(r, pub) /\ publications' = [publications EXCEPT ![name] = r]
    BY <2>3, <1>2, AudioSame DEF FS!PushAudioFrame
  <2>4. QED
    BY <2>1, <2>2, <2>3
<1> HIDE DEF name, pub
<1>4. Agree(publications, streams, listenerCount, lent, strayed)' /\ UsedBut(publications, {})'
  BY <1>1, <1>2, <1>3, PassedOn DEF pub
<1>5. QED
  BY <1>1, <1>4 DEF FInv

\* A listener that is there can be changed in its wishes and in its writers.
LEMMA WishStep ==
    ASSUME FS!StreamAssumption, FInv, NEW name \in DOMAIN publications,
           NEW p \in DOMAIN publications[name].listeners, NEW m \in FS!Listener,
           RightListener(publications[name].listeners[p], publications[name]) => RightListener(m, publications[name]),
           m.id = publications[name].listeners[p].id
    PROVE  LET new == [publications EXCEPT ![name] =
                         [publications[name] EXCEPT !.listeners = [publications[name].listeners EXCEPT ![p] = m]]]
           IN  Agree(new, streams, listenerCount, lent, strayed) /\ UsedBut(new, {})
<1>1. RightPublication(publications[name])
  BY DEF FInv, Agree
<1>2. RightListener(publications[name].listeners[p], publications[name])
  BY <1>1 DEF RightPublication
<1>3. Same([publications[name] EXCEPT !.listeners = [publications[name].listeners EXCEPT ![p] = m]], publications[name])
  BY <1>1, <1>2, WishesSame
<1>4. QED
  BY <1>3, Changed DEF FInv, Same

\* What a listener wishes changes nothing of what is kept.
LEMMA WishedAgrees ==
    ASSUME FS!StreamAssumption, FInv, NEW name \in DOMAIN publications, NEW p \in DOMAIN publications[name].listeners,
           NEW what \in {"receiveAudio", "receiveVideo"}, NEW value \in BOOLEAN, FS!Wished(name, p, what, value)
    PROVE  \E new : publications' = new /\ Agree(new, streams, listenerCount, lent, strayed) /\ UsedBut(new, {})
<1> DEFINE l == publications[name].listeners[p]
           m == [l EXCEPT ![what] = value]
<1>1. l \in FS!Listener
  BY DEF FInv, Agree, RightPublication, RightListener
<1>2. publications' = [publications EXCEPT ![name] =
              [publications[name] EXCEPT !.listeners = [publications[name].listeners EXCEPT ![p] = m]]]
  BY DEF FS!Wished
<1>3. /\ m \in FS!Listener /\ m.id = l.id /\ m.told = l.told /\ m.spoiled = l.spoiled
      /\ m.firstKeyFrame = l.firstKeyFrame /\ m.unbroken = l.unbroken /\ m.firstVideo = l.firstVideo
      /\ m.video = l.video /\ m.firstAudio = l.firstAudio /\ m.audio = l.audio /\ m.cut = l.cut
  <2>1. CASE what = "receiveAudio"
    BY <2>1, <1>1 DEF FS!Listener
  <2>2. CASE what = "receiveVideo"
    BY <2>2, <1>1 DEF FS!Listener
  <2>3. QED
    BY <2>1, <2>2
<1> HIDE DEF m
<1>4. RightListener(l, publications[name]) => RightListener(m, publications[name])
  BY <1>3, WishesRight
<1>5. QED
  BY <1>2, <1>3, <1>4, WishStep

LEMMA ReceiveStep ==
    ASSUME FS!StreamAssumption, FInv, NEW s \in Streams, NEW what \in {"receiveAudio", "receiveVideo"},
           NEW value \in BOOLEAN, FS!Receive(s, what, value)
    PROVE  FInv'
<1> DEFINE now == strayed \/ FS!Dangles(s)
<1>1. /\ s \in DOMAIN streams /\ streams[s].listener # 0 /\ strayed' = now
      /\ streams' = streams /\ listenerCount' = listenerCount /\ failures' = failures /\ lent' = lent
  BY DEF FS!Receive, FS!Client, FS!Uses
<1>2. \E new : publications' = new /\ Agree(new, streams, listenerCount, lent, strayed) /\ UsedBut(new, {})
  <2>1. CASE UNCHANGED publications
    BY <2>1 DEF FInv
  <2>2. CASE FS!ListenerAlive(s) /\ FS!Wished(streams[s].playing, PeerOf[s], what, value)
    BY <2>2, WishedAgrees DEF FS!ListenerAlive, FS!Listens
  <2>3. ASSUME NEW name \in DOMAIN publications, NEW p \in DOMAIN publications[name].listeners,
               FS!Wished(name, p, what, value)
        PROVE  \E new : publications' = new /\ Agree(new, streams, listenerCount, lent, strayed) /\ UsedBut(new, {})
    BY <2>3, WishedAgrees
  <2>4. QED
    BY <2>1, <2>2, <2>3 DEF FS!Receive
<1>3. PICK new : publications' = new /\ Agree(new, streams, listenerCount, lent, strayed) /\ UsedBut(new, {})
  BY <1>2
<1>4. now \in BOOLEAN /\ (strayed => now) /\ (now => lent # {})
  <2>1. Loans(publications, streams, listenerCount, lent, strayed)
    BY DEF FInv, Agree
  <2>2. QED
    BY <1>1, <2>1, DanglesFacts DEF Loans
<1> HIDE DEF now
<1>5. Agree(new, streams, listenerCount, lent, now)
  BY <1>3, <1>4 DEF Agree, Loans
<1>6. QED
  BY <1>1, <1>3, <1>5, Arrived

\* A writer that fails leaves a listener as it is, but for what is cut.
LEMMA FailedRight ==
    ASSUME NEW pub, NEW l, RightListener(l, pub), NEW media \in FS!Media, NEW lost
    PROVE  /\ FS!Failed(l, media, lost) \in FS!Listener /\ RightListener(FS!Failed(l, media, lost), pub)
           /\ FS!Failed(l, media, lost).id = l.id
<1> DEFINE m == FS!Failed(l, media, lost)
           b == l.begun \ {media}
<1>1. l \in FS!Listener /\ b \in SUBSET FS!Media
  BY DEF RightListener, FS!Listener
<1>2. CASE lost = "nothing" \/ media = "data"
  <2>1. m = [l EXCEPT !.begun = b]
    BY <1>2 DEF FS!Failed
  <2> HIDE DEF m, b
  <2>2. QED
    BY <1>1, <2>1, WishesRight DEF FS!Listener, m
<1>3. CASE lost # "nothing" /\ media = "video"
  <2>1. PICK v \in {0, l.video} : m = [l EXCEPT !.begun = b, !.cut = l.cut \cup {"video"}, !.unbroken = FALSE, !.video = v]
    <3>1. m = [[l EXCEPT !.begun = b] EXCEPT !.cut = [l EXCEPT !.begun = b].cut \cup {"video"}, !.unbroken = FALSE,
                  !.video = IF lost = "settings" THEN 0 ELSE [l EXCEPT !.begun = b].video]
      BY <1>3 DEF FS!Failed
    <3>2. QED
      BY <1>1, <3>1 DEF FS!Listener
  <2> HIDE DEF m, b
  <2>2. /\ m \in FS!Listener /\ m.id = l.id /\ m.told = l.told /\ m.spoiled = l.spoiled
        /\ "video" \in m.cut /\ ("audio" \in m.cut <=> "audio" \in l.cut)
        /\ m.firstAudio = l.firstAudio /\ m.audio = l.audio
    BY <1>1, <2>1 DEF FS!Listener, FS!Media
  <2>3. QED
    BY <2>2 DEF RightListener, m
<1>4. CASE lost # "nothing" /\ media = "audio"
  <2>1. PICK v \in {0, l.audio} : m = [l EXCEPT !.begun = b, !.cut = l.cut \cup {"audio"}, !.audio = v]
    <3>1. m = [[l EXCEPT !.begun = b] EXCEPT !.cut = [l EXCEPT !.begun = b].cut \cup {"audio"},
                  !.audio = IF lost = "settings" THEN 0 ELSE [l EXCEPT !.begun = b].audio]
      BY <1>4 DEF FS!Failed
    <3>2. QED
      BY <1>1, <3>1 DEF FS!Listener
  <2> HIDE DEF m, b
  <2>2. /\ m \in FS!Listener /\ m.id = l.id /\ m.told = l.told /\ m.spoiled = l.spoiled
        /\ "audio" \in m.cut /\ ("video" \in m.cut <=> "video" \in l.cut)
        /\ m.firstVideo = l.firstVideo /\ m.video = l.video
        /\ m.firstKeyFrame = l.firstKeyFrame /\ m.unbroken = l.unbroken
    BY <1>1, <2>1 DEF FS!Listener, FS!Media
  <2>3. QED
    BY <2>2 DEF RightListener, m
<1>5. QED
  BY <1>2, <1>3, <1>4 DEF FS!Media

LEMMA WriterFailsStep ==
    ASSUME FS!StreamAssumption, FInv, NEW name \in Names, NEW p, NEW media \in FS!Media, NEW lost,
           FS!WriterFails(name, p, media, lost)
    PROVE  FInv'
<1> DEFINE l == publications[name].listeners[p]
           m == FS!Failed(l, media, lost)
           new == [publications EXCEPT ![name] =
                     [publications[name] EXCEPT !.listeners = [publications[name].listeners EXCEPT ![p] = m]]]
<1>1. name \in DOMAIN publications /\ p \in DOMAIN publications[name].listeners
  BY DEF FS!WriterFails, FS!Listens
<1>2. RightListener(l, publications[name])
  BY <1>1 DEF FInv, Agree, RightPublication
<1>3. /\ publications' = new
      /\ UNCHANGED <<streams, listenerCount, lent, strayed>> /\ failures' = failures + 1 /\ failures < MaxFailures
  BY DEF FS!WriterFails
<1>4. m \in FS!Listener /\ m.id = l.id /\ RightListener(m, publications[name])
  BY <1>2, FailedRight
<1> HIDE DEF m
<1>5. Agree(new, streams, listenerCount, lent, strayed) /\ UsedBut(new, {})
  BY <1>1, <1>4, WishStep
<1>6. failures' \in 0 .. MaxFailures
  BY <1>3 DEF FInv, FS!StreamAssumption
<1> HIDE DEF new
<1>7. QED
  BY <1>3, <1>5, <1>6 DEF FInv

LEMMA PlayStep ==
    ASSUME FS!StreamAssumption, FInv, NEW s \in Streams, NEW name \in Names, NEW accepted \in BOOLEAN, NEW read,
           FS!Play(s, name, accepted, read)
    PROVE  FInv'
<1> DEFINE free == FS!Disengage(s, read)
           left == [streams EXCEPT ![s] = FS!Idle]
           all == FS!Emplaced(free, name)
           n == listenerCount
           now == strayed \/ FS!Dangles(s)
           id == FS!Given(free, PeerOf[s], name, accepted)
           there == FS!Listens(free, PeerOf[s], name)
<1>1. /\ s \in DOMAIN streams /\ PeerOf[s] # Application /\ read \in FS!NamesRead(s) /\ id <= MaxListeners
      /\ listenerCount' = IF id > n THEN id ELSE n
      /\ lent' = IF there THEN lent \cup {id} ELSE lent
      /\ publications' = FS!Subscribe(free, PeerOf[s], name, FS!NewListener(id), accepted)
      /\ streams' = [streams EXCEPT ![s] = IF id = 0 THEN FS!Idle ELSE Playing(name, id)]
      /\ failures' = failures /\ strayed' = now
  BY DEF FS!Play, FS!Subscribed, FS!Client, FS!Uses, Playing
<1>2. Agree(free, left, n, lent, now) /\ UsedBut(free, {}) /\ s \in DOMAIN left /\ left[s] = FS!Idle
  BY <1>1, DisengageAgrees DEF FInv
<1>3. n \in Nat /\ MaxListeners \in Nat
  BY <1>2 DEF Agree, FS!StreamAssumption
<1>4. CASE there
  <2>1. id = free[name].listeners[PeerOf[s]].id /\ name \in DOMAIN free /\ PeerOf[s] \in DOMAIN free[name].listeners
    BY <1>4 DEF FS!Given, FS!Listens
  <2>2. publications' = free
    BY <1>1, <1>4 DEF FS!Subscribe
  <2> HIDE DEF free, id, now, there
  <2>3. id \in 1 .. n /\ Agree(free, [left EXCEPT ![s] = Playing(name, id)], n, lent \cup {id}, now)
    BY <1>1, <1>2, <2>1, LendAgrees
  <2>4. listenerCount' = n /\ streams' = [left EXCEPT ![s] = Playing(name, id)] /\ lent' = lent \cup {id}
    <3>1. id # 0 /\ ~(id > n)
      BY <1>3, <2>3
    <3>2. QED
      BY <1>1, <1>4, <3>1
  <2> HIDE DEF left
  <2>5. QED
    BY <1>1, <1>2, <2>2, <2>3, <2>4, Arrived
<1>5. ASSUME ~there
      PROVE  /\ Agree(all, left, n, lent, now) /\ UsedBut(all, {name}) /\ name \in DOMAIN all
             /\ PeerOf[s] \notin DOMAIN all[name].listeners
  BY <1>2, <1>5, EmplacedAgrees
<1>6. CASE ~there /\ accepted
  <2> DEFINE new == [all EXCEPT ![name] = FS!AddListener(all[name], PeerOf[s], FS!NewListener(n + 1))]
  <2>1. id = n + 1
    BY <1>6 DEF FS!Given
  <2>2. publications' = new
    BY <1>1, <1>6, <2>1 DEF FS!Subscribe
  <2> HIDE DEF free, all, id, now, there
  <2>3. /\ listenerCount' = n + 1 /\ streams' = [left EXCEPT ![s] = Playing(name, n + 1)] /\ lent' = lent
        /\ n < MaxListeners
    <3>1. id # 0 /\ id > n /\ n < MaxListeners
      BY <1>1, <1>3, <2>1
    <3>2. QED
      BY <1>1, <1>6, <2>1, <3>1
  <2> HIDE DEF left
  <2>4. Agree(new, [left EXCEPT ![s] = Playing(name, n + 1)], n + 1, lent, now) /\ UsedBut(new, {})
    BY <1>1, <1>2, <1>5, <1>6, <2>3, ListenAgrees
  <2> HIDE DEF new
  <2>5. QED
    BY <1>1, <2>2, <2>3, <2>4, Arrived
<1>7. CASE ~there /\ ~accepted
  <2>1. id = 0
    BY <1>7 DEF FS!Given
  <2>2. publications' = FS!Kept(all, name)
    BY <1>1, <1>7 DEF FS!Subscribe
  <2> HIDE DEF free, all, id, now, there
  <2>3. listenerCount' = n /\ streams' = left /\ lent' = lent
    BY <1>1, <1>3, <1>7, <2>1
  <2> HIDE DEF left
  <2>4. Agree(FS!Kept(all, name), left, n, lent, now) /\ UsedBut(FS!Kept(all, name), {})
    BY <1>5, <1>7, KeptAgrees
  <2>5. QED
    BY <1>1, <2>2, <2>3, <2>4, Arrived
<1>8. QED
  BY <1>4, <1>6, <1>7

LEMMA PublishStep ==
    ASSUME FS!StreamAssumption, FInv, NEW s \in Streams, NEW name \in Names, NEW accepted \in BOOLEAN, NEW read,
           FS!PublishStream(s, name, accepted, read)
    PROVE  FInv'
<1> DEFINE free == FS!Disengage(s, read)
           left == [streams EXCEPT ![s] = FS!Idle]
           all == FS!Emplaced(free, name)
           good == FS!CanPublish(free, name) /\ accepted
           now == strayed \/ FS!Dangles(s)
<1>1. /\ s \in DOMAIN streams /\ read \in FS!NamesRead(s)
      /\ publications' = FS!Publish(free, PeerOf[s], name, accepted)
      /\ streams' = [streams EXCEPT ![s] = IF good THEN Publishing(name) ELSE FS!Idle]
      /\ listenerCount' = listenerCount /\ failures' = failures /\ lent' = lent /\ strayed' = now
  BY DEF FS!PublishStream, FS!Client, FS!Uses, Publishing
<1>2. Agree(free, left, listenerCount, lent, now) /\ UsedBut(free, {}) /\ s \in DOMAIN left /\ left[s] = FS!Idle
  BY <1>1, DisengageAgrees DEF FInv
<1>3. /\ Agree(all, left, listenerCount, lent, now) /\ UsedBut(all, {name}) /\ name \in DOMAIN all
      /\ FS!CanPublish(free, name) => all[name].publisher = FS!NobodyPublishes
  BY <1>2, EmplacedAgrees
<1>4. CASE good
  <2> DEFINE new == [all EXCEPT ![name] = FS!Start(all[name], PeerOf[s])]
  <2>1. publications' = new
    BY <1>1, <1>4 DEF FS!Publish
  <2>2. streams' = [left EXCEPT ![s] = Publishing(name)]
    BY <1>1, <1>4
  <2>3. all[name].publisher = FS!NobodyPublishes
    BY <1>3, <1>4
  <2> HIDE DEF free, left, all, now
  <2>4. Agree(new, [left EXCEPT ![s] = Publishing(name)], listenerCount, lent, now) /\ UsedBut(new, {})
    BY <1>2, <1>3, <2>3, PublishAgrees
  <2> HIDE DEF new
  <2>5. QED
    BY <1>1, <2>1, <2>2, <2>4, Arrived
<1>5. CASE ~good
  <2>1. publications' = FS!Kept(all, name) /\ streams' = left
    BY <1>1, <1>5 DEF FS!Publish
  <2> HIDE DEF free, left, all, now
  <2>2. Agree(FS!Kept(all, name), left, listenerCount, lent, now) /\ UsedBut(FS!Kept(all, name), {})
    BY <1>3, KeptAgrees
  <2>3. QED
    BY <1>1, <2>1, <2>2, Arrived
<1>6. QED
  BY <1>4, <1>5

LEMMA AppPublishStep ==
    ASSUME FS!StreamAssumption, FInv, NEW s \in Streams, NEW name \in Names, NEW accepted \in BOOLEAN,
           FS!AppPublish(s, name, accepted)
    PROVE  FInv'
<1> DEFINE more == FS!With(streams, s, FS!Idle)
           all == FS!Emplaced(publications, name)
           good == FS!CanPublish(publications, name) /\ accepted
<1>1. /\ s \notin DOMAIN streams /\ PeerOf[s] = Application
      /\ publications' = FS!Publish(publications, PeerOf[s], name, accepted)
      /\ streams' = IF good THEN FS!With(streams, s, Publishing(name)) ELSE streams
      /\ listenerCount' = listenerCount /\ failures' = failures /\ lent' = lent /\ strayed' = strayed
  BY DEF FS!AppPublish, Publishing
<1>2. Agree(publications, streams, listenerCount, lent, strayed) /\ UsedBut(publications, {})
  BY DEF FInv
<1>3. CASE good
  <2> DEFINE new == [all EXCEPT ![name] = FS!Start(all[name], PeerOf[s])]
  <2>1. publications' = new
    BY <1>1, <1>3 DEF FS!Publish
  <2>2. /\ s \in DOMAIN more /\ more[s] = FS!Idle
        /\ FS!With(streams, s, Publishing(name)) = [more EXCEPT ![s] = Publishing(name)]
    BY DEF FS!With
  <2>3. Agree(publications, more, listenerCount, lent, strayed)
    BY <1>1, <1>2, AddedAgrees
  <2> HIDE DEF more
  <2>4. /\ Agree(all, more, listenerCount, lent, strayed) /\ UsedBut(all, {name}) /\ name \in DOMAIN all
        /\ all[name].publisher = FS!NobodyPublishes
    BY <1>2, <1>3, <2>3, EmplacedAgrees
  <2> HIDE DEF all
  <2>5. Agree(new, [more EXCEPT ![s] = Publishing(name)], listenerCount, lent, strayed) /\ UsedBut(new, {})
    BY <2>2, <2>4, PublishAgrees
  <2> HIDE DEF new
  <2>6. QED
    BY <1>1, <1>3, <2>1, <2>2, <2>5, Arrived
<1>4. CASE ~good
  <2>1. publications' = FS!Kept(all, name) /\ streams' = streams
    BY <1>1, <1>4 DEF FS!Publish
  <2>2. Agree(all, streams, listenerCount, lent, strayed) /\ UsedBut(all, {name}) /\ name \in DOMAIN all
    BY <1>2, EmplacedAgrees
  <2> HIDE DEF all
  <2>3. Agree(FS!Kept(all, name), streams, listenerCount, lent, strayed) /\ UsedBut(FS!Kept(all, name), {})
    BY <2>2, KeptAgrees
  <2>4. QED
    BY <1>1, <2>1, <2>3, Arrived
<1>5. QED
  BY <1>3, <1>4

-----------------------------------------------------------------------------
LEMMA StreamsInductive == FS!StreamAssumption => (FS!Spec => []FInv)
<1> SUFFICES ASSUME FS!StreamAssumption PROVE FS!Spec => []FInv
  OBVIOUS
<1>1. FS!Init => FInv
  <2> SUFFICES ASSUME FS!Init PROVE FInv
    OBVIOUS
  <2>1. DOMAIN publications = {} /\ DOMAIN streams = {} /\ listenerCount = 0 /\ failures = 0
    BY DEF FS!Init
  <2>2. Apart(streams) /\ Backed(publications, streams) /\ UsedBut(publications, {})
    BY <2>1 DEF Apart, Backed, UsedBut
  <2>3. Loans(publications, streams, listenerCount, lent, strayed)
    BY <2>1 DEF Loans, FS!Init
  <2>4. QED
    BY <2>1, <2>2, <2>3 DEF FInv, Agree, FS!StreamAssumption
<1>2. FInv /\ [FS!Next]_FS!vars => FInv'
  <2> SUFFICES ASSUME FInv, [FS!Next]_FS!vars PROVE FInv'
    OBVIOUS
  <2>1. CASE UNCHANGED FS!vars
    BY <2>1 DEF FS!vars, FInv
  <2>2. ASSUME NEW s \in Streams, NEW read \in Names \cup {"none"},
               \/ FS!CreateStream(s) \/ FS!DestroyStream(s, read) \/ FS!CloseStream(s, read) \/ FS!AppClose(s)
        PROVE  FInv'
    <3>1. FS!DestroyStream(s, read) => FInv'
      BY GoneStep DEF FS!DestroyStream, FS!Client, FS!Uses
    <3>2. QED
      BY <2>2, <3>1, CreateStep, CloseStep, AppCloseStep
  <2>3. ASSUME NEW s \in Streams,
               \/ FS!PushDataPacket(s)
               \/ \E f \in FS!VideoFrames(Versions), lost \in BOOLEAN : FS!PushVideoFrame(s, f, lost)
               \/ \E f \in FS!AudioFrames(Versions) : FS!PushAudioFrame(s, f)
        PROVE  FInv'
    BY <2>3, MediaStep
  <2>4. ASSUME NEW s \in Streams, NEW what \in {"receiveAudio", "receiveVideo"}, NEW value \in BOOLEAN,
               FS!Receive(s, what, value)
        PROVE  FInv'
    BY <2>4, ReceiveStep
  <2>5. ASSUME NEW s \in Streams, NEW name \in Names, NEW accepted \in BOOLEAN, NEW read \in Names \cup {"none"},
               \/ FS!Play(s, name, accepted, read) \/ FS!PublishStream(s, name, accepted, read)
               \/ FS!AppPublish(s, name, accepted)
        PROVE  FInv'
    BY <2>5, PlayStep, PublishStep, AppPublishStep
  <2>6. ASSUME NEW name \in Names, NEW p \in {PeerOf[s] : s \in Streams}, NEW media \in Failing,
               NEW lost \in {"nothing", "frames", "settings"}, FS!WriterFails(name, p, media, lost)
        PROVE  FInv'
    BY <2>6, WriterFailsStep DEF FS!StreamAssumption
  <2>7. QED
    BY <2>1, <2>2, <2>3, <2>4, <2>5, <2>6, Zenon DEF FS!Next
<1>3. QED
  BY <1>1, <1>2, PTL DEF FS!Spec

\* The state of FlashStream keeps its types, and a stream plays or publishes, never both.
THEOREM StreamTypeCorrect == FS!StreamAssumption => (FS!Spec => []FS!TypeOK)
<1> SUFFICES ASSUME FS!StreamAssumption PROVE FS!Spec => []FS!TypeOK
  OBVIOUS
<1>1. ASSUME FInv PROVE FS!TypeOK
  <2>1. Agree(publications, streams, listenerCount, lent, strayed) /\ failures \in 0 .. MaxFailures
    BY <1>1 DEF FInv
  <2>2. \A name \in DOMAIN publications :
            LET pub == publications[name] IN
            /\ pub.publisher \in {PeerOf[s] : s \in Streams} \cup {FS!NobodyPublishes}
            /\ pub.firstKeyFrame \in BOOLEAN
            /\ {pub.videoCodec, pub.audioCodec} \subseteq {0} \cup Versions
            /\ \A p \in DOMAIN pub.listeners : pub.listeners[p] \in FS!Listener
    BY <2>1 DEF Agree, RightPublication, RightListener, Parties
  <2>3. \A s \in DOMAIN streams :
            \/ streams[s] = FS!Idle
            \/ \E name \in Names : streams[s] = [FS!Idle EXCEPT !.publication = name]
            \/ \E name \in Names, id \in 1 .. MaxListeners :
                  streams[s] = [FS!Idle EXCEPT !.playing = name, !.listener = id]
    <3> SUFFICES ASSUME NEW s \in DOMAIN streams, streams[s] # FS!Idle
                 PROVE  \/ \E name \in Names : streams[s] = Publishing(name)
                        \/ \E name \in Names, id \in 1 .. MaxListeners : streams[s] = Playing(name, id)
      BY DEF Publishing, Playing
    <3>1. listenerCount \in 0 .. MaxListeners /\ MaxListeners \in Nat
      BY <2>1 DEF Agree, FS!StreamAssumption
    <3>2. 1 .. listenerCount \subseteq 1 .. MaxListeners /\ DOMAIN publications \subseteq Names
      BY <2>1, <3>1 DEF Agree
    <3>3. RightStream(s, streams[s], publications, listenerCount)
      BY <2>1 DEF Agree
    <3>4. QED
      BY <3>2, <3>3 DEF RightStream
  <2>4. QED
    BY <2>1, <2>2, <2>3 DEF FS!TypeOK, Agree, Loans
<1>2. QED
  BY <1>1, StreamsInductive, PTL

\* The instance counts as the library does.
LEMMA StreamsCardinality == \A S : FS!Cardinality(S) = Cardinality(S)
BY DEF FS!Cardinality, Cardinality, FS!IsFiniteSet, IsFiniteSet

\* FlashStream.cpp:35-56, Invoker.cpp:78-124, Publication.cpp:47-81: however streams are made,
\* closed and deleted, play and publish, and the application publishes and closes, a stream's
\* publication has its peer for publisher, its listener is there unless the client has played
\* the same publication by another stream too, and no publisher, listener or publication is
\* left when the stream that would stop it has gone.
THEOREM PointersCorrect == FS!StreamAssumption => (FS!Spec => []FS!PointersSound)
<1> SUFFICES ASSUME FS!StreamAssumption PROVE FS!Spec => []FS!PointersSound
  OBVIOUS
<1>1. ASSUME FInv PROVE FS!PointersSound
  <2>1. Agree(publications, streams, listenerCount, lent, strayed) /\ UsedBut(publications, {})
    BY <1>1 DEF FInv
  <2>2. FS!PointersAlive /\ FS!StrayedByLent
    <3>1. Loans(publications, streams, listenerCount, lent, strayed)
      BY <2>1 DEF Agree
    <3>2. QED
      BY <2>1, <3>1, StreamFacts, DanglesFacts DEF FS!PointersAlive, FS!StrayedByLent, Loans
  <2>3. FS!NothingLeftBehind
    <3> SUFFICES ASSUME NEW name \in DOMAIN publications
                 PROVE  LET pub == publications[name] IN
                        /\ pub.publisher # FS!NobodyPublishes \/ DOMAIN pub.listeners # {}
                        /\ pub.publisher # FS!NobodyPublishes =>
                              FS!Cardinality({s \in DOMAIN streams : streams[s].publication = name}) = 1
                        /\ \A p \in DOMAIN pub.listeners :
                              LET id == pub.listeners[p].id
                                  pointing == {s \in DOMAIN streams : streams[s].listener = id}
                              IN  pointing # {} /\ (id \notin lent => FS!Cardinality(pointing) = 1)
      BY DEF FS!NothingLeftBehind
    <3>1. InUse(publications[name])
      BY <2>1 DEF UsedBut
    <3>2. ASSUME publications[name].publisher # FS!NobodyPublishes
          PROVE  FS!Cardinality({s \in DOMAIN streams : streams[s].publication = name}) = 1
      <4>1. PICK s \in DOMAIN streams : streams[s].publication = name
        BY <2>1, <3>2 DEF Agree, Backed
      <4>2. name # "none"
        BY <2>1, Engaged DEF Agree
      <4>3. {x \in DOMAIN streams : streams[x].publication = name} = {s}
        BY <2>1, <4>1, <4>2 DEF Agree, Apart
      <4>4. QED
        BY <4>3, StreamsCardinality, FS_Singleton
    <3>3. ASSUME NEW p \in DOMAIN publications[name].listeners
          PROVE  LET id == publications[name].listeners[p].id
                     pointing == {s \in DOMAIN streams : streams[s].listener = id}
                 IN  pointing # {} /\ (id \notin lent => FS!Cardinality(pointing) = 1)
      <4> DEFINE id == publications[name].listeners[p].id
                 pointing == {s \in DOMAIN streams : streams[s].listener = id}
      <4>1. PICK s \in DOMAIN streams : streams[s].listener = id
        BY <2>1 DEF Agree, Backed
      <4>2. id # 0
        BY <2>1 DEF Agree, RightPublication, RightListener, FS!Listener, FS!StreamAssumption
      <4>3. id \notin lent => pointing = {s}
        BY <2>1, <4>1, <4>2 DEF Agree, Loans
      <4> HIDE DEF id
      <4>4. QED
        BY <4>1, <4>3, StreamsCardinality, FS_Singleton DEF id
    <3>4. QED
      BY <3>1, <3>2, <3>3 DEF InUse
  <2>4. QED
    BY <2>2, <2>3 DEF FS!PointersSound
<1>2. QED
  BY <1>1, StreamsInductive, PTL

\* Publication.cpp:47-217, Listener.cpp:123-236, RTMFPWriter.h:59-72: whatever a publisher loses,
\* is refused, republished or asked for meanwhile, a listener knows whether somebody publishes,
\* and is never written a frame without the key frame or the settings that it needs; when its
\* writer fails with frames or settings, this holds again from the next frame that it can begin
\* with, and of the other medium all the time.
THEOREM WatchableCorrect == FS!StreamAssumption => (FS!Spec => []FS!Watchable)
<1> SUFFICES ASSUME FS!StreamAssumption PROVE FS!Spec => []FS!Watchable
  OBVIOUS
<1>1. ASSUME FInv PROVE FS!Watchable
  <2>1. \A name \in DOMAIN publications : \A p \in DOMAIN publications[name].listeners :
            RightListener(publications[name].listeners[p], publications[name])
    BY <1>1 DEF FInv, Agree, RightPublication
  <2>2. QED
    BY <2>1, Zenon DEF RightListener, FS!Watchable, FS!ToldOfPublisher, FS!Decodable
<1>2. QED
  BY <1>1, StreamsInductive, PTL

-----------------------------------------------------------------------------
(* The relay server.  Its tables are compared entry by entry, since an operation  *)
(* changes few entries of each.                                                    *)

CONSTANTS Peers, LastPort, MaxRelays
VARIABLES relays, byPeer, sockets, relayable, turns, alive, created, corrupted

R == INSTANCE RelayServer

Ones(r) == {relays[r].first, relays[r].second}

\* A relay of a peer's exists and is between that peer and another, and an
\* address of a socket belongs to a relay on its port ...
RelayEntriesRight ==
    /\ \A p \in DOMAIN byPeer :
          /\ byPeer[p] # {}
          /\ \A r \in byPeer[p] : r \in DOMAIN relays /\ p \in Ones(r)
    /\ \A port \in DOMAIN sockets :
          /\ sockets[port] # <<>>
          /\ \A a \in DOMAIN sockets[port] :
                /\ sockets[port][a] \in DOMAIN relays
                /\ relays[sockets[port][a]].port = port
                /\ a \in R!Ends(sockets[port][a])

\* ... and a relay has its entries.
RelayEntriesThere ==
    \A r \in DOMAIN relays :
        /\ \A p \in Ones(r) : p \in DOMAIN byPeer /\ r \in byPeer[p]
        /\ relays[r].port \in DOMAIN sockets
        /\ \A a \in R!Ends(r) : /\ a \in DOMAIN sockets[relays[r].port]
                              /\ sockets[relays[r].port][a] = r

RelayableRight == relayable = DOMAIN byPeer /\ relayable \subseteq alive

RInv == R!TypeOK /\ RelayEntriesRight /\ RelayEntriesThere /\ RelayableRight /\ R!TurnsAreRelayed

-----------------------------------------------------------------------------
\* Entry by entry or as sets, the tables agree alike.
LEMMA EntriesAgree == RInv => R!RelaysSound
<1> SUFFICES ASSUME RInv PROVE R!TablesAgree
  BY DEF RInv, R!RelaysSound
<1> USE DEF RInv
<1>1. UNION R!Range(byPeer) = DOMAIN relays
  <2>1. ASSUME NEW r \in UNION R!Range(byPeer) PROVE r \in DOMAIN relays
    BY DEF R!Range, RelayEntriesRight
  <2>2. ASSUME NEW r \in DOMAIN relays PROVE r \in UNION R!Range(byPeer)
    <3>1. relays[r].first \in DOMAIN byPeer /\ r \in byPeer[relays[r].first]
      BY DEF RelayEntriesThere, Ones
    <3>2. QED
      BY <3>1 DEF R!Range
  <2>3. QED
    BY <2>1, <2>2
<1>2. {} \notin R!Range(byPeer)
  BY DEF R!Range, RelayEntriesRight
<1>3. relayable = DOMAIN byPeer /\ relayable \subseteq alive
  BY DEF RelayableRight
<1>4. ASSUME NEW r \in DOMAIN relays
      PROVE  /\ {p \in DOMAIN byPeer : r \in byPeer[p]} = {relays[r].first, relays[r].second}
             /\ relays[r].port \in DOMAIN sockets
  BY DEF RelayEntriesRight, RelayEntriesThere, Ones
<1>5. ASSUME NEW port \in DOMAIN sockets
      PROVE  /\ sockets[port] # <<>>
             /\ R!Range(sockets[port]) = {r \in DOMAIN relays : relays[r].port = port}
             /\ \A r \in R!Range(sockets[port]) :
                   {a \in DOMAIN sockets[port] : sockets[port][a] = r} = R!Ends(r)
  <2>1. sockets[port] # <<>>
    BY DEF RelayEntriesRight
  <2>2. ASSUME NEW r \in R!Range(sockets[port]) PROVE r \in DOMAIN relays /\ relays[r].port = port
    BY DEF R!Range, RelayEntriesRight
  <2>3. ASSUME NEW r \in DOMAIN relays, relays[r].port = port PROVE r \in R!Range(sockets[port])
    <3>1. relays[r].near \in DOMAIN sockets[port] /\ sockets[port][relays[r].near] = r
      BY <2>3 DEF RelayEntriesThere, R!Ends
    <3>2. QED
      BY <3>1 DEF R!Range
  <2>4. ASSUME NEW r \in R!Range(sockets[port])
        PROVE  {a \in DOMAIN sockets[port] : sockets[port][a] = r} = R!Ends(r)
    <3>1. r \in DOMAIN relays /\ relays[r].port = port
      BY <2>2
    <3>2. ASSUME NEW a \in DOMAIN sockets[port], sockets[port][a] = r PROVE a \in R!Ends(r)
      BY <3>2 DEF RelayEntriesRight
    <3>3. ASSUME NEW a \in R!Ends(r) PROVE a \in DOMAIN sockets[port] /\ sockets[port][a] = r
      BY <3>1 DEF RelayEntriesThere
    <3>4. QED
      BY <3>2, <3>3
  <2>5. QED
    BY <2>1, <2>2, <2>3, <2>4
<1>6. QED
  BY <1>1, <1>2, <1>3, <1>4, <1>5 DEF R!TablesAgree

LEMMA RelaysInit == R!Init => RInv
<1> SUFFICES ASSUME R!Init PROVE RInv
  OBVIOUS
<1>1. relays = <<>> /\ byPeer = <<>> /\ sockets = <<>> /\ created = 0 /\ turns = {}
      /\ relayable = {} /\ alive = Peers /\ corrupted = FALSE
  BY DEF R!Init
<1>2. DOMAIN relays = {} /\ DOMAIN byPeer = {} /\ DOMAIN sockets = {}
  BY <1>1
<1>3. R!Range(relays) = {} /\ R!Range(byPeer) = {}
  BY <1>2 DEF R!Range
<1>4. R!TypeOK
  BY <1>1, <1>2, <1>3 DEF R!TypeOK
<1>5. QED
  BY <1>1, <1>2, <1>4 DEF RInv, RelayEntriesRight, RelayEntriesThere, RelayableRight, R!TurnsAreRelayed

-----------------------------------------------------------------------------
(* What goes *)

\* Relays that are released leave their entries in no table.
LEMMA ReleaseSound ==
    ASSUME RInv, NEW gone \in SUBSET DOMAIN relays, R!Release(gone), UNCHANGED <<created, corrupted>>,
           alive' \subseteq alive, relayable' \subseteq alive'
    PROVE  RInv'
<1> USE DEF RInv
<1> DEFINE kept(port) == {a \in DOMAIN sockets[port] : sockets[port][a] \notin gone}
           idle == {p \in DOMAIN byPeer : byPeer[p] \subseteq gone}
<1>1. /\ DOMAIN relays' = DOMAIN relays \ gone
      /\ \A r \in DOMAIN relays' : relays'[r] = relays[r]
  BY DEF R!Release, R!Restrict
<1>2. /\ DOMAIN sockets' = {port \in DOMAIN sockets : kept(port) # {}}
      /\ \A port \in DOMAIN sockets' :
            /\ DOMAIN sockets'[port] = kept(port)
            /\ \A a \in kept(port) : sockets'[port][a] = sockets[port][a]
  BY DEF R!Release, R!Restrict
<1>3. /\ DOMAIN byPeer' = DOMAIN byPeer \ idle
      /\ \A p \in DOMAIN byPeer' : byPeer'[p] = byPeer[p] \ gone
  BY DEF R!Release
<1>4. relayable' = relayable \ idle /\ turns' = R!ReleasedTurns(gone)
  BY DEF R!Release
<1>5. R!TypeOK'
  <2>1. DOMAIN relays' \subseteq 1 .. created' /\ R!Range(relays') \subseteq R!Relay
    BY <1>1 DEF R!TypeOK, R!Range
  <2>2. DOMAIN byPeer' \subseteq Peers /\ R!Range(byPeer') \subseteq SUBSET (1 .. created')
    BY <1>3 DEF R!TypeOK, R!Range
  <2>3. DOMAIN sockets' \subseteq 1 .. LastPort
    BY <1>2 DEF R!TypeOK
  <2>4. ASSUME NEW port \in DOMAIN sockets'
        PROVE  DOMAIN sockets'[port] \subseteq Addresses /\ R!Range(sockets'[port]) \subseteq 1 .. created'
    <3>1. port \in DOMAIN sockets
      BY <1>2
    <3>2. DOMAIN sockets[port] \subseteq Addresses /\ R!Range(sockets[port]) \subseteq 1 .. created
      BY <3>1 DEF R!TypeOK
    <3>3. QED
      BY <1>2, <3>2 DEF R!Range
  <2>5. relayable' \subseteq Peers /\ alive' \subseteq Peers /\ turns' \subseteq Peers \X Peers
    BY <1>4 DEF R!TypeOK, R!ReleasedTurns
  <2>6. created' \in Nat /\ corrupted' \in BOOLEAN
    BY DEF R!TypeOK
  <2>7. QED
    BY <2>1, <2>2, <2>3, <2>4, <2>5, <2>6 DEF R!TypeOK
<1>6. RelayEntriesRight'
  <2>1. ASSUME NEW p \in DOMAIN byPeer'
        PROVE  /\ byPeer'[p] # {}
               /\ \A r \in byPeer'[p] : r \in DOMAIN relays' /\ p \in Ones(r)'
    BY <1>1, <1>3 DEF RelayEntriesRight, Ones
  <2>2. ASSUME NEW port \in DOMAIN sockets'
        PROVE  sockets'[port] # <<>>
    <3>1. DOMAIN sockets'[port] # {}
      BY <1>2
    <3>2. QED
      BY <3>1
  <2>3. ASSUME NEW port \in DOMAIN sockets', NEW a \in DOMAIN sockets'[port]
        PROVE  /\ sockets'[port][a] \in DOMAIN relays'
               /\ relays'[sockets'[port][a]].port = port
               /\ a \in R!Ends(sockets[port][a])'
               /\ sockets'[port][a] = sockets[port][a]
    <3> DEFINE r == sockets[port][a]
    <3>1. port \in DOMAIN sockets /\ a \in DOMAIN sockets[port] /\ r \notin gone /\ sockets'[port][a] = r
      BY <1>2
    <3>2. r \in DOMAIN relays /\ relays[r].port = port /\ a \in R!Ends(r)
      BY <3>1 DEF RelayEntriesRight
    <3>3. r \in DOMAIN relays' /\ relays'[r] = relays[r]
      BY <1>1, <3>1, <3>2
    <3>4. a \in {relays'[sockets'[port][a]].near, relays'[sockets'[port][a]].far}
      BY <3>1, <3>2, <3>3 DEF R!Ends
    <3>5. QED
      BY <3>1, <3>2, <3>3, <3>4 DEF R!Ends
  <2>4. QED
    BY <2>1, <2>2, <2>3 DEF RelayEntriesRight, R!Ends
<1>7. RelayEntriesThere'
  <2> SUFFICES ASSUME NEW r \in DOMAIN relays'
               PROVE  /\ \A p \in Ones(r)' : p \in DOMAIN byPeer' /\ r \in byPeer'[p]
                      /\ relays'[r].port \in DOMAIN sockets'
                      /\ \A a \in R!Ends(r)' : /\ a \in DOMAIN sockets'[relays'[r].port]
                                             /\ sockets'[relays'[r].port][a] = r
    BY DEF RelayEntriesThere
  <2>1. r \in DOMAIN relays /\ r \notin gone /\ relays'[r] = relays[r]
    BY <1>1
  <2>2. Ones(r)' = Ones(r) /\ R!Ends(r)' = R!Ends(r)
    BY <2>1 DEF Ones, R!Ends
  <2>3. ASSUME NEW p \in Ones(r) PROVE p \in DOMAIN byPeer' /\ r \in byPeer'[p]
    BY <1>3, <2>1 DEF RelayEntriesThere
  <2> DEFINE port == relays[r].port
  <2>4. port \in DOMAIN sockets /\ \A a \in R!Ends(r) : a \in kept(port) /\ sockets[port][a] = r
    BY <2>1 DEF RelayEntriesThere
  <2>5. port \in DOMAIN sockets'
    BY <1>2, <2>4 DEF R!Ends
  <2>6. QED
    BY <1>2, <2>1, <2>2, <2>3, <2>4, <2>5
<1>8. RelayableRight'
  BY <1>3, <1>4 DEF RelayableRight
<1>9. R!TurnsAreRelayed'
  <2> SUFFICES ASSUME NEW t \in turns' PROVE \E r \in DOMAIN relays' : relays'[r].received /\ t \in R!Between(r)'
    BY DEF R!TurnsAreRelayed
  <2>1. t \in turns /\ \A r \in gone : relays[r].received => t \notin R!Between(r)
    BY <1>4 DEF R!ReleasedTurns
  <2>2. PICK r \in DOMAIN relays : relays[r].received /\ t \in R!Between(r)
    BY <2>1 DEF R!TurnsAreRelayed
  <2>3. r \in DOMAIN relays' /\ relays'[r] = relays[r]
    BY <1>1, <2>1, <2>2
  <2>4. QED
    BY <2>2, <2>3 DEF R!Between
<1>10. QED
  BY <1>5, <1>6, <1>7, <1>8, <1>9

-----------------------------------------------------------------------------
(* What comes *)

\* A relay on a port that has neither of its addresses has its entries in
\* every table, and takes no other's.
LEMMA NewRelaySound ==
    ASSUME RInv, NEW port \in 1 .. LastPort, NEW p \in alive, NEW q \in alive,
           NEW a \in Addresses, NEW b \in Addresses, R!NewRelay(port, p, a, q, b),
           port \in DOMAIN sockets => R!CanHave(port, a, b)
    PROVE  RInv'
<1> USE DEF RInv
<1> DEFINE r == created + 1
           used == IF port \in DOMAIN sockets THEN sockets[port] ELSE <<>>
           new == [first |-> p, near |-> a, second |-> q, far |-> b,
                   port |-> port, received |-> FALSE, idle |-> FALSE]
<1>1. /\ created \in Nat /\ r \in Nat /\ r \in 1 .. r /\ 1 .. created \subseteq 1 .. r
      /\ r \notin 1 .. created /\ DOMAIN relays \subseteq 1 .. created /\ r \notin DOMAIN relays
      /\ p \in Peers /\ q \in Peers
  BY DEF R!TypeOK
<1>2. /\ DOMAIN relays' = DOMAIN relays \cup {r} /\ relays'[r] = new
      /\ \A x \in DOMAIN relays : relays'[x] = relays[x]
  BY <1>1 DEF R!NewRelay, R!With
<1>3. /\ DOMAIN byPeer' = DOMAIN byPeer \cup {p, q}
      /\ \A x \in {p, q} : byPeer'[x] = R!Of(x) \cup {r}
      /\ \A x \in DOMAIN byPeer \ {p, q} : byPeer'[x] = byPeer[x]
  BY DEF R!NewRelay, R!With
<1>4. /\ DOMAIN sockets' = DOMAIN sockets \cup {port}
      /\ \A x \in DOMAIN sockets \ {port} : sockets'[x] = sockets[x]
      /\ sockets'[port] = R!With(R!With(used, b, r), a, r)
  BY DEF R!NewRelay, R!With
<1>5. DOMAIN used \cap {a, b} = {}
      /\ \A x \in DOMAIN used : port \in DOMAIN sockets /\ x \in DOMAIN sockets[port] /\ used[x] = sockets[port][x]
  BY DEF R!CanHave
<1>6. /\ DOMAIN sockets'[port] = DOMAIN used \cup {a, b}
      /\ sockets'[port][a] = r /\ sockets'[port][b] = r
      /\ \A x \in DOMAIN used : sockets'[port][x] = used[x]
  BY <1>4, <1>5 DEF R!With
<1>7. /\ created' = r /\ relayable' = relayable \cup {p, q}
      /\ turns' = turns /\ alive' = alive /\ corrupted' = corrupted
  BY DEF R!NewRelay
<1>8. new \in R!Relay
  BY <1>1 DEF R!Relay
<1> HIDE DEF r, used
<1>9. R!TypeOK'
  <2>1. DOMAIN relays' \subseteq 1 .. created' /\ R!Range(relays') \subseteq R!Relay
    <3>1. \A x \in DOMAIN relays : relays[x] \in R!Relay
      BY DEF R!TypeOK, R!Range
    <3>2. \A x \in DOMAIN relays' : relays'[x] \in R!Relay
      BY <1>2, <1>8, <3>1
    <3>3. DOMAIN relays' \subseteq 1 .. created'
      BY <1>1, <1>2, <1>7
    <3>4. QED
      BY <3>2, <3>3 DEF R!Range
  <2>2. DOMAIN byPeer' \subseteq Peers /\ R!Range(byPeer') \subseteq SUBSET (1 .. created')
    <3>1. \A x \in DOMAIN byPeer : byPeer[x] \subseteq 1 .. created
      BY DEF R!TypeOK, R!Range
    <3>2. \A x \in DOMAIN byPeer' : byPeer'[x] \subseteq 1 .. r
      BY <1>1, <1>3, <3>1 DEF R!Of
    <3>3. DOMAIN byPeer' \subseteq Peers
      BY <1>1, <1>3 DEF R!TypeOK
    <3>4. QED
      BY <1>7, <3>2, <3>3 DEF R!Range
  <2>3. DOMAIN sockets' \subseteq 1 .. LastPort
    BY <1>4 DEF R!TypeOK
  <2>4. ASSUME NEW x \in DOMAIN sockets'
        PROVE  DOMAIN sockets'[x] \subseteq Addresses /\ R!Range(sockets'[x]) \subseteq 1 .. created'
    <3>1. \A y \in DOMAIN sockets : DOMAIN sockets[y] \subseteq Addresses
                                   /\ \A z \in DOMAIN sockets[y] : sockets[y][z] \in 1 .. created
      BY DEF R!TypeOK, R!Range
    <3>2. CASE x = port
      <4>1. DOMAIN sockets'[x] \subseteq Addresses
        BY <1>5, <1>6, <3>1, <3>2
      <4>2. \A z \in DOMAIN sockets'[x] : sockets'[x][z] \in 1 .. r
        BY <1>1, <1>5, <1>6, <3>1, <3>2
      <4>3. QED
        BY <1>7, <4>1, <4>2 DEF R!Range
    <3>3. CASE x # port
      <4>1. x \in DOMAIN sockets /\ sockets'[x] = sockets[x]
        BY <1>4, <3>3
      <4>2. QED
        BY <1>1, <1>7, <3>1, <4>1 DEF R!Range
    <3>4. QED
      BY <3>2, <3>3
  <2>5. QED
    BY <1>1, <1>7, <2>1, <2>2, <2>3, <2>4 DEF R!TypeOK
<1>10. RelayEntriesRight'
  <2>1. ASSUME NEW x \in DOMAIN byPeer'
        PROVE  /\ byPeer'[x] # {}
               /\ \A y \in byPeer'[x] : y \in DOMAIN relays' /\ x \in Ones(y)'
    <3>1. CASE x \in {p, q}
      <4>1. r \in byPeer'[x] /\ x \in {relays'[r].first, relays'[r].second}
        BY <1>2, <1>3, <3>1
      <4>2. ASSUME NEW y \in R!Of(x) PROVE y \in DOMAIN relays' /\ x \in {relays'[y].first, relays'[y].second}
        BY <1>2, <4>2 DEF R!Of, RelayEntriesRight, Ones
      <4>3. QED
        BY <1>2, <1>3, <3>1, <4>1, <4>2 DEF Ones
    <3>2. CASE x \notin {p, q}
      BY <1>2, <1>3, <3>2 DEF RelayEntriesRight, Ones
    <3>3. QED
      BY <3>1, <3>2
  <2>2. ASSUME NEW x \in DOMAIN sockets'
        PROVE  /\ sockets'[x] # <<>>
               /\ \A y \in DOMAIN sockets'[x] :
                     LET s == sockets'[x][y]
                     IN  s \in DOMAIN relays' /\ relays'[s].port = x /\ y \in {relays'[s].near, relays'[s].far}
    <3>1. CASE x = port
      <4>1. sockets'[x] # <<>>
        <5>1. a \in DOMAIN sockets'[x]
          BY <1>6, <3>1
        <5>2. QED
          BY <5>1
      <4>2. ASSUME NEW y \in DOMAIN used
            PROVE  LET s == sockets'[x][y]
                   IN  s \in DOMAIN relays' /\ relays'[s].port = x /\ y \in {relays'[s].near, relays'[s].far}
        <5>1. port \in DOMAIN sockets /\ y \in DOMAIN sockets[port] /\ sockets'[x][y] = sockets[port][y]
          BY <1>5, <1>6, <3>1
        <5>2. QED
          BY <1>2, <3>1, <5>1 DEF RelayEntriesRight, R!Ends
      <4>3. ASSUME NEW y \in {a, b}
            PROVE  LET s == sockets'[x][y]
                   IN  s \in DOMAIN relays' /\ relays'[s].port = x /\ y \in {relays'[s].near, relays'[s].far}
        BY <1>2, <1>6, <3>1
      <4>4. QED
        BY <1>6, <3>1, <4>1, <4>2, <4>3
    <3>2. CASE x # port
      <4>1. x \in DOMAIN sockets /\ sockets'[x] = sockets[x]
        BY <1>4, <3>2
      <4>2. QED
        BY <1>2, <4>1 DEF RelayEntriesRight, R!Ends
    <3>3. QED
      BY <3>1, <3>2
  <2>3. QED
    BY <2>1, <2>2 DEF RelayEntriesRight, R!Ends
<1>11. RelayEntriesThere'
  <2>1. ASSUME NEW y \in DOMAIN relays'
        PROVE  /\ \A x \in {relays'[y].first, relays'[y].second} : x \in DOMAIN byPeer' /\ y \in byPeer'[x]
               /\ relays'[y].port \in DOMAIN sockets'
               /\ \A x \in {relays'[y].near, relays'[y].far} :
                     /\ x \in DOMAIN sockets'[relays'[y].port]
                     /\ sockets'[relays'[y].port][x] = y
    <3>1. CASE y = r
      BY <1>2, <1>3, <1>4, <1>6, <3>1
    <3>2. CASE y # r
      <4>1. y \in DOMAIN relays /\ relays'[y] = relays[y]
        BY <1>2, <3>2
      <4>2. ASSUME NEW x \in Ones(y) PROVE x \in DOMAIN byPeer' /\ y \in byPeer'[x]
        <5>1. x \in DOMAIN byPeer /\ y \in byPeer[x]
          BY <4>1 DEF RelayEntriesThere
        <5>2. QED
          BY <1>3, <5>1 DEF R!Of
      <4>3. relays[y].port \in DOMAIN sockets
            /\ \A x \in R!Ends(y) : x \in DOMAIN sockets[relays[y].port] /\ sockets[relays[y].port][x] = y
        BY <4>1 DEF RelayEntriesThere
      <4>4. relays[y].port \in DOMAIN sockets'
        BY <1>4, <4>3
      <4>5. ASSUME NEW x \in R!Ends(y)
            PROVE  x \in DOMAIN sockets'[relays[y].port] /\ sockets'[relays[y].port][x] = y
        <5>1. CASE relays[y].port = port
          BY <1>5, <1>6, <4>3, <5>1 DEF used
        <5>2. CASE relays[y].port # port
          BY <1>4, <4>3, <5>2
        <5>3. QED
          BY <5>1, <5>2
      <4>6. QED
        BY <4>1, <4>2, <4>4, <4>5 DEF Ones, R!Ends
    <3>3. QED
      BY <3>1, <3>2
  <2>2. QED
    BY <2>1 DEF RelayEntriesThere, Ones, R!Ends
<1>12. RelayableRight'
  BY <1>3, <1>7 DEF RelayableRight
<1>13. R!TurnsAreRelayed'
  <2>1. ASSUME NEW t \in turns' PROVE \E x \in DOMAIN relays' : relays'[x].received /\ t \in R!Between(x)'
    <3>1. PICK x \in DOMAIN relays : relays[x].received /\ t \in R!Between(x)
      BY <1>7 DEF R!TurnsAreRelayed
    <3>2. x \in DOMAIN relays' /\ relays'[x] = relays[x]
      BY <1>2
    <3>3. QED
      BY <3>1, <3>2 DEF R!Between
  <2>2. QED
    BY <2>1 DEF R!TurnsAreRelayed
<1>14. QED
  BY <1>9, <1>10, <1>11, <1>12, <1>13

-----------------------------------------------------------------------------
(* Ports *)

\* The socket that add stops at is one of those it may stop at.
LEMMA LeastPort ==
    ASSUME NEW S, S \subseteq Nat, S # {}
    PROVE  R!Min(S) \in S
<1>1. \E x \in S : \A y \in S : x <= y
  BY LeastNumber
<1>2. QED
  BY <1>1 DEF R!Min

\* The port after the last one is of no socket.
LEMMA NextPortFree ==
    ASSUME R!RelayAssumption, NEW S \in SUBSET (1 .. LastPort), S # {}
    PROVE  R!Max(S) + 1 \in Nat \ {0} /\ R!Max(S) + 1 \notin S
<1>1. LastPort \in Nat
  BY DEF R!RelayAssumption
<1> DEFINE T == {n \in Nat : \E x \in S : n = LastPort - x}
<1>2. T \subseteq Nat /\ T # {}
  <2>1. PICK x \in S : TRUE
    OBVIOUS
  <2>2. LastPort - x \in Nat
    BY <1>1, <2>1
  <2>3. QED
    BY <2>2
<1>3. \A x \in S : LastPort - x \in T
  BY <1>1
<1> HIDE DEF T
<1>4. PICK n \in T : \A y \in T : n <= y
  BY <1>2, LeastNumber
<1>5. PICK x \in S : n = LastPort - x
  BY DEF T
<1>6. \A y \in S : x >= y
  <2> SUFFICES ASSUME NEW y \in S PROVE x >= y
    OBVIOUS
  <2>1. n <= LastPort - y
    BY <1>3, <1>4
  <2>2. QED
    BY <1>1, <1>5, <2>1
<1>7. R!Max(S) \in S /\ \A y \in S : R!Max(S) >= y
  BY <1>6 DEF R!Max
<1> DEFINE m == R!Max(S)
<1>8. m \in 1 .. LastPort /\ \A y \in S : m >= y
  BY <1>7
<1> HIDE DEF m
<1>9. m + 1 \in Nat \ {0} /\ m + 1 \notin S
  <2>1. m \in Nat
    BY <1>8
  <2>2. ~(m >= m + 1)
    BY <2>1
  <2>3. QED
    BY <1>8, <2>1, <2>2
<1>10. QED
  BY <1>9 DEF m

-----------------------------------------------------------------------------
(* Steps *)

\* add keeps the tables in agreement, on a socket that is there or a new one.
LEMMA AddSound ==
    ASSUME R!RelayAssumption, RInv, NEW p \in Peers, NEW a \in Addresses, NEW q \in Peers,
           NEW b \in Addresses, NEW bound \in BOOLEAN, R!Add(p, a, q, b, bound)
    PROVE  RInv'
<1> DEFINE next == IF DOMAIN sockets = {} THEN 1 ELSE R!Max(DOMAIN sockets) + 1
<1>1. p \in alive /\ q \in alive
  BY DEF R!Add
<1>2. DOMAIN sockets \subseteq 1 .. LastPort
  BY DEF RInv, R!TypeOK
<1>3. CASE R!Stops(a, b) # {}
  <2> DEFINE port == R!Min(R!Stops(a, b))
  <2>1. R!NewRelay(port, p, a, q, b) /\ ~R!Has(port, a, b)
    BY <1>3 DEF R!Add
  <2>2. R!Stops(a, b) \subseteq Nat
    BY <1>2 DEF R!Stops
  <2>3. port \in R!Stops(a, b)
    BY <1>3, <2>2, LeastPort
  <2> HIDE DEF port
  <2>4. port \in 1 .. LastPort /\ R!CanHave(port, a, b)
    BY <1>2, <2>1, <2>3 DEF R!Stops
  <2>5. QED
    BY <1>1, <2>1, <2>4, NewRelaySound
<1>4. CASE R!Stops(a, b) = {} /\ bound
  <2>1. next <= LastPort /\ R!NewRelay(next, p, a, q, b)
    BY <1>4 DEF R!Add
  <2>2. next \in Nat \ {0} /\ next \notin DOMAIN sockets
    <3>1. CASE DOMAIN sockets = {}
      BY <3>1
    <3>2. CASE DOMAIN sockets # {}
      <4>1. R!Max(DOMAIN sockets) + 1 \in Nat \ {0} /\ R!Max(DOMAIN sockets) + 1 \notin DOMAIN sockets
        BY <1>2, <3>2, NextPortFree
      <4>2. QED
        BY <3>2, <4>1
    <3>3. QED
      BY <3>1, <3>2
  <2> HIDE DEF next
  <2>3. next \in 1 .. LastPort
    BY <2>1, <2>2 DEF R!RelayAssumption
  <2>4. QED
    BY <1>1, <2>1, <2>2, <2>3, NewRelaySound
<1>5. CASE R!Stops(a, b) = {} /\ ~bound
  <2>1. /\ corrupted' = TRUE
        /\ UNCHANGED <<relays, byPeer, sockets, relayable, turns, alive, created>>
    BY <1>5 DEF R!Add
  <2>2. QED
    BY <2>1 DEF RInv, R!TypeOK, RelayEntriesRight, RelayEntriesThere, RelayableRight, R!TurnsAreRelayed,
                Ones, R!Ends, R!Between
<1>6. QED
  BY <1>3, <1>4, <1>5

\* A relay whose use is noted joins the same two peers and addresses.
LEMMA NotedSound ==
    ASSUME RInv, NEW r \in DOMAIN relays, NEW received \in BOOLEAN, NEW idle \in BOOLEAN,
           relays' = [relays EXCEPT ![r].received = received, ![r].idle = idle],
           relays[r].received => received,
           turns' \subseteq turns \cup (IF received THEN R!Between(r) ELSE {}),
           UNCHANGED <<byPeer, sockets, relayable, alive, created, corrupted>>
    PROVE  RInv'
<1> USE DEF RInv
<1>1. \A x \in DOMAIN relays : relays[x] \in R!Relay
  BY DEF R!TypeOK, R!Range
<1>2. /\ DOMAIN relays' = DOMAIN relays
      /\ \A x \in DOMAIN relays :
            /\ relays'[x] \in R!Relay
            /\ relays'[x].first = relays[x].first /\ relays'[x].second = relays[x].second
            /\ relays'[x].near = relays[x].near /\ relays'[x].far = relays[x].far
            /\ relays'[x].port = relays[x].port
            /\ relays[x].received => relays'[x].received
      /\ relays'[r].received = received
  BY <1>1 DEF R!Relay
<1>3. R!TypeOK'
  <2>1. DOMAIN relays' \subseteq 1 .. created' /\ R!Range(relays') \subseteq R!Relay
    BY <1>2 DEF R!TypeOK, R!Range
  <2>2. R!Between(r) \subseteq Peers \X Peers
    BY <1>1 DEF R!Between, R!Relay
  <2>3. turns' \subseteq Peers \X Peers
    BY <2>2 DEF R!TypeOK
  <2>4. QED
    BY <2>1, <2>3 DEF R!TypeOK
<1>4. RelayEntriesRight'
  BY <1>2 DEF RelayEntriesRight, Ones, R!Ends
<1>5. RelayEntriesThere'
  BY <1>2 DEF RelayEntriesThere, Ones, R!Ends
<1>6. RelayableRight'
  BY DEF RelayableRight
<1>7. R!TurnsAreRelayed'
  <2>1. ASSUME NEW t \in turns' PROVE \E x \in DOMAIN relays' : relays'[x].received /\ t \in R!Between(x)'
    <3>1. CASE t \in turns
      <4>1. PICK x \in DOMAIN relays : relays[x].received /\ t \in R!Between(x)
        BY <3>1 DEF R!TurnsAreRelayed
      <4>2. QED
        BY <1>2, <4>1 DEF R!Between
    <3>2. CASE t \notin turns
      <4>1. received /\ t \in R!Between(r)
        BY <3>2
      <4>2. QED
        BY <1>2, <4>1 DEF R!Between
    <3>3. QED
      BY <3>1, <3>2
  <2>2. QED
    BY <2>1 DEF R!TurnsAreRelayed
<1>8. QED
  BY <1>3, <1>4, <1>5, <1>6, <1>7

\* The end of a peer releases all its relays.
LEMMA RemoveSound ==
    ASSUME RInv, NEW p \in alive, R!Remove(p)
    PROVE  RInv'
<1>1. alive' = alive \ {p} /\ UNCHANGED <<created, corrupted>>
  BY DEF R!Remove
<1>2. CASE p \in relayable
  <2>1. R!Release(R!Of(p))
    BY <1>2 DEF R!Remove
  <2>2. R!Of(p) \in SUBSET DOMAIN relays
    BY DEF RInv, R!Of, RelayEntriesRight
  <2>3. relayable' \subseteq alive'
    <3>1. p \in DOMAIN byPeer /\ byPeer[p] \subseteq R!Of(p)
      BY <1>2 DEF RInv, RelayableRight, R!Of
    <3>2. p \notin relayable' /\ relayable' \subseteq relayable
      BY <2>1, <3>1 DEF R!Release
    <3>3. QED
      BY <1>1, <3>2 DEF RInv, RelayableRight
  <2>4. QED
    BY <1>1, <2>1, <2>2, <2>3, ReleaseSound
<1>3. CASE p \notin relayable
  <2>1. UNCHANGED <<relays, byPeer, sockets, relayable, turns>>
    BY <1>3 DEF R!Remove
  <2>2. relayable' \subseteq alive' /\ alive' \subseteq Peers
    BY <1>1, <1>3, <2>1 DEF RInv, RelayableRight, R!TypeOK
  <2>3. QED
    BY <1>1, <2>1, <2>2 DEF RInv, R!TypeOK, RelayEntriesRight, RelayEntriesThere, RelayableRight, R!TurnsAreRelayed,
                           Ones, R!Ends, R!Between
<1>4. QED
  BY <1>2, <1>3

LEMMA RelaysInductive == ASSUME R!RelayAssumption PROVE R!Spec => []RInv
<1>1. R!Init => RInv
  BY RelaysInit
<1>2. RInv /\ [R!Next]_R!vars => RInv'
  <2> SUFFICES ASSUME RInv, [R!Next]_R!vars PROVE RInv'
    OBVIOUS
  <2>1. ASSUME NEW p \in Peers, NEW q \in Peers, NEW a \in Addresses, NEW b \in Addresses,
               NEW bound \in BOOLEAN, R!Add(p, a, q, b, bound)
        PROVE  RInv'
    BY <2>1, AddSound
  <2>2. ASSUME NEW port \in DOMAIN sockets, NEW a \in DOMAIN sockets[port], R!Reception(port, a)
        PROVE  RInv'
    <3> DEFINE r == sockets[port][a]
    <3>1. r \in DOMAIN relays
      BY DEF RInv, RelayEntriesRight
    <3>2. /\ relays' = [relays EXCEPT ![r].received = TRUE, ![r].idle = FALSE]
          /\ turns' \subseteq turns \cup R!Between(r)
          /\ UNCHANGED <<byPeer, sockets, relayable, alive, created, corrupted>>
      BY <2>2 DEF R!Reception
    <3> HIDE DEF r
    <3>3. QED
      BY <3>1, <3>2, NotedSound
  <2>3. ASSUME NEW r \in DOMAIN relays, R!Idle(r) PROVE RInv'
    <3>1. relays[r] \in R!Relay
      BY DEF RInv, R!TypeOK, R!Range
    <3>2. /\ relays' = [relays EXCEPT ![r].received = relays[r].received, ![r].idle = TRUE]
          /\ relays[r].received \in BOOLEAN
      BY <2>3, <3>1 DEF R!Idle, R!Relay
    <3>3. turns' = turns /\ UNCHANGED <<byPeer, sockets, relayable, alive, created, corrupted>>
      BY <2>3 DEF R!Idle
    <3> DEFINE received == relays[r].received
    <3> HIDE DEF received
    <3>4. received \in BOOLEAN /\ relays' = [relays EXCEPT ![r].received = received, ![r].idle = TRUE]
          /\ (relays[r].received => received)
      BY <3>2 DEF received
    <3>5. QED
      BY <3>3, <3>4, NotedSound
  <2>4. CASE R!Manage
    <3> DEFINE gone == {r \in DOMAIN relays : relays[r].idle}
    <3>1. R!Release(gone) /\ UNCHANGED <<alive, created, corrupted>> /\ gone \in SUBSET DOMAIN relays
      BY <2>4 DEF R!Manage
    <3>2. relayable' \subseteq alive' /\ alive' \subseteq alive
      BY <3>1 DEF RInv, RelayableRight, R!Release
    <3> HIDE DEF gone
    <3>3. QED
      BY <3>1, <3>2, ReleaseSound
  <2>5. CASE R!Stop
    <3>1. R!Release(DOMAIN relays) /\ UNCHANGED <<alive, created, corrupted>>
      BY <2>5 DEF R!Stop
    <3>2. relayable' \subseteq alive' /\ alive' \subseteq alive
      BY <3>1 DEF RInv, RelayableRight, R!Release
    <3>3. QED
      BY <3>1, <3>2, ReleaseSound
  <2>6. ASSUME NEW p \in alive, R!Remove(p) PROVE RInv'
    BY <2>6, RemoveSound
  <2>7. CASE UNCHANGED R!vars
    BY <2>7 DEF R!vars, RInv, R!TypeOK, RelayEntriesRight, RelayEntriesThere, RelayableRight, R!TurnsAreRelayed,
                Ones, R!Ends, R!Between
  <2>8. QED
    BY <2>1, <2>2, <2>3, <2>4, <2>5, <2>6, <2>7 DEF R!Next
<1>3. QED
  BY <1>1, <1>2, PTL DEF R!Spec

\* The tables of RelayServer keep their types.
THEOREM RelaysTypeCorrect == ASSUME R!RelayAssumption PROVE R!Spec => []R!TypeOK
<1>1. RInv => R!TypeOK
  BY DEF RInv
<1>2. QED
  BY <1>1, RelaysInductive, PTL

\* RelayServer.cpp:124-253: however relays are added, used, left idle, released
\* or stopped, its four tables name the same relays, a socket's port serves no
\* address twice, and turn peers have a relay that was used.
THEOREM RelaysCorrect == ASSUME R!RelayAssumption PROVE R!Spec => []R!RelaysSound
<1>1. QED
  BY RelaysInductive, EntriesAgree, PTL

-----------------------------------------------------------------------------
(* The groups of peers.  A member's own table and the group's say the same,  *)
(* but for what the member that leaves has left and not forgotten; and what  *)
(* keeps the writers open is that a flow that ends takes along the group its *)
(* stream points to, which is the only one that is known by its writer and   *)
(* that was not left behind.                                                  *)

CONSTANTS Clients, Virtual, Groups, Flows, Neighbours, MaxOpen
VARIABLES groups, memberOf, joined, leaving, told, abandoned, crashed

G == INSTANCE PeerGroup

\* What the tables hold.
GroupTables ==
    /\ DOMAIN groups \subseteq Groups /\ \A g \in DOMAIN groups : groups[g] \subseteq G!Members
    /\ DOMAIN memberOf = G!Members
    /\ \A m \in G!Members : /\ DOMAIN memberOf[m] \subseteq Groups
                            /\ \A g \in DOMAIN memberOf[m] : memberOf[m][g] \in Flows \cup {0, -1}
    /\ DOMAIN joined \subseteq Clients \X Flows
    /\ \A k \in DOMAIN joined : joined[k] \in Groups \cup {G!NoGroup, G!DeletedGroup}
    /\ abandoned \subseteq Clients \X Groups /\ crashed \in BOOLEAN
    /\ told \subseteq Groups \X G!Members \X G!Members

LeaverShape ==
    leaving \in [member : G!Members \cup {0}, todo : SUBSET Groups, left : SUBSET Groups,
                 flow : Flows \cup {0}, group : Groups \cup {G!NoGroup}, next : G!Members \cup {0}]

\* A member that leaves is in what it has to leave and in what it has left, which are
\* all of its groups, or those known by the writer of the flow that ends.
LeaverRight ==
    LET m == leaving.member IN
    /\ m = 0 => leaving = G!Staying
    /\ m # 0 => /\ leaving.todo \cup leaving.left \subseteq DOMAIN memberOf[m]
                /\ leaving.todo \cap leaving.left = {}
                /\ leaving.flow = 0 => leaving.todo \cup leaving.left = DOMAIN memberOf[m]
                /\ leaving.flow # 0 => /\ m \in Clients
                                       /\ \A g \in DOMAIN memberOf[m] : memberOf[m][g] = leaving.flow =>
                                              \/ g \in leaving.todo \cup leaving.left
                                              \/ <<m, g>> \in abandoned
                /\ m \in Virtual => DOMAIN memberOf[m] # {}
    /\ leaving.group # G!NoGroup => /\ leaving.group \in DOMAIN groups /\ leaving.group \in leaving.left
                                    /\ leaving.next # 0 => leaving.next \in groups[leaving.group]

Forgets(m, g) == m = leaving.member /\ g \in leaving.left

\* The flow whose writer a group is known by points to that group, but when the
\* group is being left, or was left behind.
Known(c, g) ==
    LET k == <<c, memberOf[c][g]>> IN
    /\ memberOf[c][g] \in Flows /\ k \in DOMAIN joined
    /\ Forgets(c, g) \/ joined[k] = g
KnownByFlow ==
    \A c \in Clients : \A g \in DOMAIN memberOf[c] : <<c, g>> \in abandoned \/ Known(c, g)

Mutual ==
    /\ \A m \in G!Members, g \in Groups :
           m \in G!MembersIn(g) <=> (g \in DOMAIN memberOf[m] /\ ~Forgets(m, g))
    /\ \A g \in DOMAIN groups : g # leaving.group => groups[g] # {}

GInv == GroupTables /\ LeaverShape /\ LeaverRight /\ KnownByFlow /\ Mutual /\ G!ToldOfMembers
        /\ G!CrashesOnlySo

-----------------------------------------------------------------------------
\* The members of a group that one joins, and those of the others.
LEMMA JoinedGroup ==
    ASSUME NEW g \in Groups, NEW m, groups' = G!With(groups, g, G!MembersIn(g) \cup {m})
    PROVE  /\ G!MembersIn(g)' = G!MembersIn(g) \cup {m}
           /\ \A h : h # g => G!MembersIn(h)' = G!MembersIn(h)
           /\ DOMAIN groups' = DOMAIN groups \cup {g}
           /\ \A h \in DOMAIN groups' : groups'[h] = G!MembersIn(h)'
<1>1. /\ DOMAIN groups' = DOMAIN groups \cup {g} /\ groups'[g] = G!MembersIn(g) \cup {m}
      /\ \A h \in DOMAIN groups : h # g => groups'[h] = groups[h]
  BY DEF G!With
<1>2. QED
  BY <1>1 DEF G!MembersIn

LEMMA GroupInit == G!GroupAssumption /\ G!Init => GInv
<1> SUFFICES ASSUME G!GroupAssumption, G!Init PROVE GInv
  OBVIOUS
<1> USE DEF G!Init, G!NoGroup
<1>1. GroupTables
  <2>1. DOMAIN groups = {} /\ DOMAIN joined = {} /\ told = {} /\ crashed = FALSE /\ abandoned = {}
    OBVIOUS
  <2>2. DOMAIN memberOf = G!Members /\ \A m \in G!Members : DOMAIN memberOf[m] = {}
    OBVIOUS
  <2>3. QED
    BY <2>1, <2>2 DEF GroupTables
<1>2. LeaverShape /\ LeaverRight
  BY DEF LeaverShape, LeaverRight, G!Staying
<1>3. KnownByFlow
  BY DEF KnownByFlow, G!Members
<1>4. Mutual
  BY DEF Mutual, G!MembersIn
<1>5. G!ToldOfMembers
  BY DEF G!ToldOfMembers
<1>6. QED
  BY <1>1, <1>2, <1>3, <1>4, <1>5 DEF GInv, G!CrashesOnlySo

-----------------------------------------------------------------------------
\* Who is told of others, and of whom, is told of them.
LEMMA ToldRight ==
    ASSUME NEW g \in Groups, NEW who, NEW of, G!Tells(g, who, of),
           who \subseteq G!MembersIn(g)', of \subseteq G!MembersIn(g)', who \cap of = {},
           G!MembersIn(g)' \subseteq G!Members
    PROVE  /\ G!ToldOfMembers' /\ crashed' \in BOOLEAN
           /\ told' \subseteq Groups \X G!Members \X G!Members
<1>1. told' = {<<g, w, o>> : w \in who, o \in of} /\ crashed' = \E w \in who : memberOf[w][g] \in {0, -1}
  BY DEF G!Tells, G!NullWriter, G!DeletedWriter
<1>2. told' \subseteq Groups \X G!Members \X G!Members
  BY <1>1
<1>3. ASSUME NEW t \in told' PROVE t[2] # t[3] /\ {t[2], t[3]} \subseteq G!MembersIn(t[1])'
  <2>1. PICK w \in who, o \in of : t = <<g, w, o>>
    BY <1>1
  <2>2. t[1] = g /\ t[2] = w /\ t[3] = o
    BY <2>1
  <2>3. QED
    BY <2>2
<1>4. QED
  BY <1>1, <1>2, <1>3 DEF G!ToldOfMembers

\* Of those who are told, only a member of the application, or one that left the group
\* behind, has no writer.
LEMMA CrashesSo ==
    ASSUME G!GroupAssumption, GInv, NEW g \in Groups, NEW who, NEW of, G!Tells(g, who, of), who \subseteq G!MembersIn(g)
    PROVE  crashed' => abandoned # {} \/ \E m \in Virtual : DOMAIN memberOf[m] # {}
<1>1. G!MembersIn(g) \subseteq G!Members
  BY DEF GInv, GroupTables, G!MembersIn
<1>2. crashed' = \E w \in who : memberOf[w][g] \in {0, -1}
  BY DEF G!Tells, G!NullWriter, G!DeletedWriter
<1>3. \A w \in who : w \in G!Members /\ g \in DOMAIN memberOf[w]
  BY <1>1 DEF GInv, Mutual
<1>4. \A w \in who : w \in Clients => <<w, g>> \in abandoned \/ memberOf[w][g] \in Flows
  BY <1>3 DEF GInv, KnownByFlow, Known
<1>5. Flows \cap {0, -1} = {}
  BY DEF G!GroupAssumption
<1>6. QED
  BY <1>2, <1>3, <1>4, <1>5 DEF G!Members

LEMMA TellsNobody ==
    ASSUME told' = {} PROVE G!ToldOfMembers'
BY DEF G!ToldOfMembers

\* A client joins a group by a flow.
LEMMA JoinGroupKeeps ==
    ASSUME G!GroupAssumption, GInv, NEW c \in Clients, NEW f \in Flows, NEW g \in Groups, G!JoinGroup(c, f, g)
    PROVE  GInv'
<1> USE DEF G!Members
<1>1. /\ leaving = G!Staying /\ leaving.member = 0 /\ leaving.left = {} /\ leaving.group = G!NoGroup
      /\ leaving' = leaving /\ crashed' = crashed /\ ~crashed
      /\ <<c, f>> \in DOMAIN joined
      /\ abandoned' = (abandoned \ ({c} \X G!Rejoins(c, f, g))) \cup ({c} \X G!Abandons(c, f, g))
      /\ joined' = [joined EXCEPT ![<<c, f>>] = g]
  BY DEF G!JoinGroup, G!Staying
<1>2. c \in G!Members /\ c # 0 /\ f # 0 /\ G!NoGroup \notin Groups
  BY DEF G!GroupAssumption, G!NoGroup
<1>3. /\ G!MembersIn(g)' = G!MembersIn(g) \cup {c}
      /\ \A h : h # g => G!MembersIn(h)' = G!MembersIn(h)
      /\ DOMAIN groups' = DOMAIN groups \cup {g}
      /\ \A h \in DOMAIN groups' : groups'[h] = G!MembersIn(h)'
  BY JoinedGroup DEF G!JoinGroup
<1>4. /\ DOMAIN memberOf' = G!Members
      /\ \A m \in G!Members : m # c => memberOf'[m] = memberOf[m]
      /\ DOMAIN memberOf'[c] = DOMAIN memberOf[c] \cup {g}
      /\ \A h \in DOMAIN memberOf[c] : memberOf'[c][h] = memberOf[c][h]
      /\ g \notin DOMAIN memberOf[c] => memberOf'[c][g] = f
  <2>1. CASE g \in DOMAIN memberOf[c]
    BY <2>1 DEF G!JoinGroup, GInv, GroupTables
  <2>2. CASE g \notin DOMAIN memberOf[c]
    <3>1. memberOf' = [memberOf EXCEPT ![c] = G!With(memberOf[c], g, f)] /\ DOMAIN memberOf = G!Members
      BY <2>2 DEF G!JoinGroup, GInv, GroupTables
    <3>2. memberOf'[c] = G!With(memberOf[c], g, f)
      BY <1>2, <3>1
    <3>3. QED
      BY <2>2, <3>1, <3>2 DEF G!With
  <2>3. QED
    BY <2>1, <2>2
<1>5. \A h : G!MembersIn(h)' \subseteq G!Members
  BY <1>2, <1>3 DEF GInv, GroupTables, G!MembersIn
<1>6. told' \subseteq Groups \X G!Members \X G!Members /\ G!ToldOfMembers'
  <2>1. told' = {<<g, c, m>> : m \in G!LastMembers(g, c)}
    BY DEF G!JoinGroup
  <2>2. G!LastMembers(g, c) \subseteq G!MembersIn(g) \ {c}
    BY DEF G!LastMembers
  <2>3. told' \subseteq Groups \X G!Members \X G!Members
    BY <1>2, <1>3, <1>5, <2>1, <2>2
  <2>4. ASSUME NEW t \in told' PROVE t[2] # t[3] /\ {t[2], t[3]} \subseteq G!MembersIn(t[1])'
    <3>1. PICK m \in G!LastMembers(g, c) : t = <<g, c, m>>
      BY <2>1
    <3>2. t[1] = g /\ t[2] = c /\ t[3] = m
      BY <3>1
    <3>3. QED
      BY <1>3, <2>2, <3>2
  <2>5. QED
    BY <2>3, <2>4 DEF G!ToldOfMembers
<1>7. GroupTables'
  <2>1. DOMAIN groups' \subseteq Groups /\ \A h \in DOMAIN groups' : groups'[h] \subseteq G!Members
    BY <1>3, <1>5 DEF GInv, GroupTables
  <2>2. \A m \in G!Members : /\ DOMAIN memberOf'[m] \subseteq Groups
                             /\ \A h \in DOMAIN memberOf'[m] : memberOf'[m][h] \in Flows \cup {0, -1}
    BY <1>4 DEF GInv, GroupTables
  <2>3. DOMAIN joined' \subseteq Clients \X Flows /\ \A k \in DOMAIN joined' : joined'[k] \in Groups \cup {G!NoGroup, G!DeletedGroup}
    BY <1>1 DEF GInv, GroupTables
  <2>4. abandoned' \subseteq Clients \X Groups
    BY <1>1 DEF GInv, GroupTables, G!Abandons
  <2>5. QED
    BY <1>1, <1>4, <1>6, <2>1, <2>2, <2>3, <2>4 DEF GInv, GroupTables
<1>8. LeaverShape' /\ LeaverRight'
  BY <1>1 DEF GInv, LeaverShape, LeaverRight, G!Staying
<1>9. KnownByFlow'
  <2> SUFFICES ASSUME NEW d \in Clients, NEW h \in DOMAIN memberOf'[d], <<d, h>> \notin abandoned' PROVE Known(d, h)'
    BY DEF KnownByFlow
  <2> DEFINE k == <<d, memberOf'[d][h]>>
  <2>1. DOMAIN joined' = DOMAIN joined /\ joined'[<<c, f>>] = g /\ \A j \in DOMAIN joined : j # <<c, f>> => joined'[j] = joined[j]
    BY <1>1
  <2>2. CASE d = c /\ h \notin DOMAIN memberOf[c]
    BY <1>1, <1>4, <2>1, <2>2 DEF Known
  <2>3. CASE ~(d = c /\ h \notin DOMAIN memberOf[c])
    <3>1. h \in DOMAIN memberOf[d] /\ memberOf'[d][h] = memberOf[d][h]
      BY <1>4, <2>3
    <3>2. CASE d = c /\ h = g /\ memberOf[c][g] = f
      BY <1>1, <2>1, <3>1, <3>2 DEF Known
    <3>3. CASE ~(d = c /\ h = g /\ memberOf[c][g] = f)
      <4>1. <<d, h>> \notin abandoned
        BY <1>1, <3>3 DEF G!Rejoins
      <4>2. memberOf[d][h] \in Flows /\ k \in DOMAIN joined /\ joined[k] = h
        BY <1>1, <3>1, <4>1 DEF GInv, KnownByFlow, Known, Forgets
      <4>3. k = <<c, f>> => h = g
        BY <1>1, <1>4, <3>1, <4>2 DEF G!Abandons
      <4>4. joined'[k] = h
        BY <2>1, <4>2, <4>3
      <4>5. QED
        BY <1>4, <2>1, <3>1, <4>2, <4>4 DEF Known
    <3>4. QED
      BY <3>2, <3>3
  <2>4. QED
    BY <2>2, <2>3
<1>10. Mutual'
  <2>1. ASSUME NEW m \in G!Members, NEW h \in Groups
        PROVE  m \in G!MembersIn(h)' <=> (h \in DOMAIN memberOf'[m] /\ ~Forgets(m, h)')
    <3>1. ~Forgets(m, h) /\ ~Forgets(m, h)'
      BY <1>1 DEF Forgets
    <3>2. m \in G!MembersIn(h) <=> h \in DOMAIN memberOf[m]
      BY <3>1 DEF GInv, Mutual
    <3>3. CASE m = c /\ h = g
      BY <1>3, <1>4, <3>1, <3>3
    <3>4. CASE ~(m = c /\ h = g)
      <4>1. m \in G!MembersIn(h)' <=> m \in G!MembersIn(h)
        BY <1>3, <3>4
      <4>2. h \in DOMAIN memberOf'[m] <=> h \in DOMAIN memberOf[m]
        BY <1>4, <3>4
      <4>3. QED
        BY <3>1, <3>2, <4>1, <4>2
    <3>5. QED
      BY <3>3, <3>4
  <2>2. \A h \in DOMAIN groups' : groups'[h] # {}
    <3>1. \A h \in DOMAIN groups : h # g => groups'[h] = groups[h] /\ groups[h] # {}
      BY <1>1, <1>2, <1>3 DEF GInv, Mutual, G!MembersIn, GroupTables
    <3>2. QED
      BY <1>3, <3>1
  <2>3. QED
    BY <1>1, <2>1, <2>2 DEF Mutual
<1>11. QED
  BY <1>1, <1>6, <1>7, <1>8, <1>9, <1>10 DEF GInv, G!CrashesOnlySo

\* A member of the application joins a group, whoever else may be leaving.
LEMMA JoinVirtualKeeps ==
    ASSUME G!GroupAssumption, GInv, NEW m \in Virtual, NEW g \in Groups, G!JoinVirtual(m, g)
    PROVE  GInv'
<1> USE DEF G!Members
<1>1. /\ DOMAIN memberOf[m] = {} /\ UNCHANGED <<joined, leaving, abandoned>>
      /\ G!Tells(g, G!LastMembers(g, m), {m})
  BY DEF G!JoinVirtual
<1>2. /\ m \in G!Members /\ m # 0 /\ m \notin Clients /\ G!NoGroup \notin Groups
      /\ m # leaving.member
  BY <1>1 DEF G!GroupAssumption, G!NoGroup, GInv, LeaverRight
<1>3. /\ G!MembersIn(g)' = G!MembersIn(g) \cup {m}
      /\ \A h : h # g => G!MembersIn(h)' = G!MembersIn(h)
      /\ DOMAIN groups' = DOMAIN groups \cup {g}
      /\ \A h \in DOMAIN groups' : groups'[h] = G!MembersIn(h)'
  BY JoinedGroup DEF G!JoinVirtual
<1>4. /\ DOMAIN memberOf' = G!Members
      /\ \A x \in G!Members : x # m => memberOf'[x] = memberOf[x]
      /\ DOMAIN memberOf'[m] = {g} /\ memberOf'[m][g] = 0
  <2>1. memberOf' = [memberOf EXCEPT ![m] = G!With(memberOf[m], g, 0)] /\ DOMAIN memberOf = G!Members
    BY DEF G!JoinVirtual, GInv, GroupTables, G!NullWriter
  <2>2. memberOf'[m] = G!With(memberOf[m], g, 0)
    BY <1>2, <2>1
  <2>3. QED
    BY <1>1, <2>1, <2>2 DEF G!With
<1>5. \A h : G!MembersIn(h)' \subseteq G!Members
  BY <1>2, <1>3 DEF GInv, GroupTables, G!MembersIn
<1>6. told' \subseteq Groups \X G!Members \X G!Members /\ G!ToldOfMembers' /\ crashed' \in BOOLEAN
  <2>1. G!LastMembers(g, m) \subseteq G!MembersIn(g) \ {m}
    BY DEF G!LastMembers
  <2>2. G!LastMembers(g, m) \subseteq G!MembersIn(g)' /\ {m} \subseteq G!MembersIn(g)'
        /\ G!LastMembers(g, m) \cap {m} = {}
    BY <1>3, <2>1
  <2>3. QED
    BY <1>1, <1>5, <2>2, ToldRight
<1>7. GroupTables'
  <2>1. DOMAIN groups' \subseteq Groups /\ \A h \in DOMAIN groups' : groups'[h] \subseteq G!Members
    BY <1>3, <1>5 DEF GInv, GroupTables
  <2>2. \A x \in G!Members : /\ DOMAIN memberOf'[x] \subseteq Groups
                             /\ \A h \in DOMAIN memberOf'[x] : memberOf'[x][h] \in Flows \cup {0, -1}
    BY <1>4 DEF GInv, GroupTables
  <2>3. QED
    BY <1>1, <1>4, <1>6, <2>1, <2>2 DEF GInv, GroupTables
<1>8. LeaverShape' /\ LeaverRight'
  <2>1. LeaverShape'
    BY <1>1 DEF GInv, LeaverShape
  <2>2. leaving.member # 0 => /\ leaving.member \in G!Members
                              /\ memberOf'[leaving.member] = memberOf[leaving.member]
    BY <1>2, <1>4 DEF GInv, LeaverShape
  <2>3. leaving.group # G!NoGroup => /\ leaving.group \in DOMAIN groups'
                                     /\ groups[leaving.group] \subseteq groups'[leaving.group]
    BY <1>3 DEF GInv, LeaverRight, G!MembersIn
  <2>4. LeaverRight'
    BY <1>1, <2>2, <2>3 DEF GInv, LeaverRight
  <2>5. QED
    BY <2>1, <2>4
<1>9. KnownByFlow'
  <2>1. ASSUME NEW c \in Clients, NEW h \in DOMAIN memberOf'[c], <<c, h>> \notin abandoned'
        PROVE  Known(c, h)'
    <3>1. memberOf'[c] = memberOf[c] /\ UNCHANGED <<joined, leaving, abandoned>>
      BY <1>1, <1>2, <1>4
    <3>2. Known(c, h)
      BY <2>1, <3>1 DEF GInv, KnownByFlow
    <3>3. QED
      BY <3>1, <3>2 DEF Known, Forgets
  <2>2. QED
    BY <2>1 DEF KnownByFlow
<1>10. Mutual'
  <2>1. ASSUME NEW x \in G!Members, NEW h \in Groups
        PROVE  x \in G!MembersIn(h)' <=> (h \in DOMAIN memberOf'[x] /\ ~Forgets(x, h)')
    <3>1. Forgets(x, h)' <=> Forgets(x, h)
      BY <1>1 DEF Forgets
    <3>2. x \in G!MembersIn(h) <=> (h \in DOMAIN memberOf[x] /\ ~Forgets(x, h))
      BY DEF GInv, Mutual
    <3>3. CASE x = m
      <4>1. ~Forgets(x, h) /\ x \notin G!MembersIn(h)
        BY <1>1, <1>2, <3>2, <3>3 DEF Forgets
      <4>2. QED
        BY <1>3, <1>4, <3>1, <3>3, <4>1
    <3>4. CASE x # m
      <4>1. x \in G!MembersIn(h)' <=> x \in G!MembersIn(h)
        BY <1>3, <3>4
      <4>2. QED
        BY <1>4, <3>1, <3>2, <3>4, <4>1
    <3>5. QED
      BY <3>3, <3>4
  <2>2. \A h \in DOMAIN groups' : h # leaving'.group => groups'[h] # {}
    <3>1. \A h \in DOMAIN groups : h # g => groups'[h] = groups[h]
      BY <1>3 DEF G!MembersIn
    <3>2. QED
      BY <1>1, <1>3, <3>1 DEF GInv, Mutual
  <2>3. QED
    BY <2>1, <2>2 DEF Mutual
<1>11. G!CrashesOnlySo'
  BY <1>4 DEF G!CrashesOnlySo
<1>12. QED
  BY <1>6, <1>7, <1>8, <1>9, <1>10, <1>11 DEF GInv

-----------------------------------------------------------------------------
\* A member begins to leave some groups.
LEMMA LeavesKeeps ==
    ASSUME G!GroupAssumption, GInv, NEW m \in G!Members, NEW todo, NEW flow \in Flows \cup {0},
           G!Leaves(m, todo, flow), todo \subseteq DOMAIN memberOf[m],
           flow = 0 => todo = DOMAIN memberOf[m],
           flow # 0 => m \in Clients /\ \A g \in DOMAIN memberOf[m] : memberOf[m][g] = flow =>
                                               g \in todo \/ <<m, g>> \in abandoned,
           m \in Virtual => DOMAIN memberOf[m] # {}
    PROVE  GInv'
<1>1. /\ leaving = G!Staying /\ told' = {} /\ ~crashed
      /\ UNCHANGED <<groups, memberOf, joined, abandoned, crashed>>
      /\ leaving' = [member |-> m, todo |-> todo, left |-> {}, flow |-> flow, group |-> G!NoGroup, next |-> 0]
  BY DEF G!Leaves
<1>2. m # 0 /\ todo \subseteq Groups
  BY DEF G!GroupAssumption, G!Members, GInv, GroupTables
<1>3. /\ leaving'.member = m /\ leaving'.todo = todo /\ leaving'.left = {} /\ leaving'.flow = flow
      /\ leaving'.group = G!NoGroup /\ leaving.left = {} /\ leaving.group = G!NoGroup
  BY <1>1 DEF G!Staying
<1>4. GroupTables' /\ LeaverShape'
  BY <1>1, <1>2 DEF GInv, GroupTables, LeaverShape
<1>5. LeaverRight'
  BY <1>1, <1>2, <1>3 DEF LeaverRight
<1>6. KnownByFlow'
  BY <1>1, <1>3 DEF GInv, KnownByFlow, Known, Forgets
<1>7. Mutual'
  BY <1>1, <1>3 DEF GInv, Mutual, Forgets, G!MembersIn
<1>8. G!ToldOfMembers'
  BY <1>1, TellsNobody
<1>9. QED
  BY <1>1, <1>4, <1>5, <1>6, <1>7, <1>8 DEF GInv, G!CrashesOnlySo

\* A flow ends, a session ends, or the application releases a member.
LEMMA LeavingKeeps ==
    ASSUME G!GroupAssumption, GInv,
           \/ \E c \in Clients, f \in Flows : G!EndFlow(c, f)
           \/ \E c \in Clients : G!EndSession(c)
           \/ \E m \in Virtual : G!ReleaseVirtual(m)
    PROVE  GInv'
<1>1. ASSUME NEW c \in Clients, NEW f \in Flows, G!EndFlow(c, f) PROVE GInv'
  <2>1. PICK h \in G!PointsTo(c, f) : <<c, f>> \in DOMAIN joined /\ G!Leaves(c, {h} \cap DOMAIN memberOf[c], f)
    BY <1>1 DEF G!EndFlow
  <2>2. f # 0 /\ c \in G!Members /\ c \notin Virtual /\ G!DeletedGroup \notin Groups
    BY DEF G!GroupAssumption, G!Members, G!DeletedGroup
  <2>3. ASSUME NEW g \in DOMAIN memberOf[c], memberOf[c][g] = f, <<c, g>> \notin abandoned
        PROVE  g \in {h} \cap DOMAIN memberOf[c]
    <3>1. g \in Groups /\ leaving = G!Staying
      BY <2>1, <2>2 DEF GInv, GroupTables, G!Leaves
    <3>2. joined[<<c, f>>] = g
      BY <2>3, <3>1 DEF GInv, KnownByFlow, Known, Forgets, G!Staying
    <3>3. QED
      BY <2>1, <2>2, <3>1, <3>2 DEF G!PointsTo
  <2>4. QED
    BY <2>1, <2>2, <2>3, LeavesKeeps
<1>2. ASSUME NEW c \in Clients, G!EndSession(c) PROVE GInv'
  <2>1. G!Leaves(c, DOMAIN memberOf[c], 0) /\ c \in G!Members /\ c \notin Virtual
    BY <1>2 DEF G!EndSession, G!GroupAssumption, G!Members
  <2>2. QED
    BY <2>1, LeavesKeeps
<1>3. ASSUME NEW m \in Virtual, G!ReleaseVirtual(m) PROVE GInv'
  <2>1. G!Leaves(m, DOMAIN memberOf[m], 0) /\ m \in G!Members /\ DOMAIN memberOf[m] # {}
    BY <1>3 DEF G!ReleaseVirtual, G!Members
  <2>2. QED
    BY <2>1, LeavesKeeps
<1>4. QED
  BY <1>1, <1>2, <1>3

\* A group loses the member that leaves.
LEMMA UnjoinGroupKeeps ==
    ASSUME G!GroupAssumption, GInv, NEW g \in Groups, G!UnjoinGroup(g)
    PROVE  GInv'
<1> DEFINE m == leaving.member
           after == G!Above(m, groups[g])
           next == IF after = {} THEN 0 ELSE CHOOSE n \in after : \A k \in after : n <= k
<1>1. /\ leaving.group = G!NoGroup /\ g \in leaving.todo
      /\ groups' = [groups EXCEPT ![g] = groups[g] \ {m}]
      /\ leaving' = [member |-> m, todo |-> leaving.todo \ {g}, left |-> leaving.left \cup {g},
                     flow |-> leaving.flow, group |-> g, next |-> next]
      /\ told' = {} /\ ~crashed /\ UNCHANGED <<memberOf, joined, abandoned, crashed>>
  BY DEF G!UnjoinGroup
<1>2. /\ m # 0 /\ m \in G!Members /\ g \in DOMAIN memberOf[m] /\ g \notin leaving.left
      /\ G!NoGroup \notin Groups
  BY <1>1 DEF GInv, LeaverRight, LeaverShape, G!Staying, G!GroupAssumption, G!NoGroup
<1>3. g \in DOMAIN groups /\ m \in groups[g]
  BY <1>2 DEF GInv, Mutual, Forgets, G!MembersIn
<1>4. next \in G!Members \cup {0} /\ (next # 0 => next \in groups[g] \ {m})
  <2>1. after \subseteq groups[g] \ {m} /\ groups[g] \subseteq G!Members /\ G!Members \subseteq Nat
    BY <1>3 DEF G!Above, GInv, GroupTables, G!Members, G!GroupAssumption
  <2>2. CASE after = {}
    BY <2>2
  <2>3. CASE after # {}
    <3>1. \E n \in after : \A k \in after : n <= k
      BY <2>1, <2>3, LeastNumber
    <3>2. (CHOOSE n \in after : \A k \in after : n <= k) \in after
      BY <3>1
    <3>3. next \in after
      BY <2>3, <3>2
    <3>4. QED
      BY <2>1, <3>3
  <2>4. QED
    BY <2>2, <2>3
<1> HIDE DEF next
<1>5. /\ leaving'.member = m /\ leaving'.todo = leaving.todo \ {g} /\ leaving'.left = leaving.left \cup {g}
      /\ leaving'.flow = leaving.flow /\ leaving'.group = g /\ leaving'.next = next
  BY <1>1
<1>6. /\ DOMAIN groups' = DOMAIN groups /\ groups'[g] = groups[g] \ {m}
      /\ \A h \in DOMAIN groups : h # g => groups'[h] = groups[h]
  BY <1>1, <1>3
<1>7. GroupTables'
  <2>1. DOMAIN groups' \subseteq Groups /\ \A h \in DOMAIN groups' : groups'[h] \subseteq G!Members
    BY <1>6 DEF GInv, GroupTables
  <2>2. QED
    BY <1>1, <2>1 DEF GInv, GroupTables
<1>8. LeaverShape'
  <2>1. /\ m \in G!Members \cup {0} /\ leaving.todo \in SUBSET Groups /\ leaving.left \in SUBSET Groups
        /\ leaving.flow \in Flows \cup {0}
    BY DEF GInv, LeaverShape
  <2>2. QED
    BY <1>1, <1>4, <2>1 DEF LeaverShape
<1>9. LeaverRight'
  <2>1. leaving'.todo \cup leaving'.left = leaving.todo \cup leaving.left /\ leaving'.todo \cap leaving'.left = {}
    BY <1>1, <1>2, <1>5 DEF GInv, LeaverRight
  <2>2. leaving'.next # 0 => leaving'.next \in groups'[g]
    BY <1>4, <1>5, <1>6
  <2>3. QED
    BY <1>1, <1>2, <1>3, <1>5, <1>6, <2>1, <2>2 DEF GInv, LeaverRight
<1>10. KnownByFlow'
  BY <1>1, <1>5 DEF GInv, KnownByFlow, Known, Forgets
<1>11. Mutual'
  <2>1. ASSUME NEW x \in G!Members, NEW h \in Groups
        PROVE  x \in G!MembersIn(h)' <=> (h \in DOMAIN memberOf'[x] /\ ~Forgets(x, h)')
    <3>1. x \in G!MembersIn(h) <=> (h \in DOMAIN memberOf[x] /\ ~Forgets(x, h))
      BY DEF GInv, Mutual
    <3>2. Forgets(x, h)' <=> Forgets(x, h) \/ (x = m /\ h = g)
      BY <1>5 DEF Forgets
    <3>3. x \in G!MembersIn(h)' <=> x \in G!MembersIn(h) /\ ~(x = m /\ h = g)
      BY <1>3, <1>6 DEF G!MembersIn
    <3>4. QED
      BY <1>1, <3>1, <3>2, <3>3
  <2>2. \A h \in DOMAIN groups' : h # leaving'.group => groups'[h] # {}
    BY <1>1, <1>2, <1>5, <1>6 DEF GInv, Mutual, GroupTables
  <2>3. QED
    BY <2>1, <2>2 DEF Mutual
<1>12. G!ToldOfMembers'
  BY <1>1, TellsNobody
<1>13. QED
  BY <1>1, <1>7, <1>8, <1>9, <1>10, <1>11, <1>12 DEF GInv, G!CrashesOnlySo

\* The follower of the one who left is told of another member of the group.
LEMMA ReturnedKeeps ==
    ASSUME G!GroupAssumption, GInv, G!Returned
    PROVE  GInv'
<1> SUFFICES ASSUME NEW g, g = leaving.group PROVE GInv'
  OBVIOUS
<1>1. /\ g # G!NoGroup /\ leaving' = [leaving EXCEPT !.group = G!NoGroup, !.next = 0]
      /\ groups' = IF groups[g] = {} THEN G!Without(g) ELSE groups
      /\ joined' = [k \in DOMAIN joined |-> IF groups[g] = {} /\ joined[k] = g THEN G!DeletedGroup ELSE joined[k]]
      /\ UNCHANGED <<memberOf, abandoned>>
      /\ IF G!Fifth # {} THEN G!Tells(g, {leaving.next}, G!Fifth) ELSE G!Tells(g, {}, {})
  BY DEF G!Returned
<1>2. /\ g \in DOMAIN groups /\ g \in Groups /\ leaving.member # 0 /\ leaving.member \in G!Members
      /\ leaving.next # 0 => leaving.next \in groups[g]
  BY <1>1 DEF GInv, LeaverRight, LeaverShape, G!Staying
<1>3. groups[g] \subseteq G!Members /\ G!Members \subseteq Nat \ {0} /\ leaving.next \in Nat
  BY <1>2 DEF GInv, GroupTables, LeaverShape, G!Members, G!GroupAssumption
<1>4. /\ leaving'.member = leaving.member /\ leaving'.todo = leaving.todo /\ leaving'.left = leaving.left
      /\ leaving'.flow = leaving.flow /\ leaving'.group = G!NoGroup /\ leaving'.next = 0 /\ LeaverShape'
  <2>1. leaving \in [member : G!Members \cup {0}, todo : SUBSET Groups, left : SUBSET Groups,
                     flow : Flows \cup {0}, group : Groups \cup {G!NoGroup}, next : G!Members \cup {0}]
    BY DEF GInv, LeaverShape
  <2>2. QED
    BY <1>1, <2>1 DEF LeaverShape
<1>5. /\ DOMAIN groups' \subseteq DOMAIN groups /\ \A h \in DOMAIN groups' : groups'[h] = groups[h]
      /\ \A h : G!MembersIn(h)' = G!MembersIn(h)
      /\ \A h \in DOMAIN groups' : groups'[h] # {}
  <2>1. CASE groups[g] = {}
    <3>1. DOMAIN groups' = DOMAIN groups \ {g} /\ \A h \in DOMAIN groups \ {g} : groups'[h] = groups[h]
      BY <1>1, <2>1 DEF G!Without, G!Restrict
    <3>2. QED
      BY <2>1, <3>1 DEF G!MembersIn, GInv, Mutual
  <2>2. CASE groups[g] # {}
    BY <1>1, <2>2 DEF G!MembersIn, GInv, Mutual
  <2>3. QED
    BY <2>1, <2>2
<1>6. told' \subseteq Groups \X G!Members \X G!Members /\ G!ToldOfMembers' /\ crashed' \in BOOLEAN
  <2>1. CASE G!Fifth = {}
    <3>1. G!Tells(g, {}, {})
      BY <1>1, <2>1
    <3>2. G!MembersIn(g)' \subseteq G!Members
      BY <1>2, <1>3, <1>5 DEF G!MembersIn
    <3>3. QED
      BY <1>2, <3>1, <3>2, ToldRight
  <2>2. CASE G!Fifth # {}
    <3>1. G!Tells(g, {leaving.next}, G!Fifth)
      BY <1>1, <2>2
    <3>2. G!MembersIn(g) = groups[g] /\ \A n \in G!Fifth : n \in groups[g] /\ n < leaving.next
      BY <1>2 DEF G!MembersIn, G!Fifth
    <3>3. \A n \in G!Fifth : n \in Nat /\ n < leaving.next
      BY <1>3, <3>2
    <3>4. leaving.next # 0 /\ {leaving.next} \cap G!Fifth = {}
      BY <1>3, <2>2, <3>3
    <3>5. /\ {leaving.next} \subseteq G!MembersIn(g)' /\ G!Fifth \subseteq G!MembersIn(g)'
          /\ G!MembersIn(g)' \subseteq G!Members
      BY <1>2, <1>3, <1>5, <3>2, <3>4
    <3>6. QED
      BY <1>2, <3>1, <3>4, <3>5, ToldRight
  <2>3. QED
    BY <2>1, <2>2
<1>7. GroupTables'
  <2>1. DOMAIN joined' = DOMAIN joined /\ \A k \in DOMAIN joined : joined'[k] \in {joined[k], G!DeletedGroup}
    BY <1>1
  <2>2. DOMAIN joined' \subseteq Clients \X Flows /\ \A k \in DOMAIN joined' : joined'[k] \in Groups \cup {G!NoGroup, G!DeletedGroup}
    BY <2>1 DEF GInv, GroupTables
  <2>3. QED
    BY <1>1, <1>5, <1>6, <2>2 DEF GInv, GroupTables
<1>8. LeaverRight'
  BY <1>1, <1>2, <1>4 DEF GInv, LeaverRight
<1>9. KnownByFlow'
  <2> SUFFICES ASSUME NEW c \in Clients, NEW h \in DOMAIN memberOf[c], <<c, h>> \notin abandoned PROVE Known(c, h)'
    BY <1>1 DEF KnownByFlow
  <2>1. Known(c, h) /\ c \in G!Members /\ h \in Groups
    BY DEF GInv, KnownByFlow, GroupTables, G!Members
  <2>2. Forgets(c, h)' <=> Forgets(c, h)
    BY <1>4 DEF Forgets
  <2>3. groups[g] = {} => Forgets(c, h) \/ h # g
    BY <1>2, <2>1 DEF GInv, Mutual, G!MembersIn
  <2>4. QED
    BY <1>1, <2>1, <2>2, <2>3 DEF Known
<1>10. Mutual'
  BY <1>1, <1>4, <1>5 DEF GInv, Mutual, Forgets
<1>11. G!CrashesOnlySo'
  <2>1. CASE G!Fifth = {}
    BY <1>1, <2>1 DEF G!Tells, G!CrashesOnlySo
  <2>2. CASE G!Fifth # {}
    <3>1. G!Fifth \subseteq groups[g] /\ \A n \in G!Fifth : n < leaving.next
      BY DEF G!Fifth
    <3>2. leaving.next # 0
      <4>1. PICK n : n \in G!Fifth
        BY <2>2
      <4>2. n \in Nat /\ n < leaving.next
        BY <1>3, <3>1, <4>1
      <4>3. QED
        BY <1>3, <4>2
    <3>3. G!Tells(g, {leaving.next}, G!Fifth) /\ {leaving.next} \subseteq G!MembersIn(g)
      BY <1>1, <1>2, <2>2, <3>2 DEF G!MembersIn
    <3>4. QED
      BY <1>1, <1>2, <3>3, CrashesSo DEF G!CrashesOnlySo
  <2>3. QED
    BY <2>1, <2>2
<1>12. QED
  BY <1>4, <1>6, <1>7, <1>8, <1>9, <1>10, <1>11 DEF GInv

\* The member has left and forgets, and its flow or its session is deleted.
LEMMA LeftKeeps ==
    ASSUME G!GroupAssumption, GInv, G!Left
    PROVE  GInv'
<1> DEFINE m == leaving.member
           ended == {k \in DOMAIN joined : k[1] = m /\ leaving.flow \in {0, k[2]}}
<1>1. /\ m # 0 /\ leaving.todo = {} /\ leaving.group = G!NoGroup
      /\ memberOf' = [memberOf EXCEPT ![m] = [g \in DOMAIN memberOf[m] \ leaving.left |-> G!Writer(m, g)]]
      /\ joined' = G!Restrict(joined, DOMAIN joined \ ended)
      /\ abandoned' = abandoned \ ({m} \X leaving.left)
      /\ leaving' = G!Staying /\ told' = {} /\ ~crashed /\ UNCHANGED <<groups, crashed>>
  BY DEF G!Left
<1>2. /\ m \in G!Members /\ leaving.left \subseteq DOMAIN memberOf[m]
      /\ leaving.flow = 0 => leaving.left = DOMAIN memberOf[m]
      /\ leaving.flow # 0 => \A g \in DOMAIN memberOf[m] :
                                 memberOf[m][g] = leaving.flow => g \in leaving.left \/ <<m, g>> \in abandoned
  BY <1>1 DEF GInv, LeaverRight, LeaverShape
<1>3. /\ DOMAIN memberOf' = G!Members
      /\ \A x \in G!Members : x # m => memberOf'[x] = memberOf[x]
      /\ DOMAIN memberOf'[m] = DOMAIN memberOf[m] \ leaving.left
      /\ \A g \in DOMAIN memberOf'[m] :
             memberOf'[m][g] = IF leaving.flow # 0 /\ memberOf[m][g] = leaving.flow THEN -1 ELSE memberOf[m][g]
  <2>1. DOMAIN memberOf = G!Members
    BY DEF GInv, GroupTables
  <2>2. memberOf'[m] = [g \in DOMAIN memberOf[m] \ leaving.left |-> G!Writer(m, g)]
    BY <1>1, <1>2, <2>1
  <2>3. QED
    BY <1>1, <2>1, <2>2 DEF G!Writer, G!DeletedWriter
<1>4. DOMAIN joined' = DOMAIN joined \ ended /\ \A k \in DOMAIN joined' : joined'[k] = joined[k]
  BY <1>1 DEF G!Restrict
<1>5. /\ leaving'.member = 0 /\ leaving'.left = {} /\ leaving'.group = G!NoGroup
  BY <1>1 DEF G!Staying
<1>6. GroupTables'
  <2>1. \A x \in G!Members : /\ DOMAIN memberOf'[x] \subseteq Groups
                             /\ \A h \in DOMAIN memberOf'[x] : memberOf'[x][h] \in Flows \cup {0, -1}
    BY <1>2, <1>3 DEF GInv, GroupTables
  <2>2. DOMAIN joined' \subseteq Clients \X Flows /\ \A k \in DOMAIN joined' : joined'[k] \in Groups \cup {G!NoGroup, G!DeletedGroup}
    BY <1>4 DEF GInv, GroupTables
  <2>3. abandoned' \subseteq Clients \X Groups /\ told' \subseteq Groups \X G!Members \X G!Members
    BY <1>1 DEF GInv, GroupTables
  <2>4. QED
    BY <1>1, <1>3, <2>1, <2>2, <2>3 DEF GInv, GroupTables
<1>7. LeaverShape' /\ LeaverRight'
  BY <1>1 DEF LeaverShape, LeaverRight, G!Staying
<1>8. KnownByFlow'
  <2> SUFFICES ASSUME NEW d \in Clients, NEW h \in DOMAIN memberOf'[d], <<d, h>> \notin abandoned' PROVE Known(d, h)'
    BY DEF KnownByFlow
  <2>1. h \in DOMAIN memberOf[d] /\ (d = m => h \notin leaving.left)
    BY <1>3 DEF G!Members
  <2>2. <<d, h>> \notin abandoned
    BY <1>1, <2>1
  <2>3. Known(d, h) /\ ~Forgets(d, h)
    BY <2>1, <2>2 DEF GInv, KnownByFlow, Forgets
  <2>4. d = m => leaving.flow # 0 /\ leaving.flow # memberOf[d][h]
    BY <1>2, <2>1, <2>2
  <2>5. memberOf'[d][h] = memberOf[d][h] /\ <<d, memberOf[d][h]>> \notin ended
    BY <1>3, <2>4 DEF G!Members
  <2>6. QED
    BY <1>4, <2>3, <2>5 DEF Known
<1>9. Mutual'
  <2>1. ASSUME NEW x \in G!Members, NEW h \in Groups
        PROVE  x \in G!MembersIn(h)' <=> (h \in DOMAIN memberOf'[x] /\ ~Forgets(x, h)')
    <3>1. x \in G!MembersIn(h) <=> (h \in DOMAIN memberOf[x] /\ ~Forgets(x, h))
      BY DEF GInv, Mutual
    <3>2. ~Forgets(x, h)' /\ G!MembersIn(h)' = G!MembersIn(h)
      BY <1>1, <1>5 DEF Forgets, G!MembersIn
    <3>3. h \in DOMAIN memberOf'[x] <=> (h \in DOMAIN memberOf[x] /\ ~Forgets(x, h))
      BY <1>3 DEF Forgets
    <3>4. QED
      BY <3>1, <3>2, <3>3
  <2>2. \A h \in DOMAIN groups' : groups'[h] # {}
    BY <1>1 DEF GInv, Mutual, GroupTables, G!GroupAssumption, G!NoGroup
  <2>3. QED
    BY <2>1, <2>2 DEF Mutual
<1>10. G!ToldOfMembers'
  BY <1>1, TellsNobody
<1>11. QED
  BY <1>1, <1>6, <1>7, <1>8, <1>9, <1>10 DEF GInv, G!CrashesOnlySo

\* A flow opens.
LEMMA OpenFlowKeeps ==
    ASSUME G!GroupAssumption, GInv, NEW c \in Clients, NEW f \in Flows, G!OpenFlow(c, f)
    PROVE  GInv'
<1>1. /\ <<c, f>> \notin DOMAIN joined /\ joined' = G!With(joined, <<c, f>>, G!NoGroup)
      /\ told' = {} /\ ~crashed /\ UNCHANGED <<groups, memberOf, leaving, abandoned, crashed>>
  BY DEF G!OpenFlow
<1>2. /\ DOMAIN joined' = DOMAIN joined \cup {<<c, f>>} /\ joined'[<<c, f>>] = G!NoGroup
      /\ \A k \in DOMAIN joined : joined'[k] = joined[k]
  BY <1>1 DEF G!With
<1>3. GroupTables'
  BY <1>1, <1>2 DEF GInv, GroupTables
<1>4. LeaverShape' /\ LeaverRight'
  BY <1>1 DEF GInv, LeaverShape, LeaverRight
<1>5. KnownByFlow'
  BY <1>1, <1>2 DEF GInv, KnownByFlow, Known, Forgets
<1>6. Mutual'
  BY <1>1 DEF GInv, Mutual, Forgets, G!MembersIn
<1>7. QED
  BY <1>1, <1>3, <1>4, <1>5, <1>6, TellsNobody DEF GInv, G!CrashesOnlySo

\* No step breaks the invariant.
LEMMA GroupStep == G!GroupAssumption /\ GInv /\ [G!Next]_(G!vars) => GInv'
<1> SUFFICES ASSUME G!GroupAssumption, GInv, [G!Next]_(G!vars) PROVE GInv'
  OBVIOUS
<1>1. CASE UNCHANGED G!vars
  <2>1. UNCHANGED <<groups, memberOf, joined, leaving, told, abandoned, crashed>>
    BY <1>1 DEF G!vars
  <2>2. QED
    BY <2>1 DEF GInv, GroupTables, LeaverShape, LeaverRight, KnownByFlow, Known, Mutual, Forgets, G!MembersIn,
                G!ToldOfMembers, G!CrashesOnlySo
<1>2. ASSUME NEW c \in Clients, NEW f \in Flows, NEW g \in Groups, G!JoinGroup(c, f, g) PROVE GInv'
  BY <1>2, JoinGroupKeeps
<1>3. ASSUME NEW c \in Clients, NEW f \in Flows, G!OpenFlow(c, f) PROVE GInv'
  BY <1>3, OpenFlowKeeps
<1>4. ASSUME NEW m \in Virtual, NEW g \in Groups, G!JoinVirtual(m, g) PROVE GInv'
  BY <1>4, JoinVirtualKeeps
<1>5. ASSUME NEW g \in Groups, G!UnjoinGroup(g) PROVE GInv'
  BY <1>5, UnjoinGroupKeeps
<1>6. QED
  BY <1>1, <1>2, <1>3, <1>4, <1>5, LeavingKeeps, ReturnedKeeps, LeftKeeps DEF G!Next

\* What the tables hold is of its type.
LEMMA GroupTypes == GInv => G!TypeOK
BY DEF GInv, GroupTables, G!TypeOK, G!Range, G!NullWriter, G!DeletedWriter

\* The groups' tables and the members' agree, the writers are open, and who is told
\* of a member is told right.
LEMMA GroupAgrees == G!GroupAssumption /\ GInv => G!IntroducedRight
<1> SUFFICES ASSUME G!GroupAssumption, GInv PROVE G!IntroducedRight
  OBVIOUS
<1>1. \A g \in DOMAIN groups \ {leaving.group} : groups[g] # {}
  BY DEF GInv, Mutual
<1>2. ASSUME NEW m \in G!Members
      PROVE  {g \in DOMAIN groups : m \in groups[g]} = DOMAIN memberOf[m] \ G!Forgetting(m)
  <2>1. DOMAIN groups \subseteq Groups /\ DOMAIN memberOf[m] \subseteq Groups
    BY DEF GInv, GroupTables
  <2>2. \A g \in Groups : (g \in DOMAIN groups /\ m \in groups[g])
                             <=> (g \in DOMAIN memberOf[m] /\ ~(m = leaving.member /\ g \in leaving.left))
    BY DEF GInv, Mutual, G!MembersIn, Forgets
  <2>3. QED
    BY <2>1, <2>2 DEF G!Forgetting
<1>3. G!GroupsAgree
  BY <1>1, <1>2 DEF G!GroupsAgree, GInv, LeaverRight
<1>4. G!WritersOpen
  BY DEF G!WritersOpen, GInv, KnownByFlow, Known
<1>5. QED
  BY <1>3, <1>4 DEF G!IntroducedRight, GInv

LEMMA GroupsInductive == ASSUME G!GroupAssumption PROVE G!Spec => []GInv
<1>1. G!Init => GInv
  BY GroupInit
<1>2. GInv /\ [G!Next]_(G!vars) => GInv'
  BY GroupStep
<1>3. QED
  BY <1>1, <1>2, PTL DEF G!Spec

\* For any members, groups and flows, and any number of neighbours: the tables of the
\* groups have their types (Peer.cpp:65-107, Entities.h).
THEOREM GroupsTypeCorrect == ASSUME G!GroupAssumption PROVE G!Spec => []G!TypeOK
<1>1. QED
  BY GroupsInductive, GroupTypes, PTL

\* ... and a member is in the groups that have it, but for what it is leaving; the
\* writer by which a client is told of others is that of a flow that is open, but in a
\* group left behind by a stream that joined another, whatever flows and sessions ended
\* and whatever the application joined or released meanwhile; what a member is told of
\* is another member of its group; and a writer that is NULL or deleted is used only
\* when the application has members or a group was left behind (Peer.cpp:52-107, 184-210).
THEOREM IntroducedCorrect == ASSUME G!GroupAssumption PROVE G!Spec => []G!IntroducedRight
<1>1. GInv => G!IntroducedRight
  BY GroupAgrees
<1>2. QED
  BY <1>1, GroupsInductive, PTL
================================================================================
