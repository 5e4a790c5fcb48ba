---------------------------- MODULE SocketsProofs ----------------------------
(***************************************************************************)
(* Proofs about the connections of TCP: Sockets, what two protocols        *)
(* make of their bytes, HTTPSession (instance H) and RTMPMessages (M), and *)
(* the links between servers, ServerLinks (L).                             *)
(*                                                                         *)
(* Sockets: for every number of sockets, packets and units,                *)
(* and every size of the system's buffer, the state is well formed, the    *)
(* peer is sent what was given in order, and what is closed is left alone. *)
(* The inductive invariant has three parts: who holds what among the three *)
(* threads (Threads), which pointer a socket has at which stage of its     *)
(* life (Owned, Fresh), and that the queue of a socket is consecutive and  *)
(* goes on from its wire (InOrder, Ordered).                               *)
(***************************************************************************)
EXTENDS Sockets, SequencesExt, TLAPS, SequenceTheorems, FiniteSetTheorems, WellFoundedInduction

\* A socket whose data still go to its peer.
Going(s) == stage[s] = "open" /\ ~Broken(s)

\* The pointer of a socket follows its owner, and what is closed is broken.  A
\* pointer is removed once: it is not on its way while it waits to be deleted.
Owned ==
    \A s \in Socks :
        /\ stage[s] = "new" <=> pointer[s] = "none"
        /\ stage[s] = "open" <=> pointer[s] = "live"
        /\ stage[s] = "closed" => Broken(s)
        /\ s \in pipe \cup manager.removed => pointer[s] = "null"
        /\ s \notin pipe \cap manager.removed
        /\ s = closing => stage[s] = "open"

\* Nothing was given to a socket before it is opened.
Fresh ==
    \A s \in Socks : stage[s] = "new" =>
        senders[s] = <<>> /\ wire[s] = <<>> /\ given[s] = 0 /\ sending.sock # s

\* Who holds _mutex, and whom the manager's thread and the server work for.
Threads ==
    /\ manager.pc = "flush" <=> mutex = "manager"
    /\ manager.pc \in {"flush", "wait"} => manager.current.sock \in Socks
    /\ calls # <<>> => mutex = "server" /\ manager.pc = "wait" /\ closing = None
    /\ \A e \in manager.batch : e = PipeItem \/ e.sock \in Socks
    /\ \A e \in manager.batch \cup {manager.current} :
           e.sock # None => pointer[e.sock] \in {"live", "null"}

\* What is queued first is to be sent first.
Ordered ==
    \A s \in Socks : Going(s) =>
        \A i, j \in DOMAIN senders[s] : i < j => senders[s][i].to < senders[s][j].from

IInv == TypeOK /\ Owned /\ Fresh /\ Threads /\ CalledIsOpen /\ InOrder /\ Ordered

-----------------------------------------------------------------------------
\* A set of natural numbers that is not empty has a least element.
LEMMA LeastNumber ==
    ASSUME NEW T, T \subseteq Nat, T # {}
    PROVE  \E n \in T : \A y \in T : n <= y
<1>1. PICK n \in T : \A y \in T : ~(<<y, n>> \in OpToRel(<, Nat))
  BY NatLessThanWellFounded, WFMin
<1>2. \A y \in Nat : \A m \in Nat : y < m => <<y, m>> \in OpToRel(<, Nat)
  BY DEF OpToRel
<1>3. \A y \in T : ~(y < n)
  BY <1>1, <1>2
<1>4. QED
  BY <1>3

\* Each sender of a queue ends before the next ones begin.
InTurn(q) == \A i, j \in DOMAIN q : i < j => q[i].to < q[j].from

\* In a queue that is in order, those that have nothing left come first.
LEMMA DoneFirst ==
    ASSUME NEW q \in Seq(Packets), InTurn(q), NEW next \in Nat
    PROVE  \E k \in 0 .. Len(q) : \A i \in DOMAIN q : (i <= k) <=> (q[i].to < next)
<1> DEFINE T == {n \in 1 .. Len(q) + 1 : n = Len(q) + 1 \/ q[n].to >= next}
<1>1. DOMAIN q = 1 .. Len(q) /\ Len(q) \in Nat
  OBVIOUS
<1>2. \A i \in DOMAIN q : q[i].from \in Nat /\ q[i].to \in Nat /\ q[i].from <= q[i].to
  BY DEF Packets
<1>3. PICK m \in T : \A y \in T : m <= y
  <2>1. T \subseteq Nat /\ Len(q) + 1 \in T
    BY <1>1
  <2>2. QED
    BY <2>1, LeastNumber
<1>4. m - 1 \in 0 .. Len(q)
  BY <1>1
<1>5. ASSUME NEW i \in DOMAIN q PROVE (i <= m - 1) <=> (q[i].to < next)
  <2>1. CASE i < m
    <3>1. i \notin T
      BY <1>1, <1>3, <2>1
    <3>2. QED
      BY <1>1, <1>2, <2>1, <3>1
  <2>2. CASE i >= m
    <3>1. m \in DOMAIN q /\ q[m].to >= next
      BY <1>1, <1>3, <2>2
    <3>2. i = m \/ q[m].to < q[i].from
      BY <1>1, <2>2, <3>1 DEF InTurn
    <3>3. q[i].to >= next
      BY <1>2, <3>1, <3>2
    <3>4. QED
      BY <1>1, <1>2, <2>2, <3>3
  <2>3. QED
    BY <1>1, <2>1, <2>2
<1>6. QED
  BY <1>4, <1>5

\* What remains of such a queue: the senders that are not done, the first of
\* them from the unit that comes next.
LEMMA RemainingOf ==
    ASSUME NEW q \in Seq(Packets), InTurn(q), NEW next \in Nat \ {0}
    PROVE  /\ Remaining(q, next) \in Seq(Packets)
           /\ \E k \in 0 .. Len(q) :
                 /\ \A i \in DOMAIN q : (i <= k) <=> (q[i].to < next)
                 /\ Len(Remaining(q, next)) = Len(q) - k
                 /\ \A i \in 1 .. Len(q) - k :
                       /\ Remaining(q, next)[i].to = q[i + k].to
                       /\ Remaining(q, next)[i].from =
                              IF q[i + k].from < next THEN next ELSE q[i + k].from
<1> DEFINE done == CHOOSE k \in 0 .. Len(q) : \A i \in DOMAIN q : (i <= k) <=> (q[i].to < next)
           r == [i \in 1 .. Len(q) - done |-> [q[i + done] EXCEPT !.from = IF @ < next THEN next ELSE @]]
<1>1. done \in 0 .. Len(q) /\ \A i \in DOMAIN q : (i <= done) <=> (q[i].to < next)
  BY DoneFirst
<1>2. Remaining(q, next) = r
  BY DEF Remaining
<1> HIDE DEF done
<1>3. DOMAIN q = 1 .. Len(q) /\ Len(q) \in Nat
  OBVIOUS
<1>4. Len(q) - done \in Nat
  BY <1>1, <1>3
<1>5. ASSUME NEW i \in 1 .. Len(q) - done
      PROVE  /\ r[i] \in Packets /\ r[i].to = q[i + done].to
             /\ r[i].from = IF q[i + done].from < next THEN next ELSE q[i + done].from
  <2>1. i + done \in DOMAIN q /\ ~(i + done <= done)
    BY <1>1, <1>3
  <2>2. q[i + done] \in Packets /\ q[i + done].to >= next
    BY <1>1, <2>1 DEF Packets
  <2>3. QED
    BY <2>2 DEF Packets
<1>6. r \in Seq(Packets) /\ Len(r) = Len(q) - done
  BY <1>4, <1>5
<1>7. QED
  BY <1>1, <1>2, <1>5, <1>6

-----------------------------------------------------------------------------
\* What the system takes of n units fits in its buffer; it takes none once the
\* connection is broken.
LEMMA SendableFits ==
    ASSUME TypeOK, NEW s \in Socks, NEW n \in Nat
    PROVE  /\ Sendable(s, n) \in Nat /\ Sendable(s, n) <= n
           /\ Len(wire[s]) + Sendable(s, n) - taken[s] <= Room
           /\ Sendable(s, n) # 0 => link[s] = "up"
<1>1. Room \in Nat /\ Len(wire[s]) \in Nat /\ taken[s] \in Nat
      /\ taken[s] <= Len(wire[s]) /\ Len(wire[s]) - taken[s] <= Room
  BY SocketsAssumption DEF TypeOK
<1>2. QED
  BY <1>1 DEF Sendable, Free

\* Consecutive units.
LEMMA UnitsOf ==
    ASSUME NEW first \in Nat \ {0}, NEW n \in Nat
    PROVE  /\ Units(first, n) \in Seq(Nat) /\ Len(Units(first, n)) = n
           /\ \A i \in 1 .. n : Units(first, n)[i] = first + i - 1
<1>1. \A i \in 1 .. n : first + i - 1 \in Nat
  OBVIOUS
<1>2. QED
  BY <1>1 DEF Units

\* A sequence put after another one is read where the first one ends.
LEMMA Joined ==
    ASSUME NEW w \in Seq(Nat), NEW u \in Seq(Nat)
    PROVE  /\ w \o u \in Seq(Nat) /\ Len(w \o u) = Len(w) + Len(u)
           /\ \A i \in 1 .. Len(w) : (w \o u)[i] = w[i]
           /\ \A i \in Len(w) + 1 .. Len(w) + Len(u) : (w \o u)[i] = u[i - Len(w)]
  OBVIOUS

\* The wire goes on with the next units.
LEMMA WireGoesOn ==
    ASSUME TypeOK, NEW s \in Socks, \A i \in DOMAIN wire[s] : wire[s][i] = i,
           NEW n \in Nat, NEW first \in Nat \ {0}, n # 0 => first = Len(wire[s]) + 1
    PROVE  /\ wire[s] \o Units(first, n) \in Seq(Nat)
           /\ Len(wire[s] \o Units(first, n)) = Len(wire[s]) + n
           /\ \A i \in DOMAIN (wire[s] \o Units(first, n)) : (wire[s] \o Units(first, n))[i] = i
<1> DEFINE w == wire[s]
           u == Units(first, n)
<1>1. w \in Seq(Nat) /\ Len(w) \in Nat /\ DOMAIN w = 1 .. Len(w)
  BY DEF TypeOK
<1>2. u \in Seq(Nat) /\ Len(u) = n /\ \A i \in 1 .. n : u[i] = first + i - 1
  BY UnitsOf
<1>3. n = 0 \/ first = Len(w) + 1
  OBVIOUS
<1> HIDE DEF u, w
<1>4. w \o u \in Seq(Nat) /\ Len(w \o u) = Len(w) + n
  BY <1>1, <1>2, Joined
<1>5. ASSUME NEW i \in DOMAIN (w \o u) PROVE (w \o u)[i] = i
  <2>1. i \in 1 .. Len(w) + n
    BY <1>1, <1>2, <1>4
  <2>2. CASE i <= Len(w)
    <3>1. (w \o u)[i] = w[i]
      BY <1>1, <1>2, <2>1, <2>2, Joined
    <3>2. QED
      BY <1>1, <2>1, <2>2, <3>1 DEF w
  <2>3. CASE i > Len(w)
    <3>1. i - Len(w) \in 1 .. n /\ i \in Len(w) + 1 .. Len(w) + Len(u)
      BY <1>1, <1>2, <2>1, <2>3
    <3>2. (w \o u)[i] = u[i - Len(w)]
      BY <1>1, <1>2, <3>1, Joined
    <3>3. QED
      BY <1>1, <1>2, <1>3, <2>1, <3>1, <3>2, SMTT(30)
  <2>4. QED
    BY <1>1, <2>1, <2>2, <2>3
<1>6. QED
  BY <1>4, <1>5 DEF u, w

\* A queue whose senders are consecutive ends where its last one does.
LEMMA Extent ==
    ASSUME NEW q \in Seq(Packets), InTurn(q), q # <<>>
    PROVE  /\ Queued(q) \in Nat /\ Head(q).from \in Nat \ {0}
           /\ Last(q) = q[Len(q)] /\ Head(q).from + Queued(q) = Last(q).to + 1
<1>1. Len(q) \in Nat \ {0} /\ DOMAIN q = 1 .. Len(q) /\ Head(q) = q[1]
  BY EmptySeq
<1>2. \A i \in DOMAIN q : q[i].from \in Nat \ {0} /\ q[i].to \in Nat /\ q[i].from <= q[i].to
  BY DEF Packets
<1>3. Last(q) = q[Len(q)]
  BY DEF Last
<1>4. 1 = Len(q) \/ q[1].to < q[Len(q)].from
  BY <1>1 DEF InTurn
<1>5. q[1].from <= q[Len(q)].to
  BY <1>1, <1>2, <1>4
<1>6. QED
  BY <1>1, <1>2, <1>3, <1>5 DEF Queued

-----------------------------------------------------------------------------
\* The same of the queue of a socket, and of the units on its wire.
InTurnAt(s) == Going(s) => InTurn(senders[s])
WireCounts(s) == \A i \in DOMAIN wire[s] : wire[s][i] = i

\* Consecutive senders of which the first units were taken are consecutive still,
\* go on from the next unit and end where they ended.
LEMMA RemainingGoesOn ==
    ASSUME NEW q \in Seq(Packets), q # <<>>, InTurn(q),
           \A i \in DOMAIN q : i > 1 => q[i].from = q[i - 1].to + 1,
           NEW next \in Nat, q[1].from <= next, next <= q[Len(q)].to + 1
    PROVE  LET r == Remaining(q, next)
           IN  /\ r # <<>> => Head(r).from = next /\ Last(r).to = q[Len(q)].to
               /\ r = <<>> => next = q[Len(q)].to + 1
               /\ \A i \in DOMAIN r : i > 1 => r[i].from = r[i - 1].to + 1
               /\ InTurn(r)
<1> DEFINE r == Remaining(q, next)
<1>1. Len(q) \in Nat \ {0} /\ DOMAIN q = 1 .. Len(q)
  BY EmptySeq
<1>2. \A i \in DOMAIN q : q[i].from \in Nat \ {0} /\ q[i].to \in Nat /\ q[i].from <= q[i].to
  BY DEF Packets
<1>3. next \in Nat \ {0}
  BY <1>1, <1>2
<1>4. r \in Seq(Packets)
  BY <1>3, RemainingOf
<1>5. PICK k \in 0 .. Len(q) :
        /\ \A i \in DOMAIN q : (i <= k) <=> (q[i].to < next)
        /\ Len(r) = Len(q) - k
        /\ \A i \in 1 .. Len(q) - k :
              /\ r[i].to = q[i + k].to
              /\ r[i].from = IF q[i + k].from < next THEN next ELSE q[i + k].from
  BY <1>3, RemainingOf
<1> HIDE DEF r
<1>6. DOMAIN r = 1 .. Len(q) - k /\ \A i \in DOMAIN r : i + k \in DOMAIN q
  BY <1>1, <1>4, <1>5
<1>7. \A i \in DOMAIN r : i > 1 => r[i].from = q[i + k].from
  <2> SUFFICES ASSUME NEW i \in DOMAIN r, i > 1 PROVE r[i].from = q[i + k].from
    OBVIOUS
  <2>1. 1 + k \in DOMAIN q /\ i + k \in DOMAIN q /\ 1 + k < i + k /\ ~(1 + k <= k)
    BY <1>1, <1>6
  <2>2. q[1 + k].to >= next
    <3>1. (1 + k <= k) <=> (q[1 + k].to < next)
      BY <1>5, <2>1
    <3>2. q[1 + k].to \in Nat
      BY <1>2, <2>1
    <3>3. QED
      BY <2>1, <3>1, <3>2
  <2>3. q[1 + k].to < q[i + k].from
    BY <2>1 DEF InTurn
  <2>4. ~(q[i + k].from < next)
    BY <1>2, <2>1, <2>2, <2>3
  <2>5. QED
    BY <1>5, <1>6, <2>4
<1>8. ASSUME r # <<>> PROVE Head(r).from = next /\ Last(r).to = q[Len(q)].to
  <2>1. Len(r) \in Nat \ {0} /\ Len(r) \in DOMAIN r /\ 1 \in DOMAIN r
    BY <1>4, <1>8, EmptySeq
  <2>2. Last(r).to = q[Len(q)].to
    BY <1>5, <1>6, <2>1 DEF Last
  <2>3. q[1 + k].from <= next
    <3>1. CASE k = 0
      BY <1>1, <3>1
    <3>2. CASE k # 0
      <4>1. k \in DOMAIN q /\ 1 + k \in DOMAIN q /\ 1 + k > 1 /\ (1 + k) - 1 = k
        BY <1>1, <1>6, <2>1, <3>2
      <4>2. q[k].to < next
        BY <1>5, <4>1
      <4>3. q[1 + k].from = q[k].to + 1
        BY <4>1
      <4>4. QED
        BY <1>2, <4>1, <4>2, <4>3
    <3>3. QED
      BY <3>1, <3>2
  <2>4. r[1].from = next
    BY <1>2, <1>5, <1>6, <2>1, <2>3
  <2>5. QED
    BY <1>4, <2>1, <2>2, <2>4
<1>9. ASSUME r = <<>> PROVE next = q[Len(q)].to + 1
  <2>1. Len(q) <= k
    BY <1>1, <1>5, <1>9
  <2>2. q[Len(q)].to < next
    BY <1>1, <1>5, <2>1
  <2>3. QED
    BY <1>1, <1>2, <2>2
<1>10. ASSUME NEW i \in DOMAIN r, i > 1 PROVE r[i].from = r[i - 1].to + 1
  <2>1. i - 1 \in DOMAIN r /\ i + k \in DOMAIN q /\ i + k > 1 /\ (i - 1) + k = (i + k) - 1
    BY <1>1, <1>6, <1>10
  <2>2. r[i - 1].to = q[(i + k) - 1].to
    BY <1>5, <1>6, <2>1
  <2>3. QED
    BY <1>7, <1>10, <2>1, <2>2
<1>11. ASSUME NEW i \in DOMAIN r, NEW j \in DOMAIN r, i < j PROVE r[i].to < r[j].from
  <2>1. i + k \in DOMAIN q /\ j + k \in DOMAIN q /\ i + k < j + k /\ j > 1
    BY <1>1, <1>6, <1>11
  <2>2. QED
    BY <1>5, <1>6, <1>7, <2>1 DEF InTurn
<1>12. QED
  BY <1>8, <1>9, <1>10, <1>11 DEF r, InTurn

\* Nothing remains of an empty queue.
LEMMA NothingRemains ==
    ASSUME NEW q \in Seq(Packets), Len(q) = 0, NEW next \in Nat \ {0}
    PROVE  Remaining(q, next) = <<>>
<1>1. DOMAIN q = {}
  OBVIOUS
<1>2. InTurn(q)
  BY <1>1 DEF InTurn
<1>3. PICK k \in 0 .. Len(q) :
        /\ \A i \in DOMAIN q : (i <= k) <=> (q[i].to < next)
        /\ Len(Remaining(q, next)) = Len(q) - k
        /\ \A i \in 1 .. Len(q) - k :
              /\ Remaining(q, next)[i].to = q[i + k].to
              /\ Remaining(q, next)[i].from =
                     IF q[i + k].from < next THEN next ELSE q[i + k].from
  BY <1>2, RemainingOf, Zenon
<1>4. Remaining(q, next) \in Seq(Packets)
  BY <1>2, RemainingOf
<1>5. Len(Remaining(q, next)) = 0
  <2>1. k = 0
    OBVIOUS
  <2>2. QED
    BY <1>3, <2>1
<1>6. QED
  BY <1>4, <1>5, EmptySeq

\* What flush does to a socket that is open: the wire goes on, and what remains
\* in its queue goes on from it, to the same end.
LEMMA FlushGoesOn ==
    ASSUME TypeOK, NEW s \in Socks, WireCounts(s), Going(s) => Continues(s), InTurnAt(s),
           stage[s] = "open"
    PROVE  LET w == Flushed(s).wire
               q == Flushed(s).senders
           IN  /\ w \in Seq(Nat) /\ q \in Seq(Packets)
               /\ Len(w) >= taken[s] /\ Len(w) - taken[s] <= Room
               /\ \A i \in DOMAIN w : w[i] = i
               /\ Going(s) => /\ q # <<>> => Head(q).from = Len(w) + 1
                              /\ \A i \in DOMAIN q : i > 1 => q[i].from = q[i - 1].to + 1
                              /\ InTurn(q)
                              /\ (IF q = <<>> THEN Len(w) ELSE Last(q).to) = EndOf(s)
<1> DEFINE old == senders[s]
           sent == Sendable(s, Queued(old))
           first == IF old = <<>> THEN 1 ELSE Head(old).from
           w == wire[s] \o Units(first, sent)
           q == IF Broken(s) THEN <<>> ELSE Remaining(old, first + sent)
<1>1. Flushed(s) = [wire |-> w, senders |-> q]
  BY DEF Flushed
<1>2. old \in Seq(Packets) /\ wire[s] \in Seq(Nat) /\ Len(wire[s]) \in Nat /\ taken[s] \in Nat
      /\ taken[s] <= Len(wire[s])
  BY DEF TypeOK
<1>3. CASE Broken(s)
  <2>1. link[s] # "up"
    BY <1>3 DEF Broken
  <2>2. sent = 0
    BY <2>1 DEF Sendable
  <2>3. Units(first, 0) = <<>>
    BY DEF Units
  <2>4. w = wire[s]
    BY <1>2, <2>2, <2>3, ConcatEmptySeq
  <2>5. q = <<>> /\ ~Going(s)
    BY <1>3 DEF Going
  <2>6. Len(wire[s]) - taken[s] <= Room
    BY DEF TypeOK
  <2> HIDE DEF w, q
  <2>7. QED
    BY <1>1, <1>2, <2>4, <2>5, <2>6 DEF WireCounts
<1>4. CASE ~Broken(s)
  <2>1. Going(s) /\ Continues(s) /\ InTurn(old) /\ q = Remaining(old, first + sent)
    BY <1>4 DEF Going, InTurnAt
  <2>2. CASE old = <<>>
    <3>1. Queued(old) = 0 /\ first = 1
      BY <2>2 DEF Queued
    <3>2. sent = 0
      BY <3>1, SendableFits
    <3>3. Units(first, 0) = <<>>
      BY DEF Units
    <3>4. w = wire[s]
      BY <1>2, <3>2, <3>3, ConcatEmptySeq
    <3>5. q = <<>>
      <4>1. first + sent = 1
        BY <3>1, <3>2
      <4>2. Len(old) = 0
        BY <2>2
      <4>3. Remaining(old, 1) = <<>>
        BY <1>2, <4>2, NothingRemains
      <4>4. QED
        BY <2>1, <4>1, <4>3
    <3>6. Len(wire[s]) - taken[s] <= Room
      BY DEF TypeOK
    <3> HIDE DEF w, q
    <3>7. QED
      BY <1>1, <1>2, <2>2, <3>4, <3>5, <3>6 DEF WireCounts, EndOf, InTurn
  <2>3. CASE old # <<>>
    <3>1. first = Len(wire[s]) + 1 /\ \A i \in DOMAIN old : i > 1 => old[i].from = old[i - 1].to + 1
      BY <2>1, <2>3 DEF Continues
    <3>2. Queued(old) \in Nat /\ first + Queued(old) = old[Len(old)].to + 1 /\ EndOf(s) = old[Len(old)].to
      BY <1>2, <2>1, <2>3, Extent DEF EndOf
    <3>3. sent \in Nat /\ sent <= Queued(old) /\ Len(wire[s]) + sent - taken[s] <= Room
      BY <3>2, SendableFits
    <3> HIDE DEF sent
    <3>4. first \in Nat \ {0} /\ first + sent \in Nat /\ old[1].from = first
      <4>1. Len(wire[s]) \in Nat
        BY <1>2
      <4>2. first \in Nat \ {0}
        BY <3>1, <4>1
      <4>3. first + sent \in Nat
        BY <3>3, <4>2
      <4>4. first = Head(old).from
        BY <2>3
      <4>5. Head(old) = old[1]
        BY <1>2, <2>3, EmptySeq
      <4> HIDE DEF old, first
      <4>6. QED
        BY <4>2, <4>3, <4>4, <4>5
    <3>5. old[Len(old)].to \in Nat
      BY <1>2, <2>3, EmptySeq DEF Packets
    <3> HIDE DEF old, first
    <3>6. w \in Seq(Nat) /\ Len(w) = Len(wire[s]) + sent /\ \A i \in DOMAIN w : w[i] = i
      BY <3>1, <3>3, <3>4, WireGoesOn DEF WireCounts
    <3>7. first + sent <= old[Len(old)].to + 1 /\ old[1].from <= first + sent
      BY <3>2, <3>3, <3>4, <3>5
    <3>8. /\ q \in Seq(Packets)
          /\ q # <<>> => Head(q).from = first + sent /\ Last(q).to = old[Len(old)].to
          /\ q = <<>> => first + sent = old[Len(old)].to + 1
          /\ \A i \in DOMAIN q : i > 1 => q[i].from = q[i - 1].to + 1
          /\ InTurn(q)
      <4>1. first + sent \in Nat \ {0}
        BY <3>3, <3>4
      <4>2. Remaining(old, first + sent) \in Seq(Packets)
        BY <1>2, <2>1, <4>1, RemainingOf
      <4> DEFINE next == first + sent
                 r == Remaining(old, next)
      <4> HIDE DEF next
      <4>3. next \in Nat /\ old[1].from <= next /\ next <= old[Len(old)].to + 1
        BY <3>4, <3>7 DEF next
      <4>4. /\ r # <<>> => Head(r).from = next /\ Last(r).to = old[Len(old)].to
            /\ r = <<>> => next = old[Len(old)].to + 1
            /\ \A i \in DOMAIN r : i > 1 => r[i].from = r[i - 1].to + 1
            /\ InTurn(r)
        BY <1>2, <2>1, <2>3, <3>1, <4>3, RemainingGoesOn
      <4>5. q = r
        BY <2>1 DEF next
      <4> HIDE DEF q, r
      <4>6. QED
        BY <4>2, <4>4, <4>5 DEF next, r
    <3> HIDE DEF w, q
    <3>9. Len(w) + 1 = first + sent /\ Len(w) >= taken[s] /\ Len(w) - taken[s] <= Room
      BY <1>2, <3>1, <3>3, <3>4, <3>6
    <3>10. (IF q = <<>> THEN Len(w) ELSE Last(q).to) = EndOf(s)
      <4>1. CASE q = <<>>
        <5>1. Len(w) + 1 = EndOf(s) + 1 /\ Len(w) \in Nat /\ EndOf(s) \in Nat
          BY <1>2, <3>2, <3>3, <3>5, <3>6, <3>8, <3>9, <4>1
        <5>2. QED
          BY <4>1, <5>1
      <4>2. CASE q # <<>>
        BY <3>2, <3>8, <4>2
      <4>3. QED
        BY <4>1, <4>2
    <3>11. QED
      BY <1>1, <3>6, <3>8, <3>9, <3>10
  <2>4. QED
    BY <2>2, <2>3
<1>5. QED
  BY <1>3, <1>4

-----------------------------------------------------------------------------
\* Every step keeps the invariant, part by part.

ManagerType == manager \in [pc : {"poll", "next", "flush", "wait"}, batch : SUBSET Item,
                            current : Item, removed : SUBSET Socks]

\* The threads hold and serve what they did, whoever steps.
LEMMA ThreadsStep ==
    ASSUME IInv, [Next]_vars
    PROVE  Threads'
<1>0. Threads /\ ManagerType /\ pointer \in [Socks -> {"none", "live", "null", "freed"}]
  BY DEF IInv, TypeOK, ManagerType
<1>1. ASSUME NEW s \in Socks, PeerReads(s) PROVE Threads'
  BY <1>0, <1>1 DEF Threads, PeerReads
<1>2. ASSUME NEW s \in Socks, PeerWrites(s) PROVE Threads'
  BY <1>0, <1>2 DEF Threads, PeerWrites
<1>3. ASSUME NEW s \in Socks, Connected(s) PROVE Threads'
  BY <1>0, <1>3 DEF Threads, Connected
<1>4. ASSUME NEW s \in Socks, Lost(s) PROVE Threads'
  BY <1>0, <1>4 DEF Threads, Lost
<1>5. ASSUME NEW s \in Socks, Send(s) PROVE Threads'
  BY <1>0, <1>5 DEF Threads, Send
<1>6. ASSUME NEW s \in Socks, Disconnect(s) PROVE Threads'
  BY <1>0, <1>6 DEF Threads, Disconnect, Flush
<1>7. ASSUME NEW s \in Socks, CloseOutside(s) PROVE Threads'
  BY <1>0, <1>7 DEF Threads, CloseOutside
<1>8. ASSUME NEW s \in Socks, NEW connected \in BOOLEAN, Open(s, connected) PROVE Threads'
  BY <1>8, <1>0 DEF Threads, Open, ManagerType, Item
<1>9. CASE AddSender
  BY <1>0, <1>9 DEF Threads, AddSender
<1>10. CASE CloseRemoves
  <2>1. UNCHANGED <<mutex, manager, calls>> /\ mutex = "nobody"
    BY <1>10 DEF CloseRemoves
  <2>2. \A p \in Socks : pointer'[p] \in {pointer[p], "null"}
    BY <1>10 DEF CloseRemoves, Released
  <2>3. \A e \in Item : e.sock # None => e.sock \in Socks
    BY DEF Item
  <2>4. QED
    BY <1>0, <2>1, <2>2, <2>3 DEF Threads, ManagerType
<1>11. ASSUME NEW e \in manager.batch, NextEvent(e) PROVE Threads'
  <2>1. /\ manager'.pc = (IF e.out THEN "flush" ELSE "wait") /\ manager'.current = e
        /\ manager'.batch = manager.batch \ {e}
        /\ mutex' = (IF e.out THEN "manager" ELSE mutex) /\ (e.out => mutex = "nobody")
        /\ manager.pc = "next" /\ e # PipeItem /\ UNCHANGED <<calls, pointer, closing>>
    BY <1>0, <1>11 DEF NextEvent, ManagerType
  <2>2. e.sock \in Socks /\ e.out \in BOOLEAN
    BY <1>0, <2>1 DEF Threads, ManagerType, Item
  <2>3. mutex # "manager" /\ calls = <<>>
    BY <1>0, <2>1 DEF Threads
  <2>4. QED
    BY <1>0, <2>1, <2>2, <2>3 DEF Threads
<1>12. CASE Poll
  <2>1. /\ manager'.pc = "next" /\ manager'.batch = Ready /\ manager'.current = manager.current
        /\ manager.pc = "poll" /\ UNCHANGED <<mutex, calls, pointer, closing>>
    BY <1>0, <1>12 DEF Poll, ManagerType
  <2>2. \A e \in Ready : e = PipeItem \/ (e.sock \in Socks /\ pointer[e.sock] = "live")
    BY DEF Ready, Event, Live
  <2>3. PipeItem.sock = None
    BY DEF PipeItem, NoItem
  <2>4. QED
    BY <1>0, <2>1, <2>2, <2>3 DEF Threads
<1>13. CASE ReadPipe
  <2>1. /\ manager'.pc = manager.pc /\ manager'.batch = manager.batch \ {PipeItem}
        /\ manager'.current = manager.current /\ UNCHANGED <<mutex, calls, pointer, closing>>
    BY <1>0, <1>13 DEF ReadPipe, ManagerType
  <2>2. QED
    BY <1>0, <2>1 DEF Threads
<1>14. CASE FlushEvent
  <2>1. /\ manager'.pc \in {"wait", "next"} /\ manager'.batch = manager.batch
        /\ manager'.current.sock = manager.current.sock
        /\ manager.pc = "flush" /\ mutex' = "nobody" /\ UNCHANGED <<calls, pointer, closing>>
    BY <1>0, <1>14 DEF FlushEvent, ManagerType, Item
  <2>2. calls = <<>>
    BY <1>0, <2>1 DEF Threads
  <2>3. QED
    BY <1>0, <2>1, <2>2 DEF Threads
<1>15. CASE EndBatch
  <2>1. /\ manager'.pc = "poll" /\ manager'.batch = manager.batch /\ manager.batch = {}
        /\ manager'.current = NoItem /\ manager.pc = "next" /\ UNCHANGED <<mutex, calls, closing>>
    BY <1>0, <1>15 DEF EndBatch, ManagerType
  <2>2. NoItem.sock = None
    BY DEF NoItem
  <2>3. QED
    BY <1>0, <2>1, <2>2 DEF Threads
<1>16. CASE Handle
  <2>1. /\ manager.pc = "wait" /\ calls = <<>> /\ UNCHANGED pointer
        /\ closing = None /\ closing' = closing
        /\ manager'.batch = manager.batch /\ manager'.current = manager.current
        /\ \/ mutex' = "server" /\ manager'.pc = "wait"
           \/ mutex' = mutex /\ calls' = calls /\ manager'.pc = "next"
    BY <1>0, <1>16 DEF Handle, ManagerType
  <2>2. mutex # "manager"
    BY <1>0, <2>1 DEF Threads
  <2>3. QED
    BY <1>0, <2>1, <2>2 DEF Threads
<1>17. ASSUME NEW closed \in SUBSET Socks, Call(closed) PROVE Threads'
  <2>1. /\ manager'.batch = manager.batch /\ manager'.current = manager.current /\ calls # <<>> /\ closing' = closing
        /\ \/ calls' # <<>> /\ mutex' = mutex /\ manager'.pc = manager.pc
           \/ calls' = <<>> /\ mutex' = "nobody" /\ manager'.pc = "next"
    BY <1>0, <1>17 DEF Call, ManagerType
  <2>2. \A p \in Socks : pointer'[p] \in {pointer[p], "null"}
    BY <1>17 DEF Call, Released
  <2>3. \A e \in Item : e.sock # None => e.sock \in Socks
    BY DEF Item
  <2>4. manager.batch \subseteq Item /\ manager.current \in Item
    BY <1>0 DEF ManagerType
  <2>5. mutex = "server" /\ manager.pc = "wait"
    BY <1>0, <2>1 DEF Threads
  <2>6. QED
    BY <1>0, <2>1, <2>2, <2>3, <2>4, <2>5 DEF Threads
<1>18. CASE UNCHANGED vars
  BY <1>0, <1>18 DEF Threads, vars
<1>19. QED
  BY <1>1, <1>2, <1>3, <1>4, <1>5, <1>6, <1>7, <1>8, <1>9, <1>10, <1>11, <1>12, <1>13, <1>14, <1>15, <1>16, <1>17, <1>18 DEF Next

\* The pointer of a socket follows its owner, whoever steps.
LEMMA OwnedStep ==
    ASSUME IInv, [Next]_vars
    PROVE  Owned'
<1>0. /\ Owned /\ Threads /\ None \notin Socks /\ ManagerType /\ stage \in [Socks -> {"new", "open", "closed"}]
      /\ link \in [Socks -> {"connecting", "up", "lost", "shut"}]
      /\ pointer \in [Socks -> {"none", "live", "null", "freed"}]
      /\ closing \in Socks \cup {None} /\ pipe \subseteq Socks
  BY SocketsAssumption DEF IInv, TypeOK, ManagerType
<1>1. ASSUME NEW s \in Socks, PeerReads(s) PROVE Owned'
  BY <1>0, <1>1 DEF Owned, Broken, ManagerType, PeerReads
<1>2. ASSUME NEW s \in Socks, PeerWrites(s) PROVE Owned'
  BY <1>0, <1>2 DEF Owned, Broken, ManagerType, PeerWrites
<1>3. ASSUME NEW s \in Socks, Connected(s) PROVE Owned'
  BY <1>0, <1>3 DEF Owned, Broken, ManagerType, Connected
<1>4. ASSUME NEW s \in Socks, Lost(s) PROVE Owned'
  BY <1>0, <1>4 DEF Owned, Broken, ManagerType, Lost
<1>5. ASSUME NEW s \in Socks, Send(s) PROVE Owned'
  BY <1>0, <1>5 DEF Owned, Broken, ManagerType, Send
<1>6. ASSUME NEW s \in Socks, Disconnect(s) PROVE Owned'
  BY <1>0, <1>6 DEF Owned, Broken, ManagerType, Disconnect
<1>7. ASSUME NEW s \in Socks, CloseOutside(s) PROVE Owned'
  BY <1>0, <1>7 DEF Owned, Broken, ManagerType, CloseOutside
<1>8. ASSUME NEW s \in Socks, NEW connected \in BOOLEAN, Open(s, connected) PROVE Owned'
  BY <1>0, <1>8 DEF Owned, Broken, ManagerType, Open
<1>9. CASE AddSender
  BY <1>0, <1>9 DEF Owned, Broken, ManagerType, AddSender
<1>10. CASE CloseRemoves
  <2>1. closing \in Socks /\ closing' = None /\ manager' = manager /\ Released({closing})
    BY <1>0, <1>10 DEF CloseRemoves
  <2>2. QED
    BY <1>0, <2>1 DEF Released, Owned, Broken
<1>11. ASSUME NEW e \in manager.batch, NextEvent(e) PROVE Owned'
  BY <1>0, <1>11 DEF Owned, Broken, ManagerType, NextEvent
<1>12. CASE Poll
  BY <1>0, <1>12 DEF Owned, Broken, ManagerType, Poll
<1>13. CASE ReadPipe
  <2>1. manager'.removed = manager.removed \cup pipe /\ pipe' = {} /\ stage' = stage
        /\ link' = link /\ pointer' = pointer /\ closing' = closing
    BY <1>0, <1>13 DEF ReadPipe, ManagerType
  <2>2. \A s \in Socks : s \in pipe' \cup manager'.removed => s \in pipe \cup manager.removed
    BY <2>1
  <2>3. QED
    BY <1>0, <2>1, <2>2 DEF Owned, Broken
<1>14. CASE FlushEvent
  BY <1>0, <1>14 DEF Owned, Broken, ManagerType, FlushEvent
<1>15. CASE EndBatch
  <2>1. manager'.removed = {} /\ UNCHANGED <<stage, link, pipe, closing>>
        /\ pointer' = [s \in Socks |-> IF s \in manager.removed THEN "freed" ELSE pointer[s]]
    BY <1>0, <1>15 DEF EndBatch, ManagerType
  <2>2. QED
    BY <1>0, <2>1 DEF Owned, Broken
<1>16. CASE Handle
  BY <1>0, <1>16 DEF Owned, Broken, ManagerType, Handle
<1>17. ASSUME NEW closed \in SUBSET Socks, Call(closed) PROVE Owned'
  <2>1. closing = None
    BY <1>0, <1>17 DEF Call, Threads
  <2>2. manager'.removed = manager.removed /\ closing' = closing
    BY <1>0, <1>17 DEF Call, ManagerType
  <2>3. \A p \in closed : stage[p] = "open"
    BY <1>17 DEF Call
  <2>4. Released(closed)
    BY <1>17 DEF Call
  <2>5. QED
    BY <1>0, <2>1, <2>2, <2>3, <2>4 DEF Released, Owned, Broken
<1>18. CASE UNCHANGED vars
  BY <1>0, <1>18 DEF Owned, Broken, ManagerType, vars
<1>19. QED
  BY <1>1, <1>2, <1>3, <1>4, <1>5, <1>6, <1>7, <1>8, <1>9, <1>10, <1>11, <1>12, <1>13, <1>14, <1>15, <1>16, <1>17, <1>18 DEF Next

\* Nothing is given to a socket before it is opened.
LEMMA FreshStep ==
    ASSUME IInv, [Next]_vars
    PROVE  Fresh'
<1>0. /\ Fresh /\ Owned /\ None \notin Socks /\ stage \in [Socks -> {"new", "open", "closed"}]
      /\ given \in [Socks -> Nat] /\ wire \in [Socks -> Seq(Nat)] /\ senders \in [Socks -> Seq(Packets)]
      /\ sending \in Held \cup {NoSending}
  BY SocketsAssumption DEF IInv, TypeOK
<1>1. ASSUME NEW s \in Socks, PeerReads(s) PROVE Fresh'
  BY <1>0, <1>1 DEF Fresh, PeerReads
<1>2. ASSUME NEW s \in Socks, PeerWrites(s) PROVE Fresh'
  BY <1>0, <1>2 DEF Fresh, PeerWrites
<1>3. ASSUME NEW s \in Socks, Connected(s) PROVE Fresh'
  BY <1>0, <1>3 DEF Fresh, Connected
<1>4. ASSUME NEW s \in Socks, Lost(s) PROVE Fresh'
  BY <1>0, <1>4 DEF Fresh, Lost
<1>5. ASSUME NEW s \in Socks, Send(s) PROVE Fresh'
  <2>1. stage' = stage /\ senders' = senders /\ stage[s] # "new" /\ sending'.sock \in {None, s}
    BY <1>5 DEF Send, NoSending
  <2>2. \A p \in Socks \ {s} : wire'[p] = wire[p] /\ given'[p] = given[p]
    BY <1>0, <1>5 DEF Send
  <2>3. QED
    BY <1>0, <2>1, <2>2 DEF Fresh
<1>6. ASSUME NEW s \in Socks, Disconnect(s) PROVE Fresh'
  BY <1>0, <1>6 DEF Fresh, Disconnect, Flush
<1>7. ASSUME NEW s \in Socks, CloseOutside(s) PROVE Fresh'
  BY <1>0, <1>7 DEF Fresh, CloseOutside
<1>8. ASSUME NEW s \in Socks, NEW connected \in BOOLEAN, Open(s, connected) PROVE Fresh'
  BY <1>0, <1>8 DEF Fresh, Open
<1>9. CASE AddSender
  BY <1>0, <1>9 DEF Fresh, AddSender, Owned, NoSending
<1>10. CASE CloseRemoves
  BY <1>0, <1>10 DEF Fresh, CloseRemoves, Released
<1>11. ASSUME NEW e \in manager.batch, NextEvent(e) PROVE Fresh'
  BY <1>0, <1>11 DEF Fresh, NextEvent
<1>12. CASE Poll
  BY <1>0, <1>12 DEF Fresh, Poll
<1>13. CASE ReadPipe
  BY <1>0, <1>13 DEF Fresh, ReadPipe
<1>14. CASE FlushEvent
  BY <1>0, <1>14 DEF Fresh, FlushEvent, Flush, Owned
<1>15. CASE EndBatch
  BY <1>0, <1>15 DEF Fresh, EndBatch
<1>16. CASE Handle
  BY <1>0, <1>16 DEF Fresh, Handle
<1>17. ASSUME NEW closed \in SUBSET Socks, Call(closed) PROVE Fresh'
  BY <1>0, <1>17 DEF Fresh, Call, Released
<1>18. CASE UNCHANGED vars
  BY <1>0, <1>18 DEF Fresh, vars
<1>19. QED
  BY <1>1, <1>2, <1>3, <1>4, <1>5, <1>6, <1>7, <1>8, <1>9, <1>10, <1>11, <1>12, <1>13, <1>14, <1>15, <1>16, <1>17, <1>18 DEF Next

\* A call leaves no other call for a socket it closed.
LEMMA CalledIsOpenStep ==
    ASSUME IInv, [Next]_vars
    PROVE  CalledIsOpen'
<1>0. /\ CalledIsOpen /\ Owned /\ Threads /\ ManagerType /\ stage \in [Socks -> {"new", "open", "closed"}]
  BY DEF IInv, TypeOK, ManagerType
<1>1. ASSUME NEW s \in Socks, PeerReads(s) PROVE CalledIsOpen'
  BY <1>0, <1>1 DEF CalledIsOpen, Threads, PeerReads
<1>2. ASSUME NEW s \in Socks, PeerWrites(s) PROVE CalledIsOpen'
  BY <1>0, <1>2 DEF CalledIsOpen, Threads, PeerWrites
<1>3. ASSUME NEW s \in Socks, Connected(s) PROVE CalledIsOpen'
  BY <1>0, <1>3 DEF CalledIsOpen, Threads, Connected
<1>4. ASSUME NEW s \in Socks, Lost(s) PROVE CalledIsOpen'
  BY <1>0, <1>4 DEF CalledIsOpen, Threads, Lost
<1>5. ASSUME NEW s \in Socks, Send(s) PROVE CalledIsOpen'
  BY <1>0, <1>5 DEF CalledIsOpen, Threads, Send
<1>6. ASSUME NEW s \in Socks, Disconnect(s) PROVE CalledIsOpen'
  BY <1>0, <1>6 DEF CalledIsOpen, Threads, Disconnect, Flush
<1>7. ASSUME NEW s \in Socks, CloseOutside(s) PROVE CalledIsOpen'
  BY <1>0, <1>7 DEF CalledIsOpen, Threads, CloseOutside
<1>8. ASSUME NEW s \in Socks, NEW connected \in BOOLEAN, Open(s, connected) PROVE CalledIsOpen'
  BY <1>0, <1>8 DEF CalledIsOpen, Threads, Open
<1>9. CASE AddSender
  BY <1>0, <1>9 DEF CalledIsOpen, Threads, AddSender
<1>10. CASE CloseRemoves
  <2>1. calls = <<>> /\ calls' = <<>>
    BY <1>0, <1>10 DEF CloseRemoves, Threads
  <2>2. QED
    BY <2>1 DEF CalledIsOpen
<1>11. ASSUME NEW e \in manager.batch, NextEvent(e) PROVE CalledIsOpen'
  <2>1. calls = <<>> /\ calls' = <<>>
    BY <1>0, <1>11 DEF NextEvent, Threads
  <2>2. QED
    BY <2>1 DEF CalledIsOpen
<1>12. CASE Poll
  <2>1. calls = <<>> /\ calls' = <<>>
    BY <1>0, <1>12 DEF Poll, Threads
  <2>2. QED
    BY <2>1 DEF CalledIsOpen
<1>13. CASE ReadPipe
  <2>1. calls = <<>> /\ calls' = <<>>
    BY <1>0, <1>13 DEF ReadPipe, Threads
  <2>2. QED
    BY <2>1 DEF CalledIsOpen
<1>14. CASE FlushEvent
  <2>1. calls = <<>> /\ calls' = <<>>
    BY <1>0, <1>14 DEF FlushEvent, Threads
  <2>2. QED
    BY <2>1 DEF CalledIsOpen
<1>15. CASE EndBatch
  <2>1. calls = <<>> /\ calls' = <<>>
    BY <1>0, <1>15 DEF EndBatch, Threads
  <2>2. QED
    BY <2>1 DEF CalledIsOpen
<1>16. CASE Handle
  <2>1. manager.pc = "wait" /\ manager.current.sock \in Socks
    BY <1>0, <1>16 DEF Handle, Threads
  <2>2. UNCHANGED stage /\ manager'.current = manager.current
        /\ (pointer[manager.current.sock] = "live" \/ calls' = <<>>)
    BY <1>0, <1>16 DEF Handle, ManagerType
  <2>3. QED
    BY <1>0, <2>1, <2>2 DEF CalledIsOpen, Owned
<1>17. ASSUME NEW closed \in SUBSET Socks, Call(closed) PROVE CalledIsOpen'
  <2>1. manager.current.sock \in Socks
    BY <1>0, <1>17 DEF Call, Threads
  <2>2. manager'.current = manager.current
        /\ (pointer'[manager.current.sock] = "live" \/ calls' = <<>>)
    BY <1>0, <1>17 DEF Call, CallsLeft, ManagerType
  <2>3. Owned'
    BY <1>17, OwnedStep DEF Next
  <2>4. QED
    BY <2>1, <2>2, <2>3 DEF CalledIsOpen, Owned
<1>18. CASE UNCHANGED vars
  BY <1>0, <1>18 DEF CalledIsOpen, Threads, vars
<1>19. QED
  BY <1>1, <1>2, <1>3, <1>4, <1>5, <1>6, <1>7, <1>8, <1>9, <1>10, <1>11, <1>12, <1>13, <1>14, <1>15, <1>16, <1>17, <1>18 DEF Next

-----------------------------------------------------------------------------
\* A step that sends keeps the order.

\* What is given to a socket in one send goes to the wire, or is held by the
\* pool's thread, after all that was given before.
LEMMA SendGoesOn ==
    ASSUME IInv, NEW s \in Socks, Send(s)
    PROVE  /\ wire'[s] \in Seq(Nat) /\ Len(wire'[s]) >= taken[s] /\ Len(wire'[s]) - taken[s] <= Room
           /\ sending' \in Held \cup {NoSending}
           /\ WireCounts(s)'
           /\ Going(s) => Continues(s)'
<1> DEFINE sent == IF CanSend(s) THEN Sendable(s, Size) ELSE 0
           ends == sent = Size \/ (CanSend(s) /\ Broken(s))
<1>1. /\ stage[s] # "new" /\ sending = NoSending
      /\ given' = [given EXCEPT ![s] = @ + Size]
      /\ wire' = [wire EXCEPT ![s] = @ \o Units(given[s] + 1, sent)]
      /\ sending' = IF ends THEN NoSending
                    ELSE [sock |-> s, from |-> given[s] + sent + 1, to |-> given'[s]]
      /\ UNCHANGED <<stage, link, senders>>
  BY DEF Send
<1>2. /\ TypeOK /\ Owned /\ WireCounts(s) /\ (Going(s) => Continues(s))
      /\ None \notin Socks /\ Size \in Nat \ {0} /\ Room \in Nat
  BY SocketsAssumption DEF IInv, InOrder, WireCounts, Going
<1>3. /\ given \in [Socks -> Nat] /\ wire \in [Socks -> Seq(Nat)] /\ taken[s] \in Nat
      /\ senders[s] \in Seq(Packets) /\ Len(wire[s]) \in Nat
      /\ stage[s] \in {"new", "open", "closed"} /\ Len(wire[s]) - taken[s] <= Room
  BY <1>2 DEF TypeOK
<1>4. sent \in Nat /\ sent <= Size /\ Len(wire[s]) + sent - taken[s] <= Room
  <2>1. CASE CanSend(s)
    <3>1. sent = Sendable(s, Size)
      BY <2>1
    <3> HIDE DEF sent
    <3>2. Size \in Nat
      BY <1>2
    <3>3. QED
      BY <1>2, <3>1, <3>2, SendableFits
  <2>2. CASE ~CanSend(s)
    <3>1. sent = 0
      BY <2>2
    <3> HIDE DEF sent
    <3>2. QED
      BY <1>2, <1>3, <3>1
  <2>3. QED
    BY <2>1, <2>2
<1>5. sent # 0 => CanSend(s) /\ link[s] = "up"
  BY <1>2, SendableFits
<1>6. sending.sock # s
  BY <1>1, <1>2 DEF NoSending
<1>7. CanSend(s) /\ Going(s) => given[s] = Len(wire[s])
  BY <1>2, <1>6 DEF CanSend, Continues, EndOf
<1>8. sent # 0 => Going(s)
  BY <1>1, <1>2, <1>3, <1>5 DEF Going, Broken, Owned
<1>9. ends <=> (sent = Size \/ (CanSend(s) /\ Broken(s)))
  OBVIOUS
<1> HIDE DEF sent, ends
<1>10. given'[s] = given[s] + Size /\ given[s] \in Nat /\ wire'[s] = wire[s] \o Units(given[s] + 1, sent)
  BY <1>1, <1>3
<1>11. sent # 0 => given[s] + 1 = Len(wire[s]) + 1
  BY <1>5, <1>7, <1>8
<1>12. /\ wire'[s] \in Seq(Nat) /\ Len(wire'[s]) = Len(wire[s]) + sent
       /\ \A i \in DOMAIN wire'[s] : wire'[s][i] = i
  <2>1. given[s] + 1 \in Nat \ {0} /\ \A i \in DOMAIN wire[s] : wire[s][i] = i
    BY <1>2, <1>10 DEF WireCounts
  <2> DEFINE w == wire[s] \o Units(given[s] + 1, sent)
  <2>2. /\ w \in Seq(Nat) /\ Len(w) = Len(wire[s]) + sent
        /\ \A i \in DOMAIN w : w[i] = i
    BY <1>2, <1>4, <1>11, <2>1, WireGoesOn
  <2> HIDE DEF w
  <2>3. QED
    BY <1>10, <2>2 DEF w
<1>13. sending' \in Held \cup {NoSending}
  <2>1. CASE ends
    BY <1>1, <2>1
  <2>2. CASE ~ends
    <3>1. sent # Size
      BY <1>9, <2>2
    <3>4. sent < Size
      BY <1>2, <1>4, <3>1
    <3>2. /\ given[s] + sent + 1 \in Nat \ {0} /\ given[s] + Size \in Nat
          /\ given[s] + sent + 1 <= given[s] + Size
      BY <1>2, <1>4, <1>10, <3>4
    <3>3. sending' = [sock |-> s, from |-> given[s] + sent + 1, to |-> given[s] + Size]
      BY <1>1, <1>10, <2>2
    <3>5. QED
      BY <3>2, <3>3 DEF Held
  <2>3. QED
    BY <2>1, <2>2
<1>14. ASSUME Going(s) PROVE Continues(s)'
  <2>1. Continues(s) /\ given[s] = EndOf(s) /\ ~Broken(s) /\ senders' = senders
    BY <1>1, <1>2, <1>6, <1>14 DEF Continues, Going
  <2>2. CASE ends
    <3>1. sent = Size /\ CanSend(s) /\ given[s] = Len(wire[s])
      BY <1>2, <1>5, <1>7, <1>9, <1>14, <2>1, <2>2
    <3>2. sending'.sock # s
      BY <1>1, <1>2, <2>2 DEF NoSending
    <3>3. senders'[s] = <<>> /\ given'[s] = Len(wire'[s])
      BY <1>3, <1>10, <1>12, <2>1, <3>1 DEF CanSend
    <3>4. QED
      BY <3>2, <3>3 DEF Continues, EndOf
  <2>3. CASE ~ends
    <3>1. sending'.sock = s /\ sending'.from = given[s] + sent + 1 /\ sending'.to = given'[s]
      BY <1>1, <2>3
    <3>2. CASE CanSend(s)
      <4>1. senders'[s] = <<>> /\ Len(wire'[s]) = given[s] + sent
        BY <1>7, <1>12, <1>14, <2>1, <3>2 DEF CanSend
      <4>2. QED
        BY <3>1, <4>1 DEF Continues, EndOf
    <3>3. CASE ~CanSend(s)
      <4>1. sent = 0 /\ Len(wire'[s]) = Len(wire[s])
        BY <1>3, <1>5, <1>12, <3>3
      <4>2. EndOf(s)' = EndOf(s)
        BY <2>1, <4>1 DEF EndOf
      <4>3. sending'.from = EndOf(s)' + 1
        BY <1>10, <2>1, <3>1, <4>1, <4>2
      <4>4. QED
        BY <2>1, <3>1, <4>1, <4>3 DEF Continues
    <3>4. QED
      BY <3>2, <3>3
  <2>4. QED
    BY <2>2, <2>3
<1>15. Len(wire'[s]) >= taken[s] /\ Len(wire'[s]) - taken[s] <= Room
  <2>1. taken[s] <= Len(wire[s])
    BY <1>2 DEF TypeOK
  <2>2. QED
    BY <1>3, <1>4, <1>12, <2>1
<1>16. QED
  BY <1>12, <1>13, <1>14, <1>15 DEF WireCounts

\* What the pool's thread holds is queued after what is queued already.
LEMMA AddGoesOn ==
    ASSUME IInv, NEW s \in Socks, AddSender, s = sending.sock, pointer[s] = "live"
    PROVE  /\ senders'[s] \in Seq(Packets)
           /\ Going(s) => Continues(s)' /\ InTurn(senders'[s])
<1> DEFINE q == senders[s]
           p == [from |-> sending.from, to |-> sending.to]
<1>1. /\ senders' = [senders EXCEPT ![s] = Append(q, p)] /\ sending' = NoSending
      /\ UNCHANGED <<wire, given, stage, link>> /\ sending # NoSending
  BY DEF AddSender
<1>2. /\ senders \in [Socks -> Seq(Packets)] /\ sending \in Held /\ None \notin Socks
      /\ Len(wire[s]) \in Nat /\ (Going(s) => Continues(s) /\ InTurn(q))
  <2>1. TypeOK
    BY DEF IInv
  <2>2. senders \in [Socks -> Seq(Packets)] /\ sending \in Held /\ wire[s] \in Seq(Nat)
    BY <1>1, <2>1 DEF TypeOK
  <2>3. Len(wire[s]) \in Nat
    BY <2>2
  <2>4. Going(s) => Continues(s) /\ InTurn(q)
    BY DEF IInv, InOrder, Ordered, InTurn, Going
  <2>5. QED
    BY <2>2, <2>3, <2>4, SocketsAssumption
<1>3. p \in Packets /\ p.from = sending.from /\ p.to = sending.to
  BY <1>2 DEF Held, Packets
<1> HIDE DEF p
<1>4. q \in Seq(Packets) /\ Len(q) \in Nat /\ DOMAIN q = 1 .. Len(q)
  BY <1>2
<1>5. senders'[s] = Append(q, p)
  BY <1>1, <1>2
<1> HIDE DEF q
<1>6. /\ Append(q, p) \in Seq(Packets) /\ Len(Append(q, p)) = Len(q) + 1
      /\ \A i \in 1 .. Len(q) : Append(q, p)[i] = q[i]
      /\ Append(q, p)[Len(q) + 1] = p /\ Append(q, p) # <<>>
  BY <1>3, <1>4
<1>7. ASSUME Going(s) PROVE Continues(s)' /\ InTurn(Append(q, p))
  <2>1. Continues(s) /\ InTurn(q) /\ p.from = EndOf(s) + 1 /\ p.to = given[s]
    BY <1>2, <1>3, <1>7 DEF Continues
  <2>2. sending'.sock # s
    BY <1>1, <1>2 DEF NoSending
  <2>3. \A i \in DOMAIN q : q[i] \in Packets /\ q[i].from \in Nat /\ q[i].to \in Nat /\ q[i].from <= q[i].to
    BY <1>4 DEF Packets
  <2>4. q = <<>> => EndOf(s) = Len(wire[s])
    BY DEF EndOf, q
  <2>5. q # <<>> => EndOf(s) = q[Len(q)].to /\ Len(q) \in DOMAIN q
    BY <1>4, EmptySeq DEF EndOf, Last, q
  <2>6. Head(Append(q, p)).from = Len(wire[s]) + 1
    <3>1. CASE q = <<>>
      <4>1. Len(q) = 0
        BY <3>1
      <4>2. Head(Append(q, p)) = Append(q, p)[1]
        BY <1>6
      <4>3. Head(Append(q, p)) = p
        BY <1>6, <4>1, <4>2
      <4>4. QED
        BY <2>1, <2>4, <3>1, <4>3
    <3>2. CASE q # <<>>
      <4>1. 1 \in 1 .. Len(q) /\ Head(q) = q[1]
        BY <1>4, <3>2, EmptySeq
      <4>2. Head(Append(q, p)) = Append(q, p)[1]
        BY <1>6
      <4>3. Head(Append(q, p)) = Head(q)
        BY <1>6, <4>1, <4>2
      <4>4. QED
        BY <2>1, <3>2, <4>3 DEF Continues, q
    <3>3. QED
      BY <3>1, <3>2
  <2>7. ASSUME NEW i \in DOMAIN Append(q, p), i > 1
        PROVE  Append(q, p)[i].from = Append(q, p)[i - 1].to + 1
    <3>1. i \in 1 .. Len(q) + 1
      BY <1>6
    <3>2. CASE i <= Len(q)
      <4>1. i \in DOMAIN q /\ i - 1 \in 1 .. Len(q)
        BY <1>4, <2>7, <3>1, <3>2
      <4>2. q[i].from = q[i - 1].to + 1
        BY <2>1, <2>7, <4>1 DEF Continues, q
      <4>3. QED
        BY <1>4, <1>6, <4>1, <4>2
    <3>3. CASE i = Len(q) + 1
      <4>1. i - 1 = Len(q) /\ Len(q) \in 1 .. Len(q) /\ q # <<>>
        BY <1>4, <2>7, <3>3
      <4>2. Append(q, p)[i - 1] = q[Len(q)] /\ Append(q, p)[i] = p
        BY <1>6, <3>3, <4>1
      <4>3. p.from = q[Len(q)].to + 1
        BY <2>1, <2>5, <4>1
      <4>4. QED
        BY <4>2, <4>3
    <3>4. i <= Len(q) \/ i = Len(q) + 1
      BY <1>4, <3>1
    <3>5. QED
      BY <3>2, <3>3, <3>4, Zenon
  <2>8. ASSUME NEW i \in DOMAIN Append(q, p), NEW j \in DOMAIN Append(q, p), i < j
        PROVE  Append(q, p)[i].to < Append(q, p)[j].from
    <3>1. i \in 1 .. Len(q) /\ j \in 1 .. Len(q) + 1
      BY <1>4, <1>6, <2>8
    <3>2. CASE j <= Len(q)
      <4>1. j \in 1 .. Len(q)
        BY <1>4, <3>1, <3>2
      <4>2. QED
        BY <1>4, <1>6, <2>1, <2>8, <3>1, <4>1 DEF InTurn
    <3>3. CASE j = Len(q) + 1
      <4>1. q # <<>> /\ Len(q) \in 1 .. Len(q)
        BY <1>4, <3>1
      <4>2. i = Len(q) \/ q[i].to < q[Len(q)].from
        BY <1>4, <2>1, <3>1, <4>1 DEF InTurn
      <4>3. q[i].to <= q[Len(q)].to
        BY <1>4, <2>3, <3>1, <4>1, <4>2
      <4>4. p.from = q[Len(q)].to + 1
        BY <2>1, <2>5, <4>1
      <4>5. QED
        BY <1>4, <1>6, <2>3, <3>1, <3>3, <4>1, <4>3, <4>4
    <3>4. QED
      BY <1>4, <3>1, <3>2, <3>3
  <2>9. EndOf(s)' = p.to
    <3>1. Last(Append(q, p)) = p
      BY <1>6 DEF Last
    <3>2. QED
      BY <1>5, <1>6, <3>1 DEF EndOf
  <2>10. QED
    BY <1>1, <1>5, <1>6, <2>1, <2>2, <2>6, <2>7, <2>8, <2>9 DEF Continues, InTurn
<1>8. QED
  BY <1>5, <1>6, <1>7

-----------------------------------------------------------------------------
\* What InOrder and Ordered say of a socket.
Sound(s) == WireCounts(s) /\ (Going(s) => Continues(s) /\ InTurn(senders[s]))

\* They say it of every socket.
LEMMA SoundSockets == (\A s \in Socks : Sound(s)) <=> InOrder /\ Ordered
  BY DEF Sound, InOrder, Ordered, WireCounts, InTurn, Going

\* A flush keeps a socket sound, and its data well formed.
LEMMA FlushSound ==
    ASSUME IInv, NEW s \in Socks, stage[s] = "open", Flush(s),
           UNCHANGED <<stage, given, taken, sending>>, Going(s)' => Going(s)
    PROVE  /\ Sound(s)'
           /\ senders'[s] \in Seq(Packets) /\ wire'[s] \in Seq(Nat)
           /\ Len(wire'[s]) >= taken[s] /\ Len(wire'[s]) - taken[s] <= Room
<1> DEFINE f == Flushed(s)
<1>1. TypeOK /\ Sound(s) /\ senders \in [Socks -> Seq(Packets)] /\ wire \in [Socks -> Seq(Nat)]
  BY SoundSockets DEF IInv, TypeOK
<1>2. wire'[s] = f.wire /\ senders'[s] = f.senders
  BY <1>1 DEF Flush
<1>3. /\ f.wire \in Seq(Nat) /\ f.senders \in Seq(Packets)
      /\ Len(f.wire) >= taken[s] /\ Len(f.wire) - taken[s] <= Room
      /\ \A i \in DOMAIN f.wire : f.wire[i] = i
      /\ Going(s) => /\ f.senders # <<>> => Head(f.senders).from = Len(f.wire) + 1
                     /\ \A i \in DOMAIN f.senders : i > 1 => f.senders[i].from = f.senders[i - 1].to + 1
                     /\ InTurn(f.senders)
                     /\ (IF f.senders = <<>> THEN Len(f.wire) ELSE Last(f.senders).to) = EndOf(s)
  <2>1. WireCounts(s) /\ (Going(s) => Continues(s)) /\ InTurnAt(s)
    BY <1>1 DEF Sound, InTurnAt
  <2>2. QED
    BY <1>1, <2>1, FlushGoesOn
<1> HIDE DEF f
<1>4. ASSUME Going(s)' PROVE Continues(s)' /\ InTurn(senders'[s])
  <2>1. Going(s) /\ Continues(s)
    BY <1>1, <1>4 DEF Sound
  <2>2. EndOf(s)' = EndOf(s)
    BY <1>2, <1>3, <2>1 DEF EndOf
  <2>3. QED
    BY <1>2, <1>3, <2>1, <2>2 DEF Continues
<1>5. QED
  BY <1>2, <1>3, <1>4 DEF Sound, WireCounts

\* A socket whose data a step leaves alone stays sound.
LEMMA SameSound ==
    ASSUME IInv, NEW s \in Socks, wire'[s] = wire[s],
           Going(s)' => /\ Going(s) /\ senders'[s] = senders[s] /\ given'[s] = given[s]
                        /\ (sending' = sending \/ (sending.sock # s /\ sending'.sock # s))
    PROVE  Sound(s)'
<1>1. Sound(s)
  BY SoundSockets DEF IInv
<1>2. ASSUME Going(s)' PROVE Continues(s)' /\ InTurn(senders'[s])
  <2>1. EndOf(s)' = EndOf(s)
    BY <1>2 DEF EndOf
  <2>2. Continues(s) /\ InTurn(senders[s])
    BY <1>1, <1>2 DEF Sound
  <2>3. QED
    BY <1>2, <2>1, <2>2 DEF Continues
<1>3. QED
  BY <1>1, <1>2 DEF Sound, WireCounts

\* Every step keeps every socket sound.
LEMMA SoundStep ==
    ASSUME IInv, [Next]_vars
    PROVE  \A p \in Socks : Sound(p)'
<1>0. /\ IInv /\ Owned /\ Fresh /\ Threads /\ None \notin Socks /\ (\A p \in Socks : Sound(p))
      /\ senders \in [Socks -> Seq(Packets)] /\ wire \in [Socks -> Seq(Nat)]
      /\ link \in [Socks -> {"connecting", "up", "lost", "shut"}]
      /\ stage \in [Socks -> {"new", "open", "closed"}]
      /\ given \in [Socks -> Nat] /\ sending \in Held \cup {NoSending}
  BY SoundSockets, SocketsAssumption DEF IInv, TypeOK
<1>1. ASSUME NEW s \in Socks, PeerReads(s) PROVE \A p \in Socks : Sound(p)'
  <2> SUFFICES ASSUME NEW p \in Socks PROVE Sound(p)'
    OBVIOUS
  <2>1. UNCHANGED <<stage, link, senders, given, wire, sending>>
    BY <1>1 DEF PeerReads
  <2>2. QED
    BY <2>1, SameSound DEF Going, Broken
<1>2. ASSUME NEW s \in Socks, PeerWrites(s) PROVE \A p \in Socks : Sound(p)'
  <2> SUFFICES ASSUME NEW p \in Socks PROVE Sound(p)'
    OBVIOUS
  <2>1. UNCHANGED <<stage, link, senders, given, wire, sending>>
    BY <1>2 DEF PeerWrites
  <2>2. QED
    BY <2>1, SameSound DEF Going, Broken
<1>3. ASSUME NEW s \in Socks, Connected(s) PROVE \A p \in Socks : Sound(p)'
  <2> SUFFICES ASSUME NEW p \in Socks PROVE Sound(p)'
    OBVIOUS
  <2>1. UNCHANGED <<stage, senders, given, wire, sending>> /\ (Going(p)' => Going(p))
    BY <1>0, <1>3 DEF Connected, Going, Broken
  <2>2. QED
    BY <2>1, SameSound
<1>4. ASSUME NEW s \in Socks, Lost(s) PROVE \A p \in Socks : Sound(p)'
  <2> SUFFICES ASSUME NEW p \in Socks PROVE Sound(p)'
    OBVIOUS
  <2>1. UNCHANGED <<stage, senders, given, wire, sending>> /\ (Going(p)' => Going(p))
    BY <1>0, <1>4 DEF Lost, Going, Broken
  <2>2. QED
    BY <2>1, SameSound
<1>5. ASSUME NEW s \in Socks, Send(s) PROVE \A p \in Socks : Sound(p)'
  <2> SUFFICES ASSUME NEW p \in Socks PROVE Sound(p)'
    OBVIOUS
  <2>1. UNCHANGED <<stage, link, senders>> /\ sending = NoSending /\ sending'.sock \in {None, s}
    BY <1>5 DEF Send, NoSending
  <2>2. p # s => wire'[p] = wire[p] /\ given'[p] = given[p]
    BY <1>0, <1>5 DEF Send
  <2>3. CASE p = s
    <3>1. WireCounts(s)' /\ (Going(s) => Continues(s)') /\ (Going(s) => InTurn(senders'[s]))
      BY <1>0, <2>1, <1>5, SendGoesOn DEF Sound
    <3>2. Going(s)' <=> Going(s)
      BY <2>1 DEF Going, Broken
    <3>3. QED
      BY <2>3, <3>1, <3>2 DEF Sound
  <2>4. CASE p # s
    <3>1. sending.sock # p /\ sending'.sock # p /\ (Going(p)' => Going(p))
      BY <1>0, <2>1, <2>4 DEF NoSending, Going, Broken
    <3>2. QED
      BY <2>1, <2>2, <2>4, <3>1, SameSound
  <2>5. QED
    BY <2>3, <2>4
<1>6. ASSUME NEW s \in Socks, Disconnect(s) PROVE \A p \in Socks : Sound(p)'
  <2> SUFFICES ASSUME NEW p \in Socks PROVE Sound(p)'
    OBVIOUS
  <2>1. stage[s] = "open" /\ Flush(s) /\ UNCHANGED <<stage, given, taken, sending>> /\ link'[s] = "shut"
    BY <1>0, <1>6 DEF Disconnect
  <2>2. p # s => link'[p] = link[p] /\ wire'[p] = wire[p] /\ senders'[p] = senders[p]
    BY <1>0, <1>6 DEF Disconnect, Flush
  <2>3. CASE p = s
    BY <2>1, <2>3, FlushSound DEF Going, Broken
  <2>4. CASE p # s
    BY <2>1, <2>2, <2>4, SameSound DEF Going, Broken
  <2>5. QED
    BY <2>3, <2>4
<1>7. ASSUME NEW s \in Socks, CloseOutside(s) PROVE \A p \in Socks : Sound(p)'
  <2> SUFFICES ASSUME NEW p \in Socks PROVE Sound(p)'
    OBVIOUS
  <2>1. UNCHANGED <<stage, link, senders, given, wire, sending>>
    BY <1>7 DEF CloseOutside
  <2>2. QED
    BY <2>1, SameSound DEF Going, Broken
<1>8. ASSUME NEW s \in Socks, NEW connected \in BOOLEAN, Open(s, connected) PROVE \A p \in Socks : Sound(p)'
  <2> SUFFICES ASSUME NEW p \in Socks PROVE Sound(p)'
    OBVIOUS
  <2>1. UNCHANGED <<senders, given, wire, sending>>
    BY <1>8 DEF Open
  <2>2. p # s => stage'[p] = stage[p] /\ link'[p] = link[p]
    BY <1>0, <1>8 DEF Open
  <2>3. CASE p # s
    BY <2>1, <2>2, <2>3, SameSound DEF Going, Broken
  <2>4. CASE p = s
    <3>1. senders[p] = <<>> /\ wire[p] = <<>> /\ given[p] = 0 /\ sending.sock # p
      BY <1>0, <1>8, <2>4 DEF Open, Fresh
    <3>2. EndOf(p)' = 0
      BY <2>1, <3>1 DEF EndOf
    <3>3. Continues(p)' /\ InTurn(senders'[p])
      BY <2>1, <3>1, <3>2 DEF Continues, InTurn
    <3>4. WireCounts(p)'
      BY <1>0, <2>1 DEF Sound, WireCounts
    <3>5. QED
      BY <3>3, <3>4 DEF Sound
  <2>5. QED
    BY <2>3, <2>4
<1>9. CASE AddSender
  <2> SUFFICES ASSUME NEW p \in Socks PROVE Sound(p)'
    OBVIOUS
  <2>0. sending \in Held /\ sending.sock \in Socks
    BY <1>0, <1>9 DEF AddSender, Held
  <2>9. PICK s \in Socks : s = sending.sock
    BY <2>0
  <2>1. UNCHANGED <<stage, link, given, wire>> /\ sending' = NoSending
    BY <1>9 DEF AddSender
  <2>2. CASE pointer[s] = "live"
    <3>1. senders' = [senders EXCEPT ![s] = Append(senders[s], [from |-> sending.from, to |-> sending.to])]
      BY <2>2, <2>9, <1>9 DEF AddSender
    <3>2. Going(s) => Continues(s)' /\ InTurn(senders'[s])
      BY <2>1, <2>2, <2>9, <1>9, AddGoesOn
    <3>3. CASE p = s
      BY <1>0, <2>1, <3>2, <3>3 DEF Sound, Going, Broken, WireCounts
    <3>4. CASE p # s
      <4>1. senders'[p] = senders[p] /\ sending.sock # p /\ sending'.sock # p
        BY <1>0, <2>1, <2>9, <3>1, <3>4 DEF NoSending
      <4>2. QED
        BY <2>1, <4>1, SameSound DEF Going, Broken
    <3>5. QED
      BY <3>3, <3>4
  <2>3. CASE pointer[s] # "live"
    <3>1. senders' = senders /\ stage[s] # "open"
      BY <1>0, <2>1, <2>3, <2>9, <1>9 DEF AddSender, Owned
    <3>2. sending'.sock # p
      BY <1>0, <2>1 DEF NoSending
    <3>3. ASSUME Going(p)' PROVE Going(p) /\ sending.sock # p
      BY <2>1, <2>9, <3>1, <3>3 DEF Going, Broken
    <3>4. QED
      BY <2>1, <3>1, <3>2, <3>3, SameSound
  <2>4. QED
    BY <2>2, <2>3
<1>10. CASE CloseRemoves
  <2> SUFFICES ASSUME NEW p \in Socks PROVE Sound(p)'
    OBVIOUS
  <2>1. Released({closing}) /\ UNCHANGED <<given, wire, sending>>
    BY <1>10 DEF CloseRemoves
  <2>2. Going(p)' => Going(p) /\ senders'[p] = senders[p]
    BY <2>1 DEF Released, Going, Broken
  <2>3. QED
    BY <2>1, <2>2, SameSound
<1>11. ASSUME NEW e \in manager.batch, NextEvent(e) PROVE \A p \in Socks : Sound(p)'
  <2> SUFFICES ASSUME NEW p \in Socks PROVE Sound(p)'
    OBVIOUS
  <2>1. UNCHANGED <<stage, link, senders, given, wire, sending>>
    BY <1>11 DEF NextEvent
  <2>2. QED
    BY <2>1, SameSound DEF Going, Broken
<1>12. CASE Poll
  <2> SUFFICES ASSUME NEW p \in Socks PROVE Sound(p)'
    OBVIOUS
  <2>1. UNCHANGED <<stage, link, senders, given, wire, sending>>
    BY <1>12 DEF Poll
  <2>2. QED
    BY <2>1, SameSound DEF Going, Broken
<1>13. CASE ReadPipe
  <2> SUFFICES ASSUME NEW p \in Socks PROVE Sound(p)'
    OBVIOUS
  <2>1. UNCHANGED <<stage, link, senders, given, wire, sending>>
    BY <1>13 DEF ReadPipe
  <2>2. QED
    BY <2>1, SameSound DEF Going, Broken
<1>14. CASE FlushEvent
  <2> SUFFICES ASSUME NEW p \in Socks PROVE Sound(p)'
    OBVIOUS
  <2> DEFINE s == manager.current.sock
  <2>1. UNCHANGED <<stage, link, given, taken, sending>> /\ s \in Socks
    BY <1>0, <1>14 DEF FlushEvent, Threads
  <2>2. CASE pointer[s] = "live"
    <3>1. Flush(s) /\ stage[s] = "open"
      BY <1>0, <2>1, <2>2, <1>14 DEF FlushEvent, Owned
    <3> HIDE DEF s
    <3>2. p # s => wire'[p] = wire[p] /\ senders'[p] = senders[p]
      BY <1>0, <3>1 DEF Flush
    <3>3. CASE p = s
      BY <2>1, <3>1, <3>3, FlushSound DEF Going, Broken
    <3>4. CASE p # s
      BY <2>1, <3>2, <3>4, SameSound DEF Going, Broken
    <3>5. QED
      BY <3>3, <3>4
  <2>3. CASE pointer[s] # "live"
    <3>1. UNCHANGED <<wire, senders>>
      BY <2>3, <1>14 DEF FlushEvent
    <3>2. QED
      BY <2>1, <3>1, SameSound DEF Going, Broken
  <2>4. QED
    BY <2>2, <2>3
<1>15. CASE EndBatch
  <2> SUFFICES ASSUME NEW p \in Socks PROVE Sound(p)'
    OBVIOUS
  <2>1. UNCHANGED <<stage, link, senders, given, wire, sending>>
    BY <1>15 DEF EndBatch
  <2>2. QED
    BY <2>1, SameSound DEF Going, Broken
<1>16. CASE Handle
  <2> SUFFICES ASSUME NEW p \in Socks PROVE Sound(p)'
    OBVIOUS
  <2>1. UNCHANGED <<stage, link, senders, given, wire, sending>>
    BY <1>16 DEF Handle
  <2>2. QED
    BY <2>1, SameSound DEF Going, Broken
<1>17. ASSUME NEW closed \in SUBSET Socks, Call(closed) PROVE \A p \in Socks : Sound(p)'
  <2> SUFFICES ASSUME NEW p \in Socks PROVE Sound(p)'
    OBVIOUS
  <2>1. Released(closed) /\ UNCHANGED <<given, wire, sending>>
    BY <1>17 DEF Call
  <2>2. Going(p)' => Going(p) /\ senders'[p] = senders[p]
    BY <2>1 DEF Released, Going, Broken
  <2>3. QED
    BY <2>1, <2>2, SameSound
<1>18. CASE UNCHANGED vars
  <2> SUFFICES ASSUME NEW p \in Socks PROVE Sound(p)'
    OBVIOUS
  <2>1. UNCHANGED <<stage, link, senders, given, wire, sending>>
    BY <1>18 DEF vars
  <2>2. QED
    BY <2>1, SameSound DEF Going, Broken
<1>19. QED
  BY <1>1, <1>2, <1>3, <1>4, <1>5, <1>6, <1>7, <1>8, <1>9, <1>10, <1>11, <1>12, <1>13, <1>14, <1>15, <1>16, <1>17, <1>18 DEF Next

\* Every step keeps the state well formed.
LEMMA TypeStep ==
    ASSUME IInv, [Next]_vars
    PROVE  TypeOK'
<1>0. IInv /\ TypeOK /\ Owned /\ Threads /\ None \notin Socks
  BY SocketsAssumption DEF IInv
<1>1. ASSUME NEW s \in Socks, PeerReads(s) PROVE TypeOK'
  <2>1. /\ taken' = [taken EXCEPT ![s] = Len(wire[s])]
        /\ UNCHANGED <<stage, link, unread, senders, interest, pointer, given, wire,
                       mutex, closing, manager, pipe, calls, sending>>
    BY <1>1 DEF PeerReads
  <2>2. Room \in Nat /\ \A p \in Socks : Len(wire[p]) \in Nat
    BY <1>0, SocketsAssumption DEF TypeOK
  <2>3. taken' \in [Socks -> Nat]
    BY <1>0, <2>1, <2>2 DEF TypeOK
  <2>4. \A p \in Socks : taken'[p] <= Len(wire[p]) /\ Len(wire[p]) - taken'[p] <= Room
    BY <1>0, <2>1, <2>2 DEF TypeOK
  <2>5. QED
    BY <1>0, <2>1, <2>3, <2>4 DEF TypeOK
<1>2. ASSUME NEW s \in Socks, PeerWrites(s) PROVE TypeOK'
  BY <1>0, <1>2 DEF TypeOK, PeerWrites
<1>3. ASSUME NEW s \in Socks, Connected(s) PROVE TypeOK'
  BY <1>0, <1>3 DEF TypeOK, Connected
<1>4. ASSUME NEW s \in Socks, Lost(s) PROVE TypeOK'
  BY <1>0, <1>4 DEF TypeOK, Lost
<1>5. ASSUME NEW s \in Socks, Send(s) PROVE TypeOK'
  <2>1. /\ wire'[s] \in Seq(Nat) /\ Len(wire'[s]) >= taken[s] /\ Len(wire'[s]) - taken[s] <= Room
        /\ sending' \in Held \cup {NoSending}
    BY <1>5, SendGoesOn
  <2>2. /\ wire' = [wire EXCEPT ![s] = wire'[s]] /\ given' \in [Socks -> Nat]
        /\ UNCHANGED <<stage, link, unread, senders, interest, pointer, taken,
                       mutex, closing, manager, pipe, calls>>
    <3>1. /\ wire' = [wire EXCEPT ![s] = wire[s] \o Units(given[s] + 1, IF CanSend(s) THEN Sendable(s, Size) ELSE 0)]
          /\ given' = [given EXCEPT ![s] = given[s] + Size]
      BY <1>5 DEF Send
    <3>2. Size \in Nat /\ given \in [Socks -> Nat] /\ wire \in [Socks -> Seq(Nat)]
      BY <1>0, SocketsAssumption DEF TypeOK
    <3>3. wire' = [wire EXCEPT ![s] = wire'[s]] /\ given' \in [Socks -> Nat]
      BY <3>1, <3>2
    <3>4. QED
      BY <3>3, <1>5 DEF Send
  <2>3. QED
    BY <1>0, <2>1, <2>2 DEF TypeOK
<1>6. ASSUME NEW s \in Socks, Disconnect(s) PROVE TypeOK'
  <2>1. /\ stage[s] = "open" /\ Flush(s) /\ link' = [link EXCEPT ![s] = "shut"]
        /\ UNCHANGED <<stage, unread, pointer, given, taken, mutex, closing, manager, pipe, calls, sending>>
    BY <1>6 DEF Disconnect
  <2>2. ~Going(s)'
    BY <1>0, <2>1 DEF Going, Broken, TypeOK
  <2>3. /\ senders'[s] \in Seq(Packets) /\ wire'[s] \in Seq(Nat)
        /\ Len(wire'[s]) >= taken[s] /\ Len(wire'[s]) - taken[s] <= Room
    BY <2>1, <2>2, FlushSound
  <2>4. /\ senders' = [senders EXCEPT ![s] = senders'[s]] /\ wire' = [wire EXCEPT ![s] = wire'[s]]
        /\ interest' \in [Socks -> BOOLEAN]
    BY <1>0, <2>1 DEF Flush, TypeOK
  <2>5. QED
    BY <1>0, <2>1, <2>3, <2>4 DEF TypeOK
<1>7. ASSUME NEW s \in Socks, CloseOutside(s) PROVE TypeOK'
  BY <1>0, <1>7 DEF TypeOK, CloseOutside
<1>8. ASSUME NEW s \in Socks, NEW connected \in BOOLEAN, Open(s, connected) PROVE TypeOK'
  BY <1>0, <1>8 DEF TypeOK, Open
<1>9. CASE AddSender
  <2>0. sending.sock \in Socks
    BY <1>0, <1>9 DEF AddSender, Held, TypeOK
  <2>9. PICK s \in Socks : s = sending.sock
    BY <2>0
  <2>1. /\ sending' = NoSending
        /\ UNCHANGED <<stage, link, unread, pointer, given, wire, taken, mutex, closing, manager, pipe, calls>>
    BY <1>9 DEF AddSender
  <2>2. CASE pointer[s] = "live"
    <3>1. senders'[s] \in Seq(Packets)
      BY <2>2, <2>9, <1>9, AddGoesOn
    <3>2. senders' = [senders EXCEPT ![s] = senders'[s]] /\ interest' = [interest EXCEPT ![s] = TRUE]
      BY <1>0, <2>2, <2>9, <1>9 DEF AddSender, TypeOK
    <3>3. QED
      BY <1>0, <2>1, <3>1, <3>2 DEF TypeOK
  <2>3. CASE pointer[s] # "live"
    <3>1. UNCHANGED <<senders, interest>>
      BY <2>3, <2>9, <1>9 DEF AddSender
    <3>2. QED
      BY <1>0, <2>1, <3>1 DEF TypeOK
  <2>4. QED
    BY <2>2, <2>3
<1>10. CASE CloseRemoves
  <2>1. /\ closing \in Socks /\ Released({closing}) /\ closing' = None
        /\ UNCHANGED <<unread, given, wire, taken, mutex, manager, calls, sending>>
    BY <1>0, <1>10 DEF CloseRemoves, TypeOK
  <2>8. /\ link' \in [Socks -> {"connecting", "up", "lost", "shut"}]
        /\ stage' \in [Socks -> {"new", "open", "closed"}]
        /\ pointer' \in [Socks -> {"none", "live", "null", "freed"}]
        /\ pipe' \subseteq Socks /\ senders' \in [Socks -> Seq(Packets)]
        /\ interest' \in [Socks -> BOOLEAN]
    BY <1>0, <2>1 DEF Released, TypeOK
  <2>9. QED
    BY <1>0, <2>1, <2>8 DEF TypeOK
<1>11. ASSUME NEW e \in manager.batch, NextEvent(e) PROVE TypeOK'
  <2>1. /\ manager' \in [pc : {"poll", "next", "flush", "wait"}, batch : SUBSET Item,
                         current : Item, removed : SUBSET Socks]
        /\ mutex' \in {"nobody", "manager", "server"}
    BY <1>0, <1>11 DEF NextEvent, TypeOK
  <2>2. UNCHANGED <<stage, link, unread, senders, interest, pointer, given, wire, taken,
                   closing, pipe, calls, sending>>
    BY <1>11 DEF NextEvent
  <2>3. QED
    BY <1>0, <2>1, <2>2 DEF TypeOK
<1>12. CASE Poll
  <2>1. Ready \subseteq Item
    <3>1. PipeItem \in Item
      BY DEF PipeItem, NoItem, Item
    <3>2. \A t \in Socks : Event(t) \in Item
      <4>1. \A t \in Socks : interest[t] \in BOOLEAN /\ unread[t] \in BOOLEAN
        BY <1>0 DEF TypeOK
      <4> DEFINE out(t) == interest[t] /\ (Broken(t) \/ (link[t] = "up" /\ Free(t) > 0))
                 in(t) == unread[t] \/ link[t] = "lost"
      <4>2. \A t \in Socks : out(t) \in BOOLEAN /\ in(t) \in BOOLEAN
        BY <4>1
      <4> HIDE DEF out, in
      <4>3. \A t \in Socks : [sock |-> t, out |-> out(t), in |-> in(t), error |-> link[t] = "lost"] \in Item
        BY <4>2 DEF Item
      <4>4. QED
        BY <4>3 DEF Event, out, in
    <3>3. QED
      BY <3>1, <3>2 DEF Ready, Live
  <2>2. manager' \in [pc : {"poll", "next", "flush", "wait"}, batch : SUBSET Item,
                      current : Item, removed : SUBSET Socks]
    BY <1>0, <2>1, <1>12 DEF Poll, TypeOK
  <2>3. UNCHANGED <<stage, link, unread, senders, interest, pointer, given, wire, taken,
                   mutex, closing, pipe, calls, sending>>
    BY <1>12 DEF Poll
  <2>4. QED
    BY <1>0, <2>2, <2>3 DEF TypeOK
<1>13. CASE ReadPipe
  BY <1>0, <1>13 DEF TypeOK, ReadPipe
<1>14. CASE FlushEvent
  <2>0. manager.current.sock \in Socks
    BY <1>0, <1>14 DEF FlushEvent, Threads
  <2>9. PICK s \in Socks : s = manager.current.sock
    BY <2>0
  <2>1. /\ mutex' = "nobody"
        /\ UNCHANGED <<stage, link, unread, pointer, given, taken, closing, pipe, calls, sending>>
    BY <1>0, <1>14 DEF FlushEvent, Threads
  <2>2. manager' \in [pc : {"poll", "next", "flush", "wait"}, batch : SUBSET Item,
                      current : Item, removed : SUBSET Socks]
    BY <1>0, <1>14 DEF FlushEvent, TypeOK, Item
  <2>3. CASE pointer[s] = "live"
    <3>1. Flush(s) /\ stage[s] = "open"
      BY <1>0, <2>3, <2>9, <1>14 DEF FlushEvent, Owned
    <3>2. Going(s)' => Going(s)
      BY <2>1 DEF Going, Broken
    <3>3. /\ senders'[s] \in Seq(Packets) /\ wire'[s] \in Seq(Nat)
          /\ Len(wire'[s]) >= taken[s] /\ Len(wire'[s]) - taken[s] <= Room
      BY <2>1, <3>1, <3>2, FlushSound
    <3>4. /\ senders' = [senders EXCEPT ![s] = senders'[s]] /\ wire' = [wire EXCEPT ![s] = wire'[s]]
          /\ interest' \in [Socks -> BOOLEAN]
      BY <1>0, <3>1 DEF Flush, TypeOK
    <3>5. QED
      BY <1>0, <2>1, <2>2, <3>3, <3>4 DEF TypeOK
  <2>4. CASE pointer[s] # "live"
    <3>1. UNCHANGED <<wire, senders, interest>>
      BY <2>4, <2>9, <1>14 DEF FlushEvent
    <3>2. QED
      BY <1>0, <2>1, <2>2, <3>1 DEF TypeOK
  <2>5. QED
    BY <2>3, <2>4
<1>15. CASE EndBatch
  BY <1>0, <1>15 DEF TypeOK, EndBatch, NoItem, Item
<1>16. CASE Handle
  <2>1. /\ manager' \in [pc : {"poll", "next", "flush", "wait"}, batch : SUBSET Item,
                         current : Item, removed : SUBSET Socks]
        /\ mutex' \in {"nobody", "manager", "server"} /\ calls' \in Seq({"error", "readable"})
    <3>1. manager \in [pc : {"poll", "next", "flush", "wait"}, batch : SUBSET Item,
                       current : Item, removed : SUBSET Socks]
          /\ mutex \in {"nobody", "manager", "server"} /\ calls \in Seq({"error", "readable"})
      BY <1>0 DEF TypeOK
    <3>2. \A a, b \in BOOLEAN : (IF a THEN <<"error">> ELSE <<>>) \o (IF b THEN <<"readable">> ELSE <<>>)
                              \in Seq({"error", "readable"})
      <4>1. <<>> \in Seq({"error", "readable"}) /\ <<"error">> \in Seq({"error", "readable"})
            /\ <<"readable">> \in Seq({"error", "readable"})
        OBVIOUS
      <4>2. QED
        BY <4>1, ConcatProperties
    <3>3. manager.current.error \in BOOLEAN /\ manager.current.in \in BOOLEAN
      BY <3>1 DEF Item
    <3>4. CASE pointer[manager.current.sock] = "live"
      BY <3>1, <3>2, <3>3, <3>4, <1>16 DEF Handle
    <3>5. CASE pointer[manager.current.sock] # "live"
      BY <3>1, <3>5, <1>16 DEF Handle
    <3>6. QED
      BY <3>4, <3>5
  <2>2. UNCHANGED <<stage, link, unread, senders, interest, pointer, given, wire, taken, closing, pipe, sending>>
    BY <1>16 DEF Handle
  <2>3. QED
    BY <1>0, <2>1, <2>2 DEF TypeOK
<1>17. ASSUME NEW closed \in SUBSET Socks, Call(closed) PROVE TypeOK'
  <2>1. /\ closed \subseteq Socks /\ Released(closed) /\ UNCHANGED <<given, wire, taken, closing, sending>>
    BY <1>17 DEF Call
  <2>2. /\ unread' \in [Socks -> BOOLEAN] /\ mutex' \in {"nobody", "manager", "server"}
        /\ manager' \in [pc : {"poll", "next", "flush", "wait"}, batch : SUBSET Item,
                         current : Item, removed : SUBSET Socks]
    BY <1>0, <1>17 DEF Call, TypeOK
  <2>3. calls' \in Seq({"error", "readable"})
    <3>1. calls' = Tail(calls) \/ calls' = <<>>
      BY <1>17 DEF Call, CallsLeft
    <3>2. calls \in Seq({"error", "readable"}) /\ calls # <<>>
      BY <1>0, <1>17 DEF Call, TypeOK
    <3>3. Tail(calls) \in Seq({"error", "readable"}) /\ <<>> \in Seq({"error", "readable"})
      BY <3>2, HeadTailProperties
    <3>4. QED
      BY <3>1, <3>3
  <2>8. /\ link' \in [Socks -> {"connecting", "up", "lost", "shut"}]
        /\ stage' \in [Socks -> {"new", "open", "closed"}]
        /\ pointer' \in [Socks -> {"none", "live", "null", "freed"}]
        /\ pipe' \subseteq Socks /\ senders' \in [Socks -> Seq(Packets)]
        /\ interest' \in [Socks -> BOOLEAN]
    BY <1>0, <2>1 DEF Released, TypeOK
  <2>9. QED
    BY <1>0, <2>1, <2>2, <2>3, <2>8 DEF TypeOK
<1>18. CASE UNCHANGED vars
  BY <1>0, <1>18 DEF TypeOK, vars
<1>19. QED
  BY <1>1, <1>2, <1>3, <1>4, <1>5, <1>6, <1>7, <1>8, <1>9, <1>10, <1>11, <1>12, <1>13, <1>14, <1>15, <1>16, <1>17, <1>18 DEF Next

-----------------------------------------------------------------------------
\* The initial state satisfies the invariant.
LEMMA InitInv == Init => IInv
<1> SUFFICES ASSUME Init PROVE IInv
  OBVIOUS
<1>1. None \notin Socks /\ Room \in Nat
  BY SocketsAssumption
<1>2. TypeOK
  BY <1>1 DEF Init, TypeOK, NoItem, Item
<1>3. Owned /\ Fresh /\ Threads /\ CalledIsOpen
  BY <1>1 DEF Init, Owned, Fresh, Threads, CalledIsOpen, NoItem, NoSending
<1>4. InOrder /\ Ordered
  BY DEF Init, InOrder, Ordered, Going
<1>5. QED
  BY <1>2, <1>3, <1>4 DEF IInv

\* Every step keeps the invariant.
LEMMA StepInv == IInv /\ [Next]_vars => IInv'
<1> SUFFICES ASSUME IInv, [Next]_vars PROVE IInv'
  OBVIOUS
<1>1. TypeOK' /\ Owned' /\ Fresh' /\ Threads' /\ CalledIsOpen'
  BY TypeStep, OwnedStep, FreshStep, ThreadsStep, CalledIsOpenStep
<1>2. \A p \in Socks : Sound(p)'
  BY SoundStep
<1>3. InOrder' /\ Ordered'
  BY <1>2 DEF Sound, InOrder, Ordered, WireCounts, InTurn, Going
<1>4. QED
  BY <1>1, <1>3 DEF IInv

\* The invariant holds in every reachable state.
THEOREM Inductive == Spec => []IInv
  BY InitInv, StepInv, PTL DEF Spec

\* The sockets are always well formed: in particular what is queued is never an
\* empty packet, and what the system was handed never exceeds its buffer.
THEOREM TypeCorrect == Spec => []TypeOK
<1>1. IInv => TypeOK
  BY DEF IInv
<1>2. QED
  BY <1>1, Inductive, PTL

\* The peer of a socket is sent the units in the order they were given, none
\* twice and none missing, whichever of the three threads writes them.
THEOREM OrderCorrect == Spec => []InOrder
<1>1. IInv => InOrder
  BY DEF IInv
<1>2. QED
  BY <1>1, Inductive, PTL

\* A socket that was closed, at any moment and by any call, is not called again,
\* and no pointer that was freed is read.
THEOREM LeftCorrect == Spec => []ClosedIsLeft
<1>1. IInv => ClosedIsLeft
  <2> SUFFICES ASSUME IInv PROVE ClosedIsLeft
    OBVIOUS
  <2>1. CalledIsOpen
    BY DEF IInv
  <2>2. PointersKept
    BY DEF IInv, Threads, PointersKept
  <2>3. QED
    BY <2>1, <2>2 DEF ClosedIsLeft
<1>2. QED
  BY <1>1, Inductive, PTL


-----------------------------------------------------------------------------
(* The requests of a connection of HTTP.  Decodings, jobs and packets wait in *)
(* three queues that are taken from at different times: each is what is left  *)
(* of the segments that came, so that where it begins tells all of it.         *)

CONSTANTS Paths, Kinds, Frames, MaxRequests
VARIABLES requests, waiting, segments, decodings, jobs, handed, packets, buffer, parsed, peer, isWS,
          died, disconnecting, handled

H == INSTANCE HTTPSession WITH wire <- segments

SegmentParsed == [request : Nat, ends : BOOLEAN, whole : BOOLEAN]
SegmentSent == [request : Nat, ends : BOOLEAN]
RequestSent == [kind : Kinds \cup Frames, path : Paths \cup {H!NoPath}, cut : {"no", "header", "body"}]

RequestsShape ==
    /\ requests \in Seq(RequestSent) /\ Len(requests) <= MaxRequests
    /\ segments \in Seq(SegmentSent) /\ parsed \in Seq(SegmentParsed)
    /\ decodings \in Seq(Nat) /\ jobs \in Seq(Nat) /\ packets \in Seq(Nat)
    /\ peer \in [connected : BOOLEAN, path : Paths \cup {H!NoPath}, listener : BOOLEAN, listed : BOOLEAN]
    /\ waiting \in BOOLEAN /\ handed \in BOOLEAN /\ isWS \in BOOLEAN /\ died \in BOOLEAN
    /\ disconnecting \in BOOLEAN

\* The last numbers up to n.
LastUpTo(s, n) == Len(s) <= n /\ \A i \in 1 .. Len(s) : s[i] = n - Len(s) + i

\* What waits: nothing is decoded after it was handled, and no packet leaves
\* before its decoding but with an answer.
Queues ==
    /\ LastUpTo(decodings, Len(parsed)) /\ LastUpTo(jobs, Len(parsed)) /\ Len(jobs) <= Len(decodings)
    /\ ~isWS => LastUpTo(packets, Len(parsed)) /\ Len(decodings) <= Len(packets)
    /\ \A i \in 1 .. Len(packets) : packets[i] \in 1 .. Len(parsed)

\* The segment that ends what another began.
Completes(s, other) == s.request = other.request /\ s.ends

\* A segment belongs to a request, and if it does not end it, the next one does.
Segments ==
    /\ \A i \in 1 .. Len(parsed) : /\ parsed[i].request \in 1 .. Len(requests)
                                   /\ ~parsed[i].ends => requests[parsed[i].request].cut # "no"
    /\ \A i \in 1 .. Len(segments) : /\ segments[i].request \in 1 .. Len(requests)
                                     /\ ~segments[i].ends => requests[segments[i].request].cut # "no"
    /\ \A i \in 1 .. Len(parsed) : ~parsed[i].ends =>
           IF i < Len(parsed) THEN Completes(parsed[i + 1], parsed[i])
           ELSE died \/ (segments # <<>> /\ Completes(segments[1], parsed[i]))
    /\ \A i \in 1 .. Len(segments) : ~segments[i].ends =>
           i < Len(segments) /\ Completes(segments[i + 1], segments[i])

\* What was decoded and not handled began a request; what the thread waits for ends one.
Decoded ==
    /\ \A i \in (Len(parsed) - Len(decodings) + 1) .. (Len(parsed) - Len(jobs)) : ~parsed[i].ends
    /\ handed => /\ jobs # <<>> /\ parsed[jobs[1]].ends
                 /\ requests[parsed[jobs[1]].request].cut = "no" => parsed[jobs[1]].whole

Handled ==
    /\ handled.request \in 0 .. Len(requests)
    /\ H!HandledOwn

ReqInv == RequestsShape /\ Queues /\ Segments /\ Decoded /\ Handled /\ H!ListenerSound

-----------------------------------------------------------------------------
\* What is left when some of the first have gone, or one comes.
LEMMA LeftUpTo ==
    ASSUME NEW n \in Nat, NEW s \in Seq(Nat), LastUpTo(s, n), NEW k \in 1 .. Len(s) + 1
    PROVE  /\ SubSeq(s, k, Len(s)) \in Seq(Nat) /\ Len(SubSeq(s, k, Len(s))) = Len(s) - k + 1
           /\ \A i \in 1 .. Len(s) - k + 1 : SubSeq(s, k, Len(s))[i] = s[i + k - 1]
           /\ LastUpTo(SubSeq(s, k, Len(s)), n)
<1>1. /\ SubSeq(s, k, Len(s)) \in Seq(Nat)
      /\ Len(SubSeq(s, k, Len(s))) = IF k <= Len(s) THEN Len(s) - k + 1 ELSE 0
      /\ \A i \in 1 .. Len(s) - k + 1 : SubSeq(s, k, Len(s))[i] = s[k + i - 1]
  BY SubSeqProperties
<1>2. Len(SubSeq(s, k, Len(s))) = Len(s) - k + 1
  BY <1>1
<1> DEFINE t == SubSeq(s, k, Len(s))
<1> HIDE DEF t
<1>3. t \in Seq(Nat) /\ Len(t) = Len(s) - k + 1 /\ \A i \in 1 .. Len(s) - k + 1 : t[i] = s[k + i - 1]
  BY <1>1, <1>2 DEF t
<1>4. ASSUME NEW i \in 1 .. Len(s) - k + 1 PROVE t[i] = s[i + k - 1] /\ t[i] = n - Len(t) + i
  <2>1. k + i - 1 \in 1 .. Len(s) /\ k + i - 1 = i + k - 1
    OBVIOUS
  <2>2. t[i] = s[i + k - 1] /\ s[i + k - 1] = n - Len(s) + (i + k - 1)
    BY <1>3, <2>1 DEF LastUpTo
  <2>3. QED
    BY <1>3, <2>2
<1>5. QED
  BY <1>3, <1>4 DEF LastUpTo, t

LEMMA TailUpTo ==
    ASSUME NEW n \in Nat, NEW s \in Seq(Nat), LastUpTo(s, n), s # <<>>
    PROVE  Tail(s) \in Seq(Nat) /\ Len(Tail(s)) = Len(s) - 1 /\ LastUpTo(Tail(s), n)
BY HeadTailProperties DEF LastUpTo

LEMMA AppendUpTo ==
    ASSUME NEW n \in Nat, NEW s \in Seq(Nat), LastUpTo(s, n)
    PROVE  /\ Append(s, n + 1) \in Seq(Nat) /\ Len(Append(s, n + 1)) = Len(s) + 1
           /\ LastUpTo(Append(s, n + 1), n + 1)
BY DEF LastUpTo

\* Who waits among the first numbers.
LEMMA Awaiting ==
    ASSUME NEW n \in Nat, NEW s \in Seq(Nat), LastUpTo(s, n), NEW x \in 1 .. n
    PROVE  x \in H!Range(s) <=> x > n - Len(s)
<1>1. x > n - Len(s) => x - (n - Len(s)) \in 1 .. Len(s) /\ s[x - (n - Len(s))] = x
  BY DEF LastUpTo
<1>2. DOMAIN s = 1 .. Len(s) /\ \A i \in DOMAIN s : s[i] > n - Len(s)
  <2>1. DOMAIN s = 1 .. Len(s) /\ Len(s) \in Nat
    OBVIOUS
  <2>2. \A i \in 1 .. Len(s) : s[i] = n - Len(s) + i
    BY DEF LastUpTo
  <2>3. QED
    BY <2>1, <2>2
<1>3. QED
  BY <1>1, <1>2 DEF H!Range

LEMMA CardinalityIs == \A S : H!Cardinality(S) = Cardinality(S)
BY DEF H!Cardinality, Cardinality, H!IsFiniteSet, IsFiniteSet

\* Those of a queue, from its first, that are not in another.
Gone(s, T) == {i \in DOMAIN s : \A j \in 1 .. i : s[j] \notin T}

\* How many of a queue's first are not in others that begin later.
LEMMA FirstOnes ==
    ASSUME NEW n \in Nat, NEW s \in Seq(Nat), LastUpTo(s, n), NEW left \in 0 .. Len(s), NEW T,
           \A x \in 1 .. n : x \in T <=> x > n - left
    PROVE  H!Cardinality(Gone(s, T)) = Len(s) - left
<1>1. DOMAIN s = 1 .. Len(s) /\ Len(s) <= n /\ \A i \in 1 .. Len(s) : s[i] = n - Len(s) + i
  BY DEF LastUpTo
<1>2. \A i \in 1 .. Len(s) : s[i] \in T <=> i > Len(s) - left
  BY <1>1
<1>3. \A i \in 1 .. Len(s) : (\A j \in 1 .. i : s[j] \notin T) <=> i <= Len(s) - left
  BY <1>2
<1>4. Gone(s, T) = 1 .. (Len(s) - left)
  BY <1>1, <1>3 DEF Gone
<1>5. Cardinality(1 .. (Len(s) - left)) = Len(s) - left
  BY FS_Interval
<1>6. QED
  BY <1>4, <1>5, CardinalityIs

\* The decodings that the handled one leaves, and the packet that is handled with it.
LEMMA DecodingsAfter ==
    ASSUME RequestsShape, Queues, jobs # <<>>
    PROVE  /\ H!DecodingsLeft \in Seq(Nat) /\ Len(H!DecodingsLeft) = Len(jobs) - 1
           /\ LastUpTo(H!DecodingsLeft, Len(parsed))
<1> DEFINE ended == {i \in DOMAIN decodings : \A j \in 1 .. i : decodings[j] \notin H!Range(jobs)}
<1>1. /\ Len(parsed) \in Nat /\ decodings \in Seq(Nat) /\ jobs \in Seq(Nat)
      /\ LastUpTo(decodings, Len(parsed)) /\ LastUpTo(jobs, Len(parsed)) /\ Len(jobs) \in 1 .. Len(decodings)
  BY DEF RequestsShape, Queues
<1>2. H!Cardinality(ended) = Len(decodings) - Len(jobs)
  <2>1. \A x \in 1 .. Len(parsed) : x \in H!Range(jobs) <=> x > Len(parsed) - Len(jobs)
    BY <1>1, Awaiting
  <2>2. ended = Gone(decodings, H!Range(jobs))
    BY DEF Gone
  <2> HIDE DEF ended
  <2>3. Len(jobs) \in 0 .. Len(decodings)
    BY <1>1
  <2>4. H!Cardinality(Gone(decodings, H!Range(jobs))) = Len(decodings) - Len(jobs)
    BY <1>1, <2>1, <2>3, FirstOnes
  <2>5. QED
    BY <2>2, <2>4
<1>3. H!DecodingsLeft = SubSeq(decodings, H!Cardinality(ended) + 2, Len(decodings))
  BY DEF H!DecodingsLeft
<1> HIDE DEF ended
<1>4. H!DecodingsLeft = SubSeq(decodings, Len(decodings) - Len(jobs) + 2, Len(decodings))
  BY <1>2, <1>3
<1>5. PICK k \in 1 .. Len(decodings) + 1 : k = Len(decodings) - Len(jobs) + 2
  <2>1. Len(decodings) \in Nat /\ Len(jobs) \in Nat /\ 1 <= Len(jobs) /\ Len(jobs) <= Len(decodings)
    BY <1>1
  <2>2. Len(decodings) - Len(jobs) + 2 \in 1 .. Len(decodings) + 1
    BY <2>1
  <2>3. QED
    BY <2>2
<1>6. /\ SubSeq(decodings, k, Len(decodings)) \in Seq(Nat)
      /\ Len(SubSeq(decodings, k, Len(decodings))) = Len(decodings) - k + 1
      /\ LastUpTo(SubSeq(decodings, k, Len(decodings)), Len(parsed))
  BY <1>1, LeftUpTo
<1>7. Len(decodings) - k + 1 = Len(jobs) - 1
  BY <1>1, <1>5
<1>8. QED
  BY <1>4, <1>5, <1>6, <1>7

LEMMA PacketsAre ==
    ASSUME RequestsShape, Queues, ~isWS, jobs # <<>>
    PROVE  /\ H!PacketsHeld \in Seq(Nat) /\ Len(H!PacketsHeld) = Len(decodings)
           /\ LastUpTo(H!PacketsHeld, Len(parsed))
<1> DEFINE waits == H!Range(decodings) \cup H!Range(jobs)
           first == {i \in DOMAIN packets : \A j \in 1 .. i : packets[j] \notin waits}
<1>1. /\ Len(parsed) \in Nat /\ decodings \in Seq(Nat) /\ jobs \in Seq(Nat) /\ packets \in Seq(Nat)
      /\ LastUpTo(decodings, Len(parsed)) /\ LastUpTo(jobs, Len(parsed)) /\ LastUpTo(packets, Len(parsed))
      /\ Len(jobs) <= Len(decodings) /\ Len(decodings) \in 0 .. Len(packets)
  BY DEF RequestsShape, Queues
<1>2. \A x \in 1 .. Len(parsed) : x \in waits <=> x > Len(parsed) - Len(decodings)
  BY <1>1, Awaiting
<1>3. H!Cardinality(first) = Len(packets) - Len(decodings)
  <2>2. first = Gone(packets, waits)
    BY DEF Gone
  <2> HIDE DEF waits, first
  <2>3. H!Cardinality(Gone(packets, waits)) = Len(packets) - Len(decodings)
    BY <1>1, <1>2, FirstOnes
  <2>4. QED
    BY <2>2, <2>3
<1>4. H!PacketsHeld = SubSeq(packets, H!Cardinality(first) + 1, Len(packets))
  BY DEF H!PacketsHeld, H!Unique
<1> HIDE DEF first
<1>5. H!PacketsHeld = SubSeq(packets, Len(packets) - Len(decodings) + 1, Len(packets))
  BY <1>3, <1>4
<1>6. PICK k \in 1 .. Len(packets) + 1 : k = Len(packets) - Len(decodings) + 1
  <2>1. Len(decodings) \in Nat /\ Len(packets) \in Nat /\ Len(decodings) <= Len(packets)
    BY <1>1
  <2>2. Len(packets) - Len(decodings) + 1 \in 1 .. Len(packets) + 1
    BY <2>1
  <2>3. QED
    BY <2>2
<1>7. /\ SubSeq(packets, k, Len(packets)) \in Seq(Nat)
      /\ Len(SubSeq(packets, k, Len(packets))) = Len(packets) - k + 1
      /\ LastUpTo(SubSeq(packets, k, Len(packets)), Len(parsed))
  BY <1>1, LeftUpTo
<1>8. Len(packets) - k + 1 = Len(decodings)
  BY <1>1, <1>6
<1>9. QED
  BY <1>5, <1>6, <1>7, <1>8

\* The job at which the thread is.
LEMMA FirstJob ==
    ASSUME RequestsShape, Queues, jobs # <<>>
    PROVE  /\ jobs[1] \in 1 .. Len(parsed) /\ jobs[1] = Len(parsed) - Len(jobs) + 1
           /\ Len(jobs) \in Nat \ {0} /\ Len(parsed) \in Nat
<1>1. Len(jobs) \in Nat \ {0} /\ Len(parsed) \in Nat
  BY DEF RequestsShape
<1>2. Len(jobs) <= Len(parsed) /\ jobs[1] = Len(parsed) - Len(jobs) + 1
  BY <1>1 DEF Queues, LastUpTo
<1>3. QED
  BY <1>1, <1>2

-----------------------------------------------------------------------------
\* The peer, its listener and the publication that has it.
PeerRecord == [connected : BOOLEAN, path : Paths \cup {H!NoPath}, listener : BOOLEAN, listed : BOOLEAN]
Heard(p) == p \in PeerRecord /\ p.listed = p.listener /\ (p.listener => p.connected)

LEMMA PeerParts ==
    ASSUME NEW p, Heard(p)
    PROVE  /\ Heard(H!Unsubscribed(p)) /\ ~H!Unsubscribed(p).listener
           /\ Heard(H!Disconnected(H!Unsubscribed(p))) /\ ~H!Disconnected(H!Unsubscribed(p)).listener
           /\ Heard(H!Killed(p)) /\ ~H!Killed(p).listener
<1>1. p.listener \in BOOLEAN /\ p.listed \in BOOLEAN /\ (p.listed /\ ~p.listener) = FALSE
  BY DEF Heard, PeerRecord
<1>2. H!Unsubscribed(p) = [p EXCEPT !.listener = FALSE, !.listed = FALSE]
  BY <1>1 DEF H!Unsubscribed, Heard, PeerRecord
<1>3. Heard(H!Unsubscribed(p)) /\ ~H!Unsubscribed(p).listener
  BY <1>2 DEF Heard, PeerRecord
<1>4. \A q : Heard(q) /\ ~q.listener => Heard(H!Disconnected(q)) /\ ~H!Disconnected(q).listener
  BY DEF H!Disconnected, Heard, PeerRecord
<1>5. QED
  BY <1>3, <1>4 DEF H!Killed

LEMMA PreparedPeer ==
    ASSUME Heard(peer), NEW path \in Paths \cup {H!NoPath}
    PROVE  Heard(H!Prepared(path)) /\ ~H!Prepared(path).listener
<1>1. \E q : /\ H!Prepared(path) = [q EXCEPT !.path = path] /\ Heard(q) /\ ~q.listener
  BY PeerParts DEF H!Prepared
<1>2. QED
  BY <1>1 DEF Heard, PeerRecord

\* What a step that leaves the queues and what came keeps.
LEMMA OnlyPeer ==
    ASSUME ReqInv, UNCHANGED <<requests, decodings, jobs, handed, packets, parsed, isWS, handled>>,
           UNCHANGED segments \/ (died' /\ segments' = <<>>), died' \in BOOLEAN, disconnecting' \in BOOLEAN,
           died => died', UNCHANGED waiting, Heard(peer'), peer'.listener => ~died'
    PROVE  ReqInv'
<1>1. RequestsShape'
  <2>1. segments' \in Seq(SegmentSent)
    <3>1. segments \in Seq(SegmentSent) /\ <<>> \in Seq(SegmentSent)
      BY EmptySeq DEF ReqInv, RequestsShape
    <3>2. QED
      BY <3>1
  <2>2. peer' \in [connected : BOOLEAN, path : Paths \cup {H!NoPath}, listener : BOOLEAN, listed : BOOLEAN]
    BY DEF Heard, PeerRecord
  <2>3. QED
    BY <2>1, <2>2 DEF ReqInv, RequestsShape
<1>2. Queues' /\ Decoded' /\ Handled'
  BY DEF ReqInv, Queues, Decoded, Handled, H!HandledOwn
<1>3. Segments'
  <2>1. CASE UNCHANGED segments
    BY <2>1 DEF ReqInv, Segments
  <2>2. CASE died' /\ segments' = <<>>
    BY <2>2 DEF ReqInv, Segments
  <2>3. QED
    BY <2>1, <2>2
<1>4. H!ListenerSound'
  BY DEF H!ListenerSound, Heard
<1>5. QED
  BY <1>1, <1>2, <1>3, <1>4 DEF ReqInv

LEMMA PeerHeard == ReqInv => Heard(peer)
BY DEF ReqInv, RequestsShape, H!ListenerSound, Heard, PeerRecord

\* A publication's first packet, a time-out and the departure of the client.
LEMMA EndsKeep ==
    ASSUME ReqInv, H!Push \/ H!TimesOut \/ H!Leave
    PROVE  ReqInv'
<1>1. CASE H!Push
  <2>1. /\ UNCHANGED <<requests, decodings, jobs, handed, packets, parsed, isWS, handled, segments, died, waiting, peer>>
        /\ disconnecting' = TRUE
    BY <1>1 DEF H!Push
  <2>2. peer.listener => ~died
    BY DEF ReqInv, H!ListenerSound
  <2>3. died \in BOOLEAN
    BY DEF ReqInv, RequestsShape
  <2>4. QED
    BY <2>1, <2>2, <2>3, PeerHeard, OnlyPeer
<1>2. CASE H!TimesOut \/ H!Leave
  <2>1. /\ UNCHANGED <<requests, decodings, jobs, handed, packets, parsed, isWS, handled, waiting>>
        /\ UNCHANGED segments \/ segments' = <<>>
        /\ disconnecting' = TRUE /\ died' = TRUE /\ peer' = H!Killed(peer)
    BY <1>2 DEF H!TimesOut, H!Leave, H!Kill
  <2>2. Heard(peer') /\ ~peer'.listener
    BY <2>1, PeerHeard, PeerParts
  <2>3. QED
    BY <2>1, <2>2, OnlyPeer
<1>3. QED
  BY <1>1, <1>2

-----------------------------------------------------------------------------
\* One more is put at the end.
LEMMA OneMore ==
    ASSUME NEW S, NEW s \in Seq(S), NEW e \in S
    PROVE  LET t == s \o <<e>> IN
           /\ t \in Seq(S) /\ Len(t) = Len(s) + 1 /\ t[Len(s) + 1] = e
           /\ \A i \in 1 .. Len(s) : t[i] = s[i]
OBVIOUS

\* The client sends a request, in one segment or two.
LEMMA SendsKeeps ==
    ASSUME ReqInv, NEW kind \in Kinds \cup Frames, NEW path \in Paths \cup {H!NoPath},
           NEW cut \in {"no", "header", "body"}, H!Sends(kind, path, cut), waiting' \in BOOLEAN
    PROVE  ReqInv'
<1> DEFINE n == Len(requests) + 1
           r == [kind |-> kind, path |-> path, cut |-> cut]
           begin == IF cut = "no" THEN <<>> ELSE <<[request |-> n, ends |-> FALSE]>>
           end == <<[request |-> n, ends |-> TRUE]>>
<1>1. /\ n <= MaxRequests /\ requests' = Append(requests, r) /\ segments' = segments \o begin \o end
      /\ UNCHANGED <<decodings, jobs, handed, packets, buffer, parsed, peer, isWS, died, disconnecting, handled>>
  BY DEF H!Sends
<1>2. /\ Len(requests) \in Nat /\ n \in Nat /\ requests' \in Seq(RequestSent) /\ Len(requests') = n
      /\ \A i \in 1 .. Len(requests) : requests'[i] = requests[i]
      /\ requests'[n] = r /\ requests'[n].cut = cut
  BY <1>1 DEF ReqInv, RequestsShape, RequestSent
<1>3. /\ Len(segments) \in Nat /\ segments' \in Seq(SegmentSent)
      /\ \A i \in 1 .. Len(segments) : segments'[i] = segments[i]
      /\ Len(segments') = Len(segments) + (IF cut = "no" THEN 1 ELSE 2)
      /\ \A i \in Len(segments) + 1 .. Len(segments') :
             segments'[i].request = n /\ (segments'[i].ends <=> i = Len(segments'))
  <2> DEFINE e == [request |-> n, ends |-> TRUE]
             b == [request |-> n, ends |-> FALSE]
  <2>0. /\ e \in SegmentSent /\ b \in SegmentSent
        /\ e.request = n /\ b.request = n /\ e.ends /\ ~b.ends
    BY <1>2 DEF SegmentSent
  <2>1. segments \in Seq(SegmentSent) /\ Len(segments) \in Nat
    BY DEF ReqInv, RequestsShape
  <2>2. CASE cut = "no"
    <3>1. segments' = segments \o <<e>>
      BY <1>1, <2>1, <2>2
    <3> HIDE DEF n, e, b, begin, end
    <3>2. /\ segments' \in Seq(SegmentSent) /\ Len(segments') = Len(segments) + 1
          /\ segments'[Len(segments) + 1] = e /\ \A i \in 1 .. Len(segments) : segments'[i] = segments[i]
      BY <2>0, <2>1, <3>1, OneMore
    <3>3. QED
      BY <2>0, <2>1, <2>2, <3>2
  <2>3. CASE cut # "no"
    <3>1. segments' = segments \o <<b>> \o <<e>>
      BY <1>1, <2>3
    <3> HIDE DEF n, e, b, begin, end
    <3>2. /\ segments' \in Seq(SegmentSent) /\ Len(segments') = Len(segments) + 2
          /\ segments'[Len(segments) + 1] = b /\ segments'[Len(segments) + 2] = e
          /\ \A i \in 1 .. Len(segments) : segments'[i] = segments[i]
      <4> DEFINE u == segments \o <<b>>
      <4>1. /\ u \in Seq(SegmentSent) /\ Len(u) = Len(segments) + 1 /\ u[Len(segments) + 1] = b
            /\ \A i \in 1 .. Len(segments) : u[i] = segments[i]
        BY <2>0, <2>1, OneMore
      <4>2. segments' = u \o <<e>>
        BY <3>1
      <4> HIDE DEF u
      <4>3. /\ segments' \in Seq(SegmentSent) /\ Len(segments') = Len(u) + 1 /\ segments'[Len(u) + 1] = e
            /\ \A i \in 1 .. Len(u) : segments'[i] = u[i]
        BY <2>0, <4>1, <4>2, OneMore
      <4>4. QED
        BY <2>1, <4>1, <4>3
    <3>3. \A i \in Len(segments) + 1 .. Len(segments') : i = Len(segments) + 1 \/ i = Len(segments) + 2
      BY <2>1, <3>2
    <3>4. QED
      BY <2>0, <2>1, <2>3, <3>2, <3>3
  <2>4. QED
    BY <2>2, <2>3
<1> HIDE DEF n, r, begin, end
<1>4. Len(requests) = n - 1 /\ n \in Nat \ {0}
  BY <1>2 DEF n
<1>5. RequestsShape'
  BY <1>1, <1>2, <1>3 DEF ReqInv, RequestsShape
<1>6. Queues'
  BY <1>1 DEF ReqInv, Queues
<1>7. Segments'
  <2>1. \A i \in 1 .. Len(parsed) : /\ parsed[i].request \in 1 .. n
                                    /\ ~parsed[i].ends => requests'[parsed[i].request].cut # "no"
    BY <1>2, <1>4 DEF ReqInv, Segments
  <2>2. ASSUME NEW i \in 1 .. Len(segments')
        PROVE  /\ segments'[i].request \in 1 .. n
               /\ ~segments'[i].ends => requests'[segments'[i].request].cut # "no"
               /\ ~segments'[i].ends => i < Len(segments') /\ Completes(segments'[i + 1], segments'[i])
    <3>1. CASE i <= Len(segments)
      <4>1. segments'[i] = segments[i] /\ segments[i].request \in 1 .. n - 1
        BY <1>3, <1>4, <3>1 DEF ReqInv, Segments
      <4>2. ~segments[i].ends => /\ requests[segments[i].request].cut # "no"
                                 /\ i < Len(segments) /\ Completes(segments[i + 1], segments[i])
        BY <1>3, <3>1 DEF ReqInv, Segments
      <4>3. i < Len(segments) => segments'[i + 1] = segments[i + 1] /\ i < Len(segments')
        BY <1>3, <3>1
      <4>4. QED
        BY <1>2, <1>4, <4>1, <4>2, <4>3
    <3>2. CASE i > Len(segments)
      <4>1. segments'[i].request = n /\ (segments'[i].ends <=> i = Len(segments'))
        BY <1>3, <3>2
      <4>2. i # Len(segments') => /\ cut # "no" /\ i + 1 = Len(segments')
                                  /\ segments'[i + 1].request = n /\ segments'[i + 1].ends
        <5>0. i \in Nat /\ i >= Len(segments) + 1 /\ i <= Len(segments')
          BY <1>3, <3>2
        <5>1. i # Len(segments') => cut # "no" /\ i + 1 = Len(segments') /\ i + 1 \in Len(segments) + 1 .. Len(segments')
          BY <1>3, <5>0
        <5>2. QED
          BY <1>3, <5>1
      <4>3. QED
        BY <1>2, <1>4, <4>1, <4>2 DEF Completes
    <3>3. QED
      BY <1>3, <3>1, <3>2
  <2>3. ASSUME NEW i \in 1 .. Len(parsed), ~parsed[i].ends
        PROVE  IF i < Len(parsed) THEN Completes(parsed[i + 1], parsed[i])
               ELSE died \/ (segments' # <<>> /\ Completes(segments'[1], parsed[i]))
    <3>1. segments # <<>> => 1 \in 1 .. Len(segments) /\ segments' # <<>>
      BY <1>3
    <3>2. QED
      BY <1>3, <2>3, <3>1 DEF ReqInv, Segments
  <2>4. QED
    BY <1>1, <1>2, <2>1, <2>2, <2>3 DEF Segments
<1>8. Decoded'
  <2>1. handed => jobs # <<>> /\ parsed[jobs[1]].request \in 1 .. Len(requests)
    <3>1. jobs # <<>> => jobs[1] \in 1 .. Len(parsed)
      BY FirstJob DEF ReqInv
    <3>2. QED
      BY <3>1 DEF ReqInv, Decoded, Segments
  <2>2. QED
    BY <1>1, <1>2, <2>1 DEF ReqInv, Decoded
<1>9. Handled'
  BY <1>1, <1>2, <1>4 DEF ReqInv, Handled, H!HandledOwn
<1>10. H!ListenerSound'
  BY <1>1 DEF ReqInv, H!ListenerSound
<1>11. QED
  BY <1>5, <1>6, <1>7, <1>8, <1>9, <1>10 DEF ReqInv

LEMMA AsksKeep ==
    ASSUME ReqInv, H!Ask \/ H!SendFrame
    PROVE  ReqInv'
<1>1. CASE H!Ask
  <2>1. PICK kind \in Kinds, path \in Paths, cut \in {"no", "header", "body"} : H!Sends(kind, path, cut)
    BY <1>1 DEF H!Ask
  <2>2. waiting' \in BOOLEAN
    BY <1>1 DEF H!Ask
  <2>3. QED
    BY <2>1, <2>2, SendsKeeps
<1>2. CASE H!SendFrame
  <2>1. PICK kind \in Frames : H!Sends(kind, peer.path, "no")
    BY <1>2 DEF H!SendFrame
  <2>2. waiting' \in BOOLEAN /\ peer.path \in Paths \cup {H!NoPath}
    BY <1>2 DEF H!SendFrame, ReqInv, RequestsShape
  <2>3. QED
    BY <2>1, <2>2, SendsKeeps
<1>3. QED
  BY <1>1, <1>2

-----------------------------------------------------------------------------
\* A segment comes; its decoding waits, and its packet.
LEMMA ReceiveKeeps ==
    ASSUME ReqInv, H!Receive
    PROVE  ReqInv'
<1> DEFINE e == [request |-> Head(segments).request, ends |-> Head(segments).ends, whole |-> FALSE]
           id == Len(parsed) + 1
<1>1. /\ segments # <<>> /\ segments' = Tail(segments)
      /\ UNCHANGED <<requests, waiting, handed, buffer, peer, isWS, died, disconnecting, handled>>
      /\ IF died THEN UNCHANGED <<decodings, jobs, packets, parsed>>
         ELSE /\ parsed' = Append(parsed, e) /\ decodings' = Append(decodings, id) /\ jobs' = Append(jobs, id)
              /\ packets' = IF isWS THEN packets ELSE Append(packets, id)
  BY DEF H!Receive
<1>2. /\ segments \in Seq(SegmentSent) /\ parsed \in Seq(SegmentParsed) /\ Len(parsed) \in Nat
      /\ decodings \in Seq(Nat) /\ jobs \in Seq(Nat) /\ packets \in Seq(Nat)
  BY DEF ReqInv, RequestsShape
<1>3. /\ segments' \in Seq(SegmentSent) /\ Len(segments') = Len(segments) - 1 /\ Len(segments) \in Nat \ {0}
      /\ \A i \in 1 .. Len(segments') : segments'[i] = segments[i + 1]
      /\ Head(segments) = segments[1] /\ segments[1] \in SegmentSent
  BY <1>1, <1>2, HeadTailProperties
<1>4. \A i \in 1 .. Len(segments') : i + 1 \in 1 .. Len(segments)
  BY <1>3
<1>5. /\ \A i \in 1 .. Len(segments') : /\ segments'[i].request \in 1 .. Len(requests)
                                        /\ ~segments'[i].ends => requests[segments'[i].request].cut # "no"
      /\ \A i \in 1 .. Len(segments') : ~segments'[i].ends =>
             i < Len(segments') /\ Completes(segments'[i + 1], segments'[i])
  <2> SUFFICES ASSUME NEW i \in 1 .. Len(segments')
               PROVE  /\ segments'[i].request \in 1 .. Len(requests)
                      /\ ~segments'[i].ends => /\ requests[segments'[i].request].cut # "no"
                                               /\ i < Len(segments') /\ Completes(segments'[i + 1], segments'[i])
    OBVIOUS
  <2>1. segments'[i] = segments[i + 1] /\ i + 1 \in 1 .. Len(segments)
    BY <1>3, <1>4
  <2>2. /\ segments[i + 1].request \in 1 .. Len(requests)
        /\ ~segments[i + 1].ends => /\ requests[segments[i + 1].request].cut # "no"
                                    /\ i + 1 < Len(segments) /\ Completes(segments[i + 1 + 1], segments[i + 1])
    BY <2>1 DEF ReqInv, Segments
  <2>3. i + 1 < Len(segments) => i < Len(segments') /\ i + 1 \in 1 .. Len(segments')
    BY <1>3
  <2>4. QED
    BY <1>3, <2>1, <2>2, <2>3
<1>6. /\ segments[1].request \in 1 .. Len(requests)
      /\ ~segments[1].ends => /\ requests[segments[1].request].cut # "no"
                              /\ segments' # <<>> /\ Completes(segments'[1], segments[1])
  <2>1. 1 \in 1 .. Len(segments)
    BY <1>3
  <2>2. 1 < Len(segments) => segments' # <<>> /\ 1 \in 1 .. Len(segments')
    BY <1>3
  <2>3. ~segments[1].ends => 1 < Len(segments) /\ Completes(segments[1 + 1], segments[1])
    BY <2>1 DEF ReqInv, Segments
  <2>4. QED
    BY <1>3, <2>1, <2>2, <2>3 DEF ReqInv, Segments
<1>7. Handled' /\ H!ListenerSound'
  BY <1>1 DEF ReqInv, Handled, H!HandledOwn, H!ListenerSound
<1>8. CASE died
  <2>1. RequestsShape' /\ Queues' /\ Decoded'
    BY <1>1, <1>3, <1>8 DEF ReqInv, RequestsShape, Queues, Decoded
  <2>2. Segments'
    BY <1>1, <1>5, <1>8 DEF ReqInv, Segments
  <2>3. QED
    BY <1>7, <2>1, <2>2 DEF ReqInv
<1>9. CASE ~died
  <2>1. /\ e \in SegmentParsed /\ e.request = segments[1].request /\ e.ends = segments[1].ends
    BY <1>3 DEF SegmentParsed, SegmentSent
  <2> HIDE DEF e
  <2>2. /\ parsed' \in Seq(SegmentParsed) /\ Len(parsed') = id /\ parsed'[id] = e
        /\ \A i \in 1 .. Len(parsed) : parsed'[i] = parsed[i]
    <3>1. parsed' = Append(parsed, e)
      BY <1>1, <1>9
    <3>2. Append(parsed, e) \in Seq(SegmentParsed) /\ Len(Append(parsed, e)) = Len(parsed) + 1
      BY <1>2, <2>1
    <3>3. Append(parsed, e)[Len(parsed) + 1] = e /\ \A i \in 1 .. Len(parsed) : Append(parsed, e)[i] = parsed[i]
      BY <1>2
    <3>4. QED
      BY <3>1, <3>2, <3>3
  <2>3. /\ LastUpTo(decodings, Len(parsed)) /\ LastUpTo(jobs, Len(parsed)) /\ Len(jobs) <= Len(decodings)
        /\ ~isWS => LastUpTo(packets, Len(parsed)) /\ Len(decodings) <= Len(packets)
        /\ \A i \in 1 .. Len(packets) : packets[i] \in 1 .. Len(parsed)
    BY DEF ReqInv, Queues
  <2>4. /\ decodings' \in Seq(Nat) /\ Len(decodings') = Len(decodings) + 1 /\ LastUpTo(decodings', id)
        /\ jobs' \in Seq(Nat) /\ Len(jobs') = Len(jobs) + 1 /\ LastUpTo(jobs', id)
    BY <1>1, <1>2, <1>9, <2>3, AppendUpTo
  <2>5. /\ packets' \in Seq(Nat) /\ \A i \in 1 .. Len(packets') : packets'[i] \in 1 .. id
        /\ ~isWS => Len(packets') = Len(packets) + 1 /\ LastUpTo(packets', id)
    <3>1. CASE isWS
      BY <1>1, <1>2, <1>9, <2>3, <3>1
    <3>2. CASE ~isWS
      <4>1. packets' \in Seq(Nat) /\ Len(packets') = Len(packets) + 1 /\ LastUpTo(packets', id)
        BY <1>1, <1>2, <1>9, <2>3, <3>2, AppendUpTo
      <4>2. \A i \in 1 .. Len(packets') : packets'[i] \in 1 .. id
        BY <1>2, <4>1 DEF LastUpTo
      <4>3. QED
        BY <4>1, <4>2
    <3>3. QED
      BY <3>1, <3>2
  <2>6. RequestsShape'
    BY <1>1, <1>3, <2>2, <2>4, <2>5 DEF ReqInv, RequestsShape
  <2>7. Queues'
    BY <1>1, <1>2, <2>2, <2>3, <2>4, <2>5 DEF Queues
  <2>8. Segments'
    <3>1. \A i \in 1 .. id : i \in 1 .. Len(parsed) \/ i = id
      BY <1>2
    <3>2. \A i \in 1 .. Len(parsed') : /\ parsed'[i].request \in 1 .. Len(requests)
                                       /\ ~parsed'[i].ends => requests[parsed'[i].request].cut # "no"
      BY <1>6, <2>1, <2>2, <3>1 DEF ReqInv, Segments
    <3>3. ASSUME NEW i \in 1 .. Len(parsed'), ~parsed'[i].ends
          PROVE  IF i < Len(parsed') THEN Completes(parsed'[i + 1], parsed'[i])
                 ELSE segments' # <<>> /\ Completes(segments'[1], parsed'[i])
      <4>1. CASE i = id
        BY <1>2, <1>6, <2>1, <2>2, <3>3, <4>1 DEF Completes
      <4>2. CASE i \in 1 .. Len(parsed) /\ i = Len(parsed)
        <5>1. Completes(segments[1], parsed[i])
          BY <1>9, <2>2, <3>3, <4>2 DEF ReqInv, Segments
        <5>2. i + 1 = id /\ i < Len(parsed')
          BY <1>2, <2>2, <4>2
        <5>3. QED
          BY <2>1, <2>2, <4>2, <5>1, <5>2 DEF Completes
      <4>3. CASE i \in 1 .. Len(parsed) /\ i # Len(parsed)
        <5>1. i < Len(parsed) /\ i + 1 \in 1 .. Len(parsed) /\ i < Len(parsed')
          BY <1>2, <2>2, <4>3
        <5>2. Completes(parsed[i + 1], parsed[i])
          BY <2>2, <3>3, <4>3, <5>1 DEF ReqInv, Segments
        <5>3. QED
          BY <2>2, <4>3, <5>1, <5>2
      <4>4. QED
        BY <2>2, <3>1, <4>1, <4>2, <4>3
    <3>4. QED
      BY <1>1, <1>5, <3>2, <3>3 DEF Segments
  <2>9. Decoded'
    <3>1. handed => jobs' # <<>> /\ jobs'[1] = jobs[1] /\ jobs[1] \in 1 .. Len(parsed)
      <4>1. handed => jobs # <<>> /\ jobs[1] \in 1 .. Len(parsed)
        BY FirstJob DEF ReqInv, Decoded
      <4>2. jobs' # <<>> /\ 1 \in 1 .. Len(jobs')
        BY <1>2, <2>4
      <4>3. jobs # <<>> => jobs'[1] = jobs[1]
        <5>1. jobs # <<>> => jobs[1] = Len(parsed) - Len(jobs) + 1
          BY FirstJob DEF ReqInv
        <5>2. jobs'[1] = id - Len(jobs') + 1
          BY <2>4, <4>2 DEF LastUpTo
        <5>3. QED
          BY <1>2, <2>4, <5>1, <5>2
      <4>4. QED
        BY <4>1, <4>2, <4>3
    <3>2. /\ Len(parsed') - Len(decodings') + 1 = Len(parsed) - Len(decodings) + 1
          /\ Len(parsed') - Len(jobs') = Len(parsed) - Len(jobs)
      BY <1>2, <2>2, <2>4
    <3>3. \A i \in (Len(parsed) - Len(decodings) + 1) .. (Len(parsed) - Len(jobs)) : i \in 1 .. Len(parsed)
      BY <1>2, <2>3 DEF LastUpTo
    <3>4. QED
      BY <1>1, <2>2, <3>1, <3>2, <3>3 DEF ReqInv, Decoded
  <2>10. QED
    BY <1>7, <2>6, <2>7, <2>8, <2>9 DEF ReqInv
<1>10. QED
  BY <1>8, <1>9

\* The thread decodes a segment, and keeps it or waits for the session.
LEMMA DecodeKeeps ==
    ASSUME ReqInv, H!Decode
    PROVE  ReqInv'
<1>1. /\ jobs # <<>> /\ ~handed
      /\ UNCHANGED <<requests, waiting, segments, decodings, packets, peer, isWS, died, disconnecting, handled>>
  BY DEF H!Decode
<1>2. PICK id \in 1 .. Len(parsed) : /\ id = jobs[1] /\ id = Head(jobs) /\ id = Len(parsed) - Len(jobs) + 1
                                     /\ Len(jobs) \in Nat \ {0} /\ Len(parsed) \in Nat
  BY <1>1, FirstJob DEF ReqInv, RequestsShape
<1>3. /\ parsed \in Seq(SegmentParsed) /\ parsed[id] \in SegmentParsed /\ jobs \in Seq(Nat)
      /\ Len(decodings) \in Nat /\ Len(jobs) <= Len(decodings) /\ Len(decodings) <= Len(parsed)
  BY DEF ReqInv, RequestsShape, Queues, LastUpTo
<1>4. Handled' /\ H!ListenerSound'
  BY <1>1 DEF ReqInv, Handled, H!HandledOwn, H!ListenerSound
<1>5. CASE parsed[id].ends
  <2> DEFINE whole == requests[parsed[id].request].cut = "no" \/ buffer = parsed[id].request
  <2>1. parsed' = [parsed EXCEPT ![id].whole = whole] /\ handed' = TRUE /\ UNCHANGED jobs
    BY <1>2, <1>5 DEF H!Decode
  <2>2. whole \in BOOLEAN /\ (requests[parsed[id].request].cut = "no" => whole)
    OBVIOUS
  <2> HIDE DEF whole
  <2>3. /\ parsed' \in Seq(SegmentParsed) /\ Len(parsed') = Len(parsed)
        /\ \A i \in 1 .. Len(parsed) : parsed'[i].request = parsed[i].request /\ parsed'[i].ends = parsed[i].ends
        /\ parsed'[id].whole = whole
    BY <1>3, <2>1, <2>2 DEF SegmentParsed
  <2>4. RequestsShape' /\ Queues'
    BY <1>1, <2>1, <2>3 DEF ReqInv, RequestsShape, Queues
  <2>5. Segments'
    <3>1. \A i \in 1 .. Len(parsed) : i < Len(parsed) => i + 1 \in 1 .. Len(parsed)
      BY <1>2
    <3>2. QED
      BY <1>1, <2>3, <3>1 DEF ReqInv, Segments, Completes
  <2>6. Decoded'
    <3>1. \A i \in (Len(parsed) - Len(decodings) + 1) .. (Len(parsed) - Len(jobs)) : i \in 1 .. Len(parsed)
      BY <1>2, <1>3
    <3>2. QED
      BY <1>1, <1>2, <1>5, <2>1, <2>2, <2>3, <3>1 DEF ReqInv, Decoded
  <2>7. QED
    BY <1>4, <2>4, <2>5, <2>6 DEF ReqInv
<1>6. CASE ~parsed[id].ends
  <2>1. jobs' = Tail(jobs) /\ UNCHANGED <<parsed, handed>>
    BY <1>2, <1>6 DEF H!Decode
  <2>2. jobs' \in Seq(Nat) /\ Len(jobs') = Len(jobs) - 1 /\ LastUpTo(jobs', Len(parsed))
    BY <1>1, <1>2, <1>3, <2>1, TailUpTo DEF ReqInv, Queues
  <2>3. RequestsShape' /\ Segments'
    BY <1>1, <2>1, <2>2 DEF ReqInv, RequestsShape, Segments
  <2>4. Queues'
    BY <1>1, <1>2, <1>3, <2>1, <2>2 DEF ReqInv, Queues
  <2>5. Decoded'
    <3>1. \A i \in (Len(parsed) - Len(decodings) + 1) .. (Len(parsed) - Len(jobs')) :
              i = id \/ i \in (Len(parsed) - Len(decodings) + 1) .. (Len(parsed) - Len(jobs))
      BY <1>2, <1>3, <2>2
    <3>2. QED
      BY <1>1, <1>6, <2>1, <3>1 DEF ReqInv, Decoded
  <2>6. QED
    BY <1>4, <2>3, <2>4, <2>5 DEF ReqInv
<1>7. QED
  BY <1>5, <1>6

-----------------------------------------------------------------------------
\* However a request is served, the peer has a listener that is listed, or none.
LEMMA ServedPeer ==
    ASSUME Heard(peer), {waiting, disconnecting, isWS} \subseteq BOOLEAN,
           NEW path \in Paths \cup {H!NoPath}, NEW kind, H!Upgrades(path) \/ H!Serves(kind, path)
    PROVE  Heard(peer') /\ {waiting', disconnecting', isWS'} \subseteq BOOLEAN
<1> DEFINE p == H!Prepared(path)
           c == [p EXCEPT !.connected = TRUE]
           l == [c EXCEPT !.listener = TRUE, !.listed = TRUE]
<1>1. Heard(p) /\ ~p.listener
  BY PreparedPeer
<1> HIDE DEF p
<1>2. Heard(c) /\ Heard(l) /\ Heard(H!Disconnected(c)) /\ Heard(H!Disconnected(p))
  BY <1>1 DEF Heard, PeerRecord, H!Disconnected
<1>3. CASE H!Upgrades(path)
  <2>1. (peer' = c \/ peer' = H!Disconnected(p)) /\ isWS' = TRUE
    BY <1>3 DEF H!Upgrades, p
  <2>2. {waiting', disconnecting'} \subseteq BOOLEAN
    BY <1>3 DEF H!Upgrades, H!Answers, H!Closes
  <2>3. QED
    BY <1>2, <2>1, <2>2
<1>4. CASE H!Serves(kind, path)
  <2>1. \A outcome \in H!Outcomes(kind) : outcome \in {"listen", "error", "answer", "silent"}
    BY DEF H!Outcomes
  <2>2. (peer' = c \/ peer' = p \/ peer' = l) /\ UNCHANGED isWS
    BY <1>4, <2>1 DEF H!Serves, p
  <2>3. {waiting', disconnecting'} \subseteq BOOLEAN
    BY <1>4, <2>1 DEF H!Serves, H!Answers, H!Closes
  <2>4. QED
    BY <1>1, <1>2, <2>2, <2>3
<1>5. QED
  BY <1>3, <1>4

\* The session handles what was decoded, with the packet that has waited longest
\* among those of decodings that are not over: it is one of the same request.
LEMMA HandleKeeps ==
    ASSUME ReqInv, H!Handle
    PROVE  ReqInv'
<1>1. /\ handed /\ handed' = FALSE /\ jobs' = Tail(jobs) /\ decodings' = H!DecodingsLeft
      /\ UNCHANGED <<requests, segments, buffer, parsed>>
  BY DEF H!Handle
<1>2. PICK k \in 1 .. Len(parsed) : /\ k = jobs[1] /\ k = Head(jobs) /\ k = Len(parsed) - Len(jobs) + 1
                                    /\ Len(jobs) \in Nat \ {0} /\ Len(parsed) \in Nat /\ jobs # <<>>
  BY <1>1, FirstJob DEF ReqInv, RequestsShape, Decoded
<1>3. /\ parsed \in Seq(SegmentParsed) /\ jobs \in Seq(Nat) /\ requests \in Seq(RequestSent)
      /\ Len(decodings) \in Nat /\ Len(jobs) <= Len(decodings) /\ Len(decodings) <= Len(parsed)
      /\ LastUpTo(jobs, Len(parsed)) /\ packets \in Seq(Nat) /\ Len(requests) \in Nat
  BY DEF ReqInv, RequestsShape, Queues, LastUpTo
<1>4. /\ parsed[k].ends /\ (requests[parsed[k].request].cut = "no" => parsed[k].whole)
      /\ parsed[k].request \in 1 .. Len(requests)
  BY <1>1, <1>2 DEF ReqInv, Decoded, Segments
<1>5. /\ decodings' \in Seq(Nat) /\ Len(decodings') = Len(jobs) - 1 /\ LastUpTo(decodings', Len(parsed))
      /\ jobs' \in Seq(Nat) /\ Len(jobs') = Len(jobs) - 1 /\ LastUpTo(jobs', Len(parsed))
  BY <1>1, <1>2, <1>3, DecodingsAfter, TailUpTo DEF ReqInv
<1>6. Decoded'
  BY <1>1, <1>2, <1>5 DEF Decoded
<1>7. ASSUME died => died' PROVE Segments'
  BY <1>1, <1>7 DEF ReqInv, Segments
<1>8. {waiting, disconnecting, isWS, died} \subseteq BOOLEAN /\ Heard(peer)
  BY PeerHeard DEF ReqInv, RequestsShape
<1>9. ASSUME {waiting', disconnecting', isWS', died'} \subseteq BOOLEAN, Heard(peer'), packets' \in Seq(Nat)
      PROVE  RequestsShape'
  BY <1>1, <1>5, <1>9 DEF ReqInv, RequestsShape, Heard, PeerRecord
<1>10. ASSUME UNCHANGED <<packets, isWS, handled>> PROVE Queues' /\ Handled'
  <2>1. Queues'
    BY <1>1, <1>2, <1>3, <1>5, <1>10 DEF ReqInv, Queues
  <2>2. Handled'
    BY <1>1, <1>10 DEF ReqInv, Handled, H!HandledOwn
  <2>3. QED
    BY <2>1, <2>2
<1>11. CASE died
  <2>1. UNCHANGED <<packets, peer, isWS, died, disconnecting, waiting, handled>>
    BY <1>11 DEF H!Handle
  <2>2. RequestsShape' /\ Queues' /\ Handled' /\ Segments' /\ H!ListenerSound'
    BY <1>3, <1>7, <1>8, <1>9, <1>10, <2>1 DEF ReqInv, H!ListenerSound
  <2>3. QED
    BY <1>6, <2>2 DEF ReqInv
<1>12. CASE ~died /\ isWS
  <2>1. H!HandleFrame(requests[parsed[k].request].kind)
    BY <1>2, <1>12 DEF H!Handle
  <2>2. /\ UNCHANGED <<packets, isWS, waiting, handled>>
        /\ disconnecting' \in BOOLEAN /\ died' \in BOOLEAN
        /\ Heard(peer') /\ (peer'.listener => ~died')
    <3>1. UNCHANGED <<packets, isWS, waiting, handled>> /\ disconnecting' \in BOOLEAN /\ died' \in BOOLEAN
      BY <1>8, <2>1 DEF H!HandleFrame
    <3>2. peer' = H!Killed(peer) \/ UNCHANGED <<peer, died>>
      BY <2>1 DEF H!HandleFrame
    <3>3. QED
      BY <1>8, <1>12, <3>1, <3>2, PeerParts
  <2>3. RequestsShape' /\ Queues' /\ Handled' /\ Segments'
    BY <1>3, <1>7, <1>8, <1>9, <1>10, <1>12, <2>2
  <2>4. H!ListenerSound'
    BY <2>2 DEF H!ListenerSound, Heard
  <2>5. QED
    BY <1>6, <2>3, <2>4 DEF ReqInv
<1>13. CASE ~died /\ ~isWS
  <2>1. H!HandleRequest(parsed[k].request)
    BY <1>2, <1>13 DEF H!Handle
  <2> DEFINE held == H!PacketsHeld
  <2>2. held \in Seq(Nat) /\ Len(held) = Len(decodings) /\ LastUpTo(held, Len(parsed))
    BY <1>2, <1>13, PacketsAre DEF ReqInv
  <2>3. PICK id \in 1 .. Len(parsed) : id = Head(held) /\ id = Len(parsed) - Len(decodings) + 1
    <3> HIDE DEF held
    <3>1. held # <<>> /\ Head(held) = held[1] /\ 1 \in 1 .. Len(held)
      BY <1>2, <1>3, <2>2
    <3>2. held[1] = Len(parsed) - Len(decodings) + 1
      BY <2>2, <3>1 DEF LastUpTo
    <3>3. Len(parsed) - Len(decodings) + 1 \in 1 .. Len(parsed)
      BY <1>2, <1>3
    <3>4. QED
      BY <3>1, <3>2, <3>3
  <2>4. Tail(held) \in Seq(Nat) /\ Len(Tail(held)) = Len(decodings) - 1 /\ LastUpTo(Tail(held), Len(parsed))
    <3> HIDE DEF held
    <3>1. held # <<>>
      BY <1>2, <1>3, <2>2
    <3>2. QED
      BY <1>2, <2>2, <3>1, TailUpTo
  <2>5. /\ packets' = Tail(held) /\ UNCHANGED died
        /\ handled' = [request |-> parsed[k].request, of |-> parsed[id].request, whole |-> parsed[id].whole]
        /\ \E kind \in H!Commands(requests[parsed[id].request], parsed[id].whole) :
               \/ H!Upgrades(requests[parsed[id].request].path)
               \/ H!Serves(kind, requests[parsed[id].request].path)
    BY <2>1, <2>3 DEF H!HandleRequest
  <2> HIDE DEF held
  <2>6. /\ parsed[id].request = parsed[k].request
        /\ requests[parsed[k].request].cut = "no" => parsed[id].whole
    <3>1. CASE Len(decodings) = Len(jobs)
      BY <1>2, <1>4, <2>3, <3>1
    <3>2. CASE Len(decodings) # Len(jobs)
      <4>1. id < k /\ id < Len(parsed) /\ id \in (Len(parsed) - Len(decodings) + 1) .. (Len(parsed) - Len(jobs))
        BY <1>2, <1>3, <2>3, <3>2
      <4>2. ~parsed[id].ends
        BY <4>1 DEF ReqInv, Decoded
      <4>3. Completes(parsed[id + 1], parsed[id]) /\ requests[parsed[id].request].cut # "no"
        BY <4>1, <4>2 DEF ReqInv, Segments
      <4>4. id + 1 \notin (Len(parsed) - Len(decodings) + 1) .. (Len(parsed) - Len(jobs))
        BY <4>3 DEF ReqInv, Decoded, Completes
      <4>5. id + 1 = k
        BY <1>2, <1>3, <2>3, <4>1, <4>4
      <4>6. QED
        BY <4>3, <4>5 DEF Completes
    <3>3. QED
      BY <3>1, <3>2
  <2>7. Heard(peer') /\ {waiting', disconnecting', isWS'} \subseteq BOOLEAN
    <3>1. requests[parsed[id].request].path \in Paths \cup {H!NoPath}
      <4>1. parsed[id].request \in 1 .. Len(requests)
        BY <1>4, <2>6
      <4>2. requests[parsed[id].request] \in RequestSent
        BY <1>3, <4>1, ElementOfSeq
      <4>3. QED
        BY <4>2 DEF RequestSent
    <3>2. QED
      BY <1>8, <2>5, <3>1, ServedPeer
  <2>8. RequestsShape' /\ Segments'
    BY <1>7, <1>8, <1>9, <2>4, <2>5, <2>7
  <2>9. Queues'
    <3>1. \A i \in 1 .. Len(packets') : packets'[i] \in 1 .. Len(parsed)
      <4>1. /\ Len(packets') \in Nat /\ Len(packets') <= Len(parsed)
            /\ \A i \in 1 .. Len(packets') : packets'[i] = Len(parsed) - Len(packets') + i
        BY <2>4, <2>5 DEF LastUpTo
      <4>2. QED
        BY <1>2, <4>1
    <3>2. QED
      BY <1>1, <1>2, <1>3, <1>5, <2>4, <2>5, <3>1 DEF Queues
  <2>10. Handled'
    <3>1. /\ handled'.request = parsed[k].request /\ handled'.of = parsed[id].request
          /\ handled'.whole = parsed[id].whole
      BY <2>5
    <3>2. QED
      BY <1>1, <1>3, <1>4, <2>6, <3>1 DEF Handled, H!HandledOwn
  <2>11. H!ListenerSound'
    BY <1>13, <2>5, <2>7 DEF H!ListenerSound, Heard
  <2>12. QED
    BY <1>6, <2>8, <2>9, <2>10, <2>11 DEF ReqInv
<1>14. QED
  BY <1>11, <1>12, <1>13

LEMMA RequestsInit == H!HTTPAssumption /\ H!Init => ReqInv
<1> SUFFICES ASSUME H!HTTPAssumption, H!Init PROVE ReqInv
  OBVIOUS
<1> USE DEF H!Init
<1>1. RequestsShape
  <2>1. <<>> \in Seq(RequestSent) /\ <<>> \in Seq(SegmentSent) /\ <<>> \in Seq(SegmentParsed) /\ <<>> \in Seq(Nat)
        /\ Len(<<>>) = 0
    BY EmptySeq
  <2>2. Len(requests) <= MaxRequests
    <3>1. MaxRequests \in Nat /\ requests = <<>>
      BY DEF H!HTTPAssumption
    <3>2. QED
      BY <2>1, <3>1
  <2>3. peer \in [connected : BOOLEAN, path : Paths \cup {H!NoPath}, listener : BOOLEAN, listed : BOOLEAN]
    OBVIOUS
  <2>4. /\ requests \in Seq(RequestSent) /\ segments \in Seq(SegmentSent) /\ parsed \in Seq(SegmentParsed)
        /\ decodings \in Seq(Nat) /\ jobs \in Seq(Nat) /\ packets \in Seq(Nat)
    BY <2>1, Zenon
  <2>5. {waiting, handed, isWS, died, disconnecting} \subseteq BOOLEAN
    OBVIOUS
  <2>6. QED
    BY <2>2, <2>3, <2>4, <2>5 DEF RequestsShape
<1>2. Queues
  BY DEF Queues, LastUpTo
<1>3. Segments /\ Decoded
  BY DEF Segments, Decoded
<1>4. Handled /\ H!ListenerSound
  BY DEF Handled, H!HandledOwn, H!ListenerSound
<1>5. QED
  BY <1>1, <1>2, <1>3, <1>4 DEF ReqInv

LEMMA RequestsStep == ReqInv /\ [H!Next]_(H!vars) => ReqInv'
<1> SUFFICES ASSUME ReqInv, [H!Next]_(H!vars) PROVE ReqInv'
  OBVIOUS
<1>1. CASE UNCHANGED H!vars
  <2>1. /\ UNCHANGED <<requests, decodings, jobs, handed, packets, parsed, isWS, handled, segments, died, waiting, peer>>
        /\ UNCHANGED disconnecting
    BY <1>1 DEF H!vars
  <2>2. died \in BOOLEAN /\ disconnecting \in BOOLEAN /\ (peer.listener => ~died)
    BY DEF ReqInv, RequestsShape, H!ListenerSound
  <2>3. QED
    BY <2>1, <2>2, PeerHeard, OnlyPeer
<1>2. CASE H!Next
  BY <1>2, AsksKeep, ReceiveKeeps, DecodeKeeps, HandleKeeps, EndsKeep DEF H!Next
<1>3. QED
  BY <1>1, <1>2

LEMMA RequestsInductive == ASSUME H!HTTPAssumption PROVE H!Spec => []ReqInv
<1>1. H!Init => ReqInv
  BY RequestsInit
<1>2. ReqInv /\ [H!Next]_(H!vars) => ReqInv'
  BY RequestsStep
<1>3. QED
  BY <1>1, <1>2, PTL DEF H!Spec

LEMMA RequestsTypes == ReqInv => H!TypeOK
<1> SUFFICES ASSUME ReqInv PROVE H!TypeOK
  OBVIOUS
<1>1. \A s \in {decodings, jobs, packets} : H!Range(s) \subseteq DOMAIN parsed
  <2>1. \A s \in {decodings, jobs, packets} : DOMAIN s = 1 .. Len(s) /\ Len(s) \in Nat
    BY DEF ReqInv, RequestsShape
  <2>2. DOMAIN parsed = 1 .. Len(parsed) /\ Len(parsed) \in Nat
    BY DEF ReqInv, RequestsShape
  <2>3. \A s \in {decodings, jobs, packets} : \A i \in 1 .. Len(s) : s[i] \in 1 .. Len(parsed)
    BY <2>1, <2>2 DEF ReqInv, Queues, LastUpTo
  <2>4. QED
    BY <2>1, <2>2, <2>3 DEF H!Range
<1>2. \A i \in DOMAIN requests : requests[i].kind \in Kinds \cup Frames
  <2>1. requests \in Seq(RequestSent) /\ DOMAIN requests = 1 .. Len(requests)
    BY DEF ReqInv, RequestsShape
  <2>2. \A i \in DOMAIN requests : requests[i] \in RequestSent
    BY <2>1, ElementOfSeq
  <2>3. QED
    BY <2>2 DEF RequestSent
<1>3. QED
  BY <1>1, <1>2 DEF ReqInv, RequestsShape, H!TypeOK

\* For any paths, kinds of requests and number of requests, the session's queues and
\* its peer have their types (HTTPSession.cpp:46-227, TCPSession.cpp:36-73).
THEOREM RequestsTypeCorrect == ASSUME H!HTTPAssumption PROVE H!Spec => []H!TypeOK
<1>1. QED
  BY RequestsInductive, RequestsTypes, PTL

\* ... and however a request is cut, whenever the thread decodes and the session handles,
\* times out or dies, a request is handled with what its client sent for it, whole when
\* it came at once, and the session's listener is one that its publication has, of a
\* session that lives (HTTPSession.cpp:46-94, HTTPPacket.cpp:65-181).
THEOREM RequestsCorrect == ASSUME H!HTTPAssumption PROVE H!Spec => []H!RequestsSound
<1>1. ReqInv => H!RequestsSound
  BY DEF ReqInv, Handled, H!RequestsSound
<1>2. QED
  BY <1>1, RequestsInductive, PTL

-----------------------------------------------------------------------------
(* The messages of RTMP.  While no two share a buffer, one is on its way at    *)
(* most, and its header leaves out what the channel of the reader has.         *)

CONSTANTS Channels, MediaTypes, Sizes, MaxTime, MaxMessages
VARIABLES written, sender, unsized, bytes, available, fresh, read, deciphered, ahead, last, count,
          shared, back

M == INSTANCE RTMPMessages WITH wire <- bytes

Message == [channel : Channels, flag : 0 .. 3, time : 0 .. MaxTime, size : Sizes, type : M!Types, told : Nat]
Channel == [stream : {0, 1}, absolute : Nat, time : Nat, size : Nat, type : M!Types]

MessagesShape ==
    /\ written \in [Channels -> Channel] /\ read \in [Channels -> Channel]
    /\ sender \in Seq(Message) /\ bytes \in Seq(Message)
    /\ unsized \in BOOLEAN /\ fresh \in BOOLEAN /\ shared \in BOOLEAN
    /\ available \in Nat /\ deciphered \in Nat /\ ahead \in Nat /\ count \in Nat
    /\ back \subseteq Channels

\* Both ends of a channel have the same.
SameEnds(c) ==
    /\ written[c].stream = read[c].stream /\ written[c].time = read[c].time
    /\ written[c].size = read[c].size /\ written[c].type = read[c].type
    /\ c \notin back => written[c].absolute = read[c].absolute

\* The writer's channel after a message, whose size it may not have yet, and what the
\* message leaves to the reader's, whether its header was read or not.
OnItsWay(m) ==
    LET w == written[m.channel]
        r == read[m.channel]
    IN  /\ w.stream = 1 /\ w.absolute = m.told /\ w.time = m.time /\ w.type = m.type
        /\ w.size = m.size \/ (unsized /\ sender # <<>>)
        /\ m.flag = 0 => m.time = m.told
        /\ m.flag # 0 => r.stream = 1 /\ (m.channel \notin back => r.absolute + m.time = m.told)
        /\ m.flag = 3 => r.time = m.time
        /\ m.flag >= 2 => r.size = m.size /\ r.type = m.type

\* The message on its way, and the other channels.
OneAtATime ==
    /\ unsized => sender # <<>>
    /\ ~shared =>
          /\ Len(sender) + Len(bytes) <= 1
          /\ \A m \in Message : sender = <<m>> \/ bytes = <<m>> =>
                 OnItsWay(m) /\ \A c \in Channels \ {m.channel} : SameEnds(c)
          /\ sender = <<>> /\ bytes = <<>> => \A c \in Channels : SameEnds(c)

MsgInv == MessagesShape /\ OneAtATime /\ M!DecipheredOnce /\ M!ReadAsWritten

-----------------------------------------------------------------------------
\* The last message of the buffer, whose size pack takes.
LEMMA LastMessage ==
    ASSUME MessagesShape, sender # <<>>
    PROVE  M!Last(sender) \in Message /\ (Len(sender) <= 1 => sender = <<M!Last(sender)>>)
<1>1. sender \in Seq(Message) /\ Len(sender) \in Nat \ {0} /\ M!Last(sender) = sender[Len(sender)]
  BY EmptySeq DEF MessagesShape, M!Last
<1>2. Len(sender) <= 1 => Len(sender) = 1
  BY <1>1
<1>3. QED
  BY <1>1, <1>2

\* A message is known by its record.
LEMMA OneMessage == \A a, b \in Message : <<a>> = <<b>> => a = b
  OBVIOUS

LEMMA MessageFields ==
    ASSUME M!MessageAssumption, NEW m \in Message
    PROVE  /\ m.channel \in Channels /\ m.flag \in 0 .. 3 /\ m.time \in Nat /\ m.size \in Nat
           /\ m.type \in M!Types /\ m.told \in Nat
<1>1. /\ m.channel \in Channels /\ m.flag \in 0 .. 3 /\ m.time \in 0 .. MaxTime /\ m.size \in Sizes
      /\ m.type \in M!Types /\ m.told \in Nat
  BY DEF Message
<1>2. Sizes \subseteq Nat \ {0} /\ MaxTime \in Nat
  BY DEF M!MessageAssumption
<1>3. m.time \in Nat
  BY <1>1, <1>2
<1>4. m.size \in Nat
  BY <1>1, <1>2
<1>5. QED
  BY <1>1, <1>3, <1>4

LEMMA PackedChannel ==
    ASSUME M!MessageAssumption, MessagesShape, unsized => sender # <<>>, NEW c \in Channels
    PROVE  LET w == M!Packed(c) IN
           /\ w \in Channel /\ w.stream = written[c].stream /\ w.absolute = written[c].absolute
           /\ w.time = written[c].time /\ w.type = written[c].type
           /\ w.size = IF unsized THEN M!Last(sender).size ELSE written[c].size
<1>1. written[c] \in Channel
  BY DEF MessagesShape
<1>2. unsized => M!Last(sender).size \in Nat
  BY LastMessage DEF Message, M!MessageAssumption
<1>3. CASE unsized
  BY <1>1, <1>2, <1>3 DEF M!Packed, Channel
<1>4. CASE ~unsized
  BY <1>1, <1>4 DEF M!Packed
<1>5. QED
  BY <1>3, <1>4

-----------------------------------------------------------------------------
LEMMA MessagesInit ==
    ASSUME M!MessageAssumption, M!Init
    PROVE  MsgInv
<1>1. M!New \in Channel
  BY DEF M!New, Channel, M!Types
<1>2. MessagesShape
  <2>1. written \in [Channels -> Channel] /\ read \in [Channels -> Channel]
    BY <1>1 DEF M!Init
  <2>2. sender \in Seq(Message) /\ bytes \in Seq(Message)
    BY EmptySeq DEF M!Init
  <2>3. QED
    BY <2>1, <2>2 DEF M!Init, MessagesShape
<1>3. OneAtATime
  BY DEF M!Init, OneAtATime, SameEnds
<1>4. M!DecipheredOnce /\ M!ReadAsWritten
  BY DEF M!Init, M!DecipheredOnce, M!ReadAsWritten
<1>5. QED
  BY <1>2, <1>3, <1>4 DEF MsgInv

\* What is written leaves out what the channel of the writer, which is that of the reader, has.
LEMMA WriteKeeps ==
    ASSUME M!MessageAssumption, MsgInv, NEW c \in Channels, NEW type \in M!Types, NEW time \in 0 .. MaxTime,
           NEW size \in Sizes, M!Write(c, type, time, size)
    PROVE  MsgInv'
<1> DEFINE flag == M!Flag(c, type, time, size, type # "invocation")
           field == IF flag = 0 THEN time
                    ELSE IF time < written[c].absolute THEN 0 ELSE time - written[c].absolute
           w == [M!Packed(c) EXCEPT !.stream = 1, !.absolute = time, !.time = field, !.type = type]
<1> SUFFICES ASSUME NEW m, m = [channel |-> c, flag |-> flag, time |-> field, size |-> size, type |-> type,
                               told |-> time]
             PROVE  MsgInv'
  OBVIOUS
<1>1. /\ bytes = <<>> /\ count' = count + 1 /\ sender' = Append(sender, m)
      /\ written' = [written EXCEPT ![c] = w]
      /\ unsized' = (flag <= 1) /\ shared' = (shared \/ sender # <<>>)
      /\ back' = IF time < written[c].absolute THEN back \cup {c} ELSE back
      /\ UNCHANGED <<bytes, available, fresh, read, deciphered, ahead, last>>
  BY DEF M!Write
<1>2. /\ written[c] \in Channel /\ time \in Nat /\ time <= MaxTime /\ size \in Nat /\ written[c].absolute \in Nat
      /\ written \in [Channels -> Channel] /\ sender \in Seq(Message)
  BY DEF MsgInv, MessagesShape, Channel, M!MessageAssumption
<1>3. /\ flag \in 0 .. 3
      /\ flag = 0 <=> written[c].stream = 0
      /\ flag >= 2 => written[c].type = type /\ written[c].size = size
      /\ flag = 3 => written[c].time = (IF time < written[c].absolute THEN 0 ELSE time - written[c].absolute)
  BY DEF M!Flag
<1> HIDE DEF flag
<1>4. field \in 0 .. MaxTime
  BY <1>2, <1>3 DEF M!MessageAssumption
<1>5. flag # 0 => field = IF time < written[c].absolute THEN 0 ELSE time - written[c].absolute
  OBVIOUS
<1>6. flag = 0 => field = time
  OBVIOUS
<1> HIDE DEF field
<1>7. m \in Message
  BY <1>2, <1>3, <1>4 DEF Message
<1>8. /\ w \in Channel /\ w.stream = 1 /\ w.absolute = time /\ w.time = field /\ w.type = type
      /\ w.size = IF unsized THEN M!Last(sender).size ELSE written[c].size
  <2>1. M!Packed(c) \in Channel /\ M!Packed(c).size = IF unsized THEN M!Last(sender).size ELSE written[c].size
    BY PackedChannel DEF MsgInv, OneAtATime
  <2>2. field \in Nat
    BY <1>4 DEF M!MessageAssumption
  <2>3. QED
    BY <1>2, <2>1, <2>2 DEF Channel
<1>9. m.channel = c /\ m.flag = flag /\ m.time = field /\ m.size = size /\ m.type = type /\ m.told = time
  OBVIOUS
<1> HIDE DEF w
<1>10. written'[c] = w /\ \A d \in Channels \ {c} : written'[d] = written[d]
  BY <1>1, <1>2
<1>11. MessagesShape'
  <2>1. written' \in [Channels -> Channel] /\ sender' \in Seq(Message)
    BY <1>1, <1>2, <1>7, <1>8
  <2>2. unsized' \in BOOLEAN /\ shared' \in BOOLEAN /\ count' \in Nat /\ back' \subseteq Channels
    BY <1>1, <1>3 DEF MsgInv, MessagesShape
  <2>3. QED
    BY <1>1, <2>1, <2>2 DEF MsgInv, MessagesShape
<1>12. sender' # <<>>
  BY <1>1, <1>2, <1>7
<1>13. ASSUME ~shared'
       PROVE  /\ sender' = <<m>> /\ bytes' = <<>> /\ ~unsized /\ ~shared /\ Len(sender') = 1 /\ Len(bytes') = 0
              /\ \A d \in Channels : SameEnds(d)
  <2>1. sender = <<>> /\ ~shared
    BY <1>1, <1>13
  <2>2. sender' = <<m>>
    BY <1>1, <2>1
  <2>3. QED
    BY <1>1, <2>1, <2>2 DEF MsgInv, OneAtATime
<1>14. ASSUME ~shared'
       PROVE  OnItsWay(m)' /\ \A d \in Channels \ {m.channel} : SameEnds(d)'
  <2>1. SameEnds(c) /\ ~unsized
    BY <1>13, <1>14
  <2>2. \A d \in Channels \ {c} : SameEnds(d)'
    BY <1>1, <1>10, <1>13, <1>14 DEF SameEnds
  <2>3. written[c].stream \in {0, 1} /\ read'[c] = read[c]
    BY <1>1, <1>2 DEF Channel
  <2>4. flag # 0 => read[c].stream = 1
    BY <1>3, <2>1, <2>3 DEF SameEnds
  <2>5. flag # 0 /\ c \notin back' => read[c].absolute + field = time
    BY <1>1, <1>2, <1>5, <2>1 DEF SameEnds
  <2>6. flag = 3 => read[c].time = field
    BY <1>3, <1>5, <2>1 DEF SameEnds
  <2>7. flag >= 2 => read[c].size = size /\ read[c].type = type
    BY <1>3, <2>1 DEF SameEnds
  <2>8. w.size = size \/ unsized'
    <3>1. CASE flag <= 1
      BY <1>1, <3>1
    <3>2. CASE flag >= 2
      BY <1>3, <1>8, <2>1, <3>2
    <3>3. flag <= 1 \/ flag >= 2
      BY <1>3
    <3>4. QED
      BY <3>1, <3>2, <3>3
  <2>9. OnItsWay(m)'
    BY <1>6, <1>8, <1>9, <1>10, <1>12, <2>3, <2>4, <2>5, <2>6, <2>7, <2>8 DEF OnItsWay
  <2>10. QED
    BY <1>9, <2>2, <2>9
<1>15. OneAtATime'
  <2>1. ~shared' => \A n \in Message : sender' = <<n>> \/ bytes' = <<n>> => n = m
    BY <1>7, <1>13, OneMessage
  <2>2. ~shared' => \A n \in Message : sender' = <<n>> \/ bytes' = <<n>> =>
            OnItsWay(n)' /\ \A d \in Channels \ {n.channel} : SameEnds(d)'
    BY <1>14, <2>1
  <2>3. ASSUME ~shared' PROVE Len(sender') + Len(bytes') <= 1
    <3>1. Len(sender') = 1 /\ Len(bytes') = 0
      BY <1>13, <2>3
    <3>2. QED
      BY <3>1
  <2>4. QED
    BY <1>12, <2>2, <2>3 DEF OneAtATime
<1>16. M!DecipheredOnce' /\ M!ReadAsWritten'
  <2>1. (~shared' => ~shared) /\ back \subseteq back'
    BY <1>1
  <2>2. QED
    BY <1>1, <2>1 DEF MsgInv, M!DecipheredOnce, M!ReadAsWritten
<1>17. QED
  BY <1>11, <1>15, <1>16 DEF MsgInv

\* What is flushed by its own writer has the size of its channel told.
LEMMA FlushKeeps ==
    ASSUME M!MessageAssumption, MsgInv, NEW c \in Channels, M!Flush(c)
    PROVE  MsgInv'
<1> SUFFICES ASSUME NEW m, m = M!Last(sender)
             PROVE  MsgInv'
  OBVIOUS
<1> DEFINE w == M!Packed(c)
<1>1. /\ sender # <<>> /\ bytes' = bytes \o sender /\ sender' = <<>> /\ unsized' = FALSE
      /\ written' = [written EXCEPT ![c] = w] /\ shared' = (shared \/ m.channel # c)
      /\ UNCHANGED <<available, fresh, read, deciphered, ahead, last, count, back>>
  BY DEF M!Flush
<1>2. m \in Message /\ (Len(sender) <= 1 => sender = <<m>>)
  BY <1>1, LastMessage DEF MsgInv
<1>3. /\ w \in Channel /\ w.stream = written[c].stream /\ w.absolute = written[c].absolute
      /\ w.time = written[c].time /\ w.type = written[c].type
      /\ w.size = IF unsized THEN m.size ELSE written[c].size
  BY PackedChannel DEF MsgInv, OneAtATime
<1> HIDE DEF w
<1>4. written \in [Channels -> Channel] /\ sender \in Seq(Message) /\ bytes \in Seq(Message)
  BY DEF MsgInv, MessagesShape
<1>5. written'[c] = w /\ \A d \in Channels \ {c} : written'[d] = written[d]
  BY <1>1, <1>4
<1>6. MessagesShape'
  <2>1. written' \in [Channels -> Channel] /\ sender' \in Seq(Message) /\ bytes' \in Seq(Message)
    BY <1>1, <1>3, <1>4
  <2>2. unsized' \in BOOLEAN /\ shared' \in BOOLEAN
    BY <1>1 DEF MsgInv, MessagesShape
  <2>3. QED
    BY <1>1, <2>1, <2>2 DEF MsgInv, MessagesShape
<1>7. ASSUME ~shared'
      PROVE  /\ bytes' = <<m>> /\ Len(bytes') = 1 /\ m.channel = c
             /\ OnItsWay(m) /\ \A d \in Channels \ {c} : SameEnds(d)
  <2>1. ~shared /\ m.channel = c
    BY <1>1, <1>7
  <2>2. Len(sender) + Len(bytes) <= 1 /\ Len(sender) \in Nat \ {0} /\ Len(bytes) \in Nat
    BY <1>1, <1>4, <2>1, EmptySeq DEF MsgInv, OneAtATime
  <2>3. sender = <<m>> /\ Len(bytes) = 0
    BY <1>2, <2>2
  <2>4. bytes = <<>>
    BY <1>4, <2>3, EmptySeq
  <2>5. bytes' = <<m>>
    BY <1>1, <2>3, <2>4
  <2>6. QED
    BY <1>2, <2>1, <2>3, <2>5 DEF MsgInv, OneAtATime
<1>8. ASSUME ~shared'
      PROVE  OnItsWay(m)' /\ \A d \in Channels \ {m.channel} : SameEnds(d)'
  <2>1. \A d \in Channels \ {c} : SameEnds(d)'
    BY <1>1, <1>5, <1>7, <1>8 DEF SameEnds
  <2>2. w.size = m.size
    BY <1>3, <1>7, <1>8 DEF OnItsWay
  <2>3. OnItsWay(m)'
    BY <1>1, <1>3, <1>5, <1>7, <1>8, <2>2 DEF OnItsWay
  <2>4. QED
    BY <1>7, <1>8, <2>1, <2>3
<1>9. OneAtATime'
  <2>1. ~shared' => \A n \in Message : sender' = <<n>> \/ bytes' = <<n>> => n = m
    BY <1>1, <1>2, <1>7, OneMessage
  <2>2. ~shared' => \A n \in Message : sender' = <<n>> \/ bytes' = <<n>> =>
            OnItsWay(n)' /\ \A d \in Channels \ {n.channel} : SameEnds(d)'
    BY <1>8, <2>1
  <2>3. ~shared' => Len(sender') + Len(bytes') <= 1 /\ bytes' # <<>>
    BY <1>1, <1>7
  <2>4. QED
    BY <1>1, <2>2, <2>3 DEF OneAtATime
<1>10. M!DecipheredOnce' /\ M!ReadAsWritten'
  <2>1. ~shared' => ~shared
    BY <1>1
  <2>2. QED
    BY <1>1, <2>1 DEF MsgInv, M!DecipheredOnce, M!ReadAsWritten
<1>11. QED
  BY <1>6, <1>9, <1>10 DEF MsgInv

LEMMA ArriveKeeps ==
    ASSUME MsgInv, NEW upTo, M!Arrive(upTo)
    PROVE  MsgInv'
<1>1. /\ upTo \in (available + 1) .. M!Total /\ available' = upTo /\ fresh' = TRUE
      /\ UNCHANGED <<written, sender, unsized, bytes, read, deciphered, ahead, last, count, shared, back>>
  BY DEF M!Arrive
<1>2. available' \in Nat
  BY <1>1 DEF MsgInv, MessagesShape
<1>3. MessagesShape'
  BY <1>1, <1>2 DEF MsgInv, MessagesShape
<1>4. OneAtATime'
  BY <1>1 DEF MsgInv, OneAtATime, OnItsWay, SameEnds
<1>5. M!DecipheredOnce' /\ M!ReadAsWritten'
  BY <1>1 DEF MsgInv, M!DecipheredOnce, M!ReadAsWritten
<1>6. QED
  BY <1>3, <1>4, <1>5 DEF MsgInv

-----------------------------------------------------------------------------
\* The message that is looked at, and the channel after its header.
LEMMA FirstMessage ==
    ASSUME MsgInv, bytes # <<>>
    PROVE  /\ Head(bytes) \in Message /\ Tail(bytes) \in Seq(Message)
           /\ ~shared => /\ sender = <<>> /\ bytes = <<Head(bytes)>> /\ Tail(bytes) = <<>>
                         /\ OnItsWay(Head(bytes))
                         /\ \A c \in Channels \ {Head(bytes).channel} : SameEnds(c)
<1>1. bytes \in Seq(Message) /\ sender \in Seq(Message)
  BY DEF MsgInv, MessagesShape
<1>2. Head(bytes) \in Message /\ Tail(bytes) \in Seq(Message) /\ Len(bytes) \in Nat \ {0} /\ Len(sender) \in Nat
  BY <1>1, EmptySeq
<1>3. ASSUME ~shared PROVE sender = <<>> /\ bytes = <<Head(bytes)>> /\ Tail(bytes) = <<>>
  <2>1. Len(sender) + Len(bytes) <= 1
    BY <1>3 DEF MsgInv, OneAtATime
  <2>2. Len(sender) = 0 /\ Len(bytes) = 1
    BY <1>2, <2>1
  <2>3. sender = <<>>
    BY <1>1, <2>2, EmptySeq
  <2>4. Head(bytes) = bytes[1] /\ bytes = <<bytes[1]>>
    BY <1>1, <2>2
  <2>5. Len(Tail(bytes)) = 0
    BY <1>1, <2>2, HeadTailProperties
  <2>6. QED
    BY <1>2, <2>3, <2>4, <2>5, EmptySeq
<1>4. QED
  BY <1>2, <1>3 DEF MsgInv, OneAtATime

LEMMA HeaderRead ==
    ASSUME M!MessageAssumption, MsgInv, NEW m \in Message
    PROVE  LET r == read[m.channel]
               header == M!Header(m)
           IN  /\ r \in Channel /\ header \in Channel /\ header.absolute = r.absolute
               /\ header.time = (IF m.flag <= 2 THEN m.time ELSE r.time)
               /\ header.size = (IF m.flag <= 1 THEN m.size ELSE r.size)
               /\ header.type = (IF m.flag <= 1 THEN m.type ELSE r.type)
               /\ header.stream = (IF m.flag = 0 THEN 1 ELSE r.stream)
<1>1. /\ m.channel \in Channels /\ m.flag \in 0 .. 3 /\ m.time \in Nat /\ m.size \in Nat /\ m.type \in M!Types
  BY MessageFields
<1>2. read[m.channel] \in Channel
  BY <1>1 DEF MsgInv, MessagesShape
<1>3. QED
  BY <1>1, <1>2 DEF M!Header, Channel

LEMMA HeaderSizes == \A f \in 0 .. 3 : M!HeaderSize[f] \in Nat
  BY DEF M!HeaderSize

\* A header that is read once more tells the same.
LEMMA BuildPartKeeps ==
    ASSUME M!MessageAssumption, MsgInv, M!BuildPart
    PROVE  MsgInv'
<1> SUFFICES ASSUME NEW m, m = Head(bytes)
             PROVE  MsgInv'
  OBVIOUS
<1> DEFINE header == M!Header(m)
<1>1. /\ bytes # <<>>
      /\ ahead' = ahead + available - deciphered /\ deciphered' = available /\ fresh' = FALSE
      /\ read' = read \/ read' = [read EXCEPT ![m.channel] = header]
      /\ UNCHANGED <<written, sender, unsized, bytes, available, last, count, shared, back>>
  BY DEF M!BuildPart
<1>2. /\ m \in Message
      /\ ~shared => sender = <<>> /\ bytes = <<m>> /\ OnItsWay(m) /\ \A c \in Channels \ {m.channel} : SameEnds(c)
  BY <1>1, FirstMessage
<1>3. /\ read[m.channel] \in Channel /\ header \in Channel /\ header.absolute = read[m.channel].absolute
      /\ header.time = (IF m.flag <= 2 THEN m.time ELSE read[m.channel].time)
      /\ header.size = (IF m.flag <= 1 THEN m.size ELSE read[m.channel].size)
      /\ header.type = (IF m.flag <= 1 THEN m.type ELSE read[m.channel].type)
      /\ header.stream = (IF m.flag = 0 THEN 1 ELSE read[m.channel].stream)
  BY <1>2, HeaderRead
<1> HIDE DEF header
<1>4. /\ m.channel \in Channels /\ m.flag \in 0 .. 3 /\ read \in [Channels -> Channel]
      /\ ahead \in Nat /\ available \in Nat /\ deciphered = ahead
  BY <1>2 DEF Message, MsgInv, MessagesShape, M!DecipheredOnce
<1>5. ahead' = available /\ M!DecipheredOnce'
  BY <1>1, <1>4 DEF M!DecipheredOnce
<1>6. /\ read'[m.channel] \in {read[m.channel], header}
      /\ \A c \in Channels \ {m.channel} : read'[c] = read[c]
  BY <1>1, <1>4
<1>7. MessagesShape'
  <2>1. read' \in [Channels -> Channel]
    BY <1>1, <1>3, <1>4
  <2>2. QED
    BY <1>1, <1>4, <1>5, <2>1 DEF MsgInv, MessagesShape
<1>8. ASSUME ~shared
      PROVE  OnItsWay(m)' /\ \A c \in Channels \ {m.channel} : SameEnds(c)'
  <2>1. \A c \in Channels \ {m.channel} : SameEnds(c)'
    BY <1>1, <1>2, <1>6, <1>8 DEF SameEnds
  <2>2. OnItsWay(m)'
    BY <1>1, <1>2, <1>3, <1>4, <1>6, <1>8 DEF OnItsWay
  <2>3. QED
    BY <2>1, <2>2
<1>9. OneAtATime'
  <2>1. ~shared => \A n \in Message : sender = <<n>> \/ bytes = <<n>> => n = m
    BY <1>2, OneMessage
  <2>2. ~shared => \A n \in Message : sender = <<n>> \/ bytes = <<n>> =>
            OnItsWay(n)' /\ \A c \in Channels \ {n.channel} : SameEnds(c)'
    BY <1>8, <2>1
  <2>3. QED
    BY <1>1, <2>2 DEF MsgInv, OneAtATime
<1>10. M!ReadAsWritten'
  BY <1>1 DEF MsgInv, M!ReadAsWritten
<1>11. QED
  BY <1>5, <1>7, <1>9, <1>10 DEF MsgInv

\* The channel of the reader is that of the writer again, and the message what it wrote.
LEMMA BuildMessageKeeps ==
    ASSUME M!MessageAssumption, MsgInv, M!BuildMessage
    PROVE  MsgInv'
<1> SUFFICES ASSUME NEW m, m = Head(bytes)
             PROVE  MsgInv'
  OBVIOUS
<1> DEFINE header == M!Header(m)
           size == M!HeaderSize[m.flag] + header.size
           now == [header EXCEPT !.absolute = IF m.flag = 0 THEN header.time ELSE @ + header.time]
<1>1. /\ bytes # <<>> /\ available >= size
      /\ ahead' = ahead + available - deciphered - size /\ deciphered' = available - size
      /\ read' = [read EXCEPT ![m.channel] = now]
      /\ last' = [read |-> <<m.channel, header.type, header.size, read'[m.channel].absolute>>,
                  told |-> <<m.channel, m.type, m.size, m.told>>]
      /\ IF header.size = m.size THEN bytes' = Tail(bytes) /\ available' = available - size
         ELSE bytes' = <<>> /\ available' = 0
      /\ fresh' = (available' > 0)
      /\ UNCHANGED <<written, sender, unsized, count, shared, back>>
  BY DEF M!BuildMessage, M!LeftDeciphered
<1>2. /\ m \in Message /\ Tail(bytes) \in Seq(Message)
      /\ ~shared => /\ sender = <<>> /\ Tail(bytes) = <<>> /\ OnItsWay(m)
                    /\ \A c \in Channels \ {m.channel} : SameEnds(c)
  BY <1>1, FirstMessage
<1>3. /\ read[m.channel] \in Channel /\ header \in Channel /\ header.absolute = read[m.channel].absolute
      /\ header.time = (IF m.flag <= 2 THEN m.time ELSE read[m.channel].time)
      /\ header.size = (IF m.flag <= 1 THEN m.size ELSE read[m.channel].size)
      /\ header.type = (IF m.flag <= 1 THEN m.type ELSE read[m.channel].type)
      /\ header.stream = (IF m.flag = 0 THEN 1 ELSE read[m.channel].stream)
  BY <1>2, HeaderRead
<1>4. size \in Nat /\ m.channel \in Channels /\ m.flag \in 0 .. 3 /\ m.told \in Nat /\ m.time \in Nat
  <2>1. header.size \in Nat /\ M!HeaderSize[m.flag] \in Nat
    BY <1>2, <1>3, HeaderSizes, MessageFields DEF Channel
  <2>2. QED
    BY <1>2, <2>1, MessageFields
<1> HIDE DEF header, size
<1>5. /\ now \in Channel /\ now.time = header.time /\ now.size = header.size /\ now.type = header.type
      /\ now.stream = header.stream
      /\ now.absolute = IF m.flag = 0 THEN header.time ELSE header.absolute + header.time
  BY <1>3 DEF Channel
<1> HIDE DEF now
<1>6. /\ read \in [Channels -> Channel] /\ written \in [Channels -> Channel]
      /\ ahead \in Nat /\ available \in Nat /\ deciphered = ahead
  BY DEF MsgInv, MessagesShape, M!DecipheredOnce
<1>7. ahead' \in Nat /\ deciphered' = ahead' /\ available' \in Nat
  BY <1>1, <1>4, <1>6
<1>8. read'[m.channel] = now /\ \A c \in Channels \ {m.channel} : read'[c] = read[c]
  BY <1>1, <1>4, <1>6
<1>9. MessagesShape'
  <2>1. read' \in [Channels -> Channel]
    BY <1>1, <1>5, <1>6
  <2>2. bytes' \in Seq(Message)
    BY <1>1, <1>2, EmptySeq
  <2>3. QED
    BY <1>1, <1>7, <2>1, <2>2 DEF MsgInv, MessagesShape
<1>10. ASSUME ~shared
       PROVE  /\ now.stream = 1 /\ now.time = m.time /\ now.size = m.size /\ now.type = m.type
              /\ m.channel \notin back => now.absolute = m.told
  <2>1. OnItsWay(m)
    BY <1>2, <1>10
  <2>2. read[m.channel].absolute \in Nat
    BY <1>3 DEF Channel
  <2>3. header.time = m.time /\ header.size = m.size /\ header.type = m.type /\ header.stream = 1
    BY <1>3, <1>4, <2>1 DEF OnItsWay
  <2>4. QED
    BY <1>3, <1>5, <2>1, <2>2, <2>3 DEF OnItsWay
<1>11. ASSUME ~shared
       PROVE  bytes' = <<>> /\ sender' = <<>> /\ \A c \in Channels : SameEnds(c)'
  <2>1. bytes' = <<>> /\ sender' = <<>> /\ OnItsWay(m) /\ ~(unsized /\ sender # <<>>)
    BY <1>1, <1>2, <1>11
  <2>2. SameEnds(m.channel)'
    BY <1>1, <1>8, <1>10, <1>11, <2>1 DEF SameEnds, OnItsWay
  <2>3. \A c \in Channels \ {m.channel} : SameEnds(c)'
    BY <1>1, <1>2, <1>8, <1>11 DEF SameEnds
  <2>4. QED
    BY <2>1, <2>2, <2>3
<1>12. OneAtATime'
  <2>1. ~shared => Len(sender') + Len(bytes') <= 1
    BY <1>11
  <2>2. ~shared => \A n \in Message : ~(sender' = <<n>> \/ bytes' = <<n>>)
    BY <1>11
  <2>3. QED
    BY <1>1, <1>11, <2>1, <2>2 DEF MsgInv, OneAtATime
<1>13. M!ReadAsWritten'
  <2>1. ~shared => header.type = m.type /\ header.size = m.size
               /\ (m.channel \notin back => read'[m.channel].absolute = m.told)
    BY <1>5, <1>8, <1>10
  <2>2. /\ last'.read[1] = m.channel /\ last'.read[2] = header.type /\ last'.read[3] = header.size
        /\ last'.read[4] = read'[m.channel].absolute
        /\ last'.told[1] = m.channel /\ last'.told[2] = m.type /\ last'.told[3] = m.size
        /\ last'.told[4] = m.told
    BY <1>1
  <2>3. \A i \in 1 .. 3 : i = 1 \/ i = 2 \/ i = 3
    OBVIOUS
  <2>4. shared' = shared /\ back' = back
    BY <1>1
  <2>5. QED
    BY <2>1, <2>2, <2>3, <2>4 DEF M!ReadAsWritten
<1>14. M!DecipheredOnce'
  BY <1>7 DEF M!DecipheredOnce
<1>15. QED
  BY <1>9, <1>12, <1>13, <1>14 DEF MsgInv

LEMMA MessagesStep ==
    ASSUME M!MessageAssumption, MsgInv, [M!Next]_(M!vars)
    PROVE  MsgInv'
<1>1. CASE UNCHANGED M!vars
  <2>1. UNCHANGED <<written, sender, unsized, bytes, available, fresh, read, deciphered, ahead, last, count,
                    shared, back>>
    BY <1>1 DEF M!vars
  <2>2. QED
    BY <2>1 DEF MsgInv, MessagesShape, OneAtATime, OnItsWay, SameEnds, M!DecipheredOnce, M!ReadAsWritten
<1>2. ASSUME NEW c \in Channels, NEW size \in Sizes,
             \/ \E time \in 0 .. MaxTime, type \in MediaTypes : M!Write(c, type, time, size)
             \/ M!Write(c, "invocation", 0, size)
      PROVE  MsgInv'
  <2>1. MediaTypes \subseteq M!Types /\ "invocation" \in M!Types /\ 0 \in 0 .. MaxTime
    BY DEF M!Types, M!MessageAssumption
  <2>2. QED
    BY <1>2, <2>1, WriteKeeps
<1>3. CASE M!Next
  BY <1>2, <1>3, FlushKeeps, ArriveKeeps, BuildPartKeeps, BuildMessageKeeps DEF M!Next
<1>4. QED
  BY <1>1, <1>3

LEMMA MessagesInductive == ASSUME M!MessageAssumption PROVE M!Spec => []MsgInv
<1>1. M!Init => MsgInv
  BY MessagesInit
<1>2. MsgInv /\ [M!Next]_(M!vars) => MsgInv'
  BY MessagesStep
<1>3. QED
  BY <1>1, <1>2, PTL DEF M!Spec

\* For any channels, types and sizes, the buffer and what both ends know of a channel
\* have their types (RTMPWriter.cpp:90-154, RTMPSession.cpp:60-225).
THEOREM MessagesTypeCorrect == ASSUME M!MessageAssumption PROVE M!Spec => []M!TypeOK
<1>1. MsgInv => M!TypeOK
  BY DEF MsgInv, MessagesShape, M!TypeOK, Message
<1>2. QED
  BY <1>1, MessagesInductive, PTL

\* ... and although a header leaves out what the last message of its channel told, a
\* message that was alone in its buffer is read with the type and the size it was written
\* with, and with its time unless that of its channel went back; and in however many
\* pieces the bytes come, each is deciphered once (RTMPWriter.cpp:90-154,
\* RTMPSession.cpp:60-225).
THEOREM MessagesCorrect == ASSUME M!MessageAssumption PROVE M!Spec => []M!MessagesSound
<1>1. MsgInv => M!MessagesSound
  BY DEF MsgInv, M!MessagesSound
<1>2. QED
  BY <1>1, MessagesInductive, PTL

-----------------------------------------------------------------------------
(* The links between servers.  What an end has sent and the other has not      *)
(* handled tells, in order, the names that the sender counts and the receiver  *)
(* does not yet.                                                               *)

CONSTANTS Links, Handlers, MaxSent
VARIABLES tcp, met, sendingRefs, receivingRefs, inbox, partial, connections, stopped, miscounted, heard

L == INSTANCE ServerLinks

LinksShape ==
    /\ tcp \in [L!Ends -> {"closed", "backlog", "open", "shut"}]
    /\ met \in [L!Ends -> BOOLEAN] /\ partial \in [L!Ends -> {"none", "some", "size", "torn"}]
    /\ sendingRefs \in [L!Ends -> Seq(L!Names)] /\ receivingRefs \in [L!Ends -> Seq(L!Names)]
    /\ inbox \in [L!Ends -> Seq(L!Message)]
    /\ connections \subseteq L!Ends /\ stopped \subseteq L!Sides /\ miscounted \subseteq L!Ends
    /\ heard \in L!Handling

ListInv == LinksShape /\ L!ListedAreMet

\* What a message tells is right for a reader that counts n names of refs, which counts them to
\* next; one that was written to another end before may be told as a hello.
Tells(m, refs, n, next) ==
    /\ m.as = "hello" => (m.sent = "" \/ m.dirty) /\ next = n
    /\ m.as = "name" => m.name = m.sent /\ next = n + 1 /\ refs[next] = m.sent
    /\ m.as = "ref" => m.ref \in 1 .. n /\ refs[m.ref] = m.sent /\ next = n

\* Some names of the sender are counted by the receiver, the first ones, and the messages tell
\* the others: tally[k] is how many are known before the message k.
Counting(known, refs, box, tally) ==
    /\ tally \in [1 .. Len(box) + 1 -> 0 .. Len(refs)]
    /\ tally[1] = Len(known) /\ tally[Len(box) + 1] = Len(refs)
    /\ \A i \in 1 .. Len(known) : known[i] = refs[i]
    /\ \A k \in 1 .. Len(box) : Tells(box[k], refs, tally[k], tally[k + 1])

Alike(known, refs, box) == \E tally \in [1 .. Len(box) + 1 -> 0 .. Len(refs)] : Counting(known, refs, box, tally)

\* What an end has to read, of a sender that may have gone.
Follows(e, states, known, sends, box) ==
    states[e] # "closed" => \E refs \in Seq(L!Names) :
        /\ Alike(known[e], refs, box[e])
        /\ states[L!Other(e)] \in {"open", "backlog"} => refs = sends[L!Other(e)]

\* What comes is whole, and was written with the headers of the end: it is counted alike.
Clear(e) == e \notin miscounted /\ ~L!Torn(e)

EndCounts(e) ==
    /\ Clear(e) => Follows(e, tcp, receivingRefs, sendingRefs, inbox)
    /\ tcp[e] \in {"closed", "backlog"} => sendingRefs[e] = <<>> /\ receivingRefs[e] = <<>>

LinkInv == ListInv /\ L!CountedAlike /\ \A e \in L!Ends : EndCounts(e)

-----------------------------------------------------------------------------
LEMMA FiniteSame == \A S : L!IsFiniteSet(S) <=> IsFiniteSet(S)
  BY DEF L!IsFiniteSet, IsFiniteSet

LEMMA OtherEnd ==
    /\ \A e \in L!Ends : /\ L!Other(e) \in L!Ends /\ L!Other(e) # e /\ L!Other(L!Other(e)) = e
                         /\ e[1] \in L!Sides /\ e[2] \in Links
    /\ \A l \in Links : /\ <<"target", l>> \in L!Ends /\ <<"client", l>> \in L!Ends
                        /\ L!Other(<<"target", l>>) = <<"client", l>> /\ L!Other(<<"client", l>>) = <<"target", l>>
  BY DEF L!Ends, L!Other, L!Sides

LEMMA NameTypes ==
    /\ "" \in L!Names /\ "." \in L!Names /\ Handlers \subseteq L!Names
    /\ L!Nothing \in L!Handling
    /\ L!Hello \in L!Message
  BY DEF L!Names, L!Nothing, L!Handling, L!Hello, L!Message

\* The ends that a side lists, one after the other.
LEMMA ListedEnds ==
    ASSUME L!LinkAssumption, NEW S \in SUBSET L!Ends, S # {}, NEW to \in L!SetToSeqs(S)
    PROVE  /\ to \in Seq(L!Ends) /\ Len(to) \in Nat \ {0} /\ DOMAIN to = 1 .. Len(to)
           /\ \A i \in 1 .. Len(to) : to[i] \in S
           /\ \A i, j \in DOMAIN to : to[i] = to[j] => i = j
<1>1. IsFiniteSet(L!Ends)
  <2>1. IsFiniteSet(L!Sides)
    <3>1. L!Sides = {"target"} \cup {"client"}
      BY DEF L!Sides
    <3>2. IsFiniteSet({"target"}) /\ IsFiniteSet({"client"})
      BY FS_Singleton
    <3>3. QED
      BY <3>1, <3>2, FS_Union
  <2>2. IsFiniteSet(Links)
    BY FiniteSame DEF L!LinkAssumption
  <2>3. QED
    BY <2>1, <2>2, FS_Product DEF L!Ends
<1>2. IsFiniteSet(S) /\ Cardinality(S) \in Nat /\ Cardinality(S) # 0
  BY <1>1, FS_Subset, FS_CardinalityType, FS_EmptySet
<1>3. L!Cardinality(S) = Cardinality(S)
  BY DEF L!Cardinality, Cardinality
<1>4. to \in [1 .. Cardinality(S) -> S] /\ \A i, j \in DOMAIN to : to[i] = to[j] => i = j
  BY <1>3 DEF L!SetToSeqs
<1>5. QED
  BY <1>2, <1>4

\* A header is a message, and what an end counts after it is names.
LEMMA HeadersAre ==
    ASSUME LinksShape, NEW name \in L!Names, NEW to \in Seq(L!Ends)
    PROVE  /\ DOMAIN L!Sent(to, name).headers = DOMAIN to
           /\ \A i \in DOMAIN to : L!Sent(to, name).headers[i] \in L!Message
           /\ L!Sent(to, name).refs \in [L!Ends -> Seq(L!Names)]
<1>1. ASSUME NEW i \in DOMAIN to
      PROVE  /\ L!As(to, name, i) \in {"name", "ref", "hello"}
             /\ L!As(to, name, i) = "ref" => L!Number(sendingRefs[to[i]], name) \in Nat
  <2>1. sendingRefs[to[i]] \in Seq(L!Names)
    BY DEF LinksShape
  <2>2. DOMAIN sendingRefs[to[i]] \subseteq Nat
    BY <2>1
  <2>3. L!Known(sendingRefs[to[i]], name) =>
            \E j \in DOMAIN sendingRefs[to[i]] : sendingRefs[to[i]][j] = name
    BY DEF L!Known, L!Range
  <2>4. L!Known(sendingRefs[to[i]], name) => L!Number(sendingRefs[to[i]], name) \in Nat
    BY <2>2, <2>3 DEF L!Number
  <2>5. QED
    BY <2>4 DEF L!As
<1>2. ASSUME NEW i \in DOMAIN to
      PROVE  [sent |-> name, as |-> L!As(to, name, i), name |-> IF L!As(to, name, i) = "name" THEN name ELSE "",
              ref |-> IF L!As(to, name, i) = "ref" THEN L!Number(sendingRefs[to[i]], name) ELSE 0,
              dirty |-> i > 1] \in L!Message
  <2> DEFINE as == L!As(to, name, i)
             told == IF as = "name" THEN name ELSE ""
             ref == IF as = "ref" THEN L!Number(sendingRefs[to[i]], name) ELSE 0
             dirty == i > 1
  <2>1. as \in {"name", "hello", "ref"} /\ ref \in Nat
    BY <1>1
  <2>2. told \in L!Names
    BY NameTypes
  <2>3. dirty \in BOOLEAN
    OBVIOUS
  <2> HIDE DEF as, told, ref, dirty
  <2>4. [sent |-> name, as |-> as, name |-> told, ref |-> ref, dirty |-> dirty] \in L!Message
    BY <2>1, <2>2, <2>3 DEF L!Message
  <2>5. QED
    BY <2>4 DEF as, told, ref, dirty
<1>3. \A e \in L!Ends : sendingRefs[e] \in Seq(L!Names) /\ Append(sendingRefs[e], name) \in Seq(L!Names)
  BY DEF LinksShape
<1>4. QED
  BY <1>2, <1>3 DEF L!Sent

-----------------------------------------------------------------------------
\* The list of the servers, for any number of links.

\* What is written, to any ends.
LEMMA WrittenList ==
    ASSUME ListInv, NEW name \in L!Names, NEW to \in Seq(L!Ends), to # <<>>,
           NEW late \in [DOMAIN to -> BOOLEAN], NEW boxes \in [L!Ends -> Seq(L!Message)],
           L!Written(to, name, late, boxes)
    PROVE  /\ inbox' \in [L!Ends -> Seq(L!Message)] /\ sendingRefs' \in [L!Ends -> Seq(L!Names)]
           /\ miscounted' \subseteq L!Ends
<1>1. PICK s : /\ s = L!Sent(to, name)
               /\ sendingRefs' = s.refs
               /\ inbox' = [e \in L!Ends |->
                     IF L!Other(e) \in L!Range(to) /\ tcp[L!Other(e)] = "open"
                     THEN LET i == CHOOSE j \in DOMAIN to : to[j] = L!Other(e)
                          IN  Append(boxes[e], s.headers[IF late[i] THEN Len(to) ELSE i])
                     ELSE boxes[e]]
  BY DEF L!Written
<1>2. Len(to) \in DOMAIN to
  BY EmptySeq
<1>3. ASSUME NEW e \in L!Ends PROVE inbox'[e] \in Seq(L!Message)
  <2> DEFINE i == CHOOSE j \in DOMAIN to : to[j] = L!Other(e)
  <2>1. L!Other(e) \in L!Range(to) => i \in DOMAIN to
    BY DEF L!Range
  <2>2. inbox'[e] = IF L!Other(e) \in L!Range(to) /\ tcp[L!Other(e)] = "open"
                    THEN Append(boxes[e], s.headers[IF late[i] THEN Len(to) ELSE i]) ELSE boxes[e]
    BY <1>1
  <2> HIDE DEF i
  <2>3. L!Other(e) \in L!Range(to) => s.headers[IF late[i] THEN Len(to) ELSE i] \in L!Message
    BY <1>1, <1>2, <2>1, HeadersAre DEF ListInv
  <2>4. QED
    BY <2>2, <2>3
<1>4. inbox' = [e \in L!Ends |-> inbox'[e]]
  BY <1>1
<1>5. sendingRefs' \in [L!Ends -> Seq(L!Names)]
  BY <1>1, HeadersAre DEF ListInv
<1>6. miscounted' \subseteq L!Ends
  <2>1. miscounted' = miscounted \cup {L!Other(to[i]) : i \in {j \in DOMAIN to : late[j] /\ j < Len(to)}}
    BY DEF L!Written
  <2>2. \A i \in DOMAIN to : to[i] \in L!Ends
    OBVIOUS
  <2>3. \A i \in DOMAIN to : L!Other(to[i]) \in L!Ends
    BY <2>2, OtherEnd
  <2>4. miscounted \subseteq L!Ends
    BY DEF ListInv, LinksShape
  <2>5. QED
    BY <2>1, <2>3, <2>4
<1>7. QED
  BY <1>3, <1>4, <1>5, <1>6

LEMMA CallsList ==
    ASSUME L!LinkAssumption, ListInv, NEW name \in Handlers, NEW to \in Seq(L!Ends), to # <<>>,
           L!Broadcast(to, name),
           heard' = L!Nothing, UNCHANGED <<tcp, met, receivingRefs, partial, connections, stopped>>
    PROVE  ListInv'
<1>1. name \in L!Names /\ inbox \in [L!Ends -> Seq(L!Message)]
  BY NameTypes DEF ListInv, LinksShape
<1>2. PICK late \in [DOMAIN to -> BOOLEAN] : L!Written(to, name, late, inbox)
  BY DEF L!Broadcast
<1>3. /\ inbox' \in [L!Ends -> Seq(L!Message)] /\ sendingRefs' \in [L!Ends -> Seq(L!Names)]
      /\ miscounted' \subseteq L!Ends
  BY <1>1, <1>2, WrittenList
<1>4. LinksShape'
  BY <1>3, NameTypes DEF ListInv, LinksShape
<1>5. QED
  BY <1>4 DEF ListInv, L!ListedAreMet

\* Connecting, accepting and refusing.
LEMMA ConnectsList ==
    ASSUME ListInv, NEW l \in Links, L!Connect(l) \/ L!Accept(l) \/ L!Refused(l)
    PROVE  ListInv'
<1> DEFINE t == <<"target", l>>
           c == <<"client", l>>
<1>1. t \in L!Ends /\ c \in L!Ends /\ L!Other(t) = c /\ L!Other(c) = t /\ t # c
  BY OtherEnd
<1>2. /\ UNCHANGED <<met, sendingRefs, receivingRefs, partial, connections, stopped>> /\ heard' = L!Nothing
      /\ miscounted' \subseteq miscounted
  BY DEF L!Connect, L!Accept, L!Refused
<1>3. inbox \in [L!Ends -> Seq(L!Message)] /\ inbox[t] \in Seq(L!Message)
  BY <1>1 DEF ListInv, LinksShape
<1>4. <<>> \in Seq(L!Message) /\ <<L!Hello>> \in Seq(L!Message) /\ Append(inbox[t], L!Hello) \in Seq(L!Message)
  <2>1. L!Hello \in L!Message
    BY NameTypes
  <2>2. QED
    BY <1>3, <2>1
<1>5. CASE L!Connect(l)
  <2>1. /\ ~met[t] /\ tcp[t] = "closed" /\ tcp[c] = "closed"
        /\ tcp' = [tcp EXCEPT ![t] = "open", ![c] = "backlog"]
        /\ inbox' = [inbox EXCEPT ![t] = <<>>, ![c] = <<L!Hello>>]
    BY <1>1, <1>5 DEF L!Connect
  <2> HIDE DEF t, c
  <2>2. /\ tcp' \in [L!Ends -> {"closed", "backlog", "open", "shut"}]
        /\ \A e \in L!Ends : tcp'[e] = tcp[e] \/ tcp[e] = "closed"
    BY <1>1, <2>1 DEF ListInv, LinksShape
  <2>3. inbox' \in [L!Ends -> Seq(L!Message)]
    BY <1>3, <1>4, <2>1
  <2>4. LinksShape'
    BY <1>2, <2>2, <2>3, NameTypes DEF ListInv, LinksShape
  <2>5. QED
    BY <1>2, <2>2, <2>4 DEF ListInv, L!ListedAreMet
<1>6. CASE L!Accept(l)
  <2>1. /\ tcp[c] = "backlog" /\ tcp' = [tcp EXCEPT ![c] = "open"]
        /\ inbox' = IF tcp[t] = "closed" THEN inbox ELSE [inbox EXCEPT ![t] = Append(inbox[t], L!Hello)]
    BY <1>1, <1>6 DEF L!Accept
  <2> HIDE DEF t, c
  <2>2. /\ tcp' \in [L!Ends -> {"closed", "backlog", "open", "shut"}]
        /\ \A e \in L!Ends : tcp'[e] = tcp[e] \/ tcp[e] = "backlog"
    BY <1>1, <2>1 DEF ListInv, LinksShape
  <2>3. inbox' \in [L!Ends -> Seq(L!Message)]
    BY <1>1, <1>3, <1>4, <2>1
  <2>4. LinksShape'
    BY <1>2, <2>2, <2>3, NameTypes DEF ListInv, LinksShape
  <2>5. QED
    BY <1>2, <2>2, <2>4 DEF ListInv, L!ListedAreMet
<1>7. CASE L!Refused(l)
  <2>1. /\ tcp[c] = "backlog" /\ tcp' = [tcp EXCEPT ![c] = "closed"] /\ inbox' = [inbox EXCEPT ![c] = <<>>]
    BY <1>7 DEF L!Refused
  <2> HIDE DEF t, c
  <2>2. /\ tcp' \in [L!Ends -> {"closed", "backlog", "open", "shut"}]
        /\ \A e \in L!Ends : tcp'[e] = tcp[e] \/ tcp[e] = "backlog"
    BY <1>1, <2>1 DEF ListInv, LinksShape
  <2>3. inbox' \in [L!Ends -> Seq(L!Message)]
    BY <1>1, <1>3, <1>4, <2>1
  <2>4. LinksShape'
    BY <1>2, <2>2, <2>3, NameTypes DEF ListInv, LinksShape
  <2>5. QED
    BY <1>2, <2>2, <2>4 DEF ListInv, L!ListedAreMet
<1>8. QED
  BY <1>5, <1>6, <1>7

LEMMA ClosesList ==
    ASSUME ListInv, NEW e \in L!Ends, NEW left, L!Closed(e, left)
    PROVE  ListInv'
<1>1. L!Other(e) \in L!Ends
  BY OtherEnd
<1>2. /\ tcp' = [tcp EXCEPT ![e] = "closed"]
      /\ inbox' = [inbox EXCEPT ![e] = <<>>, ![L!Other(e)] = left]
      /\ met' = [met EXCEPT ![e] = FALSE] /\ connections' = connections \ {e}
      /\ \E part \in L!Outlives(e) : partial' = [partial EXCEPT ![e] = part]
      /\ heard' = L!Nothing /\ stopped' = stopped /\ miscounted' = miscounted
      /\ left \in {inbox[L!Other(e)], <<>>}
      /\ sendingRefs' = [sendingRefs EXCEPT ![e] = <<>>] /\ receivingRefs' = [receivingRefs EXCEPT ![e] = <<>>]
  BY DEF L!Closed, L!Disconnected
<1>3. left \in Seq(L!Message) /\ inbox' \in [L!Ends -> Seq(L!Message)]
  <2>1. inbox \in [L!Ends -> Seq(L!Message)]
    BY DEF ListInv, LinksShape
  <2>2. <<>> \in Seq(L!Message) /\ left \in Seq(L!Message)
    BY <1>1, <1>2, <2>1, EmptySeq
  <2>3. QED
    BY <1>1, <1>2, <2>1, <2>2
<1>4. /\ sendingRefs' \in [L!Ends -> Seq(L!Names)] /\ receivingRefs' \in [L!Ends -> Seq(L!Names)]
      /\ tcp' \in [L!Ends -> {"closed", "backlog", "open", "shut"}]
      /\ met' \in [L!Ends -> BOOLEAN] /\ partial' \in [L!Ends -> {"none", "some", "size", "torn"}]
  <2>1. L!Outlives(e) \subseteq {"none", "size"}
    BY DEF L!Outlives
  <2>2. QED
    BY <1>2, <2>1, EmptySeq DEF ListInv, LinksShape
<1>5. connections' \subseteq L!Ends /\ stopped' \subseteq L!Sides /\ miscounted' \subseteq L!Ends
  BY <1>2 DEF ListInv, LinksShape
<1>6. LinksShape'
  BY <1>2, <1>3, <1>4, <1>5, NameTypes DEF LinksShape
<1>7. ~met'[e] /\ e \notin connections'
      /\ \A x \in L!Ends \ {e} : met'[x] = met[x] /\ tcp'[x] = tcp[x] /\ (x \in connections' <=> x \in connections)
  BY <1>2 DEF ListInv, LinksShape
<1>8. QED
  BY <1>2, <1>5, <1>6, <1>7 DEF ListInv, L!ListedAreMet

LEMMA LeavesList ==
    ASSUME ListInv,
           \/ \E e \in L!Ends : L!Reject(e) \/ \E part \in {"some", "size"} : L!ReceivePart(e, part)
           \/ \E side \in L!Sides : L!Stop(side)
    PROVE  ListInv'
<1>1. ASSUME NEW e \in L!Ends, L!Reject(e) PROVE ListInv'
  <2>1. /\ tcp[e] = "open" /\ tcp' = [tcp EXCEPT ![e] = "shut"] /\ heard' = L!Nothing
        /\ UNCHANGED <<met, sendingRefs, receivingRefs, inbox, partial, connections, stopped, miscounted>>
    BY <1>1 DEF L!Reject
  <2>2. /\ tcp' \in [L!Ends -> {"closed", "backlog", "open", "shut"}]
        /\ \A x \in L!Ends : tcp'[x] = tcp[x] \/ tcp'[x] = "shut"
    BY <2>1 DEF ListInv, LinksShape
  <2>3. QED
    BY <2>1, <2>2, NameTypes DEF ListInv, LinksShape, L!ListedAreMet
<1>2. ASSUME NEW e \in L!Ends, NEW part \in {"some", "size"}, L!ReceivePart(e, part) PROVE ListInv'
  <2>1. /\ partial' = [partial EXCEPT ![e] = part] /\ heard' = L!Nothing
        /\ UNCHANGED <<tcp, met, sendingRefs, receivingRefs, inbox, connections, stopped, miscounted>>
    BY <1>2 DEF L!ReceivePart
  <2>2. partial' \in [L!Ends -> {"none", "some", "size", "torn"}]
    BY <2>1 DEF ListInv, LinksShape
  <2>3. QED
    BY <2>1, <2>2, NameTypes DEF ListInv, LinksShape, L!ListedAreMet
<1>3. ASSUME NEW side \in L!Sides, L!Stop(side) PROVE ListInv'
  <2>1. /\ stopped' = stopped \cup {side} /\ connections' = {e \in connections : e[1] # side}
        /\ tcp' = [e \in L!Ends |-> IF e[1] = side /\ tcp[e] = "open" THEN "shut" ELSE tcp[e]]
        /\ heard' = L!Nothing /\ UNCHANGED <<met, sendingRefs, receivingRefs, inbox, partial, miscounted>>
    BY <1>3 DEF L!Stop
  <2>2. /\ tcp' \in [L!Ends -> {"closed", "backlog", "open", "shut"}]
        /\ \A x \in L!Ends : tcp'[x] = tcp[x] \/ tcp'[x] = "shut"
    BY <2>1 DEF ListInv, LinksShape
  <2>3. connections' \subseteq connections /\ stopped' \subseteq L!Sides /\ connections' \subseteq L!Ends
    BY <2>1 DEF ListInv, LinksShape
  <2>4. \A e \in L!Ends : met[e] /\ e[1] \notin stopped' => e \in connections'
    BY <2>1 DEF ListInv, L!ListedAreMet
  <2>5. QED
    BY <2>1, <2>2, <2>3, <2>4, NameTypes DEF ListInv, LinksShape, L!ListedAreMet
<1>4. QED
  BY <1>1, <1>2, <1>3

\* What a receiver has read, and the name it makes of it.
LEMMA ReceivesList ==
    ASSUME L!LinkAssumption, ListInv, NEW e \in L!Ends, NEW handler \in L!Names, L!Receive(e, handler)
    PROVE  ListInv'
<1> DEFINE m == Head(inbox[e])
           rest == [inbox EXCEPT ![e] = Tail(inbox[e])]
           how == IF L!Torn(e) THEN "torn" ELSE IF e \in miscounted THEN "miscounted" ELSE "whole"
<1>1. /\ tcp[e] \in {"open", "shut"} /\ inbox[e] # <<>>
      /\ receivingRefs' \in {receivingRefs, [receivingRefs EXCEPT ![e] = Append(receivingRefs[e], m.name)]}
      /\ \E part \in {"none", "torn"} : partial' = [partial EXCEPT ![e] = part]
      /\ heard' = [sent |-> m.sent, handler |-> handler, dirty |-> m.dirty, how |-> how]
      /\ tcp' = tcp /\ stopped' = stopped
  BY DEF L!Receive
<1>2. \/ /\ met' = [met EXCEPT ![e] = TRUE] /\ connections' = connections \cup {e}
         /\ \E to \in L!SetToSeqs(L!Listed(e[1]) \cup {e}) : \E late \in [DOMAIN to -> BOOLEAN] :
               L!Written(to, ".", late, rest)
      \/ inbox' = rest /\ UNCHANGED <<met, connections, sendingRefs, miscounted>>
  BY DEF L!Receive
<1>3. how \in {"whole", "torn", "miscounted"}
  OBVIOUS
<1>4. /\ inbox \in [L!Ends -> Seq(L!Message)] /\ inbox[e] \in Seq(L!Message) /\ m \in L!Message
      /\ Tail(inbox[e]) \in Seq(L!Message)
  <2>1. inbox \in [L!Ends -> Seq(L!Message)] /\ inbox[e] \in Seq(L!Message)
    BY DEF ListInv, LinksShape
  <2>2. \A box \in Seq(L!Message) : box # <<>> => Head(box) \in L!Message /\ Tail(box) \in Seq(L!Message)
    OBVIOUS
  <2>3. QED
    BY <1>1, <2>1, <2>2
<1>5. rest \in [L!Ends -> Seq(L!Message)]
  BY <1>4
<1> HIDE DEF m, rest, how
<1>6. receivingRefs' \in [L!Ends -> Seq(L!Names)]
  <2>1. receivingRefs[e] \in Seq(L!Names) /\ m.name \in L!Names /\ receivingRefs \in [L!Ends -> Seq(L!Names)]
    BY <1>4 DEF ListInv, LinksShape, L!Message
  <2>2. Append(receivingRefs[e], m.name) \in Seq(L!Names)
    BY <2>1
  <2>3. QED
    BY <1>1, <2>1, <2>2
<1>7. heard' \in L!Handling
  <2>1. m.sent \in L!Names /\ m.dirty \in BOOLEAN
    BY <1>4 DEF L!Message
  <2>2. QED
    BY <1>1, <1>3, <2>1 DEF L!Handling
<1>8. /\ sendingRefs' \in [L!Ends -> Seq(L!Names)] /\ inbox' \in [L!Ends -> Seq(L!Message)]
      /\ miscounted' \subseteq L!Ends
  <2>1. ASSUME NEW to \in L!SetToSeqs(L!Listed(e[1]) \cup {e}), NEW late \in [DOMAIN to -> BOOLEAN],
               L!Written(to, ".", late, rest)
        PROVE  /\ sendingRefs' \in [L!Ends -> Seq(L!Names)] /\ inbox' \in [L!Ends -> Seq(L!Message)]
               /\ miscounted' \subseteq L!Ends
    <3>1. L!Listed(e[1]) \cup {e} \in SUBSET L!Ends /\ L!Listed(e[1]) \cup {e} # {}
      BY DEF L!Listed, ListInv, LinksShape
    <3>2. to \in Seq(L!Ends) /\ to # <<>>
      BY <3>1, ListedEnds, EmptySeq
    <3>3. QED
      BY <1>5, <2>1, <3>2, NameTypes, WrittenList
  <2>2. QED
    BY <1>2, <1>5, <2>1 DEF ListInv, LinksShape
<1>9. /\ met' \in [L!Ends -> BOOLEAN] /\ partial' \in [L!Ends -> {"none", "some", "size", "torn"}]
      /\ connections' \subseteq L!Ends
  BY <1>1, <1>2 DEF ListInv, LinksShape
<1>10. LinksShape'
  BY <1>1, <1>6, <1>7, <1>8, <1>9 DEF ListInv, LinksShape
<1>11. L!ListedAreMet'
  <2>1. \A x \in L!Ends : met'[x] = met[x] \/ (x = e /\ met'[e] /\ e \in connections')
    BY <1>2 DEF ListInv, LinksShape
  <2>2. \A x \in connections' : x \in connections \/ (x = e /\ met'[e])
    BY <1>2 DEF ListInv, LinksShape
  <2>3. connections \subseteq connections' /\ \A x \in L!Ends : met[x] => met'[x]
    BY <1>2 DEF ListInv, LinksShape
  <2>4. connections \subseteq L!Ends
    BY DEF ListInv, LinksShape
  <2>5. QED
    BY <1>1, <2>1, <2>2, <2>3, <2>4 DEF ListInv, L!ListedAreMet
<1>12. QED
  BY <1>10, <1>11 DEF ListInv

LEMMA ListStep ==
    ASSUME L!LinkAssumption, ListInv, [L!Next]_(L!vars)
    PROVE  ListInv'
<1>1. CASE UNCHANGED L!vars
  BY <1>1 DEF L!vars, ListInv, LinksShape, L!ListedAreMet
<1>2. ASSUME NEW e \in L!Ends, NEW name \in Handlers, L!Call(e, name) PROVE ListInv'
  <2>1. <<e>> \in Seq(L!Ends) /\ <<e>> # <<>>
    OBVIOUS
  <2>2. QED
    BY <1>2, <2>1, CallsList DEF L!Call
<1>3. ASSUME NEW side \in L!Sides, NEW name \in Handlers, L!CallAll(side, name) PROVE ListInv'
  <2>1. PICK to \in L!SetToSeqs(L!Listed(side)) : L!Broadcast(to, name)
    BY <1>3 DEF L!CallAll
  <2>2. L!Listed(side) # {} /\ L!Listed(side) \in SUBSET L!Ends
    BY <1>3 DEF L!CallAll, L!Listed, ListInv, LinksShape
  <2>3. to \in Seq(L!Ends) /\ to # <<>>
    BY <2>2, ListedEnds, EmptySeq
  <2>4. QED
    BY <1>3, <2>1, <2>3, CallsList DEF L!CallAll
<1>4. CASE L!Next
  BY <1>2, <1>3, <1>4, ConnectsList, ClosesList, LeavesList, ReceivesList DEF L!Next
<1>5. QED
  BY <1>1, <1>4

LEMMA ListInit == ASSUME L!LinkAssumption, L!Init PROVE ListInv
<1>1. <<>> \in Seq(L!Names) /\ <<>> \in Seq(L!Message)
  OBVIOUS
<1>2. LinksShape
  BY <1>1, NameTypes DEF L!Init, LinksShape
<1>3. L!ListedAreMet
  BY DEF L!Init, L!ListedAreMet
<1>4. QED
  BY <1>2, <1>3 DEF ListInv

-----------------------------------------------------------------------------
\* What is told, as messages are written and read.

LEMMA NothingLeft ==
    ASSUME NEW S, NEW refs \in Seq(S)
    PROVE  Alike(refs, refs, <<>>)
<1> DEFINE tally == [k \in 1 .. 1 |-> Len(refs)]
<1>1. Len(refs) \in 0 .. Len(refs) /\ Len(<<>>) = 0
  OBVIOUS
<1>2. tally \in [1 .. Len(<<>>) + 1 -> 0 .. Len(refs)] /\ tally[1] = Len(refs)
  BY <1>1
<1> HIDE DEF tally
<1>3. Counting(refs, refs, <<>>, tally)
  BY <1>1, <1>2 DEF Counting
<1>4. QED
  BY <1>2, <1>3 DEF Alike

LEMMA OneWritten ==
    ASSUME NEW S, NEW T, NEW known \in Seq(S), NEW refs \in Seq(S), NEW more \in Seq(S), NEW box \in Seq(T), NEW m \in T,
           Len(refs) <= Len(more), \A i \in 1 .. Len(refs) : more[i] = refs[i],
           Tells(m, more, Len(refs), Len(more)), Alike(known, refs, box)
    PROVE  Alike(known, more, Append(box, m))
<1> DEFINE b == Append(box, m)
<1>1. PICK tally \in [1 .. Len(box) + 1 -> 0 .. Len(refs)] : Counting(known, refs, box, tally)
  BY DEF Alike
<1>2. /\ Len(b) = Len(box) + 1 /\ Len(box) \in Nat /\ Len(refs) \in Nat /\ Len(more) \in Nat /\ Len(known) \in Nat
      /\ b[Len(box) + 1] = m /\ \A k \in 1 .. Len(box) : b[k] = box[k]
  OBVIOUS
<1> HIDE DEF b
<1> DEFINE c == [k \in 1 .. Len(b) + 1 |-> IF k <= Len(box) + 1 THEN tally[k] ELSE Len(more)]
<1>3. \A k \in 1 .. Len(box) + 1 : k \in 1 .. Len(b) + 1 /\ c[k] = tally[k]
  BY <1>2
<1>4. c[Len(b) + 1] = Len(more)
  BY <1>2
<1>5. c \in [1 .. Len(b) + 1 -> 0 .. Len(more)]
  <2>1. \A k \in 1 .. Len(box) + 1 : tally[k] \in 0 .. Len(more)
    BY <1>2
  <2>2. Len(more) \in 0 .. Len(more)
    BY <1>2
  <2>3. \A k \in 1 .. Len(b) + 1 : k <= Len(box) + 1 => k \in 1 .. Len(box) + 1
    BY <1>2
  <2>4. QED
    BY <2>1, <2>2, <2>3
<1> HIDE DEF c
<1>6. /\ c[1] = Len(known) /\ Len(known) <= Len(refs)
      /\ \A i \in 1 .. Len(known) : known[i] = more[i]
  <2>1. 1 \in 1 .. Len(box) + 1
    BY <1>2
  <2>2. c[1] = Len(known) /\ Len(known) <= Len(refs)
    <3>1. c[1] = tally[1] /\ tally[1] \in 0 .. Len(refs)
      BY <1>3, <2>1
    <3>2. tally[1] = Len(known)
      BY <1>1 DEF Counting
    <3>3. QED
      BY <1>2, <3>1, <3>2
  <2>3. QED
    BY <1>1, <1>2, <2>2 DEF Counting
<1>7. ASSUME NEW k \in 1 .. Len(b) PROVE Tells(b[k], more, c[k], c[k + 1])
  <2>1. CASE k = Len(box) + 1
    <3>1. c[k] = Len(refs)
      BY <1>1, <1>2, <1>3, <2>1 DEF Counting
    <3>2. c[k + 1] = Len(more) /\ b[k] = m
      BY <1>2, <1>4, <2>1
    <3>3. QED
      BY <3>1, <3>2
  <2>2. CASE k \in 1 .. Len(box)
    <3>1. k \in 1 .. Len(box) + 1 /\ k + 1 \in 1 .. Len(box) + 1
      BY <1>2, <2>2
    <3>2. c[k] = tally[k] /\ c[k + 1] = tally[k + 1] /\ b[k] = box[k]
      BY <1>2, <1>3, <2>2, <3>1
    <3>3. Tells(box[k], refs, tally[k], tally[k + 1]) /\ tally[k] \in 0 .. Len(refs) /\ tally[k + 1] \in 0 .. Len(refs)
      BY <1>1, <2>2, <3>1 DEF Counting
    <3>4. \A i \in 1 .. tally[k] : i \in 1 .. Len(refs)
      BY <1>2, <3>3
    <3>5. tally[k + 1] = tally[k] + 1 => tally[k + 1] \in 1 .. Len(refs)
      BY <1>2, <3>3
    <3>6. QED
      BY <3>2, <3>3, <3>4, <3>5 DEF Tells
  <2>3. QED
    BY <1>2, <2>1, <2>2
<1>8. Counting(known, more, b, c)
  BY <1>4, <1>5, <1>6, <1>7 DEF Counting
<1>9. QED
  BY <1>5, <1>8 DEF Alike, b

LEMMA OneRead ==
    ASSUME NEW known \in Seq(L!Names), NEW refs \in Seq(L!Names), NEW box \in Seq(L!Message), box # <<>>,
           Alike(known, refs, box)
    PROVE  LET m == Head(box) IN
           /\ m.as = "hello" => m.sent = "" \/ m.dirty
           /\ m.as = "name" => m.name = m.sent
           /\ m.as = "ref" => m.ref \in DOMAIN known /\ known[m.ref] = m.sent
           /\ Alike(IF m.as = "name" THEN Append(known, m.name) ELSE known, refs, Tail(box))
<1> SUFFICES ASSUME NEW m, m = Head(box)
             PROVE  /\ m.as = "hello" => m.sent = "" \/ m.dirty
                    /\ m.as = "name" => m.name = m.sent
                    /\ m.as = "ref" => m.ref \in DOMAIN known /\ known[m.ref] = m.sent
                    /\ Alike(IF m.as = "name" THEN Append(known, m.name) ELSE known, refs, Tail(box))
  OBVIOUS
<1>1. PICK tally \in [1 .. Len(box) + 1 -> 0 .. Len(refs)] : Counting(known, refs, box, tally)
  BY DEF Alike
<1>2. /\ Len(box) \in Nat \ {0} /\ m = box[1] /\ m \in L!Message /\ Len(refs) \in Nat /\ Len(known) \in Nat
      /\ Tail(box) \in Seq(L!Message) /\ Len(Tail(box)) = Len(box) - 1
      /\ \A k \in 1 .. Len(box) - 1 : Tail(box)[k] = box[k + 1]
  BY EmptySeq, HeadTailProperties
<1>3. 1 \in 1 .. Len(box) /\ 1 \in 1 .. Len(box) + 1 /\ 2 \in 1 .. Len(box) + 1
  BY <1>2
<1>4. /\ Tells(m, refs, Len(known), tally[2]) /\ tally[1] = Len(known)
      /\ Len(known) \in 0 .. Len(refs) /\ tally[2] \in 0 .. Len(refs)
      /\ \A i \in 1 .. Len(known) : known[i] = refs[i]
      /\ tally[Len(box) + 1] = Len(refs)
  <2>1. Tells(box[1], refs, tally[1], tally[1 + 1]) /\ tally[1] = Len(known)
    BY <1>1, <1>3 DEF Counting
  <2>2. tally[1] \in 0 .. Len(refs) /\ tally[2] \in 0 .. Len(refs)
    BY <1>3
  <2>3. QED
    BY <1>1, <1>2, <2>1, <2>2 DEF Counting
<1>5. m.as = "ref" => m.ref \in DOMAIN known /\ known[m.ref] = m.sent
  <2>1. DOMAIN known = 1 .. Len(known)
    OBVIOUS
  <2>2. QED
    BY <1>4, <2>1 DEF Tells
<1> DEFINE now == IF m.as = "name" THEN Append(known, m.name) ELSE known
           b == Tail(box)
           c == [k \in 1 .. Len(b) + 1 |-> tally[k + 1]]
<1>6. m.as \in {"name", "ref", "hello"} /\ m.name \in L!Names
  BY <1>2 DEF L!Message
<1>7. now \in Seq(L!Names) /\ Len(now) = tally[2] /\ \A i \in 1 .. Len(now) : now[i] = refs[i]
  <2>1. CASE m.as = "name"
    <3>1. /\ Len(Append(known, m.name)) = Len(known) + 1 /\ Append(known, m.name) \in Seq(L!Names)
          /\ Append(known, m.name)[Len(known) + 1] = m.name
          /\ \A i \in 1 .. Len(known) : Append(known, m.name)[i] = known[i]
      BY <1>6
    <3>2. tally[2] = Len(known) + 1 /\ refs[tally[2]] = m.name
      BY <1>4, <2>1 DEF Tells
    <3>3. \A i \in 1 .. Len(known) + 1 : i = Len(known) + 1 \/ i \in 1 .. Len(known)
      BY <1>2
    <3>4. QED
      BY <1>4, <2>1, <3>1, <3>2, <3>3
  <2>2. CASE m.as # "name"
    BY <1>4, <1>6, <2>2 DEF Tells
  <2>3. QED
    BY <2>1, <2>2
<1>8. \A k \in 1 .. Len(b) + 1 : k + 1 \in 1 .. Len(box) + 1
  BY <1>2
<1>9. c \in [1 .. Len(b) + 1 -> 0 .. Len(refs)] /\ \A k \in 1 .. Len(b) + 1 : c[k] = tally[k + 1]
  BY <1>8
<1>10. 1 \in 1 .. Len(b) + 1 /\ Len(b) + 1 \in 1 .. Len(b) + 1 /\ Len(b) + 1 + 1 = Len(box) + 1
       /\ \A k \in 1 .. Len(b) : /\ k \in 1 .. Len(b) + 1 /\ k + 1 \in 1 .. Len(b) + 1 /\ k + 1 \in 1 .. Len(box)
                                 /\ k \in 1 .. Len(box) - 1
  BY <1>2
<1> HIDE DEF c, now
<1>11. c[1] = tally[2] /\ c[Len(b) + 1] = tally[Len(box) + 1]
  BY <1>9, <1>10
<1>12. \A k \in 1 .. Len(b) : Tells(b[k], refs, c[k], c[k + 1])
  <2> SUFFICES ASSUME NEW k \in 1 .. Len(b) PROVE Tells(b[k], refs, c[k], c[k + 1])
    OBVIOUS
  <2>1. b[k] = box[k + 1] /\ c[k] = tally[k + 1] /\ c[k + 1] = tally[k + 1 + 1]
    BY <1>2, <1>9, <1>10
  <2>2. Tells(box[k + 1], refs, tally[k + 1], tally[k + 1 + 1])
    BY <1>1, <1>10 DEF Counting
  <2>3. QED
    BY <2>1, <2>2
<1> HIDE DEF b
<1>13. Counting(now, refs, b, c)
  BY <1>4, <1>7, <1>9, <1>11, <1>12 DEF Counting
<1>14. Alike(now, refs, b)
  BY <1>9, <1>13 DEF Alike
<1>15. QED
  BY <1>4, <1>5, <1>14 DEF Tells, now, b

-----------------------------------------------------------------------------
\* Any links: what is said to the ends of a sequence, one after the other.

Word(to, name, i) == L!Sent(to, name).headers[i]
After(to, name, e) == L!Sent(to, name).refs[e]
Distinct(to) == \A i, j \in DOMAIN to : to[i] = to[j] => i = j

LEMMA WordTells ==
    ASSUME ListInv, NEW to \in Seq(L!Ends), Distinct(to), NEW i \in DOMAIN to, NEW name \in L!Names
    PROVE  /\ Word(to, name, i) \in L!Message /\ After(to, name, to[i]) \in Seq(L!Names)
           /\ Len(sendingRefs[to[i]]) <= Len(After(to, name, to[i]))
           /\ \A k \in 1 .. Len(sendingRefs[to[i]]) : After(to, name, to[i])[k] = sendingRefs[to[i]][k]
           /\ Tells(Word(to, name, i), After(to, name, to[i]), Len(sendingRefs[to[i]]), Len(After(to, name, to[i])))
<1> SUFFICES ASSUME NEW e, e = to[i], NEW refs, refs = sendingRefs[e]
             PROVE  /\ Word(to, name, i) \in L!Message /\ After(to, name, e) \in Seq(L!Names)
                    /\ Len(refs) <= Len(After(to, name, e))
                    /\ \A k \in 1 .. Len(refs) : After(to, name, e)[k] = refs[k]
                    /\ Tells(Word(to, name, i), After(to, name, e), Len(refs), Len(After(to, name, e)))
  OBVIOUS
<1>1. e \in L!Ends /\ DOMAIN to = 1 .. Len(to) /\ Len(to) \in Nat /\ i \in Nat /\ i >= 1
  OBVIOUS
<1>2. Word(to, name, i) \in L!Message /\ L!Sent(to, name).refs \in [L!Ends -> Seq(L!Names)]
  BY HeadersAre DEF ListInv, Word
<1>3. refs \in Seq(L!Names) /\ Len(refs) \in Nat /\ DOMAIN refs = 1 .. Len(refs)
  <2>1. sendingRefs[e] \in Seq(L!Names)
    BY <1>1 DEF ListInv, LinksShape
  <2>2. QED
    BY <2>1
<1> DEFINE as == L!As(to, name, i)
           told == IF as = "name" THEN name ELSE ""
           ref == IF as = "ref" THEN L!Number(refs, name) ELSE 0
<1>4. Word(to, name, i) = [sent |-> name, as |-> as, name |-> told, ref |-> ref, dirty |-> i > 1]
  BY DEF Word, L!Sent
<1>5. After(to, name, e) = IF as = "name" THEN Append(refs, name) ELSE refs
  <2>1. After(to, name, e) = IF \E k \in DOMAIN to : to[k] = e /\ L!As(to, name, k) = "name"
                             THEN Append(sendingRefs[e], name) ELSE sendingRefs[e]
    BY <1>1 DEF After, L!Sent
  <2>2. (\E k \in DOMAIN to : to[k] = e /\ L!As(to, name, k) = "name") <=> as = "name"
    BY DEF Distinct
  <2> HIDE DEF as
  <2>3. QED
    BY <2>1, <2>2
<1>6. /\ as \in {"hello", "ref", "name"}
      /\ as = "hello" => i > 1
      /\ as = "ref" => L!Known(refs, name)
  <2>1. (\E k \in 1 .. i - 1 : L!Known(sendingRefs[to[k]], name)) => i > 1
    BY <1>1
  <2>2. QED
    BY <2>1 DEF L!As
<1> HIDE DEF as
<1>7. /\ Word(to, name, i).sent = name /\ Word(to, name, i).as = as /\ Word(to, name, i).name = told
      /\ Word(to, name, i).ref = ref /\ Word(to, name, i).dirty = (i > 1)
  <2> DEFINE dirty == i > 1
  <2>1. Word(to, name, i) = [sent |-> name, as |-> as, name |-> told, ref |-> ref, dirty |-> dirty]
    BY <1>4
  <2> HIDE DEF told, ref, dirty
  <2>2. /\ Word(to, name, i).sent = name /\ Word(to, name, i).as = as /\ Word(to, name, i).name = told
        /\ Word(to, name, i).ref = ref /\ Word(to, name, i).dirty = dirty
    BY <2>1
  <2>3. QED
    BY <2>2 DEF dirty
<1>8. CASE as = "hello"
  <2>1. After(to, name, e) = refs /\ Word(to, name, i).dirty
    BY <1>5, <1>6, <1>7, <1>8
  <2>2. Tells(Word(to, name, i), refs, Len(refs), Len(refs))
    BY <1>7, <1>8, <2>1 DEF Tells
  <2>3. QED
    BY <1>2, <1>3, <2>1, <2>2
<1>9. CASE as = "ref"
  <2>1. \E k \in DOMAIN refs : refs[k] = name
    BY <1>6, <1>9 DEF L!Known, L!Range
  <2>2. L!Number(refs, name) \in DOMAIN refs /\ refs[L!Number(refs, name)] = name
    BY <2>1 DEF L!Number
  <2>3. After(to, name, e) = refs /\ Word(to, name, i).ref = L!Number(refs, name)
    BY <1>5, <1>7, <1>9
  <2>4. Tells(Word(to, name, i), refs, Len(refs), Len(refs))
    BY <1>3, <1>7, <1>9, <2>2, <2>3 DEF Tells
  <2>5. QED
    BY <1>2, <1>3, <2>3, <2>4
<1>10. CASE as = "name"
  <2>1. After(to, name, e) = Append(refs, name) /\ Word(to, name, i).name = name
    BY <1>5, <1>7, <1>10
  <2>2. /\ Append(refs, name) \in Seq(L!Names) /\ Len(Append(refs, name)) = Len(refs) + 1
        /\ Append(refs, name)[Len(refs) + 1] = name
        /\ \A k \in 1 .. Len(refs) : Append(refs, name)[k] = refs[k]
    BY <1>3
  <2>3. Tells(Word(to, name, i), After(to, name, e), Len(refs), Len(refs) + 1)
    BY <1>3, <1>7, <1>10, <2>1, <2>2 DEF Tells
  <2>4. QED
    BY <1>2, <1>3, <2>1, <2>2, <2>3
<1>11. QED
  BY <1>6, <1>8, <1>9, <1>10

\* What is said comes after what was said, and is counted as it is told, but for those that get
\* the header of another end.
LEMMA SaysCount ==
    ASSUME ListInv, NEW to \in Seq(L!Ends), Distinct(to), \A i \in DOMAIN to : tcp[to[i]] \in {"open", "shut"},
           NEW name \in L!Names, NEW late \in [DOMAIN to -> BOOLEAN],
           NEW known \in [L!Ends -> Seq(L!Names)], NEW boxes \in [L!Ends -> Seq(L!Message)],
           L!Written(to, name, late, boxes),
           NEW x \in L!Ends, x \notin miscounted', Follows(x, tcp, known, sendingRefs, boxes)
    PROVE  Follows(x, tcp, known, sendingRefs', inbox')
<1> SUFFICES ASSUME NEW o, o = L!Other(x), tcp[x] # "closed"
             PROVE  \E refs \in Seq(L!Names) :
                        /\ Alike(known[x], refs, inbox'[x])
                        /\ tcp[o] \in {"open", "backlog"} => refs = sendingRefs'[o]
  BY DEF Follows
<1>1. PICK refs \in Seq(L!Names) :
          /\ Alike(known[x], refs, boxes[x])
          /\ tcp[o] \in {"open", "backlog"} => refs = sendingRefs[o]
  BY DEF Follows
<1>2. o \in L!Ends /\ L!Other(o) = x
  BY OtherEnd
<1>3. /\ sendingRefs' = L!Sent(to, name).refs
      /\ inbox' = [e \in L!Ends |->
            IF L!Other(e) \in L!Range(to) /\ tcp[L!Other(e)] = "open"
            THEN LET i == CHOOSE j \in DOMAIN to : to[j] = L!Other(e)
                 IN  Append(boxes[e], L!Sent(to, name).headers[IF late[i] THEN Len(to) ELSE i])
            ELSE boxes[e]]
      /\ miscounted' = miscounted \cup {L!Other(to[i]) : i \in {j \in DOMAIN to : late[j] /\ j < Len(to)}}
  BY DEF L!Written
<1>4. CASE o \notin L!Range(to)
  <2>1. inbox'[x] = boxes[x]
    BY <1>3, <1>4
  <2>2. \A i \in DOMAIN to : to[i] # o
    BY <1>4 DEF L!Range
  <2>3. sendingRefs'[o] = sendingRefs[o]
    BY <1>2, <1>3, <2>2 DEF L!Sent
  <2>4. QED
    BY <1>1, <2>1, <2>3
<1>5. CASE o \in L!Range(to)
  <2>1. PICK i \in DOMAIN to : to[i] = o
    BY <1>5 DEF L!Range
  <2>2. (CHOOSE j \in DOMAIN to : to[j] = L!Other(x)) = i
    BY <2>1 DEF Distinct
  <2>3. CASE tcp[o] # "open"
    <3>1. inbox'[x] = boxes[x] /\ tcp[o] \notin {"open", "backlog"}
      BY <1>3, <2>1, <2>3
    <3>2. QED
      BY <1>1, <3>1
  <2>4. CASE tcp[o] = "open"
    <3>1. late[i] => i = Len(to)
      <4>1. i <= Len(to) /\ Len(to) \in Nat /\ i \in Nat
        OBVIOUS
      <4>2. late[i] /\ i < Len(to) => L!Other(to[i]) \in miscounted'
        BY <1>3
      <4>3. QED
        BY <1>2, <2>1, <4>1, <4>2
    <3>2. inbox'[x] = Append(boxes[x], Word(to, name, i))
      BY <1>3, <1>5, <2>2, <2>4, <3>1 DEF Word
    <3>3. refs = sendingRefs[to[i]] /\ sendingRefs'[o] = After(to, name, to[i])
      BY <1>1, <1>3, <2>1, <2>4 DEF After
    <3>4. /\ Word(to, name, i) \in L!Message /\ After(to, name, to[i]) \in Seq(L!Names)
          /\ Len(refs) <= Len(After(to, name, to[i]))
          /\ \A k \in 1 .. Len(refs) : After(to, name, to[i])[k] = refs[k]
          /\ Tells(Word(to, name, i), After(to, name, to[i]), Len(refs), Len(After(to, name, to[i])))
      BY <3>3, WordTells
    <3>5. known[x] \in Seq(L!Names) /\ boxes[x] \in Seq(L!Message)
      OBVIOUS
    <3>6. Alike(known[x], After(to, name, to[i]), Append(boxes[x], Word(to, name, i)))
      BY <1>1, <3>4, <3>5, OneWritten
    <3>7. QED
      BY <3>2, <3>3, <3>4, <3>6
  <2>5. QED
    BY <2>3, <2>4
<1>6. QED
  BY <1>4, <1>5

\* Who was not written to counts what it did, and nobody is forgotten to have been miscounted.
LEMMA SaysRest ==
    ASSUME NEW to, NEW name, NEW late, NEW boxes, L!Written(to, name, late, boxes)
    PROVE  /\ \A x \in L!Ends : x \notin L!Range(to) => sendingRefs'[x] = sendingRefs[x]
           /\ miscounted \subseteq miscounted'
<1>1. sendingRefs' = L!Sent(to, name).refs
  BY DEF L!Written
<1>2. ASSUME NEW x \in L!Ends, x \notin L!Range(to) PROVE sendingRefs'[x] = sendingRefs[x]
  <2>1. \A i \in DOMAIN to : to[i] # x
    BY <1>2 DEF L!Range
  <2>2. QED
    BY <1>1, <2>1 DEF L!Sent
<1>3. QED
  BY <1>2 DEF L!Written

\* The ends that a side lists can be written to.
LEMMA ListedOpen ==
    ASSUME L!LinkAssumption, ListInv, NEW S \in SUBSET connections, NEW e \in L!Ends, tcp[e] \in {"open", "shut"},
           NEW to \in L!SetToSeqs(S \cup {e})
    PROVE  /\ to \in Seq(L!Ends) /\ to # <<>> /\ Distinct(to)
           /\ \A i \in DOMAIN to : tcp[to[i]] \in {"open", "shut"}
           /\ \A x \in L!Range(to) : tcp[x] \in {"open", "shut"}
<1>1. S \cup {e} \in SUBSET L!Ends /\ \A x \in S \cup {e} : tcp[x] \in {"open", "shut"}
  BY DEF ListInv, LinksShape, L!ListedAreMet
<1>2. /\ to \in Seq(L!Ends) /\ Len(to) \in Nat \ {0} /\ DOMAIN to = 1 .. Len(to)
      /\ \A i \in 1 .. Len(to) : to[i] \in S \cup {e}
      /\ Distinct(to)
  BY <1>1, ListedEnds DEF Distinct
<1>3. to # <<>>
  BY <1>2, EmptySeq
<1>4. QED
  BY <1>1, <1>2, <1>3 DEF L!Range

\* An end that nothing happens to counts as it did.
LEMMA SameCount ==
    ASSUME NEW x \in L!Ends, EndCounts(x), tcp'[x] = tcp[x], tcp'[L!Other(x)] = tcp[L!Other(x)],
           receivingRefs'[x] = receivingRefs[x], sendingRefs'[x] = sendingRefs[x],
           sendingRefs'[L!Other(x)] = sendingRefs[L!Other(x)], inbox'[x] = inbox[x],
           partial'[x] = partial[x], x \in miscounted => x \in miscounted'
    PROVE  EndCounts(x)'
  BY DEF EndCounts, Follows, Clear, L!Torn

\* What is quiet is right.
LEMMA AllCount ==
    ASSUME heard' = L!Nothing, ListInv', \A x \in L!Ends : EndCounts(x)'
    PROVE  LinkInv'
<1>1. L!CountedAlike'
  BY DEF L!CountedAlike, L!Nothing
<1>2. QED
  BY <1>1 DEF LinkInv

LEMMA CallsCount ==
    ASSUME LinkInv, ListInv', NEW to \in Seq(L!Ends), Distinct(to),
           \A i \in DOMAIN to : tcp[to[i]] \in {"open", "shut"}, NEW name \in Handlers, L!Broadcast(to, name),
           heard' = L!Nothing, UNCHANGED <<tcp, met, receivingRefs, partial, connections, stopped>>
    PROVE  LinkInv'
<1>1. /\ name \in L!Names /\ ListInv
      /\ receivingRefs \in [L!Ends -> Seq(L!Names)] /\ inbox \in [L!Ends -> Seq(L!Message)]
  BY NameTypes DEF LinkInv, ListInv, LinksShape
<1>2. PICK late \in [DOMAIN to -> BOOLEAN] : L!Written(to, name, late, inbox)
  BY DEF L!Broadcast
<1>3. /\ \A x \in L!Ends : x \notin L!Range(to) => sendingRefs'[x] = sendingRefs[x]
      /\ miscounted \subseteq miscounted'
  BY <1>2, SaysRest
<1>4. ASSUME NEW x \in L!Ends PROVE EndCounts(x)'
  <2>1. EndCounts(x)
    BY DEF LinkInv
  <2>2. Clear(x)' => Clear(x) /\ x \notin miscounted'
    BY <1>3 DEF Clear, L!Torn
  <2>3. Clear(x)' => Follows(x, tcp', receivingRefs', sendingRefs', inbox')
    <3> SUFFICES ASSUME Clear(x)' PROVE Follows(x, tcp, receivingRefs, sendingRefs', inbox')
      OBVIOUS
    <3>1. Follows(x, tcp, receivingRefs, sendingRefs, inbox) /\ x \notin miscounted'
      BY <2>1, <2>2 DEF EndCounts
    <3>2. QED
      BY <1>1, <1>2, <3>1, SaysCount
  <2>4. tcp[x] \in {"closed", "backlog"} => x \notin L!Range(to)
    BY DEF L!Range
  <2>5. QED
    BY <1>3, <2>1, <2>3, <2>4 DEF EndCounts
<1>5. QED
  BY <1>4, AllCount

LEMMA ConnectsCount ==
    ASSUME LinkInv, ListInv', NEW l \in Links, L!Connect(l) \/ L!Accept(l) \/ L!Refused(l)
    PROVE  LinkInv'
<1> SUFFICES ASSUME NEW t, t = <<"target", l>>, NEW c, c = <<"client", l>>
             PROVE  LinkInv'
  OBVIOUS
<1>1. t \in L!Ends /\ c \in L!Ends /\ L!Other(t) = c /\ L!Other(c) = t /\ t # c
  BY OtherEnd
<1>2. UNCHANGED <<met, sendingRefs, receivingRefs, partial, connections, stopped>> /\ heard' = L!Nothing
  BY DEF L!Connect, L!Accept, L!Refused
<1>3. EndCounts(t) /\ EndCounts(c)
  BY <1>1 DEF LinkInv
<1>4. /\ inbox \in [L!Ends -> Seq(L!Message)] /\ tcp \in [L!Ends -> {"closed", "backlog", "open", "shut"}]
      /\ \A x \in L!Ends : receivingRefs[x] \in Seq(L!Names) /\ sendingRefs[x] \in Seq(L!Names)
  BY DEF LinkInv, ListInv, LinksShape
<1>5. \A refs \in Seq(L!Names) : Tells(L!Hello, refs, Len(refs), Len(refs))
  BY DEF Tells, L!Hello
<1>6. ASSUME NEW known \in Seq(L!Names), NEW refs \in Seq(L!Names), NEW box \in Seq(L!Message), Alike(known, refs, box)
      PROVE  Alike(known, refs, Append(box, L!Hello))
  <2>1. Len(refs) <= Len(refs)
    OBVIOUS
  <2>2. Tells(L!Hello, refs, Len(refs), Len(refs))
    BY <1>5
  <2>3. L!Hello \in L!Message
    BY NameTypes
  <2>4. QED
    BY <1>6, <2>1, <2>2, <2>3, OneWritten
<1>7. ASSUME NEW x \in L!Ends, x # t, x # c PROVE EndCounts(x)'
  <2>1. L!Other(x) # t /\ L!Other(x) # c /\ L!Other(x) \in L!Ends
    BY <1>1, <1>7, OtherEnd
  <2>2. /\ tcp'[x] = tcp[x] /\ tcp'[L!Other(x)] = tcp[L!Other(x)] /\ inbox'[x] = inbox[x]
        /\ x \in miscounted => x \in miscounted'
    <3>1. L!Connect(l) => /\ tcp' = [tcp EXCEPT ![t] = "open", ![c] = "backlog"]
                          /\ inbox' = [inbox EXCEPT ![t] = <<>>, ![c] = <<L!Hello>>]
                          /\ miscounted' = miscounted \ {t, c}
      BY <1>1 DEF L!Connect
    <3>2. L!Accept(l) => /\ tcp' = [tcp EXCEPT ![c] = "open"] /\ miscounted' = miscounted
                         /\ inbox' \in {inbox, [inbox EXCEPT ![t] = Append(inbox[t], L!Hello)]}
      BY <1>1 DEF L!Accept
    <3>3. L!Refused(l) => /\ tcp' = [tcp EXCEPT ![c] = "closed"] /\ inbox' = [inbox EXCEPT ![c] = <<>>]
                          /\ miscounted' = miscounted
      BY DEF L!Refused
    <3>4. QED
      BY <1>1, <1>4, <1>7, <2>1, <3>1, <3>2, <3>3
  <2>3. EndCounts(x)
    BY DEF LinkInv
  <2>4. QED
    BY <1>2, <2>2, <2>3, SameCount
<1>8. CASE L!Connect(l)
  <2>1. /\ tcp[t] = "closed" /\ tcp[c] = "closed"
        /\ tcp' = [tcp EXCEPT ![t] = "open", ![c] = "backlog"]
        /\ inbox' = [inbox EXCEPT ![t] = <<>>, ![c] = <<L!Hello>>]
    BY <1>1, <1>8 DEF L!Connect
  <2>2. tcp'[t] = "open" /\ tcp'[c] = "backlog" /\ inbox'[t] = <<>> /\ inbox'[c] = <<L!Hello>>
    BY <1>1, <1>4, <2>1
  <2>3. sendingRefs[t] = <<>> /\ receivingRefs[t] = <<>> /\ sendingRefs[c] = <<>> /\ receivingRefs[c] = <<>>
    BY <1>3, <2>1 DEF EndCounts
  <2>4. <<>> \in Seq(L!Names) /\ <<>> \in Seq(L!Message) /\ Append(<<>>, L!Hello) = <<L!Hello>>
    OBVIOUS
  <2>5. Alike(<<>>, <<>>, <<>>) /\ Alike(<<>>, <<>>, <<L!Hello>>)
    BY <1>6, <2>4, NothingLeft
  <2>6. EndCounts(t)'
    BY <1>1, <1>2, <2>2, <2>3, <2>4, <2>5 DEF EndCounts, Follows
  <2>7. EndCounts(c)'
    BY <1>1, <1>2, <2>2, <2>3, <2>4, <2>5 DEF EndCounts, Follows
  <2>8. QED
    BY <1>2, <1>7, <2>6, <2>7, AllCount
<1>9. CASE L!Accept(l)
  <2>1. /\ tcp[c] = "backlog" /\ tcp' = [tcp EXCEPT ![c] = "open"] /\ miscounted' = miscounted
        /\ inbox' = IF tcp[t] = "closed" THEN inbox ELSE [inbox EXCEPT ![t] = Append(inbox[t], L!Hello)]
    BY <1>1, <1>9 DEF L!Accept
  <2>2. /\ tcp'[t] = tcp[t] /\ tcp'[c] = "open" /\ inbox'[c] = inbox[c]
        /\ tcp[t] # "closed" => inbox'[t] = Append(inbox[t], L!Hello)
    BY <1>1, <1>4, <2>1
  <2>3. (Clear(t)' <=> Clear(t)) /\ (Clear(c)' <=> Clear(c))
    BY <1>2, <2>1 DEF Clear, L!Torn
  <2>4. EndCounts(c)'
    BY <1>1, <1>2, <1>3, <2>1, <2>2, <2>3 DEF EndCounts, Follows
  <2>5. Clear(t) => Follows(t, tcp', receivingRefs', sendingRefs', inbox')
    <3>1. CASE tcp[t] = "closed"
      BY <2>2, <3>1 DEF Follows
    <3>2. CASE tcp[t] # "closed" /\ Clear(t)
      <4>1. Alike(receivingRefs[t], sendingRefs[c], inbox[t])
        BY <1>1, <1>3, <2>1, <3>2 DEF EndCounts, Follows
      <4>2. Alike(receivingRefs[t], sendingRefs[c], inbox'[t])
        BY <1>1, <1>4, <1>6, <2>2, <3>2, <4>1
      <4>3. QED
        BY <1>1, <1>2, <1>4, <4>2 DEF Follows
    <3>3. QED
      BY <3>1, <3>2
  <2>6. EndCounts(t)'
    BY <1>2, <1>3, <2>2, <2>3, <2>5 DEF EndCounts
  <2>7. QED
    BY <1>2, <1>7, <2>4, <2>6, AllCount
<1>10. CASE L!Refused(l)
  <2>1. /\ tcp[c] = "backlog" /\ tcp' = [tcp EXCEPT ![c] = "closed"] /\ inbox' = [inbox EXCEPT ![c] = <<>>]
        /\ miscounted' = miscounted
    BY <1>1, <1>10 DEF L!Refused
  <2>2. tcp'[t] = tcp[t] /\ tcp'[c] = "closed" /\ inbox'[t] = inbox[t]
    BY <1>1, <1>4, <2>1
  <2>3. EndCounts(c)'
    BY <1>2, <1>3, <2>1, <2>2 DEF EndCounts, Follows
  <2>4. EndCounts(t)'
    <3>1. Clear(t)' => Clear(t)
      BY <1>2, <2>1 DEF Clear, L!Torn
    <3>2. QED
      BY <1>1, <1>2, <1>3, <2>1, <2>2, <3>1 DEF EndCounts, Follows
  <2>5. QED
    BY <1>2, <1>7, <2>3, <2>4, AllCount
<1>11. QED
  BY <1>8, <1>9, <1>10

LEMMA ClosesCount ==
    ASSUME LinkInv, ListInv', NEW e \in L!Ends, NEW left, L!Closed(e, left)
    PROVE  LinkInv'
<1> SUFFICES ASSUME NEW o, o = L!Other(e)
             PROVE  LinkInv'
  OBVIOUS
<1>1. o \in L!Ends /\ o # e /\ L!Other(o) = e
  BY OtherEnd
<1>2. /\ tcp' = [tcp EXCEPT ![e] = "closed"]
      /\ inbox' = [inbox EXCEPT ![e] = <<>>, ![o] = left]
      /\ \E part \in L!Outlives(e) : partial' = [partial EXCEPT ![e] = part]
      /\ heard' = L!Nothing /\ left \in {inbox[o], <<>>} /\ miscounted' = miscounted
      /\ sendingRefs' = [sendingRefs EXCEPT ![e] = <<>>] /\ receivingRefs' = [receivingRefs EXCEPT ![e] = <<>>]
  BY DEF L!Closed, L!Disconnected
<1>3. /\ inbox \in [L!Ends -> Seq(L!Message)] /\ tcp \in [L!Ends -> {"closed", "backlog", "open", "shut"}]
      /\ receivingRefs \in [L!Ends -> Seq(L!Names)] /\ sendingRefs \in [L!Ends -> Seq(L!Names)]
      /\ partial \in [L!Ends -> {"none", "some", "size", "torn"}]
  BY DEF LinkInv, ListInv, LinksShape
<1>4. /\ tcp'[e] = "closed" /\ sendingRefs'[e] = <<>> /\ receivingRefs'[e] = <<>>
      /\ tcp'[o] = tcp[o] /\ sendingRefs'[o] = sendingRefs[o] /\ receivingRefs'[o] = receivingRefs[o]
      /\ inbox'[o] = left /\ partial'[o] = partial[o]
  BY <1>1, <1>2, <1>3
<1>5. EndCounts(e) /\ EndCounts(o)
  BY <1>1 DEF LinkInv
<1>6. EndCounts(e)'
  BY <1>4, <1>5 DEF EndCounts, Follows
<1>7. Clear(o)' => Clear(o)
  BY <1>2, <1>4 DEF Clear, L!Torn
<1>8. Clear(o) => Follows(o, tcp', receivingRefs', sendingRefs', inbox')
  <2> SUFFICES ASSUME Clear(o), tcp[o] # "closed"
               PROVE  \E refs \in Seq(L!Names) : Alike(receivingRefs[o], refs, left)
    BY <1>1, <1>4 DEF Follows
  <2>1. CASE left = <<>>
    BY <1>1, <1>3, <2>1, NothingLeft
  <2>2. CASE left = inbox[o]
    BY <1>5, <2>2 DEF EndCounts, Follows
  <2>3. QED
    BY <1>2, <2>1, <2>2
<1>9. EndCounts(o)'
  BY <1>4, <1>5, <1>7, <1>8 DEF EndCounts
<1>10. ASSUME NEW x \in L!Ends, x # e, x # o PROVE EndCounts(x)'
  <2>1. L!Other(x) # e /\ L!Other(x) # o /\ L!Other(x) \in L!Ends
    BY <1>1, <1>10, OtherEnd
  <2>2. /\ tcp'[x] = tcp[x] /\ tcp'[L!Other(x)] = tcp[L!Other(x)] /\ inbox'[x] = inbox[x]
        /\ receivingRefs'[x] = receivingRefs[x] /\ sendingRefs'[x] = sendingRefs[x]
        /\ sendingRefs'[L!Other(x)] = sendingRefs[L!Other(x)] /\ partial'[x] = partial[x]
    BY <1>1, <1>2, <1>3, <1>10, <2>1
  <2>3. EndCounts(x)
    BY DEF LinkInv
  <2>4. QED
    BY <1>2, <2>2, <2>3, SameCount
<1>11. QED
  BY <1>2, <1>6, <1>9, <1>10, AllCount

LEMMA LeavesCount ==
    ASSUME LinkInv, ListInv',
           \/ \E e \in L!Ends : L!Reject(e) \/ \E part \in {"some", "size"} : L!ReceivePart(e, part)
           \/ \E side \in L!Sides : L!Stop(side)
    PROVE  LinkInv'
<1>1. tcp \in [L!Ends -> {"closed", "backlog", "open", "shut"}]
  BY DEF LinkInv, ListInv, LinksShape
<1>2. /\ UNCHANGED <<sendingRefs, receivingRefs, inbox, miscounted>> /\ heard' = L!Nothing
      /\ \A x \in L!Ends : tcp'[x] = tcp[x] \/ (tcp[x] = "open" /\ tcp'[x] = "shut")
      /\ \A x \in L!Ends : L!Torn(x) => L!Torn(x)'
  <2>1. ASSUME NEW e \in L!Ends, L!Reject(e)
        PROVE  /\ UNCHANGED <<sendingRefs, receivingRefs, inbox, partial, miscounted>> /\ heard' = L!Nothing
               /\ \A x \in L!Ends : tcp'[x] = tcp[x] \/ (tcp[x] = "open" /\ tcp'[x] = "shut")
    BY <1>1, <2>1 DEF L!Reject
  <2>2. ASSUME NEW side \in L!Sides, L!Stop(side)
        PROVE  /\ UNCHANGED <<sendingRefs, receivingRefs, inbox, partial, miscounted>> /\ heard' = L!Nothing
               /\ \A x \in L!Ends : tcp'[x] = tcp[x] \/ (tcp[x] = "open" /\ tcp'[x] = "shut")
    BY <1>1, <2>2 DEF L!Stop
  <2>3. ASSUME NEW e \in L!Ends, NEW part \in {"some", "size"}, L!ReceivePart(e, part)
        PROVE  /\ UNCHANGED <<sendingRefs, receivingRefs, inbox, tcp, miscounted>> /\ heard' = L!Nothing
               /\ \A x \in L!Ends : L!Torn(x) => L!Torn(x)'
    <3>1. partial' = [partial EXCEPT ![e] = part] /\ ~L!Torn(e)
      BY <2>3 DEF L!ReceivePart, L!Torn
    <3>2. partial \in [L!Ends -> {"none", "some", "size", "torn"}]
      BY DEF LinkInv, ListInv, LinksShape
    <3>3. \A x \in L!Ends : L!Torn(x) => L!Torn(x)'
      BY <3>1, <3>2 DEF L!Torn
    <3>4. QED
      BY <2>3, <3>3 DEF L!ReceivePart
  <2>4. (UNCHANGED partial) => \A x \in L!Ends : L!Torn(x) => L!Torn(x)'
    BY DEF L!Torn
  <2>5. QED
    BY <2>1, <2>2, <2>3, <2>4
<1>3. ASSUME NEW x \in L!Ends PROVE EndCounts(x)'
  <2>1. EndCounts(x) /\ L!Other(x) \in L!Ends
    BY OtherEnd DEF LinkInv
  <2>2. Clear(x)' => Clear(x)
    BY <1>2 DEF Clear
  <2>3. QED
    BY <1>2, <2>1, <2>2 DEF EndCounts, Follows
<1>4. QED
  BY <1>2, <1>3, AllCount

LEMMA ResolvedIs ==
    ASSUME NEW e \in L!Ends, NEW m \in L!Message
    PROVE  /\ m.as = "hello" => L!Resolved(e, m) = ""
           /\ m.as = "name" => L!Resolved(e, m) = m.name
           /\ m.as = "ref" /\ m.ref \in DOMAIN receivingRefs[e] => L!Resolved(e, m) = receivingRefs[e][m.ref]
  BY DEF L!Resolved

\* What is read was counted by the sender, as it is counted now.
LEMMA ReceivesCount ==
    ASSUME L!LinkAssumption, LinkInv, ListInv', NEW e \in L!Ends, NEW handler \in L!Names, L!Receive(e, handler)
    PROVE  LinkInv'
<1> DEFINE m == Head(inbox[e])
           rest == [inbox EXCEPT ![e] = Tail(inbox[e])]
           how == IF L!Torn(e) THEN "torn" ELSE IF e \in miscounted THEN "miscounted" ELSE "whole"
<1>1. /\ tcp[e] \in {"open", "shut"} /\ inbox[e] # <<>>
      /\ handler \in L!Understood(e, m)
      /\ receivingRefs' = IF m.as = "name" /\ ~L!Torn(e)
                          THEN [receivingRefs EXCEPT ![e] = Append(receivingRefs[e], m.name)] ELSE receivingRefs
      /\ partial' = [partial EXCEPT ![e] = IF L!Torn(e) THEN "torn" ELSE "none"]
      /\ heard' = [sent |-> m.sent, handler |-> handler, dirty |-> m.dirty, how |-> how]
      /\ tcp' = tcp
  BY DEF L!Receive
<1>2. \/ \E to \in L!SetToSeqs(L!Listed(e[1]) \cup {e}) : \E late \in [DOMAIN to -> BOOLEAN] :
            L!Written(to, ".", late, rest)
      \/ inbox' = rest /\ UNCHANGED <<sendingRefs, miscounted>>
  BY DEF L!Receive
<1>3. ~L!Torn(e) => handler = L!Resolved(e, m)
  BY <1>1 DEF L!Understood, L!Torn
<1>4. /\ heard'.sent = m.sent /\ heard'.handler = handler /\ heard'.dirty = m.dirty
      /\ heard'.how = "whole" => Clear(e)
  <2>1. how = "whole" => Clear(e)
    BY DEF Clear
  <2> HIDE DEF how, m
  <2>2. QED
    BY <1>1, <2>1
<1> HIDE DEF how
<1>5. /\ inbox \in [L!Ends -> Seq(L!Message)] /\ receivingRefs \in [L!Ends -> Seq(L!Names)]
      /\ receivingRefs' \in [L!Ends -> Seq(L!Names)] /\ partial \in [L!Ends -> {"none", "some", "size", "torn"}]
      /\ ListInv
  BY DEF LinkInv, ListInv, LinksShape
<1>6. m \in L!Message /\ Tail(inbox[e]) \in Seq(L!Message)
  <2>1. \A box \in Seq(L!Message) : box # <<>> => Head(box) \in L!Message /\ Tail(box) \in Seq(L!Message)
    OBVIOUS
  <2>2. QED
    BY <1>1, <1>5, <2>1
<1>7. rest \in [L!Ends -> Seq(L!Message)] /\ rest[e] = Tail(inbox[e]) /\ \A x \in L!Ends \ {e} : rest[x] = inbox[x]
  BY <1>5, <1>6
<1> HIDE DEF rest
<1>8. ASSUME Clear(e)
      PROVE  /\ heard'.handler = heard'.sent \/ (heard'.dirty /\ heard'.handler = "")
             /\ Follows(e, tcp, receivingRefs', sendingRefs, rest)
  <2>1. PICK refs \in Seq(L!Names) :
            /\ Alike(receivingRefs[e], refs, inbox[e])
            /\ tcp[L!Other(e)] \in {"open", "backlog"} => refs = sendingRefs[L!Other(e)]
    BY <1>1, <1>8 DEF LinkInv, EndCounts, Follows
  <2>2. /\ m.as = "hello" => m.sent = "" \/ m.dirty
        /\ m.as = "name" => m.name = m.sent
        /\ m.as = "ref" => m.ref \in DOMAIN receivingRefs[e] /\ receivingRefs[e][m.ref] = m.sent
        /\ Alike(IF m.as = "name" THEN Append(receivingRefs[e], m.name) ELSE receivingRefs[e], refs, Tail(inbox[e]))
    <3>1. receivingRefs[e] \in Seq(L!Names) /\ inbox[e] \in Seq(L!Message)
      BY <1>5
    <3>2. QED
      BY <1>1, <2>1, <3>1, OneRead
  <2> HIDE DEF m
  <2>3. heard'.handler = heard'.sent \/ (heard'.dirty /\ heard'.handler = "")
    <3>1. m.as \in {"name", "ref", "hello"}
      BY <1>6 DEF L!Message
    <3>2. handler = L!Resolved(e, m)
      BY <1>3, <1>8 DEF Clear
    <3>3. handler = m.sent \/ (m.dirty /\ handler = "")
      BY <1>6, <2>2, <3>1, <3>2, ResolvedIs
    <3>4. QED
      BY <1>4, <3>3
  <2>4. receivingRefs'[e] = IF m.as = "name" THEN Append(receivingRefs[e], m.name) ELSE receivingRefs[e]
    BY <1>1, <1>5, <1>8 DEF Clear
  <2>5. QED
    BY <1>7, <2>1, <2>2, <2>3, <2>4 DEF Follows
<1>9. \A x \in L!Ends \ {e} : receivingRefs'[x] = receivingRefs[x] /\ partial'[x] = partial[x]
  BY <1>1, <1>5
<1>10. L!Torn(e) => L!Torn(e)'
  BY <1>1, <1>5 DEF L!Torn
<1>11. \A x \in L!Ends : Clear(x) => Follows(x, tcp, receivingRefs', sendingRefs, rest)
  <2>1. ASSUME NEW x \in L!Ends \ {e}, Clear(x) PROVE Follows(x, tcp, receivingRefs', sendingRefs, rest)
    BY <1>7, <1>9, <2>1 DEF LinkInv, EndCounts, Follows
  <2>2. QED
    BY <1>8, <2>1
<1>12. /\ \A x \in L!Ends : Clear(x) /\ x \notin miscounted' => Follows(x, tcp, receivingRefs', sendingRefs', inbox')
       /\ \A x \in L!Ends : tcp[x] \in {"closed", "backlog"} => sendingRefs'[x] = sendingRefs[x]
       /\ miscounted \subseteq miscounted'
  <2>1. CASE inbox' = rest /\ UNCHANGED <<sendingRefs, miscounted>>
    BY <1>11, <2>1
  <2>2. ASSUME NEW to \in L!SetToSeqs(L!Listed(e[1]) \cup {e}), NEW late \in [DOMAIN to -> BOOLEAN],
               L!Written(to, ".", late, rest)
        PROVE  /\ \A x \in L!Ends : Clear(x) /\ x \notin miscounted' => Follows(x, tcp, receivingRefs', sendingRefs', inbox')
               /\ \A x \in L!Ends : tcp[x] \in {"closed", "backlog"} => sendingRefs'[x] = sendingRefs[x]
               /\ miscounted \subseteq miscounted'
    <3>1. L!Listed(e[1]) \in SUBSET connections
      BY DEF L!Listed
    <3>2. /\ to \in Seq(L!Ends) /\ to # <<>> /\ Distinct(to)
          /\ \A i \in DOMAIN to : tcp[to[i]] \in {"open", "shut"}
          /\ \A x \in L!Range(to) : tcp[x] \in {"open", "shut"}
      BY <1>1, <1>5, <3>1, ListedOpen
    <3>3. /\ \A x \in L!Ends : x \notin L!Range(to) => sendingRefs'[x] = sendingRefs[x]
          /\ miscounted \subseteq miscounted'
      BY <2>2, SaysRest
    <3>4. ASSUME NEW x \in L!Ends, Clear(x), x \notin miscounted'
          PROVE  Follows(x, tcp, receivingRefs', sendingRefs', inbox')
      <4>1. "." \in L!Names /\ Follows(x, tcp, receivingRefs', sendingRefs, rest)
        BY <1>11, <3>4, NameTypes
      <4>2. QED
        BY <1>5, <1>7, <2>2, <3>2, <3>4, <4>1, SaysCount
    <3>5. QED
      BY <3>2, <3>3, <3>4
  <2>3. QED
    BY <1>2, <2>1, <2>2
<1>13. ASSUME NEW x \in L!Ends PROVE EndCounts(x)'
  <2>1. EndCounts(x)
    BY DEF LinkInv
  <2>2. Clear(x)' => Clear(x) /\ x \notin miscounted'
    <3>1. L!Torn(x) => L!Torn(x)'
      BY <1>9, <1>10 DEF L!Torn
    <3>2. QED
      BY <1>12, <3>1 DEF Clear
  <2>3. Clear(x)' => Follows(x, tcp', receivingRefs', sendingRefs', inbox')
    BY <1>1, <1>12, <2>2
  <2>4. tcp'[x] \in {"closed", "backlog"} => sendingRefs'[x] = <<>> /\ receivingRefs'[x] = <<>>
    BY <1>1, <1>9, <1>12, <2>1 DEF EndCounts
  <2>5. QED
    BY <2>3, <2>4 DEF EndCounts
<1>14. L!CountedAlike'
  BY <1>4, <1>8 DEF L!CountedAlike
<1>15. QED
  BY <1>13, <1>14 DEF LinkInv

LEMMA LinkStep ==
    ASSUME L!LinkAssumption, LinkInv, [L!Next]_(L!vars)
    PROVE  LinkInv'
<1>1. ListInv' /\ ListInv
  BY ListStep DEF LinkInv
<1>2. CASE UNCHANGED L!vars
  BY <1>1, <1>2 DEF L!vars, LinkInv, EndCounts, Follows, Clear, L!Torn, L!CountedAlike
<1>3. ASSUME NEW e \in L!Ends, NEW name \in Handlers, L!Call(e, name) PROVE LinkInv'
  <2>1. <<e>> \in Seq(L!Ends) /\ DOMAIN <<e>> = {1} /\ <<e>>[1] = e
    OBVIOUS
  <2>2. tcp[e] \in {"open", "shut"}
    BY <1>1, <1>3 DEF L!Call, ListInv, L!ListedAreMet
  <2>3. Distinct(<<e>>) /\ \A i \in DOMAIN <<e>> : tcp[<<e>>[i]] \in {"open", "shut"}
    BY <2>1, <2>2 DEF Distinct
  <2>4. QED
    BY <1>1, <1>3, <2>1, <2>3, CallsCount DEF L!Call
<1>4. ASSUME NEW side \in L!Sides, NEW name \in Handlers, L!CallAll(side, name) PROVE LinkInv'
  <2>1. PICK to \in L!SetToSeqs(L!Listed(side)) : L!Broadcast(to, name)
    BY <1>4 DEF L!CallAll
  <2>2. PICK e : e \in L!Listed(side)
    BY <1>4 DEF L!CallAll
  <2>3. /\ L!Listed(side) \in SUBSET connections /\ L!Listed(side) \cup {e} = L!Listed(side) /\ e \in L!Ends
        /\ tcp[e] \in {"open", "shut"}
    BY <1>1, <2>2 DEF L!Listed, ListInv, LinksShape, L!ListedAreMet
  <2>4. to \in L!SetToSeqs(L!Listed(side) \cup {e})
    BY <2>3
  <2>5. /\ to \in Seq(L!Ends) /\ Distinct(to)
        /\ \A i \in DOMAIN to : tcp[to[i]] \in {"open", "shut"}
    BY <1>1, <2>3, <2>4, ListedOpen
  <2>6. QED
    BY <1>1, <1>4, <2>1, <2>5, CallsCount DEF L!CallAll
<1>5. CASE L!Next
  BY <1>1, <1>3, <1>4, <1>5, ConnectsCount, ClosesCount, LeavesCount, ReceivesCount DEF L!Next
<1>6. QED
  BY <1>2, <1>5

LEMMA ListInductive == ASSUME L!LinkAssumption PROVE L!Spec => []ListInv
<1>1. L!Init => ListInv
  BY ListInit
<1>2. ListInv /\ [L!Next]_(L!vars) => ListInv'
  BY ListStep
<1>3. QED
  BY <1>1, <1>2, PTL DEF L!Spec

LEMMA LinkInductive == ASSUME L!LinkAssumption PROVE L!Spec => []LinkInv
<1>1. L!Init => LinkInv
  <2> SUFFICES ASSUME L!Init PROVE LinkInv
    OBVIOUS
  <2>1. ListInv
    BY ListInit
  <2>2. \A e \in L!Ends : EndCounts(e)
    BY DEF L!Init, EndCounts, Follows
  <2>3. L!CountedAlike
    BY DEF L!Init, L!CountedAlike, L!Nothing
  <2>4. QED
    BY <2>1, <2>2, <2>3 DEF LinkInv
<1>2. LinkInv /\ [L!Next]_(L!vars) => LinkInv'
  BY LinkStep
<1>3. QED
  BY <1>1, <1>2, PTL DEF L!Spec

\* For any number of links and handlers, the connections, what each end counts and what is
\* on its way have their types (Servers.cpp:29-176, ServerConnection.cpp:34-196).
THEOREM LinksTypeCorrect == ASSUME L!LinkAssumption PROVE L!Spec => []L!TypeOK
<1>1. ListInv => L!TypeOK
  BY DEF ListInv, LinksShape, L!TypeOK
<1>2. QED
  BY <1>1, ListInductive, PTL

\* ... and a server lists the ends that said hello and have not gone, however they
\* connect, are refused, rejected or closed, and whichever server stops.
THEOREM ListedCorrect == ASSUME L!LinkAssumption PROVE L!Spec => []L!ListedAreMet
<1>1. ListInv => L!ListedAreMet
  BY DEF ListInv
<1>2. QED
  BY <1>1, ListInductive, PTL

\* ... and as long as what comes on a link is whole and no message took the header of another
\* end, it is besides handled by the name that it was sent to, although the two ends tally the
\* names apart, what is on its way may be lost when one of them closes, and the link is made
\* again: a message written to several ends, and that was not the first to be, may be taken for
\* a hello (ServerConnection.cpp:77-173).
THEOREM LinksCorrect == ASSUME L!LinkAssumption PROVE L!Spec => []L!LinksSound
<1>1. LinkInv => L!LinksSound
  BY DEF LinkInv, ListInv, L!LinksSound
<1>2. QED
  BY <1>1, LinkInductive, PTL
====
