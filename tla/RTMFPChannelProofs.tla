------------------------- MODULE RTMFPChannelProofs -------------------------
(***************************************************************************)
(* Proofs about RTMFPChannel, for any number of messages, stages and       *)
(* chunks: what the writer forgets of a reliable message the receiver has, *)
(* and the two ends keep the promise of MessageChannel while the flow is   *)
(* not created again after its end.                                        *)
(*                                                                         *)
(* Both ends are in step with a numbering: the list of the fragments that  *)
(* the writer numbered, in the order of their stages.  The band carries    *)
(* nothing else (Numbers), what is owed is queued or in it (Owes), and the *)
(* receiver took nothing else, nor left anything of it out (Hears).  The   *)
(* numbering grows with the writer's steps, so the invariant CInv says     *)
(* that there is one.                                                      *)
(***************************************************************************)
EXTENDS RTMFPChannel, RTMFPWriterProofs

\* The receiver again, with the lemmas on what it does with any chunk.
P == INSTANCE RTMFPFlowProofs WITH plan <- <<>>

\* The receiver of the channel is the one of those lemmas: the chunks it holds,
LEMMA PartAlike ==
    \A f, c, s : /\ R!PartAt(f, c, s) = P!PartAt(f, c, s)
                 /\ R!Ends(f, c, s) <=> P!Ends(f, c, s)
BY DEF R!PartAt, P!PartAt, R!PartOf, P!PartOf, R!Ends, P!Ends

\* those it handles,
LEMMA StagesAlike == \A f, c : R!Handled(f, c) = P!Handled(f, c)
BY DEF R!Handled, P!Handled, R!Reached, P!Reached, R!Left, P!Left,
  R!Following, P!Following, R!Skips, P!Skips, R!Ends, P!Ends,
  R!PartAt, P!PartAt, R!PartOf, P!PartOf

\* how it goes along them,
LEMMA WalkAlike == \A f, c : R!Walk(f, c) = P!Walk(f, c)
BY DEF R!Walk, P!Walk, R!Handled, P!Handled, R!Reached, P!Reached, R!Left, P!Left,
  R!Following, P!Following, R!Skips, P!Skips, R!Ends, P!Ends,
  R!PartAt, P!PartAt, R!PartOf, P!PartOf,
  R!SortedHandler, P!SortedHandler, R!Processed, P!Processed, R!Max, P!Max

\* what it does with a chunk,
LEMMA HandledAlike == \A f, c : R!FragmentHandler(f, c) = P!FragmentHandler(f, c)
<1> SUFFICES ASSUME NEW f, NEW c PROVE R!FragmentHandler(f, c) = P!FragmentHandler(f, c)
  OBVIOUS
<1>1. R!Sorted(f, c) = P!Sorted(f, c)
  <2>1. R!Completes(f, c) = P!Completes(f, c) /\ R!Missing(f, c) = P!Missing(f, c)
    BY StagesAlike, PartAlike DEF R!Completes, P!Completes, R!Missing, P!Missing
  <2>2. R!Rest(f, c) = P!Rest(f, c)
    BY StagesAlike, <2>1 DEF R!Rest, P!Rest
  <2>3. R!Max(R!Handled(f, c)) = P!Max(P!Handled(f, c))
    BY StagesAlike DEF R!Max, P!Max
  <2>4. QED
    BY <2>1, <2>2, <2>3, WalkAlike, Zenon DEF R!Sorted, P!Sorted
<1>2. R!Buffered(f, c) = P!Buffered(f, c)
  BY PartAlike DEF R!Buffered, P!Buffered
<1>3. (R!Late(f, c) <=> P!Late(f, c)) /\ (R!InTurn(f, c) <=> P!InTurn(f, c))
  BY DEF R!Late, P!Late, R!InTurn, P!InTurn, R!Skips, P!Skips
<1>4. QED
  BY <1>1, <1>2, <1>3 DEF R!FragmentHandler, P!FragmentHandler

\* its acknowledgments,
LEMMA AckAlike == \A f : R!Ack(f) = P!Ack(f)
BY DEF R!Ack, P!Ack, R!Refused, P!Refused, R!Losts, P!Losts, R!Counts, P!Counts,
  R!Newest, P!Newest, R!Max, P!Max, R!Counted, P!Counted

\* how they are read,
LEMMA ReadAlike == \A a : R!ReportedReceived(a) = P!ReportedReceived(a)
BY DEF R!ReportedReceived, P!ReportedReceived, R!Read, P!Read, R!ReadRange, P!ReadRange

\* and what it starts from.
LEMMA ConstantsAlike == R!NewFlow = P!NewFlow /\ R!NoFlow = P!NoFlow
BY DEF R!NewFlow, P!NewFlow, R!NoFlow, P!NoFlow

-----------------------------------------------------------------------------
(* Lists of lists                                                          *)

\* FlattenSeq appends the lists one by one.
LEMMA FlattenedAlong ==
    ASSUME NEW S, NEW w \in Seq(Seq(S)), Len(w) > 0
    PROVE  \E g : /\ g \in [1..Len(w) -> Seq(S)]
                  /\ \A i \in 1..Len(w) : g[i] = IF i = 1 THEN w[i] ELSE g[i - 1] \o w[i]
                  /\ FlattenSeq(w) = g[Len(w)]
<1> DEFINE n == Len(w)
           Q == Seq(S)
           step == [x \in Q \X Nat |-> IF x[2] \in 1..n THEN x[1] \o w[x[2]] ELSE x[1]]
           T(r) == r = [i \in 1..n |-> IF i = 1 THEN w[i] ELSE r[i - 1] \o w[i]]
<1>1. n \in Nat /\ n > 0 /\ \A i \in 1..n : w[i] \in Q
  OBVIOUS
<1>2. step \in [Q \X Nat -> Q]
  BY <1>1, ConcatProperties
<1>3. w[1] \in Q
  BY <1>1
<1>4. PICK g : P!WalkOf(g, Q, 1, n, w[1], step)
  <2> HIDE DEF step, Q, n
  <2>1. P!Steps(Q, 1, n, w[1], step)
    BY <1>1, <1>2, <1>3 DEF P!Steps
  <2>2. QED
    BY <2>1, P!WalkedAlong, ChannelAssumption, WriterAssumption
<1>5. g \in [1..n -> Q] /\ \A i \in 1..n : g[i] = IF i = 1 THEN w[i] ELSE g[i - 1] \o w[i]
  <2>1. g \in [1..n -> Q]
    BY <1>4 DEF P!WalkOf
  <2>2. ASSUME NEW i \in 1..n PROVE g[i] = IF i = 1 THEN w[i] ELSE g[i - 1] \o w[i]
    <3>1. g[i] = IF i = 1 THEN w[1] ELSE step[<<g[i - 1], i>>]
      BY <1>4 DEF P!WalkOf
    <3>2. CASE i = 1
      BY <3>1, <3>2
    <3>3. CASE i # 1
      <4>1. g[i - 1] \in Q /\ i \in Nat
        <5>1. i - 1 \in 1..n /\ i \in Nat
          BY <1>1, <3>3
        <5> HIDE DEF Q, n, step
        <5>2. QED
          BY <2>1, <5>1
      <4>2. step[<<g[i - 1], i>>] = g[i - 1] \o w[i]
        BY <4>1
      <4>3. QED
        BY <3>1, <3>3, <4>2
    <3>4. QED
      BY <3>2, <3>3
  <2>3. QED
    BY <2>1, <2>2
<1> HIDE DEF step
<1>6. T(g)
  BY <1>5
<1>7. FlattenSeq(w) = (CHOOSE r : T(r))[n]
  BY <1>1 DEF FlattenSeq
<1> HIDE DEF T
<1>8. T(CHOOSE r : T(r))
  BY <1>6
<1> DEFINE h == CHOOSE r : T(r)
<1>9. h = [i \in 1..n |-> IF i = 1 THEN w[i] ELSE h[i - 1] \o w[i]]
  BY <1>8 DEF T
<1> HIDE DEF h
<1>10. ASSUME NEW i \in 1..n PROVE h[i] = g[i]
  <2> DEFINE U == {k \in 1..n : h[k] = g[k]}
  <2>1. 1 \in U
    <3>1. 1 \in 1..n
      BY <1>1
    <3> HIDE DEF n, Q
    <3>2. h[1] = w[1] /\ g[1] = w[1]
      BY <1>5, <1>9, <3>1
    <3>3. QED
      BY <3>1, <3>2
  <2>2. ASSUME NEW k \in 1..n, k \in U, k < n PROVE k + 1 \in U
    <3>1. k + 1 \in 1..n /\ k + 1 # 1 /\ (k + 1) - 1 = k
      BY <1>1, <2>2
    <3>2. h[k + 1] = h[k] \o w[k + 1] /\ g[k + 1] = g[k] \o w[k + 1]
      BY <1>5, <1>9, <3>1
    <3>3. QED
      BY <2>2, <3>1, <3>2
  <2> HIDE DEF U
  <2>3. 1..n \subseteq U
    <3>1. 1 \in Nat /\ n \in Nat
      BY <1>1
    <3>2. QED
      BY <2>1, <2>2, <3>1, P!AlongAll, ChannelAssumption, WriterAssumption
  <2>4. QED
    BY <2>3 DEF U
<1>11. h[n] = g[n]
  BY <1>1, <1>10
<1>12. FlattenSeq(w) = g[n]
  BY <1>7, <1>11 DEF h
<1>13. QED
  BY <1>5, <1>12

\* What deleted flows handed over, and one more of them.
LEMMA FlattenedOneMore ==
    ASSUME NEW S, NEW w \in Seq(Seq(S)), NEW x \in Seq(S)
    PROVE  /\ FlattenSeq(w) \in Seq(S)
           /\ FlattenSeq(Append(w, x)) = FlattenSeq(w) \o x
<1> DEFINE v == Append(w, x)
           n == Len(w)
<1>1. /\ v \in Seq(Seq(S)) /\ Len(v) = n + 1 /\ n \in Nat /\ v[n + 1] = x
      /\ \A i \in 1..n : v[i] = w[i]
  BY AppendProperties, LenProperties
<1>2. PICK h : /\ h \in [1..(n + 1) -> Seq(S)]
               /\ \A i \in 1..(n + 1) : h[i] = IF i = 1 THEN v[i] ELSE h[i - 1] \o v[i]
               /\ FlattenSeq(v) = h[n + 1]
  <2>1. Len(v) > 0
    BY <1>1
  <2>2. v \in Seq(Seq(S)) /\ Len(v) = n + 1
    BY <1>1
  <2> HIDE DEF v, n
  <2>3. \E h : /\ h \in [1..Len(v) -> Seq(S)]
               /\ \A i \in 1..Len(v) : h[i] = IF i = 1 THEN v[i] ELSE h[i - 1] \o v[i]
               /\ FlattenSeq(v) = h[Len(v)]
    BY <2>1, <2>2, FlattenedAlong
  <2>4. QED
    BY <2>2, <2>3
<1> HIDE DEF v
<1>3. CASE n = 0
  <2>1. w = <<>> /\ FlattenSeq(w) = <<>>
    BY <1>3, EmptySeq DEF FlattenSeq
  <2>2. FlattenSeq(v) = x
    <3>1. h[1] = v[1] /\ v[1] = x /\ n + 1 = 1
      BY <1>1, <1>2, <1>3
    <3>2. QED
      BY <1>2, <3>1
  <2>3. <<>> \o x = x /\ <<>> \in Seq(S)
    BY ConcatEmptySeq, EmptySeq
  <2>4. QED
    BY <2>1, <2>2, <2>3 DEF v
<1>4. CASE n > 0
  <2>1. PICK g : /\ g \in [1..n -> Seq(S)]
                 /\ \A i \in 1..n : g[i] = IF i = 1 THEN w[i] ELSE g[i - 1] \o w[i]
                 /\ FlattenSeq(w) = g[n]
    BY <1>4, FlattenedAlong
  <2> DEFINE U == {k \in 1..n : h[k] = g[k]}
  <2>2. 1 \in U
    <3>1. 1 \in 1..n /\ 1 \in 1..(n + 1)
      BY <1>1, <1>4
    <3>2. h[1] = v[1] /\ g[1] = w[1] /\ v[1] = w[1]
      BY <1>1, <1>2, <2>1, <3>1
    <3>3. QED
      BY <3>1, <3>2
  <2>3. ASSUME NEW k \in 1..n, k \in U, k < n PROVE k + 1 \in U
    <3>1. k + 1 \in 1..n /\ k + 1 \in 1..(n + 1) /\ k + 1 # 1 /\ (k + 1) - 1 = k
      BY <1>1, <2>3
    <3>2. h[k + 1] = h[k] \o v[k + 1] /\ g[k + 1] = g[k] \o w[k + 1] /\ v[k + 1] = w[k + 1]
      BY <1>1, <1>2, <2>1, <3>1
    <3>3. QED
      BY <2>3, <3>1, <3>2
  <2> HIDE DEF U
  <2>4. 1..n \subseteq U
    <3>1. 1 \in Nat /\ n \in Nat
      BY <1>1
    <3>2. QED
      BY <2>2, <2>3, <3>1, P!AlongAll, ChannelAssumption, WriterAssumption
  <2>5. h[n] = g[n]
    <3>1. n \in 1..n
      BY <1>1, <1>4
    <3> HIDE DEF n
    <3>2. QED
      BY <2>4, <3>1 DEF U
  <2>6. h[n + 1] = h[n] \o v[n + 1]
    <3>1. n + 1 \in 1..(n + 1) /\ n + 1 # 1 /\ (n + 1) - 1 = n
      BY <1>1, <1>4
    <3>2. QED
      BY <1>2, <3>1
  <2>7. FlattenSeq(v) = FlattenSeq(w) \o x
    BY <1>1, <1>2, <2>1, <2>5, <2>6
  <2>8. FlattenSeq(w) \in Seq(S)
    <3>1. n \in 1..n
      BY <1>1, <1>4
    <3> HIDE DEF n
    <3>2. QED
      BY <2>1, <3>1
  <2>9. QED
    BY <2>7, <2>8 DEF v
<1>5. QED
  BY <1>1, <1>3, <1>4

-----------------------------------------------------------------------------
(* The numbering: what the writer numbered, and what the band has of it    *)

\* A chunk or a fragment is the same one as a fragment numbered before.
Same(c, fr) ==
    /\ c.message = fr.message /\ c.reliable = fr.reliable /\ c.empty = fr.empty
    /\ c.before = fr.before /\ c.after = fr.after

\* The fragment carries the message m, whole or in part.
Of(fr, m) == fr.message = m.name /\ fr.reliable = m.reliable /\ fr.empty = m.empty

\* pl is what the writer numbered so far, in the order of stages: it is all
\* that was written, and what _messagesSent keeps of it is its end.
Numbers(pl) ==
    /\ connection = "none" /\ generation = 0 /\ stage <= MaxStage
    /\ pl \in Seq(Fragment) /\ Len(pl) = stage
    /\ \A s \in 1..stage : \E i \in DOMAIN wire : wire[i].stage = s
    /\ \A i \in DOMAIN wire : /\ wire[i].stage \in 1..stage /\ Same(wire[i], pl[wire[i].stage])
                              /\ wire[i].floor <= stageAck
    /\ \A k \in DOMAIN sent : Same(sent[k], pl[stageAck + k])
    /\ P!Numbering(pl, stage)
    /\ stage > 0 => ~pl[stage].after
    /\ \A s \in 1..stage : /\ pl[s].message < created
                           /\ \A k \in DOMAIN messages : pl[s].message < messages[k].name

\* A writer that numbered pl writes, of chunks numbered before, those of u.
Copies(pl, u) ==
    \A i \in DOMAIN u : /\ u[i].stage \in 1..stage /\ Same(u[i], pl[u[i].stage])
                        /\ u[i].floor <= stageAck'

\* A step that numbers pl2 after pl, with messages of the queue q.
Moves(q, pl, pl2) ==
    /\ stage \in Nat /\ stage' \in Nat /\ stage <= stage'
    /\ \A s \in 1..stage : pl2[s] = pl[s]
    /\ \A s \in 1..stage' : s \in 1..stage \/ \E m \in DOMAIN q : Of(pl2[s], q[m])
    /\ \A m \in DOMAIN q : \/ \E k \in DOMAIN messages' : messages'[k] = q[m]
                           \/ \E s \in 1..stage' : ~pl2[s].after /\ Of(pl2[s], q[m])
    /\ \A k \in DOMAIN messages' : \E m \in DOMAIN q : messages'[k] = q[m]

\* u is v, of n elements, with w, of m elements, after it.
Joins(u, v, n, w, m) ==
    /\ n \in Nat /\ m \in Nat /\ Len(u) = n + m /\ DOMAIN u = 1..(n + m)
    /\ \A i \in 1..n : i \in 1..(n + m) /\ u[i] = v[i]
    /\ \A k \in 1..m : n + k \in 1..(n + m) /\ u[n + k] = w[k]
    /\ \A i \in 1..(n + m) : i \in 1..n \/ \E k \in 1..m : i = n + k

\* So is a concatenation.
LEMMA JoinedAt ==
    ASSUME NEW S, NEW v \in Seq(S), NEW w \in Seq(S), NEW n, n = Len(v), NEW m, m = Len(w)
    PROVE  v \o w \in Seq(S) /\ Joins(v \o w, v, n, w, m)
<1>1. n \in Nat /\ m \in Nat
  OBVIOUS
<1>2. v \o w \in Seq(S) /\ Len(v \o w) = n + m
  BY ConcatProperties
<1>3. DOMAIN (v \o w) = 1..(n + m)
  BY <1>2
<1>4. \A i \in 1..n : i \in 1..(n + m) /\ (v \o w)[i] = v[i]
  BY <1>1, <1>2
<1>5. ASSUME NEW k \in 1..m
      PROVE  n + k \in 1..(n + m) /\ (v \o w)[n + k] = w[k]
  <2>1. n + k \in 1..(n + m) /\ n + k > n /\ (n + k) - n = k
    BY <1>1
  <2>2. QED
    BY <1>1, <2>1
<1>6. ASSUME NEW i \in 1..(n + m), i \notin 1..n
      PROVE  \E k \in 1..m : i = n + k
  <2>1. i - n \in 1..m /\ i = n + (i - n)
    BY <1>1, <1>6
  <2>2. QED
    BY <2>1
<1>7. QED
  BY <1>1, <1>2, <1>3, <1>4, <1>5, <1>6 DEF Joins

\* The queue q may be numbered after pl.
MayFollow(pl, q) ==
    /\ \A j, k \in DOMAIN q : j < k => q[j].name < q[k].name
    /\ \A k \in DOMAIN q : \A s \in 1..stage : pl[s].message < q[k].name

\* The fragments that a flush cuts, numbered from stage + 1, go on with a
\* numbering.
LEMMA FreshNumbering ==
    ASSUME WInv, NEW pl, Numbers(pl), NEW q \in Seq(Message), MayFollow(pl, q),
           NEW f \in Fragmentations(q)
    PROVE  LET pl2 == pl \o Fresh(q, f, stage)
               n == stage + Len(f)
           IN  /\ P!Numbering(pl2, n)
               /\ n > 0 => ~pl2[n].after
               /\ \A m \in DOMAIN q : \E s \in 1..n : ~pl2[s].after /\ Of(pl2[s], q[m])
<1> DEFINE fresh == Fresh(q, f, stage)
           pl2 == pl \o fresh
           L == Len(f)
           n == stage + L
<1>1. /\ IInv /\ TypeOK /\ stage \in Nat /\ pl \in Seq(Fragment) /\ Len(pl) = stage
      /\ P!Numbering(pl, stage) /\ (stage > 0 => ~pl[stage].after)
  BY DEF WInv, IInv, TypeOK, Numbers
<1>2. /\ L \in Nat /\ DOMAIN f = 1..L
      /\ \A i \in 1..L : f[i] \in DOMAIN q /\ q[f[i]] \in Message
      /\ \A m \in DOMAIN q : \E i \in 1..L : f[i] = m
      /\ \A i, j \in 1..L : i < j => f[i] <= f[j] /\ (f[i] = f[j] => ~q[f[i]].empty)
  BY FragmentationOrder
<1>3. fresh \in Seq(Fragment) /\ Len(fresh) = L
  BY <1>1, FreshType
<1>4. /\ pl2 \in Seq(Fragment) /\ n \in Nat
      /\ \A i \in 1..stage : i \in 1..n /\ pl2[i] = pl[i]
      /\ \A k \in 1..L : stage + k \in 1..n /\ pl2[stage + k] = fresh[k]
      /\ \A i \in 1..n : i \in 1..stage \/ \E k \in 1..L : i = stage + k
  <2> HIDE DEF fresh, L
  <2>1. pl2 \in Seq(Fragment) /\ Joins(pl2, pl, stage, fresh, L)
    BY <1>1, <1>3, JoinedAt
  <2> HIDE DEF pl2
  <2>2. n \in Nat
    BY <1>1, <1>2
  <2>3. QED
    BY <2>1, <2>2 DEF Joins
<1>5. ASSUME NEW i \in 1..L
      PROVE  /\ Of(fresh[i], q[f[i]])
             /\ fresh[i].before <=> (i > 1 /\ f[i - 1] = f[i])
             /\ fresh[i].after <=> (i < L /\ f[i + 1] = f[i])
  BY <1>2 DEF Fresh, Of
<1>6. Len(q) \in Nat /\ DOMAIN q = 1..Len(q) /\ \A m \in DOMAIN q : q[m].name \in Nat
  <2>1. Len(q) \in Nat /\ DOMAIN q = 1..Len(q) /\ \A m \in DOMAIN q : q[m] \in Message
    OBVIOUS
  <2>2. QED
    BY <2>1 DEF Message
<1>7. \A s \in 1..stage : pl[s].message \in Nat
  <2>1. \A s \in 1..stage : pl[s] \in Fragment
    BY <1>1
  <2>2. QED
    BY <2>1 DEF Fragment
<1> HIDE DEF fresh, pl2, L, n
<1>8. ASSUME NEW i \in 1..L, NEW j \in 1..L, i < j, ~fresh[i].after
      PROVE  fresh[i].message < fresh[j].message
  <2>1. i < L /\ i + 1 \in 1..L /\ f[i + 1] # f[i]
    BY <1>2, <1>5, <1>8
  <2>2. f[i] < f[i + 1] /\ f[i + 1] <= f[j]
    <3>1. f[i] \in Nat /\ f[i + 1] \in Nat /\ f[j] \in Nat
      BY <1>2, <1>6, <2>1
    <3>2. f[i] <= f[i + 1]
      BY <1>2, <2>1
    <3>3. f[i + 1] <= f[j]
      <4>1. i + 1 = j \/ i + 1 < j
        BY <1>2, <1>8, <2>1
      <4>2. QED
        BY <1>2, <2>1, <3>1, <4>1
    <3>4. QED
      BY <2>1, <3>1, <3>2, <3>3
  <2>3. f[i] < f[j] /\ f[i] \in DOMAIN q /\ f[j] \in DOMAIN q
    BY <1>2, <1>6, <2>1, <2>2
  <2>4. QED
    BY <1>5, <2>3 DEF Of, MayFollow
<1>9. ASSUME NEW s \in 1..n
      PROVE  /\ pl2[s].empty => ~pl2[s].before /\ ~pl2[s].after
             /\ pl2[s].before => s > 1 /\ pl2[s - 1].after /\ pl2[s - 1].message = pl2[s].message
             /\ \A t \in 1..n : s < t /\ ~pl2[s].after => pl2[s].message < pl2[t].message
  <2>1. CASE s \in 1..stage
    <3>1. pl2[s] = pl[s] /\ s \in Nat
      BY <1>1, <1>4, <2>1
    <3>2. pl[s].empty => ~pl[s].before /\ ~pl[s].after
      BY <1>1, <2>1 DEF P!Numbering
    <3>3. ASSUME pl[s].before
          PROVE  s > 1 /\ pl2[s - 1].after /\ pl2[s - 1].message = pl2[s].message
      <4>1. s > 1 /\ pl[s - 1].after /\ pl[s - 1].message = pl[s].message
        BY <1>1, <2>1, <3>3 DEF P!Numbering
      <4>2. s - 1 \in 1..stage
        BY <1>1, <2>1, <4>1
      <4>3. QED
        BY <1>4, <3>1, <4>1, <4>2
    <3>4. ASSUME NEW t \in 1..n, s < t, ~pl[s].after PROVE pl[s].message < pl2[t].message
      <4>1. CASE t \in 1..stage
        BY <1>1, <1>4, <2>1, <3>4, <4>1 DEF P!Numbering
      <4>2. CASE t \notin 1..stage
        <5>1. PICK k \in 1..L : t = stage + k
          BY <1>4, <4>2
        <5>2. pl2[t] = fresh[k] /\ fresh[k].message = q[f[k]].name /\ f[k] \in DOMAIN q
          BY <1>2, <1>4, <1>5, <5>1 DEF Of
        <5>3. QED
          BY <2>1, <5>2 DEF MayFollow
      <4>3. QED
        BY <4>1, <4>2
    <3>5. QED
      BY <3>1, <3>2, <3>3, <3>4
  <2>2. CASE s \notin 1..stage
    <3>1. PICK i \in 1..L : s = stage + i
      BY <1>4, <2>2
    <3>2. pl2[s] = fresh[i] /\ s \in Nat /\ i \in Nat
      BY <1>1, <1>2, <1>4, <3>1
    <3>3. fresh[i].empty => ~fresh[i].before /\ ~fresh[i].after
      <4>1. fresh[i].empty <=> q[f[i]].empty
        BY <1>5 DEF Of
      <4>2. ASSUME fresh[i].before PROVE ~q[f[i]].empty
        <5>1. i > 1 /\ f[i - 1] = f[i] /\ i - 1 \in 1..L /\ i - 1 < i
          BY <1>2, <1>5, <4>2
        <5>2. QED
          BY <1>2, <5>1
      <4>3. ASSUME fresh[i].after PROVE ~q[f[i]].empty
        <5>1. i < L /\ f[i + 1] = f[i] /\ i + 1 \in 1..L /\ i < i + 1
          BY <1>2, <1>5, <4>3
        <5>2. QED
          BY <1>2, <5>1
      <4>4. QED
        BY <4>1, <4>2, <4>3
    <3>4. ASSUME fresh[i].before
          PROVE  s > 1 /\ pl2[s - 1].after /\ pl2[s - 1].message = pl2[s].message
      <4>1. i > 1 /\ f[i - 1] = f[i] /\ i - 1 \in 1..L /\ i - 1 < L /\ (i - 1) + 1 = i
        BY <1>2, <1>5, <3>4
      <4>2. fresh[i - 1].after /\ fresh[i - 1].message = fresh[i].message
        BY <1>5, <4>1 DEF Of
      <4>3. s - 1 = stage + (i - 1) /\ s > 1
        BY <1>1, <3>1, <4>1
      <4>4. pl2[s - 1] = fresh[i - 1]
        BY <1>4, <4>1, <4>3
      <4>5. QED
        BY <3>2, <4>2, <4>3, <4>4
    <3>5. ASSUME NEW t \in 1..n, s < t, ~fresh[i].after PROVE fresh[i].message < pl2[t].message
      <4>1. t \notin 1..stage
        BY <1>1, <3>1, <3>2, <3>5
      <4>2. PICK k \in 1..L : t = stage + k
        BY <1>4, <4>1
      <4>3. i < k
        BY <1>1, <1>2, <3>1, <3>5, <4>2
      <4>4. pl2[t] = fresh[k]
        BY <1>4, <4>2
      <4>5. QED
        BY <1>8, <3>5, <4>3, <4>4
    <3>6. QED
      BY <3>2, <3>3, <3>4, <3>5
  <2>3. QED
    BY <2>1, <2>2
<1>10. P!Numbering(pl2, n)
  BY <1>9 DEF P!Numbering
<1>11. ASSUME n > 0 PROVE ~pl2[n].after
  <2>1. CASE L = 0
    <3>1. n = stage /\ n \in 1..stage
      BY <1>1, <1>4, <1>11, <2>1 DEF n
    <3>2. QED
      BY <1>1, <1>4, <3>1
  <2>2. CASE L # 0
    <3>1. L \in 1..L /\ n = stage + L
      BY <1>2, <2>2 DEF n
    <3>2. pl2[n] = fresh[L] /\ ~fresh[L].after
      BY <1>2, <1>4, <1>5, <3>1
    <3>3. QED
      BY <3>2
  <2>3. QED
    BY <2>1, <2>2
<1>12. ASSUME NEW m \in DOMAIN q
       PROVE  \E s \in 1..n : ~pl2[s].after /\ Of(pl2[s], q[m])
  <2> DEFINE T == {i \in 1..L : f[i] = m}
  <2>1. T \subseteq 1..L /\ T # {}
    BY <1>2
  <2>2. PICK i \in T : \A y \in T : y <= i
    <3> HIDE DEF T
    <3>1. QED
      BY <1>2, <2>1, GreatestNumber
  <2>3. i \in 1..L /\ f[i] = m
    BY <2>2
  <2>4. ~fresh[i].after
    <3> SUFFICES ASSUME fresh[i].after PROVE FALSE
      OBVIOUS
    <3>1. i < L /\ f[i + 1] = f[i] /\ i + 1 \in 1..L /\ ~(i + 1 <= i)
      BY <1>2, <1>5, <2>3
    <3>2. i + 1 \in T
      BY <2>3, <3>1
    <3>3. QED
      BY <2>2, <3>1, <3>2
  <2>5. stage + i \in 1..n /\ pl2[stage + i] = fresh[i] /\ Of(fresh[i], q[m])
    BY <1>4, <1>5, <2>3
  <2>6. QED
    BY <2>4, <2>5
<1>13. QED
  BY <1>10, <1>11, <1>12 DEF pl2, n, L, fresh

\* A flush numbers its queue after what was numbered, and what it writes is
\* what it numbers.
LEMMA FlushNumbers ==
    ASSUME WInv, NEW pl, Numbers(pl), NEW q \in Seq(Message), MayFollow(pl, q),
           NEW pre \in Seq(Chunk), Copies(pl, pre), NEW r \in Nat, NEW last \in BOOLEAN,
           NEW t, NEW closed \in BOOLEAN, NEW full,
           FlushQueue(q, pre, r, last, t, closed, full),
           UNCHANGED <<connection, stageAck, generation>>,
           created \in Nat, created' \in Nat, created <= created',
           \A k \in DOMAIN q : q[k].name < created'
    PROVE  \E pl2 : Numbers(pl2)' /\ Moves(q, pl, pl2)
<1>0. PICK f \in Fragmentations(q) :
         \E cuts \in CutsOf(f) :
            /\ messages' = <<>>
            /\ stage' = stage + Len(f)
            /\ sent' = sent \o Fresh(q, f, stage)
            /\ wire' = wire \o pre \o Flushed(q, f, cuts, r, last, closed)
            /\ stage' <= MaxStage
  BY DEF FlushQueue, Flushed
<1>1. PICK cuts \in CutsOf(f) :
            /\ messages' = <<>>
            /\ stage' = stage + Len(f)
            /\ sent' = sent \o Fresh(q, f, stage)
            /\ wire' = wire \o pre \o Flushed(q, f, cuts, r, last, closed)
            /\ stage' <= MaxStage
  BY <1>0
<1> DEFINE fresh == Fresh(q, f, stage)
           u == Flushed(q, f, cuts, r, last, closed)
           L == Len(f)
<1>2. PICK pl2 : pl2 = pl \o fresh
  OBVIOUS
<1>3. /\ IInv /\ TypeOK /\ stage \in Nat /\ stageAck \in Nat /\ stageAck <= stage
      /\ pl \in Seq(Fragment) /\ Len(pl) = stage /\ sent \in Seq(Fragment)
      /\ Len(sent) = stage - stageAck /\ wire \in Seq(Chunk) /\ MaxStage \in Nat
  BY WriterAssumption DEF WInv, IInv, TypeOK, Numbers, WindowAligned
<1>4. /\ L \in Nat /\ DOMAIN f = 1..L /\ \A i \in 1..L : f[i] \in DOMAIN q /\ q[f[i]] \in Message
  BY FragmentationOrder
<1>5. /\ u \in Seq(Chunk) /\ Len(u) = L /\ DOMAIN u = DOMAIN f
      /\ fresh \in Seq(Fragment) /\ Len(fresh) = L /\ DOMAIN fresh = DOMAIN f
  BY <1>3, FlushedType
<1>6. ASSUME NEW i \in 1..L
      PROVE  /\ u[i].stage = stage + i /\ u[i].floor = stageAck /\ Same(u[i], fresh[i])
             /\ Of(fresh[i], q[f[i]])
  <2>1. u[i] = ChunkOf(fresh[i], stage + i, stageAck, (i = 1 /\ ~last) \/ i \in cuts,
                       r + RunsUpTo(cuts, i), closed /\ IsLast(q, f[i]))
    BY <1>4 DEF Flushed
  <2>2. u[i].stage = stage + i /\ u[i].floor = stageAck /\ Same(u[i], fresh[i])
    <3> HIDE DEF u, fresh
    <3>1. QED
      BY <2>1 DEF ChunkOf, Same
  <2>3. Of(fresh[i], q[f[i]])
    BY <1>4 DEF Fresh, Of
  <2>4. QED
    BY <2>2, <2>3
<1>7. /\ P!Numbering(pl2, stage + L)
      /\ stage + L > 0 => ~pl2[stage + L].after
      /\ \A m \in DOMAIN q : \E s \in 1..(stage + L) : ~pl2[s].after /\ Of(pl2[s], q[m])
  BY <1>2, FreshNumbering
<1>8. stage' = stage + L /\ stageAck' = stageAck
  BY <1>1
<1> HIDE DEF fresh, u, L
<1>9. pl2 \in Seq(Fragment) /\ Joins(pl2, pl, stage, fresh, L)
  BY <1>2, <1>3, <1>5, JoinedAt
<1>10. Copies(pl, wire)
  BY <1>8 DEF Numbers, Copies
<1>11. wire \o pre \in Seq(Chunk) /\ Len(wire \o pre) \in Nat
  BY <1>3
<1> DEFINE w == wire \o pre
           n == Len(w)
<1>12. ASSUME NEW i \in DOMAIN w
       PROVE  w[i].stage \in 1..stage /\ Same(w[i], pl[w[i].stage]) /\ w[i].floor <= stageAck'
  <2>1. \/ i \in DOMAIN wire /\ w[i] = wire[i]
        \/ \E k \in DOMAIN pre : w[i] = pre[k]
    BY <1>3, InEither
  <2>2. QED
    BY <1>10, <2>1 DEF Copies
<1>13. wire' \in Seq(Chunk) /\ Joins(wire', w, n, u, L)
  <2>1. w \in Seq(Chunk) /\ u \in Seq(Chunk) /\ L = Len(u)
    BY <1>5, <1>11
  <2>2. wire' = w \o u
    BY <1>1 DEF u
  <2> HIDE DEF w
  <2>3. QED
    BY <2>1, <2>2, JoinedAt
<1>14. ASSUME NEW s \in 1..stage' PROVE \E i \in DOMAIN wire' : wire'[i].stage = s
  <2>1. CASE s \in 1..stage
    <3>1. PICK i \in DOMAIN wire : wire[i].stage = s
      BY <2>1 DEF Numbers
    <3>2. i \in DOMAIN w /\ w[i] = wire[i]
      BY <1>3, OfEach
    <3>3. i \in 1..n
      BY <1>11, <3>2
    <3> HIDE DEF w, n
    <3>4. i \in DOMAIN wire' /\ wire'[i] = w[i]
      BY <1>13, <3>3 DEF Joins
    <3>5. QED
      BY <3>1, <3>2, <3>4
  <2>2. CASE s \notin 1..stage
    <3>1. PICK k \in 1..L : s = stage + k
      BY <1>8, <1>9, <2>2 DEF Joins
    <3> HIDE DEF w, n
    <3>2. n + k \in DOMAIN wire' /\ wire'[n + k] = u[k]
      BY <1>13 DEF Joins
    <3>3. QED
      BY <1>6, <3>1, <3>2
  <2>3. QED
    BY <2>1, <2>2
<1>15. ASSUME NEW i \in DOMAIN wire'
       PROVE  /\ wire'[i].stage \in 1..stage' /\ Same(wire'[i], pl2[wire'[i].stage])
              /\ wire'[i].floor <= stageAck'
  <2>1. i \in 1..n \/ \E k \in 1..L : i = n + k
    BY <1>13 DEF Joins
  <2>2. CASE i \in 1..n
    <3>1. i \in DOMAIN w
      BY <1>11, <2>2
    <3>2. w[i].stage \in 1..stage /\ Same(w[i], pl[w[i].stage]) /\ w[i].floor <= stageAck'
      BY <1>12, <3>1
    <3> HIDE DEF w, n
    <3>3. wire'[i] = w[i]
      BY <1>13, <2>2 DEF Joins
    <3>4. w[i].stage \in 1..stage' /\ pl2[w[i].stage] = pl[w[i].stage]
      BY <1>8, <1>9, <3>2 DEF Joins
    <3>5. QED
      BY <3>2, <3>3, <3>4
  <2>3. CASE i \notin 1..n
    <3>1. PICK k \in 1..L : i = n + k
      BY <2>1, <2>3
    <3> HIDE DEF w, n
    <3>2. wire'[i] = u[k]
      BY <1>13, <3>1 DEF Joins
    <3>3. stage + k \in 1..stage' /\ pl2[stage + k] = fresh[k]
      BY <1>8, <1>9 DEF Joins
    <3>4. u[k].stage = stage + k /\ u[k].floor = stageAck /\ Same(u[k], fresh[k])
      BY <1>6
    <3>5. QED
      BY <1>3, <1>8, <3>2, <3>3, <3>4
  <2>4. QED
    BY <2>2, <2>3
<1>16. ASSUME NEW k \in DOMAIN sent' PROVE Same(sent'[k], pl2[stageAck' + k])
  <2>1. Joins(sent', sent, Len(sent), fresh, L)
    <3>1. sent' = sent \o fresh
      BY <1>1 DEF fresh
    <3>2. QED
      BY <1>3, <1>5, <3>1, JoinedAt
  <2>2. k \in 1..Len(sent) \/ \E j \in 1..L : k = Len(sent) + j
    BY <2>1 DEF Joins
  <2>3. CASE k \in 1..Len(sent)
    <3>1. k \in DOMAIN sent /\ stageAck + k \in 1..stage
      BY <1>3, <2>3
    <3>2. sent'[k] = sent[k] /\ pl2[stageAck + k] = pl[stageAck + k]
      BY <1>9, <2>1, <2>3, <3>1 DEF Joins
    <3>3. Same(sent[k], pl[stageAck + k])
      BY <3>1 DEF Numbers
    <3>4. QED
      BY <1>8, <3>2, <3>3
  <2>4. CASE k \notin 1..Len(sent)
    <3>1. PICK j \in 1..L : k = Len(sent) + j
      BY <2>2, <2>4
    <3>2. stageAck + k = stage + j
      BY <1>3, <1>4, <3>1 DEF L
    <3>3. sent'[k] = fresh[j] /\ pl2[stage + j] = fresh[j]
      BY <1>9, <2>1, <3>1 DEF Joins
    <3>4. QED
      BY <1>8, <3>2, <3>3 DEF Same
  <2>5. QED
    BY <2>3, <2>4
<1>17. ASSUME NEW s \in 1..stage'
       PROVE  /\ pl2[s].message < created'
              /\ s \in 1..stage \/ \E m \in DOMAIN q : Of(pl2[s], q[m])
  <2>1. CASE s \in 1..stage
    <3>1. pl2[s] = pl[s] /\ pl[s].message < created /\ pl[s] \in Fragment
      BY <1>3, <1>9, <2>1 DEF Numbers, Joins
    <3>2. pl[s].message \in Nat
      BY <3>1 DEF Fragment
    <3>3. QED
      BY <2>1, <3>1, <3>2
  <2>2. CASE s \notin 1..stage
    <3>1. PICK k \in 1..L : s = stage + k
      BY <1>8, <1>9, <2>2 DEF Joins
    <3>2. pl2[s] = fresh[k]
      BY <1>9, <3>1 DEF Joins
    <3>3. Of(fresh[k], q[f[k]]) /\ f[k] \in DOMAIN q
      BY <1>4, <1>6
    <3>4. QED
      BY <3>2, <3>3 DEF Of
  <2>3. QED
    BY <2>1, <2>2
<1>18. Numbers(pl2)'
  <2>1. Len(pl2) = stage'
    BY <1>8, <1>9 DEF Joins
  <2>2. connection' = "none" /\ generation' = 0 /\ stage' <= MaxStage
    BY <1>1 DEF Numbers
  <2>3. messages' = <<>>
    BY <1>1
  <2>4. P!Numbering(pl2, stage') /\ (stage' > 0 => ~pl2[stage'].after)
    BY <1>7, <1>8
  <2>5. (P!Numbering(pl2, stage))'
    BY <2>4 DEF P!Numbering
  <2>6. QED
    BY <1>9, <1>14, <1>15, <1>16, <1>17, <2>1, <2>2, <2>3, <2>4, <2>5 DEF Numbers, Same
<1>19. Moves(q, pl, pl2)
  <2>1. stage' \in Nat /\ stage <= stage'
    BY <1>3, <1>4, <1>8 DEF L
  <2>2. \A s \in 1..stage : pl2[s] = pl[s]
    BY <1>9 DEF Joins
  <2>3. messages' = <<>>
    BY <1>1
  <2>4. \A m \in DOMAIN q : \E s \in 1..stage' : ~pl2[s].after /\ Of(pl2[s], q[m])
    BY <1>7, <1>8
  <2>5. QED
    BY <1>3, <1>17, <2>1, <2>2, <2>3, <2>4 DEF Moves
<1>20. QED
  BY <1>18, <1>19

-----------------------------------------------------------------------------
(* Each step of the writer takes a numbering on                            *)

\* What a step numbers, q being the queue it takes.
NumbersOn(pl, q) == \E pl2 : Numbers(pl2)' /\ Moves(q, pl, pl2)

\* What is queued may be numbered next, and so may a new message after it.
LEMMA QueueMayFollow ==
    ASSUME WInv, NEW pl, Numbers(pl)
    PROVE  /\ messages \in Seq(Message) /\ created \in Nat /\ run \in Nat /\ lastWriter \in BOOLEAN
           /\ MayFollow(pl, messages)
           /\ \A k \in DOMAIN messages : messages[k].name < created
           /\ <<>> \in Seq(Chunk) /\ Copies(pl, <<>>)
<1>1. Queued
  BY DEF WInv
<1>2. MayFollow(pl, messages)
  BY <1>1 DEF Queued, Numbers, MayFollow
<1>3. Copies(pl, <<>>)
  BY DEF Copies
<1>4. QED
  BY <1>2, <1>3, PlainFlush

\* A message just created may be numbered after all the others.
LEMMA NewMayFollow ==
    ASSUME WInv, NEW pl, Numbers(pl), NEW m \in Message, m.name = created
    PROVE  LET q == Append(messages, m)
           IN  /\ q \in Seq(Message) /\ MayFollow(pl, q)
               /\ \A k \in DOMAIN q : q[k].name < created + 1
               /\ \A k \in DOMAIN messages : k \in DOMAIN q /\ q[k] = messages[k]
               /\ \A k \in DOMAIN q : (k \in DOMAIN messages /\ q[k] = messages[k]) \/ q[k] = m
               /\ \E k \in DOMAIN q : q[k] = m
<1> DEFINE q == Append(messages, m)
<1>1. messages \in Seq(Message) /\ Len(messages) \in Nat /\ DOMAIN messages = 1..Len(messages)
  BY PlainFlush
<1>2. /\ q \in Seq(Message) /\ DOMAIN q = 1..(Len(messages) + 1)
      /\ \A k \in DOMAIN messages : q[k] = messages[k]
      /\ q[Len(messages) + 1] = m
  BY <1>1, AppendProperties
<1>3. Follow(q, wire) /\ \A k \in DOMAIN q : q[k].name < created + 1
  <2>1. Band(wire, run, lastWriter)
    BY DEF WInv
  <2>2. QED
    BY <2>1, MoreFollows
<1> HIDE DEF q
<1>4. \A k \in DOMAIN messages : k \in DOMAIN q
  BY <1>1, <1>2
<1>5. \A k \in DOMAIN q : k \in DOMAIN messages \/ k = Len(messages) + 1
  BY <1>1, <1>2
<1>6. \A k \in DOMAIN q : (k \in DOMAIN messages /\ q[k] = messages[k]) \/ q[k] = m
  BY <1>2, <1>5
<1>7. \E k \in DOMAIN q : q[k] = m
  <2>1. Len(messages) + 1 \in DOMAIN q
    BY <1>1, <1>2
  <2>2. QED
    BY <1>2, <2>1
<1>8. MayFollow(pl, q)
  <2>1. \A j, k \in DOMAIN q : j < k => q[j].name < q[k].name
    BY <1>3 DEF Follow
  <2>2. ASSUME NEW k \in DOMAIN q, NEW s \in 1..stage PROVE pl[s].message < q[k].name
    BY <1>6 DEF Numbers
  <2>3. QED
    BY <2>1, <2>2 DEF MayFollow
<1>9. QED
  BY <1>2, <1>3, <1>4, <1>6, <1>7, <1>8 DEF q

\* A message is queued: nothing is numbered.
LEMMA WriteNumbers ==
    ASSUME WInv, NEW pl, Numbers(pl), NEW r \in Reliabilities, Write(r)
    PROVE  NumbersOn(pl, Append(messages, NewMessage(r, FALSE)))
<1> DEFINE m == NewMessage(r, FALSE)
           q == Append(messages, m)
<1>1. r \in BOOLEAN /\ m \in Message /\ m.name = created
  BY WriterAssumption, PlainFlush DEF NewMessage, Message
<1>2. /\ UNCHANGED <<connection, generation, stage, stageAck, sent, wire>>
      /\ created' = created + 1 /\ messages' = q
  BY DEF Write
<1> HIDE DEF m
<1>3. /\ \A k \in DOMAIN q : (k \in DOMAIN messages /\ q[k] = messages[k]) \/ q[k] = m
  BY <1>1, NewMayFollow
<1> HIDE DEF q
<1>4. stage \in Nat /\ created \in Nat /\ pl \in Seq(Fragment) /\ Len(pl) = stage
  BY DEF WInv, IInv, TypeOK, Numbers
<1>5. ASSUME NEW s \in 1..stage
      PROVE  pl[s].message < created + 1 /\ \A k \in DOMAIN q : pl[s].message < q[k].name
  <2>1. pl[s].message < created /\ \A k \in DOMAIN messages : pl[s].message < messages[k].name
    BY DEF Numbers
  <2>2. pl[s] \in Fragment
    BY <1>4
  <2>3. pl[s].message \in Nat
    BY <2>2 DEF Fragment
  <2>4. QED
    BY <1>1, <1>3, <1>4, <2>1, <2>3
<1>6. (P!Numbering(pl, stage))'
  BY <1>2 DEF Numbers, P!Numbering
<1>7. Numbers(pl)'
  BY <1>2, <1>5, <1>6 DEF Numbers, Same
<1>8. Moves(q, pl, pl)
  BY <1>2, <1>4 DEF Moves
<1>9. QED
  BY <1>7, <1>8 DEF NumbersOn, q, m

\* An unbuffered message is numbered at once, with what was queued.
LEMMA WriteRawNumbers ==
    ASSUME WInv, NEW pl, Numbers(pl), WriteRaw
    PROVE  NumbersOn(pl, Append(messages, NewMessage(FALSE, FALSE)))
<1> DEFINE m == NewMessage(FALSE, FALSE)
           q == Append(messages, m)
<1>1. m \in Message /\ m.name = created
  BY PlainFlush DEF NewMessage, Message
<1>2. /\ UNCHANGED <<connection, stageAck, generation>> /\ created' = created + 1
      /\ FlushQueue(q, <<>>, run, lastWriter, trigger, FALSE, FALSE)
  BY DEF WriteRaw
<1> HIDE DEF m
<1>3. q \in Seq(Message) /\ MayFollow(pl, q) /\ \A k \in DOMAIN q : q[k].name < created + 1
  BY <1>1, NewMayFollow
<1> HIDE DEF q
<1>4. created' \in Nat /\ created <= created' /\ FALSE \in BOOLEAN /\ created \in Nat
  BY <1>2, PlainFlush
<1>5. NumbersOn(pl, q)
  BY <1>2, <1>3, <1>4, QueueMayFollow, FlushNumbers DEF NumbersOn
<1>6. QED
  BY <1>5 DEF q, m

\* close: the last message, if there is one, is numbered with what was queued.
LEMMA CloseNumbers ==
    ASSUME WInv, NEW pl, Numbers(pl), NEW r \in Reliabilities, Close(r)
    PROVE  \/ HasReceiver /\ created' = created + 1
              /\ NumbersOn(pl, Append(messages, NewMessage(r, TRUE)))
           \/ ~HasReceiver /\ created' = created /\ NumbersOn(pl, messages)
<1> DEFINE m == NewMessage(r, TRUE)
           queue == IF HasReceiver THEN Append(messages, m) ELSE messages
           kept == IF connectedSize >= 0 /\ connectedSize < Len(queue)
                   THEN SubSeq(queue, 1, connectedSize) ELSE queue
<1>1. r \in BOOLEAN /\ m \in Message /\ m.name = created
  BY WriterAssumption, PlainFlush DEF NewMessage, Message
<1>2. connectedSize = -1
  BY DEF WInv, Plain, Numbers, Critical
<1>3. /\ UNCHANGED <<connection, stageAck, generation>>
      /\ created' = IF HasReceiver THEN created + 1 ELSE created
      /\ FlushQueue(queue, <<>>, run, lastWriter, trigger, TRUE, FALSE)
  <2>1. UNCHANGED <<connection, stageAck, generation>>
    BY DEF Close
  <2>2. created' = IF HasReceiver THEN created + 1 ELSE created
    BY DEF Close
  <2>3. FlushQueue(kept, <<>>, run, lastWriter, trigger, TRUE, FALSE)
    BY DEF Close
  <2> HIDE DEF queue
  <2>4. kept = queue
    BY <1>2
  <2> HIDE DEF kept
  <2>5. QED
    BY <2>1, <2>2, <2>3, <2>4, Zenon
<1>4. created \in Nat /\ TRUE \in BOOLEAN
  BY PlainFlush
<1> HIDE DEF m
<1>5. CASE HasReceiver
  <2> DEFINE q == Append(messages, m)
  <2>1. q \in Seq(Message) /\ MayFollow(pl, q) /\ \A k \in DOMAIN q : q[k].name < created + 1
    BY <1>1, NewMayFollow
  <2>2. /\ created' = created + 1 /\ created' \in Nat /\ created <= created'
        /\ FlushQueue(q, <<>>, run, lastWriter, trigger, TRUE, FALSE)
    <3>1. queue = q
      BY <1>5
    <3> HIDE DEF queue, q
    <3>2. FlushQueue(q, <<>>, run, lastWriter, trigger, TRUE, FALSE)
      BY <1>3, <3>1, Zenon
    <3>3. created' = created + 1
      BY <1>3, <1>5
    <3>4. created' \in Nat /\ created <= created'
      BY <1>4, <3>3
    <3>5. QED
      BY <3>2, <3>3, <3>4, Zenon
  <2> HIDE DEF q
  <2>3. NumbersOn(pl, q)
    BY <1>3, <1>4, <2>1, <2>2, QueueMayFollow, FlushNumbers DEF NumbersOn
  <2>4. QED
    BY <1>5, <2>2, <2>3 DEF q, m
<1>6. CASE ~HasReceiver
  <2>1. /\ created' = created /\ created' \in Nat /\ created <= created'
        /\ FlushQueue(messages, <<>>, run, lastWriter, trigger, TRUE, FALSE)
    <3>1. queue = messages
      BY <1>6
    <3> HIDE DEF queue
    <3>2. FlushQueue(messages, <<>>, run, lastWriter, trigger, TRUE, FALSE)
      BY <1>3, <3>1, Zenon
    <3>3. created' = created
      BY <1>3, <1>6
    <3>4. created' \in Nat /\ created <= created'
      BY <1>4, <3>3
    <3>5. QED
      BY <3>2, <3>3, <3>4, Zenon
  <2>2. NumbersOn(pl, messages)
    BY <1>3, <1>4, <2>1, QueueMayFollow, FlushNumbers DEF NumbersOn
  <2>3. QED
    BY <1>6, <2>1, <2>2
<1>7. QED
  BY <1>5, <1>6

\* A flush of what is queued, after the chunks that repeat what was numbered.
LEMMA QueueNumbers ==
    ASSUME WInv, NEW pl, Numbers(pl), NEW pre \in Seq(Chunk), Copies(pl, pre), NEW r \in Nat,
           NEW last \in BOOLEAN, NEW t, NEW closed \in BOOLEAN, NEW full,
           FlushQueue(messages, pre, r, last, t, closed, full),
           UNCHANGED <<connection, stageAck, generation, created>>
    PROVE  NumbersOn(pl, messages)
<1>1. created' \in Nat /\ created <= created' /\ created' = created
  BY PlainFlush
<1>2. QED
  BY <1>1, QueueMayFollow, FlushNumbers DEF NumbersOn

\* flush numbers the queue;
LEMMA FlushCallNumbers ==
    ASSUME WInv, NEW pl, Numbers(pl), NEW full, Flush(full)
    PROVE  NumbersOn(pl, messages)
<1>1. /\ UNCHANGED <<connection, stageAck, generation, created>>
      /\ FlushQueue(messages, <<>>, run, lastWriter, trigger, state = "CLOSED", full)
  BY DEF Flush
<1>2. (state = "CLOSED") \in BOOLEAN
  OBVIOUS
<1>3. QED
  BY <1>1, <1>2, QueueMayFollow, QueueNumbers

\* so does manage when its trigger stays quiet,
LEMMA QuietNumbers ==
    ASSUME WInv, NEW pl, Numbers(pl), NEW elapsed, ManageQuiet(elapsed)
    PROVE  NumbersOn(pl, messages)
<1> DEFINE t == IF Waits(trigger, elapsed) THEN trigger ELSE Ticks(trigger)
           closed == state = "CLOSED"
<1>1. /\ UNCHANGED <<connection, stageAck, generation, created>>
      /\ FlushQueue(messages, <<>>, run, lastWriter, t, closed, FALSE)
  BY DEF ManageQuiet
<1>2. closed \in BOOLEAN
  OBVIOUS
<1> HIDE DEF t, closed
<1>3. QED
  BY <1>1, <1>2, QueueMayFollow, QueueNumbers

\* and when it repeats,
LEMMA RaiseNumbers ==
    ASSUME WInv, NEW pl, Numbers(pl), NEW elapsed, ManageRaise(elapsed)
    PROVE  NumbersOn(pl, messages)
<1> DEFINE closed == state = "CLOSED"
           r(q) == IF q = {} THEN run ELSE run + 1
           t(q) == IF q = {} THEN Stopped(Fired(trigger)) ELSE Fired(trigger)
           last(q) == lastWriter /\ q = {}
<1>1. PICK q \in RaisedSets : \E e \in Ascending(q) :
        FlushQueue(messages, RaisedChunks(e), r(q), last(q), t(q), closed, FALSE)
  BY DEF ManageRaise
<1>2. PICK e \in Ascending(q) :
        FlushQueue(messages, RaisedChunks(e), r(q), last(q), t(q), closed, FALSE)
  BY <1>1
<1>3. RaisedChunks(e) \in Seq(Chunk)
  BY RaisedType DEF WInv
<1>4. UNCHANGED <<connection, stageAck, generation, created>>
  BY DEF ManageRaise
<1>5. /\ stage \in Nat /\ stageAck \in Nat /\ stageAck <= stage /\ sent \in Seq(Fragment)
      /\ Len(sent) = stage - stageAck
  BY DEF WInv, IInv, TypeOK, WindowAligned, Numbers
<1>6. Copies(pl, RaisedChunks(e))
  <2> SUFFICES ASSUME NEW i \in DOMAIN RaisedChunks(e)
               PROVE  /\ RaisedChunks(e)[i].stage \in 1..stage
                      /\ Same(RaisedChunks(e)[i], pl[RaisedChunks(e)[i].stage])
                      /\ RaisedChunks(e)[i].floor <= stageAck'
    BY DEF Copies
  <2>1. i \in DOMAIN e /\ e[i] \in q /\ q \subseteq DOMAIN sent
    BY DEF RaisedChunks, Ascending, RaisedSets, Reliable
  <2>2. e[i] \in DOMAIN sent /\ stageAck + e[i] \in 1..stage
    BY <1>5, <2>1
  <2>3. RaisedChunks(e)[i] = ChunkOf(sent[e[i]], stageAck + e[i], stageAck,
                                     i = 1 \/ e[i] # e[i - 1] + 1, run + 1,
                                     state = "CLOSED" /\ Len(messages) = 1)
    BY <2>1 DEF RaisedChunks
  <2>4. Same(sent[e[i]], pl[stageAck + e[i]])
    BY <2>2 DEF Numbers
  <2>5. /\ RaisedChunks(e)[i].stage = stageAck + e[i] /\ RaisedChunks(e)[i].floor = stageAck
        /\ Same(RaisedChunks(e)[i], sent[e[i]])
    BY <2>3 DEF ChunkOf, Same
  <2>6. QED
    BY <1>4, <1>5, <2>2, <2>4, <2>5 DEF Same
<1>7. closed \in BOOLEAN /\ r(q) \in Nat /\ last(q) \in BOOLEAN
  BY PlainFlush
<1> HIDE DEF closed, r, t, last
<1>8. QED
  BY <1>2, <1>3, <1>4, <1>6, <1>7, QueueNumbers

\* A step that writes and numbers nothing.
LEMMA KeptNumbers ==
    ASSUME WInv, NEW pl, Numbers(pl),
           UNCHANGED <<connection, generation, messages, sent, stage, stageAck, wire, created>>
    PROVE  NumbersOn(pl, messages)
<1>1. stage \in Nat
  BY DEF WInv, IInv, TypeOK
<1>2. (P!Numbering(pl, stage))'
  BY DEF Numbers, P!Numbering
<1>3. Numbers(pl)'
  BY <1>2 DEF Numbers, Same
<1>4. Moves(messages, pl, pl)
  BY <1>1 DEF Moves
<1>5. QED
  BY <1>3, <1>4 DEF NumbersOn

\* so in every case but the failure that the channel leaves out.
LEMMA ManageNumbers ==
    ASSUME WInv, NEW pl, Numbers(pl), Manage
    PROVE  NumbersOn(pl, messages)
<1>1. ASSUME NEW elapsed \in BOOLEAN, ManageQuiet(elapsed) PROVE NumbersOn(pl, messages)
  BY <1>1, QuietNumbers
<1>2. ASSUME NEW elapsed \in BOOLEAN, ManageRaise(elapsed) PROVE NumbersOn(pl, messages)
  BY <1>2, RaiseNumbers
<1>3. ASSUME NEW elapsed \in BOOLEAN, NEW r \in Reliabilities, ManageFail(elapsed, r)
      PROVE  FALSE
  <2>1. generation < MaxGenerations
    BY <1>3 DEF ManageFail, Renew
  <2>2. QED
    BY <2>1, ChannelAssumption DEF Numbers
<1>4. CASE ManageConsumed
  BY <1>4, KeptNumbers DEF ManageConsumed, windowVars, bandVars
<1>5. QED
  BY <1>1, <1>2, <1>3, <1>4 DEF Manage

\* An acknowledgment repeats what was numbered, and forgets the first of it.
LEMMA AcknowledgeNumbers ==
    ASSUME WInv, NEW pl, Numbers(pl), NEW a \in Acknowledgments, NEW new \in 0..(stage + 1),
           IsNewAck(a, new), Acknowledge(a, new),
           UNCHANGED <<connection, messages, stage, generation, created, state>>
    PROVE  NumbersOn(pl, messages)
<1>0. new \in stageAck..stage
  BY NewAckInWindow DEF WInv
<1> DEFINE head(e, cuts, i) == i = 1 \/ e[i] # e[i - 1] + 1 \/ i \in cuts
           ending == state = "CLOSED" /\ Len(messages) = 1
           chunks(e, cuts) ==
             [i \in DOMAIN e |->
                ChunkOf(FragmentAt(e[i]), e[i], new, head(e, cuts, i),
                        run + RunsUpTo(cuts, i), ending)]
<1>1. PICK e \in Ascending(Resent(a)) : \E cuts \in SUBSET DOMAIN e :
         Drops(a, new) /\ wire' = wire \o chunks(e, cuts)
  BY DEF Acknowledge, Drops
<1>2. PICK cuts \in SUBSET DOMAIN e : Drops(a, new) /\ wire' = wire \o chunks(e, cuts)
  BY <1>1
<1>3. /\ IInv /\ TypeOK
      /\ stage \in Nat /\ stageAck \in Nat /\ new \in Nat /\ stageAck <= new /\ new <= stage
      /\ sent \in Seq(Fragment) /\ Len(sent) \in Nat /\ DOMAIN sent = 1..Len(sent)
      /\ Len(sent) = stage - stageAck /\ run \in Nat /\ wire \in Seq(Chunk)
  BY <1>0 DEF WInv, IInv, TypeOK, WindowAligned, Numbers
<1>4. /\ Cardinality(Resent(a)) \in Nat
      /\ e \in [1..Cardinality(Resent(a)) -> Resent(a)]
      /\ DOMAIN e = 1..Cardinality(Resent(a))
  BY <1>3, ResentInWindow, FS_CardinalityType DEF Ascending
<1>5. Cardinality(cuts) \in Nat /\ \A i : RunsUpTo(cuts, i) \in Nat
  BY <1>4, CutsCount
<1>6. ASSUME NEW i \in DOMAIN e
      PROVE  /\ e[i] \in Nat /\ e[i] \in 1..stage /\ e[i] - stageAck \in DOMAIN sent
             /\ FragmentAt(e[i]) = sent[e[i] - stageAck]
             /\ FragmentAt(e[i]) \in Fragment
             /\ Same(FragmentAt(e[i]), pl[e[i]])
  <2>1. e[i] \in Resent(a)
    BY <1>4
  <2>2. /\ e[i] \in Nat /\ e[i] <= stage /\ e[i] - stageAck \in DOMAIN sent
        /\ FragmentAt(e[i]) \in Fragment
    <3>1. \A s \in Resent(a) : /\ s \in Nat /\ s <= stage /\ s - stageAck \in DOMAIN sent
                               /\ FragmentAt(s) \in Fragment
      BY <1>3, ResentInWindow
    <3>2. QED
      BY <2>1, <3>1, Zenon
  <2>3. e[i] \in 1..stage /\ stageAck + (e[i] - stageAck) = e[i]
    <3>1. stage \in Nat /\ stageAck \in Nat /\ Len(sent) \in Nat /\ DOMAIN sent = 1..Len(sent)
      BY <1>3
    <3>2. ASSUME NEW s \in Nat, s <= stage, s - stageAck \in 1..Len(sent)
          PROVE  s \in 1..stage /\ stageAck + (s - stageAck) = s
      BY <3>1, <3>2
    <3>3. QED
      BY <2>2, <3>1, <3>2
  <2>4. Same(sent[e[i] - stageAck], pl[stageAck + (e[i] - stageAck)])
    BY <2>2 DEF Numbers
  <2>5. QED
    BY <2>2, <2>3, <2>4 DEF FragmentAt
<1> DEFINE u == chunks(e, cuts)
<1>7. ASSUME NEW i \in DOMAIN e
      PROVE  u[i] \in Chunk /\ u[i].stage = e[i] /\ u[i].floor = new /\ Same(u[i], FragmentAt(e[i]))
  <2> DEFINE h == head(e, cuts, i)
             x == ending
  <2>1. u[i] = ChunkOf(FragmentAt(e[i]), e[i], new, h, run + RunsUpTo(cuts, i), x)
    OBVIOUS
  <2>2. h \in BOOLEAN /\ x \in BOOLEAN
    OBVIOUS
  <2>3. run + RunsUpTo(cuts, i) \in Nat
    BY <1>3, <1>5
  <2> HIDE DEF u, h, x
  <2>4. u[i] \in Chunk
    BY <1>3, <1>6, <2>1, <2>2, <2>3, ChunkType
  <2>5. QED
    BY <2>1, <2>4 DEF ChunkOf, Same
<1>8. DOMAIN u = DOMAIN e
  OBVIOUS
<1>9. u \in Seq(Chunk)
  <2>1. u = [i \in 1..Cardinality(Resent(a)) |-> u[i]]
    BY <1>4
  <2> HIDE DEF u
  <2>2. u \in [1..Cardinality(Resent(a)) -> Chunk]
    BY <1>4, <1>7, <2>1
  <2>3. QED
    BY <1>4, <2>2
<1>10. wire' = wire \o u
  BY <1>2
<1> HIDE DEF u, chunks
<1>11. stageAck' = new
  BY <1>2 DEF Drops
<1>12. ASSUME NEW i \in DOMAIN wire'
       PROVE  /\ wire'[i].stage \in 1..stage /\ Same(wire'[i], pl[wire'[i].stage])
              /\ wire'[i].floor <= new
  <2>1. \/ i \in DOMAIN wire /\ wire'[i] = wire[i]
        \/ \E k \in DOMAIN u : wire'[i] = u[k]
    BY <1>3, <1>9, <1>10, InEither
  <2>2. CASE i \in DOMAIN wire /\ wire'[i] = wire[i]
    <3>1. /\ wire[i].stage \in 1..stage /\ Same(wire[i], pl[wire[i].stage])
          /\ wire[i].floor <= stageAck
      BY <2>2 DEF Numbers
    <3>2. wire[i] \in Chunk
      BY <1>3, <2>2
    <3>3. wire[i].floor \in Nat
      BY <3>2 DEF Chunk
    <3>4. QED
      BY <1>3, <2>2, <3>1, <3>3
  <2>3. CASE \E k \in DOMAIN u : wire'[i] = u[k]
    <3>1. PICK k \in DOMAIN e : wire'[i] = u[k]
      BY <1>8, <2>3
    <3>2. QED
      BY <1>3, <1>6, <1>7, <3>1 DEF Same
  <2>4. QED
    BY <2>1, <2>2, <2>3
<1>13. ASSUME NEW s \in 1..stage PROVE \E i \in DOMAIN wire' : wire'[i].stage = s
  <2>1. PICK i \in DOMAIN wire : wire[i].stage = s
    BY DEF Numbers
  <2>2. i \in DOMAIN wire' /\ wire'[i] = wire[i]
    BY <1>3, <1>9, <1>10, OfEach
  <2>3. QED
    BY <2>1, <2>2
<1>14. ASSUME NEW k \in DOMAIN sent' PROVE Same(sent'[k], pl[new + k])
  <2>1. PICK d : d = new - stageAck
    OBVIOUS
  <2>2. /\ d \in Nat /\ k + d \in DOMAIN sent /\ k \in 1..(Len(sent) - d)
        /\ sent'[k].message = sent[k + d].message
        /\ sent'[k].reliable = sent[k + d].reliable
        /\ sent'[k].empty = sent[k + d].empty
        /\ sent'[k].before = sent[k + d].before
        /\ sent'[k].after = sent[k + d].after
    BY <1>0, <1>2, <1>3, <2>1, SentAfterDrop
  <2>3. stageAck + (k + d) = new + k
    BY <1>3, <2>1, <2>2
  <2>4. Same(sent[k + d], pl[stageAck + (k + d)])
    BY <2>2 DEF Numbers
  <2>5. QED
    BY <2>2, <2>3, <2>4 DEF Same
<1>15. (P!Numbering(pl, stage))'
  BY DEF Numbers, P!Numbering
<1>16. Numbers(pl)'
  BY <1>11, <1>12, <1>13, <1>14, <1>15 DEF Numbers, Same
<1>17. Moves(messages, pl, pl)
  BY <1>3 DEF Moves
<1>18. QED
  BY <1>16, <1>17 DEF NumbersOn

-----------------------------------------------------------------------------
(* What is owed                                                            *)

\* What is owed is queued or numbered, and then nothing else but reliable
\* messages ever was.
Owes(pl) ==
    /\ owed # {} => /\ \A k \in DOMAIN messages : messages[k].reliable
                    /\ \A s \in 1..stage : pl[s].reliable
    /\ \A k \in DOMAIN messages : ~messages[k].empty
    /\ \A n \in owed :
          /\ n \in Nat /\ n < created
          /\ \/ \E k \in DOMAIN messages : messages[k].name = n
             \/ \E s \in 1..stage : pl[s].message = n /\ ~pl[s].after /\ ~pl[s].empty

\* pl2 goes on with pl, and does not once the writer is closed.
Onward(pl, pl2) ==
    /\ stage \in Nat /\ stage' \in Nat /\ stage <= stage'
    /\ \A s \in 1..stage : pl2[s] = pl[s]
    /\ state = "CLOSED" => state' = "CLOSED" /\ stage' = stage

\* An acknowledgment that speaks of stages numbered only.
Heeds(a) == a.cum \in 0..stage /\ R!ReportedReceived(a) \subseteq (a.cum + 2)..stage

\* The acknowledgment as the writer reads it.
ReadAs(a) == [cum |-> a.cum, recv |-> R!ReportedReceived(a)]

\* What a step takes to what is owed after it.
LEMMA OwesOn ==
    ASSUME NEW pl, NEW pl2, NEW q, Owes(pl), Moves(q, pl, pl2),
           \A k \in DOMAIN messages : \E j \in DOMAIN q : q[j] = messages[k],
           owed' # {} => /\ \A j \in DOMAIN q : q[j].reliable
                         /\ \A s \in 1..stage : pl[s].reliable,
           \A n \in owed' : /\ n \in Nat /\ n < created'
                            /\ n \in owed \/ \E j \in DOMAIN q : q[j].name = n /\ ~q[j].empty,
           \A k \in DOMAIN messages' : ~messages'[k].empty
    PROVE  Owes(pl2)'
<1>1. stage \in Nat /\ stage' \in Nat /\ stage <= stage' /\ \A s \in 1..stage : s \in 1..stage'
  BY DEF Moves
<1>2. ASSUME owed' # {}
      PROVE  /\ \A k \in DOMAIN messages' : messages'[k].reliable
             /\ \A s \in 1..stage' : pl2[s].reliable
  <2>1. \A k \in DOMAIN messages' : messages'[k].reliable
    BY <1>2 DEF Moves
  <2>2. ASSUME NEW s \in 1..stage' PROVE pl2[s].reliable
    <3>1. CASE s \in 1..stage
      BY <1>2, <3>1 DEF Moves
    <3>2. CASE \E m \in DOMAIN q : Of(pl2[s], q[m])
      BY <1>2, <3>2 DEF Of
    <3>3. QED
      BY <3>1, <3>2 DEF Moves
  <2>3. QED
    BY <2>1, <2>2
<1>3. ASSUME NEW n \in owed'
      PROVE  \/ \E k \in DOMAIN messages' : messages'[k].name = n
             \/ \E s \in 1..stage' : pl2[s].message = n /\ ~pl2[s].after /\ ~pl2[s].empty
  <2>1. ASSUME NEW j \in DOMAIN q, q[j].name = n, ~q[j].empty
        PROVE  \/ \E k \in DOMAIN messages' : messages'[k].name = n
               \/ \E s \in 1..stage' : pl2[s].message = n /\ ~pl2[s].after /\ ~pl2[s].empty
    <3>1. CASE \E k \in DOMAIN messages' : messages'[k] = q[j]
      BY <2>1, <3>1
    <3>2. CASE \E s \in 1..stage' : ~pl2[s].after /\ Of(pl2[s], q[j])
      BY <2>1, <3>2 DEF Of
    <3>3. QED
      BY <3>1, <3>2 DEF Moves
  <2>2. CASE \E k \in DOMAIN messages : messages[k].name = n
    <3>1. PICK k \in DOMAIN messages : messages[k].name = n
      BY <2>2
    <3>2. PICK j \in DOMAIN q : q[j] = messages[k]
      OBVIOUS
    <3>3. ~messages[k].empty
      BY DEF Owes
    <3>4. QED
      BY <2>1, <3>1, <3>2, <3>3
  <2>3. CASE \E s \in 1..stage : pl[s].message = n /\ ~pl[s].after /\ ~pl[s].empty
    BY <1>1, <2>3 DEF Moves
  <2>4. CASE n \in owed
    BY <2>2, <2>3, <2>4 DEF Owes
  <2>5. QED
    BY <2>1, <2>4
<1>4. QED
  BY <1>2, <1>3 DEF Owes

\* A step that queues no message.
LEMMA OwesQueued ==
    ASSUME WInv, NEW pl, Numbers(pl), Owes(pl), NumbersOn(pl, messages), UNCHANGED owed,
           created' \in Nat, created <= created',
           \/ state' = state
           \/ state # "CLOSED" /\ state' = "CLOSED"
    PROVE  \E pl2 : Numbers(pl2)' /\ Owes(pl2)' /\ Onward(pl, pl2)
<1>1. PICK pl2 : Numbers(pl2)' /\ Moves(messages, pl, pl2)
  BY DEF NumbersOn
<1>2. created \in Nat
  BY PlainFlush
<1>3. Owes(pl2)'
  <2>1. \A n \in owed' : /\ n \in Nat /\ n < created' /\ n \in owed
    BY <1>2 DEF Owes
  <2>2. \A k \in DOMAIN messages' : ~messages'[k].empty
    BY <1>1 DEF Moves, Owes
  <2>3. owed' # {} => /\ \A j \in DOMAIN messages : messages[j].reliable
                      /\ \A s \in 1..stage : pl[s].reliable
    BY DEF Owes
  <2>4. QED
    BY <1>1, <2>1, <2>2, <2>3, OwesOn
<1>4. ASSUME state = "CLOSED" PROVE state' = "CLOSED" /\ stage' = stage
  <2>1. messages = <<>>
    BY <1>4 DEF WInv, Plain, Numbers, Critical
  <2>2. DOMAIN messages = {}
    BY <2>1
  <2>3. stage \in Nat /\ stage' \in Nat /\ stage <= stage' /\ \A s \in 1..stage' : s \in 1..stage
    BY <1>1, <2>2 DEF Moves
  <2>4. stage' = stage
    BY <2>3
  <2>5. QED
    BY <1>4, <2>4
<1>5. Onward(pl, pl2)
  BY <1>1, <1>4 DEF Onward, Moves
<1>6. QED
  BY <1>1, <1>3, <1>5

\* A step that queues one.
LEMMA OwesNew ==
    ASSUME WInv, NEW pl, Numbers(pl), Owes(pl), ~Mixing,
           NEW r \in BOOLEAN, NEW empty \in BOOLEAN, MaySend(r),
           NumbersOn(pl, Append(messages, NewMessage(r, empty))), created' = created + 1,
           \/ owed' = owed
           \/ owed' = owed \cup {created} /\ r /\ ~empty,
           empty => messages' = <<>>,
           state # "CLOSED"
    PROVE  \E pl2 : Numbers(pl2)' /\ Owes(pl2)' /\ Onward(pl, pl2)
<1> DEFINE m == NewMessage(r, empty)
           q == Append(messages, m)
<1>1. PICK pl2 : Numbers(pl2)' /\ Moves(q, pl, pl2)
  BY DEF NumbersOn
<1>2. created \in Nat
  BY PlainFlush
<1>3. m \in Message /\ m.name = created /\ m.reliable = r /\ m.empty = empty
  BY <1>2 DEF NewMessage, Message
<1> HIDE DEF m
<1>4. /\ \A k \in DOMAIN messages : k \in DOMAIN q /\ q[k] = messages[k]
      /\ \A k \in DOMAIN q : (k \in DOMAIN messages /\ q[k] = messages[k]) \/ q[k] = m
      /\ \E k \in DOMAIN q : q[k] = m
  BY <1>3, NewMayFollow
<1> HIDE DEF q
<1>5. ASSUME owed' # {}
      PROVE  /\ \A j \in DOMAIN q : q[j].reliable
             /\ \A s \in 1..stage : pl[s].reliable
  <2>1. CASE owed # {}
    <3>1. created # 0
      BY <1>2, <2>1 DEF Owes
    <3>2. r
      BY <2>1, <3>1 DEF MaySend
    <3>3. QED
      BY <1>3, <1>4, <2>1, <3>2 DEF Owes
  <2>2. CASE owed = {}
    <3>1. r /\ created = 0
      BY <1>5, <2>2 DEF MaySend
    <3>2. DOMAIN messages = {}
      <4>1. ASSUME NEW k \in DOMAIN messages PROVE FALSE
        <5>1. messages[k].name < created /\ messages[k] \in Message
          BY PlainFlush
        <5>2. messages[k].name \in Nat
          BY <5>1 DEF Message
        <5>3. QED
          BY <3>1, <5>1, <5>2
      <4>2. QED
        BY <4>1
    <3>3. ASSUME NEW s \in 1..stage PROVE FALSE
      <4>1. pl[s].message < created /\ pl \in Seq(Fragment) /\ Len(pl) = stage
        BY DEF Numbers
      <4>2. pl[s] \in Fragment
        BY <4>1
      <4>3. pl[s].message \in Nat
        BY <4>2 DEF Fragment
      <4>4. QED
        BY <3>1, <4>1, <4>3
    <3>4. QED
      BY <1>3, <1>4, <3>1, <3>2, <3>3
  <2>3. QED
    BY <2>1, <2>2
<1>6. ASSUME NEW n \in owed'
      PROVE  /\ n \in Nat /\ n < created'
             /\ n \in owed \/ \E j \in DOMAIN q : q[j].name = n /\ ~q[j].empty
  <2>1. CASE n \in owed
    BY <1>2, <2>1 DEF Owes
  <2>2. CASE n \notin owed
    <3>1. n = created /\ ~empty
      BY <1>6, <2>2
    <3>2. QED
      BY <1>2, <1>3, <1>4, <3>1
  <2>3. QED
    BY <2>1, <2>2
<1>7. \A k \in DOMAIN messages' : ~messages'[k].empty
  <2>1. CASE empty
    BY <2>1
  <2>2. CASE ~empty
    BY <1>1, <1>3, <1>4, <2>2 DEF Moves, Owes
  <2>3. QED
    BY <2>1, <2>2
<1>8. Owes(pl2)'
  BY <1>1, <1>4, <1>5, <1>6, <1>7, OwesOn
<1>9. Onward(pl, pl2)
  BY <1>1 DEF Onward, Moves
<1>10. QED
  BY <1>1, <1>8, <1>9

\* The sender's step, whichever it is.
SenderMoves ==
    \/ \E r \in Reliabilities : SenderWrite(r)
    \/ SenderStep /\ UNCHANGED owed
    \/ \E a : Heeds(a) /\ SenderAcknowledged(a) /\ UNCHANGED owed
    \/ UNCHANGED <<vars, owed>>

\* It takes the writer's lists on.
LEMMA SenderNumbers ==
    ASSUME WInv, NEW pl, Numbers(pl), Owes(pl), ~Mixing, SenderMoves
    PROVE  \E pl2 : Numbers(pl2)' /\ Owes(pl2)' /\ Onward(pl, pl2)
<1>0. created \in Nat
  BY PlainFlush
<1>1. ASSUME NEW r \in Reliabilities, SenderWrite(r)
      PROVE  \E pl2 : Numbers(pl2)' /\ Owes(pl2)' /\ Onward(pl, pl2)
  <2>1. /\ MaySend(r) /\ Write(r) /\ created' = created + 1 /\ state # "CLOSED"
        /\ owed' = IF r THEN owed \cup {created} ELSE owed
    BY <1>1 DEF SenderWrite, Write
  <2>2. NumbersOn(pl, Append(messages, NewMessage(r, FALSE)))
    BY <2>1, WriteNumbers
  <2>3. r \in BOOLEAN /\ FALSE \in BOOLEAN
    BY WriterAssumption
  <2>4. QED
    BY <2>1, <2>2, <2>3, OwesNew
<1>2. CASE WriteRaw /\ MaySend(FALSE) /\ UNCHANGED owed
  <2>1. NumbersOn(pl, Append(messages, NewMessage(FALSE, FALSE)))
    BY <1>2, WriteRawNumbers
  <2>2. created' = created + 1 /\ state # "CLOSED" /\ FALSE \in BOOLEAN
    BY <1>2 DEF WriteRaw
  <2>3. QED
    BY <1>2, <2>1, <2>2, OwesNew
<1>3. ASSUME NEW r \in Reliabilities, MaySend(r), Close(r), UNCHANGED owed
      PROVE  \E pl2 : Numbers(pl2)' /\ Owes(pl2)' /\ Onward(pl, pl2)
  <2>1. state # "CLOSED" /\ state' = "CLOSED" /\ messages' = <<>>
    BY <1>3 DEF Close, FlushQueue
  <2>2. CASE created' = created + 1 /\ NumbersOn(pl, Append(messages, NewMessage(r, TRUE)))
    <3>1. r \in BOOLEAN /\ TRUE \in BOOLEAN
      BY WriterAssumption
    <3>2. QED
      BY <1>3, <2>1, <2>2, <3>1, OwesNew
  <2>3. CASE created' = created /\ NumbersOn(pl, messages)
    <3>1. created' \in Nat /\ created <= created'
      BY <1>0, <2>3
    <3>2. QED
      BY <1>3, <2>1, <2>3, <3>1, OwesQueued
  <2>4. QED
    BY <1>3, <2>2, <2>3, CloseNumbers
<1>4. ASSUME NumbersOn(pl, messages), UNCHANGED <<state, created, owed>>
      PROVE  \E pl2 : Numbers(pl2)' /\ Owes(pl2)' /\ Onward(pl, pl2)
  <2>1. created' \in Nat /\ created <= created'
    BY <1>0, <1>4
  <2>2. QED
    BY <1>4, <2>1, OwesQueued
<1>5. ASSUME NEW full \in BOOLEAN, Flush(full), UNCHANGED owed
      PROVE  \E pl2 : Numbers(pl2)' /\ Owes(pl2)' /\ Onward(pl, pl2)
  <2>1. NumbersOn(pl, messages)
    BY <1>5, FlushCallNumbers
  <2>2. QED
    BY <1>4, <1>5, <2>1 DEF Flush
<1>6. CASE Manage /\ UNCHANGED owed
  <2>1. NumbersOn(pl, messages)
    BY <1>6, ManageNumbers
  <2>2. UNCHANGED <<state, created>>
    <3>1. ASSUME NEW elapsed \in BOOLEAN, NEW r \in Reliabilities, ManageFail(elapsed, r)
          PROVE  FALSE
      <4>1. generation < MaxGenerations
        BY <3>1 DEF ManageFail, Renew
      <4>2. QED
        BY <4>1, ChannelAssumption DEF Numbers
    <3>2. QED
      BY <1>6, <3>1 DEF Manage, ManageQuiet, ManageRaise, ManageConsumed
  <2>3. QED
    BY <1>4, <1>6, <2>1, <2>2
<1>7. CASE BandAdvance /\ UNCHANGED owed
  BY <1>4, <1>7, KeptNumbers DEF BandAdvance, windowVars
<1>8. ASSUME NEW a, Heeds(a), SenderAcknowledged(a), UNCHANGED owed
      PROVE  \E pl2 : Numbers(pl2)' /\ Owes(pl2)' /\ Onward(pl, pl2)
  <2>1. PICK new \in 0..(stage + 1) : IsNewAck(ReadAs(a), new) /\ Acknowledge(ReadAs(a), new)
    BY <1>8 DEF SenderAcknowledged, ReadAs
  <2>2. ReadAs(a) \in Acknowledgments
    <3>1. stage \in Nat
      BY DEF WInv, IInv, TypeOK
    <3>2. a.cum \in 0..(stage + 1) /\ R!ReportedReceived(a) \in SUBSET ((a.cum + 2)..(stage + 1))
      BY <1>8, <3>1 DEF Heeds
    <3>3. ReadAs(a) \in [cum: {a.cum}, recv: SUBSET ((a.cum + 2)..(stage + 1))]
      BY <3>2 DEF ReadAs
    <3>4. QED
      BY <3>2, <3>3 DEF Acknowledgments
  <2>3. UNCHANGED <<state, connection, messages, stage, generation, created>>
    BY <1>8 DEF SenderAcknowledged
  <2>4. NumbersOn(pl, messages)
    BY <2>1, <2>2, <2>3, AcknowledgeNumbers
  <2>5. QED
    BY <1>4, <1>8, <2>3, <2>4
<1>9. CASE UNCHANGED <<vars, owed>>
  BY <1>4, <1>9, KeptNumbers DEF vars
<1>10. QED
  BY <1>1, <1>2, <1>3, <1>5, <1>6, <1>7, <1>8, <1>9 DEF SenderMoves, SenderStep

-----------------------------------------------------------------------------
(* The receiver is in step with the numbering                              *)

\* The stage flagged MESSAGE_END.
EndStages == IF state = "CLOSED" THEN {stage} ELSE {}

\* The receiver reached the stage, or buffers it.
Has(s) == s <= flow.stage \/ s \in DOMAIN flow.fragments

\* The message was handed over.
Told(n) == \E j \in DOMAIN ReceivedNames : ReceivedNames[j] = n

\* What an acknowledgment says, the receiver has.
Truthful(a) == a.cum <= flow.stage /\ \A s \in R!ReportedReceived(a) : Has(s)

\* The receiver of the numbering pl.  It is asked for all that it was told only
\* until it deletes its flow, which it does when it has handed over the rest.
Hears(pl) ==
    /\ P!Follows(pl, stage, EndStages, flow)
    /\ ~flow.open => flow = P!NoFlow
    /\ request.pFlow = "flow" => flow.open
    /\ request \in R!Request /\ reading \in Nat
    /\ past \in Seq(Seq(P!Delivery))
    /\ flow.open => Len(past) < MaxFlows
    /\ (owed # {} /\ past = <<>>) => P!Full(pl, flow)
    /\ past = <<>> => \A s \in reported : Has(s)
    /\ \A a \in acks : ~a.negative => Heeds(a) /\ (past = <<>> => Truthful(a))
    /\ past # <<>> => state = "CLOSED" /\ \A n \in owed : Told(n)

\* What the sender does, the receiver does not notice.
LEMMA SenderHears ==
    ASSUME NEW pl, NEW pl2, Hears(pl), Onward(pl, pl2),
           UNCHANGED <<flow, past, acks>>,
           request' \in R!Request, request'.pFlow = "flow" => flow.open, reading' \in Nat,
           owed' # {} => owed # {} \/ stage = 0,
           past # <<>> => owed' = owed,
           \A s \in reported' : \/ s \in reported
                                \/ \E a \in acks :
                                      ~a.negative /\ (s <= a.cum \/ s \in R!ReportedReceived(a)),
           reported' \subseteq Nat
    PROVE  Hears(pl2)'
<1>1. /\ stage \in Nat /\ stage' \in Nat /\ stage <= stage' /\ \A s \in 1..stage : pl2[s] = pl[s]
      /\ EndStages \subseteq EndStages'
  BY DEF Onward, EndStages
<1>2. P!Follows(pl, stage, EndStages, flow)
  BY DEF Hears
<1>3. P!Follows(pl2, stage', EndStages', flow) /\ (P!Full(pl, flow) => P!Full(pl2, flow))
  BY <1>1, <1>2, P!FollowsMore, ChannelAssumption, WriterAssumption
<1>4. flow.stage \in Nat /\ flow.stage <= stage /\ \A x \in DOMAIN flow.fragments : x \in Nat
  BY <1>1, <1>2, WriterAssumption DEF P!Follows, P!Ahead, P!Flows
<1>5. ASSUME owed' # {}, past' = <<>> PROVE P!Full(pl2, flow)
  <2>1. CASE owed # {}
    BY <1>3, <1>5, <2>1 DEF Hears
  <2>2. CASE stage = 0
    <3>1. flow.stage = 0
      BY <1>4, <2>2
    <3>2. 1..0 = {}
      OBVIOUS
    <3>3. QED
      BY <3>1, <3>2 DEF P!Full
  <2>3. QED
    BY <1>5, <2>1, <2>2
<1>6. \A s : Has(s)' <=> Has(s)
  BY DEF Has
<1>7. \A n : Told(n)' <=> Told(n)
  BY DEF Told, ReceivedNames
<1>8. \A a : (Truthful(a)' <=> Truthful(a)) /\ (Heeds(a) => Heeds(a)')
  BY <1>1, <1>6 DEF Truthful, Heeds
<1>9. ASSUME past' = <<>>, NEW s \in reported' PROVE Has(s)
  <2>1. CASE s \in reported
    BY <1>9, <2>1 DEF Hears
  <2>2. ASSUME NEW a \in acks, ~a.negative, s <= a.cum \/ s \in R!ReportedReceived(a), s \in Nat
        PROVE  Has(s)
    <3>1. Heeds(a) /\ Truthful(a)
      BY <1>9, <2>2 DEF Hears
    <3>2. a.cum \in Nat
      BY <1>1, <3>1 DEF Heeds
    <3>3. QED
      BY <1>4, <2>2, <3>1, <3>2 DEF Truthful, Has
  <2>3. QED
    BY <2>1, <2>2
<1>10. P!Follows(pl2, stage, EndStages, flow)'
  BY <1>3
<1>11. past' = past /\ flow' = flow /\ acks' = acks
  OBVIOUS
<1>12. /\ ~flow'.open => flow' = P!NoFlow
       /\ request'.pFlow = "flow" => flow'.open
       /\ request' \in R!Request /\ reading' \in Nat
       /\ past' \in Seq(Seq(P!Delivery))
       /\ flow'.open => Len(past') < MaxFlows
  BY <1>11 DEF Hears
<1>13. (owed' # {} /\ past' = <<>>) => P!Full(pl2, flow)'
  BY <1>5
<1>14. past' = <<>> => \A s \in reported' : Has(s)'
  BY <1>6, <1>9
<1>15. \A a \in acks' : ~a.negative => Heeds(a)' /\ (past' = <<>> => Truthful(a)')
  BY <1>8 DEF Hears
<1>16. past' # <<>> => state' = "CLOSED" /\ \A n \in owed' : Told(n)'
  BY <1>7 DEF Hears, Onward
<1>17. (P!NoFlow)' = P!NoFlow /\ (Seq(Seq(P!Delivery)))' = Seq(Seq(P!Delivery))
       /\ (R!Request)' = R!Request
  BY DEF P!NoFlow, P!NewFlow, P!Delivery, P!Part, R!Request
<1>18. QED
  BY <1>10, <1>12, <1>13, <1>14, <1>15, <1>16, <1>17 DEF Hears

\* The messages handed over are those of the deleted flows, then the flow's.
Handed(ds) == FlattenSeq(past) \o ds

\* They are deliveries, and each has its place.
LEMMA HandedType ==
    ASSUME past \in Seq(Seq(P!Delivery)), NEW ds \in Seq(P!Delivery)
    PROVE  /\ Handed(ds) \in Seq(P!Delivery)
           /\ Joins(Handed(ds), FlattenSeq(past), Len(FlattenSeq(past)), ds, Len(ds))
<1>1. <<>> \in Seq(P!Delivery)
  BY EmptySeq
<1>2. FlattenSeq(past) \in Seq(P!Delivery)
  BY <1>1, FlattenedOneMore
<1>3. QED
  BY <1>2, JoinedAt DEF Handed

\* What the channel's received names are the names of.
LEMMA NamesAre ==
    /\ DOMAIN ReceivedNames = DOMAIN Handed(flow.delivered)
    /\ \A j \in DOMAIN ReceivedNames : ReceivedNames[j] = P!Name(Handed(flow.delivered)[j])
BY DEF ReceivedNames, Handed, P!Name

\* A flow that hands over more leaves what was handed over as it was.
LEMMA NamesGrow ==
    ASSUME past \in Seq(Seq(P!Delivery)), flow.delivered \in Seq(P!Delivery),
           NEW es \in Seq(P!Delivery), P!Grown(flow.delivered, es)
    PROVE  /\ \A j \in DOMAIN Handed(flow.delivered) :
                 j \in DOMAIN Handed(es) /\ Handed(es)[j] = Handed(flow.delivered)[j]
           /\ \A j \in DOMAIN Handed(es) :
                 j \in DOMAIN Handed(flow.delivered) \/ \E d \in DOMAIN es :
                    d > Len(flow.delivered) /\ j = Len(FlattenSeq(past)) + d /\ Handed(es)[j] = es[d]
<1> DEFINE ds == flow.delivered
           l == Len(FlattenSeq(past))
           n == Len(ds)
           m == Len(es)
<1>1. /\ Joins(Handed(ds), FlattenSeq(past), l, ds, n)
      /\ Joins(Handed(es), FlattenSeq(past), l, es, m)
  BY HandedType
<1>2. /\ n \in Nat /\ m \in Nat /\ n <= m /\ DOMAIN ds = 1..n /\ DOMAIN es = 1..m
      /\ \A d \in 1..n : es[d] = ds[d]
  BY DEF P!Grown
<1> HIDE DEF l, n, m
<1>3. l \in Nat
  BY <1>1 DEF Joins
<1>4. ASSUME NEW j \in DOMAIN Handed(ds)
      PROVE  j \in DOMAIN Handed(es) /\ Handed(es)[j] = Handed(ds)[j]
  <2>1. j \in 1..(l + n) /\ (j \in 1..l \/ \E k \in 1..n : j = l + k)
    BY <1>1 DEF Joins
  <2>2. CASE j \in 1..l
    BY <1>1, <2>2 DEF Joins
  <2>3. CASE \E k \in 1..n : j = l + k
    <3>1. PICK k \in 1..n : j = l + k
      BY <2>3
    <3>2. k \in 1..m
      BY <1>2
    <3>3. Handed(ds)[l + k] = ds[k] /\ Handed(es)[l + k] = es[k] /\ l + k \in DOMAIN Handed(es)
      BY <1>1, <3>2 DEF Joins
    <3>4. QED
      BY <1>2, <3>1, <3>3
  <2>4. QED
    BY <2>1, <2>2, <2>3
<1>5. ASSUME NEW j \in DOMAIN Handed(es), j \notin DOMAIN Handed(ds)
      PROVE  \E d \in DOMAIN es : d > n /\ j = l + d /\ Handed(es)[j] = es[d]
  <2>1. j \notin 1..l
    BY <1>1, <1>5 DEF Joins
  <2>2. PICK d \in 1..m : j = l + d
    BY <1>1, <2>1 DEF Joins
  <2>3. d > n
    <3>1. d \in 1..n => j \in DOMAIN Handed(ds)
      BY <1>1, <2>2 DEF Joins
    <3>2. QED
      BY <1>2, <1>5, <3>1
  <2>4. QED
    BY <1>1, <1>2, <2>2, <2>3 DEF Joins
<1>6. QED
  BY <1>4, <1>5 DEF n, l

\* Nothing skipped: what the writer forgot of what is owed, the receiver has.
LEMMA NoSkip ==
    ASSUME WInv, NEW pl, Numbers(pl), Owes(pl), Hears(pl), owed # {}, past = <<>>
    PROVE  stageAck <= flow.stage
<1>1. /\ stage \in Nat /\ stageAck \in Nat /\ stageAck <= stage /\ flow.stage \in Nat
      /\ P!Ahead(flow) /\ generation = 0
  BY DEF WInv, IInv, TypeOK, WindowAligned, Hears, P!Follows, P!Ahead, P!Flows, Numbers
<1> SUFFICES ASSUME flow.stage < stageAck PROVE FALSE
  BY <1>1
<1>2. PICK s : s = flow.stage + 1
  OBVIOUS
<1>3. s \in 1..stage /\ s <= stageAck
  BY <1>1, <1>2
<1>4. PICK i \in DOMAIN wire : wire[i].stage = s
  BY <1>3 DEF Numbers
<1>5. wire[i].reliable
  <2>1. Same(wire[i], pl[s]) /\ pl[s].reliable
    BY <1>3, <1>4 DEF Numbers, Owes
  <2>2. QED
    BY <2>1 DEF Same
<1>6. s \in reported
  BY <1>1, <1>3, <1>4, <1>5, WInvAccounts DEF AccountsRight, AckedWasReported
<1>7. Has(s)
  BY <1>6 DEF Hears
<1>8. QED
  BY <1>1, <1>2, <1>7 DEF Has, P!Ahead

\* A chunk of the band, as the receiver takes it, is a fragment numbered.
LEMMA HeardComes ==
    ASSUME WInv, NEW pl, Numbers(pl), NEW i \in DOMAIN wire
    PROVE  P!Comes(pl, stage, EndStages, Heard(wire[i]))
<1> DEFINE c == Heard(wire[i])
           p == P!PartOf(c)
<1>1. wire \in Seq(Chunk) /\ stage \in Nat /\ pl \in Seq(Fragment) /\ Len(pl) = stage
  BY DEF WInv, IInv, TypeOK, Numbers
<1>2. wire[i] \in Chunk /\ Sound(wire[i])
  <2>1. wire[i] \in Chunk
    BY <1>1
  <2>2. \A x \in ChunksOf(wire) : Sound(x)
    BY DEF WInv, Band
  <2>3. QED
    BY <2>1, <2>2 DEF ChunksOf
<1>3. wire[i].stage \in 1..stage /\ Same(wire[i], pl[wire[i].stage])
  BY DEF Numbers
<1>4. wire[i].end => wire[i].stage \in EndStages
  BY <1>2 DEF Sound, EndsAt, EndStages, Critical, Numbers
<1>5. /\ c.stage = wire[i].stage /\ c.floor = wire[i].floor /\ c.message = wire[i].message
      /\ c.before = wire[i].before /\ c.after = wire[i].after /\ c.empty = wire[i].empty
      /\ c.end = wire[i].end
  BY DEF Heard
<1>6. c.floor \in Nat /\ c.end \in BOOLEAN /\ c.stage \in Nat
  BY <1>2, <1>5 DEF Chunk
<1>7. p \in P!Part
  BY <1>2, <1>5, <1>6 DEF P!PartOf, P!Part, Chunk
<1>8. /\ p.stage = c.stage /\ p.message = c.message /\ p.before = c.before /\ p.after = c.after
      /\ p.empty = c.empty /\ p.end = c.end
  BY DEF P!PartOf
<1> HIDE DEF c, p
<1>9. P!Numbered(pl, stage, EndStages, p)
  BY <1>3, <1>4, <1>5, <1>7, <1>8 DEF P!Numbered, Same
<1>10. QED
  BY <1>3, <1>4, <1>5, <1>6, <1>9 DEF P!Comes, c, p

\* A flow of the session, or one that it creates.
Begins(pl, f) ==
    /\ P!Follows(pl, stage, EndStages, f) /\ f.open
    /\ f.stage = flow.stage /\ f.fragments = flow.fragments /\ f.delivered = flow.delivered
    /\ P!Full(pl, flow) => P!Full(pl, f)

\* The receiver handles a chunk.
LEMMA ChunkHears ==
    ASSUME WInv, NEW pl, Numbers(pl), Owes(pl), Hears(pl), NEW f, Begins(pl, f),
           NEW i \in DOMAIN wire, flow' = R!FragmentHandler(f, Heard(wire[i])),
           UNCHANGED <<vars, past, acks, owed>>, Len(past) < MaxFlows,
           request' \in R!Request, reading' \in Nat
    PROVE  /\ Hears(pl)'
           /\ P!Grown(flow.delivered, flow'.delivered)
<1> DEFINE c == Heard(wire[i])
           g == flow'
<1>1. /\ stage \in 0..MaxStage /\ stage \in Nat /\ P!Numbering(pl, stage)
      /\ P!Follows(pl, stage, EndStages, f) /\ P!Follows(pl, stage, EndStages, flow)
      /\ flow.stage \in Nat /\ flow.delivered \in Seq(P!Delivery) /\ past \in Seq(Seq(P!Delivery))
  <2>1. P!Follows(pl, stage, EndStages, f)
    BY DEF Begins
  <2>2. P!Follows(pl, stage, EndStages, flow) /\ past \in Seq(Seq(P!Delivery))
    BY DEF Hears
  <2>3. flow.stage \in Nat /\ flow.delivered \in Seq(P!Delivery)
    BY <2>2 DEF P!Follows, P!Ahead, P!Flows
  <2>4. stage \in Nat /\ stage <= MaxStage /\ MaxStage \in Nat /\ P!Numbering(pl, stage)
    BY WriterAssumption DEF WInv, IInv, TypeOK, Numbers
  <2>5. QED
    BY <2>1, <2>2, <2>3, <2>4
<1>2. P!Comes(pl, stage, EndStages, c)
  BY HeardComes
<1>3. flow' = P!FragmentHandler(f, c)
  BY HandledAlike
<1> HIDE DEF c
<1>4. P!Receives(pl, stage, EndStages, f, g, c)
  BY <1>1, <1>2, <1>3, P!FragmentHandlerSteps, ChannelAssumption, WriterAssumption
<1>5. /\ P!Follows(pl, stage, EndStages, g) /\ flow.stage <= g.stage /\ g.open
      /\ P!Grown(flow.delivered, g.delivered)
      /\ (P!Full(pl, f) /\ c.floor <= flow.stage) => P!Full(pl, g)
      /\ \A s \in DOMAIN flow.fragments :
            s <= g.stage \/ s \in DOMAIN g.fragments \/ g.completed
  BY <1>4 DEF P!Receives, Begins
<1>6. ASSUME owed # {}, past = <<>> PROVE P!Full(pl, g)
  <2>1. stageAck <= flow.stage
    BY <1>6, NoSkip
  <2>2. c.floor = wire[i].floor /\ wire[i].floor <= stageAck
    BY DEF c, Heard, Numbers
  <2>3. wire[i].floor \in Nat /\ stageAck \in Nat
    <3>1. wire \in Seq(Chunk) /\ stageAck \in Nat
      BY DEF WInv, IInv, TypeOK
    <3>2. wire[i] \in Chunk
      BY <3>1
    <3>3. QED
      BY <3>1, <3>2 DEF Chunk
  <2>4. c.floor <= flow.stage
    BY <1>1, <2>1, <2>2, <2>3
  <2>5. P!Full(pl, f)
    BY <1>6 DEF Hears, Begins
  <2>6. QED
    BY <1>5, <2>4, <2>5
<1>7. g.stage \in Nat /\ g.delivered \in Seq(P!Delivery)
  BY <1>5 DEF P!Follows, P!Ahead, P!Flows
<1>8. ASSUME NEW s \in Nat, Has(s) PROVE s <= g.stage \/ s \in DOMAIN g.fragments
  <2>1. CASE s <= flow.stage
    BY <1>1, <1>5, <1>7, <1>8, <2>1
  <2>2. CASE s \in DOMAIN flow.fragments
    <3>1. s \in 1..stage
      BY <1>1, <2>2 DEF P!Follows, P!Numbered
    <3>2. CASE g.completed
      <4>1. g.stage = stage
        BY <1>5, <3>2 DEF P!Follows, EndStages
      <4>2. QED
        BY <1>1, <3>1, <4>1
    <3>3. QED
      BY <1>5, <2>2, <3>2
  <2>3. QED
    BY <1>8, <2>1, <2>2 DEF Has
<1>9. \A n : Told(n) => Told(n)'
  <2> SUFFICES ASSUME NEW n, NEW j \in DOMAIN ReceivedNames, ReceivedNames[j] = n
               PROVE  Told(n)'
    BY DEF Told
  <2>1. j \in DOMAIN Handed(flow.delivered) /\ P!Name(Handed(flow.delivered)[j]) = n
    BY NamesAre
  <2>2. j \in DOMAIN Handed(g.delivered) /\ Handed(g.delivered)[j] = Handed(flow.delivered)[j]
    BY <1>1, <1>5, <1>7, <2>1, NamesGrow
  <2>3. Handed(flow.delivered)' = Handed(g.delivered)
    BY DEF Handed
  <2>4. ReceivedNames'[j] = n /\ j \in DOMAIN ReceivedNames'
    <3>1. ReceivedNames' = [k \in DOMAIN Handed(g.delivered) |-> P!Name(Handed(g.delivered)[k])]
      BY <2>3 DEF ReceivedNames, Handed, P!Name
    <3>2. QED
      BY <2>1, <2>2, <3>1
  <2>5. QED
    BY <2>4 DEF Told
<1>10. UNCHANGED <<stage, stageAck, reported, state, past, acks, owed>>
  BY DEF vars
<1>11. EndStages' = EndStages
  BY <1>10 DEF EndStages
<1>12. \A s \in reported : s \in Nat
  BY DEF WInv, IInv, TypeOK
<1>13. ASSUME past = <<>>, NEW s \in reported' PROVE Has(s)'
  <2>1. Has(s) /\ s \in Nat
    BY <1>10, <1>12, <1>13 DEF Hears
  <2>2. QED
    BY <1>8, <2>1 DEF Has
<1>14. ASSUME NEW a \in acks', ~a.negative PROVE Heeds(a)' /\ (past' = <<>> => Truthful(a)')
  <2>1. Heeds(a) /\ (past = <<>> => Truthful(a))
    BY <1>10, <1>14 DEF Hears
  <2>2. a.cum \in Nat /\ \A s \in R!ReportedReceived(a) : s \in Nat
    BY <1>1, <2>1 DEF Heeds
  <2>3. Heeds(a)'
    BY <1>10, <2>1 DEF Heeds
  <2>4. ASSUME past' = <<>> PROVE Truthful(a)'
    <3>1. Truthful(a)
      BY <1>10, <2>1, <2>4
    <3>2. a.cum <= g.stage
      BY <1>1, <1>5, <1>7, <2>2, <3>1 DEF Truthful
    <3>3. \A s \in R!ReportedReceived(a) : Has(s)'
      BY <1>8, <2>2, <3>1 DEF Truthful, Has
    <3>4. QED
      BY <3>2, <3>3 DEF Truthful
  <2>5. QED
    BY <2>3, <2>4
<1>15. P!Follows(pl, stage, EndStages, flow)'
  BY <1>5, <1>10, <1>11
<1>16. (owed' # {} /\ past' = <<>>) => P!Full(pl, flow)'
  BY <1>6, <1>10
<1>17. past' # <<>> => state' = "CLOSED" /\ \A n \in owed' : Told(n)'
  BY <1>9, <1>10 DEF Hears
<1>18. /\ flow'.open /\ Len(past') < MaxFlows
  BY <1>5, <1>10
<1>19. past' \in Seq(Seq(P!Delivery))
  BY <1>1, <1>10
<1>20. (Seq(Seq(P!Delivery)))' = Seq(Seq(P!Delivery)) /\ (R!Request)' = R!Request
  BY DEF P!Delivery, P!Part, R!Request
<1>21. Hears(pl)'
  BY <1>10, <1>13, <1>14, <1>15, <1>16, <1>17, <1>18, <1>19, <1>20 DEF Hears
<1>22. QED
  BY <1>5, <1>21

\* A step of the receiver keeps what is said of the sender.
LEMMA SenderKept ==
    ASSUME WInv, NEW pl, Numbers(pl), Owes(pl), UNCHANGED <<vars, owed>>
    PROVE  Numbers(pl)' /\ Owes(pl)' /\ Onward(pl, pl)
<1>1. stage \in Nat
  BY DEF WInv, IInv, TypeOK
<1>2. UNCHANGED <<connection, generation, messages, sent, stage, stageAck, wire, created, owed, state>>
  BY DEF vars
<1>3. (P!Numbering(pl, stage))'
  BY <1>2 DEF Numbers, P!Numbering
<1>4. Numbers(pl)'
  BY <1>2, <1>3 DEF Numbers, Same
<1>5. Owes(pl)'
  BY <1>2 DEF Owes
<1>6. Onward(pl, pl)
  BY <1>1, <1>2 DEF Onward
<1>7. QED
  BY <1>4, <1>5, <1>6

\* A chunk that no flow takes.
LEMMA UnheardHears ==
    ASSUME WInv, NEW pl, Numbers(pl), Owes(pl), Hears(pl),
           UNCHANGED <<vars, flow, past, acks, owed>>,
           request' \in R!Request, request'.pFlow = "flow" => flow.open, reading' \in Nat
    PROVE  Hears(pl)' /\ P!Grown(flow.delivered, flow'.delivered)
<1>1. Onward(pl, pl)
  BY SenderKept
<1>2. reported' \subseteq Nat /\ reported' = reported
  BY DEF vars, WInv, IInv, TypeOK
<1>3. Hears(pl)'
  BY <1>1, <1>2, SenderHears
<1>4. flow.delivered \in Seq(P!Delivery)
  BY DEF Hears, P!Follows, P!Ahead, P!Flows
<1>5. P!Grown(flow.delivered, flow'.delivered)
  BY <1>4 DEF P!Grown
<1>6. QED
  BY <1>3, <1>5

\* A 0x10 chunk, whether the flow is known, created or not;
LEMMA RequestHears ==
    ASSUME WInv, NEW pl, Numbers(pl), Owes(pl), Hears(pl), ReceiveRequest,
           UNCHANGED <<vars, acks, owed>>
    PROVE  Hears(pl)' /\ P!Grown(flow.delivered, flow'.delivered) /\ past' = past
<1>1. PICK i \in DOMAIN wire :
        /\ wire[i].floor = 0 /\ ~flow.open => Len(past) < MaxFlows
        /\ R!NormalRequest(Heard(wire[i]))
        /\ reading' = i
  BY DEF ReceiveRequest
<1> DEFINE c == Heard(wire[i])
           known == flow.open \/ c.header
<1>2. /\ request' = [pFlow |-> IF known THEN "flow" ELSE "FlowNull", stage |-> c.stage, floor |-> c.floor]
      /\ flow' = IF known THEN R!FragmentHandler(IF flow.open THEN flow ELSE R!NewFlow, c) ELSE flow
      /\ past' = past
  BY <1>1 DEF R!NormalRequest
<1>3. P!Comes(pl, stage, EndStages, c)
  BY HeardComes
<1>4. c.header => wire[i].floor = 0
  BY DEF Heard
<1>5. reading' \in Nat
  <2>1. wire \in Seq(Chunk)
    BY DEF WInv, IInv, TypeOK
  <2>2. QED
    BY <1>1, <2>1
<1>6. stage \in Nat
  BY DEF WInv, IInv, TypeOK
<1> HIDE DEF c
<1>7. c.stage \in Nat /\ c.floor \in Nat
  BY <1>3, <1>6 DEF P!Comes
<1>8. request' \in R!Request /\ (request'.pFlow = "flow" => known)
  BY <1>2, <1>7 DEF R!Request
<1>9. CASE ~known
  <2>1. flow' = flow /\ (request'.pFlow = "flow" => flow.open)
    BY <1>2, <1>8, <1>9
  <2>2. QED
    BY <1>2, <1>5, <1>8, <2>1, UnheardHears
<1>10. CASE flow.open
  <2>1. flow' = R!FragmentHandler(flow, c)
    BY <1>2, <1>10
  <2>2. Begins(pl, flow) /\ Len(past) < MaxFlows
    BY <1>10 DEF Begins, Hears
  <2>3. QED
    BY <1>2, <1>5, <1>8, <2>1, <2>2, ChunkHears DEF c
<1>11. CASE ~flow.open /\ c.header
  <2>1. flow' = R!FragmentHandler(R!NewFlow, c)
    BY <1>2, <1>11
  <2>2. Len(past) < MaxFlows
    <3>1. wire[i].floor = 0 /\ ~flow.open
      BY <1>4, <1>11
    <3>2. QED
      BY <1>1, <3>1
  <2>3. flow = P!NoFlow
    BY <1>11 DEF Hears
  <2>4. R!NewFlow = P!NewFlow
    BY ConstantsAlike
  <2>5. P!Follows(pl, stage, EndStages, P!NewFlow) /\ P!Full(pl, P!NewFlow)
    BY <1>6, P!NewFlowSteps, ChannelAssumption, WriterAssumption
  <2>6. Begins(pl, R!NewFlow)
    <3>1. /\ P!NewFlow.open /\ P!NewFlow.stage = P!NoFlow.stage
          /\ P!NewFlow.fragments = P!NoFlow.fragments /\ P!NewFlow.delivered = P!NoFlow.delivered
      BY DEF P!NewFlow, P!NoFlow
    <3>2. QED
      BY <2>3, <2>4, <2>5, <3>1 DEF Begins
  <2>7. QED
    BY <1>2, <1>5, <1>8, <2>1, <2>2, <2>6, ChunkHears DEF c
<1>12. QED
  BY <1>2, <1>9, <1>10, <1>11

\* a 0x11 chunk;
LEMMA FollowingHears ==
    ASSUME WInv, NEW pl, Numbers(pl), Owes(pl), Hears(pl), ReceiveFollowing,
           UNCHANGED <<vars, acks, owed>>
    PROVE  Hears(pl)' /\ P!Grown(flow.delivered, flow'.delivered) /\ past' = past
<1>1. /\ reading \in Nat /\ request \in R!Request /\ stage \in Nat /\ wire \in Seq(Chunk)
      /\ request.pFlow = "flow" => flow.open
  BY DEF Hears, WInv, IInv, TypeOK
<1>2. PICK i : i = reading + 1
  OBVIOUS
<1>3. i \in DOMAIN wire /\ reading' = i /\ reading' \in Nat
  BY <1>1, <1>2 DEF ReceiveFollowing, Continues
<1> DEFINE c == Heard(wire[i])
<1>4. /\ request' = [request EXCEPT !.stage = c.stage]
      /\ flow' = IF request.pFlow = "flow" THEN R!FragmentHandler(flow, c) ELSE flow
      /\ past' = past
  BY <1>2 DEF ReceiveFollowing, R!FollowingRequest
<1>5. P!Comes(pl, stage, EndStages, c)
  BY <1>3, HeardComes
<1> HIDE DEF c
<1>6. c.stage \in Nat
  BY <1>1, <1>5 DEF P!Comes
<1>7. request' \in R!Request /\ request'.pFlow = request.pFlow
  BY <1>1, <1>4, <1>6 DEF R!Request
<1>8. CASE request.pFlow = "flow"
  <2>1. flow' = R!FragmentHandler(flow, c)
    BY <1>4, <1>8
  <2>2. Begins(pl, flow) /\ Len(past) < MaxFlows
    BY <1>1, <1>8 DEF Begins, Hears
  <2>3. QED
    BY <1>3, <1>4, <1>7, <2>1, <2>2, ChunkHears DEF c
<1>9. CASE request.pFlow # "flow"
  <2>1. flow' = flow
    BY <1>4, <1>9
  <2>2. QED
    BY <1>1, <1>3, <1>4, <1>7, <2>1, UnheardHears
<1>10. QED
  BY <1>8, <1>9

\* The acknowledgment of a commit is true of the flow.
LEMMA AckTrue ==
    ASSUME NEW pl, stage \in Nat, Hears(pl), NEW a, a = R!Ack(flow)
    PROVE  Heeds(a) /\ Truthful(a)
<1>1. P!Follows(pl, stage, EndStages, flow)
  BY DEF Hears
<1>2. P!Ahead(flow) /\ flow.stage \in Nat /\ flow.stage <= stage
  BY <1>1 DEF P!Follows, P!Ahead, P!Flows
<1>3. R!ReportedReceived(a) = DOMAIN flow.fragments
  BY <1>2, P!CommitReads, AckAlike, ReadAlike, ChannelAssumption, WriterAssumption
<1>4. a.cum = flow.stage
  BY DEF R!Ack
<1>5. ASSUME NEW s \in DOMAIN flow.fragments PROVE s \in (flow.stage + 2)..stage
  <2>1. s \in 1..stage
    BY <1>1 DEF P!Follows, P!Numbered
  <2>2. s > flow.stage + 1
    BY <1>2 DEF P!Ahead
  <2>3. QED
    BY <1>2, <2>1, <2>2
<1>6. Heeds(a)
  BY <1>2, <1>3, <1>4, <1>5 DEF Heeds
<1>7. Truthful(a)
  BY <1>2, <1>3, <1>4 DEF Truthful, Has
<1>8. QED
  BY <1>6, <1>7

\* A flow that ends has handed over all that is owed.
LEMMA EndTold ==
    ASSUME WInv, NEW pl, Numbers(pl), Owes(pl), Hears(pl), flow.completed
    PROVE  state = "CLOSED" /\ \A n \in owed : Told(n)
<1>1. P!Follows(pl, stage, EndStages, flow) /\ past \in Seq(Seq(P!Delivery))
  BY DEF Hears
<1>2. state = "CLOSED" /\ flow.stage = stage
  BY <1>1 DEF P!Follows, EndStages
<1>3. messages = <<>>
  BY <1>2 DEF WInv, Plain, Numbers, Critical
<1>4. ASSUME NEW n \in owed, past = <<>> PROVE Told(n)
  <2>1. PICK s \in 1..stage : pl[s].message = n /\ ~pl[s].after /\ ~pl[s].empty
    <3>1. DOMAIN messages = {}
      BY <1>3
    <3>2. QED
      BY <3>1 DEF Owes
  <2>2. P!Full(pl, flow)
    BY <1>4 DEF Hears
  <2>3. PICK d \in DOMAIN flow.delivered : P!Name(flow.delivered[d]) = n
    BY <1>2, <2>1, <2>2 DEF P!Full
  <2>4. flow.delivered \in Seq(P!Delivery)
    BY <1>1 DEF P!Follows, P!Ahead, P!Flows
  <2>5. Joins(Handed(flow.delivered), FlattenSeq(past), Len(FlattenSeq(past)), flow.delivered,
              Len(flow.delivered))
    BY <1>1, <2>4, HandedType
  <2>6. d \in 1..Len(flow.delivered)
    BY <2>4
  <2>7. PICK j \in DOMAIN Handed(flow.delivered) : Handed(flow.delivered)[j] = flow.delivered[d]
    BY <2>5, <2>6 DEF Joins
  <2>8. QED
    BY <2>3, <2>7, NamesAre DEF Told
<1>5. ASSUME NEW n \in owed, past # <<>> PROVE Told(n)
  BY <1>5 DEF Hears
<1>6. QED
  BY <1>2, <1>4, <1>5

\* a commit, which may delete the flow.
LEMMA CommitHears ==
    ASSUME WInv, NEW pl, Numbers(pl), Owes(pl), Hears(pl), ReceiverCommit, UNCHANGED <<vars, owed>>
    PROVE  Hears(pl)' /\ ReceivedNames' = ReceivedNames
<1>1. /\ request' = [request EXCEPT !.pFlow = "NULL"]
      /\ ack' = IF request.pFlow = "flow" THEN R!Ack(flow) ELSE R!RejectedAck
      /\ IF flow.completed
         THEN flow' = R!NoFlow /\ past' = Append(past, flow.delivered)
         ELSE flow' = flow /\ past' = past
      /\ reading' = 0 /\ acks' = acks \cup {ack'}
  BY DEF ReceiverCommit, R!Commit
<1>2. /\ P!Follows(pl, stage, EndStages, flow) /\ past \in Seq(Seq(P!Delivery))
      /\ stage \in Nat /\ request \in R!Request
  BY DEF Hears, WInv, IInv, TypeOK
<1>3. flow.delivered \in Seq(P!Delivery)
  BY <1>2 DEF P!Follows, P!Ahead, P!Flows
<1>4. request' \in R!Request /\ request'.pFlow = "NULL" /\ reading' \in Nat
  BY <1>1, <1>2 DEF R!Request
<1>5. ~ack'.negative => Heeds(ack') /\ Truthful(ack')
  <2>1. CASE request.pFlow = "flow"
    <3>1. ack' = R!Ack(flow)
      BY <1>1, <2>1
    <3>2. PICK a : a = ack'
      OBVIOUS
    <3>3. QED
      BY <1>2, <3>1, <3>2, AckTrue
  <2>2. CASE request.pFlow # "flow"
    BY <1>1, <2>2 DEF R!RejectedAck
  <2>3. QED
    BY <2>1, <2>2
<1>7. \A a \in acks' : ~a.negative => Heeds(a) /\ (past = <<>> => Truthful(a))
  BY <1>1, <1>5 DEF Hears
<1>8. UNCHANGED <<stage, stageAck, reported, state, owed>>
  BY DEF vars
<1>9. EndStages' = EndStages
  BY <1>8 DEF EndStages
<1>10. (Seq(Seq(P!Delivery)))' = Seq(Seq(P!Delivery)) /\ (R!Request)' = R!Request /\ (P!NoFlow)' = P!NoFlow
  BY DEF P!Delivery, P!Part, R!Request, P!NoFlow, P!NewFlow
<1>11. CASE flow.completed
  <2>1. flow' = P!NoFlow /\ past' = Append(past, flow.delivered)
    BY <1>1, <1>11, ConstantsAlike
  <2>2. P!Follows(pl, stage, EndStages, P!NoFlow) /\ ~P!NoFlow.open /\ P!NoFlow.delivered = <<>>
    <3>1. ~P!NoFlow.open /\ P!NoFlow.delivered = <<>>
      BY DEF P!NoFlow, P!NewFlow
    <3>2. QED
      BY <1>2, <3>1, P!NewFlowSteps, ChannelAssumption, WriterAssumption
  <2>3. past' \in Seq(Seq(P!Delivery)) /\ past' # <<>>
    BY <1>2, <1>3, <2>1, AppendProperties
  <2>4. ReceivedNames' = ReceivedNames
    <3>1. FlattenSeq(past') = FlattenSeq(past) \o flow.delivered
          /\ FlattenSeq(past') \in Seq(P!Delivery)
      <4>1. /\ FlattenSeq(Append(past, flow.delivered)) = FlattenSeq(past) \o flow.delivered
            /\ FlattenSeq(past) \in Seq(P!Delivery)
        BY <1>2, <1>3, FlattenedOneMore
      <4>2. FlattenSeq(past) \o flow.delivered \in Seq(P!Delivery)
        BY <1>3, <4>1, ConcatProperties
      <4>3. QED
        BY <2>1, <4>1, <4>2
    <3>2. FlattenSeq(past') \o <<>> = FlattenSeq(past')
      BY <3>1, ConcatEmptySeq
    <3>3. FlattenSeq(past') \o flow'.delivered = FlattenSeq(past) \o flow.delivered
      BY <2>1, <2>2, <3>1, <3>2
    <3>4. QED
      BY <3>3 DEF ReceivedNames
  <2>5. state = "CLOSED" /\ \A n \in owed : Told(n)
    BY <1>11, EndTold
  <2>6. \A n \in owed' : Told(n)'
    BY <1>8, <2>4, <2>5 DEF Told
  <2>7. P!Follows(pl, stage, EndStages, flow)'
    BY <1>8, <1>9, <2>1, <2>2
  <2>8. \A a \in acks' : ~a.negative => Heeds(a)'
    BY <1>7, <1>8 DEF Heeds
  <2>9. Hears(pl)'
    BY <1>4, <1>8, <1>10, <2>1, <2>2, <2>3, <2>5, <2>6, <2>7, <2>8 DEF Hears
  <2>10. QED
    BY <2>4, <2>9
<1>12. CASE ~flow.completed
  <2>1. flow' = flow /\ past' = past
    BY <1>1, <1>12
  <2>2. ReceivedNames' = ReceivedNames
    BY <2>1 DEF ReceivedNames
  <2>3. \A n \in owed' : Told(n)' <=> Told(n)
    BY <2>2 DEF Told
  <2>4. P!Follows(pl, stage, EndStages, flow)'
    BY <1>2, <1>8, <1>9, <2>1
  <2>5. \A s : Has(s)' <=> Has(s)
    BY <2>1 DEF Has
  <2>6. \A a : (Heeds(a)' <=> Heeds(a)) /\ (Truthful(a)' <=> Truthful(a))
    BY <1>8, <2>1, <2>5 DEF Heeds, Truthful
  <2>7. (owed' # {} /\ past' = <<>>) => P!Full(pl, flow)'
    BY <1>8, <2>1 DEF Hears
  <2>8. /\ ~flow'.open => flow' = P!NoFlow
        /\ past' \in Seq(Seq(P!Delivery))
        /\ flow'.open => Len(past') < MaxFlows
        /\ past' = <<>> => \A s \in reported' : Has(s)'
        /\ past' # <<>> => state' = "CLOSED" /\ \A n \in owed' : Told(n)'
    BY <1>8, <2>1, <2>3, <2>5 DEF Hears
  <2>9. \A a \in acks' : ~a.negative => Heeds(a)' /\ (past' = <<>> => Truthful(a)')
    BY <1>7, <2>1, <2>6
  <2>10. Hears(pl)'
    BY <1>4, <1>10, <2>4, <2>7, <2>8, <2>9 DEF Hears
  <2>11. QED
    BY <2>2, <2>10
<1>13. QED
  BY <1>11, <1>12

-----------------------------------------------------------------------------
(* The invariant                                                           *)

\* The invariant: the writer's, and a numbering that both ends are in step with.
CInv == WInv /\ \E pl : Numbers(pl) /\ Owes(pl) /\ Hears(pl)

\* Nothing is numbered at first.
LEMMA InitCInv == ChannelInit => CInv
<1> SUFFICES ASSUME ChannelInit PROVE CInv
  OBVIOUS
<1> DEFINE pl == <<>>
<1>1. /\ Init /\ WInv /\ connection = "none" /\ generation = 0 /\ stage = 0 /\ stageAck = 0
      /\ wire = <<>> /\ sent = <<>> /\ messages = <<>> /\ created = 0 /\ reported = {}
  BY InitWInv, ChannelAssumption DEF ChannelInit, Init
<1>2. /\ flow = P!NoFlow /\ past = <<>> /\ reading = 0 /\ acks = {} /\ owed = {}
      /\ request = [pFlow |-> "NULL", stage |-> 0, floor |-> 0]
  BY ConstantsAlike DEF ChannelInit
<1>3. DOMAIN <<>> = {} /\ 1..0 = {} /\ <<>> \in Seq(Fragment) /\ Len(<<>>) = 0
      /\ <<>> \in Seq(Seq(P!Delivery)) /\ 0 <= MaxStage
  BY EmptySeq, WriterAssumption
<1>4. Numbers(pl)
  BY <1>1, <1>3 DEF Numbers, P!Numbering
<1>5. Owes(pl)
  BY <1>1, <1>2, <1>3 DEF Owes
<1>6. P!Follows(pl, stage, EndStages, flow) /\ P!Full(pl, flow)
  <2>1. stage \in Nat
    BY <1>1
  <2>2. QED
    BY <1>2, <2>1, P!NewFlowSteps, ChannelAssumption, WriterAssumption
<1>7. request \in R!Request /\ request.pFlow # "flow" /\ reading \in Nat
  BY <1>2 DEF R!Request
<1>8. ~P!NoFlow.open
  BY DEF P!NoFlow, P!NewFlow
<1>9. Hears(pl)
  BY <1>1, <1>2, <1>3, <1>6, <1>7, <1>8 DEF Hears
<1>10. QED
  BY <1>1, <1>4, <1>5, <1>9 DEF CInv

\* What the sender's step is to the writer.
LEMMA SenderIsWriter ==
    ASSUME WInv, NEW pl, Numbers(pl), Hears(pl),
           \/ \E r \in Reliabilities : SenderWrite(r)
           \/ SenderStep /\ UNCHANGED owed
           \/ (\E a \in acks : SenderAcknowledged(a)) /\ UNCHANGED owed
           \/ UNCHANGED <<vars, owed>>
    PROVE  /\ SenderMoves /\ WInv' /\ [Next]_vars
           /\ \A s \in reported' :
                 \/ s \in reported
                 \/ \E a \in acks : ~a.negative /\ (s <= a.cum \/ s \in R!ReportedReceived(a))
           /\ \/ owed' = owed
              \/ /\ state # "CLOSED"
                 /\ \E r \in Reliabilities :
                       MaySend(r) /\ owed' = IF r THEN owed \cup {created} ELSE owed
<1>1. ASSUME NEW r \in Reliabilities, SenderWrite(r)
      PROVE  /\ SenderMoves /\ Next /\ reported' = reported
             /\ state # "CLOSED" /\ MaySend(r) /\ owed' = IF r THEN owed \cup {created} ELSE owed
  BY <1>1 DEF SenderMoves, SenderWrite, Write, Next
<1>2. ASSUME SenderStep, UNCHANGED owed PROVE SenderMoves /\ Next /\ reported' = reported
  <2>1. SenderMoves
    BY <1>2 DEF SenderMoves
  <2>2. Next
    BY <1>2 DEF SenderStep, Next
  <2>3. reported' = reported
    <3>1. WriteRaw => reported' = reported
      BY DEF WriteRaw
    <3>2. ASSUME NEW r \in Reliabilities, Close(r) PROVE reported' = reported
      BY <3>2 DEF Close
    <3>3. ASSUME NEW full \in BOOLEAN, Flush(full) PROVE reported' = reported
      BY <3>3 DEF Flush
    <3>4. ASSUME Manage PROVE reported' = reported
      <4>1. ASSUME NEW elapsed \in BOOLEAN, NEW r \in Reliabilities, ManageFail(elapsed, r)
            PROVE  FALSE
        <5>1. generation < MaxGenerations
          BY <4>1 DEF ManageFail, Renew
        <5>2. QED
          BY <5>1, ChannelAssumption DEF Numbers
      <4>2. QED
        BY <3>4, <4>1 DEF Manage, ManageQuiet, ManageRaise, ManageConsumed
    <3>5. BandAdvance => reported' = reported
      BY DEF BandAdvance
    <3>6. QED
      BY <1>2, <3>1, <3>2, <3>3, <3>4, <3>5 DEF SenderStep
  <2>4. QED
    BY <2>1, <2>2, <2>3
<1>3. ASSUME NEW a \in acks, SenderAcknowledged(a), UNCHANGED owed
      PROVE  /\ SenderMoves /\ Next
             /\ \A s \in reported' : \/ s \in reported
                                     \/ ~a.negative /\ (s <= a.cum \/ s \in R!ReportedReceived(a))
  <2>1. ~a.negative /\ Usable
    BY <1>3 DEF SenderAcknowledged
  <2>2. Heeds(a)
    BY <2>1 DEF Hears
  <2>3. SenderMoves
    BY <1>3, <2>2 DEF SenderMoves
  <2>4. PICK new \in 0..(stage + 1) : IsNewAck(ReadAs(a), new) /\ Acknowledge(ReadAs(a), new)
    BY <1>3 DEF SenderAcknowledged, ReadAs
  <2>5. ReadAs(a) \in Acknowledgments
    <3>1. stage \in Nat
      BY DEF WInv, IInv, TypeOK
    <3>2. a.cum \in 0..(stage + 1) /\ R!ReportedReceived(a) \in SUBSET ((a.cum + 2)..(stage + 1))
      BY <2>2, <3>1 DEF Heeds
    <3>3. ReadAs(a) \in [cum: {a.cum}, recv: SUBSET ((a.cum + 2)..(stage + 1))]
      BY <3>2 DEF ReadAs
    <3>4. QED
      BY <3>2, <3>3 DEF Acknowledgments
  <2>6. connection # "running"
    BY DEF Numbers
  <2>7. Acknowledgment
    BY <1>3, <2>1, <2>4, <2>5, <2>6 DEF Acknowledgment, SenderAcknowledged
  <2>8. reported' = reported \cup {s \in 1..stage : s <= a.cum \/ s \in R!ReportedReceived(a)}
    <3>1. reported' = reported \cup {s \in 1..stage : s <= ReadAs(a).cum \/ s \in ReadAs(a).recv}
      BY <2>4 DEF Acknowledge
    <3>2. QED
      BY <3>1 DEF ReadAs
  <2>9. QED
    BY <2>1, <2>3, <2>7, <2>8 DEF Next
<1>4. ASSUME UNCHANGED <<vars, owed>> PROVE SenderMoves /\ reported' = reported
  BY <1>4 DEF SenderMoves, vars
<1>5. WInv'
  BY <1>1, <1>2, <1>3, <1>4, NextWInv
<1>6. [Next]_vars
  BY <1>1, <1>2, <1>3
<1>7. QED
  BY <1>1, <1>2, <1>3, <1>4, <1>5, <1>6

\* The sender's steps keep it.
LEMMA SenderCInv ==
    ASSUME CInv, ~Mixing, UNCHANGED <<receiverVars, acks>>,
           \/ \E r \in Reliabilities : SenderWrite(r)
           \/ SenderStep /\ UNCHANGED owed
           \/ (\E a \in acks : SenderAcknowledged(a)) /\ UNCHANGED owed
           \/ UNCHANGED <<vars, owed>>
    PROVE  CInv'
<1>1. WInv
  BY DEF CInv
<1>2. PICK pl : Numbers(pl) /\ Owes(pl) /\ Hears(pl)
  BY DEF CInv
<1>3. /\ SenderMoves /\ WInv'
      /\ \A s \in reported' :
            \/ s \in reported
            \/ \E a \in acks : ~a.negative /\ (s <= a.cum \/ s \in R!ReportedReceived(a))
      /\ \/ owed' = owed
         \/ /\ state # "CLOSED"
            /\ \E r \in Reliabilities :
                  MaySend(r) /\ owed' = IF r THEN owed \cup {created} ELSE owed
  BY <1>1, <1>2, SenderIsWriter
<1>4. PICK pl2 : Numbers(pl2)' /\ Owes(pl2)' /\ Onward(pl, pl2)
  BY <1>1, <1>2, <1>3, SenderNumbers
<1>5. UNCHANGED <<flow, past, acks, request, reading>>
  BY DEF receiverVars
<1>6. request' \in R!Request /\ (request'.pFlow = "flow" => flow.open) /\ reading' \in Nat
  BY <1>2, <1>5 DEF Hears
<1>7. reported' \subseteq Nat
  BY <1>3 DEF WInv, IInv, TypeOK
<1>8. past # <<>> => owed' = owed
  BY <1>2, <1>3 DEF Hears
<1>9. owed' # {} => owed # {} \/ stage = 0
  <2> SUFFICES ASSUME owed' # {}, owed = {} PROVE stage = 0
    OBVIOUS
  <2>1. created = 0
    BY <1>3 DEF MaySend
  <2>2. stage \in Nat
    BY <1>1 DEF WInv, IInv, TypeOK
  <2>3. ASSUME stage # 0 PROVE FALSE
    <3>1. stage \in 1..stage /\ pl \in Seq(Fragment) /\ Len(pl) = stage
      BY <1>2, <2>2, <2>3 DEF Numbers
    <3>2. pl[stage].message < created /\ pl[stage] \in Fragment
      BY <1>2, <3>1 DEF Numbers
    <3>3. pl[stage].message \in Nat
      BY <3>2 DEF Fragment
    <3>4. QED
      BY <2>1, <3>2, <3>3
  <2>4. QED
    BY <2>3
<1>10. Hears(pl2)'
  BY <1>2, <1>3, <1>4, <1>5, <1>6, <1>7, <1>8, <1>9, SenderHears
<1>11. QED
  BY <1>3, <1>4, <1>10 DEF CInv

\* What the receiver's steps do: they keep a numbering, and hand over no less.
LEMMA ReceiverKeeps ==
    ASSUME WInv, NEW pl, Numbers(pl), Owes(pl), Hears(pl), UNCHANGED vars,
           \/ ReceiveRequest /\ UNCHANGED <<acks, owed>>
           \/ ReceiveFollowing /\ UNCHANGED <<acks, owed>>
           \/ ReceiverCommit /\ UNCHANGED owed
    PROVE  /\ WInv' /\ Numbers(pl)' /\ Owes(pl)' /\ Hears(pl)'
           /\ \/ P!Grown(flow.delivered, flow'.delivered) /\ past' = past
              \/ ReceivedNames' = ReceivedNames
<1>1. UNCHANGED <<vars, owed>>
  OBVIOUS
<1>2. Numbers(pl)' /\ Owes(pl)'
  BY <1>1, SenderKept
<1>3. WInv'
  BY NextWInv
<1>4. CASE ReceiveRequest /\ UNCHANGED acks
  BY <1>1, <1>2, <1>3, <1>4, RequestHears
<1>5. CASE ReceiveFollowing /\ UNCHANGED acks
  BY <1>1, <1>2, <1>3, <1>5, FollowingHears
<1>6. CASE ReceiverCommit
  BY <1>1, <1>2, <1>3, <1>6, CommitHears
<1>7. QED
  BY <1>4, <1>5, <1>6

\* Every step keeps it.
LEMMA NextCInv ==
    ASSUME CInv, ~Mixing, [ChannelNext]_channelVars
    PROVE  CInv'
<1>1. CASE \/ ReceiveRequest /\ UNCHANGED <<vars, acks, owed>>
           \/ ReceiveFollowing /\ UNCHANGED <<vars, acks, owed>>
           \/ ReceiverCommit /\ UNCHANGED <<vars, owed>>
  <2>1. WInv
    BY DEF CInv
  <2>2. PICK pl : Numbers(pl) /\ Owes(pl) /\ Hears(pl)
    BY DEF CInv
  <2>3. WInv' /\ Numbers(pl)' /\ Owes(pl)' /\ Hears(pl)'
    BY <1>1, <2>1, <2>2, ReceiverKeeps
  <2>4. QED
    BY <2>3 DEF CInv
<1>2. CASE /\ UNCHANGED <<receiverVars, acks>>
           /\ \/ \E r \in Reliabilities : SenderWrite(r)
              \/ SenderStep /\ UNCHANGED owed
              \/ (\E a \in acks : SenderAcknowledged(a)) /\ UNCHANGED owed
              \/ UNCHANGED <<vars, owed>>
  BY <1>2, SenderCInv
<1>3. QED
  BY <1>1, <1>2 DEF ChannelNext, channelVars

\* What the writer forgot of a reliable message was received.
LEMMA Forgotten == CInv => ForgottenWasReceived
<1> SUFFICES ASSUME CInv, NEW i \in DOMAIN wire,
                    wire[i].message \in owed, ~wire[i].after, wire[i].stage <= stageAck
             PROVE  Told(wire[i].message) \/ wire[i].stage \in DOMAIN flow.fragments
  BY DEF ForgottenWasReceived, Told
<1>1. WInv
  BY DEF CInv
<1>2. PICK pl : Numbers(pl) /\ Owes(pl) /\ Hears(pl)
  BY DEF CInv
<1>3. PICK s : s = wire[i].stage
  OBVIOUS
<1>4. s \in 1..stage /\ Same(wire[i], pl[s]) /\ stage \in Nat /\ generation = 0
  BY <1>1, <1>2, <1>3 DEF Numbers, WInv, IInv, TypeOK
<1>5. pl[s].message \in owed /\ ~pl[s].after /\ pl[s].message = wire[i].message
  BY <1>4 DEF Same
<1>6. CASE past # <<>>
  BY <1>2, <1>6 DEF Hears
<1>7. CASE past = <<>>
  <2>1. pl[s].reliable
    BY <1>2, <1>4, <1>5 DEF Owes
  <2>2. s \in reported
    <3>1. wire[i].reliable
      BY <1>4, <2>1 DEF Same
    <3>2. AckedWasReported
      BY <1>1, WInvAccounts DEF AccountsRight
    <3>3. QED
      BY <1>3, <1>4, <3>1, <3>2 DEF AckedWasReported
  <2>3. Has(s)
    BY <1>2, <1>7, <2>2 DEF Hears
  <2>4. ASSUME s <= flow.stage PROVE Told(pl[s].message)
    <3>1. P!Full(pl, flow) /\ P!Follows(pl, stage, EndStages, flow) /\ past \in Seq(Seq(P!Delivery))
      BY <1>2, <1>5, <1>7 DEF Hears
    <3>2. flow.stage \in Nat /\ flow.delivered \in Seq(P!Delivery)
      BY <3>1 DEF P!Follows, P!Ahead, P!Flows
    <3>3. s \in 1..flow.stage
      BY <1>4, <2>4, <3>2
    <3>4. ~pl[s].empty
      <4>1. pl[s].message \in Nat
        <5>1. pl \in Seq(Fragment) /\ Len(pl) = stage
          BY <1>2 DEF Numbers
        <5>2. pl[s] \in Fragment
          BY <1>4, <5>1
        <5>3. QED
          BY <5>2 DEF Fragment
      <4>2. ASSUME NEW k \in DOMAIN messages, messages[k].name = pl[s].message PROVE FALSE
        <5>1. pl[s].message < messages[k].name
          BY <1>2, <1>4 DEF Numbers
        <5>2. QED
          BY <4>1, <4>2, <5>1
      <4>3. PICK t \in 1..stage : pl[t].message = pl[s].message /\ ~pl[t].after /\ ~pl[t].empty
        BY <1>2, <1>5, <4>2 DEF Owes
      <4>4. P!Numbering(pl, stage)
        BY <1>2 DEF Numbers
      <4>5. ~(s < t) /\ ~(t < s)
        <5>1. s < t => pl[s].message < pl[t].message
          BY <1>4, <1>5, <4>3, <4>4 DEF P!Numbering
        <5>2. t < s => pl[t].message < pl[s].message
          BY <1>4, <1>5, <4>3, <4>4 DEF P!Numbering
        <5>3. QED
          BY <4>1, <4>3, <5>1, <5>2
      <4>6. s = t
        BY <1>4, <4>3, <4>5
      <4>7. QED
        BY <4>3, <4>6
    <3>5. PICK d \in DOMAIN flow.delivered : P!Name(flow.delivered[d]) = pl[s].message
      BY <1>5, <3>1, <3>3, <3>4 DEF P!Full
    <3>6. Joins(Handed(flow.delivered), FlattenSeq(past), Len(FlattenSeq(past)), flow.delivered,
                Len(flow.delivered))
      BY <3>1, <3>2, HandedType
    <3>7. d \in 1..Len(flow.delivered)
      BY <3>2
    <3>8. PICK j \in DOMAIN Handed(flow.delivered) : Handed(flow.delivered)[j] = flow.delivered[d]
      BY <3>6, <3>7 DEF Joins
    <3>9. QED
      BY <3>5, <3>8, NamesAre DEF Told
  <2>5. QED
    BY <1>3, <1>5, <2>3, <2>4 DEF Has
<1>8. QED
  BY <1>6, <1>7

\* In every behaviour of an application that sends all its messages alike, the
\* writer forgets the last fragment of a reliable message only when the receiver
\* handed the message over or holds that fragment, however many flows the receiver
\* created (RTMFPWriter::acknowledgment, RTMFPFlow::commit).
THEOREM ForgottenCorrect == ~Mixing => (ChannelSpec => []ForgottenWasReceived)
<1> SUFFICES ASSUME ~Mixing PROVE ChannelSpec => []ForgottenWasReceived
  OBVIOUS
<1>1. ChannelInit => CInv
  BY InitCInv
<1>2. CInv /\ [ChannelNext]_channelVars => CInv'
  BY NextCInv
<1>3. CInv => ForgottenWasReceived
  BY Forgotten
<1>4. QED
  BY <1>1, <1>2, <1>3, PTL DEF ChannelSpec

-----------------------------------------------------------------------------
(* The channel that the two ends implement                                 *)

\* What was handed over is what the flow handed over: messages that were
\* written, in their order.
Ordered(pl) ==
    /\ ReceivedNames \in Seq(Nat) /\ Len(ReceivedNames) = Len(flow.delivered)
    /\ \A i \in 1..Len(ReceivedNames) :
          /\ ReceivedNames[i] = P!Name(flow.delivered[i])
          /\ \E s \in 1..flow.stage : ~pl[s].after /\ ReceivedNames[i] = pl[s].message
          /\ ReceivedNames[i] \in 0..(created - 1)
          /\ \A j \in 1..(i - 1) : ReceivedNames[j] < ReceivedNames[i]
    /\ flow.stage \in Nat /\ flow.stage <= stage

\* It is so while no flow was deleted.
LEMMA NamesInOrder ==
    ASSUME WInv, NEW pl, Numbers(pl), Hears(pl), past = <<>>
    PROVE  Ordered(pl)
<1>1. P!Follows(pl, stage, EndStages, flow)
  BY DEF Hears
<1>2. /\ flow.stage \in Nat /\ flow.stage <= stage /\ stage \in Nat /\ created \in Nat
      /\ flow.delivered \in Seq(P!Delivery) /\ P!InOrder(pl, flow.stage, flow.delivered)
  BY <1>1 DEF P!Follows, P!Ahead, P!Flows, P!InStep, WInv, IInv, TypeOK
<1> DEFINE ds == flow.delivered
           n == Len(ds)
<1>3. n \in Nat /\ DOMAIN ds = 1..n
  BY <1>2
<1>4. Handed(ds) = ds
  <2>1. FlattenSeq(<<>>) = <<>>
    BY DEF FlattenSeq
  <2>2. <<>> \o ds = ds
    BY <1>2, ConcatEmptySeq
  <2>3. QED
    BY <2>1, <2>2 DEF Handed
<1>5. ReceivedNames = [i \in 1..n |-> P!Name(ds[i])]
  BY <1>3, <1>4 DEF ReceivedNames, Handed, P!Name
<1>6. ASSUME NEW i \in 1..n
      PROVE  /\ \E s \in 1..flow.stage : ~pl[s].after /\ P!Name(ds[i]) = pl[s].message
             /\ P!Name(ds[i]) \in 0..(created - 1) /\ P!Name(ds[i]) \in Nat
             /\ \A j \in 1..(i - 1) : P!Name(ds[j]) < P!Name(ds[i])
  <2>1. PICK s \in 1..flow.stage : ~pl[s].after /\ P!Name(ds[i]) = pl[s].message
    BY <1>2, <1>3 DEF P!InOrder
  <2>2. s \in 1..stage /\ pl \in Seq(Fragment) /\ Len(pl) = stage
    BY <1>2, <2>1 DEF Numbers
  <2>3. pl[s].message < created /\ pl[s] \in Fragment
    BY <2>2 DEF Numbers
  <2>4. pl[s].message \in Nat
    BY <2>3 DEF Fragment
  <2>5. P!Name(ds[i]) \in 0..(created - 1) /\ P!Name(ds[i]) \in Nat
    BY <1>2, <2>1, <2>3, <2>4
  <2>6. ASSUME NEW j \in 1..(i - 1) PROVE P!Name(ds[j]) < P!Name(ds[i])
    <3>1. j \in 1..n /\ j < i
      BY <1>3
    <3>2. QED
      BY <1>2, <1>3, <3>1 DEF P!InOrder
  <2>7. QED
    BY <2>1, <2>5, <2>6
<1> HIDE DEF n, ds
<1>7. ReceivedNames \in [1..n -> Nat]
  BY <1>5, <1>6
<1>8. ReceivedNames \in Seq(Nat) /\ Len(ReceivedNames) = n
  BY <1>3, <1>7
<1>9. ASSUME NEW i \in 1..n
      PROVE  /\ ReceivedNames[i] = P!Name(ds[i])
             /\ \A j \in 1..(i - 1) : ReceivedNames[j] = P!Name(ds[j])
  <2>1. \A j \in 1..(i - 1) : j \in 1..n
    BY <1>3
  <2>2. QED
    BY <1>5, <2>1
<1>10. QED
  BY <1>2, <1>6, <1>8, <1>9 DEF n, ds, Ordered

\* The same as a formula, which holds after a step as before it.
OrderedAll == \A pl : (WInv /\ Numbers(pl) /\ Hears(pl) /\ past = <<>>) => Ordered(pl)

\* It holds.
LEMMA NamesOrdered == OrderedAll
BY NamesInOrder DEF OrderedAll

\* A receiver that hands over more receives, as the channel promises.
LEMMA HandsOver ==
    ASSUME WInv, WInv', NEW pl, Numbers(pl), Hears(pl), UNCHANGED <<vars, owed>>,
           Numbers(pl)', Owes(pl)', Hears(pl)', past = <<>>, past' = <<>>,
           P!Grown(flow.delivered, flow'.delivered)
    PROVE  [C!Receive]_(C!vars)
<1>1. UNCHANGED <<stage, created, messages, owed>>
  BY DEF vars
<1>2. PICK got : got = ReceivedNames
  OBVIOUS
<1>3. PICK all : all = ReceivedNames'
  OBVIOUS
<1>4. PICK n : n = Len(got)
  OBVIOUS
<1>5. PICK m : m = Len(all)
  OBVIOUS
<1>6. /\ got \in Seq(Nat) /\ n = Len(flow.delivered) /\ n \in Nat
      /\ \A i \in 1..n : got[i] = P!Name(flow.delivered[i])
  BY <1>2, <1>4, NamesInOrder DEF Ordered
<1>7. Ordered(pl)'
  <2>1. OrderedAll'
    BY NamesOrdered, PTL
  <2>2. QED
    BY <2>1 DEF OrderedAll
<1>8. /\ all \in Seq(Nat) /\ m = Len(flow'.delivered) /\ m \in Nat
      /\ \A i \in 1..m :
            /\ all[i] = P!Name(flow'.delivered[i])
            /\ \E s \in 1..flow'.stage : ~pl[s].after /\ all[i] = pl[s].message
            /\ all[i] \in 0..(created - 1)
            /\ \A j \in 1..(i - 1) : all[j] < all[i]
      /\ flow'.stage \in Nat /\ flow'.stage <= stage
  BY <1>1, <1>3, <1>5, <1>7 DEF Ordered
<1>9. n <= m /\ \A i \in 1..n : all[i] = got[i]
  <2>1. n <= m
    BY <1>6, <1>8 DEF P!Grown
  <2>2. ASSUME NEW i \in 1..n PROVE all[i] = got[i]
    <3>1. flow.delivered \in Seq(P!Delivery)
      BY DEF Hears, P!Follows, P!Ahead, P!Flows
    <3>2. i \in DOMAIN flow.delivered /\ i \in 1..m
      BY <1>6, <1>8, <2>1, <3>1
    <3>3. flow'.delivered[i] = flow.delivered[i]
      BY <3>2 DEF P!Grown
    <3>4. QED
      BY <1>6, <1>8, <3>2, <3>3
  <2>3. QED
    BY <2>1, <2>2
<1>10. SubSeq(all, 1, n) = got
  <2>1. ASSUME NEW i \in 1..n PROVE all[i] \in Nat
    <3>1. got \in Seq(Nat) /\ n = Len(got)
      BY <1>4, <1>6
    <3>2. got[i] \in Nat
      BY <3>1
    <3>3. QED
      BY <1>9, <3>2
  <2>2. /\ SubSeq(all, 1, n) \in Seq(Nat)
        /\ Len(SubSeq(all, 1, n)) = IF 1 <= n THEN n - 1 + 1 ELSE 0
        /\ \A i \in 1..(n - 1 + 1) : SubSeq(all, 1, n)[i] = all[1 + i - 1]
    BY <1>6, <2>1, SubSeqProperties
  <2>3. PICK u : u = SubSeq(all, 1, n)
    OBVIOUS
  <2>4. u \in Seq(Nat) /\ Len(u) = n
    BY <1>6, <2>2, <2>3
  <2>5. ASSUME NEW i \in 1..n PROVE u[i] = got[i]
    <3>1. i \in 1..(n - 1 + 1) /\ 1 + i - 1 = i
      BY <1>6
    <3>2. QED
      BY <1>9, <2>2, <2>3, <3>1
  <2>6. u = got
    BY <1>4, <1>6, <2>4, <2>5, SeqEqual
  <2>7. QED
    BY <2>3, <2>6
<1>11. CASE m = n
  <2>1. all = got
    BY <1>4, <1>5, <1>6, <1>8, <1>9, <1>11, SeqEqual
  <2>2. UNCHANGED C!vars
    BY <1>1, <1>2, <1>3, <2>1 DEF C!vars
  <2>3. QED
    BY <2>2
<1>12. CASE m # n
  <2>1. m > n
    BY <1>6, <1>8, <1>9, <1>12
  <2>2. ASSUME NEW i \in (n + 1)..m
        PROVE  /\ all[i] \in 0..(created - 1)
               /\ \A j \in 1..(i - 1) : all[j] < all[i]
               /\ \A x \in owed : x < all[i] => \E j \in 1..i : all[j] = x
    <3>1. i \in 1..m /\ i \in Nat
      BY <1>6, <1>8
    <3>2. PICK s \in 1..flow'.stage : ~pl[s].after /\ all[i] = pl[s].message
      BY <1>8, <3>1
    <3>3. s \in 1..stage /\ stage \in Nat
      <4>1. stage \in Nat
        BY DEF WInv, IInv, TypeOK
      <4>2. QED
        BY <1>8, <3>2, <4>1
    <3>4. \A t \in 1..stage : pl[t].message \in Nat
      <4>1. pl \in Seq(Fragment) /\ Len(pl) = stage
        BY DEF Numbers
      <4>2. \A t \in 1..stage : pl[t] \in Fragment
        BY <4>1
      <4>3. QED
        BY <4>2 DEF Fragment
    <3>5. ASSUME NEW x \in owed, x < all[i] PROVE \E j \in 1..i : all[j] = x
      <4>1. owed' # {} /\ x \in owed' /\ x \in Nat
        BY <1>1, <3>5 DEF Owes
      <4>2. ASSUME NEW k \in DOMAIN messages, messages[k].name = x PROVE FALSE
        <5>1. pl[s].message < messages[k].name
          BY <3>3 DEF Numbers
        <5>2. QED
          BY <3>2, <3>3, <3>4, <3>5, <4>1, <4>2, <5>1
      <4>3. PICK t \in 1..stage : pl[t].message = x /\ ~pl[t].after /\ ~pl[t].empty
        BY <1>1, <4>1, <4>2 DEF Owes
      <4>4. ~(s < t)
        <5>1. P!Numbering(pl, stage)
          BY DEF Numbers
        <5>2. s < t => pl[s].message < pl[t].message
          BY <3>2, <3>3, <5>1 DEF P!Numbering
        <5>3. QED
          BY <3>2, <3>3, <3>4, <3>5, <4>1, <4>3, <5>2
      <4>5. t \in 1..flow'.stage
        BY <1>8, <3>2, <4>4
      <4>6. P!Full(pl, flow')
        BY <4>1 DEF Hears
      <4>7. PICK d \in DOMAIN flow'.delivered : P!Name(flow'.delivered[d]) = x
        BY <4>3, <4>5, <4>6 DEF P!Full
      <4>8. d \in 1..m
        <5>1. flow'.delivered \in Seq(P!Delivery)
          <6>1. (Seq(P!Delivery))' = Seq(P!Delivery)
            BY DEF P!Delivery, P!Part
          <6>2. QED
            BY <6>1 DEF Hears, P!Follows, P!Ahead, P!Flows
        <5>2. QED
          BY <1>8, <4>7, <5>1
      <4>9. all[d] = x
        BY <1>8, <4>7, <4>8
      <4>10. d \in 1..i
        <5>1. ASSUME d > i PROVE FALSE
          <6>1. i \in 1..(d - 1)
            BY <3>1, <4>8, <5>1
          <6>2. all[i] < all[d]
            BY <1>8, <4>8, <6>1
          <6>3. QED
            BY <3>2, <3>3, <3>4, <3>5, <4>1, <4>9, <6>2
        <5>2. QED
          BY <3>1, <4>8, <5>1
      <4>11. QED
        BY <4>9, <4>10
    <3>6. QED
      BY <1>8, <3>1, <3>5
  <2>3. C!GoesOn(got, all)
    BY <1>4, <1>5, <1>10, <2>1, <2>2 DEF C!GoesOn
  <2>4. C!Receive
    BY <1>1, <1>2, <1>3, <2>3 DEF C!Receive
  <2>5. QED
    BY <2>4
<1>13. QED
  BY <1>11, <1>12

\* What the sender does, the channel promises.
LEMMA SenderPromised ==
    ASSUME WInv, NEW pl, Numbers(pl), UNCHANGED <<receiverVars, acks>>,
           \/ \E r \in Reliabilities : SenderWrite(r)
           \/ SenderStep /\ UNCHANGED owed
           \/ (\E a \in acks : SenderAcknowledged(a)) /\ UNCHANGED owed
           \/ UNCHANGED <<vars, owed>>
    PROVE  [C!Next]_(C!vars)
<1>1. ReceivedNames' = ReceivedNames
  <2>1. UNCHANGED <<flow, past>>
    BY DEF receiverVars
  <2>2. QED
    BY <2>1 DEF ReceivedNames
<1>2. ASSUME NEW r \in Reliabilities, SenderWrite(r) PROVE C!Next
  <2>1. created' = created + 1 /\ owed' = IF r THEN owed \cup {created} ELSE owed
    BY <1>2 DEF SenderWrite, Write
  <2>2. r \in BOOLEAN
    BY WriterAssumption
  <2>3. C!Write(r)
    BY <1>1, <2>1 DEF C!Write
  <2>4. QED
    BY <2>2, <2>3 DEF C!Next
<1>3. ASSUME created' = created + 1, owed' = owed PROVE C!Next
  BY <1>1, <1>3 DEF C!Next, C!Write
<1>4. ASSUME created' = created, owed' = owed PROVE UNCHANGED C!vars
  BY <1>1, <1>4 DEF C!vars
<1>5. ASSUME SenderStep PROVE created' = created \/ created' = created + 1
  <2>1. WriteRaw => created' = created + 1
    BY DEF WriteRaw
  <2>2. ASSUME NEW r \in Reliabilities, Close(r)
        PROVE  created' = created \/ created' = created + 1
    BY <2>2 DEF Close
  <2>3. ASSUME NEW full \in BOOLEAN, Flush(full) PROVE created' = created
    BY <2>3 DEF Flush
  <2>4. ASSUME Manage PROVE created' = created
    <3>1. ASSUME NEW elapsed \in BOOLEAN, NEW r \in Reliabilities, ManageFail(elapsed, r)
          PROVE  FALSE
      <4>1. generation < MaxGenerations
        BY <3>1 DEF ManageFail, Renew
      <4>2. QED
        BY <4>1, ChannelAssumption DEF Numbers
    <3>2. QED
      BY <2>4, <3>1 DEF Manage, ManageQuiet, ManageRaise, ManageConsumed
  <2>5. BandAdvance => created' = created
    BY DEF BandAdvance
  <2>6. QED
    BY <1>5, <2>1, <2>2, <2>3, <2>4, <2>5 DEF SenderStep
<1>6. ASSUME NEW a \in acks, SenderAcknowledged(a) PROVE created' = created
  BY <1>6 DEF SenderAcknowledged
<1>7. UNCHANGED vars => created' = created
  BY DEF vars
<1>8. QED
  BY <1>2, <1>3, <1>4, <1>5, <1>6, <1>7

\* The writer is closed by the application only.
Open == ~Closing => state # "CLOSED"

\* One left open stays so.
LEMMA OpenKept ==
    ASSUME CInv, Open, [ChannelNext]_channelVars
    PROVE  Open'
<1> SUFFICES ASSUME ~Closing PROVE state' = state
  BY DEF Open
<1>1. ASSUME NEW r \in Reliabilities, SenderWrite(r) PROVE state' = state
  BY <1>1 DEF SenderWrite, Write
<1>2. ASSUME SenderStep PROVE state' = state
  <2>1. WriteRaw => state' = state
    BY DEF WriteRaw
  <2>2. ASSUME NEW full \in BOOLEAN, Flush(full) PROVE state' = state
    BY <2>2 DEF Flush
  <2>3. ASSUME Manage PROVE state' = state
    <3>1. ASSUME NEW elapsed \in BOOLEAN, NEW r \in Reliabilities, ManageFail(elapsed, r)
          PROVE  state' = state
      BY <3>1 DEF ManageFail, Renew
    <3>2. QED
      BY <2>3, <3>1 DEF Manage, ManageQuiet, ManageRaise, ManageConsumed
  <2>4. BandAdvance => state' = state
    BY DEF BandAdvance
  <2>5. QED
    BY <1>2, <2>1, <2>2, <2>3, <2>4 DEF SenderStep
<1>3. ASSUME NEW a \in acks, SenderAcknowledged(a) PROVE state' = state
  BY <1>3 DEF SenderAcknowledged
<1>4. UNCHANGED vars => state' = state
  BY DEF vars
<1>5. QED
  BY <1>1, <1>2, <1>3, <1>4 DEF ChannelNext, channelVars

\* The receiver creates the flow once, or never has to delete it.
OneLife == MaxFlows <= 1 \/ ~Closing

\* What either end does, while the flow has one life.
LEMMA StepPromised ==
    ASSUME CInv, Open, ~Mixing, OneLife, [ChannelNext]_channelVars
    PROVE  [C!Next]_(C!vars)
<1>1. WInv
  BY DEF CInv
<1>2. PICK pl : Numbers(pl) /\ Owes(pl) /\ Hears(pl)
  BY DEF CInv
<1>3. CASE \/ ReceiveRequest /\ UNCHANGED <<vars, acks, owed>>
           \/ ReceiveFollowing /\ UNCHANGED <<vars, acks, owed>>
           \/ ReceiverCommit /\ UNCHANGED <<vars, owed>>
  <2>1. /\ WInv' /\ Numbers(pl)' /\ Owes(pl)' /\ Hears(pl)' /\ UNCHANGED <<vars, owed>>
        /\ \/ P!Grown(flow.delivered, flow'.delivered) /\ past' = past
           \/ ReceivedNames' = ReceivedNames
    BY <1>1, <1>2, <1>3, ReceiverKeeps
  <2>2. CASE ReceivedNames' = ReceivedNames
    <3>1. UNCHANGED C!vars
      BY <2>1, <2>2 DEF C!vars, vars
    <3>2. QED
      BY <3>1
  <2>3. CASE P!Grown(flow.delivered, flow'.delivered) /\ past' = past
    <3>1. CASE flow'.open
      <4>1. Len(past') < MaxFlows /\ past \in Seq(Seq(P!Delivery)) /\ MaxFlows \in Nat
        BY <1>2, <2>1, <3>1, ChannelAssumption DEF Hears
      <4>2. past = <<>>
        <5>1. CASE MaxFlows <= 1
          BY <2>3, <4>1, <5>1, EmptySeq
        <5>2. CASE ~Closing
          BY <1>2, <5>2 DEF Open, Hears
        <5>3. QED
          BY <5>1, <5>2 DEF OneLife
      <4>3. [C!Receive]_(C!vars)
        BY <1>1, <1>2, <2>1, <2>3, <4>2, HandsOver
      <4>4. QED
        BY <4>3 DEF C!Next
    <3>2. CASE ~flow'.open
      <4>1. flow'.delivered = <<>>
        <5>1. (P!NoFlow)' = P!NoFlow /\ P!NoFlow.delivered = <<>>
          BY DEF P!NoFlow, P!NewFlow
        <5>2. QED
          BY <2>1, <3>2, <5>1 DEF Hears
      <4>2. flow.delivered = <<>>
        <5>1. flow.delivered \in Seq(P!Delivery)
          BY <1>2 DEF Hears, P!Follows, P!Ahead, P!Flows
        <5>2. Len(flow.delivered) <= 0
          BY <2>3, <4>1 DEF P!Grown
        <5>3. QED
          BY <5>1, <5>2, EmptySeq
      <4>3. ReceivedNames' = ReceivedNames
        BY <2>3, <4>1, <4>2 DEF ReceivedNames
      <4>4. QED
        BY <2>2, <4>3
    <3>3. QED
      BY <3>1, <3>2
  <2>4. QED
    BY <2>1, <2>2, <2>3
<1>4. CASE /\ UNCHANGED <<receiverVars, acks>>
           /\ \/ \E r \in Reliabilities : SenderWrite(r)
              \/ SenderStep /\ UNCHANGED owed
              \/ (\E a \in acks : SenderAcknowledged(a)) /\ UNCHANGED owed
              \/ UNCHANGED <<vars, owed>>
  BY <1>1, <1>2, <1>4, SenderPromised
<1>5. QED
  BY <1>3, <1>4 DEF ChannelNext, channelVars

\* At first nothing was written nor received.
LEMMA InitPromised == ChannelInit => C!Init
<1> SUFFICES ASSUME ChannelInit PROVE C!Init
  OBVIOUS
<1>1. created = 0 /\ owed = {} /\ past = <<>> /\ flow.delivered = <<>>
  BY DEF ChannelInit, Init, R!NoFlow, R!NewFlow
<1>2. FlattenSeq(past) \o flow.delivered = <<>>
  <2>1. FlattenSeq(<<>>) = <<>>
    BY DEF FlattenSeq
  <2>2. <<>> \o <<>> = <<>>
    OBVIOUS
  <2>3. QED
    BY <1>1, <2>1, <2>2
<1>3. ReceivedNames = <<>>
  BY <1>2 DEF ReceivedNames
<1>4. QED
  BY <1>1, <1>3 DEF C!Init

\* While the flow has one life, the two ends and the network implement the
\* channel: they hand over what was written in its order, each
\* message at most once, and leave out none that is reliable before one handed
\* over (RTMFPWriter::flush, acknowledgment and raiseMessage with
\* RTMFPFlow::fragmentHandler and commit).
THEOREM PromiseCorrect == (~Mixing /\ OneLife) => (ChannelSpec => KeepsPromise)
<1> SUFFICES ASSUME ~Mixing, OneLife PROVE ChannelSpec => KeepsPromise
  OBVIOUS
<1>1. ChannelInit => CInv /\ Open /\ C!Init
  <2>1. ChannelInit => state # "CLOSED"
    BY DEF ChannelInit, Init
  <2>2. QED
    BY <2>1, InitCInv, InitPromised DEF Open
<1>2. CInv /\ Open /\ [ChannelNext]_channelVars => CInv' /\ Open'
  BY NextCInv, OpenKept
<1>3. CInv /\ Open /\ [ChannelNext]_channelVars => [C!Next]_(C!vars)
  BY StepPromised
<1>4. QED
  BY <1>1, <1>2, <1>3, PTL DEF ChannelSpec, KeepsPromise, C!Spec

-----------------------------------------------------------------------------
(* What follows for either end                                             *)

\* The names handed over, each greater than those before.
Ascends(names) ==
    \A i, j \in 1..Len(names) : names[i] \in Nat /\ (i < j => names[i] < names[j])

\* They are a list.
LEMMA NamesListed ==
    CInv => Len(ReceivedNames) \in Nat /\ DOMAIN ReceivedNames = 1..Len(ReceivedNames)
<1> SUFFICES ASSUME CInv
             PROVE  Len(ReceivedNames) \in Nat /\ DOMAIN ReceivedNames = 1..Len(ReceivedNames)
  OBVIOUS
<1>1. PICK pl : Hears(pl)
  BY DEF CInv
<1>2. past \in Seq(Seq(P!Delivery)) /\ flow.delivered \in Seq(P!Delivery)
  BY <1>1 DEF Hears, P!Follows, P!Ahead, P!Flows
<1>3. Handed(flow.delivered) \in Seq(P!Delivery)
  BY <1>2, HandedType
<1>4. PICK n \in Nat : DOMAIN Handed(flow.delivered) = 1..n
  BY <1>3
<1>5. ReceivedNames = [i \in 1..n |-> P!Name(Handed(flow.delivered)[i])]
  BY <1>4 DEF ReceivedNames, Handed, P!Name
<1>6. QED
  BY <1>4, <1>5

\* The channel's step keeps the order.
LEMMA ChannelAscends ==
    ASSUME CInv, CInv', Ascends(ReceivedNames), [C!Next]_(C!vars)
    PROVE  Ascends(ReceivedNames')
<1>1. Len(ReceivedNames) \in Nat
  BY NamesListed
<1>2. Len(ReceivedNames') \in Nat
  <2>1. (CInv => Len(ReceivedNames) \in Nat /\ DOMAIN ReceivedNames = 1..Len(ReceivedNames))'
    BY NamesListed, PTL
  <2>2. QED
    BY <2>1
<1>3. CASE ReceivedNames' = ReceivedNames
  BY <1>3
<1>4. CASE C!Receive
  <2>1. PICK got : got = ReceivedNames
    OBVIOUS
  <2>2. PICK all : all = ReceivedNames'
    OBVIOUS
  <2>3. PICK n : n = Len(got)
    OBVIOUS
  <2>4. PICK m : m = Len(all)
    OBVIOUS
  <2>5. /\ n \in Nat /\ m \in Nat /\ m > n /\ SubSeq(all, 1, n) = got
        /\ \A i \in (n + 1)..m : /\ all[i] \in 0..(created - 1)
                                 /\ \A j \in 1..(i - 1) : all[j] < all[i]
    BY <1>1, <1>2, <1>4, <2>1, <2>2, <2>3, <2>4 DEF C!Receive, C!GoesOn
  <2>6. ASSUME NEW i \in 1..n PROVE all[i] = got[i]
    <3>1. \A k \in 1..(n - 1 + 1) : SubSeq(all, 1, n)[k] = all[1 + k - 1]
      <4> DEFINE S == {all[k] : k \in 1..n}
      <4>1. \A k \in 1..n : all[k] \in S
        OBVIOUS
      <4> HIDE DEF S
      <4>2. QED
        BY <2>5, <4>1, SubSeqProperties
    <3>2. i \in 1..(n - 1 + 1) /\ 1 + i - 1 = i
      BY <2>5
    <3>3. QED
      BY <2>5, <3>1, <3>2
  <2>7. ASSUME NEW i \in 1..m, NEW j \in 1..m
        PROVE  all[i] \in Nat /\ (i < j => all[i] < all[j])
    <3>1. ASSUME NEW k \in 1..m, k \notin 1..n PROVE k \in (n + 1)..m
      BY <2>5, <3>1
    <3>2. all[i] \in Nat
      <4>1. CASE i \in 1..n
        BY <2>1, <2>3, <2>6, <4>1 DEF Ascends
      <4>2. CASE i \notin 1..n
        <5>1. all[i] \in 0..(created - 1)
          BY <2>5, <3>1, <4>2
        <5>2. QED
          BY <5>1
      <4>3. QED
        BY <4>1, <4>2
    <3>3. ASSUME i < j PROVE all[i] < all[j]
      <4>1. CASE j \in 1..n
        <5>1. i \in 1..n
          BY <2>5, <3>3, <4>1
        <5>2. QED
          BY <2>1, <2>3, <2>6, <3>3, <4>1, <5>1 DEF Ascends
      <4>2. CASE j \notin 1..n
        <5>1. i \in 1..(j - 1)
          BY <2>5, <3>3
        <5>2. QED
          BY <2>5, <3>1, <4>2, <5>1
      <4>3. QED
        BY <4>1, <4>2
    <3>4. QED
      BY <3>2, <3>3
  <2>8. QED
    BY <2>2, <2>4, <2>7 DEF Ascends
<1>5. QED
  BY <1>3, <1>4 DEF C!Next, C!Write, C!vars

\* While the flow has one life a message is handed over once: the duplicates that
\* the code hands over come from a flow created again after its end
\* (RTMFPSession::packetHandler).
THEOREM OnceCorrect == (~Mixing /\ OneLife) => (ChannelSpec => []DeliveredOnce)
<1> SUFFICES ASSUME ~Mixing, OneLife PROVE ChannelSpec => []DeliveredOnce
  OBVIOUS
<1> DEFINE OInv == CInv /\ Open /\ Ascends(ReceivedNames)
<1>1. ChannelInit => OInv
  <2> SUFFICES ASSUME ChannelInit PROVE OInv
    OBVIOUS
  <2>1. CInv /\ Open /\ ReceivedNames = <<>>
    BY InitCInv, InitPromised DEF C!Init, Open, ChannelInit, Init
  <2>2. Ascends(<<>>)
    BY DEF Ascends
  <2>3. QED
    BY <2>1, <2>2
<1>2. OInv /\ [ChannelNext]_channelVars => OInv'
  <2> SUFFICES ASSUME OInv, [ChannelNext]_channelVars PROVE OInv'
    OBVIOUS
  <2>1. CInv' /\ Open'
    BY NextCInv, OpenKept
  <2>2. [C!Next]_(C!vars)
    BY StepPromised
  <2>3. QED
    BY <2>1, <2>2, ChannelAscends
<1>3. OInv => DeliveredOnce
  <2> SUFFICES ASSUME OInv, NEW i \in DOMAIN ReceivedNames, NEW j \in DOMAIN ReceivedNames,
                      ReceivedNames[i] = ReceivedNames[j]
               PROVE  i = j
    BY DEF DeliveredOnce
  <2>1. Len(ReceivedNames) \in Nat /\ i \in 1..Len(ReceivedNames) /\ j \in 1..Len(ReceivedNames)
    BY NamesListed
  <2>2. ~(i < j) /\ ~(j < i)
    BY <2>1 DEF Ascends
  <2>3. QED
    BY <2>1, <2>2
<1>4. QED
  BY <1>1, <1>2, <1>3, PTL DEF ChannelSpec

\* Each step is the writer's, or leaves it alone.
LEMMA SenderSteps ==
    ASSUME CInv, [ChannelNext]_channelVars
    PROVE  [Next]_vars
<1>1. WInv
  BY DEF CInv
<1>2. PICK pl : Numbers(pl) /\ Owes(pl) /\ Hears(pl)
  BY DEF CInv
<1>3. CASE UNCHANGED vars
  BY <1>3
<1>4. CASE \/ \E r \in Reliabilities : SenderWrite(r)
           \/ SenderStep /\ UNCHANGED owed
           \/ (\E a \in acks : SenderAcknowledged(a)) /\ UNCHANGED owed
  BY <1>1, <1>2, <1>4, SenderIsWriter
<1>5. QED
  BY <1>3, <1>4 DEF ChannelNext, channelVars

\* What the sender of the channel does is what a writer does, whatever its peer:
\* the acknowledgments that commit writes are among those of the writer's model,
\* so what is proved of the writer holds of the sender.
THEOREM SenderCorrect == ~Mixing => (ChannelSpec => Spec)
<1> SUFFICES ASSUME ~Mixing PROVE ChannelSpec => Spec
  OBVIOUS
<1>1. ChannelInit => CInv /\ Init
  BY InitCInv DEF ChannelInit
<1>2. CInv /\ [ChannelNext]_channelVars => CInv'
  BY NextCInv
<1>3. CInv /\ [ChannelNext]_channelVars => [Next]_vars
  BY SenderSteps
<1>4. QED
  BY <1>1, <1>2, <1>3, PTL DEF ChannelSpec, Spec
=============================================================================
