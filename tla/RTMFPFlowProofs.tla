--------------------------- MODULE RTMFPFlowProofs ---------------------------
(***************************************************************************)
(* Proofs about RTMFPFlow, for any number of stages: what it buffers is    *)
(* beyond the stage it waits for, what it hands over is whole messages of  *)
(* the sender, and what it acknowledges and counts as lost is true.        *)
(*                                                                         *)
(* The invariant FInv says what a flow holds between two chunks.  A chunk  *)
(* sets off a walk along the stages handled; what holds at its first stage *)
(* and, with each one, at the next, holds at its last (AllAlong).  The     *)
(* same argument, on commit's loop and on the writer's reading of it,      *)
(* shows that an acknowledgment reads back as the stages buffered.         *)
(***************************************************************************)
EXTENDS RTMFPFlow, TLAPS, WellFoundedInduction, SequenceTheorems

Delivery == [parts: Seq(Part), lost: Nat]

\* The flows with the buffer b.
Flows(b) ==
    [open: BOOLEAN, stage: Nat, fragments: {b}, packet: Seq(Part), lost: Nat,
     completed: BOOLEAN, skipped: BOOLEAN, arrived: SUBSET Nat, delivered: Seq(Delivery)]

\* The fragment that the sender numbers s.
PlanPart(s) == PartOf(ChunkAt(s, 0, FALSE))

\* The buffer is beyond the next stage.
Ahead(f) ==
    /\ f \in Flows(f.fragments)
    /\ f.stage <= MaxStage
    /\ f.fragments = [s \in DOMAIN f.fragments |-> f.fragments[s]]
    /\ DOMAIN f.fragments \subseteq 1..MaxStage
    /\ \A s \in DOMAIN f.fragments : s > f.stage + 1

\* What is held of a message is its beginning, up to the stage reached.
Assembling(f) ==
    f.packet # <<>> =>
        /\ Len(f.packet) <= f.stage
        /\ ~f.packet[1].before
        /\ \A i \in DOMAIN f.packet :
              /\ f.packet[i] = PlanPart(f.stage - Len(f.packet) + i)
              /\ f.packet[i].after /\ f.packet[i].message = f.packet[1].message

Whole(parts) ==
    /\ parts # <<>>
    /\ ~parts[1].before /\ ~parts[Len(parts)].after
    /\ \A i \in DOMAIN parts :
          /\ parts[i].message = parts[1].message
          /\ parts[i].stage = parts[1].stage + i - 1
          /\ ~parts[i].empty

Endless(parts) == \A i \in DOMAIN parts : ~parts[i].end

\* What a flow handed over is whole, and only the last of it may carry the end.
Told(ds) ==
    /\ \A d \in DOMAIN ds : Whole(ds[d].parts)
    /\ \A d, e \in DOMAIN ds : d < e => Endless(ds[d].parts)

\* Nothing the flow took carries the end.
GoesOn(f) ==
    /\ Endless(f.packet)
    /\ \A d \in DOMAIN f.delivered : Endless(f.delivered[d].parts)

Fits(f) == Lengths(f.delivered) + f.lost + Len(f.packet) <= f.stage

\* Unless a stage was passed over, a message begun is held.
Lossless(f) ==
    /\ f.lost = 0
    /\ (f.stage > 0 /\ PlanPart(f.stage).after) => f.packet # <<>>

\* What arrived beyond the stage reached is buffered; and what is below it
\* arrived, unless a stage was passed over.
Arrivals(f) ==
    /\ ~f.completed => {s \in f.arrived : s > f.stage} = DOMAIN f.fragments
    /\ ~f.skipped => 1..f.stage \subseteq f.arrived /\ f.lost = 0
    /\ ~f.skipped /\ ~f.completed => Lossless(f)

Sound(f) ==
    /\ Ahead(f)
    /\ \A s \in DOMAIN f.fragments : f.fragments[s] = PlanPart(s)
    /\ Assembling(f)
    /\ Told(f.delivered)
    /\ ~f.completed => GoesOn(f)
    /\ Fits(f)
    /\ Arrivals(f)

\* The session's flow is sound, what its earlier ones handed over was told
\* right, and a reply is what commit found.
FInv ==
    /\ plan \in Plans
    /\ Sound(flow)
    /\ past \in Seq(Seq(Delivery)) /\ \A n \in DOMAIN past : Told(past[n])
    /\ request \in Request
    /\ request.pFlow = "FlowNull" => ~flow.open
    /\ request.pFlow = "flow" => flow.open
    /\ ack.negative \in BOOLEAN /\ ack.cum \in Nat /\ ack.losts \in Seq(Nat \X Nat)
    /\ AckReadsBack

-----------------------------------------------------------------------------
\* A set of natural numbers that is not empty has a least element.
LEMMA LeastNumber ==
    ASSUME NEW T, T \subseteq Nat, T # {}
    PROVE  \E n \in T : \A y \in T : n <= y
<1>1. PICK n \in T : \A y \in T : ~(<<y, n>> \in OpToRel(<, Nat))
  BY NatLessThanWellFounded, WFMin
<1>2. \A y \in Nat : \A m \in Nat : y < m => <<y, m>> \in OpToRel(<, Nat)
  BY DEF OpToRel
<1>3. \A y \in T : ~(y < n)
  BY <1>1, <1>2
<1>4. QED
  BY <1>3

\* A set of stages that is not empty has a greatest element.
LEMMA GreatestStage ==
    ASSUME NEW S, S \subseteq 0..MaxStage, S # {}
    PROVE  Max(S) \in S /\ \A x \in S : x <= Max(S)
<1>1. MaxStage \in Nat
  BY FlowAssumption
<1> DEFINE T == {n \in Nat : \E x \in S : n = MaxStage - x}
<1>2. T \subseteq Nat /\ T # {}
  <2>1. PICK x \in S : TRUE
    OBVIOUS
  <2>2. MaxStage - x \in Nat
    BY <1>1, <2>1
  <2>3. MaxStage - x \in T
    BY <2>1, <2>2
  <2>4. QED
    BY <2>3
<1> HIDE DEF T
<1>3. PICK n \in T : \A y \in T : n <= y
  BY <1>2, LeastNumber
<1>5. PICK x \in S : n = MaxStage - x
  BY DEF T
<1>6. \A y \in S : x >= y
  <2> SUFFICES ASSUME NEW y \in S PROVE x >= y
    OBVIOUS
  <2>1. MaxStage - y \in T
    BY <1>1 DEF T
  <2>2. n <= MaxStage - y
    BY <1>3, <2>1
  <2>3. QED
    BY <1>1, <1>5, <2>2
<1>7. Max(S) \in S /\ \A y \in S : Max(S) >= y
  BY <1>6 DEF Max
<1>8. QED
  BY <1>1, <1>7

\* A flow that does not complete handles every stage it reaches.
LEMMA AllHandled ==
    ASSUME NEW f, NEW c, Reached(f, c) \subseteq 1..MaxStage, ~Completes(f, c)
    PROVE  Handled(f, c) = Reached(f, c)
<1> DEFINE E == {e \in Reached(f, c) : Ends(f, c, e)}
<1>1. ASSUME E # {} PROVE FALSE
  <2>1. E \subseteq Nat
    OBVIOUS
  <2> HIDE DEF E
  <2>2. PICK n \in E : \A y \in E : n <= y
    BY <1>1, <2>1, LeastNumber
  <2>3. n \in Handled(f, c) /\ Ends(f, c, n)
    BY <2>2 DEF E, Handled
  <2>4. QED
    BY <2>3 DEF Completes
<1>2. QED
  BY <1>1 DEF E, Handled

\* What is left of the buffer, when the flow is not complete, is beyond the
\* greatest stage handled and the one that follows it.
LEMMA RestAhead ==
    ASSUME NEW f, Ahead(f), NEW c, c.stage \in 1..MaxStage, c.floor \in Nat,
           ~Late(f, c), InTurn(f, c)
    PROVE  /\ Max(Handled(f, c)) \in 1..MaxStage
           /\ Rest(f, c) \subseteq 1..MaxStage
           /\ \A s \in Rest(f, c) : s > Max(Handled(f, c)) + 1
<1>1. MaxStage \in Nat /\ f.stage \in Nat /\ DOMAIN f.fragments \subseteq 1..MaxStage
      /\ \A s \in DOMAIN f.fragments : s > f.stage + 1
  BY FlowAssumption DEF Ahead, Flows
<1>2. Reached(f, c) \subseteq 1..MaxStage /\ c.stage \in Reached(f, c)
  BY <1>1 DEF Reached, Left, Following
<1>3. Handled(f, c) \subseteq Reached(f, c)
  BY DEF Handled
<1>4. Handled(f, c) # {}
  <2>1. PICK n \in Reached(f, c) : \A y \in Reached(f, c) : n <= y
    BY <1>2, LeastNumber
  <2>2. n \in Handled(f, c)
    BY <2>1 DEF Handled
  <2>3. QED
    BY <2>2
<1> DEFINE m == Max(Handled(f, c))
<1>5. m \in Handled(f, c) /\ \A x \in Handled(f, c) : x <= m
  <2>1. Handled(f, c) \subseteq 0..MaxStage
    BY <1>1, <1>2, <1>3
  <2>2. QED
    BY <1>4, <2>1, GreatestStage
<1>6. m \in 1..MaxStage
  BY <1>2, <1>3, <1>5
<1>7. Rest(f, c) \subseteq DOMAIN f.fragments
  BY DEF Rest
<1> HIDE DEF m
<1>8. ASSUME NEW s \in Rest(f, c)
      PROVE  s > m + 1
  <2>1. ~Completes(f, c) /\ s \in DOMAIN f.fragments /\ s \notin Handled(f, c)
    BY <1>8 DEF Rest
  <2>2. Handled(f, c) = Reached(f, c)
    BY <1>2, <2>1, AllHandled
  <2>3. s \notin Reached(f, c) /\ m \in Reached(f, c) /\ c.stage <= m
    BY <1>2, <1>5, <2>1, <2>2
  <2>4. s > c.stage
    <3>1. s # c.stage /\ (Skips(f, c) => ~(s <= c.stage))
      BY <2>1, <2>3 DEF Reached, Left
    <3>2. ~Skips(f, c) => s > c.stage
      BY <1>1, <2>1, <3>1 DEF InTurn
    <3>3. QED
      BY <1>1, <2>1, <3>1, <3>2
  <2>5. ~((c.stage + 1)..s \subseteq DOMAIN f.fragments)
    BY <2>1, <2>3, <2>4 DEF Reached, Following
  <2>6. CASE m = c.stage
    <3>1. s # m + 1
      BY <1>1, <2>1, <2>5, <2>6
    <3>2. QED
      BY <1>1, <2>1, <2>4, <2>6, <3>1
  <2>7. CASE m # c.stage
    <3>1. (c.stage + 1)..m \subseteq DOMAIN f.fragments /\ m > c.stage
      <4>1. m > c.stage
        BY <1>6, <2>3, <2>7
      <4>2. m \notin Left(f, c)
        BY <1>6, <4>1 DEF Left
      <4>3. QED
        BY <2>3, <2>7, <4>1, <4>2 DEF Reached, Following
    <3>2. ~(s <= m)
      BY <1>1, <1>6, <2>1, <2>4, <2>5, <3>1
    <3>3. s # m + 1
      BY <1>1, <1>6, <2>1, <2>5, <3>1
    <3>4. QED
      BY <1>1, <1>6, <2>1, <3>2, <3>3
  <2>8. QED
    BY <2>6, <2>7
<1>9. QED
  BY <1>1, <1>6, <1>7, <1>8 DEF m

-----------------------------------------------------------------------------
(* Walks along stages, or along a list                                     *)

\* What holds of the first number of an interval, and of the next one whenever
\* it holds of one, holds of all.
LEMMA AllAlong ==
    ASSUME NEW a \in Nat, NEW b \in Nat, NEW T, a \in T,
           \A i \in a..b : i \in T /\ i < b => i + 1 \in T
    PROVE  a..b \subseteq T
<1> SUFFICES ASSUME {i \in a..b : i \notin T} # {} PROVE FALSE
  OBVIOUS
<1>1. {i \in a..b : i \notin T} \subseteq Nat
  OBVIOUS
<1>2. PICK n \in {i \in a..b : i \notin T} : \A y \in {i \in a..b : i \notin T} : n <= y
  BY <1>1, LeastNumber
<1>3. n \in a..b /\ n \notin T /\ n # a
  BY <1>2
<1>4. n - 1 \in a..b /\ n - 1 < b /\ ~(n <= n - 1)
  BY <1>3
<1>5. n - 1 \in T
  BY <1>2, <1>4
<1>6. n \in T
  BY <1>3, <1>4, <1>5
<1>7. QED
  BY <1>3, <1>6

\* A step of values in S, along the interval from a to b.
Steps(S, a, b, base, step) ==
    a \in Nat /\ b \in Nat /\ base \in S /\ step \in [S \X Nat -> S]

WalkOf(g, S, a, b, base, step) ==
    /\ g \in [a..b -> S]
    /\ \A i \in a..b : g[i] = IF i = a THEN base ELSE step[<<g[i - 1], i>>]

\* A function may be given by its first value and a step from each to the next.
LEMMA Walked ==
    ASSUME NEW S, NEW a, NEW b, NEW base, NEW step, Steps(S, a, b, base, step)
    PROVE  \E g : WalkOf(g, S, a, b, base, step)
<1> USE DEF Steps, WalkOf
<1> DEFINE Good(n, g) ==
             /\ g \in [a..n -> S]
             /\ \A i \in a..n : g[i] = IF i = a THEN base ELSE step[<<g[i - 1], i>>]
           T == {n \in Nat : \E g : Good(n, g)}
<1>1. a \in T
  <2> DEFINE g == [i \in a..a |-> base]
  <2>1. Good(a, g)
    OBVIOUS
  <2>2. QED
    BY <2>1
<1>2. ASSUME NEW n \in a..b, n \in T, n < b PROVE n + 1 \in T
  <2>1. n \in Nat /\ n + 1 \in Nat
    OBVIOUS
  <2>2. PICK g : Good(n, g)
    BY <1>2
  <2> DEFINE h == [i \in a..(n + 1) |-> IF i = n + 1 THEN step[<<g[n], n + 1>>] ELSE g[i]]
  <2>3. g[n] \in S /\ step[<<g[n], n + 1>>] \in S
    BY <2>1, <2>2
  <2>4. h \in [a..(n + 1) -> S]
    BY <2>1, <2>2, <2>3
  <2>5. ASSUME NEW i \in a..(n + 1)
        PROVE  h[i] = IF i = a THEN base ELSE step[<<h[i - 1], i>>]
    <3>1. CASE i = n + 1
      <4>1. h[i] = step[<<g[n], n + 1>>] /\ i # a /\ h[i - 1] = g[n]
        BY <2>1, <3>1
      <4>2. QED
        BY <3>1, <4>1
    <3>2. CASE i # n + 1
      <4>1. i \in a..n /\ h[i] = g[i]
        BY <2>1, <3>2
      <4>2. i # a => h[i - 1] = g[i - 1]
        BY <2>1, <4>1
      <4>3. g[i] = IF i = a THEN base ELSE step[<<g[i - 1], i>>]
        BY <2>2, <4>1
      <4>4. QED
        BY <4>1, <4>2, <4>3
    <3>3. QED
      BY <3>1, <3>2
  <2> HIDE DEF h
  <2>6. Good(n + 1, h)
    BY <2>4, <2>5
  <2>7. QED
    BY <2>1, <2>6
<1> HIDE DEF T
<1>3. CASE a <= b
  <2>1. a..b \subseteq T
    BY <1>1, <1>2, AllAlong
  <2>2. b \in T
    BY <1>3, <2>1
  <2>3. QED
    BY <2>2 DEF T
<1>4. CASE ~(a <= b)
  <2> DEFINE g == [i \in a..b |-> base]
  <2>1. g \in [a..b -> S] /\ \A i \in a..b : g[i] = IF i = a THEN base ELSE step[<<g[i - 1], i>>]
    BY <1>4
  <2>2. QED
    BY <2>1
<1>5. QED
  BY <1>3, <1>4

\* The readings of a reply, one more with each pair.
LEMMA ReadOf ==
    ASSUME NEW a, a.cum \in Nat, a.losts \in Seq(Nat \X Nat)
    PROVE  /\ DOMAIN Read(a) = 0..Len(a.losts)
           /\ Read(a)[0] = [at |-> a.cum, received |-> {}]
           /\ \A i \in 1..Len(a.losts) : Read(a)[i] = ReadRange(Read(a)[i - 1], a.losts[i])
           /\ \A i \in 0..Len(a.losts) : Read(a)[i] \in [at: Nat, received: SUBSET Nat]
<1> DEFINE S == [at: Nat, received: SUBSET Nat]
           base == [at |-> a.cum, received |-> {}]
           n == Len(a.losts)
           pair(i) == IF i \in 1..n THEN a.losts[i] ELSE <<0, 0>>
           step == [x \in S \X Nat |-> ReadRange(x[1], pair(x[2]))]
           P(r) == r = [i \in 0..n |-> IF i = 0 THEN base ELSE ReadRange(r[i - 1], a.losts[i])]
<1>1. n \in Nat /\ base \in S
  OBVIOUS
<1>2. ASSUME NEW r \in S, NEW i \in Nat PROVE ReadRange(r, pair(i)) \in S
  <2>1. pair(i) \in Nat \X Nat
    OBVIOUS
  <2> HIDE DEF pair
  <2>2. pair(i)[1] \in Nat /\ pair(i)[2] \in Nat /\ r.at \in Nat /\ r.received \subseteq Nat
    BY <2>1
  <2>3. QED
    BY <2>2 DEF ReadRange
<1> HIDE DEF S, base, pair
<1>3. step \in [S \X Nat -> S]
  BY <1>2
<1> HIDE DEF step, n
<1>4. PICK g : WalkOf(g, S, 0, n, base, step)
  <2>1. Steps(S, 0, n, base, step)
    BY <1>1, <1>3 DEF Steps
  <2>2. QED
    BY <2>1, Walked
<1>5. ASSUME NEW i \in 0..n, i # 0 PROVE g[i] = ReadRange(g[i - 1], a.losts[i])
  <2>1. g[i - 1] \in S /\ i \in Nat /\ i \in 1..n
    BY <1>1, <1>4, <1>5 DEF WalkOf
  <2>2. step[<<g[i - 1], i>>] = ReadRange(g[i - 1], pair(i))
    BY <2>1 DEF step
  <2>4. pair(i) = a.losts[i]
    BY <2>1 DEF pair
  <2>3. QED
    BY <1>4, <1>5, <2>2, <2>4 DEF WalkOf
<1>6. P(g)
  BY <1>4, <1>5 DEF n, WalkOf
<1>7. Read(a) = CHOOSE r : P(r)
  BY DEF Read, n, base
<1> HIDE DEF P
<1>8. P(Read(a))
  BY <1>6, <1>7
<1>9. /\ DOMAIN Read(a) = 0..n
      /\ \A i \in 0..n : Read(a)[i] = IF i = 0 THEN base ELSE ReadRange(Read(a)[i - 1], a.losts[i])
  BY <1>8 DEF P
<1>10. \A i \in 0..n : Read(a)[i] \in S
  <2> DEFINE T == {i \in 0..n : Read(a)[i] \in S}
  <2>1. 0 \in T
    BY <1>1, <1>9
  <2>2. ASSUME NEW i \in 0..n, i \in T, i < n PROVE i + 1 \in T
    <3>1. i + 1 \in 0..n /\ i + 1 # 0 /\ (i + 1) - 1 = i /\ i + 1 \in Nat /\ i + 1 \in 1..n
      BY <1>1, <2>2
    <3>2. Read(a)[i + 1] = ReadRange(Read(a)[i], pair(i + 1))
      BY <1>9, <3>1 DEF pair, n
    <3>3. QED
      BY <1>2, <2>2, <3>1, <3>2
  <2> HIDE DEF T
  <2>3. 0..n \subseteq T
    BY <1>1, <2>1, <2>2, AllAlong
  <2>4. QED
    BY <2>3 DEF T
<1>11. 0 \in 0..n /\ \A i \in 1..n : i \in 0..n /\ i # 0
  BY <1>1
<1>12. QED
  BY <1>9, <1>10, <1>11 DEF S, base, n

\* Two replies that begin alike are read alike up to there.
LEMMA ReadAlike ==
    ASSUME NEW a, a.cum \in Nat, a.losts \in Seq(Nat \X Nat),
           NEW b, b.cum = a.cum, b.losts \in Seq(Nat \X Nat),
           NEW k \in Nat, k <= Len(a.losts), k <= Len(b.losts),
           \A i \in 1..k : a.losts[i] = b.losts[i]
    PROVE  Read(a)[k] = Read(b)[k]
<1> DEFINE T == {i \in 0..k : Read(a)[i] = Read(b)[i]}
<1>1. /\ Read(a)[0] = [at |-> a.cum, received |-> {}]
      /\ \A i \in 1..Len(a.losts) : Read(a)[i] = ReadRange(Read(a)[i - 1], a.losts[i])
  BY ReadOf
<1>2. /\ Read(b)[0] = [at |-> a.cum, received |-> {}]
      /\ \A i \in 1..Len(b.losts) : Read(b)[i] = ReadRange(Read(b)[i - 1], b.losts[i])
  BY ReadOf
<1>3. Len(a.losts) \in Nat /\ Len(b.losts) \in Nat
  OBVIOUS
<1>4. 0 \in T
  BY <1>1, <1>2
<1>5. ASSUME NEW i \in 0..k, i \in T, i < k PROVE i + 1 \in T
  <2>1. i + 1 \in 1..k /\ i + 1 \in 1..Len(a.losts) /\ i + 1 \in 1..Len(b.losts)
        /\ (i + 1) - 1 = i /\ i + 1 \in 0..k
    BY <1>3, <1>5, SMTT(30)
  <2>2. a.losts[i + 1] = b.losts[i + 1] /\ Read(a)[i] = Read(b)[i]
    BY <1>5, <2>1
  <2>3. Read(a)[i + 1] = ReadRange(Read(a)[i], a.losts[i + 1])
    BY <1>1, <2>1
  <2>4. Read(b)[i + 1] = ReadRange(Read(b)[i], b.losts[i + 1])
    BY <1>2, <2>1
  <2>5. QED
    BY <2>1, <2>2, <2>3, <2>4
<1> HIDE DEF T
<1>6. 0..k \subseteq T
  BY <1>4, <1>5, AllAlong
<1>7. k \in T
  BY <1>6
<1>8. QED
  BY <1>7 DEF T

\* The lengths of what was delivered, one delivery after the other.
LEMMA LengthsOf ==
    ASSUME NEW ds \in Seq(Delivery)
    PROVE  /\ LengthsUpTo(ds)[0] = 0
           /\ \A i \in 1..Len(ds) :
                 LengthsUpTo(ds)[i] = LengthsUpTo(ds)[i - 1] + Len(ds[i].parts) + ds[i].lost
           /\ \A i \in 0..Len(ds) : LengthsUpTo(ds)[i] \in Nat
<1> DEFINE n == Len(ds)
           one(i) == IF i \in 1..n THEN Len(ds[i].parts) + ds[i].lost ELSE 0
           step == [x \in Nat \X Nat |-> x[1] + one(x[2])]
           P(r) == r = [i \in 0..n |-> IF i = 0 THEN 0
                                       ELSE r[i - 1] + Len(ds[i].parts) + ds[i].lost]
<1>1. n \in Nat
  OBVIOUS
<1>2. ASSUME NEW i \in 1..n PROVE Len(ds[i].parts) \in Nat /\ ds[i].lost \in Nat
  <2>1. ds[i] \in Delivery
    OBVIOUS
  <2>2. ds[i].parts \in Seq(Part) /\ ds[i].lost \in Nat
    BY <2>1 DEF Delivery
  <2>3. QED
    BY <2>2
<1> HIDE DEF n
<1>3. ASSUME NEW i PROVE one(i) \in Nat
  BY <1>2
<1> HIDE DEF one
<1>4. step \in [Nat \X Nat -> Nat]
  BY <1>3
<1> HIDE DEF step
<1>5. PICK g : WalkOf(g, Nat, 0, n, 0, step)
  <2>1. Steps(Nat, 0, n, 0, step)
    BY <1>1, <1>4 DEF Steps
  <2>2. QED
    BY <2>1, Walked
<1>6. ASSUME NEW i \in 0..n, i # 0 PROVE g[i] = g[i - 1] + Len(ds[i].parts) + ds[i].lost
  <2>1. i \in Nat /\ i \in 1..n /\ g[i - 1] \in Nat
    BY <1>1, <1>5, <1>6 DEF WalkOf
  <2>2. g[i] = g[i - 1] + one(i)
    BY <1>5, <1>6, <2>1 DEF WalkOf, step
  <2>3. one(i) = Len(ds[i].parts) + ds[i].lost
    BY <2>1 DEF one
  <2>4. QED
    BY <1>2, <2>1, <2>2, <2>3
<1>7. P(g)
  BY <1>5, <1>6 DEF WalkOf
<1>8. LengthsUpTo(ds) = CHOOSE r : P(r)
  BY DEF LengthsUpTo, n
<1> HIDE DEF P
<1>9. P(LengthsUpTo(ds))
  BY <1>7, <1>8
<1>10. \A i \in 0..n : LengthsUpTo(ds)[i] =
          IF i = 0 THEN 0 ELSE LengthsUpTo(ds)[i - 1] + Len(ds[i].parts) + ds[i].lost
  BY <1>9 DEF P
<1>11. \A i \in 0..n : LengthsUpTo(ds)[i] \in Nat
  <2> DEFINE T == {i \in 0..n : LengthsUpTo(ds)[i] \in Nat}
  <2>1. 0 \in T
    BY <1>1, <1>10
  <2>2. ASSUME NEW i \in 0..n, i \in T, i < n PROVE i + 1 \in T
    <3>1. i + 1 \in 0..n /\ i + 1 # 0 /\ (i + 1) - 1 = i /\ i + 1 \in 1..n
      BY <1>1, <2>2
    <3>2. LengthsUpTo(ds)[i + 1] = LengthsUpTo(ds)[i] + Len(ds[i + 1].parts) + ds[i + 1].lost
      BY <1>10, <3>1
    <3>3. LengthsUpTo(ds)[i] \in Nat /\ Len(ds[i + 1].parts) \in Nat /\ ds[i + 1].lost \in Nat
      BY <1>2, <2>2, <3>1
    <3>4. LengthsUpTo(ds)[i + 1] \in Nat
      BY <3>2, <3>3, SMTT(30)
    <3>5. QED
      BY <3>1, <3>4
  <2> HIDE DEF T
  <2>3. 0..n \subseteq T
    BY <1>1, <2>1, <2>2, AllAlong
  <2>4. QED
    BY <2>3 DEF T
<1>12. 0 \in 0..n /\ \A i \in 1..n : i \in 0..n /\ i # 0
  BY <1>1
<1>13. QED
  BY <1>10, <1>11, <1>12 DEF n

\* One more delivery adds its own.
LEMMA LengthsAppended ==
    ASSUME NEW ds \in Seq(Delivery), NEW d \in Delivery
    PROVE  /\ Lengths(ds) \in Nat
           /\ Lengths(Append(ds, d)) = Lengths(ds) + Len(d.parts) + d.lost
<1> DEFINE es == Append(ds, d)
           n == Len(ds)
           T == {i \in 0..n : LengthsUpTo(es)[i] = LengthsUpTo(ds)[i]}
<1>1. n \in Nat /\ es \in Seq(Delivery) /\ Len(es) = n + 1 /\ es[n + 1] = d
      /\ \A i \in 1..n : es[i] = ds[i]
  OBVIOUS
<1> HIDE DEF es, n
<1>2. /\ LengthsUpTo(ds)[0] = 0
      /\ \A i \in 1..n :
            LengthsUpTo(ds)[i] = LengthsUpTo(ds)[i - 1] + Len(ds[i].parts) + ds[i].lost
      /\ \A i \in 0..n : LengthsUpTo(ds)[i] \in Nat
  BY LengthsOf DEF n
<1>3. /\ LengthsUpTo(es)[0] = 0
      /\ \A i \in 1..(n + 1) :
            LengthsUpTo(es)[i] = LengthsUpTo(es)[i - 1] + Len(es[i].parts) + es[i].lost
  BY <1>1, LengthsOf
<1>4. 0 \in T
  BY <1>1, <1>2, <1>3
<1>5. ASSUME NEW i \in 0..n, i \in T, i < n PROVE i + 1 \in T
  <2>1. i + 1 \in 1..n /\ i + 1 \in 1..(n + 1) /\ (i + 1) - 1 = i /\ i + 1 \in 0..n
    BY <1>1, <1>5
  <2>2. es[i + 1] = ds[i + 1] /\ LengthsUpTo(es)[i] = LengthsUpTo(ds)[i]
    BY <1>1, <1>5, <2>1
  <2>3. LengthsUpTo(ds)[i + 1] = LengthsUpTo(ds)[i] + Len(ds[i + 1].parts) + ds[i + 1].lost
    BY <1>2, <2>1
  <2>4. LengthsUpTo(es)[i + 1] = LengthsUpTo(es)[i] + Len(es[i + 1].parts) + es[i + 1].lost
    BY <1>3, <2>1
  <2>5. QED
    BY <2>1, <2>2, <2>3, <2>4
<1> HIDE DEF T
<1>6. 0..n \subseteq T
  BY <1>1, <1>4, <1>5, AllAlong
<1>7. LengthsUpTo(es)[n] = LengthsUpTo(ds)[n]
  <2>1. n \in 0..n
    BY <1>1
  <2>2. QED
    BY <1>6, <2>1 DEF T
<1>8. LengthsUpTo(es)[n + 1] = LengthsUpTo(es)[n] + Len(d.parts) + d.lost
  <2>1. n + 1 \in 1..(n + 1) /\ (n + 1) - 1 = n
    BY <1>1
  <2>2. QED
    BY <1>1, <1>3, <2>1
<1>9. LengthsUpTo(ds)[n] \in Nat
  BY <1>1, <1>2
<1>10. QED
  BY <1>1, <1>7, <1>8, <1>9 DEF Lengths, n, es

-----------------------------------------------------------------------------
(* commit                                                                  *)

\* The newest stage buffered, or the stage reached.
LEMMA NewestStage ==
    ASSUME NEW f, Ahead(f)
    PROVE  /\ f.stage \in Nat /\ Newest(f) \in Nat /\ f.stage <= Newest(f)
           /\ \A s \in DOMAIN f.fragments : s \in f.stage..Newest(f) /\ s # f.stage
<1>1. f.stage \in Nat /\ f.stage <= MaxStage /\ MaxStage \in Nat
      /\ DOMAIN f.fragments \subseteq 1..MaxStage
      /\ \A s \in DOMAIN f.fragments : s > f.stage + 1
  BY FlowAssumption DEF Ahead, Flows
<1> DEFINE S == {f.stage} \cup DOMAIN f.fragments
<1>2. S \subseteq 0..MaxStage /\ S # {}
  BY <1>1
<1>3. f.stage \in S /\ DOMAIN f.fragments \subseteq S /\ Newest(f) = Max(S)
  BY DEF Newest
<1> HIDE DEF S
<1>4. Newest(f) \in S /\ \A x \in S : x <= Newest(f)
  BY <1>2, <1>3, GreatestStage
<1>5. Newest(f) \in Nat
  <2>1. Newest(f) \in 0..MaxStage
    BY <1>2, <1>4
  <2>2. QED
    BY <1>1, <2>1
<1>6. ASSUME NEW s \in DOMAIN f.fragments PROVE s \in f.stage..Newest(f) /\ s # f.stage
  <2>1. s <= Newest(f) /\ s \in Nat /\ s > f.stage + 1
    BY <1>1, <1>3, <1>4
  <2>2. QED
    BY <1>1, <1>5, <2>1
<1>7. QED
  BY <1>1, <1>3, <1>4, <1>5, <1>6

Pairs == Int \X Int

\* One turn of commit's loop keeps the types of its variables.
LEMMA CountedType ==
    ASSUME NEW f, f.stage \in Nat, NEW w \in [current: Int, losts: Seq(Pairs)], NEW s \in Nat
    PROVE  Counted(f, w, s) \in [current: Int, losts: Seq(Pairs)]
<1>1. w.current \in Int /\ w.losts \in Seq(Pairs) /\ Len(w.losts) \in Nat
      /\ DOMAIN w.losts = 1..Len(w.losts)
  OBVIOUS
<1>2. CASE w.losts # <<>> /\ s = w.current + 1
  <2> DEFINE n == Len(w.losts)
             last == w.losts[n]
  <2>1. n \in DOMAIN w.losts
    BY <1>1, <1>2
  <2>2. last \in Pairs
    BY <1>1, <2>1
  <2> HIDE DEF last
  <2>3. last[1] \in Int /\ last[2] + 1 \in Int
    BY <2>2 DEF Pairs
  <2>4. <<last[1], last[2] + 1>> \in Pairs
    BY <2>3 DEF Pairs
  <2>5. [w.losts EXCEPT ![n] = <<last[1], last[2] + 1>>] \in Seq(Pairs)
    BY <1>1, <2>1, <2>4
  <2>6. Counted(f, w, s) = [w EXCEPT !.current = s,
                                     !.losts = [w.losts EXCEPT ![n] = <<last[1], last[2] + 1>>]]
    BY <1>2 DEF Counted, last
  <2>7. Counted(f, w, s) = [current |-> s,
                            losts |-> [w.losts EXCEPT ![n] = <<last[1], last[2] + 1>>]]
    BY <2>6
  <2>8. QED
    BY <2>5, <2>7
<1>3. CASE ~(w.losts # <<>> /\ s = w.current + 1)
  <2>1. Counted(f, w, s) = [current |-> s, losts |-> Append(w.losts, <<s - w.current - 2, 0>>)]
    BY <1>3 DEF Counted
  <2>2. <<s - w.current - 2, 0>> \in Pairs
    BY <1>1 DEF Pairs
  <2>3. Append(w.losts, <<s - w.current - 2, 0>>) \in Seq(Pairs)
    BY <1>1, <2>2
  <2>4. QED
    BY <2>1, <2>3
<1>4. QED
  BY <1>2, <1>3

\* The turns of commit's loop.
LEMMA CountsOf ==
    ASSUME NEW f, Ahead(f)
    PROVE  /\ Counts(f)[0] = [current |-> f.stage, losts |-> <<>>]
           /\ \A s \in 0..Newest(f) : s # 0 =>
                 Counts(f)[s] = IF s \in DOMAIN f.fragments
                                THEN Counted(f, Counts(f)[s - 1], s) ELSE Counts(f)[s - 1]
<1> DEFINE S == [current: Int, losts: Seq(Pairs)]
           a == 0
           n == Newest(f)
           base == [current |-> f.stage, losts |-> <<>>]
           step == [x \in S \X Nat |->
                      IF x[2] \in DOMAIN f.fragments THEN Counted(f, x[1], x[2]) ELSE x[1]]
           P(r) == r = [s \in a..n |->
                          IF s = a THEN base
                          ELSE IF s \in DOMAIN f.fragments THEN Counted(f, r[s - 1], s)
                          ELSE r[s - 1]]
<1>1. a \in Nat /\ n \in Nat /\ a <= n /\ f.stage \in Nat
  BY NewestStage
<1>2. base \in S
  <2>1. <<>> \in Seq(Pairs)
    BY EmptySeq
  <2>2. QED
    BY <1>1, <2>1
<1>3. step \in [S \X Nat -> S]
  <2>1. ASSUME NEW x \in S \X Nat
        PROVE  (IF x[2] \in DOMAIN f.fragments THEN Counted(f, x[1], x[2]) ELSE x[1]) \in S
    <3>1. x[1] \in S /\ x[2] \in Nat
      OBVIOUS
    <3> HIDE DEF S
    <3>2. PICK w \in S, s \in Nat : x[1] = w /\ x[2] = s
      BY <3>1
    <3>3. Counted(f, w, s) \in S
      BY <1>1, CountedType DEF S
    <3>4. QED
      BY <3>2, <3>3
  <2> HIDE DEF S
  <2>2. QED
    BY <2>1
<1> HIDE DEF step, S, base
<1>4. PICK g : WalkOf(g, S, a, n, base, step)
  <2>1. Steps(S, a, n, base, step)
    BY <1>1, <1>2, <1>3 DEF Steps
  <2>2. QED
    BY <2>1, Walked
<1> HIDE DEF a, n
<1>5. ASSUME NEW s \in a..n, s # a
      PROVE  g[s] = IF s \in DOMAIN f.fragments THEN Counted(f, g[s - 1], s) ELSE g[s - 1]
  <2>1. s \in Nat /\ g[s - 1] \in S
    BY <1>1, <1>4, <1>5 DEF WalkOf
  <2>2. g[s] = step[<<g[s - 1], s>>]
    BY <1>4, <1>5 DEF WalkOf
  <2>3. QED
    BY <2>1, <2>2 DEF step
<1>6. g = [s \in a..n |-> g[s]] /\ g[a] = base
  <2>1. g \in [a..n -> S] /\ a \in a..n
    BY <1>1, <1>4 DEF WalkOf
  <2>2. g[a] = base
    BY <1>4, <2>1 DEF WalkOf
  <2>3. QED
    BY <2>1, <2>2
<1>7. P(g)
  BY <1>5, <1>6
<1>8. Counts(f) = CHOOSE r : P(r)
  BY DEF Counts, a, n, base
<1> HIDE DEF P
<1>9. P(Counts(f))
  BY <1>7, <1>8
<1>10. /\ Counts(f)[a] = base
       /\ \A s \in a..n : s # a =>
             Counts(f)[s] = IF s \in DOMAIN f.fragments
                            THEN Counted(f, Counts(f)[s - 1], s) ELSE Counts(f)[s - 1]
  BY <1>1, <1>9 DEF P
<1>11. QED
  BY <1>10 DEF a, n, base

\* The acknowledgment with these losses, from the stage reached.
AckWith(f, losts) == [negative |-> Refused(f), cum |-> f.stage, losts |-> losts]

\* The loop has counted the stages up to s: what it wrote so far reads back as
\* the buffered ones among them.
CountedTo(f, w, s) ==
    /\ w.current \in Nat /\ w.losts \in Seq(Nat \X Nat)
    /\ w.current <= s \/ w.current = f.stage
    /\ w.losts = <<>> => w.current = f.stage
    /\ LET r == Read(AckWith(f, w.losts))[Len(w.losts)]
       IN  r.at = w.current /\ r.received = {x \in DOMAIN f.fragments : x <= s}

\* A stretch of buffered stages begins.
LEMMA CountedFirst ==
    ASSUME NEW f, Ahead(f), NEW w, NEW s \in DOMAIN f.fragments, CountedTo(f, w, s - 1),
           ~(w.losts # <<>> /\ s = w.current + 1)
    PROVE  CountedTo(f, Counted(f, w, s), s)
<1> DEFINE pair == <<s - w.current - 2, 0>>
           more == Append(w.losts, pair)
           n == Len(w.losts)
           a == AckWith(f, w.losts)
           b == AckWith(f, more)
<1>1. /\ f.stage \in Nat /\ s \in Nat /\ s > f.stage + 1
      /\ w.current \in Nat /\ w.losts \in Seq(Nat \X Nat)
      /\ w.current <= s - 1
      /\ w.losts = <<>> => w.current = f.stage
  <2>1. /\ w.current \in Nat /\ w.losts \in Seq(Nat \X Nat)
        /\ w.losts = <<>> => w.current = f.stage
    BY DEF CountedTo
  <2>2. w.current <= s - 1 \/ w.current = f.stage
    BY DEF CountedTo
  <2>3. f.stage \in Nat /\ s \in Nat /\ s > f.stage + 1
    BY NewestStage DEF Ahead
  <2>4. w.current <= s - 1
    BY <2>1, <2>2, <2>3
  <2>5. QED
    BY <2>1, <2>3, <2>4
<1>2. s - w.current - 2 \in Nat
  <2>1. CASE w.losts = <<>>
    BY <1>1, <2>1
  <2>2. CASE w.losts # <<>>
    <3>1. s # w.current + 1
      BY <2>2
    <3>2. QED
      BY <1>1, <3>1
  <2>3. QED
    BY <2>1, <2>2
<1>3. pair \in Nat \X Nat /\ pair[1] = s - w.current - 2 /\ pair[2] = 0
  BY <1>2
<1>4. /\ Counted(f, w, s).current = s /\ Counted(f, w, s).losts = more
  BY DEF Counted
<1> HIDE DEF pair
<1>5. /\ more \in Seq(Nat \X Nat) /\ Len(more) = n + 1 /\ n \in Nat /\ more[n + 1] = pair
      /\ (\A i \in 1..n : more[i] = w.losts[i]) /\ more # <<>>
  <2>1. w.losts \in Seq(Nat \X Nat) /\ pair \in Nat \X Nat
    BY <1>1, <1>3
  <2>2. more \in Seq(Nat \X Nat) /\ Len(more) = n + 1 /\ more[n + 1] = pair
        /\ \A i \in 1..n : more[i] = w.losts[i]
    BY <2>1, AppendProperties
  <2>3. n \in Nat
    BY <2>1
  <2>4. more # <<>>
    BY <2>2, <2>3
  <2>5. QED
    BY <2>2, <2>3, <2>4
<1> HIDE DEF more
<1>6. a.cum = f.stage /\ a.losts = w.losts /\ b.cum = f.stage /\ b.losts = more
  BY DEF AckWith
<1> HIDE DEF a, b, n
<1>7. Read(b)[n] = Read(a)[n]
  <2>1. a.cum \in Nat /\ b.cum = a.cum /\ a.losts \in Seq(Nat \X Nat) /\ b.losts \in Seq(Nat \X Nat)
    BY <1>1, <1>5, <1>6
  <2>2. n \in Nat /\ n <= Len(a.losts) /\ n <= Len(b.losts)
        /\ \A i \in 1..n : a.losts[i] = b.losts[i]
    BY <1>5, <1>6 DEF n
  <2>3. QED
    BY <2>1, <2>2, ReadAlike
<1>8. Read(a)[n].at = w.current
      /\ Read(a)[n].received = {x \in DOMAIN f.fragments : x <= s - 1}
  BY DEF CountedTo, a, n
<1>9. Read(b)[n + 1] = ReadRange(Read(b)[n], pair)
  <2>1. n + 1 \in 1..Len(b.losts) /\ (n + 1) - 1 = n
    BY <1>5, <1>6
  <2>2. b.cum \in Nat /\ b.losts \in Seq(Nat \X Nat)
    BY <1>1, <1>5, <1>6
  <2>3. Read(b)[n + 1] = ReadRange(Read(b)[(n + 1) - 1], b.losts[n + 1])
    BY <2>1, <2>2, ReadOf
  <2>4. QED
    BY <1>5, <1>6, <2>1, <2>3
<1>10. /\ Read(b)[n + 1].at = s
       /\ Read(b)[n + 1].received = {x \in DOMAIN f.fragments : x <= s - 1} \cup s..s
  <2> DEFINE r == Read(b)[n]
  <2>1. w.current + pair[1] + 2 = s /\ w.current + pair[1] + 2 + pair[2] = s
    <3>1. ASSUME NEW x \in Nat, NEW y \in Nat
          PROVE  x + (y - x - 2) + 2 = y /\ x + (y - x - 2) + 2 + 0 = y
      OBVIOUS
    <3>2. w.current \in Nat /\ s \in Nat
      BY <1>1
    <3>3. pair[1] = s - w.current - 2 /\ pair[2] = 0
      BY <1>3
    <3>4. QED
      BY <3>1, <3>2, <3>3
  <2>2. r.at = w.current /\ r.received = {x \in DOMAIN f.fragments : x <= s - 1}
    BY <1>7, <1>8
  <2>3. Read(b)[n + 1] = ReadRange(r, pair)
    BY <1>9
  <2> HIDE DEF r
  <2>4. /\ ReadRange(r, pair).at = s
        /\ ReadRange(r, pair).received = r.received \cup s..s
    BY <2>1, <2>2 DEF ReadRange
  <2>5. QED
    BY <2>2, <2>3, <2>4
<1>11. {x \in DOMAIN f.fragments : x <= s - 1} \cup s..s = {x \in DOMAIN f.fragments : x <= s}
  <2>1. DOMAIN f.fragments \subseteq Nat
    BY DEF Ahead
  <2>2. s..s = {s}
    BY <1>1
  <2>3. QED
    BY <1>1, <2>1, <2>2
<1>12. /\ Read(AckWith(f, Counted(f, w, s).losts))[Len(Counted(f, w, s).losts)] = Read(b)[n + 1]
  BY <1>4, <1>5 DEF b
<1>13. QED
  BY <1>1, <1>4, <1>5, <1>10, <1>11, <1>12 DEF CountedTo

\* It goes on.
LEMMA CountedNext ==
    ASSUME NEW f, Ahead(f), NEW w, NEW s \in DOMAIN f.fragments, CountedTo(f, w, s - 1),
           w = [current |-> w.current, losts |-> w.losts],
           w.losts # <<>>, s = w.current + 1
    PROVE  CountedTo(f, Counted(f, w, s), s)
<1> DEFINE n == Len(w.losts)
           last == w.losts[n]
           pair == <<last[1], last[2] + 1>>
           more == [w.losts EXCEPT ![n] = pair]
           a == AckWith(f, w.losts)
           b == AckWith(f, more)
<1>1. /\ f.stage \in Nat /\ s \in Nat
      /\ w.current \in Nat /\ w.losts \in Seq(Nat \X Nat)
      /\ n \in Nat /\ n > 0 /\ DOMAIN w.losts = 1..n
  <2>1. w.current \in Nat /\ w.losts \in Seq(Nat \X Nat)
    BY DEF CountedTo
  <2>2. f.stage \in Nat /\ s \in Nat
    BY NewestStage
  <2>3. n \in Nat /\ n > 0 /\ DOMAIN w.losts = 1..n
    BY <2>1
  <2>4. QED
    BY <2>1, <2>2, <2>3
<1> HIDE DEF n
<1>2. last \in Nat \X Nat
  BY <1>1 DEF n
<1> HIDE DEF last
<1>3. pair \in Nat \X Nat /\ pair[1] = last[1] /\ pair[2] = last[2] + 1
      /\ last[1] \in Nat /\ last[2] \in Nat
  BY <1>2
<1>4. Counted(f, w, s).current = s /\ Counted(f, w, s).losts = more
  <2>1. Counted(f, w, s) = [w EXCEPT !.current = s, !.losts = more]
    BY DEF Counted, n, last
  <2>2. Counted(f, w, s) = [current |-> s, losts |-> more]
    BY <2>1
  <2>3. QED
    BY <2>2
<1> HIDE DEF pair
<1>5. /\ more \in Seq(Nat \X Nat) /\ Len(more) = n /\ more[n] = pair
      /\ (\A i \in 1..(n - 1) : more[i] = w.losts[i]) /\ more # <<>>
  BY <1>1, <1>3 DEF n
<1> HIDE DEF more
<1>6. a.cum = f.stage /\ a.losts = w.losts /\ b.cum = f.stage /\ b.losts = more
  BY DEF AckWith
<1> HIDE DEF a, b
<1>7. a.cum \in Nat /\ b.cum = a.cum /\ a.losts \in Seq(Nat \X Nat) /\ b.losts \in Seq(Nat \X Nat)
      /\ Len(a.losts) = n /\ Len(b.losts) = n
  BY <1>1, <1>5, <1>6 DEF n
<1>8. Read(b)[n - 1] = Read(a)[n - 1]
  <2>1. n - 1 \in Nat /\ n - 1 <= Len(a.losts) /\ n - 1 <= Len(b.losts)
        /\ \A i \in 1..(n - 1) : a.losts[i] = b.losts[i]
    BY <1>1, <1>5, <1>6, <1>7, SMTT(30)
  <2>2. QED
    BY <1>7, <2>1, ReadAlike
<1> DEFINE r == Read(a)[n - 1]
<1>9. r.at \in Nat /\ r.received \subseteq Nat
  <2>1. n - 1 \in 0..Len(a.losts)
    <3>1. n - 1 \in 0..n
      BY <1>1
    <3>2. QED
      BY <1>7, <3>1
  <2>2. r \in [at: Nat, received: SUBSET Nat]
    BY <1>7, <2>1, ReadOf
  <2>3. QED
    BY <2>2
<1>10. /\ Read(a)[n] = ReadRange(r, last)
       /\ Read(b)[n] = ReadRange(r, pair)
  <2>1. n \in 1..Len(a.losts) /\ n \in 1..Len(b.losts)
    <3>1. n \in 1..n
      BY <1>1
    <3>2. QED
      BY <1>7, <3>1
  <2>2. Read(a)[n] = ReadRange(Read(a)[n - 1], a.losts[n])
    BY <1>7, <2>1, ReadOf
  <2>3. Read(b)[n] = ReadRange(Read(b)[n - 1], b.losts[n])
    BY <1>7, <2>1, ReadOf
  <2>4. a.losts[n] = last /\ b.losts[n] = pair
    BY <1>5, <1>6 DEF last
  <2>5. QED
    BY <1>8, <2>2, <2>3, <2>4
<1> HIDE DEF r
<1>11. /\ Read(a)[n].at = w.current
       /\ Read(a)[n].received = {x \in DOMAIN f.fragments : x <= s - 1}
  BY DEF CountedTo, a, n
<1> DEFINE p == r.at + last[1] + 2
<1>12. /\ p \in Nat /\ p + last[2] = w.current
       /\ r.received \cup p..(p + last[2]) = {x \in DOMAIN f.fragments : x <= s - 1}
  BY <1>3, <1>9, <1>10, <1>11, SMTT(30) DEF ReadRange
<1>13. /\ Read(b)[n].at = p + last[2] + 1
       /\ Read(b)[n].received = r.received \cup p..(p + last[2] + 1)
  <2>1. /\ Read(b)[n].at = p + (last[2] + 1)
        /\ Read(b)[n].received = r.received \cup p..(p + (last[2] + 1))
    BY <1>3, <1>10 DEF ReadRange
  <2>2. p + (last[2] + 1) = p + last[2] + 1
    BY <1>3, <1>12
  <2>3. QED
    BY <2>1, <2>2
<1> HIDE DEF p
<1>14. p..(p + last[2] + 1) = p..(p + last[2]) \cup {s}
  <2>1. ASSUME NEW q \in Nat, p <= q PROVE p..(q + 1) = p..q \cup {q + 1}
    BY <1>12, <2>1
  <2>2. p + last[2] \in Nat /\ p <= p + last[2] /\ s = p + last[2] + 1
    BY <1>1, <1>3, <1>12, SMTT(30)
  <2>3. QED
    BY <2>1, <2>2
<1>15. Read(b)[n].received = {x \in DOMAIN f.fragments : x <= s}
  <2>1. DOMAIN f.fragments \subseteq Nat
    BY DEF Ahead
  <2>2. {x \in DOMAIN f.fragments : x <= s - 1} \cup {s} = {x \in DOMAIN f.fragments : x <= s}
    BY <1>1, <2>1
  <2>3. QED
    BY <1>12, <1>13, <1>14, <2>2
<1>16. Read(b)[n].at = s
  BY <1>1, <1>3, <1>12, <1>13
<1>17. Read(AckWith(f, Counted(f, w, s).losts))[Len(Counted(f, w, s).losts)] = Read(b)[n]
  BY <1>4, <1>5 DEF b
<1>18. s <= s
  BY <1>1
<1>19. QED
  <2> DEFINE v == Counted(f, w, s)
  <2>1. v.current = s /\ v.losts = more /\ v.losts # <<>>
    BY <1>4, <1>5
  <2>2. v.current \in Nat /\ v.losts \in Seq(Nat \X Nat)
    BY <1>1, <1>5, <2>1
  <2>3. LET x == Read(AckWith(f, v.losts))[Len(v.losts)]
        IN  x.at = v.current /\ x.received = {y \in DOMAIN f.fragments : y <= s}
    BY <1>15, <1>16, <1>17, <2>1
  <2> HIDE DEF v
  <2>4. CountedTo(f, v, s)
    BY <1>18, <2>1, <2>2, <2>3 DEF CountedTo
  <2>5. QED
    BY <2>4 DEF v

\* What the sender reads in the acknowledgment is what the flow holds.
LEMMA CommitReadsBack ==
    ASSUME NEW f, Ahead(f)
    PROVE  /\ Losts(f) \in Seq(Nat \X Nat)
           /\ ReportedReceived(Ack(f)) = DOMAIN f.fragments
<1> DEFINE a == 0
           n == Newest(f)
           T == {s \in a..n : CountedTo(f, Counts(f)[s], s)
                              /\ Counts(f)[s] = [current |-> Counts(f)[s].current,
                                                 losts |-> Counts(f)[s].losts]}
<1>1. /\ n \in Nat /\ f.stage \in Nat
      /\ \A s \in DOMAIN f.fragments : s \in a..n /\ s # a
  BY NewestStage
<1>2. /\ Counts(f)[a] = [current |-> f.stage, losts |-> <<>>]
      /\ \A s \in a..n : s # a =>
            Counts(f)[s] = IF s \in DOMAIN f.fragments
                           THEN Counted(f, Counts(f)[s - 1], s) ELSE Counts(f)[s - 1]
  BY CountsOf
<1> HIDE DEF n
<1>3. a \in T
  <2> DEFINE w == Counts(f)[a]
  <2>1. w.current = f.stage /\ w.losts = <<>> /\ w = [current |-> w.current, losts |-> w.losts]
    BY <1>2
  <2>2. <<>> \in Seq(Nat \X Nat) /\ Len(<<>>) = 0
    BY EmptySeq
  <2>3. Read(AckWith(f, <<>>))[0] = [at |-> f.stage, received |-> {}]
    <3> DEFINE k == AckWith(f, <<>>)
    <3>1. k.cum = f.stage /\ k.losts = <<>>
      BY DEF AckWith
    <3> HIDE DEF k
    <3>2. QED
      BY <1>1, <2>2, <3>1, ReadOf DEF k
  <2>4. {x \in DOMAIN f.fragments : x <= a} = {}
    BY <1>1
  <2>5. CountedTo(f, w, a)
    BY <1>1, <2>1, <2>2, <2>3, <2>4 DEF CountedTo
  <2>6. QED
    BY <1>1, <2>1, <2>5
<1>4. ASSUME NEW s \in a..n, s \in T, s < n PROVE s + 1 \in T
  <2> DEFINE w == Counts(f)[s]
             v == Counts(f)[s + 1]
  <2>1. s + 1 \in a..n /\ s + 1 # a /\ (s + 1) - 1 = s /\ s \in Nat
    BY <1>1, <1>4
  <2>2. CountedTo(f, w, s) /\ w = [current |-> w.current, losts |-> w.losts]
    BY <1>4
  <2>3. v = IF s + 1 \in DOMAIN f.fragments THEN Counted(f, w, s + 1) ELSE w
    BY <1>2, <2>1
  <2> HIDE DEF w, v
  <2>4. CASE s + 1 \in DOMAIN f.fragments
    <3>1. v = Counted(f, w, s + 1)
      BY <2>3, <2>4
    <3>2. CountedTo(f, v, s + 1)
      BY <2>1, <2>2, <2>4, <3>1, CountedFirst, CountedNext
    <3>3. v = [current |-> v.current, losts |-> v.losts]
      <4>1. CASE w.losts # <<>> /\ s + 1 = w.current + 1
        BY <2>2, <3>1, <4>1 DEF Counted
      <4>2. CASE ~(w.losts # <<>> /\ s + 1 = w.current + 1)
        BY <3>1, <4>2 DEF Counted
      <4>3. QED
        BY <4>1, <4>2
    <3>4. QED
      BY <2>1, <3>2, <3>3 DEF v
  <2>5. CASE s + 1 \notin DOMAIN f.fragments
    <3>1. v = w
      BY <2>3, <2>5
    <3>2. {x \in DOMAIN f.fragments : x <= s + 1} = {x \in DOMAIN f.fragments : x <= s}
      BY <1>1, <2>1, <2>5
    <3>3. CountedTo(f, w, s + 1)
      BY <2>1, <2>2, <3>2 DEF CountedTo
    <3>4. QED
      BY <2>1, <2>2, <3>1, <3>3 DEF v
  <2>6. QED
    BY <2>4, <2>5
<1> HIDE DEF T
<1>5. a..n \subseteq T
  BY <1>1, <1>3, <1>4, AllAlong
<1>6. CountedTo(f, Counts(f)[n], n)
  <2>1. n \in a..n
    BY <1>1
  <2>2. QED
    BY <1>5, <2>1 DEF T
<1>7. Ack(f) = AckWith(f, Losts(f)) /\ Losts(f) = Counts(f)[n].losts
  BY DEF Ack, AckWith, Losts, n
<1>8. Ack(f).losts = Losts(f)
  BY DEF Ack
<1>9. {x \in DOMAIN f.fragments : x <= n} = DOMAIN f.fragments
  BY <1>1
<1>10. QED
  BY <1>6, <1>7, <1>8, <1>9 DEF CountedTo, ReportedReceived

-----------------------------------------------------------------------------
(* fragmentSortedHandler                                                   *)

\* What a sender of this protocol puts on two stages that follow each other.
Linked(s) ==
    /\ PlanPart(s) \in Part /\ PlanPart(s).stage = s
    /\ PlanPart(s).empty => ~PlanPart(s).before /\ ~PlanPart(s).after
    /\ PlanPart(s).before =>
          s > 1 /\ PlanPart(s - 1).after /\ PlanPart(s - 1).message = PlanPart(s).message
    /\ s > 1 /\ PlanPart(s - 1).after => PlanPart(s).before

\* The fragments of a sender are linked to one another.
LEMMA PlanLinked ==
    ASSUME plan \in Plans, NEW s \in 1..MaxStage
    PROVE  Linked(s)
<1>1. MaxStage \in Nat /\ s \in Nat /\ s >= 1 /\ s <= MaxStage
  BY FlowAssumption
<1> DEFINE stages(n, k) == {i \in 1..MaxStage : n[i] = k}
<1> DEFINE Planned(n, abandoned, ended) ==
             /\ plan = PlanOf(n, abandoned, ended)
             /\ \A i \in abandoned : i \in 1..MaxStage /\ stages(n, n[i]) = {i}
<1>0. PICK n \in Numberings : \E abandoned, ended : Planned(n, abandoned, ended)
  BY DEF Plans
<1>2. PICK abandoned, ended : Planned(n, abandoned, ended)
  BY <1>0
<1> HIDE DEF stages
<1>3. n \in [1..MaxStage -> 1..MaxStage]
  BY DEF Numberings
<1>4. ASSUME NEW i \in 1..MaxStage
      PROVE  /\ PlanPart(i).stage = i /\ PlanPart(i).message = n[i]
             /\ PlanPart(i).before = (i > 1 /\ n[i - 1] = n[i])
             /\ PlanPart(i).after = (i < MaxStage /\ n[i + 1] = n[i])
             /\ PlanPart(i).empty = (i \in abandoned)
             /\ PlanPart(i).end = (i \in ended)
             /\ PlanPart(i) = [stage |-> i, message |-> n[i],
                               before |-> (i > 1 /\ n[i - 1] = n[i]),
                               after |-> (i < MaxStage /\ n[i + 1] = n[i]),
                               empty |-> (i \in abandoned), end |-> (i \in ended)]
  <2>1. plan[i] = [message |-> n[i],
                   before |-> (i > 1 /\ n[i - 1] = n[i]),
                   after |-> (i < MaxStage /\ n[i + 1] = n[i]),
                   empty |-> (i \in abandoned),
                   end |-> (i \in ended)]
    BY <1>2 DEF PlanOf
  <2>2. PlanPart(i) = [stage |-> i, message |-> plan[i].message, before |-> plan[i].before,
                       after |-> plan[i].after, empty |-> plan[i].empty, end |-> plan[i].end]
    BY DEF PlanPart, PartOf, ChunkAt
  <2>3. PlanPart(i) = [stage |-> i, message |-> n[i],
                       before |-> (i > 1 /\ n[i - 1] = n[i]),
                       after |-> (i < MaxStage /\ n[i + 1] = n[i]),
                       empty |-> (i \in abandoned), end |-> (i \in ended)]
    BY <2>1, <2>2
  <2>4. QED
    BY <2>3
<1>5. PlanPart(s) \in Part /\ PlanPart(s).stage = s
  <2>1. n[s] \in Nat
    BY <1>1, <1>3
  <2> DEFINE before == (s > 1 /\ n[s - 1] = n[s])
             after == (s < MaxStage /\ n[s + 1] = n[s])
             empty == (s \in abandoned)
             end == (s \in ended)
  <2>2. PlanPart(s) = [stage |-> s, message |-> n[s], before |-> before, after |-> after,
                       empty |-> empty, end |-> end]
    BY <1>4
  <2>3. before \in BOOLEAN /\ after \in BOOLEAN /\ empty \in BOOLEAN /\ end \in BOOLEAN
    OBVIOUS
  <2> HIDE DEF before, after, empty, end
  <2>4. QED
    BY <1>1, <2>1, <2>2, <2>3 DEF Part
<1>6. PlanPart(s).empty => ~PlanPart(s).before /\ ~PlanPart(s).after
  <2> SUFFICES ASSUME s \in abandoned PROVE ~PlanPart(s).before /\ ~PlanPart(s).after
    BY <1>4
  <2>1. stages(n, n[s]) = {s}
    BY <1>2
  <2>2. \A i \in 1..MaxStage : n[i] = n[s] => i = s
    BY <2>1 DEF stages
  <2>3. ~(s > 1 /\ n[s - 1] = n[s])
    BY <1>1, <2>2
  <2>4. ~(s < MaxStage /\ n[s + 1] = n[s])
    BY <1>1, <2>2
  <2>5. QED
    BY <1>4, <2>3, <2>4
<1>7. ASSUME s > 1
      PROVE  PlanPart(s - 1).after = PlanPart(s).before
             /\ PlanPart(s - 1).message = n[s - 1]
  <2>1. s - 1 \in 1..MaxStage /\ s - 1 < MaxStage /\ (s - 1) + 1 = s
    BY <1>1, <1>7
  <2>2. PlanPart(s - 1).after = (n[s] = n[s - 1]) /\ PlanPart(s - 1).message = n[s - 1]
    BY <1>4, <2>1
  <2>3. PlanPart(s).before = (n[s - 1] = n[s])
    BY <1>4, <1>7
  <2>4. QED
    BY <2>2, <2>3
<1>8. PlanPart(s).message = n[s] /\ PlanPart(s).before = (s > 1 /\ n[s - 1] = n[s])
  BY <1>4
<1>9. QED
  BY <1>5, <1>6, <1>7, <1>8 DEF Linked

\* The flow x when it has reached the stage s with this packet and these losses.
At(x, s, packet, lost, delivered) ==
    [open |-> x.open, stage |-> s, fragments |-> x.fragments, packet |-> packet,
     lost |-> lost, completed |-> x.completed, skipped |-> x.skipped,
     arrived |-> x.arrived, delivered |-> delivered]

MissedBy(x, p) == p.stage - x.stage - 1

\* The fragment goes on with the message held.
GoesWith(x, p) == p.before /\ x.packet # <<>> /\ MissedBy(x, p) = 0

\* What a stage beyond the one reached does: it is passed over, goes on with a
\* message or begins one, ends one or is one.
PassedOver(x, p) ==
    At(x, p.stage, <<>>, x.lost + MissedBy(x, p) + (IF p.before THEN 1 ELSE 0), x.delivered)

WentOn(x, p) == At(x, p.stage, Append(x.packet, p), x.lost, x.delivered)

Began(x, p) ==
    At(x, p.stage, <<p>>,
       x.lost + MissedBy(x, p) + (IF MissedBy(x, p) = 0 THEN Len(x.packet) ELSE 0), x.delivered)

Ended(x, p) ==
    At(x, p.stage, <<>>, 0,
       Append(x.delivered, [parts |-> Append(x.packet, p), lost |-> x.lost]))

Came(x, p) ==
    At(x, p.stage, <<>>, 0,
       Append(x.delivered, [parts |-> <<p>>, lost |-> x.lost + MissedBy(x, p)]))

\* These are the outcomes of fragmentSortedHandler.
LEMMA HandlerOutcomes ==
    ASSUME NEW b, NEW x \in Flows(b), NEW p \in Part, p.stage > x.stage,
           p.empty => ~p.before /\ ~p.after
    PROVE  LET y == SortedHandler(x, p)
           IN  \/ (p.empty \/ (p.before /\ ~GoesWith(x, p))) /\ y = PassedOver(x, p)
               \/ GoesWith(x, p) /\ p.after /\ y = WentOn(x, p)
               \/ ~p.before /\ p.after /\ y = Began(x, p)
               \/ GoesWith(x, p) /\ ~p.after /\ y = Ended(x, p)
               \/ ~p.before /\ ~p.after /\ ~p.empty /\ y = Came(x, p)
<1> DEFINE missed == p.stage - x.stage - 1
           held == IF missed > 0 THEN <<>> ELSE x.packet
           lost == x.lost + missed
           reached == [x EXCEPT !.stage = p.stage, !.packet = held, !.lost = lost]
           orphan == p.before /\ held = <<>> /\ (missed > 0 \/ ~p.empty)
           y == SortedHandler(x, p)
<1>1. /\ x = [open |-> x.open, stage |-> x.stage, fragments |-> x.fragments,
              packet |-> x.packet, lost |-> x.lost, completed |-> x.completed,
              skipped |-> x.skipped, arrived |-> x.arrived, delivered |-> x.delivered]
      /\ x.stage \in Nat /\ x.lost \in Nat /\ p.stage \in Nat /\ x.packet \in Seq(Part)
      /\ {p.before, p.after, p.empty} \subseteq BOOLEAN
  BY DEF Flows, Part
<1>2. missed \in Nat /\ MissedBy(x, p) = missed /\ (p.stage <= x.stage) = FALSE
  BY <1>1 DEF MissedBy
<1>3. reached = At(x, p.stage, held, lost, x.delivered)
  <2>1. held \in Seq(Part) /\ lost \in Nat
    BY <1>1, <1>2, EmptySeq
  <2> HIDE DEF held, lost
  <2>2. PICK z : z = reached
    OBVIOUS
  <2>3. z \in Flows(b)
    BY <1>1, <2>1, <2>2 DEF Flows
  <2>4. /\ z.open = x.open /\ z.stage = p.stage /\ z.fragments = x.fragments
        /\ z.packet = held /\ z.lost = lost /\ z.completed = x.completed
        /\ z.skipped = x.skipped /\ z.arrived = x.arrived /\ z.delivered = x.delivered
    BY <2>2 DEF Flows
  <2>5. z = At(x, p.stage, held, lost, x.delivered)
    BY <2>3, <2>4 DEF Flows, At
  <2>6. QED
    BY <2>2, <2>5
<1>4. y = CASE orphan -> [reached EXCEPT !.lost = lost + 1]
            [] ~orphan /\ p.empty -> [reached EXCEPT !.packet = <<>>]
            [] ~orphan /\ ~p.empty /\ p.after ->
                  IF p.before THEN [reached EXCEPT !.packet = Append(held, p)]
                  ELSE [reached EXCEPT !.packet = <<p>>, !.lost = lost + Len(held)]
            [] ~orphan /\ ~p.empty /\ ~p.after ->
                  Processed(reached, IF p.before THEN Append(held, p) ELSE <<p>>, lost)
  BY <1>2 DEF SortedHandler
<1>5. GoesWith(x, p) <=> (p.before /\ held # <<>>)
  <2>1. missed > 0 \/ missed = 0
    BY <1>1, <1>2
  <2>2. CASE missed > 0
    <3>1. held = <<>> /\ MissedBy(x, p) # 0
      BY <1>2, <2>2
    <3>2. QED
      BY <3>1 DEF GoesWith
  <2>3. CASE missed = 0
    <3>1. held = x.packet /\ MissedBy(x, p) = 0
      BY <1>2, <2>3
    <3>2. QED
      BY <3>1 DEF GoesWith
  <2>4. QED
    BY <2>1, <2>2, <2>3
<1>6. held # <<>> => held = x.packet /\ missed = 0 /\ lost = x.lost
  BY <1>1, <1>2
<1>7. missed = 0 => held = x.packet
  OBVIOUS
<1>8. missed # 0 => held = <<>>
  <2>1. missed # 0 => missed > 0
    BY <1>1, <1>2
  <2>2. QED
    BY <2>1
<1>9. Len(<<>>) = 0 /\ lost = x.lost + MissedBy(x, p)
  BY <1>2
<1> HIDE DEF y, held, reached, missed, lost
<1>10. CASE orphan
  <2>1. y = [reached EXCEPT !.lost = lost + 1]
    BY <1>4, <1>10
  <2>2. y = At(x, p.stage, held, lost + 1, x.delivered)
    BY <1>3, <2>1 DEF At
  <2>3. y = PassedOver(x, p)
    BY <1>9, <1>10, <2>2 DEF PassedOver
  <2>4. QED
    BY <1>5, <1>10, <2>3 DEF y
<1>11. CASE ~orphan /\ p.empty
  <2>1. y = [reached EXCEPT !.packet = <<>>]
    BY <1>4, <1>11
  <2>2. y = At(x, p.stage, <<>>, lost, x.delivered)
    BY <1>3, <2>1 DEF At
  <2>3. y = PassedOver(x, p)
    <3>1. lost = x.lost + MissedBy(x, p) + 0
      BY <1>1, <1>2, <1>9
    <3>2. QED
      BY <1>11, <2>2, <3>1 DEF PassedOver
  <2>4. QED
    BY <1>11, <2>3 DEF y
<1>12. CASE ~orphan /\ ~p.empty /\ p.after /\ p.before
  <2>1. held # <<>>
    BY <1>12
  <2>2. y = [reached EXCEPT !.packet = Append(held, p)]
    BY <1>4, <1>12
  <2>3. y = At(x, p.stage, Append(held, p), lost, x.delivered)
    BY <1>3, <2>2 DEF At
  <2>4. QED
    BY <1>5, <1>6, <1>12, <2>1, <2>3 DEF WentOn, y
<1>13. CASE ~orphan /\ ~p.empty /\ p.after /\ ~p.before
  <2>1. y = [reached EXCEPT !.packet = <<p>>, !.lost = lost + Len(held)]
    BY <1>4, <1>13
  <2>2. y = At(x, p.stage, <<p>>, lost + Len(held), x.delivered)
    BY <1>3, <2>1 DEF At
  <2>3. Len(held) = IF missed = 0 THEN Len(x.packet) ELSE 0
    BY <1>7, <1>8, <1>9
  <2>4. y = Began(x, p)
    BY <1>2, <1>9, <2>2, <2>3 DEF Began
  <2>5. QED
    BY <1>13, <2>4 DEF y
<1>14. CASE ~orphan /\ ~p.empty /\ ~p.after
  <2> DEFINE parts == IF p.before THEN Append(held, p) ELSE <<p>>
  <2>1. y = Processed(reached, parts, lost)
    BY <1>4, <1>14
  <2> HIDE DEF parts
  <2>2. y = At(x, p.stage, <<>>, 0, Append(x.delivered, [parts |-> parts, lost |-> lost]))
    BY <1>3, <2>1 DEF At, Processed
  <2>3. CASE p.before
    <3>1. held # <<>> /\ parts = Append(held, p)
      BY <1>14, <2>3 DEF parts
    <3>2. QED
      BY <1>5, <1>6, <1>14, <2>2, <2>3, <3>1 DEF Ended, y
  <2>4. CASE ~p.before
    <3>1. parts = <<p>>
      BY <2>4 DEF parts
    <3>2. QED
      BY <1>9, <1>14, <2>2, <2>4, <3>1 DEF Came, y
  <2>5. QED
    BY <2>3, <2>4
<1>15. QED
  BY <1>10, <1>11, <1>12, <1>13, <1>14

\* A flow along its walk: whatever it holds and handed over is right.
Handed(x) ==
    /\ x \in Flows(x.fragments)
    /\ Assembling(x)
    /\ Told(x.delivered)
    /\ Fits(x)

\* A stage passed over leaves what was handed over, and nothing held.
LEMMA PassedOverSound ==
    ASSUME plan \in Plans, NEW x, Handed(x), GoesOn(x), NEW s \in 1..MaxStage, x.stage < s
    PROVE  LET y == PassedOver(x, PlanPart(s))
           IN  /\ Handed(y) /\ y.stage = s /\ y.fragments = x.fragments /\ GoesOn(y)
               /\ PlanPart(s).empty /\ x.stage = s - 1 /\ Lossless(x) => Lossless(y)
<1> DEFINE p == PlanPart(s)
           y == PassedOver(x, p)
           lost == x.lost + MissedBy(x, p) + (IF p.before THEN 1 ELSE 0)
<1>1. p \in Part /\ p.stage = s /\ s \in Nat /\ (p.empty => ~p.before /\ ~p.after)
  BY PlanLinked DEF Linked
<1>2. /\ x \in Flows(x.fragments) /\ x.stage \in Nat /\ x.lost \in Nat
      /\ x.packet \in Seq(Part) /\ x.delivered \in Seq(Delivery)
  BY DEF Handed, Flows
<1>3. lost \in Nat /\ lost <= x.lost + s - x.stage
  BY <1>1, <1>2, SMTT(30) DEF MissedBy
<1>4. y = At(x, s, <<>>, lost, x.delivered)
  BY <1>1 DEF PassedOver
<1>5. p.empty /\ x.stage = s - 1 => lost = x.lost
  BY <1>1, <1>2 DEF MissedBy
<1> HIDE DEF p, lost, y
<1>6. <<>> \in Seq(Part) /\ Len(<<>>) = 0 /\ DOMAIN <<>> = {}
  BY EmptySeq
<1>7. /\ y \in Flows(y.fragments) /\ y.stage = s /\ y.fragments = x.fragments
      /\ y.packet = <<>> /\ y.lost = lost /\ y.delivered = x.delivered
  BY <1>1, <1>2, <1>3, <1>4, <1>6 DEF At, Flows
<1>8. Assembling(y) /\ GoesOn(y) /\ Told(y.delivered)
  BY <1>6, <1>7 DEF Assembling, GoesOn, Endless, Handed
<1>9. Fits(y)
  <2>1. Lengths(x.delivered) \in Nat
    <3>1. [parts |-> <<>>, lost |-> 0] \in Delivery
      BY <1>6 DEF Delivery
    <3>2. QED
      BY <1>2, <3>1, LengthsAppended
  <2>2. Lengths(x.delivered) + x.lost + Len(x.packet) <= x.stage /\ Len(x.packet) \in Nat
    BY <1>2 DEF Handed, Fits
  <2>3. QED
    BY <1>1, <1>2, <1>3, <1>6, <1>7, <2>1, <2>2 DEF Fits
<1>10. p.empty /\ x.stage = s - 1 /\ Lossless(x) => Lossless(y)
  BY <1>1, <1>5, <1>7 DEF Lossless, p
<1>11. QED
  BY <1>7, <1>8, <1>9, <1>10 DEF Handed, y, p

\* What a flow held is the beginning of the message that the next stage goes on
\* with.
LEMMA GoesWithSound ==
    ASSUME plan \in Plans, NEW x, Handed(x), NEW s \in 1..MaxStage, x.stage < s,
           GoesWith(x, PlanPart(s))
    PROVE  LET parts == Append(x.packet, PlanPart(s))
           IN  /\ parts \in Seq(Part) /\ Len(parts) = Len(x.packet) + 1 /\ Len(parts) <= s
               /\ x.stage = s - 1 /\ ~parts[1].before
               /\ \A i \in DOMAIN parts :
                     /\ parts[i] = PlanPart(s - Len(parts) + i)
                     /\ parts[i].message = parts[1].message /\ ~parts[i].empty
                     /\ parts[i].stage = parts[1].stage + i - 1
                     /\ i # Len(parts) => parts[i].after /\ parts[i] = x.packet[i]
               /\ parts[Len(parts)] = PlanPart(s)
<1> DEFINE p == PlanPart(s)
           q == x.packet
           k == Len(q)
           parts == Append(q, p)
<1>1. /\ p \in Part /\ p.stage = s /\ s \in Nat /\ p.before /\ ~p.empty
      /\ PlanPart(s - 1).message = p.message
  BY PlanLinked DEF Linked, GoesWith
<1>2. /\ x.stage \in Nat /\ q \in Seq(Part) /\ q # <<>> /\ x.stage = s - 1
  BY <1>1 DEF Handed, Flows, GoesWith, MissedBy
<1>3. /\ k \in Nat /\ k <= s - 1 /\ ~q[1].before /\ k > 0 /\ DOMAIN q = 1..k
      /\ \A i \in 1..k : q[i] = PlanPart(s - 1 - k + i) /\ q[i].after /\ q[i].message = q[1].message
  <2>1. /\ k <= x.stage /\ ~q[1].before
        /\ \A i \in DOMAIN q :
              q[i] = PlanPart(x.stage - k + i) /\ q[i].after /\ q[i].message = q[1].message
    BY <1>2 DEF Handed, Assembling
  <2>2. k \in Nat /\ k > 0 /\ DOMAIN q = 1..k
    BY <1>2
  <2> HIDE DEF k, q
  <2>3. QED
    BY <1>2, <2>1, <2>2
<1>4. /\ parts \in Seq(Part) /\ Len(parts) = k + 1 /\ parts[k + 1] = p
      /\ (\A i \in 1..k : parts[i] = q[i]) /\ DOMAIN parts = 1..(k + 1)
  BY <1>1, <1>2, AppendProperties
<1> HIDE DEF parts, k, p, q
<1>5. 1 \in 1..k /\ k \in 1..k /\ parts[1] = q[1]
  BY <1>3, <1>4
<1>6. ASSUME NEW i \in 1..(k + 1) PROVE parts[i] = PlanPart(s - (k + 1) + i)
  <2>1. CASE i \in 1..k
    <3>1. s - (k + 1) + i = s - 1 - k + i
      BY <1>1, <1>3, <2>1
    <3>2. QED
      BY <1>3, <1>4, <2>1, <3>1
  <2>2. CASE i = k + 1
    <3>1. s - (k + 1) + i = s
      BY <1>1, <1>3, <2>2
    <3>2. QED
      BY <1>4, <2>2, <3>1 DEF p
  <2>3. QED
    BY <1>3, <2>1, <2>2
<1>7. q[k].message = p.message
  <2>1. s - 1 - k + k = s - 1
    BY <1>1, <1>3
  <2>2. q[k] = PlanPart(s - 1)
    BY <1>3, <1>5, <2>1
  <2>3. QED
    BY <1>1, <2>2
<1>8. ASSUME NEW i \in 1..(k + 1) PROVE parts[i].message = parts[1].message
  BY <1>3, <1>4, <1>5, <1>7
<1>9. ASSUME NEW i \in 1..(k + 1) PROVE Linked(s - (k + 1) + i)
  <2>1. s - (k + 1) + i \in 1..MaxStage
    BY <1>1, <1>3, FlowAssumption
  <2>2. QED
    BY <2>1, PlanLinked
<1>10. ASSUME NEW i \in 1..(k + 1) PROVE ~parts[i].empty
  <2>1. CASE i \in 1..k
    <3>1. parts[i].after /\ (parts[i].empty => ~parts[i].after)
      BY <1>3, <1>4, <1>6, <1>9, <2>1 DEF Linked
    <3>2. QED
      BY <3>1
  <2>2. CASE i = k + 1
    BY <1>1, <1>4, <2>2
  <2>3. QED
    BY <1>3, <2>1, <2>2
<1>11. ASSUME NEW i \in 1..(k + 1) PROVE parts[i].stage = parts[1].stage + i - 1
  <2>1. parts[i].stage = s - (k + 1) + i
    BY <1>6, <1>9 DEF Linked
  <2>2. 1 \in 1..(k + 1)
    BY <1>3
  <2>3. parts[1].stage = s - (k + 1) + 1
    BY <1>6, <1>9, <2>2 DEF Linked
  <2>4. QED
    BY <1>1, <1>3, <2>1, <2>3
<1>12. ASSUME NEW i \in 1..(k + 1), i # k + 1 PROVE parts[i].after /\ parts[i] = q[i]
  <2>1. i \in 1..k
    BY <1>3, <1>12
  <2>2. QED
    BY <1>3, <1>4, <2>1
<1>13. ~parts[1].before /\ Len(parts) <= s
  BY <1>1, <1>3, <1>4, <1>5
<1>14. QED
  BY <1>2, <1>4, <1>6, <1>8, <1>10, <1>11, <1>12, <1>13 DEF parts, k, p, q

\* One more whole message, after messages none of which carries the end.
LEMMA ToldMore ==
    ASSUME NEW ds \in Seq(Delivery), Told(ds), \A d \in DOMAIN ds : Endless(ds[d].parts),
           NEW parts \in Seq(Part), Whole(parts), NEW lost \in Nat
    PROVE  LET es == Append(ds, [parts |-> parts, lost |-> lost])
           IN  /\ es \in Seq(Delivery) /\ Told(es)
               /\ Endless(parts) => \A d \in DOMAIN es : Endless(es[d].parts)
               /\ Lengths(es) = Lengths(ds) + Len(parts) + lost
<1> DEFINE new == [parts |-> parts, lost |-> lost]
           es == Append(ds, new)
           n == Len(ds)
<1>1. new \in Delivery /\ new.parts = parts /\ new.lost = lost
  BY DEF Delivery
<1> HIDE DEF new
<1>2. /\ es \in Seq(Delivery) /\ Len(es) = n + 1 /\ es[n + 1] = new /\ n \in Nat
      /\ (\A i \in 1..n : es[i] = ds[i]) /\ DOMAIN es = 1..(n + 1) /\ DOMAIN ds = 1..n
  BY <1>1, AppendProperties
<1>3. Lengths(es) = Lengths(ds) + Len(parts) + lost
  BY <1>1, LengthsAppended
<1> HIDE DEF es, n
<1>4. ASSUME NEW d \in 1..(n + 1) PROVE d = n + 1 \/ d \in 1..n
  BY <1>2
<1>5. \A d \in 1..(n + 1) : Whole(es[d].parts)
  BY <1>1, <1>2, <1>4 DEF Told
<1>6. ASSUME NEW d \in 1..(n + 1), NEW e \in 1..(n + 1), d < e PROVE Endless(es[d].parts)
  <2>1. d \in 1..n
    BY <1>2, <1>6
  <2>2. QED
    BY <1>2, <2>1
<1>7. Endless(parts) => \A d \in 1..(n + 1) : Endless(es[d].parts)
  BY <1>1, <1>2, <1>4
<1>8. Told(es)
  BY <1>2, <1>5, <1>6 DEF Told
<1>9. QED
  BY <1>2, <1>3, <1>7, <1>8 DEF es, new

\* What is handed over and held is counted from zero.
LEMMA HandedCounts ==
    ASSUME NEW x, Handed(x)
    PROVE  /\ x \in Flows(x.fragments) /\ x.stage \in Nat /\ x.lost \in Nat
           /\ x.packet \in Seq(Part) /\ x.delivered \in Seq(Delivery)
           /\ Lengths(x.delivered) \in Nat /\ Len(x.packet) \in Nat
           /\ Lengths(x.delivered) + x.lost + Len(x.packet) <= x.stage
<1>1. [parts |-> <<>>, lost |-> 0] \in Delivery
  BY EmptySeq DEF Delivery
<1>2. x.delivered \in Seq(Delivery) /\ x \in Flows(x.fragments) /\ x.packet \in Seq(Part)
  BY DEF Handed, Flows
<1>3. Lengths(x.delivered) \in Nat
  BY <1>1, <1>2, LengthsAppended
<1>4. QED
  BY <1>2, <1>3 DEF Handed, Fits, Flows

\* A message goes on with its next fragment.
LEMMA WentOnSound ==
    ASSUME plan \in Plans, NEW x, Handed(x), GoesOn(x), NEW s \in 1..MaxStage, x.stage < s,
           GoesWith(x, PlanPart(s)), PlanPart(s).after
    PROVE  LET y == WentOn(x, PlanPart(s))
           IN  /\ Handed(y) /\ y.stage = s /\ y.fragments = x.fragments
               /\ ~PlanPart(s).end => GoesOn(y)
               /\ Lossless(x) => Lossless(y)
<1> DEFINE p == PlanPart(s)
           y == WentOn(x, p)
           parts == Append(x.packet, p)
<1>1. p \in Part /\ p.stage = s /\ s \in Nat
  BY PlanLinked DEF Linked
<1>2. /\ parts \in Seq(Part) /\ Len(parts) = Len(x.packet) + 1 /\ Len(parts) <= s
      /\ x.stage = s - 1 /\ ~parts[1].before
      /\ \A i \in DOMAIN parts :
            /\ parts[i] = PlanPart(s - Len(parts) + i)
            /\ parts[i].message = parts[1].message
            /\ i # Len(parts) => parts[i].after /\ parts[i] = x.packet[i]
      /\ parts[Len(parts)] = p
  BY GoesWithSound
<1>3. /\ x \in Flows(x.fragments) /\ x.stage \in Nat /\ x.lost \in Nat
      /\ x.packet \in Seq(Part) /\ x.delivered \in Seq(Delivery)
      /\ Lengths(x.delivered) \in Nat /\ Len(x.packet) \in Nat
      /\ Lengths(x.delivered) + x.lost + Len(x.packet) <= x.stage
  BY HandedCounts
<1>4. y = At(x, s, parts, x.lost, x.delivered)
  BY <1>1 DEF WentOn
<1>5. p.after
  OBVIOUS
<1> HIDE DEF p, y, parts
<1>6. /\ y \in Flows(y.fragments) /\ y.stage = s /\ y.fragments = x.fragments
      /\ y.packet = parts /\ y.lost = x.lost /\ y.delivered = x.delivered
  BY <1>1, <1>2, <1>3, <1>4 DEF At, Flows
<1>7. Len(parts) \in Nat /\ DOMAIN parts = 1..Len(parts) /\ DOMAIN x.packet = 1..Len(x.packet)
      /\ parts # <<>>
  BY <1>2, <1>3
<1>8. \A i \in DOMAIN parts : parts[i].after
  BY <1>2, <1>5
<1>9. Assembling(y)
  BY <1>2, <1>6, <1>8 DEF Assembling
<1>10. Fits(y)
  BY <1>2, <1>3, <1>6 DEF Fits
<1>11. ASSUME ~p.end PROVE GoesOn(y)
  <2>1. ASSUME NEW i \in DOMAIN parts PROVE ~parts[i].end
    <3>1. CASE i = Len(parts)
      BY <1>2, <1>11, <3>1
    <3>2. CASE i # Len(parts)
      <4>1. i \in DOMAIN x.packet /\ parts[i] = x.packet[i]
        BY <1>2, <1>3, <1>7, <3>2
      <4>2. QED
        BY <4>1 DEF GoesOn, Endless
    <3>3. QED
      BY <3>1, <3>2
  <2>2. QED
    BY <1>6, <2>1 DEF GoesOn, Endless
<1>12. Lossless(x) => Lossless(y)
  BY <1>6, <1>7 DEF Lossless
<1>13. Told(y.delivered)
  BY <1>6 DEF Handed
<1>14. QED
  BY <1>6, <1>9, <1>10, <1>11, <1>12, <1>13 DEF Handed, y, p

\* A message is handed over with its last fragment.
LEMMA EndedSound ==
    ASSUME plan \in Plans, NEW x, Handed(x), GoesOn(x), NEW s \in 1..MaxStage, x.stage < s,
           GoesWith(x, PlanPart(s)), ~PlanPart(s).after
    PROVE  LET y == Ended(x, PlanPart(s))
           IN  /\ Handed(y) /\ y.stage = s /\ y.fragments = x.fragments
               /\ ~PlanPart(s).end => GoesOn(y)
               /\ Lossless(x) => Lossless(y)
<1> DEFINE p == PlanPart(s)
           y == Ended(x, p)
           parts == Append(x.packet, p)
           more == Append(x.delivered, [parts |-> parts, lost |-> x.lost])
<1>1. p \in Part /\ p.stage = s /\ s \in Nat
  BY PlanLinked DEF Linked
<1>2. /\ parts \in Seq(Part) /\ Len(parts) = Len(x.packet) + 1 /\ Len(parts) <= s
      /\ x.stage = s - 1 /\ ~parts[1].before
      /\ \A i \in DOMAIN parts :
            /\ parts[i].message = parts[1].message /\ ~parts[i].empty
            /\ parts[i].stage = parts[1].stage + i - 1
            /\ i # Len(parts) => parts[i].after /\ parts[i] = x.packet[i]
      /\ parts[Len(parts)] = p
  BY GoesWithSound
<1>3. /\ x \in Flows(x.fragments) /\ x.stage \in Nat /\ x.lost \in Nat
      /\ x.packet \in Seq(Part) /\ x.delivered \in Seq(Delivery)
      /\ Lengths(x.delivered) \in Nat /\ Len(x.packet) \in Nat
      /\ Lengths(x.delivered) + x.lost + Len(x.packet) <= x.stage
  BY HandedCounts
<1>4. y = At(x, s, <<>>, 0, more)
  BY <1>1 DEF Ended
<1>5. ~p.after
  OBVIOUS
<1> HIDE DEF p, y, parts
<1>6. Len(parts) \in Nat /\ DOMAIN parts = 1..Len(parts) /\ DOMAIN x.packet = 1..Len(x.packet)
      /\ parts # <<>>
  BY <1>2, <1>3
<1>7. Whole(parts)
  BY <1>2, <1>5, <1>6 DEF Whole
<1>8. /\ more \in Seq(Delivery) /\ Told(more)
      /\ Endless(parts) => \A d \in DOMAIN more : Endless(more[d].parts)
      /\ Lengths(more) = Lengths(x.delivered) + Len(parts) + x.lost
  BY <1>2, <1>3, <1>7, ToldMore DEF Handed, GoesOn
<1> HIDE DEF more
<1>9. <<>> \in Seq(Part) /\ Len(<<>>) = 0 /\ DOMAIN <<>> = {}
  BY EmptySeq
<1>10. /\ y \in Flows(y.fragments) /\ y.stage = s /\ y.fragments = x.fragments
       /\ y.packet = <<>> /\ y.lost = 0 /\ y.delivered = more
  BY <1>1, <1>3, <1>4, <1>8, <1>9 DEF At, Flows
<1>11. Assembling(y) /\ Told(y.delivered)
  BY <1>8, <1>10 DEF Assembling
<1>12. Fits(y)
  BY <1>2, <1>3, <1>8, <1>9, <1>10 DEF Fits
<1>13. ASSUME ~p.end PROVE GoesOn(y)
  <2>1. ASSUME NEW i \in DOMAIN parts PROVE ~parts[i].end
    <3>1. CASE i = Len(parts)
      BY <1>2, <1>13, <3>1
    <3>2. CASE i # Len(parts)
      <4>1. i \in DOMAIN x.packet /\ parts[i] = x.packet[i]
        BY <1>2, <1>3, <1>6, <3>2
      <4>2. QED
        BY <4>1 DEF GoesOn, Endless
    <3>3. QED
      BY <3>1, <3>2
  <2>2. QED
    BY <1>8, <1>9, <1>10, <2>1 DEF GoesOn, Endless
<1>14. Lossless(y)
  BY <1>5, <1>10 DEF Lossless, p
<1>15. QED
  BY <1>10, <1>11, <1>12, <1>13, <1>14 DEF Handed, y, p

\* A message begins.
LEMMA BeganSound ==
    ASSUME plan \in Plans, NEW x, Handed(x), GoesOn(x), NEW s \in 1..MaxStage, x.stage < s,
           ~PlanPart(s).before, PlanPart(s).after
    PROVE  LET y == Began(x, PlanPart(s))
           IN  /\ Handed(y) /\ y.stage = s /\ y.fragments = x.fragments
               /\ ~PlanPart(s).end => GoesOn(y)
               /\ x.stage = s - 1 /\ Lossless(x) => Lossless(y)
<1> DEFINE p == PlanPart(s)
           y == Began(x, p)
           lost == x.lost + MissedBy(x, p) + (IF MissedBy(x, p) = 0 THEN Len(x.packet) ELSE 0)
<1>1. p \in Part /\ p.stage = s /\ s \in Nat /\ (s > 1 => ~PlanPart(s - 1).after)
  BY PlanLinked DEF Linked
<1>2. /\ x \in Flows(x.fragments) /\ x.stage \in Nat /\ x.lost \in Nat
      /\ x.packet \in Seq(Part) /\ x.delivered \in Seq(Delivery)
      /\ Lengths(x.delivered) \in Nat /\ Len(x.packet) \in Nat
      /\ Lengths(x.delivered) + x.lost + Len(x.packet) <= x.stage
  BY HandedCounts
<1>3. lost \in Nat /\ lost <= x.lost + s - x.stage - 1 + Len(x.packet)
  <2>1. MissedBy(x, p) = s - x.stage - 1 /\ MissedBy(x, p) \in Nat
    BY <1>1, <1>2 DEF MissedBy
  <2>2. \E held \in Nat : held <= Len(x.packet) /\ lost = x.lost + MissedBy(x, p) + held
    <3>1. CASE MissedBy(x, p) = 0
      BY <1>2, <3>1
    <3>2. CASE MissedBy(x, p) # 0
      BY <1>2, <3>2
    <3>3. QED
      BY <3>1, <3>2
  <2> HIDE DEF lost
  <2>3. PICK held \in Nat : held <= Len(x.packet) /\ lost = x.lost + MissedBy(x, p) + held
    BY <2>2
  <2>4. ASSUME NEW l \in Nat, NEW t \in Nat, NEW n \in Nat, NEW m \in Nat, m = s - t - 1,
               held <= n
        PROVE  l + m + held \in Nat /\ l + m + held <= l + s - t - 1 + n
    BY <1>1, <2>4
  <2>5. QED
    BY <1>2, <2>1, <2>3, <2>4
<1>4. y = At(x, s, <<p>>, lost, x.delivered)
  BY <1>1 DEF Began
<1>5. ~p.before /\ p.after /\ p = PlanPart(s)
  OBVIOUS
<1>6. x.stage = s - 1 /\ Lossless(x) => lost = 0
  <2> SUFFICES ASSUME x.stage = s - 1, Lossless(x) PROVE lost = 0
    OBVIOUS
  <2>1. x.packet = <<>>
    <3> SUFFICES ASSUME x.packet # <<>> PROVE FALSE
      OBVIOUS
    <3> DEFINE k == Len(x.packet)
    <3>1. k \in DOMAIN x.packet /\ k <= x.stage /\ k > 0
      BY <1>2 DEF Handed, Assembling
    <3>2. x.packet[k].after /\ x.packet[k] = PlanPart(x.stage - k + k)
      BY <3>1 DEF Handed, Assembling
    <3>3. x.stage - k + k = s - 1 /\ s > 1
      BY <1>1, <1>2, <3>1
    <3>4. QED
      BY <1>1, <3>2, <3>3
  <2>2. Len(x.packet) = 0 /\ MissedBy(x, p) = 0 /\ x.lost = 0
    BY <1>1, <1>2, <2>1 DEF MissedBy, Lossless
  <2>3. QED
    BY <2>2
<1> HIDE DEF p, y, lost
<1>7. <<p>> \in Seq(Part) /\ Len(<<p>>) = 1 /\ DOMAIN <<p>> = {1} /\ <<p>>[1] = p /\ <<p>> # <<>>
  BY <1>1
<1>8. /\ y \in Flows(y.fragments) /\ y.stage = s /\ y.fragments = x.fragments
      /\ y.packet = <<p>> /\ y.lost = lost /\ y.delivered = x.delivered
  BY <1>1, <1>2, <1>3, <1>4, <1>7 DEF At, Flows
<1>9. Assembling(y)
  <2>1. s - 1 + 1 = s /\ 1 <= s
    BY <1>1
  <2>2. QED
    BY <1>5, <1>7, <1>8, <2>1 DEF Assembling
<1>10. Fits(y)
  <2>1. ASSUME NEW l \in Nat, NEW d \in Nat, NEW e \in Nat, NEW n \in Nat, NEW r \in Nat,
               l <= e + s - r - 1 + n, d + e + n <= r
        PROVE  d + l + 1 <= s
    BY <1>1, <2>1
  <2>2. Lengths(x.delivered) + lost + 1 <= s
    BY <1>2, <1>3, <2>1
  <2>3. Lengths(y.delivered) = Lengths(x.delivered) /\ y.lost = lost /\ Len(y.packet) = 1
    BY <1>7, <1>8
  <2>4. QED
    BY <1>8, <2>2, <2>3 DEF Fits
<1>11. ~p.end => GoesOn(y)
  BY <1>7, <1>8 DEF GoesOn, Endless
<1>12. x.stage = s - 1 /\ Lossless(x) => Lossless(y)
  BY <1>6, <1>7, <1>8 DEF Lossless
<1>13. Told(y.delivered)
  BY <1>8 DEF Handed
<1>14. QED
  BY <1>8, <1>9, <1>10, <1>11, <1>12, <1>13 DEF Handed, y, p

\* A message of one fragment is handed over as it comes.
LEMMA CameSound ==
    ASSUME plan \in Plans, NEW x, Handed(x), GoesOn(x), NEW s \in 1..MaxStage, x.stage < s,
           ~PlanPart(s).before, ~PlanPart(s).after, ~PlanPart(s).empty
    PROVE  LET y == Came(x, PlanPart(s))
           IN  /\ Handed(y) /\ y.stage = s /\ y.fragments = x.fragments
               /\ ~PlanPart(s).end => GoesOn(y)
               /\ Lossless(y)
<1> DEFINE p == PlanPart(s)
           y == Came(x, p)
           lost == x.lost + MissedBy(x, p)
           more == Append(x.delivered, [parts |-> <<p>>, lost |-> lost])
<1>1. p \in Part /\ p.stage = s /\ s \in Nat
  BY PlanLinked DEF Linked
<1>2. /\ x \in Flows(x.fragments) /\ x.stage \in Nat /\ x.lost \in Nat
      /\ x.packet \in Seq(Part) /\ x.delivered \in Seq(Delivery)
      /\ Lengths(x.delivered) \in Nat /\ Len(x.packet) \in Nat
      /\ Lengths(x.delivered) + x.lost + Len(x.packet) <= x.stage
  BY HandedCounts
<1>3. lost \in Nat /\ lost = x.lost + s - x.stage - 1
  BY <1>1, <1>2 DEF MissedBy
<1>4. y = At(x, s, <<>>, 0, more)
  BY <1>1 DEF Came
<1>5. ~p.before /\ ~p.after /\ ~p.empty /\ p = PlanPart(s)
  OBVIOUS
<1> HIDE DEF p, y, lost
<1>6. <<p>> \in Seq(Part) /\ Len(<<p>>) = 1 /\ DOMAIN <<p>> = {1} /\ <<p>>[1] = p /\ <<p>> # <<>>
  BY <1>1
<1>7. Whole(<<p>>)
  <2>1. p.stage = p.stage + 1 - 1
    BY <1>1
  <2>2. QED
    BY <1>5, <1>6, <2>1 DEF Whole
<1>8. /\ more \in Seq(Delivery) /\ Told(more)
      /\ Endless(<<p>>) => \A d \in DOMAIN more : Endless(more[d].parts)
      /\ Lengths(more) = Lengths(x.delivered) + Len(<<p>>) + lost
  BY <1>2, <1>3, <1>6, <1>7, ToldMore DEF Handed, GoesOn
<1> HIDE DEF more
<1>9. <<>> \in Seq(Part) /\ Len(<<>>) = 0 /\ DOMAIN <<>> = {}
  BY EmptySeq
<1>10. /\ y \in Flows(y.fragments) /\ y.stage = s /\ y.fragments = x.fragments
       /\ y.packet = <<>> /\ y.lost = 0 /\ y.delivered = more
  BY <1>1, <1>2, <1>4, <1>8, <1>9 DEF At, Flows
<1>11. Assembling(y) /\ Told(y.delivered)
  BY <1>8, <1>10 DEF Assembling
<1>12. Fits(y)
  <2>1. Lengths(more) = Lengths(x.delivered) + 1 + lost
    BY <1>6, <1>8
  <2>2. Lengths(more) <= s
    <3>1. Lengths(x.delivered) + x.lost <= x.stage
      BY <1>2
    <3>2. ASSUME NEW l \in Nat, NEW t \in Nat, NEW n \in Nat, n + l <= t
          PROVE  n + 1 + (l + s - t - 1) <= s
      BY <1>1, <3>2
    <3>3. QED
      BY <1>2, <1>3, <2>1, <3>1, <3>2
  <2>3. Lengths(more) \in Int
    BY <1>2, <1>3, <2>1
  <2>4. QED
    BY <1>1, <1>9, <1>10, <2>2, <2>3 DEF Fits
<1>13. ~p.end => GoesOn(y)
  BY <1>6, <1>8, <1>9, <1>10 DEF GoesOn, Endless
<1>14. Lossless(y)
  BY <1>5, <1>10 DEF Lossless
<1>15. QED
  BY <1>10, <1>11, <1>12, <1>13, <1>14 DEF Handed, y, p

\* Whatever the stage, what the flow holds and handed over stays right, and
\* nothing is lost when the stage follows and nothing was.
LEMMA HandlerSound ==
    ASSUME plan \in Plans, NEW x, Handed(x), GoesOn(x), NEW s \in 1..MaxStage, x.stage < s
    PROVE  LET y == SortedHandler(x, PlanPart(s))
           IN  /\ Handed(y) /\ y.stage = s /\ y.fragments = x.fragments
               /\ ~PlanPart(s).end => GoesOn(y)
               /\ x.stage = s - 1 /\ Lossless(x) => Lossless(y)
<1> DEFINE p == PlanPart(s)
           y == SortedHandler(x, p)
<1>1. /\ p \in Part /\ p.stage = s /\ s \in Nat /\ (p.empty => ~p.before /\ ~p.after)
      /\ p.before => s > 1 /\ PlanPart(s - 1).after
  BY PlanLinked DEF Linked
<1>2. x \in Flows(x.fragments) /\ x.stage \in Nat
  BY DEF Handed, Flows
<1>3. \/ (p.empty \/ (p.before /\ ~GoesWith(x, p))) /\ y = PassedOver(x, p)
      \/ GoesWith(x, p) /\ p.after /\ y = WentOn(x, p)
      \/ ~p.before /\ p.after /\ y = Began(x, p)
      \/ GoesWith(x, p) /\ ~p.after /\ y = Ended(x, p)
      \/ ~p.before /\ ~p.after /\ ~p.empty /\ y = Came(x, p)
  BY <1>1, <1>2, HandlerOutcomes
<1>4. x.stage = s - 1 /\ Lossless(x) => (p.empty \/ ~(p.before /\ ~GoesWith(x, p)))
  <2> SUFFICES ASSUME x.stage = s - 1, Lossless(x), p.before PROVE GoesWith(x, p)
    OBVIOUS
  <2>1. x.packet # <<>>
    BY <1>1, <1>2 DEF Lossless
  <2>2. MissedBy(x, p) = 0
    BY <1>1 DEF MissedBy
  <2>3. QED
    BY <2>1, <2>2 DEF GoesWith
<1> HIDE DEF y
<1>5. CASE (p.empty \/ (p.before /\ ~GoesWith(x, p))) /\ y = PassedOver(x, p)
  BY <1>4, <1>5, PassedOverSound DEF y
<1>6. CASE GoesWith(x, p) /\ p.after /\ y = WentOn(x, p)
  BY <1>6, WentOnSound DEF y
<1>7. CASE ~p.before /\ p.after /\ y = Began(x, p)
  BY <1>7, BeganSound DEF y
<1>8. CASE GoesWith(x, p) /\ ~p.after /\ y = Ended(x, p)
  BY <1>8, EndedSound DEF y
<1>9. CASE ~p.before /\ ~p.after /\ ~p.empty /\ y = Came(x, p)
  BY <1>9, CameSound DEF y
<1>10. QED
  BY <1>3, <1>5, <1>6, <1>7, <1>8, <1>9

-----------------------------------------------------------------------------
(* fragmentHandler                                                         *)

\* The chunk is one of the sender's.
Carried(c) ==
    /\ c.stage \in 1..MaxStage /\ c.floor \in Nat
    /\ PartOf(c) = PlanPart(c.stage) /\ c.end = PlanPart(c.stage).end

\* A sound flow takes a chunk at once.
Taking(f, c) ==
    /\ plan \in Plans
    /\ Sound(f)
    /\ Carried(c)
    /\ ~f.completed /\ ~Late(f, c) /\ InTurn(f, c)

Last(f, c) == Max(Handled(f, c))

\* The stages handled are beyond the one reached, and bounded.
LEMMA HandledType ==
    ASSUME NEW f, NEW c, Ahead(f), c.stage \in 1..MaxStage, ~Late(f, c)
    PROVE  /\ f.stage \in Nat /\ Last(f, c) \in Handled(f, c) /\ f.stage < Last(f, c)
           /\ Reached(f, c) \subseteq 1..MaxStage /\ Handled(f, c) \subseteq Reached(f, c)
           /\ \A s \in Reached(f, c) : f.stage < s /\ (s \in DOMAIN f.fragments \/ s = c.stage)
           /\ \A s \in Handled(f, c) : s <= Last(f, c)
           /\ \A s \in Handled(f, c) : Ends(f, c, s) => s = Last(f, c)
           /\ Completes(f, c) <=> Ends(f, c, Last(f, c))
<1>1. /\ MaxStage \in Nat /\ f.stage \in Nat /\ DOMAIN f.fragments \subseteq 1..MaxStage
      /\ \A s \in DOMAIN f.fragments : s > f.stage + 1
  BY FlowAssumption DEF Ahead, Flows
<1>2. Reached(f, c) \subseteq 1..MaxStage
  BY <1>1 DEF Reached, Left, Following
<1>3. c.stage > f.stage
  BY <1>1 DEF Late
<1>4. \A s \in Reached(f, c) : s \in DOMAIN f.fragments \/ s = c.stage
  BY DEF Reached, Left, Following
<1>5. ASSUME NEW s \in Reached(f, c) PROVE f.stage < s
  BY <1>1, <1>2, <1>3, <1>4
<1>6. Handled(f, c) \subseteq Reached(f, c)
  BY DEF Handled
<1>7. Handled(f, c) # {}
  <2>1. c.stage \in Reached(f, c) /\ Reached(f, c) \subseteq Nat
    BY <1>2 DEF Reached
  <2>2. PICK n \in Reached(f, c) : \A y \in Reached(f, c) : n <= y
    BY <2>1, LeastNumber
  <2>3. n \in Handled(f, c)
    BY <2>2 DEF Handled
  <2>4. QED
    BY <2>3
<1>8. Last(f, c) \in Handled(f, c) /\ \A s \in Handled(f, c) : s <= Last(f, c)
  <2>1. Handled(f, c) \subseteq 0..MaxStage
    BY <1>1, <1>2, <1>6
  <2>2. QED
    BY <1>7, <2>1, GreatestStage DEF Last
<1>9. ASSUME NEW s \in Handled(f, c), Ends(f, c, s) PROVE s = Last(f, c)
  <2>1. Last(f, c) <= s
    BY <1>6, <1>8, <1>9 DEF Handled
  <2>2. s \in Nat /\ Last(f, c) \in Nat /\ s <= Last(f, c)
    BY <1>2, <1>6, <1>8
  <2>3. QED
    BY <2>1, <2>2
<1>10. Completes(f, c) <=> Ends(f, c, Last(f, c))
  BY <1>8, <1>9 DEF Completes
<1>11. f.stage < Last(f, c)
  BY <1>5, <1>6, <1>8
<1>12. QED
  BY <1>1, <1>2, <1>4, <1>5, <1>6, <1>8, <1>9, <1>10, <1>11

\* Of a planned sender, only the last stage handled may carry the end, and it
\* does when the flow completes.
LEMMA HandledStages ==
    ASSUME NEW f, NEW c, Taking(f, c)
    PROVE  /\ f.stage \in Nat /\ Last(f, c) \in Handled(f, c) /\ f.stage < Last(f, c)
           /\ Reached(f, c) \subseteq 1..MaxStage
           /\ \A s \in Handled(f, c) :
                 /\ s \in Reached(f, c) /\ f.stage < s /\ s <= Last(f, c)
                 /\ s # Last(f, c) => ~PlanPart(s).end
           /\ \A s \in Reached(f, c) :
                 PartAt(f, c, s) = PlanPart(s) /\ Ends(f, c, s) = PlanPart(s).end
           /\ Completes(f, c) = PlanPart(Last(f, c)).end
<1>1. /\ \A s \in DOMAIN f.fragments : f.fragments[s] = PlanPart(s)
      /\ c.stage \in 1..MaxStage /\ Ahead(f) /\ ~Late(f, c)
      /\ PartOf(c) = PlanPart(c.stage) /\ c.end = PlanPart(c.stage).end
  BY DEF Taking, Sound, Carried
<1>2. /\ f.stage \in Nat /\ Last(f, c) \in Handled(f, c) /\ f.stage < Last(f, c)
      /\ Reached(f, c) \subseteq 1..MaxStage /\ Handled(f, c) \subseteq Reached(f, c)
      /\ \A s \in Reached(f, c) : f.stage < s /\ (s \in DOMAIN f.fragments \/ s = c.stage)
      /\ \A s \in Handled(f, c) : s <= Last(f, c)
      /\ \A s \in Handled(f, c) : Ends(f, c, s) => s = Last(f, c)
      /\ Completes(f, c) <=> Ends(f, c, Last(f, c))
  BY <1>1, HandledType
<1>3. ASSUME NEW s \in Reached(f, c)
      PROVE  PartAt(f, c, s) = PlanPart(s) /\ Ends(f, c, s) = PlanPart(s).end
  <2>1. PartAt(f, c, s) = PlanPart(s)
    BY <1>1, <1>2 DEF PartAt
  <2>2. PlanPart(s).end \in BOOLEAN
    <3>1. PlanPart(s) \in Part
      BY <1>2, PlanLinked DEF Linked, Taking
    <3>2. QED
      BY <3>1 DEF Part
  <2>3. Ends(f, c, s) = (PlanPart(s).end \/ (s = c.stage /\ PlanPart(s).end))
    BY <1>1, <2>1 DEF Ends
  <2>4. QED
    BY <2>1, <2>2, <2>3
<1>4. \A s \in Handled(f, c) : s # Last(f, c) => ~PlanPart(s).end
  BY <1>2, <1>3
<1>5. Completes(f, c) = PlanPart(Last(f, c)).end
  <2>1. Completes(f, c) \in BOOLEAN /\ PlanPart(Last(f, c)).end \in BOOLEAN
    <3>1. PlanPart(Last(f, c)) \in Part
      BY <1>2, PlanLinked DEF Linked, Taking
    <3>2. QED
      BY <3>1 DEF Part, Completes
  <2>2. Last(f, c) \in Reached(f, c)
    BY <1>2
  <2>3. Completes(f, c) <=> PlanPart(Last(f, c)).end
    BY <1>2, <1>3, <2>2
  <2>4. QED
    BY <2>1, <2>3
<1>6. QED
  BY <1>2, <1>3, <1>4, <1>5

\* fragmentSortedHandler keeps the types.
LEMMA HandlerType ==
    ASSUME NEW b, NEW x \in Flows(b), NEW p \in Part, p.empty => ~p.before /\ ~p.after
    PROVE  SortedHandler(x, p) \in Flows(b)
<1> DEFINE s == p.stage
           y == SortedHandler(x, p)
<1>1. /\ p \in Part /\ p.stage = s /\ s \in Nat /\ (p.empty => ~p.before /\ ~p.after)
  BY DEF Part
<1>2. /\ x.stage \in Nat /\ x.lost \in Nat /\ x.packet \in Seq(Part) /\ x.fragments = b
      /\ x.delivered \in Seq(Delivery) /\ Len(x.packet) \in Nat
  BY DEF Flows
<1>3. CASE ~(p.stage > x.stage)
  <2>1. p.stage <= x.stage
    BY <1>1, <1>2, <1>3
  <2>2. QED
    BY <2>1 DEF SortedHandler
<1>4. CASE p.stage > x.stage
  <2>1. MissedBy(x, p) \in Nat
    BY <1>1, <1>2, <1>4 DEF MissedBy
  <2>2. <<>> \in Seq(Part) /\ <<p>> \in Seq(Part) /\ Append(x.packet, p) \in Seq(Part)
    BY <1>1, <1>2, EmptySeq, AppendProperties
  <2>3. ASSUME NEW packet \in Seq(Part), NEW lost \in Nat, NEW delivered \in Seq(Delivery)
        PROVE  At(x, s, packet, lost, delivered) \in Flows(b)
    BY <1>1, <1>2 DEF At, Flows
  <2>4. ASSUME NEW parts \in Seq(Part), NEW lost \in Nat
        PROVE  Append(x.delivered, [parts |-> parts, lost |-> lost]) \in Seq(Delivery)
    <3>1. [parts |-> parts, lost |-> lost] \in Delivery
      BY DEF Delivery
    <3>2. QED
      BY <1>2, <3>1, AppendProperties
  <2>5. \/ y = PassedOver(x, p) \/ y = WentOn(x, p) \/ y = Began(x, p) \/ y = Ended(x, p)
        \/ y = Came(x, p)
    BY <1>1, <1>4, HandlerOutcomes
  <2> HIDE DEF y
  <2>6. CASE y = PassedOver(x, p)
    <3>1. x.lost + MissedBy(x, p) + (IF p.before THEN 1 ELSE 0) \in Nat
      BY <1>2, <2>1
    <3>2. y \in Flows(b)
      BY <1>1, <1>2, <2>2, <2>3, <2>6, <3>1 DEF PassedOver
    <3>3. QED
      BY <3>2 DEF y
  <2>7. CASE y = WentOn(x, p)
    <3>1. y \in Flows(b)
      BY <1>1, <1>2, <2>2, <2>3, <2>7 DEF WentOn
    <3>2. QED
      BY <3>1 DEF y
  <2>8. CASE y = Began(x, p)
    <3>1. x.lost + MissedBy(x, p) + (IF MissedBy(x, p) = 0 THEN Len(x.packet) ELSE 0) \in Nat
      BY <1>2, <2>1
    <3>2. y \in Flows(b)
      BY <1>1, <1>2, <2>2, <2>3, <2>8, <3>1 DEF Began
    <3>3. QED
      BY <3>2 DEF y
  <2>9. CASE y = Ended(x, p)
    <3>1. Append(x.delivered, [parts |-> Append(x.packet, p), lost |-> x.lost]) \in Seq(Delivery)
      BY <1>2, <2>2, <2>4
    <3>2. y \in Flows(b)
      BY <1>1, <1>2, <2>2, <2>3, <2>9, <3>1 DEF Ended
    <3>3. QED
      BY <3>2 DEF y
  <2>10. CASE y = Came(x, p)
    <3>1. x.lost + MissedBy(x, p) \in Nat
      BY <1>2, <2>1
    <3>2. Append(x.delivered, [parts |-> <<p>>, lost |-> x.lost + MissedBy(x, p)]) \in Seq(Delivery)
      BY <2>2, <2>4, <3>1
    <3>3. y \in Flows(b)
      BY <1>1, <1>2, <2>2, <2>3, <2>10, <3>2 DEF Came
    <3>4. QED
      BY <3>3 DEF y
  <2>11. QED
    BY <2>5, <2>6, <2>7, <2>8, <2>9, <2>10 DEF y
<1>5. QED
  BY <1>3, <1>4

\* A flow that can walk to the last stage handled.
Walks(f, c) ==
    /\ f \in Flows(f.fragments)
    /\ Last(f, c) \in Nat /\ f.stage < Last(f, c) /\ Handled(f, c) \subseteq 1..MaxStage
    /\ \A s \in Handled(f, c) :
          /\ PartAt(f, c, s) \in Part
          /\ PartAt(f, c, s).empty => ~PartAt(f, c, s).before /\ ~PartAt(f, c, s).after

\* The walk along the stages, from the one reached to the last one handled.
LEMMA WalkAlong ==
    ASSUME NEW f, NEW c, Walks(f, c)
    PROVE  /\ Walk(f, c)[f.stage] = f
           /\ \A s \in f.stage..Last(f, c) : s # f.stage =>
                 Walk(f, c)[s] = IF s \in Handled(f, c)
                                 THEN SortedHandler(Walk(f, c)[s - 1], PartAt(f, c, s))
                                 ELSE Walk(f, c)[s - 1]
<1> DEFINE S == Flows(f.fragments)
           a == f.stage
           n == Last(f, c)
           H == Handled(f, c)
           step == [x \in S \X Nat |->
                      IF x[2] \in H THEN SortedHandler(x[1], PartAt(f, c, x[2])) ELSE x[1]]
           P(r) == r = [s \in a..n |->
                          IF s = a THEN f
                          ELSE IF s \in H THEN SortedHandler(r[s - 1], PartAt(f, c, s))
                          ELSE r[s - 1]]
<1>1. /\ a \in Nat /\ n \in Nat /\ a < n /\ H \subseteq 1..MaxStage
      /\ \A s \in H : /\ PartAt(f, c, s) \in Part
                      /\ PartAt(f, c, s).empty => /\ ~PartAt(f, c, s).before
                                                  /\ ~PartAt(f, c, s).after
  BY DEF Walks, Flows
<1>2. f \in S
  BY DEF Walks
<1>3. step \in [S \X Nat -> S]
  <2>1. ASSUME NEW x \in S \X Nat
        PROVE  (IF x[2] \in H THEN SortedHandler(x[1], PartAt(f, c, x[2])) ELSE x[1]) \in S
    <3>1. x[1] \in S
      OBVIOUS
    <3>2. x[2] \in H => SortedHandler(x[1], PartAt(f, c, x[2])) \in S
      <4> SUFFICES ASSUME x[2] \in H PROVE SortedHandler(x[1], PartAt(f, c, x[2])) \in S
        OBVIOUS
      <4>1. PICK w \in Flows(f.fragments), p \in Part :
               x[1] = w /\ PartAt(f, c, x[2]) = p /\ (p.empty => ~p.before /\ ~p.after)
        BY <1>1, <3>1
      <4>2. SortedHandler(w, p) \in Flows(f.fragments)
        BY <4>1, HandlerType
      <4>3. QED
        BY <4>1, <4>2
    <3>3. QED
      BY <3>1, <3>2
  <2> HIDE DEF S, H
  <2>2. QED
    BY <2>1
<1> HIDE DEF step, S, a, n, H
<1>4. PICK g : WalkOf(g, S, a, n, f, step)
  <2>1. Steps(S, a, n, f, step)
    BY <1>1, <1>2, <1>3 DEF Steps
  <2>2. QED
    BY <2>1, Walked
<1>5. ASSUME NEW s \in a..n, s # a
      PROVE  g[s] = IF s \in H THEN SortedHandler(g[s - 1], PartAt(f, c, s)) ELSE g[s - 1]
  <2>1. s \in Nat /\ g[s - 1] \in S
    BY <1>1, <1>4, <1>5 DEF WalkOf
  <2>2. g[s] = step[<<g[s - 1], s>>]
    BY <1>4, <1>5 DEF WalkOf
  <2>3. QED
    BY <2>1, <2>2 DEF step
<1>6. g = [s \in a..n |-> g[s]] /\ g[a] = f
  <2>1. g \in [a..n -> S] /\ a \in a..n
    BY <1>1, <1>4 DEF WalkOf
  <2>2. g[a] = f
    BY <1>4, <2>1 DEF WalkOf
  <2>3. QED
    BY <2>1, <2>2
<1>7. P(g)
  BY <1>5, <1>6
<1>8. Walk(f, c) = CHOOSE r : P(r)
  BY DEF Walk, a, n, H, Last
<1> HIDE DEF P
<1>9. P(Walk(f, c))
  BY <1>7, <1>8
<1>10. /\ Walk(f, c)[a] = f
       /\ \A s \in a..n : s # a =>
             Walk(f, c)[s] = IF s \in H THEN SortedHandler(Walk(f, c)[s - 1], PartAt(f, c, s))
                             ELSE Walk(f, c)[s - 1]
  BY <1>1, <1>9 DEF P
<1>11. QED
  BY <1>1, <1>10 DEF a, n, H

\* Along the walk what is held and handed over stays right; nothing is lost
\* when no stage is missing.
LEMMA WalkSound ==
    ASSUME NEW f, NEW c, Taking(f, c)
    PROVE  LET x == Walk(f, c)[Last(f, c)]
           IN  /\ Handed(x) /\ x.stage = Last(f, c)
               /\ ~Completes(f, c) => GoesOn(x)
               /\ Lossless(f) /\ (f.stage + 1)..Last(f, c) \subseteq Handled(f, c) => Lossless(x)
<1> DEFINE W == Walk(f, c)
           H == Handled(f, c)
           a == f.stage
           n == Last(f, c)
           full == Lossless(f) /\ (a + 1)..n \subseteq H
           Along(s) == /\ Handed(W[s]) /\ W[s].fragments = f.fragments /\ W[s].stage <= s
                       /\ s \in H \/ s = a => W[s].stage = s
                       /\ (s = n /\ PlanPart(s).end) \/ GoesOn(W[s])
                       /\ full => W[s].stage = s /\ Lossless(W[s])
           T == {s \in a..n : Along(s)}
<1>1. /\ a \in Nat /\ n \in Nat /\ a < n /\ H \subseteq 1..MaxStage /\ n \in H
      /\ \A s \in H : s # n => ~PlanPart(s).end
      /\ Completes(f, c) = PlanPart(n).end
  BY HandledStages
<1>2. /\ W[a] = f
      /\ \A s \in a..n : s # a =>
            W[s] = IF s \in H THEN SortedHandler(W[s - 1], PlanPart(s)) ELSE W[s - 1]
  <2>1. \A s \in H : PartAt(f, c, s) = PlanPart(s)
    BY HandledStages
  <2>2. Walks(f, c)
    <3>1. \A s \in H : /\ PartAt(f, c, s) \in Part
                       /\ PartAt(f, c, s).empty => /\ ~PartAt(f, c, s).before
                                                   /\ ~PartAt(f, c, s).after
      BY <1>1, <2>1, PlanLinked DEF Linked, Taking
    <3>2. f \in Flows(f.fragments)
      BY DEF Taking, Sound, Ahead
    <3>3. QED
      BY <1>1, <3>1, <3>2 DEF Walks
  <2>3. QED
    BY <2>1, <2>2, WalkAlong
<1>3. /\ plan \in Plans /\ Handed(f) /\ GoesOn(f)
  BY DEF Taking, Sound, Handed, Ahead
<1> HIDE DEF W, H, n
<1>4. a \in T
  <2>1. Along(a)
    BY <1>1, <1>2, <1>3
  <2>2. QED
    BY <1>1, <2>1
<1>5. ASSUME NEW s \in a..n, s \in T, s < n PROVE s + 1 \in T
  <2> DEFINE x == W[s]
             y == W[s + 1]
  <2>1. /\ s + 1 \in a..n /\ s + 1 # a /\ (s + 1) - 1 = s /\ s \in Nat
    BY <1>1, <1>5
  <2>2. /\ Handed(x) /\ x.fragments = f.fragments /\ x.stage <= s
        /\ s \in H \/ s = a => x.stage = s
        /\ GoesOn(x)
        /\ full => x.stage = s /\ Lossless(x)
    BY <1>5
  <2>3. y = IF s + 1 \in H THEN SortedHandler(x, PlanPart(s + 1)) ELSE x
    BY <1>2, <2>1
  <2>4. x.stage \in Nat
    BY <2>2, HandedCounts
  <2> HIDE DEF x, y, full
  <2>5. Along(s + 1)
    <3>1. CASE s + 1 \in H
      <4>1. s + 1 \in 1..MaxStage /\ x.stage < s + 1
        BY <1>1, <2>1, <2>2, <2>4, <3>1
      <4>2. y = SortedHandler(x, PlanPart(s + 1))
        BY <2>3, <3>1
      <4>3. /\ Handed(y) /\ y.stage = s + 1 /\ y.fragments = x.fragments
            /\ ~PlanPart(s + 1).end => GoesOn(y)
            /\ x.stage = (s + 1) - 1 /\ Lossless(x) => Lossless(y)
        <5>1. PICK t \in 1..MaxStage : t = s + 1
          BY <4>1
        <5>2. /\ Handed(y) /\ y.stage = t /\ y.fragments = x.fragments
              /\ ~PlanPart(t).end => GoesOn(y)
              /\ x.stage = t - 1 /\ Lossless(x) => Lossless(y)
          BY <1>3, <2>2, <4>1, <4>2, <5>1, HandlerSound
        <5>3. QED
          BY <5>1, <5>2
      <4>4. (s + 1 = n /\ PlanPart(s + 1).end) \/ GoesOn(y)
        BY <1>1, <3>1, <4>3
      <4>5. full => y.stage = s + 1 /\ Lossless(y)
        BY <2>1, <2>2, <4>3
      <4>6. y.stage <= s + 1 /\ y.fragments = f.fragments
        BY <2>1, <2>2, <4>3
      <4>7. QED
        BY <4>3, <4>4, <4>5, <4>6 DEF y
    <3>2. CASE s + 1 \notin H
      <4>1. y = x
        BY <2>3, <3>2
      <4>2. ~full
        <5>1. s + 1 \in (a + 1)..n
          BY <1>1, <2>1
        <5>2. QED
          BY <3>2, <5>1 DEF full
      <4>3. x.stage <= s + 1
        BY <2>1, <2>2, <2>4
      <4>4. QED
        BY <2>1, <2>2, <3>2, <4>1, <4>2, <4>3 DEF y
    <3>3. QED
      BY <3>1, <3>2
  <2>6. QED
    BY <2>1, <2>5
<1> HIDE DEF T
<1>6. a..n \subseteq T
  BY <1>1, <1>4, <1>5, AllAlong
<1>7. Along(n)
  <2>1. n \in a..n
    BY <1>1
  <2>2. QED
    BY <1>6, <2>1 DEF T
<1>8. Handed(W[n]) /\ W[n].stage = n
  BY <1>1, <1>7
<1>9. ~Completes(f, c) => GoesOn(W[n])
  BY <1>1, <1>7
<1>10. full => Lossless(W[n])
  BY <1>7
<1>11. QED
  BY <1>8, <1>9, <1>10 DEF W, n, H

\* Unless a stage is missing, every stage from the one reached to the last one
\* handled has been received.
LEMMA HandledInFull ==
    ASSUME NEW f, NEW c, Taking(f, c), ~Missing(f, c)
    PROVE  /\ (f.stage + 1)..Last(f, c) \subseteq Handled(f, c)
           /\ (f.stage + 1)..Last(f, c) \subseteq f.arrived \cup {c.stage}
<1>1. /\ f.stage \in Nat /\ DOMAIN f.fragments \subseteq 1..MaxStage
      /\ {s \in f.arrived : s > f.stage} = DOMAIN f.fragments
      /\ c.stage \in 1..MaxStage /\ c.floor \in Nat /\ InTurn(f, c) /\ MaxStage \in Nat
  BY FlowAssumption DEF Taking, Sound, Ahead, Flows, Carried, Arrivals
<1>2. /\ Last(f, c) \in Handled(f, c) /\ Last(f, c) \in Reached(f, c) /\ f.stage < Last(f, c)
      /\ Reached(f, c) \subseteq 1..MaxStage
  BY HandledStages
<1>3. \A s \in (f.stage + 1)..c.stage : s \in f.arrived \cup {c.stage}
  BY DEF Missing
<1>4. ASSUME NEW s \in (f.stage + 1)..Last(f, c)
      PROVE  s \in Reached(f, c) /\ s \in f.arrived \cup {c.stage}
  <2>1. s \in Nat /\ s > f.stage /\ s <= Last(f, c) /\ Last(f, c) \in Nat
    BY <1>1, <1>2
  <2>2. CASE s <= c.stage
    <3>1. s \in f.arrived \cup {c.stage}
      BY <1>1, <1>3, <2>1, <2>2
    <3>2. CASE s = c.stage
      BY <3>2 DEF Reached
    <3>3. CASE s # c.stage
      <4>1. s \in DOMAIN f.fragments
        BY <1>1, <2>1, <3>1, <3>3
      <4>2. Skips(f, c)
        BY <1>1, <2>1, <2>2, <3>3 DEF InTurn
      <4>3. QED
        BY <2>2, <3>1, <4>1, <4>2 DEF Reached, Left
    <3>4. QED
      BY <3>2, <3>3, <3>1
  <2>3. CASE ~(s <= c.stage)
    <3>1. s > c.stage /\ Last(f, c) > c.stage
      BY <1>1, <2>1, <2>3
    <3>2. Last(f, c) \notin Left(f, c) /\ Last(f, c) # c.stage
      BY <1>1, <2>1, <3>1 DEF Left
    <3>3. (c.stage + 1)..Last(f, c) \subseteq DOMAIN f.fragments
      BY <1>2, <3>2 DEF Reached, Following
    <3>4. (c.stage + 1)..s \subseteq (c.stage + 1)..Last(f, c) /\ s \in (c.stage + 1)..s
      BY <1>1, <2>1, <3>1
    <3>5. s \in DOMAIN f.fragments /\ (c.stage + 1)..s \subseteq DOMAIN f.fragments
      BY <3>3, <3>4
    <3>6. s \in f.arrived
      BY <1>1, <3>5
    <3>7. QED
      BY <3>1, <3>5, <3>6 DEF Reached, Following
  <2>4. QED
    BY <2>2, <2>3
<1>5. ASSUME NEW s \in (f.stage + 1)..Last(f, c) PROVE s \in Handled(f, c)
  <2>1. ASSUME NEW e \in Reached(f, c), Ends(f, c, e) PROVE s <= e
    <3>1. Last(f, c) <= e
      BY <1>2, <2>1 DEF Handled
    <3>2. s \in Nat /\ Last(f, c) \in Nat /\ e \in Nat /\ s <= Last(f, c)
      BY <1>1, <1>2
    <3>3. QED
      BY <3>1, <3>2
  <2>2. QED
    BY <1>4, <2>1 DEF Handled
<1>6. QED
  BY <1>4, <1>5

\* A chunk taken at once, with the buffered ones that follow it, leaves the
\* flow sound.
LEMMA SortedSound ==
    ASSUME NEW f, NEW c, Taking(f, c)
    PROVE  Sound(Sorted(f, c))
<1> DEFINE n == Last(f, c)
           x == Walk(f, c)[n]
           g == Sorted(f, c)
           kept == [s \in Rest(f, c) |-> f.fragments[s]]
           packet == IF Completes(f, c) THEN <<>> ELSE x.packet
           completed == Completes(f, c)
           skipped == f.skipped \/ Missing(f, c)
           arrived == f.arrived \cup {c.stage}
<1>1. /\ f.open \in BOOLEAN /\ f.stage \in Nat /\ f.skipped \in BOOLEAN /\ f.arrived \subseteq Nat
      /\ DOMAIN f.fragments \subseteq 1..MaxStage /\ MaxStage \in Nat
      /\ \A s \in DOMAIN f.fragments : f.fragments[s] = PlanPart(s)
      /\ c.stage \in 1..MaxStage /\ c.floor \in Nat /\ Ahead(f) /\ ~f.completed
      /\ ~Late(f, c) /\ InTurn(f, c) /\ Arrivals(f)
  BY FlowAssumption DEF Taking, Sound, Ahead, Flows, Carried
<1>2. /\ n \in 1..MaxStage /\ Rest(f, c) \subseteq 1..MaxStage
      /\ \A s \in Rest(f, c) : s > n + 1
  BY <1>1, RestAhead DEF Last
<1>3. /\ Handed(x) /\ x.stage = n
      /\ ~Completes(f, c) => GoesOn(x)
      /\ Lossless(f) /\ (f.stage + 1)..n \subseteq Handled(f, c) => Lossless(x)
  BY WalkSound
<1>4. /\ x.lost \in Nat /\ x.packet \in Seq(Part) /\ x.delivered \in Seq(Delivery)
      /\ Lengths(x.delivered) \in Nat /\ Len(x.packet) \in Nat
      /\ Lengths(x.delivered) + x.lost + Len(x.packet) <= n
  BY <1>3, HandedCounts
<1>5. /\ g.open = f.open /\ g.stage = n /\ g.fragments = kept /\ g.packet = packet
      /\ g.lost = x.lost /\ g.completed = completed /\ g.skipped = skipped
      /\ g.arrived = arrived /\ g.delivered = x.delivered
      /\ g = [open |-> f.open, stage |-> n, fragments |-> kept, packet |-> packet,
              lost |-> x.lost, completed |-> completed, skipped |-> skipped,
              arrived |-> arrived, delivered |-> x.delivered]
  BY DEF Sorted, Last
<1>6. /\ DOMAIN kept = Rest(f, c) /\ \A s \in Rest(f, c) : kept[s] = f.fragments[s]
      /\ kept = [s \in DOMAIN kept |-> kept[s]] /\ Rest(f, c) \subseteq DOMAIN f.fragments
  BY DEF Rest
<1>7. <<>> \in Seq(Part) /\ Len(<<>>) = 0 /\ DOMAIN <<>> = {}
  BY EmptySeq
<1>8. /\ packet \in Seq(Part) /\ completed \in BOOLEAN /\ skipped \in BOOLEAN
      /\ arrived \subseteq Nat /\ Len(packet) <= Len(x.packet) /\ Len(packet) \in Nat
  <2>1. completed \in BOOLEAN /\ skipped \in BOOLEAN
    BY <1>1 DEF Completes, Missing
  <2>2. arrived \subseteq Nat
    BY <1>1
  <2>3. packet \in Seq(Part) /\ Len(packet) <= Len(x.packet) /\ Len(packet) \in Nat
    BY <1>4, <1>7
  <2>4. QED
    BY <2>1, <2>2, <2>3
<1>9. c.stage \in Reached(f, c) /\ n \in Nat /\ f.stage < n
      /\ \A s \in Handled(f, c) : f.stage < s /\ s <= n
  <2>1. c.stage \in Reached(f, c)
    BY DEF Reached
  <2>2. QED
    BY <1>2, <2>1, HandledStages
<1>10. ~Completes(f, c) => c.stage <= n /\ {s \in f.arrived : s > n} = Rest(f, c)
  <2> SUFFICES ASSUME ~Completes(f, c)
               PROVE  c.stage <= n /\ {s \in f.arrived : s > n} = Rest(f, c)
    OBVIOUS
  <2>1. Handled(f, c) = Reached(f, c)
    BY HandledStages, AllHandled
  <2>2. {s \in f.arrived : s > f.stage} = DOMAIN f.fragments
    BY <1>1 DEF Arrivals
  <2>3. Rest(f, c) = DOMAIN f.fragments \ Handled(f, c)
    BY DEF Rest
  <2>4. ASSUME NEW s \in f.arrived, s > n PROVE s \in Rest(f, c)
    <3>1. s \in DOMAIN f.fragments
      BY <1>1, <1>9, <2>2, <2>4
    <3>2. s \notin Handled(f, c)
      BY <1>1, <1>9, <2>4
    <3>3. QED
      BY <2>3, <3>1, <3>2
  <2>5. ASSUME NEW s \in Rest(f, c) PROVE s \in f.arrived /\ s > n
    BY <1>2, <1>6, <2>2
  <2>6. QED
    BY <1>9, <2>1, <2>4, <2>5
<1>11. ~skipped => (f.stage + 1)..n \subseteq arrived /\ Lossless(x)
  BY <1>1, <1>3, HandledInFull DEF Arrivals
<1> HIDE DEF n, x, g, kept, packet, completed, skipped, arrived
<1>12. Ahead(g)
  <2>1. g \in Flows(g.fragments)
    BY <1>1, <1>2, <1>4, <1>5, <1>8, <1>9 DEF Flows
  <2>2. g.stage <= MaxStage
    BY <1>1, <1>2, <1>5
  <2>3. QED
    BY <1>2, <1>5, <1>6, <2>1, <2>2 DEF Ahead
<1>13. \A s \in DOMAIN g.fragments : g.fragments[s] = PlanPart(s)
  BY <1>1, <1>5, <1>6
<1>14. Assembling(g)
  <2>1. packet = <<>> \/ packet = x.packet
    BY DEF packet
  <2>2. QED
    BY <1>3, <1>5, <2>1 DEF Handed, Assembling
<1>15. Told(g.delivered)
  BY <1>3, <1>5 DEF Handed
<1>16. ~g.completed => GoesOn(g)
  BY <1>3, <1>5 DEF GoesOn, completed, packet
<1>17. Fits(g)
  BY <1>4, <1>5, <1>8, <1>9 DEF Fits
<1>18. ~g.completed => {s \in g.arrived : s > g.stage} = DOMAIN g.fragments
  <2> SUFFICES ASSUME ~g.completed
               PROVE  {s \in g.arrived : s > g.stage} = DOMAIN g.fragments
    OBVIOUS
  <2>1. c.stage <= n /\ {s \in f.arrived : s > n} = Rest(f, c)
    BY <1>5, <1>10 DEF completed
  <2>2. {s \in arrived : s > n} = {s \in f.arrived : s > n}
    BY <1>1, <1>9, <2>1 DEF arrived
  <2>3. QED
    BY <1>5, <1>6, <2>1, <2>2
<1>19. ~g.skipped => 1..g.stage \subseteq g.arrived /\ g.lost = 0
  <2> SUFFICES ASSUME ~skipped PROVE 1..n \subseteq arrived /\ x.lost = 0
    BY <1>5
  <2>1. (f.stage + 1)..n \subseteq arrived /\ Lossless(x)
    BY <1>11
  <2>2. 1..f.stage \subseteq arrived
    BY <1>1 DEF Arrivals, skipped, arrived
  <2>3. \A s \in 1..n : s \in 1..f.stage \/ s \in (f.stage + 1)..n
    BY <1>1, <1>9
  <2>4. QED
    BY <2>1, <2>2, <2>3 DEF Lossless
<1>20. ~g.skipped /\ ~g.completed => Lossless(g)
  <2> SUFFICES ASSUME ~skipped, ~completed PROVE Lossless(g)
    BY <1>5
  <2>1. Lossless(x) /\ packet = x.packet
    BY <1>11 DEF packet, completed
  <2>2. QED
    BY <1>3, <1>5, <2>1 DEF Lossless
<1>21. Arrivals(g)
  BY <1>18, <1>19, <1>20 DEF Arrivals
<1>22. QED
  BY <1>12, <1>13, <1>14, <1>15, <1>16, <1>17, <1>21 DEF Sound, g

\* An early chunk is buffered.
LEMMA BufferedSound ==
    ASSUME plan \in Plans, NEW f, Sound(f), NEW c, Carried(c), ~f.completed, ~Late(f, c),
           ~InTurn(f, c)
    PROVE  Sound(Buffered(f, c)) /\ Buffered(f, c).open = f.open
<1> DEFINE g == Buffered(f, c)
           kept == [s \in DOMAIN f.fragments \cup {c.stage} |-> PartAt(f, c, s)]
           arrived == f.arrived \cup {c.stage}
<1>1. /\ f \in Flows(f.fragments) /\ f.stage \in Nat /\ f.stage <= MaxStage
      /\ f.arrived \subseteq Nat
      /\ DOMAIN f.fragments \subseteq 1..MaxStage /\ MaxStage \in Nat
      /\ \A s \in DOMAIN f.fragments : s > f.stage + 1 /\ f.fragments[s] = PlanPart(s)
      /\ c.stage \in 1..MaxStage /\ PartOf(c) = PlanPart(c.stage) /\ Arrivals(f)
  BY FlowAssumption DEF Sound, Ahead, Flows, Carried
<1>2. c.stage > f.stage + 1
  BY <1>1 DEF Late, InTurn
<1>3. /\ f = [open |-> f.open, stage |-> f.stage, fragments |-> f.fragments,
              packet |-> f.packet, lost |-> f.lost, completed |-> f.completed,
              skipped |-> f.skipped, arrived |-> f.arrived, delivered |-> f.delivered]
      /\ f.open \in BOOLEAN /\ f.packet \in Seq(Part) /\ f.lost \in Nat
      /\ f.completed \in BOOLEAN /\ f.skipped \in BOOLEAN /\ f.delivered \in Seq(Delivery)
  BY <1>1 DEF Flows
<1>4. g = [f EXCEPT !.arrived = arrived, !.fragments = kept]
  BY DEF Buffered
<1>5. /\ DOMAIN kept = DOMAIN f.fragments \cup {c.stage}
      /\ kept = [s \in DOMAIN kept |-> kept[s]]
      /\ \A s \in DOMAIN kept : kept[s] = PlanPart(s) /\ s > f.stage + 1 /\ s \in 1..MaxStage
  <2>1. \A s \in DOMAIN f.fragments \cup {c.stage} : kept[s] = PlanPart(s)
    BY <1>1 DEF PartAt
  <2>2. QED
    BY <1>1, <1>2, <2>1
<1> HIDE DEF g, kept
<1>6. g = [open |-> f.open, stage |-> f.stage, fragments |-> kept,
           packet |-> f.packet, lost |-> f.lost, completed |-> f.completed,
           skipped |-> f.skipped, arrived |-> arrived, delivered |-> f.delivered]
  BY <1>3, <1>4
<1>7. arrived \subseteq Nat /\ f.arrived \subseteq arrived
      /\ {s \in arrived : s > f.stage} = {s \in f.arrived : s > f.stage} \cup {c.stage}
  BY <1>1, <1>2
<1> HIDE DEF arrived
<1>8. Ahead(g)
  <2>1. g \in Flows(g.fragments)
    BY <1>1, <1>3, <1>6, <1>7 DEF Flows
  <2>2. QED
    BY <1>1, <1>5, <1>6, <2>1 DEF Ahead
<1>9. \A s \in DOMAIN g.fragments : g.fragments[s] = PlanPart(s)
  BY <1>5, <1>6
<1>10. Assembling(g) /\ Told(g.delivered) /\ (~g.completed => GoesOn(g)) /\ Fits(g)
  BY <1>6 DEF Sound, Assembling, GoesOn, Fits
<1>11. Arrivals(g)
  <2>1. ~g.completed => {s \in g.arrived : s > g.stage} = DOMAIN g.fragments
    BY <1>1, <1>5, <1>6, <1>7 DEF Arrivals
  <2>2. ~g.skipped => 1..g.stage \subseteq g.arrived /\ g.lost = 0
    BY <1>1, <1>6, <1>7 DEF Arrivals
  <2>3. ~g.skipped /\ ~g.completed => Lossless(g)
    BY <1>1, <1>6 DEF Arrivals, Lossless
  <2>4. QED
    BY <2>1, <2>2, <2>3 DEF Arrivals
<1>12. QED
  BY <1>6, <1>8, <1>9, <1>10, <1>11 DEF Sound, g

\* Whatever the chunk, the flow stays sound.
LEMMA FragmentHandlerSound ==
    ASSUME plan \in Plans, NEW f, Sound(f), NEW c, Carried(c)
    PROVE  Sound(FragmentHandler(f, c)) /\ FragmentHandler(f, c).open = f.open
<1>1. CASE f.completed \/ Late(f, c)
  BY <1>1 DEF FragmentHandler
<1>2. CASE ~(f.completed \/ Late(f, c)) /\ InTurn(f, c)
  <2>1. FragmentHandler(f, c) = Sorted(f, c) /\ Taking(f, c)
    BY <1>2 DEF FragmentHandler, Taking
  <2>2. Sorted(f, c).open = f.open
    BY DEF Sorted
  <2>3. QED
    BY <2>1, <2>2, SortedSound
<1>3. CASE ~(f.completed \/ Late(f, c)) /\ ~InTurn(f, c)
  <2>1. FragmentHandler(f, c) = Buffered(f, c)
    BY <1>3 DEF FragmentHandler
  <2>2. QED
    BY <1>3, <2>1, BufferedSound
<1>4. QED
  BY <1>1, <1>2, <1>3

\* A flow that has received nothing is sound.
LEMMA NewFlowSound ==
    ASSUME NEW f, f = NewFlow \/ f = NoFlow
    PROVE  Sound(f)
<1>1. <<>> \in Seq(Part) /\ <<>> \in Seq(Delivery) /\ Len(<<>>) = 0 /\ DOMAIN <<>> = {}
      /\ <<>> = [s \in {} |-> <<>>[s]] /\ MaxStage \in Nat
  BY EmptySeq, FlowAssumption
<1>0. PICK open \in BOOLEAN :
         f = [open |-> open, stage |-> 0, fragments |-> <<>>, packet |-> <<>>, lost |-> 0,
              completed |-> FALSE, skipped |-> FALSE, arrived |-> {}, delivered |-> <<>>]
  <2>1. CASE f = NewFlow
    BY <2>1 DEF NewFlow
  <2>2. CASE f = NoFlow
    BY <2>2 DEF NoFlow, NewFlow
  <2>3. QED
    BY <2>1, <2>2
<1>2. /\ f.open = open /\ f.stage = 0 /\ f.fragments = <<>> /\ f.packet = <<>> /\ f.lost = 0
      /\ ~f.completed /\ ~f.skipped /\ f.arrived = {} /\ f.delivered = <<>>
      /\ f = [open |-> open, stage |-> 0, fragments |-> <<>>, packet |-> <<>>, lost |-> 0,
              completed |-> FALSE, skipped |-> FALSE, arrived |-> {}, delivered |-> <<>>]
  BY <1>0
<1>3. Ahead(f)
  <2>1. f \in Flows(f.fragments)
    <3>1. {} \in SUBSET Nat /\ 0 \in Nat /\ FALSE \in BOOLEAN
      OBVIOUS
    <3> HIDE DEF Delivery
    <3>2. [open |-> open, stage |-> 0, fragments |-> <<>>, packet |-> <<>>, lost |-> 0,
           completed |-> FALSE, skipped |-> FALSE, arrived |-> {}, delivered |-> <<>>]
            \in Flows(<<>>)
      BY <1>1, <3>1 DEF Flows
    <3>3. QED
      BY <1>2, <3>2
  <2>2. DOMAIN f.fragments = {} /\ f.fragments = [s \in DOMAIN f.fragments |-> f.fragments[s]]
    BY <1>1, <1>2
  <2>3. QED
    BY <1>1, <1>2, <2>1, <2>2 DEF Ahead
<1>4. Lengths(<<>>) = 0
  BY <1>1, LengthsOf DEF Lengths
<1>5. Fits(f)
  BY <1>1, <1>2, <1>4 DEF Fits
<1>6. Assembling(f) /\ Told(f.delivered) /\ GoesOn(f)
  BY <1>1, <1>2 DEF Assembling, Told, GoesOn, Endless
<1>7. Lossless(f)
  BY <1>2 DEF Lossless
<1>8. {s \in f.arrived : s > f.stage} = DOMAIN f.fragments /\ 1..f.stage = {}
  BY <1>1, <1>2
<1>9. Arrivals(f)
  BY <1>2, <1>7, <1>8 DEF Arrivals
<1>10. \A s \in DOMAIN f.fragments : f.fragments[s] = PlanPart(s)
  BY <1>8, <1>2
<1>11. QED
  BY <1>3, <1>5, <1>6, <1>9, <1>10 DEF Sound

\* Soundness is of the flow and of the sender's fragments, which do not change.
LEMMA SoundKept ==
    ASSUME NEW g, Sound(g), flow' = g, plan' = plan
    PROVE  Sound(flow)'
<1>1. \A s : PlanPart(s)' = PlanPart(s)
  BY DEF PlanPart, ChunkAt
<1>2. QED
  BY <1>1 DEF Sound, Assembling, Arrivals, Lossless

\* The chunks a sender sends are its own.
LEMMA SentCarried ==
    ASSUME NEW s \in 1..MaxStage, NEW floor \in Nat, NEW header \in BOOLEAN
    PROVE  /\ Carried(ChunkAt(s, floor, header))
           /\ ChunkAt(s, floor, header).stage = s /\ ChunkAt(s, floor, header).floor = floor
           /\ ChunkAt(s, floor, header).header = header
BY DEF Carried, ChunkAt, PlanPart, PartOf

-----------------------------------------------------------------------------
(* The session's steps                                                     *)

\* A chunk for a flow that is sound: what the steps that handle one leave.
LEMMA StepSound ==
    ASSUME FInv, plan' = plan, past' = past, ack' = ack, request' \in Request,
           request'.pFlow \in {"flow", "FlowNull"},
           NEW f, Sound(f), f.open, NEW c, Carried(c),
           \/ flow' = FragmentHandler(f, c) /\ request'.pFlow = "flow"
           \/ flow' = flow /\ request'.pFlow = "FlowNull" /\ ~flow.open
    PROVE  FInv'
<1>1. CASE flow' = FragmentHandler(f, c) /\ request'.pFlow = "flow"
  <2> DEFINE g == FragmentHandler(f, c)
  <2>1. Sound(g) /\ g.open
    BY FragmentHandlerSound DEF FInv
  <2> HIDE DEF g
  <2>2. flow' = g
    BY <1>1 DEF g
  <2>3. Sound(flow)'
    BY <2>1, <2>2, SoundKept
  <2>4. flow'.open
    BY <2>1, <2>2
  <2>5. AckReadsBack'
    BY <1>1 DEF AckReadsBack
  <2>6. QED
    BY <1>1, <2>3, <2>4, <2>5 DEF FInv
<1>2. CASE flow' = flow /\ request'.pFlow = "FlowNull" /\ ~flow.open
  <2>1. Sound(flow)'
    BY <1>2, SoundKept DEF FInv
  <2>2. AckReadsBack'
    BY <1>2 DEF AckReadsBack
  <2>3. QED
    BY <1>2, <2>1, <2>2 DEF FInv
<1>3. QED
  BY <1>1, <1>2

\* The first chunk of a request.
LEMMA NormalRequestSound ==
    ASSUME FInv, UNCHANGED plan, NEW s \in 1..MaxStage, NEW floor \in 0..MaxStage,
           NEW header \in BOOLEAN, NormalRequest(ChunkAt(s, floor, header))
    PROVE  FInv'
<1> DEFINE c == ChunkAt(s, floor, header)
           f == IF flow.open THEN flow ELSE NewFlow
           known == flow.open \/ header
<1>1. floor \in Nat /\ s \in Nat /\ flow.open \in BOOLEAN
  BY FlowAssumption DEF FInv, Sound, Ahead, Flows
<1>2. Carried(c) /\ c.stage = s /\ c.floor = floor /\ c.header = header
  BY <1>1, SentCarried
<1>3. Sound(f) /\ f.open
  <2>1. NewFlow.open
    BY DEF NewFlow
  <2>2. Sound(NewFlow)
    BY NewFlowSound
  <2>3. QED
    BY <2>1, <2>2 DEF FInv
<1>4. /\ request' = [pFlow |-> IF known THEN "flow" ELSE "FlowNull", stage |-> s, floor |-> floor]
      /\ flow' = IF known THEN FragmentHandler(f, c) ELSE flow
      /\ past' = past /\ ack' = ack
  BY <1>2 DEF NormalRequest
<1> HIDE DEF c, f
<1>5. request' \in Request /\ request'.pFlow = IF known THEN "flow" ELSE "FlowNull"
  BY <1>1, <1>4 DEF Request
<1>6. \/ flow' = FragmentHandler(f, c) /\ request'.pFlow = "flow"
      \/ flow' = flow /\ request'.pFlow = "FlowNull" /\ ~flow.open
  BY <1>1, <1>4, <1>5
<1>7. QED
  BY <1>2, <1>3, <1>4, <1>5, <1>6, StepSound

\* A chunk that follows.
LEMMA FollowingRequestSound ==
    ASSUME FInv, UNCHANGED plan, request.stage < MaxStage,
           FollowingRequest(ChunkAt(request.stage + 1, request.floor, FALSE))
    PROVE  FInv'
<1> DEFINE c == ChunkAt(request.stage + 1, request.floor, FALSE)
<1>1. request \in Request /\ request.stage \in Nat /\ request.floor \in Nat
      /\ request.pFlow \in {"NULL", "flow", "FlowNull"}
  BY DEF FInv, Request
<1>2. Carried(c) /\ c.stage = request.stage + 1
  <2>1. PICK s \in 1..MaxStage, floor \in Nat : s = request.stage + 1 /\ floor = request.floor
    BY <1>1, FlowAssumption
  <2>2. QED
    BY <2>1, SentCarried
<1>3. /\ request.pFlow # "NULL" /\ request' = [request EXCEPT !.stage = c.stage]
      /\ flow' = IF request.pFlow = "flow" THEN FragmentHandler(flow, c) ELSE flow
      /\ past' = past /\ ack' = ack
  BY DEF FollowingRequest
<1> HIDE DEF c
<1>4. request' \in Request /\ request'.pFlow = request.pFlow
  <2>1. c.stage \in Nat
    BY <1>1, <1>2
  <2>2. QED
    BY <1>1, <1>3, <2>1 DEF Request
<1>5. CASE request.pFlow = "flow"
  <2>1. Sound(flow) /\ flow.open
    BY <1>5 DEF FInv
  <2>2. flow' = FragmentHandler(flow, c) /\ request'.pFlow = "flow"
    BY <1>3, <1>4, <1>5
  <2>3. QED
    BY <1>2, <1>3, <1>4, <2>1, <2>2, StepSound
<1>6. CASE request.pFlow = "FlowNull"
  <2>1. Sound(NewFlow) /\ NewFlow.open
    <3>1. NewFlow.open
      BY DEF NewFlow
    <3>2. QED
      BY <3>1, NewFlowSound
  <2>2. flow' = flow /\ request'.pFlow = "FlowNull" /\ ~flow.open
    BY <1>3, <1>4, <1>6 DEF FInv
  <2>3. QED
    BY <1>2, <1>3, <1>4, <2>1, <2>2, StepSound
<1>7. QED
  BY <1>1, <1>3, <1>5, <1>6

\* The acknowledgment, and the end of a flow that is complete.
LEMMA CommitSound ==
    ASSUME FInv, UNCHANGED plan, Commit
    PROVE  FInv'
<1>1. /\ request \in Request /\ request.pFlow # "NULL"
      /\ request' = [request EXCEPT !.pFlow = "NULL"]
      /\ ack' = IF request.pFlow = "flow" THEN Ack(flow) ELSE RejectedAck
      /\ plan' = plan
  BY DEF Commit, FInv
<1>2. request' \in Request /\ request'.pFlow = "NULL"
  BY <1>1 DEF Request
<1>3. flow \in Flows(flow.fragments) /\ Ahead(flow)
  BY DEF FInv, Sound, Ahead
<1>4. Losts(flow) \in Seq(Nat \X Nat) /\ ReportedReceived(Ack(flow)) = DOMAIN flow.fragments
  BY <1>3, CommitReadsBack
<1>5. ack'.negative \in BOOLEAN /\ ack'.cum \in Nat /\ ack'.losts \in Seq(Nat \X Nat)
  <2>1. flow.stage \in Nat
    BY <1>3 DEF Flows
  <2>2. CASE request.pFlow = "flow"
    <3>1. ack' = [negative |-> Refused(flow), cum |-> flow.stage, losts |-> Losts(flow)]
      BY <1>1, <2>2 DEF Ack
    <3>2. Refused(flow) \in BOOLEAN
      BY DEF Refused
    <3>3. QED
      BY <1>4, <2>1, <3>1, <3>2
  <2>3. CASE request.pFlow # "flow"
    <3>1. ack' = [negative |-> TRUE, cum |-> 0, losts |-> <<>>] /\ <<>> \in Seq(Nat \X Nat)
      BY <1>1, <2>3, EmptySeq DEF RejectedAck
    <3>2. QED
      BY <3>1
  <2>4. QED
    BY <2>2, <2>3
<1>6. CASE flow.completed
  <2>1. flow' = NoFlow /\ past' = Append(past, flow.delivered)
    BY <1>6 DEF Commit
  <2>2. ~NoFlow.open
    BY DEF NoFlow, NewFlow
  <2>3. Sound(NoFlow)
    BY NewFlowSound
  <2>4. Sound(flow)'
    BY <1>1, <2>1, <2>3, SoundKept
  <2>5. past' \in Seq(Seq(Delivery)) /\ \A n \in DOMAIN past' : Told(past'[n])
    <3>1. /\ past \in Seq(Seq(Delivery)) /\ flow.delivered \in Seq(Delivery)
          /\ \A n \in DOMAIN past : Told(past[n])
          /\ Told(flow.delivered)
      BY <1>3 DEF FInv, Sound, Flows
    <3> DEFINE more == Append(past, flow.delivered)
    <3>2. more \in Seq(Seq(Delivery)) /\ Len(more) = Len(past) + 1 /\ Len(past) \in Nat
          /\ more[Len(past) + 1] = flow.delivered
          /\ \A i \in 1..Len(past) : more[i] = past[i]
      BY <3>1, AppendProperties
    <3> HIDE DEF more
    <3>3. ASSUME NEW n \in DOMAIN more PROVE Told(more[n])
      <4>1. n \in 1..Len(past) \/ n = Len(past) + 1
        BY <3>2
      <4>2. CASE n \in 1..Len(past)
        <5>1. n \in DOMAIN past
          BY <3>1, <4>2
        <5>2. more[n] = past[n]
          BY <3>2, <4>2
        <5>3. QED
          BY <3>1, <5>1, <5>2
      <4>3. CASE n = Len(past) + 1
        BY <3>1, <3>2, <4>3
      <4>4. QED
        BY <4>1, <4>2, <4>3
    <3>4. past' = more
      BY <2>1 DEF more
    <3>5. QED
      BY <3>2, <3>3, <3>4
  <2>6. AckReadsBack'
    BY <2>1, <2>2 DEF AckReadsBack
  <2>7. QED
    BY <1>1, <1>2, <1>5, <2>4, <2>5, <2>6 DEF FInv
<1>7. CASE ~flow.completed
  <2>1. flow' = flow /\ past' = past
    BY <1>7 DEF Commit
  <2>2. Sound(flow)'
    BY <1>1, <2>1, SoundKept DEF FInv
  <2>3. AckReadsBack'
    <3> SUFFICES ASSUME flow'.open
                 PROVE  ack'.cum = flow'.stage /\ ReportedReceived(ack') = DOMAIN flow'.fragments
      BY DEF AckReadsBack
    <3>1. request.pFlow = "flow"
      BY <1>1, <2>1 DEF FInv, Request
    <3>2. ack' = Ack(flow) /\ Ack(flow).cum = flow.stage
      BY <1>1, <3>1 DEF Ack
    <3>3. QED
      BY <1>4, <2>1, <3>2
  <2>4. QED
    BY <1>1, <1>2, <1>5, <2>1, <2>2, <2>3 DEF FInv
<1>8. QED
  BY <1>6, <1>7

\* A step that changes nothing.
LEMMA StutterSound ==
    ASSUME FInv, UNCHANGED vars
    PROVE  FInv'
<1>1. flow' = flow /\ past' = past /\ request' = request /\ ack' = ack /\ plan' = plan
  BY DEF vars
<1>2. Sound(flow)'
  BY <1>1, SoundKept DEF FInv
<1>3. AckReadsBack'
  BY <1>1 DEF FInv, AckReadsBack
<1>4. QED
  BY <1>1, <1>2, <1>3 DEF FInv

\* The invariant is inductive.
LEMMA Inductive == Spec => []FInv
<1>1. Init => FInv
  <2> SUFFICES ASSUME Init PROVE FInv
    OBVIOUS
  <2>1. ~NoFlow.open
    BY DEF NoFlow, NewFlow
  <2>2. Sound(flow) /\ ~flow.open
    BY <2>1, NewFlowSound DEF Init
  <2>3. past \in Seq(Seq(Delivery)) /\ \A n \in DOMAIN past : Told(past[n])
    <3>1. past = <<>>
      BY DEF Init
    <3>2. past \in Seq(Seq(Delivery)) /\ DOMAIN past = {}
      BY <3>1, EmptySeq
    <3>3. QED
      BY <3>2
  <2>4. request \in Request /\ request.pFlow = "NULL"
    BY DEF Init, Request
  <2>5. ack.negative \in BOOLEAN /\ ack.cum \in Nat /\ ack.losts \in Seq(Nat \X Nat)
    <3>1. ack = [negative |-> TRUE, cum |-> 0, losts |-> <<>>] /\ <<>> \in Seq(Nat \X Nat)
      BY EmptySeq DEF Init, RejectedAck
    <3>2. QED
      BY <3>1
  <2>6. AckReadsBack
    BY <2>2 DEF AckReadsBack
  <2>7. QED
    BY <2>2, <2>3, <2>4, <2>5, <2>6 DEF FInv, Init
<1>2. FInv /\ [Next]_vars => FInv'
  <2> SUFFICES ASSUME FInv, [Next]_vars PROVE FInv'
    OBVIOUS
  <2>1. ASSUME UNCHANGED plan, NEW s \in 1..MaxStage, NEW floor \in 0..MaxStage,
               NEW header \in BOOLEAN, NormalRequest(ChunkAt(s, floor, header))
        PROVE  FInv'
    BY <2>1, NormalRequestSound
  <2>2. ASSUME UNCHANGED plan, request.stage < MaxStage,
               FollowingRequest(ChunkAt(request.stage + 1, request.floor, FALSE))
        PROVE  FInv'
    BY <2>2, FollowingRequestSound
  <2>3. ASSUME UNCHANGED plan, Commit PROVE FInv'
    BY <2>3, CommitSound
  <2>4. CASE UNCHANGED vars
    BY <2>4, StutterSound
  <2>5. QED
    BY <2>1, <2>2, <2>3, <2>4 DEF Next
<1>3. QED
  BY <1>1, <1>2, PTL DEF Spec

-----------------------------------------------------------------------------
\* Every variable keeps its type, whatever requests arrive, in whatever order,
\* for any number of stages.
THEOREM TypeCorrect == Spec => []TypeOK
<1>1. FInv => TypeOK
  <2> SUFFICES ASSUME FInv PROVE TypeOK
    OBVIOUS
  <2>1. flow \in Flows(flow.fragments) /\ DOMAIN flow.fragments \subseteq 1..MaxStage
    BY DEF FInv, Sound, Ahead
  <2>2. ASSUME NEW s \in DOMAIN flow.fragments
        PROVE  flow.fragments[s] \in Part /\ flow.fragments[s].stage = s
    <3>1. flow.fragments[s] = PlanPart(s) /\ s \in 1..MaxStage
      BY <2>1 DEF FInv, Sound
    <3>2. Linked(s)
      BY <3>1, PlanLinked DEF FInv
    <3>3. QED
      BY <3>1, <3>2 DEF Linked
  <2>3. \A i \in DOMAIN ack.losts : ack.losts[i] \in Nat \X Nat
    BY DEF FInv
  <2>4. QED
    BY <2>1, <2>2, <2>3 DEF TypeOK, FInv, Flows
<1>2. QED
  BY <1>1, Inductive, PTL

\* Whatever requests arrive, in whatever order, every buffered stage is beyond
\* the next one expected, for any number of stages: the subtraction of commit
\* never wraps.
THEOREM BufferedAheadCorrect == Spec => []BufferedAhead
<1>1. FInv => BufferedAhead
  BY DEF FInv, Sound, Ahead, BufferedAhead
<1>2. QED
  BY <1>1, Inductive, PTL

\* However the fragments of a sender arrive, repeated, reordered, lost or given
\* up, the stream gets whole messages of it, and nothing after the end.
THEOREM DeliveredCorrect == Spec => []DeliveredRight
<1>1. FInv => DeliveredRight
  <2> SUFFICES ASSUME FInv PROVE DeliveredRight
    OBVIOUS
  <2>1. /\ past \in Seq(Seq(Delivery)) /\ flow.delivered \in Seq(Delivery)
        /\ \A n \in DOMAIN past : Told(past[n])
        /\ Told(flow.delivered)
    BY DEF FInv, Sound, Ahead, Flows
  <2>2. ASSUME NEW n \in DOMAIN Deliveries PROVE Told(Deliveries[n])
    <3>1. /\ DOMAIN Deliveries = 1..(Len(past) + 1) /\ Len(past) \in Nat
          /\ Deliveries[Len(past) + 1] = flow.delivered
          /\ \A i \in 1..Len(past) : Deliveries[i] = past[i]
      BY <2>1, AppendProperties DEF Deliveries
    <3>2. n \in 1..Len(past) \/ n = Len(past) + 1
      BY <3>1
    <3>3. QED
      BY <2>1, <3>1, <3>2
  <2>3. DeliveredWhole
    BY <2>2 DEF DeliveredWhole, Told, Whole
  <2>4. EndStops
    BY <2>2 DEF EndStops, Told, Endless
  <2>5. QED
    BY <2>3, <2>4 DEF DeliveredRight
<1>2. QED
  BY <1>1, Inductive, PTL

\* What an acknowledgment says, decoded as the sender does, is what the flow
\* holds, and the losses told to the stream are real and counted once.
THEOREM ReportsCorrect == Spec => []ReportsTrue
<1>1. FInv => ReportsTrue
  BY DEF FInv, Sound, Arrivals, Fits, ReportsTrue, LossOnlyAfterSkip, LossNotOvercounted
<1>2. QED
  BY <1>1, Inductive, PTL
-----------------------------------------------------------------------------
(* A flow and any sender in order                                          *)

\* The stages 1 to n number the fragments pl: those of a message follow each
\* other, and messages come in the order of their names.
Numbering(pl, n) ==
    \A s \in 1..n :
        /\ pl[s].empty => ~pl[s].before /\ ~pl[s].after
        /\ pl[s].before => s > 1 /\ pl[s - 1].after /\ pl[s - 1].message = pl[s].message
        /\ \A t \in 1..n : s < t /\ ~pl[s].after => pl[s].message < pl[t].message

\* The part p is the fragment of its stage; 'ends' are the stages that may
\* carry the end.
Numbered(pl, n, ends, p) ==
    /\ p \in Part /\ p.stage \in 1..n
    /\ p.message = pl[p.stage].message /\ p.before = pl[p.stage].before
    /\ p.after = pl[p.stage].after /\ p.empty = pl[p.stage].empty
    /\ p.end => p.stage \in ends

Name(d) == d.parts[1].message

\* Messages that end at the stages 1 to r, in their order.
InOrder(pl, r, ds) ==
    /\ \A d \in DOMAIN ds : \E s \in 1..r : ~pl[s].after /\ Name(ds[d]) = pl[s].message
    /\ \A d, e \in DOMAIN ds : d < e => Name(ds[d]) < Name(ds[e])

\* What is held begins the message that the stage reached goes on with, and
\* what was handed over is in order.
InStep(pl, f) ==
    /\ f.packet # <<>> => /\ f.stage >= 1 /\ pl[f.stage].after
                          /\ f.packet[1].message = pl[f.stage].message
    /\ InOrder(pl, f.stage, f.delivered)

\* A flow that received nothing else than these fragments.
Follows(pl, n, ends, f) ==
    /\ Ahead(f) /\ f.stage <= n
    /\ \A s \in DOMAIN f.fragments :
          f.fragments[s].stage = s /\ Numbered(pl, n, ends, f.fragments[s])
    /\ f.completed => f.stage \in ends
    /\ InStep(pl, f)

\* Every message up to the stage reached was handed over, or is held.
Full(pl, f) ==
    /\ \A s \in 1..f.stage : (~pl[s].after /\ ~pl[s].empty) =>
          \E d \in DOMAIN f.delivered : Name(f.delivered[d]) = pl[s].message
    /\ (~f.completed /\ f.stage >= 1 /\ pl[f.stage].after) => f.packet # <<>>

\* Nothing handed over is taken back.
Grown(ds, es) == Len(ds) <= Len(es) /\ \A d \in DOMAIN ds : es[d] = ds[d]

\* What was handed over once more, after what was before.
LEMMA GrownByOne ==
    ASSUME NEW ds \in Seq(Delivery), NEW d \in Delivery
    PROVE  LET es == Append(ds, d)
           IN  /\ es \in Seq(Delivery) /\ Len(es) = Len(ds) + 1 /\ Len(ds) \in Nat
               /\ es[Len(es)] = d /\ Len(es) \in DOMAIN es
               /\ \A i \in DOMAIN ds : i \in DOMAIN es /\ es[i] = ds[i] /\ i < Len(es)
               /\ \A i \in DOMAIN es : i \in DOMAIN ds \/ i = Len(es)
               /\ Grown(ds, es)
  BY AppendProperties, LenProperties DEF Grown

\* The message 'new' ends at the stage s, beyond those of 'ds'.
NextMessage(pl, n, r, ds, s, new) ==
    /\ n \in Nat /\ Numbering(pl, n) /\ ds \in Seq(Delivery) /\ r \in Nat
    /\ InOrder(pl, r, ds)
    /\ s \in 1..n /\ r < s /\ ~pl[s].after
    /\ new \in Delivery /\ Name(new) = pl[s].message

\* The step that hands over the message of stage s keeps the order.
LEMMA HandedOver ==
    ASSUME NEW n, NEW pl, NEW ds, NEW r, NEW s, NEW new, NextMessage(pl, n, r, ds, s, new)
    PROVE  LET es == Append(ds, new)
           IN  /\ InOrder(pl, s, es)
               /\ \E d \in DOMAIN es : Name(es[d]) = pl[s].message
               /\ \A d \in DOMAIN ds : \E e \in DOMAIN es : Name(es[e]) = Name(ds[d])
<1> USE DEF NextMessage
<1> DEFINE es == Append(ds, new)
           k == Len(es)
<1>1. /\ es[k] = new /\ k \in DOMAIN es /\ k \in Nat
      /\ \A i \in DOMAIN ds : i \in DOMAIN es /\ es[i] = ds[i] /\ i < k
      /\ \A i \in DOMAIN es : i \in Nat /\ (i \in DOMAIN ds \/ i = k)
  BY GrownByOne
<1> HIDE DEF es, k
<1>2. ASSUME NEW d \in DOMAIN ds PROVE Name(ds[d]) < pl[s].message
  <2>1. PICK t \in 1..r : ~pl[t].after /\ Name(ds[d]) = pl[t].message
    BY DEF InOrder
  <2>2. t \in 1..n /\ t < s
    BY <2>1
  <2>3. QED
    BY <2>1, <2>2 DEF Numbering
<1>3. ASSUME NEW d \in DOMAIN es
      PROVE  \E t \in 1..s : ~pl[t].after /\ Name(es[d]) = pl[t].message
  <2>1. CASE d = k
    BY <1>1, <2>1
  <2>2. CASE d \in DOMAIN ds
    <3>1. PICK t \in 1..r : ~pl[t].after /\ Name(ds[d]) = pl[t].message
      BY <2>2 DEF InOrder
    <3>2. t \in 1..s
      BY <3>1
    <3>3. QED
      BY <1>1, <2>2, <3>1, <3>2
  <2>3. QED
    BY <1>1, <2>1, <2>2
<1>4. ASSUME NEW d \in DOMAIN es, NEW e \in DOMAIN es, d < e
      PROVE  Name(es[d]) < Name(es[e])
  <2>1. d \in DOMAIN ds
    BY <1>1, <1>4
  <2>2. CASE e = k
    BY <1>1, <1>2, <2>1, <2>2
  <2>3. CASE e \in DOMAIN ds
    BY <1>1, <1>4, <2>1, <2>3 DEF InOrder
  <2>4. QED
    BY <1>1, <2>2, <2>3
<1>5. QED
  BY <1>1, <1>3, <1>4 DEF es, InOrder

\* A flow on its walk, at a stage below n.
Underway(pl, n, x) ==
    /\ n \in Nat /\ Numbering(pl, n)
    /\ x \in Flows(x.fragments) /\ x.stage <= n /\ InStep(pl, x)

\* What one step of the walk keeps.
StepsTo(pl, x, y, s) ==
    /\ y \in Flows(x.fragments) /\ y.stage = s
    /\ y.open = x.open /\ y.completed = x.completed
    /\ InStep(pl, y)
    /\ Grown(x.delivered, y.delivered)
    /\ (~x.completed /\ Full(pl, x) /\ x.stage + 1 = s) => Full(pl, y)

\* A stage that hands nothing over, and holds something when it goes on.
LEMMA NothingHanded ==
    ASSUME NEW pl, NEW n, NEW x, Underway(pl, n, x), NEW s \in 1..n, x.stage < s,
           NEW packet \in Seq(Part), NEW lost \in Nat,
           packet # <<>> => pl[s].after /\ packet[1].message = pl[s].message,
           x.stage + 1 = s => (pl[s].after => packet # <<>>) /\ (pl[s].after \/ pl[s].empty),
           At(x, s, packet, lost, x.delivered) \in Flows(x.fragments)
    PROVE  StepsTo(pl, x, At(x, s, packet, lost, x.delivered), s)
<1> DEFINE y == At(x, s, packet, lost, x.delivered)
<1>1. /\ x.stage \in Nat /\ s \in Nat /\ n \in Nat /\ x.delivered \in Seq(Delivery)
      /\ InStep(pl, x)
  BY DEF Underway, Flows
<1>2. /\ y.open = x.open /\ y.completed = x.completed /\ y.stage = s /\ y.packet = packet
      /\ y.delivered = x.delivered
  BY DEF At
<1> HIDE DEF y
<1>3. 1..x.stage \subseteq 1..s /\ s >= 1
  BY <1>1
<1>4. InStep(pl, y)
  <2>1. ASSUME NEW d \in DOMAIN x.delivered
        PROVE  \E t \in 1..s : ~pl[t].after /\ Name(x.delivered[d]) = pl[t].message
    BY <1>1, <1>3 DEF InStep, InOrder
  <2>2. QED
    BY <1>1, <1>2, <1>3, <2>1 DEF InStep, InOrder
<1>5. Grown(x.delivered, y.delivered)
  BY <1>1, <1>2, LenProperties DEF Grown
<1>6. ASSUME Full(pl, x), x.stage + 1 = s PROVE Full(pl, y)
  <2>1. ASSUME NEW t \in 1..s, ~pl[t].after, ~pl[t].empty
        PROVE  \E d \in DOMAIN x.delivered : Name(x.delivered[d]) = pl[t].message
    <3>1. t # s
      BY <1>6, <2>1
    <3>2. t \in 1..x.stage
      BY <1>1, <1>6, <3>1
    <3>3. QED
      BY <1>6, <2>1, <3>2 DEF Full
  <2>2. QED
    BY <1>2, <1>6, <2>1 DEF Full
<1>7. y \in Flows(x.fragments)
  BY DEF y
<1>8. QED
  BY <1>2, <1>4, <1>5, <1>6, <1>7 DEF StepsTo, y

\* A stage that ends a message, and hands it over.
LEMMA OneHanded ==
    ASSUME NEW pl, NEW n, NEW x, Underway(pl, n, x), NEW s \in 1..n, x.stage < s, ~pl[s].after,
           NEW new \in Delivery, Name(new) = pl[s].message,
           At(x, s, <<>>, 0, Append(x.delivered, new)) \in Flows(x.fragments)
    PROVE  StepsTo(pl, x, At(x, s, <<>>, 0, Append(x.delivered, new)), s)
<1> DEFINE es == Append(x.delivered, new)
           y == At(x, s, <<>>, 0, es)
<1>1. /\ x.stage \in Nat /\ s \in Nat /\ n \in Nat /\ x.delivered \in Seq(Delivery)
      /\ InStep(pl, x) /\ Numbering(pl, n)
  BY DEF Underway, Flows
<1>2. /\ y.open = x.open /\ y.completed = x.completed /\ y.stage = s /\ y.packet = <<>>
      /\ y.delivered = es
  BY DEF At
<1>3. /\ InOrder(pl, s, es)
      /\ \E d \in DOMAIN es : Name(es[d]) = pl[s].message
      /\ \A d \in DOMAIN x.delivered : \E e \in DOMAIN es : Name(es[e]) = Name(x.delivered[d])
  <2>1. NextMessage(pl, n, x.stage, x.delivered, s, new)
    BY <1>1 DEF InStep, NextMessage
  <2> HIDE DEF y
  <2>2. QED
    BY <2>1, HandedOver
<1>4. Grown(x.delivered, es)
  BY <1>1, GrownByOne
<1>5. y \in Flows(x.fragments)
  OBVIOUS
<1> HIDE DEF y, es
<1>6. InStep(pl, y)
  BY <1>2, <1>3 DEF InStep
<1>7. ASSUME Full(pl, x), x.stage + 1 = s PROVE Full(pl, y)
  <2>1. ASSUME NEW t \in 1..s, ~pl[t].after, ~pl[t].empty
        PROVE  \E d \in DOMAIN es : Name(es[d]) = pl[t].message
    <3>1. CASE t = s
      BY <1>3, <3>1
    <3>2. CASE t # s
      <4>1. t \in 1..x.stage
        BY <1>1, <1>7, <3>2
      <4>2. PICK d \in DOMAIN x.delivered : Name(x.delivered[d]) = pl[t].message
        BY <1>7, <2>1, <4>1 DEF Full
      <4>3. QED
        BY <1>3, <4>2
    <3>3. QED
      BY <3>1, <3>2
  <2>2. QED
    BY <1>2, <2>1 DEF Full
<1>8. QED
  BY <1>2, <1>4, <1>5, <1>6, <1>7 DEF StepsTo, y, es

\* fragmentSortedHandler keeps a flow in step with the numbering, and full when
\* no stage is missing.
LEMMA HandlerSteps ==
    ASSUME NEW pl, NEW n, NEW x, Underway(pl, n, x), NEW ends, NEW p, Numbered(pl, n, ends, p),
           x.stage < p.stage
    PROVE  StepsTo(pl, x, SortedHandler(x, p), p.stage)
<1> DEFINE s == p.stage
           y == SortedHandler(x, p)
<1>1. /\ x \in Flows(x.fragments) /\ p \in Part /\ s \in 1..n /\ n \in Nat /\ s \in Nat
      /\ p.message = pl[s].message /\ p.before = pl[s].before
      /\ p.after = pl[s].after /\ p.empty = pl[s].empty
      /\ {p.before, p.after, p.empty} \subseteq BOOLEAN
  BY DEF Underway, Numbered, Part
<1>2. /\ p.empty => ~p.before /\ ~p.after
      /\ p.before => s > 1 /\ pl[s - 1].after /\ pl[s - 1].message = pl[s].message
  BY <1>1 DEF Underway, Numbering
<1>3. /\ x.stage \in Nat /\ x.lost \in Nat /\ x.packet \in Seq(Part)
      /\ x.delivered \in Seq(Delivery) /\ Len(x.packet) \in Nat /\ x.stage < s
  BY <1>1 DEF Flows
<1>4. y \in Flows(x.fragments)
  BY <1>1, <1>2, HandlerType
<1>5. \/ (p.empty \/ (p.before /\ ~GoesWith(x, p))) /\ y = PassedOver(x, p)
      \/ GoesWith(x, p) /\ p.after /\ y = WentOn(x, p)
      \/ ~p.before /\ p.after /\ y = Began(x, p)
      \/ GoesWith(x, p) /\ ~p.after /\ y = Ended(x, p)
      \/ ~p.before /\ ~p.after /\ ~p.empty /\ y = Came(x, p)
  BY <1>1, <1>2, <1>3, HandlerOutcomes
<1>6. MissedBy(x, p) \in Nat /\ (x.stage + 1 = s => MissedBy(x, p) = 0)
  BY <1>1, <1>3 DEF MissedBy
\* What GoesWith says of the message held.
<1>7. ASSUME GoesWith(x, p) PROVE /\ x.packet # <<>> /\ x.packet[1].message = pl[s].message
                                  /\ x.packet[1] \in Part
  <2>1. x.packet # <<>> /\ p.before /\ x.stage = s - 1
    BY <1>1, <1>3, <1>7 DEF GoesWith, MissedBy
  <2>2. x.packet[1].message = pl[x.stage].message
    BY <2>1 DEF Underway, InStep
  <2>3. QED
    BY <1>2, <1>3, <2>1, <2>2, EmptySeq
\* A full flow holds the message that the next stage goes on with.
<1>8. ASSUME ~x.completed, Full(pl, x), x.stage + 1 = s, p.before PROVE GoesWith(x, p)
  <2>1. x.stage = s - 1 /\ s > 1
    BY <1>1, <1>2, <1>3, <1>8
  <2>2. x.stage >= 1 /\ pl[x.stage].after
    BY <1>2, <1>3, <1>8, <2>1
  <2>3. x.packet # <<>>
    BY <1>8, <2>2 DEF Full
  <2>4. QED
    BY <1>6, <1>8, <2>3 DEF GoesWith
<1>9. <<>> \in Seq(Part) /\ <<p>> \in Seq(Part) /\ Append(x.packet, p) \in Seq(Part)
      /\ <<p>> # <<>> /\ <<p>>[1] = p
  BY <1>1, <1>3, EmptySeq, AppendProperties
<1> HIDE DEF y
<1>10. CASE (p.empty \/ (p.before /\ ~GoesWith(x, p))) /\ y = PassedOver(x, p)
  <2> DEFINE lost == x.lost + MissedBy(x, p) + (IF p.before THEN 1 ELSE 0)
  <2>1. lost \in Nat /\ y = At(x, s, <<>>, lost, x.delivered)
    BY <1>3, <1>6, <1>10 DEF PassedOver
  <2> HIDE DEF lost, s
  <2>2. CASE p.empty
    <3>1. x.stage + 1 = s => (pl[s].after => <<>> # <<>>) /\ (pl[s].after \/ pl[s].empty)
      BY <1>1, <1>2, <2>2
    <3>2. StepsTo(pl, x, At(x, s, <<>>, lost, x.delivered), s)
      BY <1>1, <1>3, <1>4, <1>9, <2>1, <3>1, NothingHanded
    <3>3. QED
      BY <2>1, <3>2 DEF s, y
  <2>3. CASE p.before /\ ~GoesWith(x, p)
    <3>1. ~(~x.completed /\ Full(pl, x) /\ x.stage + 1 = s)
      BY <1>8, <2>3 DEF s
    <3>2. /\ y.open = x.open /\ y.completed = x.completed /\ y.stage = s /\ y.packet = <<>>
          /\ y.delivered = x.delivered
      BY <2>1 DEF At
    <3>3. InStep(pl, x) /\ 1..x.stage \subseteq 1..s
      BY <1>1, <1>3 DEF Underway
    <3>4. ASSUME NEW d \in DOMAIN x.delivered
          PROVE  \E t \in 1..s : ~pl[t].after /\ Name(x.delivered[d]) = pl[t].message
      BY <3>3 DEF InStep, InOrder
    <3>5. InStep(pl, y)
      BY <3>2, <3>3, <3>4 DEF InStep, InOrder
    <3>6. Grown(x.delivered, y.delivered)
      BY <1>3, <3>2, LenProperties DEF Grown
    <3>7. QED
      BY <1>4, <3>1, <3>2, <3>5, <3>6 DEF StepsTo, s, y
  <2>4. QED
    BY <1>10, <2>2, <2>3
<1>11. CASE GoesWith(x, p) /\ p.after /\ y = WentOn(x, p)
  <2> DEFINE packet == Append(x.packet, p)
  <2>1. y = At(x, s, packet, x.lost, x.delivered)
    BY <1>11 DEF WentOn
  <2>2. packet \in Seq(Part) /\ packet # <<>> /\ packet[1] = x.packet[1]
    BY <1>1, <1>3, <1>7, <1>11, AppendProperties
  <2> HIDE DEF packet, s
  <2>3. packet # <<>> => pl[s].after /\ packet[1].message = pl[s].message
    BY <1>1, <1>7, <1>11, <2>2 DEF s
  <2>4. StepsTo(pl, x, At(x, s, packet, x.lost, x.delivered), s)
    BY <1>1, <1>3, <1>4, <2>1, <2>2, <2>3, NothingHanded
  <2>5. QED
    BY <2>1, <2>4 DEF s, y
<1>12. CASE ~p.before /\ p.after /\ y = Began(x, p)
  <2> DEFINE lost == x.lost + MissedBy(x, p) + (IF MissedBy(x, p) = 0 THEN Len(x.packet) ELSE 0)
             packet == <<p>>
  <2>1. lost \in Nat /\ y = At(x, s, packet, lost, x.delivered)
    BY <1>3, <1>6, <1>12 DEF Began
  <2>2. packet \in Seq(Part) /\ packet # <<>> /\ packet[1] = p
    BY <1>9
  <2> HIDE DEF packet, s, lost
  <2>3. packet # <<>> => pl[s].after /\ packet[1].message = pl[s].message
    BY <1>1, <1>12, <2>2 DEF s
  <2>4. pl[s].after
    BY <2>2, <2>3
  <2>5. StepsTo(pl, x, At(x, s, packet, lost, x.delivered), s)
    BY <1>1, <1>3, <1>4, <2>1, <2>2, <2>3, <2>4, NothingHanded
  <2>6. QED
    BY <2>1, <2>5 DEF s, y
<1>13. CASE GoesWith(x, p) /\ ~p.after /\ y = Ended(x, p)
  <2> DEFINE parts == Append(x.packet, p)
             new == [parts |-> parts, lost |-> x.lost]
  <2>1. y = At(x, s, <<>>, 0, Append(x.delivered, new))
    BY <1>13 DEF Ended
  <2>2. parts \in Seq(Part) /\ parts[1] = x.packet[1]
    BY <1>1, <1>3, <1>7, <1>13, AppendProperties
  <2> HIDE DEF parts
  <2>3. new \in Delivery /\ Name(new) = pl[s].message
    BY <1>3, <1>7, <1>13, <2>2 DEF Delivery, Name
  <2> HIDE DEF new, s
  <2>4. ~pl[s].after
    BY <1>1, <1>13 DEF s
  <2>5. StepsTo(pl, x, At(x, s, <<>>, 0, Append(x.delivered, new)), s)
    BY <1>1, <1>3, <1>4, <2>1, <2>3, <2>4, OneHanded
  <2>6. QED
    BY <2>1, <2>5 DEF s, y
<1>14. CASE ~p.before /\ ~p.after /\ ~p.empty /\ y = Came(x, p)
  <2> DEFINE parts == <<p>>
             lost == x.lost + MissedBy(x, p)
             new == [parts |-> parts, lost |-> lost]
  <2>1. y = At(x, s, <<>>, 0, Append(x.delivered, new)) /\ lost \in Nat
    BY <1>3, <1>6, <1>14 DEF Came
  <2>2. parts \in Seq(Part) /\ parts[1] = p
    BY <1>9
  <2> HIDE DEF parts, lost
  <2>3. new \in Delivery /\ Name(new) = pl[s].message
    BY <1>1, <2>1, <2>2 DEF Delivery, Name
  <2> HIDE DEF new, s
  <2>4. ~pl[s].after
    BY <1>1, <1>14 DEF s
  <2>5. StepsTo(pl, x, At(x, s, <<>>, 0, Append(x.delivered, new)), s)
    BY <1>1, <1>3, <1>4, <2>1, <2>3, <2>4, OneHanded
  <2>6. QED
    BY <2>1, <2>5 DEF s, y
<1>15. QED
  BY <1>5, <1>10, <1>11, <1>12, <1>13, <1>14

\* The chunk is one of the sender's.
Comes(pl, n, ends, c) ==
    /\ Numbered(pl, n, ends, PartOf(c)) /\ c.stage \in 1..n /\ c.floor \in Nat
    /\ c.end \in BOOLEAN /\ (c.end => c.stage \in ends)

\* A flow in step with the numbering takes a chunk of it at once.
Takes(pl, n, ends, f, c) ==
    /\ n \in 0..MaxStage /\ Numbering(pl, n)
    /\ Follows(pl, n, ends, f) /\ Comes(pl, n, ends, c)
    /\ ~f.completed /\ ~Late(f, c) /\ InTurn(f, c)

\* The fragments handled are the sender's, and the last one carries the end
\* when the flow completes.
LEMMA TakenParts ==
    ASSUME NEW pl, NEW n, NEW ends, NEW f, NEW c, Takes(pl, n, ends, f, c)
    PROVE  /\ Walks(f, c)
           /\ \A s \in Handled(f, c) :
                 PartAt(f, c, s).stage = s /\ Numbered(pl, n, ends, PartAt(f, c, s))
           /\ Last(f, c) \in 1..n /\ Last(f, c) \in Handled(f, c)
           /\ \A s \in Handled(f, c) : f.stage < s /\ s <= Last(f, c)
           /\ Completes(f, c) => Last(f, c) \in ends
           /\ ~Skips(f, c) => (f.stage + 1)..Last(f, c) \subseteq Handled(f, c)
<1>1. /\ n \in 0..MaxStage /\ MaxStage \in Nat /\ Numbering(pl, n)
      /\ c.stage \in 1..n /\ c.stage \in 1..MaxStage /\ Ahead(f) /\ ~Late(f, c) /\ InTurn(f, c)
      /\ \A s \in DOMAIN f.fragments :
            f.fragments[s].stage = s /\ Numbered(pl, n, ends, f.fragments[s])
      /\ Numbered(pl, n, ends, PartOf(c)) /\ (c.end => c.stage \in ends) /\ c.floor \in Nat
  BY FlowAssumption DEF Takes, Follows, Comes
<1>2. /\ f.stage \in Nat /\ Last(f, c) \in Handled(f, c) /\ f.stage < Last(f, c)
      /\ Reached(f, c) \subseteq 1..MaxStage /\ Handled(f, c) \subseteq Reached(f, c)
      /\ \A s \in Reached(f, c) : f.stage < s /\ (s \in DOMAIN f.fragments \/ s = c.stage)
      /\ \A s \in Handled(f, c) : s <= Last(f, c)
      /\ \A s \in Handled(f, c) : Ends(f, c, s) => s = Last(f, c)
      /\ Completes(f, c) <=> Ends(f, c, Last(f, c))
  BY <1>1, HandledType
<1>3. ASSUME NEW s \in Reached(f, c)
      PROVE  /\ PartAt(f, c, s).stage = s /\ Numbered(pl, n, ends, PartAt(f, c, s))
             /\ Ends(f, c, s) => s \in ends
  <2>1. CASE s \in DOMAIN f.fragments
    <3>1. PartAt(f, c, s) = f.fragments[s]
      BY <2>1 DEF PartAt
    <3>2. QED
      BY <1>1, <2>1, <3>1 DEF Ends, Numbered
  <2>2. CASE s \notin DOMAIN f.fragments
    <3>1. s = c.stage /\ PartAt(f, c, s) = PartOf(c)
      BY <1>2, <2>2 DEF PartAt
    <3>2. PartOf(c).stage = s
      BY <3>1 DEF PartOf
    <3>3. QED
      BY <1>1, <3>1, <3>2 DEF Ends, Numbered
  <2>3. QED
    BY <2>1, <2>2
<1>4. Walks(f, c)
  <2>1. f \in Flows(f.fragments)
    BY <1>1 DEF Ahead
  <2>2. ASSUME NEW s \in Handled(f, c)
        PROVE  /\ PartAt(f, c, s) \in Part
               /\ PartAt(f, c, s).empty => ~PartAt(f, c, s).before /\ ~PartAt(f, c, s).after
    <3>1. PartAt(f, c, s).stage = s /\ Numbered(pl, n, ends, PartAt(f, c, s))
      BY <1>2, <1>3
    <3>2. QED
      BY <1>1, <3>1 DEF Numbered, Numbering
  <2>3. QED
    BY <1>1, <1>2, <2>1, <2>2 DEF Walks
<1>5. Last(f, c) \in 1..n
  BY <1>2, <1>3 DEF Numbered
<1>6. ASSUME ~Skips(f, c), NEW s \in (f.stage + 1)..Last(f, c) PROVE s \in Handled(f, c)
  <2>1. c.stage = f.stage + 1 /\ s \in Nat /\ Last(f, c) \in Nat /\ s <= Last(f, c)
        /\ c.stage <= s /\ c.stage \in Nat
    BY <1>1, <1>2, <1>5, <1>6 DEF InTurn
  <2>2. s \in Reached(f, c)
    <3>1. CASE s = c.stage
      BY <3>1 DEF Reached
    <3>2. CASE s # c.stage
      <4>1. s > c.stage /\ Last(f, c) > c.stage
        BY <2>1, <3>2
      <4>2. Last(f, c) \in Following(f, c)
        BY <1>2, <1>6, <2>1, <4>1 DEF Reached, Left
      <4>3. (c.stage + 1)..Last(f, c) \subseteq DOMAIN f.fragments
        BY <4>2 DEF Following
      <4>4. (c.stage + 1)..s \subseteq (c.stage + 1)..Last(f, c) /\ s \in (c.stage + 1)..s
        BY <2>1, <4>1
      <4>5. s \in Following(f, c)
        BY <4>1, <4>3, <4>4 DEF Following
      <4>6. QED
        BY <4>5 DEF Reached
    <3>3. QED
      BY <3>1, <3>2
  <2>3. ASSUME NEW e \in Reached(f, c), Ends(f, c, e) PROVE s <= e
    <3>1. Last(f, c) <= e /\ e \in Nat
      BY <1>2, <2>3 DEF Handled
    <3>2. QED
      BY <2>1, <3>1
  <2>4. QED
    BY <2>2, <2>3 DEF Handled
<1>7. QED
  BY <1>2, <1>3, <1>4, <1>5, <1>6

\* At the end of its walk a flow is still in step, and full when nothing was
\* skipped.
LEMMA WalkSteps ==
    ASSUME NEW pl, NEW n, NEW ends, NEW f, NEW c, Takes(pl, n, ends, f, c)
    PROVE  LET x == Walk(f, c)[Last(f, c)]
           IN  /\ x \in Flows(f.fragments) /\ x.stage = Last(f, c) /\ x.open = f.open
               /\ InStep(pl, x) /\ Grown(f.delivered, x.delivered) /\ ~x.completed
               /\ Full(pl, f) /\ ~Skips(f, c) => Full(pl, x)
<1> DEFINE W == Walk(f, c)
           H == Handled(f, c)
           a == f.stage
           m == Last(f, c)
           full == Full(pl, f) /\ ~Skips(f, c)
           Along(s) == /\ W[s] \in Flows(f.fragments) /\ W[s].stage <= s /\ W[s].open = f.open
                       /\ ~W[s].completed
                       /\ s \in H \/ s = a => W[s].stage = s
                       /\ InStep(pl, W[s]) /\ Grown(f.delivered, W[s].delivered)
                       /\ full => W[s].stage = s /\ Full(pl, W[s])
           T == {s \in a..m : Along(s)}
<1>1. /\ n \in Nat /\ Numbering(pl, n) /\ f \in Flows(f.fragments) /\ InStep(pl, f)
      /\ ~f.completed /\ a \in Nat /\ a <= n /\ f.delivered \in Seq(Delivery)
  BY FlowAssumption DEF Takes, Follows, Ahead, Flows
<1>2. /\ Walks(f, c)
      /\ \A s \in H : PartAt(f, c, s).stage = s /\ Numbered(pl, n, ends, PartAt(f, c, s))
      /\ m \in 1..n /\ m \in H
      /\ \A s \in H : a < s /\ s <= m
      /\ ~Skips(f, c) => (a + 1)..m \subseteq H
  BY TakenParts
<1>3. /\ W[a] = f
      /\ \A s \in a..m : s # a =>
            W[s] = IF s \in H THEN SortedHandler(W[s - 1], PartAt(f, c, s)) ELSE W[s - 1]
  BY <1>2, WalkAlong
<1> HIDE DEF W, H, m
<1>4. a \in T
  <2>1. Grown(f.delivered, f.delivered)
    BY <1>1, LenProperties DEF Grown
  <2>2. Along(a)
    BY <1>1, <1>3, <2>1
  <2>3. QED
    BY <1>1, <1>2, <2>2
<1>5. ASSUME NEW s \in a..m, s \in T, s < m PROVE s + 1 \in T
  <2> DEFINE x == W[s]
             y == W[s + 1]
  <2>1. s + 1 \in a..m /\ s + 1 # a /\ (s + 1) - 1 = s /\ s \in Nat /\ m \in Nat
        /\ s + 1 \in (a + 1)..m
    BY <1>1, <1>2, <1>5
  <2>2. /\ x \in Flows(f.fragments) /\ x.stage <= s /\ x.open = f.open /\ ~x.completed
        /\ s \in H \/ s = a => x.stage = s
        /\ InStep(pl, x) /\ Grown(f.delivered, x.delivered)
        /\ full => x.stage = s /\ Full(pl, x)
    BY <1>5
  <2>3. y = IF s + 1 \in H THEN SortedHandler(x, PartAt(f, c, s + 1)) ELSE x
    BY <1>3, <2>1
  <2>4. x.stage \in Nat /\ x.fragments = f.fragments /\ x.delivered \in Seq(Delivery)
    BY <2>2 DEF Flows
  <2> HIDE DEF x, y
  <2>5. Along(s + 1)
    <3>1. CASE s + 1 \in H
      <4>1. PICK p : p = PartAt(f, c, s + 1)
        OBVIOUS
      <4>2. p.stage = s + 1 /\ Numbered(pl, n, ends, p) /\ y = SortedHandler(x, p)
        BY <1>2, <2>3, <3>1, <4>1
      <4>3. Underway(pl, n, x)
        BY <1>1, <1>2, <2>1, <2>2, <2>4 DEF Underway
      <4>4. x.stage < p.stage
        BY <2>1, <2>2, <2>4, <4>2
      <4>5. StepsTo(pl, x, y, s + 1)
        BY <4>2, <4>3, <4>4, HandlerSteps
      <4>6. /\ y \in Flows(f.fragments) /\ y.stage = s + 1 /\ y.open = f.open
            /\ ~y.completed /\ InStep(pl, y) /\ Grown(x.delivered, y.delivered)
            /\ (Full(pl, x) /\ x.stage + 1 = s + 1) => Full(pl, y)
        BY <2>2, <2>4, <4>5 DEF StepsTo
      <4>7. Grown(f.delivered, y.delivered)
        <5>1. y.delivered \in Seq(Delivery)
          BY <4>6 DEF Flows
        <5>2. /\ Len(f.delivered) \in Nat /\ Len(x.delivered) \in Nat /\ Len(y.delivered) \in Nat
              /\ DOMAIN f.delivered = 1..Len(f.delivered)
              /\ DOMAIN x.delivered = 1..Len(x.delivered)
          BY <1>1, <2>4, <5>1, LenProperties
        <5>3. QED
          BY <2>2, <4>6, <5>2 DEF Grown
      <4>8. full => y.stage = s + 1 /\ Full(pl, y)
        BY <2>2, <4>6
      <4>9. QED
        BY <2>1, <4>6, <4>7, <4>8 DEF y
    <3>2. CASE s + 1 \notin H
      <4>1. y = x /\ ~full
        BY <1>2, <2>1, <2>3, <3>2
      <4>2. x.stage <= s + 1
        BY <2>1, <2>2, <2>4
      <4>3. QED
        BY <2>1, <2>2, <3>2, <4>1, <4>2 DEF y
    <3>3. QED
      BY <3>1, <3>2
  <2>6. QED
    BY <2>1, <2>5
<1> HIDE DEF T
<1>6. a..m \subseteq T
  <2>1. a \in Nat /\ m \in Nat
    BY <1>1, <1>2
  <2>2. QED
    BY <1>4, <1>5, <2>1, AllAlong
<1>7. Along(m)
  <2>1. m \in a..m
    BY <1>1, <1>2
  <2>2. QED
    BY <1>6, <2>1 DEF T
<1>8. QED
  BY <1>2, <1>7 DEF W, m

\* What any chunk does to a flow in step.
Receives(pl, n, ends, f, g, c) ==
    /\ Follows(pl, n, ends, g) /\ f.stage <= g.stage /\ g.open = f.open
    /\ Grown(f.delivered, g.delivered)
    /\ (Full(pl, f) /\ c.floor <= f.stage) => Full(pl, g)
    /\ \A s \in DOMAIN f.fragments :
          s <= g.stage \/ s \in DOMAIN g.fragments \/ g.completed

\* A chunk taken at once.
LEMMA SortedSteps ==
    ASSUME NEW pl, NEW n, NEW ends, NEW f, NEW c, Takes(pl, n, ends, f, c)
    PROVE  Receives(pl, n, ends, f, Sorted(f, c), c)
<1> DEFINE m == Last(f, c)
           x == Walk(f, c)[m]
           g == Sorted(f, c)
           kept == [s \in Rest(f, c) |-> f.fragments[s]]
           packet == IF Completes(f, c) THEN <<>> ELSE x.packet
           completed == Completes(f, c)
           skipped == f.skipped \/ Missing(f, c)
           arrived == f.arrived \cup {c.stage}
<1>1. /\ f.open \in BOOLEAN /\ f.stage \in Nat /\ f.skipped \in BOOLEAN /\ f.arrived \subseteq Nat
      /\ MaxStage \in Nat /\ n \in 0..MaxStage
      /\ \A s \in DOMAIN f.fragments :
            f.fragments[s].stage = s /\ Numbered(pl, n, ends, f.fragments[s])
      /\ c.stage \in 1..n /\ c.stage \in 1..MaxStage /\ c.floor \in Nat /\ Ahead(f)
      /\ ~Late(f, c) /\ InTurn(f, c)
  BY FlowAssumption DEF Takes, Follows, Comes, Ahead, Flows
<1>2. /\ Rest(f, c) \subseteq 1..MaxStage
      /\ \A s \in Rest(f, c) : s > m + 1
  BY <1>1, RestAhead DEF Last
<1>3. /\ m \in 1..n /\ m \in Handled(f, c)
      /\ \A s \in Handled(f, c) : f.stage < s /\ s <= m
      /\ Completes(f, c) => m \in ends
  BY TakenParts
<1>4. /\ x \in Flows(f.fragments) /\ x.stage = m /\ x.open = f.open
      /\ InStep(pl, x) /\ Grown(f.delivered, x.delivered) /\ ~x.completed
      /\ Full(pl, f) /\ ~Skips(f, c) => Full(pl, x)
  BY WalkSteps
<1>5. /\ g.open = f.open /\ g.stage = m /\ g.fragments = kept /\ g.packet = packet
      /\ g.lost = x.lost /\ g.completed = completed /\ g.skipped = skipped
      /\ g.arrived = arrived /\ g.delivered = x.delivered
      /\ g = [open |-> f.open, stage |-> m, fragments |-> kept, packet |-> packet,
              lost |-> x.lost, completed |-> completed, skipped |-> skipped,
              arrived |-> arrived, delivered |-> x.delivered]
  BY DEF Sorted, Last
<1>6. /\ DOMAIN kept = Rest(f, c) /\ \A s \in Rest(f, c) : kept[s] = f.fragments[s]
      /\ kept = [s \in DOMAIN kept |-> kept[s]] /\ Rest(f, c) \subseteq DOMAIN f.fragments
  BY DEF Rest
<1>7. /\ x.lost \in Nat /\ x.packet \in Seq(Part) /\ x.delivered \in Seq(Delivery)
      /\ <<>> \in Seq(Part)
  BY <1>4, EmptySeq DEF Flows
<1>8. /\ packet \in Seq(Part) /\ completed \in BOOLEAN /\ skipped \in BOOLEAN
      /\ arrived \subseteq Nat
  <2>1. completed \in BOOLEAN /\ skipped \in BOOLEAN
    BY <1>1 DEF Completes, Missing
  <2>2. arrived \subseteq Nat
    BY <1>1
  <2>3. packet \in Seq(Part)
    BY <1>7
  <2>4. QED
    BY <2>1, <2>2, <2>3
<1>9. ASSUME NEW s \in DOMAIN f.fragments
      PROVE  s <= m \/ s \in Rest(f, c) \/ completed
  BY <1>3 DEF Rest
<1>10. packet # <<>> => packet = x.packet
  OBVIOUS
<1>11. ~completed => packet = x.packet
  OBVIOUS
<1> HIDE DEF m, x, g, kept, packet, completed, skipped, arrived
<1>12. Ahead(g)
  <2>1. m \in Nat /\ g.stage <= MaxStage
    BY <1>1, <1>3, <1>5
  <2>2. g \in Flows(g.fragments)
    BY <1>1, <1>5, <1>7, <1>8, <2>1 DEF Flows
  <2>3. QED
    BY <1>2, <1>5, <1>6, <2>1, <2>2 DEF Ahead
<1>13. InStep(pl, g)
  BY <1>4, <1>5, <1>10 DEF InStep
<1>14. Follows(pl, n, ends, g)
  <2>1. \A s \in DOMAIN g.fragments :
           g.fragments[s].stage = s /\ Numbered(pl, n, ends, g.fragments[s])
    BY <1>1, <1>5, <1>6
  <2>2. g.stage <= n /\ (g.completed => g.stage \in ends)
    BY <1>1, <1>3, <1>5 DEF completed
  <2>3. QED
    BY <1>12, <1>13, <2>1, <2>2 DEF Follows
<1>15. ASSUME Full(pl, f), c.floor <= f.stage PROVE Full(pl, g)
  <2>1. ~Skips(f, c)
    BY <1>1, <1>15 DEF Skips
  <2>2. Full(pl, x)
    BY <1>4, <1>15, <2>1
  <2>3. QED
    BY <1>4, <1>5, <1>11, <2>2 DEF Full
<1>16. f.stage <= g.stage
  BY <1>1, <1>3, <1>5
<1>17. QED
  BY <1>4, <1>5, <1>6, <1>9, <1>14, <1>15, <1>16 DEF Receives, g

\* A chunk that comes early.
LEMMA BufferedSteps ==
    ASSUME NEW pl, NEW n, NEW ends, NEW f, NEW c,
           n \in 0..MaxStage, Follows(pl, n, ends, f), Comes(pl, n, ends, c),
           ~f.completed, ~Late(f, c), ~InTurn(f, c)
    PROVE  Receives(pl, n, ends, f, Buffered(f, c), c)
<1> DEFINE g == Buffered(f, c)
           kept == [s \in DOMAIN f.fragments \cup {c.stage} |-> PartAt(f, c, s)]
           arrived == f.arrived \cup {c.stage}
<1>1. /\ f \in Flows(f.fragments) /\ f.stage \in Nat /\ f.stage <= n /\ f.stage <= MaxStage
      /\ f.arrived \subseteq Nat /\ f.delivered \in Seq(Delivery)
      /\ DOMAIN f.fragments \subseteq 1..MaxStage /\ MaxStage \in Nat /\ n \in 0..MaxStage
      /\ \A s \in DOMAIN f.fragments : s > f.stage + 1
      /\ \A s \in DOMAIN f.fragments :
            f.fragments[s].stage = s /\ Numbered(pl, n, ends, f.fragments[s])
      /\ c.stage \in 1..n /\ Numbered(pl, n, ends, PartOf(c)) /\ InStep(pl, f)
  BY FlowAssumption DEF Follows, Comes, Ahead, Flows
<1>2. c.stage > f.stage + 1 /\ c.stage \in Nat
  BY <1>1 DEF Late, InTurn
<1>3. g = [f EXCEPT !.arrived = arrived, !.fragments = kept]
  BY DEF Buffered
<1>4. /\ DOMAIN kept = DOMAIN f.fragments \cup {c.stage}
      /\ \A s \in DOMAIN kept : kept[s] = PartAt(f, c, s)
      /\ kept = [s \in DOMAIN kept |-> kept[s]] /\ arrived \subseteq Nat
  BY <1>1
<1> HIDE DEF g, kept
<1>5. /\ g.open = f.open /\ g.stage = f.stage /\ g.packet = f.packet /\ g.fragments = kept
      /\ g.completed = f.completed /\ g.delivered = f.delivered
      /\ g \in Flows(kept)
  BY <1>1, <1>3, <1>4 DEF Flows
<1>6. ASSUME NEW s \in DOMAIN kept
      PROVE  /\ kept[s].stage = s /\ Numbered(pl, n, ends, kept[s])
             /\ s \in 1..MaxStage /\ s > f.stage + 1
  <2>1. CASE s \in DOMAIN f.fragments
    <3>1. kept[s] = f.fragments[s]
      BY <1>4, <2>1 DEF PartAt
    <3>2. QED
      BY <1>1, <2>1, <3>1
  <2>2. CASE s \notin DOMAIN f.fragments
    <3>1. s = c.stage /\ kept[s] = PartOf(c)
      BY <1>4, <2>2 DEF PartAt
    <3>2. PartOf(c).stage = s /\ s \in 1..MaxStage
      BY <1>1, <3>1 DEF PartOf
    <3>3. QED
      BY <1>1, <1>2, <3>1, <3>2
  <2>3. QED
    BY <2>1, <2>2
<1>7. Ahead(g)
  BY <1>1, <1>4, <1>5, <1>6 DEF Ahead
<1>8. InStep(pl, g)
  BY <1>1, <1>5 DEF InStep
<1>9. Follows(pl, n, ends, g)
  BY <1>1, <1>5, <1>6, <1>7, <1>8, ~f.completed DEF Follows
<1>10. Grown(f.delivered, g.delivered)
  BY <1>1, <1>5, LenProperties DEF Grown
<1>11. Full(pl, f) => Full(pl, g)
  BY <1>5 DEF Full
<1>12. QED
  BY <1>1, <1>4, <1>5, <1>9, <1>10, <1>11 DEF Receives, g

\* fragmentHandler keeps a flow in step with any sender in order, and full
\* unless the sender gave up a stage that the flow was waiting for.
LEMMA FragmentHandlerSteps ==
    \A pl, n, ends, f, c :
        (/\ n \in 0..MaxStage /\ Numbering(pl, n)
         /\ Follows(pl, n, ends, f) /\ Comes(pl, n, ends, c))
        => Receives(pl, n, ends, f, FragmentHandler(f, c), c)
<1> SUFFICES ASSUME NEW pl, NEW n, NEW ends, NEW f, NEW c,
                    n \in 0..MaxStage, Numbering(pl, n),
                    Follows(pl, n, ends, f), Comes(pl, n, ends, c)
             PROVE  Receives(pl, n, ends, f, FragmentHandler(f, c), c)
  OBVIOUS
<1>1. CASE f.completed \/ Late(f, c)
  <2>1. FragmentHandler(f, c) = f
    BY <1>1 DEF FragmentHandler
  <2>2. f.delivered \in Seq(Delivery) /\ f.stage \in Nat
    BY DEF Follows, Ahead, Flows
  <2>3. Grown(f.delivered, f.delivered) /\ f.stage <= f.stage
    BY <2>2, LenProperties DEF Grown
  <2>4. QED
    BY <2>1, <2>3 DEF Receives
<1>2. CASE ~f.completed /\ ~Late(f, c) /\ InTurn(f, c)
  <2>1. Takes(pl, n, ends, f, c) /\ FragmentHandler(f, c) = Sorted(f, c)
    BY <1>2 DEF Takes, FragmentHandler
  <2>2. QED
    BY <2>1, SortedSteps
<1>3. CASE ~f.completed /\ ~Late(f, c) /\ ~InTurn(f, c)
  <2>1. FragmentHandler(f, c) = Buffered(f, c)
    BY <1>3 DEF FragmentHandler
  <2>2. QED
    BY <1>3, <2>1, BufferedSteps
<1>4. QED
  BY <1>1, <1>2, <1>3

\* A flow that received nothing is in step with any sender.
LEMMA NewFlowSteps ==
    \A pl, n, ends, f :
        (n \in Nat /\ f \in {NewFlow, NoFlow}) => Follows(pl, n, ends, f) /\ Full(pl, f)
<1> SUFFICES ASSUME NEW pl, NEW n \in Nat, NEW ends, NEW f \in {NewFlow, NoFlow}
             PROVE  Follows(pl, n, ends, f) /\ Full(pl, f)
  OBVIOUS
<1>1. PICK open \in BOOLEAN :
         f = [open |-> open, stage |-> 0, fragments |-> <<>>, packet |-> <<>>, lost |-> 0,
              completed |-> FALSE, skipped |-> FALSE, arrived |-> {}, delivered |-> <<>>]
  <2>1. CASE f = NewFlow
    BY <2>1 DEF NewFlow
  <2>2. CASE f = NoFlow
    BY <2>2 DEF NewFlow, NoFlow
  <2>3. QED
    BY <2>1, <2>2
<1>2. /\ <<>> \in Seq(Part) /\ <<>> \in Seq(Delivery) /\ DOMAIN <<>> = {}
      /\ <<>> = [s \in DOMAIN <<>> |-> <<>>[s]]
  BY EmptySeq
<1>3. f \in Flows(f.fragments)
  BY <1>1, <1>2 DEF Flows
<1>4. Ahead(f)
  BY <1>1, <1>2, <1>3, FlowAssumption DEF Ahead
<1>5. InStep(pl, f)
  BY <1>1, <1>2 DEF InStep, InOrder
<1>6. Follows(pl, n, ends, f)
  BY <1>1, <1>2, <1>4, <1>5 DEF Follows
<1>7. Full(pl, f)
  BY <1>1 DEF Full
<1>8. QED
  BY <1>6, <1>7

\* CommitReadsBack, for any flow.
LEMMA CommitReads ==
    \A f : Ahead(f) => /\ Losts(f) \in Seq(Nat \X Nat)
                       /\ ReportedReceived(Ack(f)) = DOMAIN f.fragments
BY CommitReadsBack

\* A flow in step stays so when its sender numbers more stages.
LEMMA FollowsMore ==
    \A pl, n, ends, pl2, n2, ends2, f :
        (/\ n \in Nat /\ n2 \in Nat /\ n <= n2 /\ ends \subseteq ends2
         /\ \A s \in 1..n : pl2[s] = pl[s]
         /\ Follows(pl, n, ends, f))
        => Follows(pl2, n2, ends2, f) /\ (Full(pl, f) => Full(pl2, f))
<1> SUFFICES ASSUME NEW pl, NEW n \in Nat, NEW ends, NEW pl2, NEW n2 \in Nat, NEW ends2, NEW f,
                    n <= n2, ends \subseteq ends2, \A s \in 1..n : pl2[s] = pl[s],
                    Follows(pl, n, ends, f)
             PROVE  Follows(pl2, n2, ends2, f) /\ (Full(pl, f) => Full(pl2, f))
  OBVIOUS
<1>1. f.stage \in Nat /\ f.stage <= n /\ Ahead(f)
  BY DEF Follows, Ahead, Flows
<1>2. \A s \in 1..f.stage : s \in 1..n /\ pl2[s] = pl[s]
  BY <1>1
<1>3. ASSUME NEW p, Numbered(pl, n, ends, p) PROVE Numbered(pl2, n2, ends2, p)
  <2>1. p.stage \in 1..n /\ p.stage \in 1..n2
    BY <1>3 DEF Numbered
  <2>2. QED
    BY <1>3, <2>1 DEF Numbered
<1>4. InStep(pl2, f)
  <2>1. f.stage >= 1 => f.stage \in 1..f.stage
    BY <1>1
  <2>2. QED
    BY <1>2, <2>1 DEF Follows, InStep, InOrder
<1>5. Follows(pl2, n2, ends2, f)
  <2>1. f.stage <= n2
    BY <1>1
  <2>2. QED
    BY <1>1, <1>3, <1>4, <2>1 DEF Follows
<1>6. Full(pl, f) => Full(pl2, f)
  <2>1. f.stage >= 1 => f.stage \in 1..f.stage
    BY <1>1
  <2>2. QED
    BY <1>2, <2>1 DEF Full
<1>7. QED
  BY <1>5, <1>6

\* AllAlong, of any numbers.
LEMMA AlongAll ==
    \A a, b, T : (/\ a \in Nat /\ b \in Nat /\ a \in T
                  /\ \A i \in a..b : i \in T /\ i < b => i + 1 \in T)
                 => a..b \subseteq T
BY AllAlong

\* Walked, of any step.
LEMMA WalkedAlong ==
    \A S, a, b, base, step :
        Steps(S, a, b, base, step) => \E g : WalkOf(g, S, a, b, base, step)
BY Walked
=============================================================================
