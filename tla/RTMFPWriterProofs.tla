------------------------- MODULE RTMFPWriterProofs --------------------------
(***************************************************************************)
(* Theorems about RTMFPWriter, for every value of its constants: first its *)
(* types and its window, then what it writes to the band and what it       *)
(* believes of its peer.                                                   *)
(*                                                                         *)
(* The invariant WInv says of each chunk of the band how it stands to the  *)
(* writer's state (Sound), of two chunks of the band how they stand to     *)
(* each other (Pairs, EndPairs), and of its lists how they are made.       *)
(* The predicates on the band take it as a parameter: a visit of manage    *)
(* first repeats, then flushes, and the band is sound between the two.     *)
(***************************************************************************)
EXTENDS RTMFPWriter, FiniteSetTheorems, FunctionTheorems, SequenceTheorems,
        WellFoundedInduction, TLAPS

\* The type invariant is not inductive by itself: that acknowledgment reads a
\* fragment for each stage it is told about depends on the window.
IInv == TypeOK /\ WindowAligned

-----------------------------------------------------------------------------
\* The number of runs opened by some cuts is a natural number.
LEMMA CutsCount ==
    ASSUME NEW n \in Nat, NEW cuts \in SUBSET (1..n), NEW i
    PROVE  /\ Cardinality(cuts) \in Nat
           /\ RunsUpTo(cuts, i) \in Nat
<1>1. IsFiniteSet(1..n)
  BY FS_Interval
<1>2. IsFiniteSet(cuts)
  BY <1>1, FS_Subset
<1>3. IsFiniteSet({c \in cuts : c <= i})
  BY <1>2, FS_Subset
<1>4. QED
  BY <1>2, <1>3, FS_CardinalityType DEF RunsUpTo

\* A fragmentation of a queue is a sequence of positions of the queue.
LEMMA FragmentationType ==
    ASSUME NEW q \in Seq(Message), NEW f \in Fragmentations(q)
    PROVE  /\ Len(f) \in Nat
           /\ f \in [1..Len(f) -> DOMAIN q]
           /\ DOMAIN f = 1..Len(f)
<1>1. PICK n \in Len(q)..(Len(q) + MaxSplit) : f \in [1..n -> DOMAIN q]
  BY DEF Fragmentations
<1>2. n \in Nat
  BY <1>1, LenProperties, WriterAssumption
<1>3. f \in Seq(DOMAIN q)
  BY <1>1, <1>2
<1>4. QED
  BY <1>3

\* A flush cuts messages into well-formed fragments.
LEMMA FreshType ==
    ASSUME NEW q \in Seq(Message), NEW f \in Fragmentations(q),
           NEW base \in Nat
    PROVE  /\ Fresh(q, f, base) \in Seq(Fragment)
           /\ Len(Fresh(q, f, base)) = Len(f)
           /\ \A i \in DOMAIN f : Fresh(q, f, base)[i] \in Fragment
<1>1. /\ Len(f) \in Nat
      /\ f \in [1..Len(f) -> DOMAIN q]
      /\ DOMAIN f = 1..Len(f)
  BY FragmentationType
<1>2. ASSUME NEW i \in DOMAIN f
      PROVE  Fresh(q, f, base)[i] \in Fragment
  <2>1. q[f[i]] \in Message
    BY <1>1
  <2>2. base + i \in Nat
    BY <1>1
  <2>3. QED
    BY <2>1, <2>2 DEF Fresh, Fragment, Message
<1>3. Fresh(q, f, base) \in [1..Len(f) -> Fragment]
  BY <1>1, <1>2 DEF Fresh
<1>4. QED
  BY <1>1, <1>2, <1>3

\* A chunk that carries a fragment is well formed.
LEMMA ChunkType ==
    ASSUME TypeOK, NEW fr \in Fragment, NEW st \in Nat, NEW ack \in Nat,
           NEW head \in BOOLEAN, NEW r \in Nat, NEW end \in BOOLEAN
    PROVE  ChunkOf(fr, st, ack, head, r, end) \in Chunk
  BY DEF ChunkOf, Chunk, Fragment, TypeOK

\* The trigger keeps its type through its operations.
LEMMA TriggerType ==
    ASSUME NEW t \in Trigger
    PROVE  /\ Started(t) \in Trigger
           /\ Stopped(t) \in Trigger
           /\ Rearmed(t) \in Trigger
           /\ ~Fires(t) => Ticks(t) \in Trigger
           /\ t.cycle + 1 <= GiveUp => Fired(t) \in Trigger
<1>1. GiveUp \in Nat \ {0} /\ 0 \in 0..GiveUp /\ 1 \in 1..GiveUp
  BY WriterAssumption
<1>2. Started(t) \in Trigger /\ Stopped(t) \in Trigger /\ Rearmed(t) \in Trigger
  BY <1>1 DEF Trigger, Started, Stopped, Rearmed
<1>3. ASSUME ~Fires(t)
      PROVE  Ticks(t) \in Trigger
  <2>1. t.time + 1 \in 1..GiveUp
    BY <1>1, <1>3 DEF Trigger, Fires
  <2>2. QED
    BY <2>1 DEF Trigger, Ticks
<1>4. ASSUME t.cycle + 1 <= GiveUp
      PROVE  Fired(t) \in Trigger
  <2>1. t.cycle + 1 \in 0..GiveUp
    BY <1>1, <1>4 DEF Trigger
  <2>2. QED
    BY <1>1, <2>1 DEF Trigger, Fired
<1>5. QED
  BY <1>2, <1>3, <1>4

\* A flush of any queue, after any chunks, keeps the types and the window.
LEMMA FlushKeeps ==
    ASSUME IInv,
           NEW q \in Seq(Message), NEW pre \in Seq(Chunk), NEW r \in Nat,
           NEW last \in BOOLEAN, NEW t \in Trigger,
           NEW closed \in BOOLEAN, NEW full \in BOOLEAN,
           FlushQueue(q, pre, r, last, t, closed, full)
    PROVE  /\ messages' \in Seq(Message)
           /\ sent' \in Seq(Fragment)
           /\ stage' \in Nat
           /\ repeatable' \in Int
           /\ trigger' \in Trigger
           /\ run' \in Nat
           /\ lastWriter' \in BOOLEAN
           /\ wire' \in Seq(Chunk)
           /\ stage <= stage'
           /\ Len(sent') - stage' = Len(sent) - stage
<1> DEFINE head(f, cuts, i) == (i = 1 /\ ~last) \/ i \in cuts
           chunks(f, cuts) ==
             [i \in DOMAIN f |->
                ChunkOf(Fresh(q, f, stage)[i], stage + i, stageAck, head(f, cuts, i),
                        r + RunsUpTo(cuts, i), closed /\ IsLast(q, f[i]))]
<1> DEFINE effect(f, cuts) ==
         /\ messages' = <<>>
         /\ stage' = stage + Len(f)
         /\ sent' = sent \o Fresh(q, f, stage)
         /\ repeatable' = repeatable + Cardinality({m \in DOMAIN q : q[m].reliable})
         /\ trigger' = IF \E m \in DOMAIN q : q[m].reliable THEN Started(t) ELSE t
         /\ wire' = wire \o pre \o chunks(f, cuts)
         /\ run' = r + Cardinality(cuts) + (IF full THEN 1 ELSE 0)
         /\ lastWriter' = (~full /\ (last \/ f # <<>>))
<1>0. PICK f \in Fragmentations(q) : \E cuts \in CutsOf(f) : effect(f, cuts)
  BY DEF FlushQueue
<1>1. PICK cuts \in CutsOf(f) : effect(f, cuts)
  BY <1>0
<1>2. /\ Len(f) \in Nat
      /\ f \in [1..Len(f) -> DOMAIN q]
      /\ DOMAIN f = 1..Len(f)
  BY FragmentationType
<1>3. /\ Fresh(q, f, stage) \in Seq(Fragment)
      /\ Len(Fresh(q, f, stage)) = Len(f)
      /\ \A i \in DOMAIN f : Fresh(q, f, stage)[i] \in Fragment
  BY FreshType DEF IInv, TypeOK
<1>4. cuts \in SUBSET (1..Len(f))
  BY <1>2 DEF CutsOf
<1>5. Cardinality(cuts) \in Nat /\ \A i : RunsUpTo(cuts, i) \in Nat
  BY <1>2, <1>4, CutsCount
<1>6. Cardinality({m \in DOMAIN q : q[m].reliable}) \in Nat
  <2>1. IsFiniteSet(DOMAIN q)
    BY LenProperties, FS_Interval
  <2>2. QED
    BY <2>1, FS_Subset, FS_CardinalityType
<1>7. chunks(f, cuts) \in Seq(Chunk)
  <2>1. ASSUME NEW i \in 1..Len(f)
        PROVE  chunks(f, cuts)[i] \in Chunk
    <3>1. stage + i \in Nat /\ r + RunsUpTo(cuts, i) \in Nat
      BY <1>5 DEF IInv, TypeOK
    <3>2. head(f, cuts, i) \in BOOLEAN /\ (closed /\ IsLast(q, f[i])) \in BOOLEAN
      OBVIOUS
    <3>3. Fresh(q, f, stage)[i] \in Fragment /\ stageAck \in Nat /\ TypeOK
      BY <1>2, <1>3 DEF IInv, TypeOK
    <3>4. ChunkOf(Fresh(q, f, stage)[i], stage + i, stageAck, head(f, cuts, i),
                  r + RunsUpTo(cuts, i), closed /\ IsLast(q, f[i])) \in Chunk
      BY <3>1, <3>2, <3>3, ChunkType
    <3>5. QED
      BY <1>2, <3>4
  <2>2. chunks(f, cuts) \in [1..Len(f) -> Chunk]
    BY <1>2, <2>1
  <2>3. QED
    BY <1>2, <2>2
<1>8. wire' \in Seq(Chunk)
  <2> HIDE DEF chunks
  <2>1. wire \o pre \in Seq(Chunk)
    BY ConcatProperties DEF IInv, TypeOK
  <2>2. (wire \o pre) \o chunks(f, cuts) \in Seq(Chunk)
    BY <1>7, <2>1, ConcatProperties
  <2>3. QED
    BY <1>1, <2>2
<1>9. sent' \in Seq(Fragment) /\ Len(sent') = Len(sent) + Len(f)
  <2>1. sent \in Seq(Fragment)
    BY DEF IInv, TypeOK
  <2>2. sent' = sent \o Fresh(q, f, stage)
    BY <1>1
  <2> HIDE DEF chunks, effect
  <2>3. QED
    BY <1>3, <2>1, <2>2, ConcatProperties
<1>10. trigger' \in Trigger
  BY <1>1, TriggerType
<1> HIDE DEF chunks
<1>11. stage' \in Nat /\ stage <= stage' /\ Len(sent') - stage' = Len(sent) - stage
  <2>1. stage \in Nat /\ Len(sent) \in Nat
    BY LenProperties DEF IInv, TypeOK
  <2>2. QED
    BY <1>1, <1>2, <1>9, <2>1
<1>12. messages' \in Seq(Message) /\ repeatable' \in Int
  BY <1>1, <1>6, EmptySeq, SMTT(30) DEF IInv, TypeOK
<1>13. run' \in Nat /\ lastWriter' \in BOOLEAN
  BY <1>1, <1>5
<1>14. QED
  BY <1>8, <1>9, <1>10, <1>11, <1>12, <1>13

\* Giving the identifier up keeps the types and the window, now a surplus one.
LEMMA RenewKeeps ==
    ASSUME IInv, NEW r \in BOOLEAN, Renew(r)
    PROVE  IInv'
<1> USE DEF IInv, TypeOK
<1>1. CASE stage > 0
  <2> DEFINE abandonment == [message |-> created, reliable |-> r, empty |-> TRUE,
                             before |-> FALSE, after |-> FALSE, sentAt |-> stage + 1]
  <2>1. PICK cut \in BOOLEAN :
          /\ created' = created + 1
          /\ sent' = <<abandonment>>
          /\ repeatable' = IF r THEN 1 ELSE 0
          /\ trigger' = Stopped(IF r THEN Started(trigger) ELSE trigger)
          /\ run' = IF cut THEN run + 1 ELSE run
          /\ lastWriter' = TRUE
          /\ wire' = Append(wire, ChunkOf(abandonment, stage + 1, stageAck,
                                          cut \/ ~lastWriter, run', FALSE))
    BY <1>1 DEF Renew
  <2>2. abandonment \in Fragment
    BY DEF Fragment
  <2>3. run' \in Nat
    BY <2>1
  <2>4. ChunkOf(abandonment, stage + 1, stageAck, cut \/ ~lastWriter, run', FALSE) \in Chunk
    <3> HIDE DEF abandonment
    <3>1. stage + 1 \in Nat /\ (cut \/ ~lastWriter) \in BOOLEAN /\ FALSE \in BOOLEAN
      OBVIOUS
    <3>2. QED
      BY <2>2, <2>3, <3>1, ChunkType
  <2> HIDE DEF abandonment
  <2>5. wire' \in Seq(Chunk)
    BY <2>1, <2>4, AppendProperties
  <2>6. sent' \in Seq(Fragment) /\ Len(sent') = 1
    BY <2>1, <2>2
  <2>7. trigger' \in Trigger
    BY <2>1, TriggerType
  <2>8. /\ messages' = <<>> /\ stage' = 0 /\ stageAck' = 0
        /\ generation' = generation + 1 /\ reported' = {}
        /\ UNCHANGED <<state, connection, connectedSize, life, closeCalled>>
    BY DEF Renew
  <2>9. TypeOK'
    <3>1. created' \in Nat /\ repeatable' \in Int /\ lastWriter' \in BOOLEAN
      BY <2>1
    <3>2. messages' \in Seq(Message) /\ generation' \in Nat /\ reported' \in SUBSET Nat
      BY <2>8, EmptySeq
    <3>3. QED
      BY <2>3, <2>5, <2>6, <2>7, <2>8, <3>1, <3>2
  <2>10. WindowAligned'
    BY <2>6, <2>8 DEF WindowAligned
  <2>11. QED
    BY <2>9, <2>10
<1>2. CASE ~(stage > 0)
  <2>1. /\ sent' = <<>> /\ repeatable' = 0
        /\ UNCHANGED <<trigger, bandVars, created>>
    BY <1>2 DEF Renew
  <2>2. /\ messages' = <<>> /\ stage' = 0 /\ stageAck' = 0
        /\ generation' = generation + 1 /\ reported' = {}
        /\ UNCHANGED <<state, connection, connectedSize, life, closeCalled>>
    BY DEF Renew
  <2>3. TypeOK'
    BY <2>1, <2>2, EmptySeq DEF bandVars
  <2>4. WindowAligned'
    BY <2>1, <2>2, EmptySeq DEF WindowAligned
  <2>5. QED
    BY <2>3, <2>4
<1>3. QED
  BY <1>1, <1>2

\* The cumulative part of an acknowledgment moves stageAck inside the window.
LEMMA CumulativeInWindow ==
    ASSUME IInv, NEW a \in Acknowledgments
    PROVE  /\ a.cum \in Nat /\ a.recv \in SUBSET Nat
           /\ Cumulative(a) \in Nat
           /\ stageAck <= Cumulative(a) /\ Cumulative(a) <= stage
<1>1. stage \in Nat /\ stageAck \in Nat /\ stageAck <= stage
  BY DEF IInv, TypeOK, WindowAligned
<1>2. PICK c \in 0..(stage + 1) : a \in [cum: {c}, recv: SUBSET ((c + 2)..(stage + 1))]
  BY DEF Acknowledgments
<1>3. a.cum \in Nat /\ a.recv \in SUBSET Nat
  BY <1>1, <1>2
<1>4. QED
  BY <1>1, <1>3 DEF Cumulative

\* What acknowledgment decides to repeat lies in the window.
LEMMA ResentInWindow ==
    ASSUME IInv, NEW a \in Acknowledgments
    PROVE  /\ IsFiniteSet(Resent(a))
           /\ \A s \in Resent(a) : /\ s \in Nat
                                    /\ Cumulative(a) < s /\ s <= stage
                                    /\ s - stageAck \in DOMAIN sent
                                    /\ FragmentAt(s) \in Fragment
<1>1. /\ Cumulative(a) \in Nat
      /\ stageAck <= Cumulative(a)
      /\ stage \in Nat /\ stageAck \in Nat
      /\ sent \in Seq(Fragment) /\ Len(sent) \in Nat
      /\ Len(sent) >= stage - stageAck
  BY CumulativeInWindow, LenProperties DEF IInv, TypeOK, WindowAligned
<1>2. Resent(a) \subseteq (Cumulative(a) + 1)..stage
  BY DEF Resent, LostReliable, Lost
<1>3. IsFiniteSet(Resent(a))
  <2>1. IsFiniteSet((Cumulative(a) + 1)..stage)
    BY <1>1, FS_Interval
  <2>2. QED
    BY <1>2, <2>1, FS_Subset
<1>4. ASSUME NEW s \in Resent(a)
      PROVE  /\ s \in Nat
             /\ Cumulative(a) < s /\ s <= stage
             /\ s - stageAck \in DOMAIN sent
             /\ FragmentAt(s) \in Fragment
  <2>1. s \in Nat /\ Cumulative(a) < s /\ s <= stage
    BY <1>1, <1>2
  <2>2. s - stageAck \in 1..Len(sent)
    BY <1>1, <2>1
  <2>3. QED
    BY <1>1, <2>1, <2>2, LenProperties DEF FragmentAt
<1>5. QED
  BY <1>3, <1>4

\* The counters of what an acknowledgment completes are natural numbers.
LEMMA CompletedType ==
    ASSUME NEW d \in Nat, sent \in Seq(Fragment)
    PROVE  Completed(d) \in Nat
<1>1. IsFiniteSet(DOMAIN sent)
  BY LenProperties, FS_Interval
<1>2. IsFiniteSet({i \in DOMAIN sent : i <= d /\ sent[i].reliable /\ ~sent[i].after})
  BY <1>1, FS_Subset
<1>3. QED
  BY <1>2, FS_CardinalityType DEF Completed

\* An acknowledgment, whatever it reports, leaves stageAck in the window.
LEMMA NewAckInWindow ==
    ASSUME IInv, NEW a \in Acknowledgments, NEW ack \in 0..(stage + 1), IsNewAck(a, ack)
    PROVE  ack \in stageAck..stage
<1> DEFINE cumulative == Cumulative(a)
<1>1. stage \in Nat /\ stageAck \in Nat /\ stageAck <= stage /\ a.cum \in Nat
  BY DEF IInv, TypeOK, WindowAligned, Acknowledgments
<1>2. cumulative \in stageAck..stage
  BY <1>1 DEF Cumulative
<1>3. Lost(a, cumulative) \subseteq (cumulative + 1)..stage
  BY DEF Lost
<1>4. LostReliable(a) \subseteq Lost(a, cumulative)
  BY DEF LostReliable
<1> HIDE DEF cumulative
<1>5. CASE LostReliable(a) # {}
  <2>1. ack + 1 \in LostReliable(a)
    BY <1>5 DEF IsNewAck
  <2>2. QED
    BY <1>1, <1>2, <1>3, <1>4, <2>1
<1>6. CASE LostReliable(a) = {} /\ Lost(a, cumulative) # {}
  <2>1. ack \in Lost(a, cumulative)
    BY <1>6 DEF IsNewAck, cumulative
  <2>2. QED
    BY <1>1, <1>2, <1>3, <2>1
<1>7. CASE LostReliable(a) = {} /\ Lost(a, cumulative) = {}
  <2>1. ack = cumulative
    BY <1>7 DEF IsNewAck, cumulative
  <2>2. QED
    BY <1>2, <2>1
<1>8. QED
  BY <1>5, <1>6, <1>7

\* An acknowledgment of any contents keeps the types and the window.
LEMMA AcknowledgeKeeps ==
    ASSUME IInv, NEW a \in Acknowledgments, NEW ack \in stageAck..stage,
           Acknowledge(a, ack),
           UNCHANGED <<state, connection, connectedSize, messages, stage, generation,
                       life, created, closeCalled>>
    PROVE  IInv'
<1> DEFINE dropped == ack - stageAck
           head(e, cuts, i) == i = 1 \/ e[i] # e[i - 1] + 1 \/ i \in cuts
           ending == state = "CLOSED" /\ Len(messages) = 1
           chunks(e, cuts) ==
             [i \in DOMAIN e |->
                ChunkOf(FragmentAt(e[i]), e[i], ack, head(e, cuts, i),
                        run + RunsUpTo(cuts, i), ending)]
           kept(i) == IF i + ack \in Resent(a)
                      THEN [sent[i + dropped] EXCEPT !.sentAt = stage]
                      ELSE sent[i + dropped]
           effect(e, cuts) ==
             /\ stageAck' = ack
             /\ sent' = [i \in 1..(Len(sent) - dropped) |-> kept(i)]
             /\ repeatable' = repeatable - Completed(dropped)
             /\ trigger' = IF repeatable' = 0 THEN Stopped(trigger)
                           ELSE IF ack > stageAck \/ LostReliable(a) # {}
                           THEN Rearmed(trigger) ELSE trigger
             /\ wire' = wire \o chunks(e, cuts)
             /\ run' = run + Cardinality(cuts)
             /\ lastWriter' = (lastWriter /\ e = <<>>)
             /\ reported' = reported \cup {s \in 1..stage : s <= a.cum \/ s \in a.recv}
<1>0. PICK e \in Ascending(Resent(a)) : \E cuts \in SUBSET DOMAIN e : effect(e, cuts)
  BY DEF Acknowledge
<1>1. PICK cuts \in SUBSET DOMAIN e : effect(e, cuts)
  BY <1>0
<1>2. /\ stage \in Nat /\ stageAck \in Nat /\ ack \in Nat
      /\ stageAck <= ack /\ ack <= stage
      /\ sent \in Seq(Fragment) /\ Len(sent) \in Nat
      /\ Len(sent) >= stage - stageAck
      /\ DOMAIN sent = 1..Len(sent)
      /\ run \in Nat /\ wire \in Seq(Chunk) /\ TypeOK
  BY LenProperties DEF IInv, TypeOK, WindowAligned
<1>3. /\ Cardinality(Resent(a)) \in Nat
      /\ e \in [1..Cardinality(Resent(a)) -> Resent(a)]
      /\ DOMAIN e = 1..Cardinality(Resent(a))
  BY ResentInWindow, FS_CardinalityType DEF Ascending
<1>4. Cardinality(cuts) \in Nat /\ \A i : RunsUpTo(cuts, i) \in Nat
  BY <1>3, CutsCount
<1>5. chunks(e, cuts) \in Seq(Chunk)
  <2>1. ASSUME NEW i \in 1..Cardinality(Resent(a))
        PROVE  chunks(e, cuts)[i] \in Chunk
    <3>1. e[i] \in Nat /\ FragmentAt(e[i]) \in Fragment
      BY <1>3, ResentInWindow
    <3>2. head(e, cuts, i) \in BOOLEAN /\ ending \in BOOLEAN /\ run + RunsUpTo(cuts, i) \in Nat
      BY <1>2, <1>4
    <3> HIDE DEF head, ending
    <3>3. ChunkOf(FragmentAt(e[i]), e[i], ack, head(e, cuts, i),
                  run + RunsUpTo(cuts, i), ending) \in Chunk
      BY <1>2, <3>1, <3>2, ChunkType
    <3>4. QED
      BY <1>3, <3>3
  <2>2. chunks(e, cuts) \in [1..Cardinality(Resent(a)) -> Chunk]
    BY <1>3, <2>1
  <2>3. QED
    BY <1>3, <2>2
<1> HIDE DEF chunks
<1>6. wire' \in Seq(Chunk)
  BY <1>1, <1>2, <1>5, ConcatProperties
<1>7. /\ sent' \in Seq(Fragment)
      /\ Len(sent') = Len(sent) - dropped
  <2>1. Len(sent) - dropped \in Nat
    BY <1>2
  <2>2. ASSUME NEW i \in 1..(Len(sent) - dropped)
        PROVE  kept(i) \in Fragment
    <3>1. i + dropped \in 1..Len(sent)
      BY <1>2
    <3>2. sent[i + dropped] \in Fragment
      BY <1>2, <3>1
    <3>3. QED
      BY <1>2, <3>2 DEF Fragment
  <2> HIDE DEF kept
  <2>3. sent' \in [1..(Len(sent) - dropped) -> Fragment]
    BY <1>1, <2>2
  <2>4. QED
    BY <2>1, <2>3
<1>8. trigger' \in Trigger
  BY <1>1, <1>2, TriggerType DEF TypeOK
<1>9. repeatable' \in Int
  <2>1. dropped \in Nat
    BY <1>2
  <2>2. QED
    BY <1>1, <1>2, <2>1, CompletedType DEF TypeOK
<1>10. run' \in Nat /\ lastWriter' \in BOOLEAN /\ reported' \in SUBSET Nat
  <2>1. run' = run + Cardinality(cuts) /\ run \in Nat
    BY <1>1, <1>2
  <2>2. run' \in Nat
    BY <2>1, <1>4
  <2>3. lastWriter' = (lastWriter /\ e = <<>>)
    BY <1>1
  <2>4. reported' = reported \cup {s \in 1..stage : s <= a.cum \/ s \in a.recv}
    BY <1>1
  <2>5. reported \in SUBSET Nat /\ lastWriter \in BOOLEAN
    BY <1>2 DEF TypeOK
  <2>6. reported' \in SUBSET Nat
    <3>1. stage \in Nat
      BY <1>2
    <3>2. {s \in 1..stage : s <= a.cum \/ s \in a.recv} \subseteq 1..stage
      OBVIOUS
    <3>3. 1..stage \subseteq Nat
      BY <3>1
    <3>4. QED
      BY <2>4, <2>5, <3>2, <3>3, Zenon
  <2>7. lastWriter' \in BOOLEAN
    BY <2>3
  <2>8. QED
    BY <2>2, <2>6, <2>7
<1>11. TypeOK'
  BY <1>1, <1>2, <1>6, <1>7, <1>8, <1>9, <1>10 DEF TypeOK
<1>12. WindowAligned'
  BY <1>1, <1>2, <1>7 DEF WindowAligned, IInv
<1>13. QED
  BY <1>11, <1>12 DEF IInv

\* The enumerations of a finite set of positions, and the chunks repeated by a
\* raise for them.
LEMMA RaisedType ==
    ASSUME IInv, NEW q \in RaisedSets, NEW e \in Ascending(q)
    PROVE  RaisedChunks(e) \in Seq(Chunk)
<1>1. /\ sent \in Seq(Fragment) /\ DOMAIN sent = 1..Len(sent) /\ Len(sent) \in Nat
      /\ stageAck \in Nat /\ run \in Nat /\ TypeOK
  BY LenProperties DEF IInv, TypeOK
<1>2. q \subseteq 1..Len(sent)
  BY <1>1 DEF RaisedSets, Reliable
<1>3. IsFiniteSet(1..Len(sent))
  BY <1>1, FS_Interval
<1>4. Cardinality(q) \in Nat
  BY <1>2, <1>3, FS_Subset, FS_CardinalityType
<1>5. e \in [1..Cardinality(q) -> q] /\ DOMAIN e = 1..Cardinality(q)
  BY DEF Ascending
<1> DEFINE ending == state = "CLOSED" /\ Len(messages) = 1
           head(i) == i = 1 \/ e[i] # e[i - 1] + 1
<1>6. ASSUME NEW i \in 1..Cardinality(q)
      PROVE  RaisedChunks(e)[i] \in Chunk
  <2>1. e[i] \in 1..Len(sent) /\ sent[e[i]] \in Fragment
    <3>1. e[i] \in q
      BY <1>5
    <3>2. e[i] \in 1..Len(sent)
      BY <1>2, <3>1
    <3>3. QED
      BY <1>1, <3>2
  <2>2. head(i) \in BOOLEAN /\ ending \in BOOLEAN
    OBVIOUS
  <2>3. RaisedChunks(e)[i] = ChunkOf(sent[e[i]], stageAck + e[i], stageAck, head(i), run + 1, ending)
    BY <1>5 DEF RaisedChunks
  <2> HIDE DEF head, ending
  <2>4. stageAck + e[i] \in Nat /\ run + 1 \in Nat
    BY <1>1, <2>1
  <2>5. ChunkOf(sent[e[i]], stageAck + e[i], stageAck, head(i), run + 1, ending) \in Chunk
    BY <1>1, <2>1, <2>2, <2>4, ChunkType
  <2>6. QED
    BY <2>3, <2>5
<1>7. RaisedChunks(e) \in [1..Cardinality(q) -> Chunk]
  BY <1>5, <1>6 DEF RaisedChunks
<1>8. QED
  BY <1>4, <1>7

\* A step that flushes and changes, beside what the flush does, only the state,
\* the connection and the names of messages, keeps the invariant.
LEMMA FlushStep ==
    ASSUME IInv,
           NEW q \in Seq(Message), NEW pre \in Seq(Chunk), NEW r \in Nat,
           NEW last \in BOOLEAN, NEW t \in Trigger,
           NEW closed \in BOOLEAN, NEW full \in BOOLEAN,
           FlushQueue(q, pre, r, last, t, closed, full),
           UNCHANGED <<connection, stageAck, generation, life, reported>>,
           state' \in {"CONNECTING", "CONNECTED", "CLOSED"},
           connectedSize' \in Int, created' \in Nat, closeCalled' \in BOOLEAN
    PROVE  IInv'
<1>1. /\ messages' \in Seq(Message)
      /\ sent' \in Seq(Fragment)
      /\ stage' \in Nat
      /\ repeatable' \in Int
      /\ trigger' \in Trigger
      /\ run' \in Nat
      /\ lastWriter' \in BOOLEAN
      /\ wire' \in Seq(Chunk)
      /\ stage <= stage'
      /\ Len(sent') - stage' = Len(sent) - stage
  BY FlushKeeps
<1>2. TypeOK'
  BY <1>1 DEF IInv, TypeOK
<1>3. WindowAligned'
  <2>1. Len(sent) \in Nat /\ stage \in Nat /\ stageAck \in Nat
    BY LenProperties DEF IInv, TypeOK
  <2>2. Len(sent') \in Nat
    BY <1>1, LenProperties
  <2>3. /\ stageAck <= stage /\ Len(sent) >= stage - stageAck
        /\ generation = 0 => Len(sent) = stage - stageAck
    BY DEF IInv, WindowAligned
  <2>4. stageAck' = stageAck /\ generation' = generation
    OBVIOUS
  <2>5. stage' \in Nat /\ stage <= stage' /\ Len(sent') - stage' = Len(sent) - stage
    BY <1>1
  <2>6. stageAck' <= stage' /\ Len(sent') >= stage' - stageAck'
    BY <2>1, <2>2, <2>3, <2>4, <2>5
  <2>7. ASSUME generation = 0 PROVE Len(sent') = stage' - stageAck'
    <3> DEFINE l0 == Len(sent)   l1 == Len(sent')   s1 == stage'
    <3>1. l0 = stage - stageAck /\ l1 - s1 = l0 - stage
      BY <2>3, <2>5, <2>7
    <3>2. l0 \in Nat /\ l1 \in Nat /\ s1 \in Nat /\ stage \in Nat /\ stageAck \in Nat
      BY <2>1, <2>2, <2>5
    <3> HIDE DEF l0, l1, s1
    <3>3. l1 = s1 - stageAck
      BY <3>1, <3>2
    <3>4. QED
      BY <2>4, <3>3 DEF l1, s1
  <2>8. QED
    BY <2>4, <2>6, <2>7 DEF WindowAligned
<1>4. QED
  BY <1>2, <1>3 DEF IInv

-----------------------------------------------------------------------------
\* The inductive invariant holds initially and through every step.
LEMMA InitIInv == Init => IInv
<1> SUFFICES ASSUME Init PROVE IInv
  OBVIOUS
<1>1. GiveUp \in Nat \ {0} /\ 0 \in 0..GiveUp /\ 1 \in 1..GiveUp
  BY WriterAssumption
<1>2. trigger \in Trigger
  BY <1>1 DEF Init, Trigger
<1>3. TypeOK
  <2>1. messages \in Seq(Message) /\ sent \in Seq(Fragment) /\ wire \in Seq(Chunk)
    BY EmptySeq DEF Init
  <2>2. connectedSize \in Int /\ stage \in Nat /\ stageAck \in Nat /\ repeatable \in Int
        /\ generation \in Nat /\ run \in Nat /\ created \in Nat
    BY DEF Init
  <2>3. reported \in SUBSET Nat /\ lastWriter \in BOOLEAN /\ closeCalled \in BOOLEAN
    BY DEF Init
  <2>4. /\ state \in {"CONNECTING", "CONNECTED", "CLOSED"}
        /\ connection \in {"none", "before", "running", "after"}
        /\ life \in {"managed", "erased", "sessionFailed"}
    BY WriterAssumption DEF Init
  <2>5. QED
    BY <1>2, <2>1, <2>2, <2>3, <2>4 DEF TypeOK
<1>4. WindowAligned
  BY EmptySeq DEF Init, WindowAligned
<1>5. QED
  BY <1>3, <1>4 DEF IInv

LEMMA NextIInv == IInv /\ [Next]_vars => IInv'
<1> SUFFICES ASSUME IInv, [Next]_vars PROVE IInv'
  OBVIOUS
<1>0. TypeOK /\ WindowAligned
  BY DEF IInv
<1>1. ASSUME NEW r \in Reliabilities, Write(r)
      PROVE  IInv'
  <2>1. r \in BOOLEAN /\ NewMessage(r, FALSE) \in Message
    BY <1>0, WriterAssumption DEF NewMessage, Message, TypeOK
  <2>2. messages' \in Seq(Message) /\ created' \in Nat
    <3>1. messages \in Seq(Message) /\ created \in Nat
      BY <1>0 DEF TypeOK
    <3>2. messages' = Append(messages, NewMessage(r, FALSE)) /\ created' = created + 1
      BY <1>1 DEF Write
    <3>3. messages' \in Seq(Message)
      BY <2>1, <3>1, <3>2, AppendProperties
    <3>4. created' \in Nat
      BY <3>1, <3>2
    <3>5. QED
      BY <3>3, <3>4
  <2>3. TypeOK'
    BY <1>0, <1>1, <2>2 DEF Write, TypeOK
  <2>4. WindowAligned'
    BY <1>0, <1>1 DEF Write, WindowAligned
  <2>5. QED
    BY <2>3, <2>4 DEF IInv
<1>2. ASSUME NEW r \in Reliabilities, Close(r)
      PROVE  IInv'
  <2> DEFINE queue == IF HasReceiver THEN Append(messages, NewMessage(r, TRUE))
                      ELSE messages
             kept == IF connectedSize >= 0 /\ connectedSize < Len(queue)
                     THEN SubSeq(queue, 1, connectedSize) ELSE queue
  <2>1. NewMessage(r, TRUE) \in Message
    BY <1>0, WriterAssumption DEF NewMessage, Message, TypeOK
  <2>2. queue \in Seq(Message)
    BY <1>0, <2>1, AppendProperties DEF TypeOK
  <2> HIDE DEF queue
  <2>3. kept \in Seq(Message)
    BY <1>0, <2>2, LenProperties, SubSeqProperties DEF TypeOK
  <2>4. FlushQueue(kept, <<>>, run, lastWriter, trigger, TRUE, FALSE)
    BY <1>2 DEF Close, queue
  <2> HIDE DEF kept
  <2>5. /\ UNCHANGED <<connection, stageAck, generation, life, reported>>
        /\ state' \in {"CONNECTING", "CONNECTED", "CLOSED"}
        /\ connectedSize' \in Int
        /\ closeCalled' \in BOOLEAN
    BY <1>2 DEF Close
  <2>6. created' \in Nat
    BY <1>0, <1>2 DEF Close, TypeOK
  <2>7. <<>> \in Seq(Chunk) /\ run \in Nat /\ lastWriter \in BOOLEAN /\ trigger \in Trigger
    BY <1>0, EmptySeq DEF TypeOK
  <2>8. TRUE \in BOOLEAN /\ FALSE \in BOOLEAN
    OBVIOUS
  <2>9. QED
    BY <2>3, <2>4, <2>5, <2>6, <2>7, <2>8, FlushStep
<1>3. ASSUME NEW r \in Reliabilities, Rejection(r)
      PROVE  IInv'
  BY <1>3, RenewKeeps, WriterAssumption DEF Rejection
<1>4. ASSUME WriteRaw
      PROVE  IInv'
  <2>1. NewMessage(FALSE, FALSE) \in Message
    BY <1>0 DEF NewMessage, Message, TypeOK
  <2>2. Append(messages, NewMessage(FALSE, FALSE)) \in Seq(Message)
    BY <1>0, <2>1, AppendProperties DEF TypeOK
  <2>3. <<>> \in Seq(Chunk) /\ run \in Nat /\ lastWriter \in BOOLEAN /\ trigger \in Trigger
    BY <1>0, EmptySeq DEF TypeOK
  <2>4. /\ UNCHANGED <<state, connection, connectedSize, stageAck, generation, life,
                        reported, closeCalled>>
        /\ created' \in Nat
    BY <1>0, <1>4 DEF WriteRaw, TypeOK
  <2>5. QED
    BY <1>0, <1>4, <2>2, <2>3, <2>4, FlushStep DEF WriteRaw, TypeOK
<1>5. ASSUME NEW full \in BOOLEAN, Flush(full)
      PROVE  IInv'
  <2>1. <<>> \in Seq(Chunk) /\ run \in Nat /\ lastWriter \in BOOLEAN /\ trigger \in Trigger
    BY <1>0, EmptySeq DEF TypeOK
  <2>2. /\ UNCHANGED <<connection, stageAck, generation, life, reported>>
        /\ state' \in {"CONNECTING", "CONNECTED", "CLOSED"}
        /\ connectedSize' \in Int /\ created' \in Nat /\ closeCalled' \in BOOLEAN
    BY <1>0, <1>5 DEF Flush, TypeOK
  <2> DEFINE closed == state = "CLOSED"
  <2>3. FlushQueue(messages, <<>>, run, lastWriter, trigger, closed, full)
    BY <1>5 DEF Flush
  <2>4. messages \in Seq(Message) /\ closed \in BOOLEAN
    BY <1>0 DEF TypeOK
  <2> HIDE DEF closed
  <2>5. QED
    BY <2>1, <2>2, <2>3, <2>4, FlushStep
<1>6. ASSUME StartConnection
      PROVE  IInv'
  <2>1. TypeOK'
    BY <1>0, <1>6, LenProperties DEF StartConnection, TypeOK, windowVars, bandVars
  <2>2. WindowAligned'
    BY <1>0, <1>6 DEF StartConnection, WindowAligned, windowVars
  <2>3. QED
    BY <2>1, <2>2 DEF IInv
<1>7. ASSUME NEW minimal \in BOOLEAN, FinishConnection(minimal)
      PROVE  IInv'
  <2>1. messages' \in Seq(Message)
    BY <1>0, <1>7, LenProperties, SubSeqProperties DEF FinishConnection, TypeOK
  <2>2. TypeOK'
    BY <1>0, <1>7, <2>1 DEF FinishConnection, TypeOK, bandVars
  <2>3. WindowAligned'
    BY <1>0, <1>7 DEF FinishConnection, WindowAligned
  <2>4. QED
    BY <2>2, <2>3 DEF IInv
<1>8. ASSUME Acknowledgment
      PROVE  IInv'
  BY <1>8, NewAckInWindow, AcknowledgeKeeps DEF Acknowledgment
<1>9. ASSUME Manage
      PROVE  IInv'
  <2>1. <<>> \in Seq(Chunk) /\ run \in Nat /\ run + 1 \in Nat
        /\ lastWriter \in BOOLEAN /\ trigger \in Trigger
        /\ messages \in Seq(Message) /\ state \in {"CONNECTING", "CONNECTED", "CLOSED"}
        /\ connectedSize \in Int /\ created \in Nat /\ closeCalled \in BOOLEAN
    BY <1>0, EmptySeq DEF TypeOK
  <2>2. ASSUME NEW elapsed \in BOOLEAN, ManageQuiet(elapsed)
        PROVE  IInv'
    <3> DEFINE t == IF Waits(trigger, elapsed) THEN trigger ELSE Ticks(trigger)
    <3>1. t \in Trigger
      BY <2>1, <2>2, TriggerType DEF ManageQuiet
    <3> DEFINE closed == state = "CLOSED"
    <3>2. FlushQueue(messages, <<>>, run, lastWriter, t, closed, FALSE)
      BY <2>2 DEF ManageQuiet
    <3>3. /\ UNCHANGED <<connection, stageAck, generation, life, reported>>
          /\ state' \in {"CONNECTING", "CONNECTED", "CLOSED"}
          /\ connectedSize' \in Int /\ created' \in Nat /\ closeCalled' \in BOOLEAN
          /\ closed \in BOOLEAN /\ FALSE \in BOOLEAN
      BY <2>1, <2>2 DEF ManageQuiet
    <3> HIDE DEF t, closed
    <3>4. QED
      BY <2>1, <3>1, <3>2, <3>3, FlushStep
  <2>3. ASSUME NEW elapsed \in BOOLEAN, ManageRaise(elapsed)
        PROVE  IInv'
    <3> DEFINE r(q) == IF q = {} THEN run ELSE run + 1
               t(q) == IF q = {} THEN Stopped(Fired(trigger)) ELSE Fired(trigger)
    <3>1. PICK q \in RaisedSets : \E e \in Ascending(q) :
            FlushQueue(messages, RaisedChunks(e), r(q), lastWriter /\ q = {}, t(q),
                       state = "CLOSED", FALSE)
      BY <2>3 DEF ManageRaise
    <3>2. PICK e \in Ascending(q) :
            FlushQueue(messages, RaisedChunks(e), r(q), lastWriter /\ q = {}, t(q),
                       state = "CLOSED", FALSE)
      BY <3>1
    <3>3. RaisedChunks(e) \in Seq(Chunk)
      BY RaisedType
    <3>4. Fired(trigger) \in Trigger
      <4>1. trigger.cycle + 1 <= GiveUp
        BY <2>1, <2>3, WriterAssumption DEF ManageRaise, Trigger
      <4>2. QED
        BY <2>1, <4>1, TriggerType
    <3>5. t(q) \in Trigger /\ r(q) \in Nat /\ (lastWriter /\ q = {}) \in BOOLEAN
      BY <2>1, <3>4, TriggerType
    <3>6. /\ UNCHANGED <<connection, stageAck, generation, life, reported>>
          /\ state' \in {"CONNECTING", "CONNECTED", "CLOSED"}
          /\ connectedSize' \in Int /\ created' \in Nat /\ closeCalled' \in BOOLEAN
          /\ (state = "CLOSED") \in BOOLEAN
      BY <2>1, <2>3 DEF ManageRaise
    <3> HIDE DEF r, t
    <3>7. QED
      BY <2>1, <3>2, <3>3, <3>5, <3>6, FlushStep
  <2>4. ASSUME NEW elapsed \in BOOLEAN, NEW r \in Reliabilities, ManageFail(elapsed, r)
        PROVE  IInv'
    BY <2>4, RenewKeeps, WriterAssumption DEF ManageFail
  <2>5. ASSUME ManageConsumed
        PROVE  IInv'
    <3>1. TypeOK'
      BY <1>0, <2>5 DEF ManageConsumed, TypeOK, windowVars, bandVars
    <3>2. WindowAligned'
      BY <1>0, <2>5 DEF ManageConsumed, WindowAligned, windowVars
    <3>3. QED
      BY <3>1, <3>2 DEF IInv
  <2>6. QED
    BY <1>9, <2>2, <2>3, <2>4, <2>5 DEF Manage
<1>10. ASSUME BandAdvance
       PROVE  IInv'
  <2>1. TypeOK'
    <3>1. run' \in Nat /\ lastWriter' \in BOOLEAN
      <4>1. run' = run + 1
        BY <1>10 DEF BandAdvance
      <4>2. run \in Nat
        BY <1>0 DEF TypeOK
      <4>3. run' \in Nat
        BY <4>1, <4>2
      <4>4. lastWriter' \in BOOLEAN
        BY <1>10 DEF BandAdvance
      <4>5. QED
        BY <4>3, <4>4
    <3>2. UNCHANGED <<state, connection, connectedSize, windowVars, generation, life,
                      wire, created, reported, closeCalled>>
      BY <1>10 DEF BandAdvance
    <3>3. QED
      BY <1>0, <3>1, <3>2 DEF TypeOK, windowVars
  <2>2. WindowAligned'
    BY <1>0, <1>10 DEF BandAdvance, WindowAligned, windowVars
  <2>3. QED
    BY <2>1, <2>2 DEF IInv
<1>11. ASSUME UNCHANGED vars
       PROVE  IInv'
  BY <1>0, <1>11 DEF vars, TypeOK, WindowAligned, IInv
<1>12. QED
  BY <1>1, <1>2, <1>3, <1>4, <1>5, <1>6, <1>7, <1>8, <1>9, <1>10, <1>11 DEF Next

\* Every variable of the writer keeps its type in every behaviour.
THEOREM TypeCorrect == Spec => []TypeOK
<1>1. IInv => TypeOK
  BY DEF IInv
<1>2. QED
  BY <1>1, InitIInv, NextIInv, PTL DEF Spec

\* In every behaviour the list of sent fragments covers the unacknowledged
\* stages, and under the first identifier exactly those: the stages that
\* acknowledgment and raiseMessage recount are the fragments' own.
THEOREM WindowCorrect == Spec => []WindowAligned
<1>1. IInv => WindowAligned
  BY DEF IInv
<1>2. QED
  BY <1>1, InitIInv, NextIInv, PTL DEF Spec

-----------------------------------------------------------------------------
(* What is on the band, and what the writer believes                       *)

\* A chunk has an identifier taken so far, and at most one stage more than was
\* numbered: an abandonment moves what follows it by one.
Bounded(c) ==
    /\ c.generation <= generation
    /\ c.generation = generation => c.stage <= stage + 1

\* What is queued is newer than what was written.
Older(c) ==
    /\ c.message < created
    /\ \A k \in DOMAIN messages : c.message < messages[k].name

\* A message is reliable in all its fragments.
Agrees(c) ==
    \A k \in DOMAIN sent : c.message = sent[k].message => c.reliable = sent[k].reliable

Carries(c, fr) ==
    /\ c.message = fr.message /\ c.reliable = fr.reliable
    /\ c.before = fr.before /\ c.after = fr.after

\* Under the first identifier, what was written after stageAck is what
\* _messagesSent has at that place.
Matches(c) ==
    generation = 0 =>
        /\ c.generation = 0 /\ 1 <= c.stage /\ c.stage <= stage
        /\ c.stage > stageAck => Carries(c, sent[c.stage - stageAck])

\* AckedWasReported, of one chunk.
Acked(c) ==
    generation = 0 => ((c.reliable /\ c.stage <= stageAck) => c.stage \in reported)

\* A writer that is not the main one flags the end at its last stage, once closed.
EndsAt(c) ==
    (~Critical /\ c.end) => state = "CLOSED" /\ c.generation = generation /\ c.stage = stage

Sound(c) == Bounded(c) /\ Older(c) /\ Agrees(c) /\ Matches(c) /\ Acked(c) /\ EndsAt(c)

\* What WireWellFormed says of a chunk c written before a chunk d.
Consistent(c, d) ==
    /\ (c.generation = 0 /\ d.generation = 0 /\ c.stage = d.stage)
       => c.message = d.message /\ c.before = d.before /\ c.after = d.after
    /\ (~c.reliable /\ c.message = d.message) => c.stage < d.stage

EndsLater(c, d) ==
    c.generation = d.generation => /\ c.end => d.stage <= c.stage
                                   /\ d.end => c.stage <= d.stage

ChunksOf(w) == {w[i] : i \in DOMAIN w}

Pairs(w) == \A i, j \in DOMAIN w : i < j => Consistent(w[i], w[j])

EndPairs(w) == \A i, j \in DOMAIN w : i < j => EndsLater(w[i], w[j])

Headed(w) ==
    \A i \in DOMAIN w : (~w[i].head /\ w[i].stage > 1) => i > 1 /\ Follows(w[i - 1], w[i])

\* When the next chunk may do without a header, the last one written is the
\* one it follows.
Continued(w, r, last) ==
    (last /\ stage > 0) =>
        /\ w # <<>>
        /\ w[Len(w)].run = r /\ w[Len(w)].generation = generation /\ w[Len(w)].stage = stage

Band(w, r, last) ==
    /\ w \in Seq(Chunk)
    /\ \A c \in ChunksOf(w) : Sound(c)
    /\ Pairs(w)
    /\ ~Critical => EndPairs(w)
    /\ Headed(w)
    /\ Continued(w, r, last)

\* Messages are queued in the order of their creation, after all those sent.
Queued ==
    /\ \A k \in DOMAIN messages : messages[k].name < created
    /\ \A j, k \in DOMAIN messages : j < k => messages[j].name < messages[k].name
    /\ \A i \in DOMAIN sent : sent[i].message < created
    /\ \A i \in DOMAIN sent, k \in DOMAIN messages : sent[i].message < messages[k].name

\* A closed writer that is not the main one announced its end.
Announced(w) ==
    (~Critical /\ state = "CLOSED" /\ stage > 0) =>
        \E c \in ChunksOf(w) : c.end /\ c.generation = generation

\* The life of a writer that is not the main one.
Plain ==
    /\ ~Critical => /\ connectedSize = -1 /\ state # "CONNECTING"
                    /\ state = "CLOSED" => messages = <<>>
    /\ life = "erased" => ~Critical /\ state = "CLOSED"

\* No message is cut short at the end of _messagesSent, which has at most one
\* fragment more than there are stages to acknowledge.
Whole ==
    /\ Len(sent) <= stage - stageAck + 1
    /\ \A i \in DOMAIN sent :
          sent[i].after => i + 1 \in DOMAIN sent /\ sent[i + 1].reliable = sent[i].reliable
    /\ \A i, j \in DOMAIN sent :
          sent[i].message = sent[j].message => sent[i].reliable = sent[j].reliable

WInv == /\ IInv
        /\ Band(wire, run, lastWriter) /\ Announced(wire)
        /\ Queued /\ Plain /\ Whole
        /\ RepeatableCounts /\ RepeatArmed

-----------------------------------------------------------------------------
(* The band as a list that grows                                           *)

\* A chunk of two joined lists is one of the first or one of the second.
LEMMA InEither ==
    ASSUME NEW w \in Seq(Chunk), NEW u \in Seq(Chunk), NEW i \in DOMAIN (w \o u)
    PROVE  \/ i \in DOMAIN w /\ (w \o u)[i] = w[i]
           \/ \E k \in DOMAIN u : i = Len(w) + k /\ (w \o u)[i] = u[k]
<1>1. Len(w) \in Nat /\ Len(u) \in Nat /\ DOMAIN w = 1 .. Len(w) /\ DOMAIN u = 1 .. Len(u)
      /\ i \in 1 .. Len(w) + Len(u)
  OBVIOUS
<1>2. CASE i <= Len(w)
  <2>1. i \in DOMAIN w
    BY <1>1, <1>2
  <2>2. QED
    BY <2>1
<1>3. CASE i > Len(w)
  <2>1. i - Len(w) \in DOMAIN u /\ i = Len(w) + (i - Len(w))
    BY <1>1, <1>3
  <2>2. (w \o u)[i] = u[i - Len(w)]
    BY <1>1, <1>3
  <2>3. QED
    BY <2>1, <2>2
<1>4. QED
  BY <1>1, <1>2, <1>3

\* And each chunk of either is found in the joined list.
LEMMA OfEach ==
    ASSUME NEW w \in Seq(Chunk), NEW u \in Seq(Chunk)
    PROVE  /\ w \o u \in Seq(Chunk) /\ Len(w \o u) = Len(w) + Len(u)
           /\ DOMAIN (w \o u) = 1 .. Len(w) + Len(u)
           /\ \A i \in DOMAIN w : i \in DOMAIN (w \o u) /\ (w \o u)[i] = w[i]
           /\ \A k \in DOMAIN u : Len(w) + k \in DOMAIN (w \o u) /\ (w \o u)[Len(w) + k] = u[k]
<1>1. Len(w) \in Nat /\ Len(u) \in Nat /\ DOMAIN w = 1 .. Len(w) /\ DOMAIN u = 1 .. Len(u)
      /\ w \o u \in Seq(Chunk) /\ Len(w \o u) = Len(w) + Len(u)
      /\ DOMAIN (w \o u) = 1 .. Len(w) + Len(u)
  OBVIOUS
<1>2. ASSUME NEW i \in DOMAIN w PROVE i \in DOMAIN (w \o u) /\ (w \o u)[i] = w[i]
  BY <1>1
<1>3. ASSUME NEW k \in DOMAIN u PROVE Len(w) + k \in DOMAIN (w \o u) /\ (w \o u)[Len(w) + k] = u[k]
  <2>1. Len(w) + k \in 1 .. Len(w) + Len(u) /\ Len(w) + k > Len(w) /\ (Len(w) + k) - Len(w) = k
    BY <1>1
  <2>2. QED
    BY <1>1, <2>1
<1>4. QED
  BY <1>1, <1>2, <1>3

\* The chunks of a joined list are those of its parts.
LEMMA ChunksOfBoth ==
    ASSUME NEW w \in Seq(Chunk), NEW u \in Seq(Chunk)
    PROVE  ChunksOf(w \o u) = ChunksOf(w) \cup ChunksOf(u)
<1>1. ASSUME NEW c \in ChunksOf(w \o u) PROVE c \in ChunksOf(w) \cup ChunksOf(u)
  <2>1. PICK i \in DOMAIN (w \o u) : c = (w \o u)[i]
    BY DEF ChunksOf
  <2>2. QED
    BY <2>1, InEither DEF ChunksOf
<1>2. ASSUME NEW c \in ChunksOf(w) PROVE c \in ChunksOf(w \o u)
  <2>1. PICK i \in DOMAIN w : c = w[i]
    BY DEF ChunksOf
  <2>2. i \in DOMAIN (w \o u) /\ (w \o u)[i] = w[i]
    BY <2>1, OfEach
  <2>3. QED
    BY <2>1, <2>2 DEF ChunksOf
<1>3. ASSUME NEW c \in ChunksOf(u) PROVE c \in ChunksOf(w \o u)
  <2>1. PICK k \in DOMAIN u : c = u[k]
    BY DEF ChunksOf
  <2>2. Len(w) + k \in DOMAIN (w \o u) /\ (w \o u)[Len(w) + k] = u[k]
    BY <2>1, OfEach
  <2>3. QED
    BY <2>1, <2>2 DEF ChunksOf
<1>4. QED
  BY <1>1, <1>2, <1>3

\* Two chunks of a joined list come both from one part, or one from each.
LEMMA TwoOfEither ==
    ASSUME NEW w \in Seq(Chunk), NEW u \in Seq(Chunk),
           NEW i \in DOMAIN (w \o u), NEW j \in DOMAIN (w \o u), i < j
    PROVE  \/ i \in DOMAIN w /\ j \in DOMAIN w /\ (w \o u)[i] = w[i] /\ (w \o u)[j] = w[j]
           \/ \E k, l \in DOMAIN u : k < l /\ (w \o u)[i] = u[k] /\ (w \o u)[j] = u[l]
           \/ \E l \in DOMAIN u : i \in DOMAIN w /\ (w \o u)[i] = w[i] /\ (w \o u)[j] = u[l]
<1>1. Len(w) \in Nat /\ Len(u) \in Nat /\ DOMAIN w = 1 .. Len(w) /\ DOMAIN u = 1 .. Len(u)
      /\ i \in 1 .. Len(w) + Len(u) /\ j \in 1 .. Len(w) + Len(u)
  OBVIOUS
<1>2. CASE i \in DOMAIN w /\ (w \o u)[i] = w[i]
  <2>1. CASE j \in DOMAIN w /\ (w \o u)[j] = w[j]
    BY <1>2, <2>1
  <2>2. CASE \E l \in DOMAIN u : j = Len(w) + l /\ (w \o u)[j] = u[l]
    BY <1>2, <2>2
  <2>3. QED
    BY <2>1, <2>2, InEither
<1>3. CASE \E k \in DOMAIN u : i = Len(w) + k /\ (w \o u)[i] = u[k]
  <2>1. PICK k \in DOMAIN u : i = Len(w) + k /\ (w \o u)[i] = u[k]
    BY <1>3
  <2>2. k \in Nat /\ k >= 1
    BY <1>1
  <2>3. j \notin DOMAIN w
    BY <1>1, <2>1, <2>2
  <2>4. PICK l \in DOMAIN u : j = Len(w) + l /\ (w \o u)[j] = u[l]
    BY <2>3, InEither
  <2>5. k < l
    BY <1>1, <2>1, <2>4
  <2>6. QED
    BY <2>1, <2>4, <2>5
<1>4. QED
  BY <1>2, <1>3, InEither

\* The order of the chunks of a joined list, from that of its parts.
LEMMA PairsJoined ==
    ASSUME NEW w \in Seq(Chunk), NEW u \in Seq(Chunk), Pairs(w), Pairs(u),
           \A c \in ChunksOf(w), d \in ChunksOf(u) : Consistent(c, d)
    PROVE  Pairs(w \o u)
<1> SUFFICES ASSUME NEW i \in DOMAIN (w \o u), NEW j \in DOMAIN (w \o u), i < j
             PROVE  Consistent((w \o u)[i], (w \o u)[j])
  BY DEF Pairs
<1> DEFINE W == w \o u
<1>1. \/ i \in DOMAIN w /\ j \in DOMAIN w /\ W[i] = w[i] /\ W[j] = w[j]
      \/ \E k, l \in DOMAIN u : k < l /\ W[i] = u[k] /\ W[j] = u[l]
      \/ \E l \in DOMAIN u : i \in DOMAIN w /\ W[i] = w[i] /\ W[j] = u[l]
  BY TwoOfEither
<1> HIDE DEF W
<1>2. Consistent(W[i], W[j])
  BY <1>1 DEF Pairs, ChunksOf
<1>3. QED
  BY <1>2 DEF W

\* The same of the ends that the chunks of a joined list flag.
LEMMA EndPairsJoined ==
    ASSUME NEW w \in Seq(Chunk), NEW u \in Seq(Chunk), EndPairs(w), EndPairs(u),
           \A c \in ChunksOf(w), d \in ChunksOf(u) : EndsLater(c, d)
    PROVE  EndPairs(w \o u)
<1> SUFFICES ASSUME NEW i \in DOMAIN (w \o u), NEW j \in DOMAIN (w \o u), i < j
             PROVE  EndsLater((w \o u)[i], (w \o u)[j])
  BY DEF EndPairs
<1> DEFINE W == w \o u
<1>1. \/ i \in DOMAIN w /\ j \in DOMAIN w /\ W[i] = w[i] /\ W[j] = w[j]
      \/ \E k, l \in DOMAIN u : k < l /\ W[i] = u[k] /\ W[j] = u[l]
      \/ \E l \in DOMAIN u : i \in DOMAIN w /\ W[i] = w[i] /\ W[j] = u[l]
  BY TwoOfEither
<1> HIDE DEF W
<1>2. EndsLater(W[i], W[j])
  BY <1>1 DEF EndPairs, ChunksOf
<1>3. QED
  BY <1>2 DEF W

\* A chunk without a header follows in the joined list as it does in u, or
\* follows the last of w when it is the first of u.
LEMMA HeadedJoined ==
    ASSUME NEW w \in Seq(Chunk), NEW u \in Seq(Chunk), Headed(w),
           \A k \in DOMAIN u : (~u[k].head /\ u[k].stage > 1) =>
              \/ k > 1 /\ Follows(u[k - 1], u[k])
              \/ k = 1 /\ w # <<>> /\ Follows(w[Len(w)], u[1])
    PROVE  Headed(w \o u)
<1> DEFINE W == w \o u
<1>0. Len(w) \in Nat /\ Len(u) \in Nat /\ DOMAIN w = 1 .. Len(w) /\ DOMAIN u = 1 .. Len(u)
      /\ W \in Seq(Chunk)
      /\ (\A i \in DOMAIN w : W[i] = w[i])
      /\ (\A k \in DOMAIN u : W[Len(w) + k] = u[k])
  BY OfEach
<1>1. \A i \in DOMAIN W : \/ i \in DOMAIN w /\ W[i] = w[i]
                          \/ \E k \in DOMAIN u : i = Len(w) + k /\ W[i] = u[k]
  BY InEither
<1> HIDE DEF W
<1> SUFFICES ASSUME NEW i \in DOMAIN W, ~W[i].head, W[i].stage > 1
             PROVE  i > 1 /\ Follows(W[i - 1], W[i])
  BY DEF Headed, W
<1>2. CASE i \in DOMAIN w /\ W[i] = w[i]
  <2>1. i > 1 /\ Follows(w[i - 1], w[i])
    BY <1>2 DEF Headed
  <2>2. i - 1 \in DOMAIN w
    BY <1>0, <1>2, <2>1
  <2>3. W[i - 1] = w[i - 1]
    BY <1>0, <2>2
  <2>4. QED
    BY <1>2, <2>1, <2>3
<1>3. CASE \E k \in DOMAIN u : i = Len(w) + k /\ W[i] = u[k]
  <2>1. PICK k \in DOMAIN u : i = Len(w) + k /\ W[i] = u[k]
    BY <1>3
  <2>2. k \in Nat /\ k >= 1 /\ k <= Len(u)
    BY <1>0
  <2>3. CASE k > 1 /\ Follows(u[k - 1], u[k])
    <3>1. k - 1 \in DOMAIN u /\ i - 1 = Len(w) + (k - 1) /\ i > 1
      BY <1>0, <2>1, <2>2, <2>3
    <3>2. W[i - 1] = u[k - 1]
      BY <1>0, <3>1
    <3>3. QED
      BY <2>1, <2>3, <3>1, <3>2
  <2>4. CASE k = 1 /\ w # <<>> /\ Follows(w[Len(w)], u[1])
    <3>1. Len(w) > 0
      BY <1>0, <2>4
    <3>2. Len(w) \in DOMAIN w /\ i - 1 = Len(w) /\ i > 1
      BY <1>0, <2>1, <2>4, <3>1
    <3>3. W[i - 1] = w[Len(w)]
      BY <1>0, <3>2
    <3>4. QED
      BY <2>1, <2>4, <3>2, <3>3
  <2>5. QED
    BY <2>1, <2>3, <2>4
<1>4. QED
  BY <1>1, <1>2, <1>3

\* A list of chunks each of which carries again a reliable fragment of
\* _messagesSent, at the stage it is counted at.
Again(u) ==
    \A k \in DOMAIN u :
        /\ u[k].generation = generation
        /\ \E j \in DOMAIN sent :
              sent[j].reliable /\ u[k].stage = stageAck + j /\ Carries(u[k], sent[j])
        /\ u[k].head \/ (k > 1 /\ Follows(u[k - 1], u[k]))
        /\ ~Critical => ~u[k].end
        /\ ~Critical /\ state = "CLOSED" => u[k].stage <= stage

\* Writing such a list keeps the band sound.
LEMMA AgainKeeps ==
    ASSUME WInv, NEW w, NEW r, NEW last \in BOOLEAN, Band(w, r, last),
           NEW u \in Seq(Chunk), Again(u), NEW r2, NEW last2 \in BOOLEAN,
           last2 => last /\ u = <<>> /\ r2 = r
    PROVE  Band(w \o u, r2, last2)
<1>1. /\ w \in Seq(Chunk) /\ stage \in Nat /\ stageAck \in Nat /\ sent \in Seq(Fragment)
      /\ generation \in Nat /\ Len(sent) <= stage - stageAck + 1 /\ stageAck <= stage
      /\ (generation = 0 => Len(sent) = stage - stageAck)
      /\ Len(sent) \in Nat /\ DOMAIN sent = 1 .. Len(sent)
  BY DEF WInv, IInv, TypeOK, Whole, Band, WindowAligned
<1>2. ASSUME NEW c \in ChunksOf(u)
      PROVE  /\ Sound(c) /\ c.reliable /\ c.generation = generation /\ stageAck < c.stage
             /\ c.stage \in Nat /\ (~Critical => ~c.end)
             /\ (~Critical /\ state = "CLOSED" => c.stage <= stage)
             /\ \E j \in DOMAIN sent : c.stage = stageAck + j /\ Carries(c, sent[j])
  <2>1. PICK k \in DOMAIN u : c = u[k]
    BY DEF ChunksOf
  <2>2. PICK j \in DOMAIN sent :
          sent[j].reliable /\ c.stage = stageAck + j /\ Carries(c, sent[j])
    BY <2>1 DEF Again
  <2>3. c.generation = generation /\ (~Critical => ~c.end)
        /\ (~Critical /\ state = "CLOSED" => c.stage <= stage)
    BY <2>1 DEF Again
  <2>4. stageAck < c.stage /\ c.stage <= stage + 1 /\ c.stage \in Nat /\ c.stage - stageAck = j
        /\ (generation = 0 => c.stage <= stage)
    BY <1>1, <2>2
  <2>5. c.reliable /\ c.message = sent[j].message
    BY <2>2 DEF Carries
  <2>6. Older(c)
    BY <2>5 DEF Older, Queued, WInv
  <2>7. Agrees(c)
    BY <2>2, <2>5 DEF Agrees, Whole, WInv
  <2>8. Bounded(c) /\ Acked(c) /\ EndsAt(c)
    BY <1>1, <2>3, <2>4 DEF Bounded, Acked, EndsAt
  <2>9. Matches(c)
    BY <1>1, <2>2, <2>3, <2>4 DEF Matches
  <2>10. QED
    BY <2>2, <2>3, <2>4, <2>5, <2>6, <2>7, <2>8, <2>9 DEF Sound
<1>3. \A c \in ChunksOf(w \o u) : Sound(c)
  BY <1>1, <1>2, ChunksOfBoth DEF Band
<1>4. ASSUME NEW c \in ChunksOf(w), NEW d \in ChunksOf(u)
      PROVE  Consistent(c, d) /\ (~Critical => EndsLater(c, d))
  <2>1. Bounded(c) /\ Agrees(c) /\ Matches(c) /\ EndsAt(c)
    BY DEF Band, Sound
  <2>2. PICK j \in DOMAIN sent : d.stage = stageAck + j /\ Carries(d, sent[j])
    BY <1>2
  <2>3. d.reliable /\ d.generation = generation /\ stageAck < d.stage /\ d.stage - stageAck = j
    BY <1>1, <1>2, <2>2
  <2>4. ASSUME c.generation = 0, d.generation = 0, c.stage = d.stage
        PROVE  c.message = d.message /\ c.before = d.before /\ c.after = d.after
    <3>1. Carries(c, sent[j])
      BY <2>1, <2>3, <2>4 DEF Matches
    <3>2. QED
      BY <2>2, <3>1 DEF Carries
  <2>5. c.message = d.message => c.reliable
    BY <2>1, <2>2, <2>3 DEF Agrees, Carries
  <2>6. ~Critical => EndsLater(c, d)
    BY <1>2, <2>1 DEF EndsLater, EndsAt
  <2>7. QED
    BY <2>4, <2>5, <2>6 DEF Consistent
<1>5. ASSUME NEW k \in DOMAIN u, NEW l \in DOMAIN u, k < l
      PROVE  Consistent(u[k], u[l]) /\ (~Critical => EndsLater(u[k], u[l]))
  <2> DEFINE c == u[k]   d == u[l]
  <2>1. c \in ChunksOf(u) /\ d \in ChunksOf(u)
    BY DEF ChunksOf
  <2> HIDE DEF c, d
  <2>2. PICK i \in DOMAIN sent : c.stage = stageAck + i /\ Carries(c, sent[i])
    BY <1>2, <2>1
  <2>3. PICK j \in DOMAIN sent : d.stage = stageAck + j /\ Carries(d, sent[j])
    BY <1>2, <2>1
  <2>4. c.stage = d.stage => i = j
    BY <1>1, <2>2, <2>3
  <2>5. Consistent(c, d)
    BY <1>2, <2>1, <2>2, <2>3, <2>4 DEF Consistent, Carries
  <2>6. ~Critical => EndsLater(c, d)
    BY <1>2, <2>1 DEF EndsLater
  <2>7. QED
    BY <2>5, <2>6 DEF c, d
<1>6. Pairs(w \o u)
  BY <1>1, <1>4, <1>5, PairsJoined DEF Band, Pairs
<1>7. ~Critical => EndPairs(w \o u)
  BY <1>1, <1>4, <1>5, EndPairsJoined DEF Band, EndPairs
<1>8. Headed(w \o u)
  BY <1>1, HeadedJoined DEF Band, Again
<1>9. Continued(w \o u, r2, last2)
  <2>1. CASE last2
    <3>1. w \o u = w
      BY <1>1, <2>1
    <3>2. QED
      BY <2>1, <3>1 DEF Band, Continued
  <2>2. QED
    BY <2>1 DEF Continued
<1>10. w \o u \in Seq(Chunk)
  BY <1>1, OfEach
<1>11. QED
  BY <1>3, <1>6, <1>7, <1>8, <1>9, <1>10 DEF Band
-----------------------------------------------------------------------------
(* flush                                                                   *)

\* The fragments of a queue follow the order of its messages, cover them all,
\* and are several only for a message that is not empty.
LEMMA FragmentationOrder ==
    ASSUME NEW q \in Seq(Message), NEW f \in Fragmentations(q)
    PROVE  /\ Len(f) \in Nat /\ DOMAIN f = 1 .. Len(f)
           /\ \A i \in DOMAIN f : f[i] \in DOMAIN q /\ q[f[i]] \in Message
           /\ \A m \in DOMAIN q : \E i \in DOMAIN f : f[i] = m
           /\ \A i, j \in DOMAIN f : i < j =>
                 f[i] <= f[j] /\ (f[i] = f[j] => ~q[f[i]].empty)
           /\ f = <<>> <=> q = <<>>
<1>1. Len(f) \in Nat /\ f \in [1 .. Len(f) -> DOMAIN q] /\ DOMAIN f = 1 .. Len(f)
  BY FragmentationType
<1>2. PICK n \in Len(q) .. (Len(q) + MaxSplit) :
         /\ f \in [1 .. n -> DOMAIN q]
         /\ \A m \in DOMAIN q : \E i \in 1 .. n : f[i] = m
         /\ \A i, j \in 1 .. n : i < j =>
               f[i] <= f[j] /\ (f[i] = f[j] => ~q[f[i]].empty)
  BY DEF Fragmentations
<1>3. DOMAIN f = 1 .. n
  BY <1>2
<1>4. /\ \A m \in DOMAIN q : \E i \in DOMAIN f : f[i] = m
      /\ \A i, j \in DOMAIN f : i < j => f[i] <= f[j] /\ (f[i] = f[j] => ~q[f[i]].empty)
  BY <1>2, <1>3
<1>5. \A i \in DOMAIN f : f[i] \in DOMAIN q /\ q[f[i]] \in Message
  BY <1>1
<1>6. ASSUME f = <<>> PROVE q = <<>>
  <2>1. Len(f) = 0
    BY <1>6
  <2>2. \A i : i \notin DOMAIN f
    BY <1>1, <2>1
  <2>3. \A m : m \notin DOMAIN q
    BY <1>4, <2>2
  <2>4. Len(q) \in Nat /\ DOMAIN q = 1 .. Len(q)
    OBVIOUS
  <2>5. Len(q) = 0
    <3>1. 1 \notin DOMAIN q
      BY <2>3
    <3>2. ~(Len(q) >= 1)
      BY <2>4, <3>1
    <3>3. QED
      BY <2>4, <3>2
  <2>6. QED
    BY <2>5
<1>7. ASSUME q = <<>> PROVE f = <<>>
  <2>1. Len(q) = 0 /\ DOMAIN q = 1 .. Len(q)
    BY <1>7
  <2>2. \A i : i \notin DOMAIN f
    BY <1>5, <2>1
  <2>3. Len(f) = 0
    <3>1. 1 \notin DOMAIN f
      BY <2>2
    <3>2. ~(Len(f) >= 1)
      BY <1>1, <3>1
    <3>3. QED
      BY <1>1, <3>2
  <2>4. f \in Seq(DOMAIN q)
    BY <1>1
  <2>5. QED
    BY <2>3, <2>4
<1>8. QED
  BY <1>1, <1>4, <1>5, <1>6, <1>7

\* The chunks a flush of q writes.
Flushed(q, f, cuts, r, last, closed) ==
    [i \in DOMAIN f |->
       ChunkOf(Fresh(q, f, stage)[i], stage + i, stageAck, (i = 1 /\ ~last) \/ i \in cuts,
               r + RunsUpTo(cuts, i), closed /\ IsLast(q, f[i]))]

\* A flush writes one chunk for each fragment, which it numbers from stage + 1.
LEMMA FlushedType ==
    ASSUME IInv, NEW q \in Seq(Message), NEW f \in Fragmentations(q),
           NEW cuts \in CutsOf(f), NEW r \in Nat, NEW last \in BOOLEAN,
           NEW closed \in BOOLEAN
    PROVE  LET u == Flushed(q, f, cuts, r, last, closed)
               fresh == Fresh(q, f, stage)
           IN  /\ u \in Seq(Chunk) /\ Len(u) = Len(f) /\ DOMAIN u = DOMAIN f
               /\ fresh \in Seq(Fragment) /\ Len(fresh) = Len(f) /\ DOMAIN fresh = DOMAIN f
               /\ \A i \in DOMAIN f :
                     /\ fresh[i].message = q[f[i]].name
                     /\ fresh[i].reliable = q[f[i]].reliable
                     /\ fresh[i].empty = q[f[i]].empty
                     /\ fresh[i].after <=> (i < Len(f) /\ f[i + 1] = f[i])
                     /\ Carries(u[i], fresh[i])
                     /\ u[i].generation = generation /\ u[i].stage = stage + i
                     /\ u[i].head <=> ((i = 1 /\ ~last) \/ i \in cuts)
                     /\ u[i].run = r + RunsUpTo(cuts, i)
                     /\ u[i].end <=> (closed /\ f[i] = Len(q))
<1> DEFINE u == Flushed(q, f, cuts, r, last, closed)
           fresh == Fresh(q, f, stage)
<1>1. Len(f) \in Nat /\ DOMAIN f = 1 .. Len(f) /\ cuts \in SUBSET (1 .. Len(f))
      /\ stage \in Nat /\ stageAck \in Nat /\ TypeOK
  BY FragmentationOrder DEF CutsOf, IInv, TypeOK
<1>2. fresh \in Seq(Fragment) /\ Len(fresh) = Len(f) /\ DOMAIN fresh = DOMAIN f
      /\ (\A i \in DOMAIN f : fresh[i] \in Fragment)
  <2>1. /\ fresh \in Seq(Fragment) /\ Len(fresh) = Len(f)
        /\ \A i \in DOMAIN f : fresh[i] \in Fragment
    BY <1>1, FreshType
  <2>2. DOMAIN fresh = DOMAIN f
    BY DEF Fresh
  <2>3. QED
    BY <2>1, <2>2
<1>3. ASSUME NEW i \in DOMAIN f
      PROVE  /\ fresh[i].message = q[f[i]].name
             /\ fresh[i].reliable = q[f[i]].reliable
             /\ fresh[i].empty = q[f[i]].empty
             /\ fresh[i].after <=> (i < Len(f) /\ f[i + 1] = f[i])
  BY DEF Fresh
<1> HIDE DEF fresh
<1>4. ASSUME NEW i \in DOMAIN f
      PROVE  /\ u[i] \in Chunk
             /\ Carries(u[i], fresh[i])
             /\ u[i].generation = generation /\ u[i].stage = stage + i
             /\ u[i].head <=> ((i = 1 /\ ~last) \/ i \in cuts)
             /\ u[i].run = r + RunsUpTo(cuts, i)
             /\ u[i].end <=> (closed /\ f[i] = Len(q))
  <2> DEFINE head == (i = 1 /\ ~last) \/ i \in cuts
             end == closed /\ IsLast(q, f[i])
  <2>1. u[i] = ChunkOf(fresh[i], stage + i, stageAck, head, r + RunsUpTo(cuts, i), end)
    BY DEF Flushed, fresh
  <2>2. head \in BOOLEAN /\ end \in BOOLEAN /\ (end <=> (closed /\ f[i] = Len(q)))
    BY DEF IsLast
  <2>3. (head <=> ((i = 1 /\ ~last) \/ i \in cuts))
    OBVIOUS
  <2>4. RunsUpTo(cuts, i) \in Nat
    BY <1>1, CutsCount
  <2>5. stage + i \in Nat /\ r + RunsUpTo(cuts, i) \in Nat /\ fresh[i] \in Fragment
    BY <1>1, <1>2, <2>4
  <2> HIDE DEF u, head, end
  <2>6. u[i] \in Chunk
    BY <1>1, <2>1, <2>2, <2>5, ChunkType
  <2>7. QED
    BY <2>1, <2>2, <2>3, <2>6 DEF ChunkOf, Carries
<1>5. DOMAIN u = DOMAIN f
  BY DEF Flushed
<1> HIDE DEF u
<1>6. u \in [1 .. Len(f) -> Chunk]
  <2>1. u = [i \in 1 .. Len(f) |-> u[i]]
    BY <1>1 DEF u, Flushed
  <2>2. QED
    BY <1>1, <1>4, <2>1
<1>7. u \in Seq(Chunk) /\ Len(u) = Len(f)
  BY <1>1, <1>6
<1>8. QED
  BY <1>2, <1>3, <1>4, <1>5, <1>7 DEF u, fresh
\* A run goes on where there is no cut, and the last one counts every cut.
LEMMA RunsAlong ==
    ASSUME NEW n \in Nat, NEW cuts \in SUBSET (1 .. n)
    PROVE  /\ \A i \in 1 .. n : i \notin cuts => RunsUpTo(cuts, i) = RunsUpTo(cuts, i - 1)
           /\ RunsUpTo(cuts, 0) = 0
           /\ RunsUpTo(cuts, n) = Cardinality(cuts)
<1>0. \A c \in cuts : c \in Nat /\ 1 <= c /\ c <= n
  OBVIOUS
<1>1. ASSUME NEW i \in 1 .. n, i \notin cuts
      PROVE  RunsUpTo(cuts, i) = RunsUpTo(cuts, i - 1)
  <2>0. ASSUME NEW c \in cuts PROVE c <= i <=> c <= i - 1
    BY <1>0, <1>1
  <2>1. {c \in cuts : c <= i} = {c \in cuts : c <= i - 1}
    BY <2>0
  <2>2. QED
    BY <2>1 DEF RunsUpTo
<1>2. {c \in cuts : c <= 0} = {}
  <2>1. \A c \in cuts : ~(c <= 0)
    BY <1>0
  <2>2. QED
    BY <2>1
<1>3. {c \in cuts : c <= n} = cuts
  BY <1>0
<1>4. QED
  BY <1>1, <1>2, <1>3, FS_EmptySet DEF RunsUpTo

\* What a queue must be for a flush to write it: its messages are named in
\* their order, after all that was written and sent.
Follow(q, w) ==
    /\ \A j, k \in DOMAIN q : j < k => q[j].name < q[k].name
    /\ \A k \in DOMAIN q : /\ \A c \in ChunksOf(w) : c.message < q[k].name
                           /\ \A i \in DOMAIN sent : sent[i].message < q[k].name

\* What a flush does, of what bears on the band.
Flushes(q, f) ==
    /\ messages' = <<>>
    /\ stage' = stage + Len(f)
    /\ sent' = sent \o Fresh(q, f, stage)
    /\ stageAck' = stageAck /\ generation' = generation /\ reported' = reported
    /\ Critical' = Critical
    /\ created' \in Nat /\ created <= created'
    /\ \A k \in DOMAIN q : q[k].name < created'
    /\ (~Critical /\ state = "CLOSED") => q = <<>> /\ state' = "CLOSED"
    /\ (~Critical /\ state' = "CLOSED" /\ q # <<>>) => q[Len(q)].empty

\* _messagesSent after a flush.
LEMMA SentAfterFlush ==
    ASSUME IInv, NEW q \in Seq(Message), NEW f \in Fragmentations(q), Flushes(q, f)
    PROVE  /\ sent' \in Seq(Fragment) /\ Len(sent') = Len(sent) + Len(f)
           /\ DOMAIN sent' = 1 .. Len(sent) + Len(f)
           /\ \A i \in DOMAIN sent : i \in DOMAIN sent' /\ sent'[i] = sent[i]
           /\ \A k \in DOMAIN f : /\ Len(sent) + k \in DOMAIN sent'
                                  /\ sent'[Len(sent) + k] = Fresh(q, f, stage)[k]
           /\ \A i \in DOMAIN sent' : i \in DOMAIN sent
                                       \/ \E k \in DOMAIN f : i = Len(sent) + k
<1> DEFINE fresh == Fresh(q, f, stage)
<1>1. /\ sent \in Seq(Fragment) /\ Len(sent) \in Nat /\ DOMAIN sent = 1 .. Len(sent)
      /\ stage \in Nat
  BY DEF IInv, TypeOK
<1>2. Len(f) \in Nat /\ DOMAIN f = 1 .. Len(f)
  BY FragmentationOrder
<1>3. fresh \in Seq(Fragment) /\ Len(fresh) = Len(f)
  BY <1>1, FreshType
<1>4. sent' = sent \o fresh
  BY DEF Flushes
<1> HIDE DEF fresh
<1>5. sent' \in Seq(Fragment) /\ Len(sent') = Len(sent) + Len(f)
  <2>1. sent \o fresh \in Seq(Fragment) /\ Len(sent \o fresh) = Len(sent) + Len(fresh)
    BY <1>1, <1>3, ConcatProperties
  <2>2. QED
    BY <1>3, <1>4, <2>1
<1>6. DOMAIN sent' = 1 .. Len(sent) + Len(f)
  BY <1>5
<1>7. ASSUME NEW i \in DOMAIN sent PROVE i \in DOMAIN sent' /\ sent'[i] = sent[i]
  BY <1>1, <1>2, <1>3, <1>4, <1>6
<1>8. ASSUME NEW k \in DOMAIN f
      PROVE  Len(sent) + k \in DOMAIN sent' /\ sent'[Len(sent) + k] = fresh[k]
  <2>1. Len(sent) + k \in 1 .. Len(sent) + Len(f) /\ Len(sent) + k > Len(sent)
        /\ (Len(sent) + k) - Len(sent) = k
    BY <1>1, <1>2
  <2>2. QED
    BY <1>1, <1>3, <1>4, <1>6, <2>1
<1>9. ASSUME NEW i \in DOMAIN sent', i \notin DOMAIN sent
      PROVE  \E k \in DOMAIN f : i = Len(sent) + k
  <2>1. i - Len(sent) \in DOMAIN f /\ i = Len(sent) + (i - Len(sent))
    BY <1>1, <1>2, <1>6, <1>9
  <2>2. QED
    BY <2>1
<1>10. QED
  BY <1>5, <1>6, <1>7, <1>8, <1>9 DEF fresh

\* A chunk written before the flush is sound after it.
LEMMA OldSoundAfterFlush ==
    ASSUME WInv, NEW q \in Seq(Message), NEW f \in Fragmentations(q), Flushes(q, f),
           NEW c \in Chunk, Sound(c), \A k \in DOMAIN q : c.message < q[k].name
    PROVE  Sound(c)'
<1>0. IInv
  BY DEF WInv
<1>1. /\ stage \in Nat /\ stageAck \in Nat /\ generation \in Nat /\ Len(f) \in Nat
      /\ DOMAIN f = 1 .. Len(f) /\ created \in Nat
      /\ sent \in Seq(Fragment) /\ Len(sent) \in Nat /\ DOMAIN sent = 1 .. Len(sent)
      /\ (generation = 0 => Len(sent) = stage - stageAck)
      /\ c.stage \in Nat /\ c.message \in Nat /\ c.generation \in Nat
  BY <1>0, FragmentationOrder DEF IInv, TypeOK, WindowAligned, Chunk
<1>2. Bounded(c)'
  BY <1>1 DEF Sound, Bounded, Flushes
<1>3. Older(c)'
  <2>1. c.message < created'
    BY <1>1 DEF Sound, Older, Flushes
  <2>2. \A k \in DOMAIN messages' : c.message < messages'[k].name
    BY DEF Flushes
  <2>3. QED
    BY <2>1, <2>2 DEF Older
<1>4. Agrees(c)'
  <2> SUFFICES ASSUME NEW i \in DOMAIN sent', c.message = sent'[i].message
               PROVE  c.reliable = sent'[i].reliable
    BY DEF Agrees
  <2>1. CASE i \in DOMAIN sent
    BY <1>0, <2>1, SentAfterFlush DEF Sound, Agrees
  <2>2. CASE \E k \in DOMAIN f : i = Len(sent) + k
    <3>1. PICK k \in DOMAIN f : i = Len(sent) + k
      BY <2>2
    <3>2. sent'[i] = Fresh(q, f, stage)[k]
      BY <1>0, <3>1, SentAfterFlush
    <3>3. sent'[i].message = q[f[k]].name /\ f[k] \in DOMAIN q /\ q[f[k]].name \in Nat
      BY <3>2, FragmentationOrder DEF Fresh, Message
    <3>4. QED
      BY <1>1, <3>3
  <2>3. QED
    BY <1>0, <2>1, <2>2, SentAfterFlush
<1>5. Matches(c)'
  <2> SUFFICES ASSUME generation' = 0
               PROVE  /\ c.generation = 0 /\ 1 <= c.stage /\ c.stage <= stage'
                      /\ c.stage > stageAck' => Carries(c, sent'[c.stage - stageAck'])
    BY DEF Matches, Carries
  <2>1. /\ c.generation = 0 /\ 1 <= c.stage /\ c.stage <= stage
        /\ c.stage > stageAck => Carries(c, sent[c.stage - stageAck])
    BY DEF Flushes, Sound, Matches
  <2>2. generation = 0 /\ stageAck' = stageAck /\ stage' = stage + Len(f)
    BY DEF Flushes
  <2>3. ASSUME c.stage > stageAck PROVE Carries(c, sent'[c.stage - stageAck])
    <3>1. c.stage - stageAck \in DOMAIN sent
      BY <1>1, <2>1, <2>2, <2>3
    <3>2. sent'[c.stage - stageAck] = sent[c.stage - stageAck]
      BY <1>0, <3>1, SentAfterFlush
    <3>3. QED
      BY <2>1, <2>3, <3>2
  <2>4. QED
    BY <1>1, <2>1, <2>2, <2>3
<1>6. Acked(c)'
  BY DEF Sound, Acked, Flushes
<1>7. EndsAt(c)'
  <2> SUFFICES ASSUME ~Critical', c.end
               PROVE  state' = "CLOSED" /\ c.generation = generation' /\ c.stage = stage'
    BY DEF EndsAt
  <2>1. state = "CLOSED" /\ c.generation = generation /\ c.stage = stage /\ ~Critical
    BY DEF EndsAt, Sound, Flushes
  <2>2. q = <<>> /\ state' = "CLOSED"
    BY <2>1 DEF Flushes
  <2>3. Len(f) = 0
    <3>1. f = <<>>
      BY <2>2, FragmentationOrder
    <3>2. QED
      BY <3>1
  <2>4. QED
    BY <1>1, <2>1, <2>2, <2>3 DEF Flushes
<1>8. QED
  BY <1>2, <1>3, <1>4, <1>5, <1>6, <1>7 DEF Sound
\* Only the last fragment is of the last message when that one is empty.
LEMMA LastAlone ==
    ASSUME NEW q \in Seq(Message), NEW f \in Fragmentations(q), q # <<>>,
           NEW i \in DOMAIN f
    PROVE  /\ Len(q) \in DOMAIN q /\ Len(f) \in DOMAIN f /\ f[Len(f)] = Len(q)
           /\ (q[Len(q)].empty /\ f[i] = Len(q)) => i = Len(f)
<1>1. /\ Len(f) \in Nat /\ DOMAIN f = 1 .. Len(f)
      /\ \A j \in DOMAIN f : f[j] \in DOMAIN q
      /\ \A m \in DOMAIN q : \E j \in DOMAIN f : f[j] = m
      /\ \A j, k \in DOMAIN f : j < k => f[j] <= f[k] /\ (f[j] = f[k] => ~q[f[j]].empty)
  BY FragmentationOrder
<1>2. Len(q) \in Nat /\ DOMAIN q = 1 .. Len(q) /\ Len(q) \in DOMAIN q
  BY EmptySeq
<1>3. Len(f) \in DOMAIN f
  BY <1>1
<1>4. f[Len(f)] = Len(q)
  <2>1. PICK j \in DOMAIN f : f[j] = Len(q)
    BY <1>1, <1>2
  <2>2. j = Len(f) \/ j < Len(f)
    BY <1>1
  <2>3. f[j] <= f[Len(f)]
    BY <1>1, <1>2, <1>3, <2>2
  <2>4. f[Len(f)] \in 1 .. Len(q)
    BY <1>1, <1>2, <1>3
  <2>5. QED
    BY <1>2, <2>1, <2>3, <2>4
<1>5. ASSUME q[Len(q)].empty, f[i] = Len(q) PROVE i = Len(f)
  <2>1. ~(i < Len(f))
    BY <1>1, <1>3, <1>4, <1>5
  <2>2. QED
    BY <1>1, <2>1
<1>6. QED
  BY <1>2, <1>3, <1>4, <1>5

\* A chunk the flush writes is sound after it.
LEMMA NewSoundAfterFlush ==
    ASSUME WInv, NEW w, NEW q \in Seq(Message), Follow(q, w),
           NEW f \in Fragmentations(q), Flushes(q, f), NEW cuts \in CutsOf(f),
           NEW r \in Nat, NEW last \in BOOLEAN, NEW closed \in BOOLEAN,
           closed => state' = "CLOSED",
           NEW c \in ChunksOf(Flushed(q, f, cuts, r, last, closed))
    PROVE  Sound(c)'
<1> DEFINE u == Flushed(q, f, cuts, r, last, closed)
           fresh == Fresh(q, f, stage)
<1>0. IInv
  BY DEF WInv
<1>1. /\ stage \in Nat /\ stageAck \in Nat /\ generation \in Nat /\ Len(f) \in Nat
      /\ DOMAIN f = 1 .. Len(f) /\ created \in Nat /\ stageAck <= stage
      /\ sent \in Seq(Fragment) /\ Len(sent) \in Nat /\ DOMAIN sent = 1 .. Len(sent)
      /\ (generation = 0 => Len(sent) = stage - stageAck)
      /\ DOMAIN q = 1 .. Len(q) /\ Len(q) \in Nat
  BY <1>0, FragmentationOrder DEF IInv, TypeOK, WindowAligned
<1>2. /\ DOMAIN u = DOMAIN f /\ fresh \in Seq(Fragment) /\ Len(fresh) = Len(f)
      /\ \A i \in DOMAIN f :
            /\ fresh[i].message = q[f[i]].name
            /\ fresh[i].reliable = q[f[i]].reliable
            /\ Carries(u[i], fresh[i])
            /\ u[i].generation = generation /\ u[i].stage = stage + i
            /\ u[i].end <=> (closed /\ f[i] = Len(q))
  BY <1>0, FlushedType
<1>3. /\ \A i \in DOMAIN sent : i \in DOMAIN sent' /\ sent'[i] = sent[i]
      /\ \A k \in DOMAIN f : Len(sent) + k \in DOMAIN sent' /\ sent'[Len(sent) + k] = fresh[k]
      /\ \A i \in DOMAIN sent' : i \in DOMAIN sent \/ \E k \in DOMAIN f : i = Len(sent) + k
  BY <1>0, SentAfterFlush
<1>4. PICK i \in DOMAIN u : c = u[i]
  BY DEF ChunksOf
<1> HIDE DEF u, fresh
<1>5. /\ i \in DOMAIN f /\ i \in Nat /\ 1 <= i /\ i <= Len(f)
      /\ c.message = q[f[i]].name /\ c.reliable = q[f[i]].reliable
      /\ Carries(c, fresh[i])
      /\ c.generation = generation /\ c.stage = stage + i
      /\ c.end <=> (closed /\ f[i] = Len(q))
  BY <1>1, <1>2, <1>4 DEF Carries
<1>6. f[i] \in DOMAIN q /\ f[i] \in Nat /\ q[f[i]].name \in Nat
  <2>1. f[i] \in DOMAIN q /\ q[f[i]] \in Message
    BY <1>5, FragmentationOrder
  <2>2. q[f[i]].name \in Nat
    BY <2>1 DEF Message
  <2>3. QED
    BY <1>1, <2>1, <2>2
<1>7. Bounded(c)'
  BY <1>1, <1>5 DEF Bounded, Flushes
<1>8. Older(c)'
  <2>1. c.message < created'
    BY <1>5, <1>6 DEF Flushes
  <2>2. \A k \in DOMAIN messages' : c.message < messages'[k].name
    BY DEF Flushes
  <2>3. QED
    BY <2>1, <2>2 DEF Older
<1>9. Agrees(c)'
  <2> SUFFICES ASSUME NEW j \in DOMAIN sent', c.message = sent'[j].message
               PROVE  c.reliable = sent'[j].reliable
    BY DEF Agrees
  <2>1. CASE j \in DOMAIN sent
    <3>1. sent[j].message < q[f[i]].name
      BY <1>6, <2>1 DEF Follow
    <3>2. sent'[j] = sent[j]
      BY <1>3, <2>1
    <3>3. q[f[i]].name = sent[j].message
      BY <1>5, <3>2
    <3>4. QED
      BY <1>6, <3>1, <3>3
  <2>2. CASE \E k \in DOMAIN f : j = Len(sent) + k
    <3>1. PICK k \in DOMAIN f : j = Len(sent) + k
      BY <2>2
    <3>2. sent'[j] = fresh[k]
      BY <1>3, <3>1
    <3>3. sent'[j].message = q[f[k]].name /\ sent'[j].reliable = q[f[k]].reliable
          /\ f[k] \in DOMAIN q /\ f[k] \in Nat
      BY <1>1, <1>2, <3>2, FragmentationOrder
    <3>4. q[f[k]].name = q[f[i]].name /\ q[f[k]].name \in Nat
      BY <1>5, <1>6, <3>3
    <3>5. f[k] = f[i]
      BY <1>6, <3>3, <3>4 DEF Follow
    <3>6. QED
      BY <1>5, <3>3, <3>5
  <2>3. QED
    BY <1>3, <2>1, <2>2
<1>10. Matches(c)'
  <2> SUFFICES ASSUME generation' = 0
               PROVE  /\ c.generation = 0 /\ 1 <= c.stage /\ c.stage <= stage'
                      /\ c.stage > stageAck' => Carries(c, sent'[c.stage - stageAck'])
    BY DEF Matches, Carries
  <2>1. generation = 0 /\ stageAck' = stageAck /\ stage' = stage + Len(f)
    BY DEF Flushes
  <2>2. c.stage - stageAck' = Len(sent) + i
    BY <1>1, <1>5, <2>1
  <2>3. sent'[c.stage - stageAck'] = fresh[i]
    BY <1>3, <1>5, <2>2
  <2>4. QED
    BY <1>1, <1>5, <2>1, <2>3
<1>11. Acked(c)'
  BY <1>1, <1>5 DEF Acked, Flushes
<1>12. EndsAt(c)'
  <2> SUFFICES ASSUME ~Critical', c.end
               PROVE  state' = "CLOSED" /\ c.generation = generation' /\ c.stage = stage'
    BY DEF EndsAt
  <2>1. closed /\ state' = "CLOSED" /\ f[i] = Len(q) /\ ~Critical
    BY <1>5 DEF Flushes
  <2>2. q # <<>>
    BY <1>1, <1>6
  <2>3. q[Len(q)].empty
    BY <2>1, <2>2 DEF Flushes
  <2>4. i = Len(f)
    BY <1>5, <2>1, <2>2, <2>3, LastAlone
  <2>5. QED
    BY <1>5, <2>1, <2>4 DEF Flushes
<1>13. QED
  BY <1>7, <1>8, <1>9, <1>10, <1>11, <1>12 DEF Sound
\* A chunk the flush writes continues what was written.
LEMMA NewAfterOld ==
    ASSUME WInv, NEW w \in Seq(Chunk), NEW q \in Seq(Message), Follow(q, w),
           NEW f \in Fragmentations(q), Flushes(q, f), NEW cuts \in CutsOf(f),
           NEW r \in Nat, NEW last \in BOOLEAN, NEW closed \in BOOLEAN,
           NEW c \in ChunksOf(w), Sound(c),
           NEW d \in ChunksOf(Flushed(q, f, cuts, r, last, closed))
    PROVE  Consistent(c, d) /\ (~Critical => EndsLater(c, d))
<1> DEFINE u == Flushed(q, f, cuts, r, last, closed)
           fresh == Fresh(q, f, stage)
<1>0. IInv
  BY DEF WInv
<1>1. /\ stage \in Nat /\ generation \in Nat /\ Len(f) \in Nat /\ DOMAIN f = 1 .. Len(f)
      /\ c.stage \in Nat /\ c.message \in Nat
  <2>1. c \in Chunk
    BY DEF ChunksOf
  <2>2. c.stage \in Nat /\ c.message \in Nat
    BY <2>1 DEF Chunk
  <2>3. QED
    BY <1>0, <2>2, FragmentationOrder DEF IInv, TypeOK
<1>2. /\ DOMAIN u = DOMAIN f
      /\ \A i \in DOMAIN f :
            /\ fresh[i].message = q[f[i]].name
            /\ Carries(u[i], fresh[i])
            /\ u[i].generation = generation /\ u[i].stage = stage + i
  <2>1. DOMAIN u = DOMAIN f
    BY DEF Flushed
  <2> HIDE DEF u, fresh
  <2>2. ASSUME NEW i \in DOMAIN f
        PROVE  /\ fresh[i].message = q[f[i]].name
               /\ Carries(u[i], fresh[i])
               /\ u[i].generation = generation /\ u[i].stage = stage + i
    BY <1>0, FlushedType DEF u, fresh
  <2>3. QED
    BY <2>1, <2>2
<1>3. PICK i \in DOMAIN u : d = u[i]
  BY DEF ChunksOf
<1> HIDE DEF u, fresh
<1>4. /\ i \in DOMAIN f /\ i \in Nat /\ 1 <= i
      /\ d.message = q[f[i]].name /\ d.generation = generation /\ d.stage = stage + i
  BY <1>1, <1>2, <1>3 DEF Carries
<1>5. f[i] \in DOMAIN q /\ q[f[i]] \in Message
  BY <1>4, FragmentationOrder
<1>6. q[f[i]].name \in Nat /\ c.message < q[f[i]].name
  BY <1>5 DEF Follow, Message
<1>7. c.message # d.message
  BY <1>1, <1>4, <1>6
<1>8. ~(c.generation = 0 /\ d.generation = 0 /\ c.stage = d.stage)
  BY <1>1, <1>4 DEF Sound, Matches
<1>9. Consistent(c, d)
  BY <1>7, <1>8 DEF Consistent
<1>10. ASSUME ~Critical PROVE EndsLater(c, d)
  <2> SUFFICES ASSUME c.generation = d.generation
               PROVE  (c.end => d.stage <= c.stage) /\ (d.end => c.stage <= d.stage)
    BY DEF EndsLater
  <2>1. ~c.end
    <3> SUFFICES ASSUME c.end PROVE FALSE
      OBVIOUS
    <3>1. q = <<>>
      BY <1>10 DEF Sound, EndsAt, Flushes
    <3>2. DOMAIN q = {}
      BY <3>1
    <3>3. QED
      BY <1>5, <3>2
  <2>2. c.stage <= stage + 1
    BY <1>4 DEF Sound, Bounded
  <2>3. QED
    BY <1>1, <1>4, <2>1, <2>2
<1>11. QED
  BY <1>9, <1>10

\* The chunks the flush writes are in order.
LEMMA NewInOrder ==
    ASSUME WInv, NEW q \in Seq(Message),
           NEW f \in Fragmentations(q), Flushes(q, f), NEW cuts \in CutsOf(f),
           NEW r \in Nat, NEW last \in BOOLEAN, NEW closed \in BOOLEAN,
           closed => state' = "CLOSED"
    PROVE  /\ Pairs(Flushed(q, f, cuts, r, last, closed))
           /\ ~Critical => EndPairs(Flushed(q, f, cuts, r, last, closed))
<1> DEFINE u == Flushed(q, f, cuts, r, last, closed)
<1>0. IInv
  BY DEF WInv
<1>1. /\ stage \in Nat /\ Len(f) \in Nat /\ DOMAIN f = 1 .. Len(f)
  BY <1>0, FragmentationOrder DEF IInv, TypeOK
<1>2. /\ DOMAIN u = DOMAIN f
      /\ \A i \in DOMAIN f : u[i].stage = stage + i /\ (u[i].end <=> (closed /\ f[i] = Len(q)))
  <2>1. DOMAIN u = DOMAIN f
    BY DEF Flushed
  <2> HIDE DEF u
  <2>2. ASSUME NEW i \in DOMAIN f
        PROVE  u[i].stage = stage + i /\ (u[i].end <=> (closed /\ f[i] = Len(q)))
    BY <1>0, FlushedType DEF u
  <2>3. QED
    BY <2>1, <2>2
<1> HIDE DEF u
<1>3. Pairs(u)
  BY <1>1, <1>2 DEF Pairs, Consistent
<1>4. ASSUME ~Critical, NEW i \in DOMAIN u, NEW j \in DOMAIN u, i < j
      PROVE  EndsLater(u[i], u[j])
  <2>1. ~u[i].end
    <3> SUFFICES ASSUME u[i].end PROVE FALSE
      OBVIOUS
    <3>1. closed /\ f[i] = Len(q) /\ i \in DOMAIN f /\ state' = "CLOSED"
      BY <1>2
    <3>2. q # <<>>
      <4>1. f # <<>>
        BY <1>1, <3>1
      <4>2. QED
        BY <4>1, FragmentationOrder
    <3>3. q[Len(q)].empty
      BY <1>4, <3>1, <3>2 DEF Flushes
    <3>4. i = Len(f)
      BY <3>1, <3>2, <3>3, LastAlone
    <3>5. QED
      BY <1>1, <1>2, <1>4, <3>4
  <2>2. u[i].stage <= u[j].stage
    BY <1>1, <1>2, <1>4
  <2>3. QED
    BY <2>1, <2>2 DEF EndsLater
<1>5. ~Critical => EndPairs(u)
  BY <1>4 DEF EndPairs
<1>6. QED
  BY <1>3, <1>5 DEF u

\* A flush of q, cut by f and cuts, that takes the band from w to W.
Extends(w, r, last, q, f, cuts, closed, W, R, L) ==
    /\ Band(w, r, last) /\ r \in Nat /\ last \in BOOLEAN
    /\ q \in Seq(Message) /\ Follow(q, w)
    /\ f \in Fragmentations(q) /\ cuts \in CutsOf(f) /\ Flushes(q, f)
    /\ closed \in BOOLEAN /\ (closed => state' = "CLOSED")
    /\ W = w \o Flushed(q, f, cuts, r, last, closed)
    /\ L \in BOOLEAN /\ (L => (last \/ f # <<>>) /\ R = r + Cardinality(cuts))

\* A flush keeps the band sound.
LEMMA FlushBand ==
    ASSUME WInv, NEW w, NEW r, NEW last, NEW q, NEW f, NEW cuts, NEW closed,
           NEW W, NEW R, NEW L, Extends(w, r, last, q, f, cuts, closed, W, R, L)
    PROVE  Band(W, R, L)'
<1> DEFINE u == Flushed(q, f, cuts, r, last, closed)
<1> USE DEF Extends
<1>0. IInv /\ w \in Seq(Chunk)
  BY DEF WInv, Band
<1>1. /\ stage \in Nat /\ generation \in Nat /\ Len(f) \in Nat /\ DOMAIN f = 1 .. Len(f)
      /\ cuts \in SUBSET (1 .. Len(f)) /\ Len(w) \in Nat /\ DOMAIN w = 1 .. Len(w)
  BY <1>0, FragmentationOrder DEF IInv, TypeOK, CutsOf
<1>2. /\ u \in Seq(Chunk) /\ Len(u) = Len(f) /\ DOMAIN u = DOMAIN f
      /\ \A i \in DOMAIN f :
            /\ u[i].generation = generation /\ u[i].stage = stage + i
            /\ u[i].head <=> ((i = 1 /\ ~last) \/ i \in cuts)
            /\ u[i].run = r + RunsUpTo(cuts, i)
  BY <1>0, FlushedType
<1>3. /\ \A i \in 1 .. Len(f) : i \notin cuts => RunsUpTo(cuts, i) = RunsUpTo(cuts, i - 1)
      /\ RunsUpTo(cuts, 0) = 0 /\ RunsUpTo(cuts, Len(f)) = Cardinality(cuts)
      /\ Cardinality(cuts) \in Nat
  BY <1>1, RunsAlong, CutsCount
<1>4. \A c \in ChunksOf(w) : Sound(c) /\ c \in Chunk
  BY <1>0 DEF Band, ChunksOf
<1>5. \A c \in ChunksOf(w) : Sound(c)'
  BY <1>4, OldSoundAfterFlush DEF Follow
<1>6. \A c \in ChunksOf(u) : Sound(c)'
  BY NewSoundAfterFlush
<1>7. /\ \A c \in ChunksOf(w), d \in ChunksOf(u) : Consistent(c, d)
      /\ ~Critical => \A c \in ChunksOf(w), d \in ChunksOf(u) : EndsLater(c, d)
  BY <1>0, <1>4, NewAfterOld
<1>8. Pairs(u) /\ (~Critical => EndPairs(u))
  BY NewInOrder
<1> HIDE DEF u
<1>9. W \in Seq(Chunk) /\ ChunksOf(W) = ChunksOf(w) \cup ChunksOf(u)
      /\ Len(W) = Len(w) + Len(u) /\ (\A k \in DOMAIN u : W[Len(w) + k] = u[k])
  BY <1>0, <1>2, OfEach, ChunksOfBoth DEF u
<1>10. W = w \o u
  BY DEF u
<1>11. Pairs(W)
  BY <1>0, <1>2, <1>7, <1>8, <1>10, PairsJoined DEF Band
<1>12. ~Critical => EndPairs(W)
  BY <1>0, <1>2, <1>7, <1>8, <1>10, EndPairsJoined DEF Band
<1>13. Headed(W)
  <2>1. ASSUME NEW k \in DOMAIN u, ~u[k].head, u[k].stage > 1
        PROVE  \/ k > 1 /\ Follows(u[k - 1], u[k])
               \/ k = 1 /\ w # <<>> /\ Follows(w[Len(w)], u[1])
    <3>1. k \in DOMAIN f /\ k \in Nat /\ 1 <= k /\ k <= Len(f) /\ k \notin cuts
          /\ (k = 1 => last)
      BY <1>1, <1>2, <2>1
    <3>2. u[k].run = r + RunsUpTo(cuts, k - 1)
      BY <1>1, <1>2, <1>3, <3>1
    <3>3. CASE k > 1
      <4>1. k - 1 \in DOMAIN f
        BY <1>1, <3>1, <3>3
      <4>2. u[k - 1].run = r + RunsUpTo(cuts, k - 1) /\ u[k - 1].stage = stage + (k - 1)
            /\ u[k - 1].generation = generation
        BY <1>2, <4>1
      <4>3. u[k].generation = generation /\ u[k].stage = stage + k
        BY <1>2, <3>1
      <4>4. QED
        BY <1>1, <3>1, <3>2, <3>3, <4>2, <4>3 DEF Follows
    <3>4. CASE k = 1
      <4>1. u[1].generation = generation /\ u[1].stage = stage + 1 /\ u[1].run = r
        BY <1>2, <1>3, <3>1, <3>2, <3>4
      <4>2. stage > 0
        BY <1>1, <2>1, <3>4, <4>1
      <4>3. w # <<>> /\ w[Len(w)].run = r /\ w[Len(w)].generation = generation
            /\ w[Len(w)].stage = stage
        BY <3>1, <3>4, <4>2 DEF Band, Continued
      <4>4. QED
        BY <3>4, <4>1, <4>3 DEF Follows
    <3>5. QED
      BY <3>1, <3>3, <3>4
  <2>2. QED
    BY <1>0, <1>2, <1>10, <2>1, HeadedJoined DEF Band
<1>14. Continued(W, R, L)'
  <2> SUFFICES ASSUME L, stage' > 0
               PROVE  /\ W # <<>> /\ W[Len(W)].run = R
                      /\ W[Len(W)].generation = generation' /\ W[Len(W)].stage = stage'
    BY DEF Continued
  <2>1. (last \/ f # <<>>) /\ R = r + Cardinality(cuts)
    OBVIOUS
  <2>2. generation' = generation /\ stage' = stage + Len(f)
    BY DEF Flushes
  <2>3. CASE Len(f) = 0
    <3>1. f = <<>>
      <4>1. f \in Seq(DOMAIN q)
        BY <1>1, FragmentationType
      <4>2. QED
        BY <2>3, <4>1
    <3>2. W = w
      BY <1>0, <1>2, <1>10, <2>3
    <3>3. Cardinality(cuts) = 0
      BY <1>3, <2>3
    <3>4. R = r /\ last /\ stage' = stage
      BY <1>1, <2>1, <2>2, <2>3, <3>1, <3>3
    <3>5. QED
      BY <2>2, <3>2, <3>4 DEF Band, Continued
  <2>4. CASE Len(f) > 0
    <3>1. Len(f) \in DOMAIN f /\ Len(f) \in DOMAIN u
      BY <1>1, <1>2, <2>4
    <3>2. W[Len(W)] = u[Len(f)] /\ Len(W) > 0
      <4>1. Len(W) = Len(w) + Len(f)
        BY <1>2, <1>9
      <4>2. W[Len(w) + Len(f)] = u[Len(f)]
        BY <1>9, <3>1
      <4>3. QED
        BY <1>1, <2>4, <4>1, <4>2
    <3>3. u[Len(f)].run = r + Cardinality(cuts) /\ u[Len(f)].generation = generation
          /\ u[Len(f)].stage = stage + Len(f)
      BY <1>2, <1>3, <3>1
    <3>4. QED
      BY <2>1, <2>2, <3>2, <3>3
  <2>5. QED
    BY <1>1, <2>3, <2>4
<1>15. Critical' = Critical
  BY DEF Flushes
<1>16. \A c \in ChunksOf(W) : Sound(c)'
  BY <1>5, <1>6, <1>9 DEF u
<1>17. QED
  BY <1>9, <1>11, <1>12, <1>13, <1>14, <1>15, <1>16 DEF Band
-----------------------------------------------------------------------------
(* How many messages there are to repeat                                   *)

\* A set of natural numbers that is not empty has a least one.
LEMMA LeastNumber ==
    ASSUME NEW T, T \subseteq Nat, T # {}
    PROVE  \E n \in T : \A y \in T : n <= y
<1>1. PICK n \in T : \A y \in T : ~(<<y, n>> \in OpToRel(<, Nat))
  BY NatLessThanWellFounded, WFMin
<1>2. \A y \in Nat : \A m \in Nat : y < m => <<y, m>> \in OpToRel(<, Nat)
  BY DEF OpToRel
<1>3. \A y \in T : ~(y < n)
  BY <1>1, <1>2
<1>4. QED
  BY <1>3

\* And a greatest one when it is bounded.
LEMMA GreatestNumber ==
    ASSUME NEW n \in Nat, NEW T, T \subseteq 1 .. n, T # {}
    PROVE  \E m \in T : \A y \in T : y <= m
<1> DEFINE B == {b \in Nat : \A y \in T : y <= b}
<1>1. \A y \in T : y \in Nat /\ 1 <= y /\ y <= n
  OBVIOUS
<1>2. n \in B
  BY <1>1
<1>3. PICK b \in B : \A c \in B : b <= c
  <2>1. B \subseteq Nat /\ B # {}
    BY <1>2
  <2> HIDE DEF B
  <2>2. QED
    BY <2>1, LeastNumber
<1>4. b \in T
  <2> SUFFICES ASSUME b \notin T PROVE FALSE
    OBVIOUS
  <2>1. PICK y \in T : TRUE
    OBVIOUS
  <2>2. b >= 1 /\ b \in Nat
    BY <1>1, <2>1
  <2>3. b - 1 \in B
    <3>1. b - 1 \in Nat
      BY <2>2
    <3>2. \A z \in T : z <= b - 1
      BY <1>1, <2>2
    <3>3. QED
      BY <3>1, <3>2
  <2>4. QED
    BY <1>3, <2>2, <2>3
<1>5. QED
  BY <1>4

\* Sets of which one is given by a one-to-one map of the other have one size.
LEMMA SameSize ==
    ASSUME NEW S, NEW T, IsFiniteSet(S), NEW g \in [S -> T],
           \A a, b \in S : g[a] = g[b] => a = b,
           \A t \in T : \E a \in S : g[a] = t
    PROVE  IsFiniteSet(T) /\ Cardinality(T) = Cardinality(S)
<1>1. g \in Bijection(S, T)
  BY Fun_IsBij
<1>2. ExistsBijection(S, T)
  BY <1>1 DEF ExistsBijection
<1>3. QED
  BY <1>2, FS_Bijection

\* The messages to repeat, each counted at its last fragment.
Lasts(s) == {i \in DOMAIN s : s[i].reliable /\ ~s[i].after}

\* There are finitely many of them.
LEMMA LastsFinite ==
    ASSUME NEW s \in Seq(Fragment)
    PROVE  IsFiniteSet(Lasts(s)) /\ Cardinality(Lasts(s)) \in Nat
<1>1. IsFiniteSet(DOMAIN s)
  BY LenProperties, FS_Interval
<1>2. IsFiniteSet(Lasts(s))
  BY <1>1, FS_Subset DEF Lasts
<1>3. QED
  BY <1>2, FS_CardinalityType

\* Moved up by n, a set of indices keeps its size.
LEMMA Moved ==
    ASSUME NEW S, S \subseteq Nat, IsFiniteSet(S), NEW n \in Nat
    PROVE  IsFiniteSet({n + k : k \in S}) /\ Cardinality({n + k : k \in S}) = Cardinality(S)
<1> DEFINE T == {n + k : k \in S}
           g == [k \in S |-> n + k]
<1>1. g \in [S -> T]
  OBVIOUS
<1>2. \A a, b \in S : g[a] = g[b] => a = b
  OBVIOUS
<1>3. \A t \in T : \E a \in S : g[a] = t
  OBVIOUS
<1> HIDE DEF g, T
<1>4. IsFiniteSet(T) /\ Cardinality(T) = Cardinality(S)
  BY <1>1, <1>2, <1>3, SameSize
<1>5. QED
  BY <1>4 DEF T

\* A flush adds one for each reliable message of the queue.
LEMMA LastsOfFresh ==
    ASSUME IInv, NEW q \in Seq(Message), NEW f \in Fragmentations(q)
    PROVE  Cardinality(Lasts(Fresh(q, f, stage))) = Cardinality({m \in DOMAIN q : q[m].reliable})
<1> DEFINE fresh == Fresh(q, f, stage)
           S == Lasts(fresh)
           T == {m \in DOMAIN q : q[m].reliable}
           g == [i \in S |-> f[i]]
<1>1. /\ Len(f) \in Nat /\ DOMAIN f = 1 .. Len(f)
      /\ \A j \in DOMAIN f : f[j] \in DOMAIN q
      /\ \A m \in DOMAIN q : \E j \in DOMAIN f : f[j] = m
      /\ \A j, k \in DOMAIN f : j < k => f[j] <= f[k]
      /\ DOMAIN q = 1 .. Len(q) /\ Len(q) \in Nat
  BY FragmentationOrder
<1>2. fresh \in Seq(Fragment) /\ DOMAIN fresh = DOMAIN f
  <2>1. fresh \in Seq(Fragment)
    BY FreshType DEF IInv, TypeOK
  <2>2. DOMAIN fresh = DOMAIN f
    BY DEF Fresh
  <2>3. QED
    BY <2>1, <2>2
<1>3. \A i \in DOMAIN f : /\ fresh[i].reliable = q[f[i]].reliable
                          /\ fresh[i].after <=> (i < Len(f) /\ f[i + 1] = f[i])
  BY DEF Fresh
<1> HIDE DEF fresh
<1>4. IsFiniteSet(S)
  BY <1>2, LastsFinite
<1>5. \A i \in S : i \in DOMAIN f /\ q[f[i]].reliable /\ ~(i < Len(f) /\ f[i + 1] = f[i])
  BY <1>2, <1>3 DEF Lasts
<1>6. g \in [S -> T]
  BY <1>1, <1>5
<1>7. ASSUME NEW a \in S, NEW b \in S, f[a] = f[b], a < b PROVE FALSE
  <2>1. a \in DOMAIN f /\ b \in DOMAIN f /\ a + 1 \in DOMAIN f /\ a < Len(f)
    BY <1>1, <1>5, <1>7
  <2>2. f[a] <= f[a + 1] /\ (a + 1 = b \/ f[a + 1] <= f[b])
    BY <1>1, <1>7, <2>1
  <2>3. f[a] \in 1 .. Len(q) /\ f[a + 1] \in 1 .. Len(q) /\ f[b] \in 1 .. Len(q)
    BY <1>1, <2>1
  <2>4. f[a + 1] = f[a]
    BY <1>1, <1>7, <2>2, <2>3
  <2>5. QED
    BY <1>5, <2>1, <2>4
<1>8. \A a, b \in S : g[a] = g[b] => a = b
  <2> SUFFICES ASSUME NEW a \in S, NEW b \in S, g[a] = g[b] PROVE a = b
    OBVIOUS
  <2>1. f[a] = f[b] /\ a \in Nat /\ b \in Nat
    BY <1>1, <1>5
  <2>2. QED
    BY <1>7, <2>1
<1>9. ASSUME NEW m \in T PROVE \E a \in S : g[a] = m
  <2> DEFINE R == {i \in DOMAIN f : f[i] = m}
  <2>1. R \subseteq 1 .. Len(f) /\ R # {}
    BY <1>1
  <2> HIDE DEF R
  <2>2. PICK a \in R : \A y \in R : y <= a
    BY <1>1, <2>1, GreatestNumber
  <2>3. a \in DOMAIN f /\ f[a] = m
    BY DEF R
  <2>4. ~(a < Len(f) /\ f[a + 1] = f[a])
    <3> SUFFICES ASSUME a < Len(f), f[a + 1] = f[a] PROVE FALSE
      OBVIOUS
    <3>1. a + 1 \in R
      BY <1>1, <2>3 DEF R
    <3>2. QED
      BY <1>1, <2>2, <2>3, <3>1
  <2>5. a \in S
    BY <1>2, <1>3, <2>3, <2>4 DEF Lasts
  <2>6. QED
    BY <2>3, <2>5
<1> HIDE DEF g, S, T
<1>10. Cardinality(T) = Cardinality(S)
  BY <1>4, <1>6, <1>8, <1>9, SameSize
<1>11. QED
  BY <1>10 DEF S, T, fresh
\* The lists of the writer, and what it counts in them, after a flush.
LEMMA FlushLists ==
    ASSUME WInv, NEW w, NEW q \in Seq(Message), Follow(q, w),
           NEW f \in Fragmentations(q), Flushes(q, f), NEW t \in Trigger,
           (\E i \in DOMAIN sent : sent[i].reliable /\ ~sent[i].empty) => t.running,
           repeatable' = repeatable + Cardinality({m \in DOMAIN q : q[m].reliable}),
           trigger' = IF \E m \in DOMAIN q : q[m].reliable THEN Started(t) ELSE t
    PROVE  Queued' /\ Whole' /\ RepeatableCounts' /\ RepeatArmed'
<1> DEFINE fresh == Fresh(q, f, stage)
<1>0. IInv /\ Queued /\ Whole /\ RepeatableCounts /\ RepeatArmed
  BY DEF WInv
<1>1. /\ stage \in Nat /\ stageAck \in Nat /\ Len(f) \in Nat /\ DOMAIN f = 1 .. Len(f)
      /\ created \in Nat /\ repeatable \in Int
      /\ sent \in Seq(Fragment) /\ Len(sent) \in Nat /\ DOMAIN sent = 1 .. Len(sent)
      /\ DOMAIN q = 1 .. Len(q) /\ Len(q) \in Nat
  BY <1>0, FragmentationOrder DEF IInv, TypeOK
<1>2. \A i \in DOMAIN f : f[i] \in DOMAIN q /\ f[i] \in Nat /\ q[f[i]].name \in Nat
  <2> SUFFICES ASSUME NEW i \in DOMAIN f
               PROVE  f[i] \in DOMAIN q /\ f[i] \in Nat /\ q[f[i]].name \in Nat
    OBVIOUS
  <2>1. f[i] \in DOMAIN q /\ q[f[i]] \in Message
    BY FragmentationOrder
  <2>2. q[f[i]].name \in Nat
    BY <2>1 DEF Message
  <2>3. QED
    BY <1>1, <2>1, <2>2
<1>3. /\ fresh \in Seq(Fragment) /\ Len(fresh) = Len(f) /\ DOMAIN fresh = DOMAIN f
  <2>1. fresh \in Seq(Fragment) /\ Len(fresh) = Len(f)
    BY <1>1, FreshType
  <2>2. DOMAIN fresh = DOMAIN f
    BY DEF Fresh
  <2>3. QED
    BY <2>1, <2>2
<1>4. \A i \in DOMAIN f :
            /\ fresh[i].message = q[f[i]].name
            /\ fresh[i].reliable = q[f[i]].reliable
            /\ fresh[i].after <=> (i < Len(f) /\ f[i + 1] = f[i])
  BY DEF Fresh
<1>5. /\ sent' \in Seq(Fragment) /\ Len(sent') = Len(sent) + Len(f)
      /\ DOMAIN sent' = 1 .. Len(sent) + Len(f)
      /\ \A i \in DOMAIN sent : i \in DOMAIN sent' /\ sent'[i] = sent[i]
      /\ \A k \in DOMAIN f : Len(sent) + k \in DOMAIN sent' /\ sent'[Len(sent) + k] = fresh[k]
      /\ \A i \in DOMAIN sent' : i \in DOMAIN sent \/ \E k \in DOMAIN f : i = Len(sent) + k
  BY <1>0, SentAfterFlush
<1> HIDE DEF fresh
<1>6. messages' = <<>> /\ stage' = stage + Len(f) /\ stageAck' = stageAck
      /\ created' \in Nat /\ created <= created'
  BY DEF Flushes
<1>7. Queued'
  <2>1. \A k \in DOMAIN messages' : FALSE
    BY <1>6
  <2>2. ASSUME NEW i \in DOMAIN sent' PROVE sent'[i].message < created'
    <3>1. CASE i \in DOMAIN sent
      <4>1. sent[i].message < created /\ sent[i] \in Fragment
        BY <1>0, <1>1, <3>1 DEF Queued
      <4>2. sent[i].message \in Nat
        BY <4>1 DEF Fragment
      <4>3. sent'[i] = sent[i]
        BY <1>5, <3>1
      <4>4. sent[i].message < created'
        BY <1>1, <1>6, <4>1, <4>2
      <4>5. QED
        BY <4>3, <4>4
    <3>2. CASE \E k \in DOMAIN f : i = Len(sent) + k
      <4>1. PICK k \in DOMAIN f : i = Len(sent) + k
        BY <3>2
      <4>2. sent'[i].message = q[f[k]].name
        BY <1>4, <1>5, <4>1
      <4>3. QED
        BY <1>2, <4>2 DEF Flushes
    <3>3. QED
      BY <1>5, <3>1, <3>2
  <2>3. QED
    BY <2>1, <2>2 DEF Queued
<1>8. Whole'
  <2>1. Len(sent') <= stage' - stageAck' + 1
    BY <1>0, <1>1, <1>5, <1>6 DEF Whole
  <2>2. ASSUME NEW i \in DOMAIN sent', sent'[i].after
        PROVE  i + 1 \in DOMAIN sent' /\ sent'[i + 1].reliable = sent'[i].reliable
    <3>1. CASE i \in DOMAIN sent
      <4>1. sent'[i] = sent[i]
        BY <1>5, <3>1
      <4>2. i + 1 \in DOMAIN sent /\ sent[i + 1].reliable = sent[i].reliable
        BY <1>0, <2>2, <3>1, <4>1 DEF Whole
      <4>3. QED
        BY <1>5, <4>1, <4>2
    <3>2. CASE \E k \in DOMAIN f : i = Len(sent) + k
      <4>1. PICK k \in DOMAIN f : i = Len(sent) + k
        BY <3>2
      <4>2. sent'[i] = fresh[k] /\ k < Len(f) /\ f[k + 1] = f[k]
        BY <1>4, <1>5, <2>2, <4>1
      <4>3. k + 1 \in DOMAIN f /\ i + 1 = Len(sent) + (k + 1)
        <5>1. k \in Nat /\ k >= 1
          BY <1>1
        <5>2. k + 1 \in 1 .. Len(f)
          BY <1>1, <4>2, <5>1
        <5>3. i + 1 = Len(sent) + (k + 1)
          BY <1>1, <4>1, <5>1
        <5>4. QED
          BY <1>1, <5>2, <5>3
      <4>4. i + 1 \in DOMAIN sent' /\ sent'[i + 1] = fresh[k + 1]
        BY <1>5, <4>3
      <4>5. QED
        BY <1>4, <4>2, <4>3, <4>4
    <3>3. QED
      BY <1>5, <3>1, <3>2
  <2>3. ASSUME NEW i \in DOMAIN sent', NEW j \in DOMAIN sent',
               sent'[i].message = sent'[j].message
        PROVE  sent'[i].reliable = sent'[j].reliable
    <3>1. ASSUME NEW a \in DOMAIN sent, NEW k \in DOMAIN f,
                 sent[a].message = fresh[k].message
          PROVE  FALSE
      <4>1. sent[a].message < q[f[k]].name
        BY <1>2 DEF Follow
      <4>2. QED
        BY <1>2, <1>4, <3>1, <4>1
    <3>2. ASSUME NEW k \in DOMAIN f, NEW l \in DOMAIN f, fresh[k].message = fresh[l].message
          PROVE  fresh[k].reliable = fresh[l].reliable
      <4>1. q[f[k]].name = q[f[l]].name
        BY <1>4, <3>2
      <4>2. f[k] = f[l]
        BY <1>2, <4>1 DEF Follow
      <4>3. QED
        BY <1>4, <4>2
    <3>3. CASE i \in DOMAIN sent /\ j \in DOMAIN sent
      BY <1>0, <1>5, <2>3, <3>3 DEF Whole
    <3>4. CASE i \in DOMAIN sent /\ \E k \in DOMAIN f : j = Len(sent) + k
      BY <1>5, <2>3, <3>1, <3>4
    <3>5. CASE j \in DOMAIN sent /\ \E k \in DOMAIN f : i = Len(sent) + k
      BY <1>5, <2>3, <3>1, <3>5
    <3>6. CASE (\E k \in DOMAIN f : i = Len(sent) + k) /\ (\E k \in DOMAIN f : j = Len(sent) + k)
      BY <1>5, <2>3, <3>2, <3>6
    <3>7. QED
      BY <1>5, <3>3, <3>4, <3>5, <3>6
  <2>4. QED
    BY <2>1, <2>2, <2>3 DEF Whole
<1>9. RepeatableCounts'
  <2> DEFINE A == Lasts(sent)
             F == Lasts(fresh)
             B == {Len(sent) + k : k \in F}
  <2>1. Lasts(sent') = A \cup B /\ A \cap B = {}
    <3>1. ASSUME NEW i \in Lasts(sent') PROVE i \in A \cup B
      <4>1. i \in DOMAIN sent' /\ sent'[i].reliable /\ ~sent'[i].after
        BY DEF Lasts
      <4>2. CASE i \in DOMAIN sent
        BY <1>5, <4>1, <4>2 DEF Lasts
      <4>3. CASE \E k \in DOMAIN f : i = Len(sent) + k
        <5>1. PICK k \in DOMAIN f : i = Len(sent) + k
          BY <4>3
        <5>2. k \in F
          BY <1>3, <1>5, <4>1, <5>1 DEF Lasts
        <5>3. QED
          BY <5>1, <5>2
      <4>4. QED
        BY <1>5, <4>1, <4>2, <4>3
    <3>2. ASSUME NEW i \in A PROVE i \in Lasts(sent')
      BY <1>5 DEF Lasts
    <3>3. ASSUME NEW i \in B PROVE i \in Lasts(sent') /\ i \notin A
      <4>1. PICK k \in F : i = Len(sent) + k
        OBVIOUS
      <4>2. k \in DOMAIN f /\ fresh[k].reliable /\ ~fresh[k].after
        BY <1>3 DEF Lasts
      <4>3. i \in Lasts(sent')
        BY <1>5, <4>1, <4>2 DEF Lasts
      <4>4. i \notin DOMAIN sent
        BY <1>1, <4>1, <4>2
      <4>5. QED
        BY <4>3, <4>4 DEF Lasts
    <3> HIDE DEF A, B
    <3>4. QED
      BY <3>1, <3>2, <3>3
  <2>2. F \subseteq Nat
    BY <1>1, <1>3 DEF Lasts
  <2>3. IsFiniteSet(A) /\ Cardinality(A) \in Nat /\ IsFiniteSet(F) /\ Cardinality(F) \in Nat
    BY <1>1, <1>3, LastsFinite
  <2> HIDE DEF A, F
  <2>4. IsFiniteSet(B) /\ Cardinality(B) = Cardinality(F)
    <3> DEFINE n == Len(sent)
    <3>1. n \in Nat
      BY <1>1
    <3> HIDE DEF n
    <3>2. /\ IsFiniteSet({n + k : k \in F})
          /\ Cardinality({n + k : k \in F}) = Cardinality(F)
      BY <2>2, <2>3, <3>1, Moved
    <3>3. QED
      BY <3>2 DEF n
  <2> HIDE DEF B
  <2>5. Cardinality(A \cup B) = Cardinality(A) + Cardinality(F)
    <3>1. Cardinality(A \cup B) = Cardinality(A) + Cardinality(B) - Cardinality(A \cap B)
      BY <2>3, <2>4, FS_Union
    <3>2. Cardinality(A \cap B) = 0
      BY <2>1, FS_EmptySet
    <3>3. QED
      BY <2>3, <2>4, <3>1, <3>2
  <2>6. Cardinality(F) = Cardinality({m \in DOMAIN q : q[m].reliable})
    BY <1>0, LastsOfFresh DEF F, fresh
  <2>7. repeatable = Cardinality(A)
    BY <1>0 DEF RepeatableCounts, A, Lasts
  <2>8. repeatable' = Cardinality(Lasts(sent'))
    BY <2>1, <2>5, <2>6, <2>7
  <2>9. QED
    BY <2>8 DEF RepeatableCounts, Lasts
<1>10. RepeatArmed'
  <2> SUFFICES ASSUME NEW i \in DOMAIN sent', sent'[i].reliable, ~sent'[i].empty
               PROVE  trigger'.running
    BY DEF RepeatArmed
  <2>1. Started(t).running
    BY DEF Started, Trigger
  <2>2. CASE i \in DOMAIN sent
    <3>1. t.running
      BY <1>5, <2>2
    <3>2. QED
      BY <2>1, <3>1
  <2>3. CASE \E k \in DOMAIN f : i = Len(sent) + k
    <3>1. \E m \in DOMAIN q : q[m].reliable
      BY <1>2, <1>4, <1>5, <2>3, SMTT(30)
    <3>2. QED
      BY <2>1, <3>1
  <2>4. QED
    BY <1>5, <2>2, <2>3
<1>11. QED
  BY <1>7, <1>8, <1>9, <1>10
-----------------------------------------------------------------------------
(* The invariant through each action                                       *)

\* The band as the next state has it.
LEMMA BandBecomes ==
    ASSUME NEW W, NEW R, NEW L, wire' = W, run' = R, lastWriter' = L, Band(W, R, L)'
    PROVE  Band(wire, run, lastWriter)'
<1>1. /\ W \in Seq(Chunk) /\ Pairs(W) /\ Headed(W)
      /\ (~Critical') => EndPairs(W)
      /\ Continued(W, R, L)'
      /\ \A c \in ChunksOf(W) : Sound(c)'
  BY DEF Band
<1>2. Continued(wire, run, lastWriter)'
  BY <1>1 DEF Continued
<1>3. Pairs(wire') /\ Headed(wire') /\ ((~Critical') => EndPairs(wire'))
  BY <1>1
<1>4. \A c \in ChunksOf(wire') : Sound(c)'
  BY <1>1
<1>5. wire' \in Seq(Chunk)
  BY <1>1
<1>6. QED
  BY <1>2, <1>3, <1>4, <1>5 DEF Band, Pairs, Headed, EndPairs, ChunksOf

\* A step that flushes a queue q it may, after some chunks it wrote before.
LEMMA FlushWInv ==
    ASSUME WInv, IInv', NEW q \in Seq(Message), NEW pre \in Seq(Chunk), NEW r \in Nat,
           NEW last \in BOOLEAN, NEW t \in Trigger,
           NEW closed \in BOOLEAN, NEW full \in BOOLEAN,
           FlushQueue(q, pre, r, last, t, closed, full),
           Band(wire \o pre, r, last), Follow(q, wire \o pre),
           (\E i \in DOMAIN sent : sent[i].reliable /\ ~sent[i].empty) => t.running,
           UNCHANGED <<connection, stageAck, generation, life, reported>>, Usable,
           closed <=> state' = "CLOSED",
           created <= created', \A k \in DOMAIN q : q[k].name < created',
           ~Critical => /\ connectedSize' = -1 /\ state' # "CONNECTING"
                        /\ state = "CLOSED" => q = <<>> /\ state' = "CLOSED"
                        /\ (state' = "CLOSED" /\ q # <<>>) => q[Len(q)].empty
                        /\ (state' = "CLOSED" /\ q = <<>> /\ stage > 0) => state = "CLOSED"
    PROVE  WInv'
<1> DEFINE u(f, cuts) == Flushed(q, f, cuts, r, last, closed)
           effect(f, cuts) ==
             /\ messages' = <<>>
             /\ stage' = stage + Len(f)
             /\ sent' = sent \o Fresh(q, f, stage)
             /\ repeatable' = repeatable + Cardinality({m \in DOMAIN q : q[m].reliable})
             /\ trigger' = IF \E m \in DOMAIN q : q[m].reliable THEN Started(t) ELSE t
             /\ wire' = wire \o pre \o u(f, cuts)
             /\ run' = r + Cardinality(cuts) + (IF full THEN 1 ELSE 0)
             /\ lastWriter' = (~full /\ (last \/ f # <<>>))
<1>1. PICK f \in Fragmentations(q) : \E cuts \in CutsOf(f) : effect(f, cuts)
  BY DEF FlushQueue, Flushed
<1>2. PICK cuts \in CutsOf(f) : effect(f, cuts)
  BY <1>1
<1>0. PICK w : w = wire \o pre
  OBVIOUS
<1>3. IInv /\ wire \in Seq(Chunk) /\ w \in Seq(Chunk) /\ stage \in Nat
  BY <1>0, ConcatProperties DEF WInv, IInv, TypeOK
<1>4. created' \in Nat
  BY DEF IInv, TypeOK
<1>5. Critical' = Critical
  BY DEF Critical
<1>6. Flushes(q, f)
  BY <1>2, <1>4, <1>5 DEF Flushes
<1>7. u(f, cuts) \in Seq(Chunk) /\ Len(u(f, cuts)) = Len(f)
      /\ Len(f) \in Nat /\ DOMAIN f = 1 .. Len(f)
      /\ DOMAIN u(f, cuts) = DOMAIN f
      /\ \A i \in DOMAIN f : /\ u(f, cuts)[i].generation = generation
                              /\ u(f, cuts)[i].end <=> (closed /\ f[i] = Len(q))
  <2>1. Len(f) \in Nat /\ DOMAIN f = 1 .. Len(f)
    BY FragmentationOrder
  <2>2. u(f, cuts) \in Seq(Chunk) /\ Len(u(f, cuts)) = Len(f)
    BY <1>3, FlushedType
  <2>3. DOMAIN u(f, cuts) = DOMAIN f
    BY DEF Flushed
  <2> HIDE DEF u
  <2>4. \A i \in DOMAIN f : /\ u(f, cuts)[i].generation = generation
                            /\ u(f, cuts)[i].end <=> (closed /\ f[i] = Len(q))
    BY <1>3, FlushedType DEF u
  <2>5. QED
    BY <2>1, <2>2, <2>3, <2>4
<1>8. PICK W : W = w \o u(f, cuts)
  OBVIOUS
<1>9. PICK R : R = r + Cardinality(cuts) + (IF full THEN 1 ELSE 0)
  OBVIOUS
<1>10. PICK L \in BOOLEAN : L = (~full /\ (last \/ f # <<>>))
  OBVIOUS
<1>11. wire' = W /\ run' = R /\ lastWriter' = L
  BY <1>0, <1>2, <1>8, <1>9, <1>10
<1>12. Band(W, R, L)'
  <2>1. closed => state' = "CLOSED"
    OBVIOUS
  <2>2. Band(w, r, last) /\ Follow(q, w)
    BY <1>0
  <2>3. W = w \o Flushed(q, f, cuts, r, last, closed)
    BY <1>8
  <2>4. L => (last \/ f # <<>>) /\ R = r + Cardinality(cuts)
    <3>1. Cardinality(cuts) \in Nat
      BY <1>7, CutsCount DEF CutsOf
    <3>2. L => ~full /\ (last \/ f # <<>>)
      BY <1>10
    <3>3. QED
      BY <1>9, <3>1, <3>2
  <2> HIDE DEF u, effect
  <2>5. Extends(w, r, last, q, f, cuts, closed, W, R, L)
    BY <1>6, <2>1, <2>2, <2>3, <2>4 DEF Extends
  <2>6. QED
    BY <2>5, FlushBand
<1>13. Band(wire, run, lastWriter)'
  BY <1>11, <1>12, BandBecomes
<1>14. Queued' /\ Whole' /\ RepeatableCounts' /\ RepeatArmed'
  <2>1. /\ repeatable' = repeatable + Cardinality({m \in DOMAIN q : q[m].reliable})
        /\ trigger' = IF \E m \in DOMAIN q : q[m].reliable THEN Started(t) ELSE t
    BY <1>2
  <2>2. QED
    BY <1>6, <2>1, FlushLists
<1>15. Plain'
  BY <1>2, <1>5 DEF Plain, Usable
<1>16. Announced(wire)'
  <2> SUFFICES ASSUME ~Critical', state' = "CLOSED", stage' > 0
               PROVE  \E c \in ChunksOf(wire') : c.end /\ c.generation = generation'
    BY DEF Announced, ChunksOf
  <2>1. ChunksOf(W) = ChunksOf(wire) \cup ChunksOf(pre) \cup ChunksOf(u(f, cuts))
    <3>1. ChunksOf(w) = ChunksOf(wire) \cup ChunksOf(pre)
      BY <1>0, <1>3, ChunksOfBoth
    <3> HIDE DEF u
    <3>2. ChunksOf(W) = ChunksOf(w) \cup ChunksOf(u(f, cuts))
      BY <1>3, <1>7, <1>8, ChunksOfBoth
    <3>3. QED
      BY <3>1, <3>2
  <2>2. CASE q # <<>>
    <3>1. Len(f) \in DOMAIN f /\ f[Len(f)] = Len(q)
      <4>1. f # <<>>
        BY <2>2, FragmentationOrder
      <4>2. Len(f) > 0
        BY <1>7, <4>1, FragmentationType
      <4>3. Len(f) \in DOMAIN f
        BY <1>7, <4>2
      <4>4. QED
        BY <2>2, <4>3, LastAlone
    <3> DEFINE c == u(f, cuts)[Len(f)]
    <3>2. c.end /\ c.generation = generation /\ c \in ChunksOf(u(f, cuts))
      BY <1>7, <3>1 DEF ChunksOf
    <3> HIDE DEF u, c
    <3>3. QED
      BY <1>11, <2>1, <3>2
  <2>3. CASE q = <<>>
    <3>1. f = <<>>
      BY <2>3, FragmentationOrder
    <3>2. stage' = stage
      BY <1>2, <1>3, <3>1
    <3>3. state = "CLOSED" /\ stage > 0 /\ ~Critical
      BY <1>5, <2>3, <3>2
    <3>4. PICK c \in ChunksOf(wire) : c.end /\ c.generation = generation
      BY <3>3 DEF Announced, WInv
    <3>5. c \in ChunksOf(wire')
      BY <1>11, <2>1
    <3>6. QED
      BY <3>4, <3>5
  <2>4. QED
    BY <2>2, <2>3
<1>17. QED
  BY <1>13, <1>14, <1>15, <1>16 DEF WInv
-----------------------------------------------------------------------------
(* acknowledgment                                                          *)

\* stageAck passes over a reliable stage only when it is reported received.
LEMMA PassedWasReported ==
    ASSUME IInv, NEW a \in Acknowledgments, NEW ack \in stageAck .. stage, IsNewAck(a, ack),
           NEW s \in Nat, stageAck < s, s <= ack, FragmentAt(s).reliable
    PROVE  s <= a.cum \/ s \in a.recv
<1>1. /\ stage \in Nat /\ stageAck \in Nat /\ a.cum \in Nat /\ a.recv \in SUBSET Nat
      /\ Cumulative(a) \in Nat
  BY CumulativeInWindow DEF IInv, TypeOK
<1>2. CASE s <= Cumulative(a)
  BY <1>1, <1>2 DEF Cumulative
<1>3. CASE s > Cumulative(a) /\ s > a.cum /\ s \notin a.recv
  <2>1. \A x \in a.recv : ~(s < x)
    <3> SUFFICES ASSUME NEW x \in a.recv, s < x PROVE FALSE
      OBVIOUS
    <3>1. s \in (Cumulative(a) + 1) .. stage
      BY <1>1, <1>3
    <3>2. s \in Lost(a, Cumulative(a))
      BY <1>3, <3>1 DEF Lost
    <3>3. s \in LostReliable(a)
      BY <3>2 DEF LostReliable
    <3>4. ack < s
      BY <3>3 DEF IsNewAck
    <3>5. QED
      BY <1>1, <3>4
  <2>2. ASSUME NEW l \in Lost(a, Cumulative(a)), s <= l PROVE FALSE
    <3>1. PICK x \in a.recv : l < x
      BY DEF Lost
    <3>2. l \in Nat /\ x \in Nat
      BY <1>1 DEF Lost
    <3>3. QED
      BY <2>1, <2>2, <3>1, <3>2
  <2>3. CASE LostReliable(a) # {}
    <3>1. ack + 1 \in Lost(a, Cumulative(a))
      BY <2>3 DEF IsNewAck, LostReliable
    <3>2. QED
      BY <1>1, <2>2, <3>1
  <2>4. CASE LostReliable(a) = {} /\ Lost(a, Cumulative(a)) # {}
    <3>1. ack \in Lost(a, Cumulative(a))
      BY <2>4 DEF IsNewAck
    <3>2. QED
      BY <2>2, <3>1
  <2>5. CASE LostReliable(a) = {} /\ Lost(a, Cumulative(a)) = {}
    <3>1. ack = Cumulative(a)
      BY <2>5 DEF IsNewAck
    <3>2. QED
      BY <1>1, <1>3, <3>1
  <2>6. QED
    BY <2>3, <2>4, <2>5
<1>4. QED
  BY <1>1, <1>2, <1>3

\* What an acknowledgment does, of what bears on the band and the lists.
Drops(a, ack) ==
    /\ stageAck' = ack
    /\ sent' = [i \in 1 .. (Len(sent) - (ack - stageAck)) |->
                  IF i + ack \in Resent(a)
                  THEN [sent[i + (ack - stageAck)] EXCEPT !.sentAt = stage]
                  ELSE sent[i + (ack - stageAck)]]
    /\ reported' = reported \cup {s \in 1 .. stage : s <= a.cum \/ s \in a.recv}
    /\ UNCHANGED <<state, connection, messages, stage, generation, created>>

\* _messagesSent loses its first fragments; the others keep all but the stage
\* at which they were last sent.
LEMMA SentAfterDrop ==
    ASSUME IInv, NEW a \in Acknowledgments, NEW ack \in stageAck .. stage, Drops(a, ack),
           NEW d, d = ack - stageAck
    PROVE  /\ d \in Nat /\ d <= Len(sent) /\ Len(sent') = Len(sent) - d
           /\ DOMAIN sent' = 1 .. Len(sent) - d
           /\ \A i \in DOMAIN sent' :
                 /\ i + d \in DOMAIN sent
                 /\ sent'[i].message = sent[i + d].message
                 /\ sent'[i].reliable = sent[i + d].reliable
                 /\ sent'[i].empty = sent[i + d].empty
                 /\ sent'[i].before = sent[i + d].before
                 /\ sent'[i].after = sent[i + d].after
<1>1. /\ stage \in Nat /\ stageAck \in Nat /\ ack \in Nat /\ stageAck <= ack /\ ack <= stage
      /\ sent \in Seq(Fragment) /\ Len(sent) \in Nat /\ DOMAIN sent = 1 .. Len(sent)
      /\ Len(sent) >= stage - stageAck
  BY DEF IInv, TypeOK, WindowAligned
<1>2. d \in Nat /\ d <= Len(sent)
  BY <1>1
<1>3. sent' = [i \in 1 .. (Len(sent) - d) |->
                  IF i + ack \in Resent(a) THEN [sent[i + d] EXCEPT !.sentAt = stage]
                                           ELSE sent[i + d]]
  BY DEF Drops
<1>4. DOMAIN sent' = 1 .. Len(sent) - d
  BY <1>3
<1>5. Len(sent') = Len(sent) - d
  <2>1. Len(sent) - d \in Nat
    BY <1>1, <1>2
  <2>2. QED
    BY <1>3, <2>1
<1>6. ASSUME NEW i \in DOMAIN sent'
      PROVE  /\ i + d \in DOMAIN sent
             /\ sent'[i].message = sent[i + d].message
             /\ sent'[i].reliable = sent[i + d].reliable
             /\ sent'[i].empty = sent[i + d].empty
             /\ sent'[i].before = sent[i + d].before
             /\ sent'[i].after = sent[i + d].after
  <2>1. i + d \in DOMAIN sent
    BY <1>1, <1>2, <1>4
  <2>2. sent[i + d] \in Fragment
    BY <1>1, <2>1
  <2>3. \/ sent'[i] = [sent[i + d] EXCEPT !.sentAt = stage]
        \/ sent'[i] = sent[i + d]
    BY <1>3, <1>4
  <2>4. QED
    BY <2>1, <2>2, <2>3 DEF Fragment
<1>7. QED
  BY <1>2, <1>4, <1>5, <1>6

\* A band that was sound stays so when an acknowledgment shortens the lists.
LEMMA DropBand ==
    ASSUME WInv, NEW a \in Acknowledgments, NEW ack \in stageAck .. stage,
           IsNewAck(a, ack), Drops(a, ack), NEW W, NEW R, NEW L, Band(W, R, L)
    PROVE  Band(W, R, L)'
<1>0. IInv
  BY DEF WInv
<1>1. /\ stage \in Nat /\ stageAck \in Nat /\ ack \in Nat /\ stageAck <= ack /\ ack <= stage
      /\ sent \in Seq(Fragment) /\ Len(sent) \in Nat /\ DOMAIN sent = 1 .. Len(sent)
      /\ (generation = 0 => Len(sent) = stage - stageAck)
  BY <1>0 DEF IInv, TypeOK, WindowAligned
<1>2. PICK d : d = ack - stageAck
  OBVIOUS
<1>3. /\ d \in Nat /\ d <= Len(sent)
      /\ DOMAIN sent' = 1 .. Len(sent) - d
      /\ \A i \in DOMAIN sent' :
            /\ i + d \in DOMAIN sent
            /\ sent'[i].message = sent[i + d].message
            /\ sent'[i].reliable = sent[i + d].reliable
            /\ sent'[i].before = sent[i + d].before
            /\ sent'[i].after = sent[i + d].after
  BY <1>0, <1>2, SentAfterDrop
<1>4. UNCHANGED <<state, connection, messages, stage, generation, created>> /\ stageAck' = ack
      /\ reported' = reported \cup {s \in 1 .. stage : s <= a.cum \/ s \in a.recv}
  BY DEF Drops
<1>5. ASSUME NEW c \in ChunksOf(W)
      PROVE  Sound(c)'
  <2>1. Sound(c) /\ c.stage \in Nat
    <3>1. c \in Chunk
      BY DEF Band, ChunksOf
    <3>2. QED
      BY <3>1 DEF Band, Chunk
  <2>2. Bounded(c)' /\ Older(c)'
    BY <1>4, <2>1 DEF Sound, Bounded, Older
  <2>3. EndsAt(c)'
    BY <1>4, <2>1 DEF Sound, EndsAt, Critical
  <2>4. Agrees(c)'
    <3> SUFFICES ASSUME NEW k \in DOMAIN sent', c.message = sent'[k].message
                 PROVE  c.reliable = sent'[k].reliable
      BY DEF Agrees
    <3>1. QED
      BY <1>3, <2>1 DEF Sound, Agrees
  <2>5. Matches(c)'
    <3> SUFFICES ASSUME generation' = 0
                 PROVE  /\ c.generation = 0 /\ 1 <= c.stage /\ c.stage <= stage'
                        /\ c.stage > stageAck' => Carries(c, sent'[c.stage - stageAck'])
      BY DEF Matches, Carries
    <3>1. /\ c.generation = 0 /\ 1 <= c.stage /\ c.stage <= stage
          /\ c.stage > stageAck => Carries(c, sent[c.stage - stageAck])
      BY <1>4, <2>1 DEF Sound, Matches
    <3>2. ASSUME c.stage > ack PROVE Carries(c, sent'[c.stage - ack])
      <4>1. c.stage - ack \in DOMAIN sent' /\ (c.stage - ack) + d = c.stage - stageAck
            /\ c.stage > stageAck
        BY <1>1, <1>2, <1>3, <1>4, <2>1, <3>1, <3>2
      <4>2. QED
        BY <1>3, <3>1, <4>1 DEF Carries
    <3>3. QED
      BY <1>4, <3>1, <3>2
  <2>6. Acked(c)'
    <3> SUFFICES ASSUME generation' = 0, c.reliable, c.stage <= stageAck'
                 PROVE  c.stage \in reported'
      BY DEF Acked
    <3>1. 1 <= c.stage /\ c.stage <= stage
          /\ (c.stage > stageAck => Carries(c, sent[c.stage - stageAck]))
      BY <1>4, <2>1 DEF Sound, Matches
    <3>2. CASE c.stage <= stageAck
      BY <1>4, <2>1, <3>2 DEF Sound, Acked
    <3>3. CASE c.stage > stageAck
      <4>1. FragmentAt(c.stage).reliable
        BY <3>1, <3>3 DEF Carries, FragmentAt
      <4>2. c.stage <= a.cum \/ c.stage \in a.recv
        BY <1>0, <1>1, <1>4, <2>1, <3>3, <4>1, PassedWasReported
      <4>3. c.stage \in 1 .. stage
        BY <1>1, <2>1, <3>1
      <4>4. QED
        BY <1>4, <4>2, <4>3
    <3>4. QED
      BY <1>1, <2>1, <3>2, <3>3
  <2>7. QED
    BY <2>2, <2>3, <2>4, <2>5, <2>6 DEF Sound
<1>6. (Critical' <=> Critical) /\ (Continued(W, R, L) => Continued(W, R, L)')
  BY <1>4 DEF Critical, Continued
<1>7. QED
  BY <1>5, <1>6 DEF Band
\* When something reliable is left, a last fragment of it is.
LEMMA LastOfReliable ==
    ASSUME NEW s \in Seq(Fragment), NEW i \in DOMAIN s, s[i].reliable,
           \A j \in DOMAIN s : s[j].after => j + 1 \in DOMAIN s /\ s[j + 1].reliable = s[j].reliable
    PROVE  Lasts(s) # {}
<1>1. Len(s) \in Nat /\ DOMAIN s = 1 .. Len(s)
  OBVIOUS
<1> DEFINE T == {j \in DOMAIN s : s[j].reliable}
<1>2. T \subseteq 1 .. Len(s) /\ T # {}
  BY <1>1
<1> HIDE DEF T
<1>3. PICK m \in T : \A y \in T : y <= m
  BY <1>1, <1>2, GreatestNumber
<1>4. m \in DOMAIN s /\ s[m].reliable
  BY DEF T
<1>5. ~s[m].after
  <2> SUFFICES ASSUME s[m].after PROVE FALSE
    OBVIOUS
  <2>1. m + 1 \in T
    BY <1>4 DEF T
  <2>2. QED
    BY <1>1, <1>3, <1>4, <2>1
<1>6. QED
  BY <1>4, <1>5 DEF Lasts

\* The lists of the writer, and what it counts in them, after an acknowledgment.
LEMMA DropLists ==
    ASSUME WInv, IInv', NEW a \in Acknowledgments, NEW ack \in stageAck .. stage, Drops(a, ack),
           repeatable' = repeatable - Completed(ack - stageAck),
           \/ trigger' = Stopped(trigger) /\ repeatable' = 0
           \/ trigger' = Rearmed(trigger)
           \/ trigger' = trigger
    PROVE  Queued' /\ Whole' /\ RepeatableCounts' /\ RepeatArmed'
<1>0. IInv /\ Queued /\ Whole /\ RepeatableCounts /\ RepeatArmed
  BY DEF WInv
<1>1. /\ stage \in Nat /\ stageAck \in Nat /\ ack \in Nat /\ stageAck <= ack /\ ack <= stage
      /\ sent \in Seq(Fragment) /\ Len(sent) \in Nat /\ DOMAIN sent = 1 .. Len(sent)
      /\ sent' \in Seq(Fragment) /\ repeatable \in Int /\ trigger \in Trigger
  BY <1>0 DEF IInv, TypeOK
<1>2. PICK d : d = ack - stageAck
  OBVIOUS
<1>3. /\ d \in Nat /\ d <= Len(sent)
      /\ Len(sent') = Len(sent) - d /\ DOMAIN sent' = 1 .. Len(sent) - d
      /\ \A i \in DOMAIN sent' :
            /\ i + d \in DOMAIN sent
            /\ sent'[i].message = sent[i + d].message
            /\ sent'[i].reliable = sent[i + d].reliable
            /\ sent'[i].empty = sent[i + d].empty
            /\ sent'[i].after = sent[i + d].after
  BY <1>0, <1>2, SentAfterDrop
<1>4. messages' = messages /\ stage' = stage /\ created' = created /\ stageAck' = ack
  BY DEF Drops
<1>5. Queued'
  BY <1>0, <1>3, <1>4 DEF Queued
<1>6. \A i \in DOMAIN sent' : sent'[i].after =>
         i + 1 \in DOMAIN sent' /\ sent'[i + 1].reliable = sent'[i].reliable
  <2> SUFFICES ASSUME NEW i \in DOMAIN sent', sent'[i].after
               PROVE  i + 1 \in DOMAIN sent' /\ sent'[i + 1].reliable = sent'[i].reliable
    OBVIOUS
  <2>1. (i + d) + 1 \in DOMAIN sent /\ sent[(i + d) + 1].reliable = sent[i + d].reliable
    BY <1>0, <1>3 DEF Whole
  <2>2. i + 1 \in DOMAIN sent' /\ (i + 1) + d = (i + d) + 1
    BY <1>1, <1>3, <2>1
  <2>3. sent'[i + 1].reliable = sent[(i + d) + 1].reliable
    BY <1>3, <2>2
  <2>4. QED
    BY <1>3, <2>1, <2>2, <2>3
<1>7. Whole'
  <2>1. Len(sent') <= stage' - stageAck' + 1
    BY <1>0, <1>1, <1>2, <1>3, <1>4 DEF Whole
  <2>2. \A i, j \in DOMAIN sent' :
           sent'[i].message = sent'[j].message => sent'[i].reliable = sent'[j].reliable
    BY <1>0, <1>3 DEF Whole
  <2>3. QED
    BY <1>6, <2>1, <2>2 DEF Whole
<1>8. RepeatableCounts'
  <2> DEFINE A == {i \in DOMAIN sent : i <= d /\ sent[i].reliable /\ ~sent[i].after}
             F == Lasts(sent')
             B == {d + k : k \in F}
  <2>1. Lasts(sent) = A \cup B /\ A \cap B = {}
    <3>1. ASSUME NEW i \in Lasts(sent), i \notin A PROVE i \in B
      <4>1. i \in DOMAIN sent /\ sent[i].reliable /\ ~sent[i].after /\ i > d
        BY <1>1, <1>3, <3>1 DEF Lasts
      <4>2. i - d \in DOMAIN sent' /\ (i - d) + d = i /\ d + (i - d) = i
        BY <1>1, <1>3, <4>1
      <4>3. i - d \in F
        BY <1>3, <4>1, <4>2 DEF Lasts
      <4>4. QED
        BY <4>2, <4>3
    <3>2. ASSUME NEW i \in A PROVE i \in Lasts(sent)
      BY DEF Lasts
    <3>3. ASSUME NEW i \in B PROVE i \in Lasts(sent) /\ i \notin A
      <4>1. PICK k \in F : i = d + k
        OBVIOUS
      <4>2. k \in DOMAIN sent' /\ sent'[k].reliable /\ ~sent'[k].after
        BY DEF Lasts
      <4>3. i = k + d /\ i > d
        BY <1>3, <4>1, <4>2
      <4>4. i \in Lasts(sent)
        BY <1>3, <4>2, <4>3 DEF Lasts
      <4>5. i \notin A
        BY <1>1, <1>3, <4>2, <4>3
      <4>6. QED
        BY <4>4, <4>5
    <3> HIDE DEF A, B
    <3>4. QED
      BY <3>1, <3>2, <3>3
  <2>2. F \subseteq Nat
    BY <1>1, <1>3 DEF Lasts
  <2>3. IsFiniteSet(A) /\ Cardinality(A) \in Nat /\ IsFiniteSet(F) /\ Cardinality(F) \in Nat
    <3>1. IsFiniteSet(F) /\ Cardinality(F) \in Nat
      BY <1>1, LastsFinite
    <3>2. IsFiniteSet(DOMAIN sent)
      BY <1>1, FS_Interval
    <3>3. IsFiniteSet(A)
      BY <3>2, FS_Subset
    <3> HIDE DEF A, F
    <3>4. QED
      BY <3>1, <3>3, FS_CardinalityType
  <2>4. Completed(ack - stageAck) = Cardinality(A)
    BY <1>2 DEF Completed
  <2> HIDE DEF A, F
  <2>5. IsFiniteSet(B) /\ Cardinality(B) = Cardinality(F)
    BY <1>3, <2>2, <2>3, Moved
  <2> HIDE DEF B
  <2>6. Cardinality(A \cup B) = Cardinality(A) + Cardinality(F)
    <3>1. Cardinality(A \cup B) = Cardinality(A) + Cardinality(B) - Cardinality(A \cap B)
      BY <2>3, <2>5, FS_Union
    <3>2. Cardinality(A \cap B) = 0
      BY <2>1, FS_EmptySet
    <3>3. QED
      BY <2>3, <2>5, <3>1, <3>2
  <2>7. repeatable = Cardinality(Lasts(sent))
    BY <1>0 DEF RepeatableCounts, Lasts
  <2>8. repeatable' = Cardinality(F)
    BY <2>1, <2>3, <2>4, <2>6, <2>7
  <2>9. QED
    BY <2>8 DEF RepeatableCounts, Lasts, F
<1>9. RepeatArmed'
  <2> SUFFICES ASSUME NEW i \in DOMAIN sent', sent'[i].reliable, ~sent'[i].empty
               PROVE  trigger'.running
    BY DEF RepeatArmed
  <2>1. trigger.running
    BY <1>0, <1>3 DEF RepeatArmed
  <2>2. Rearmed(trigger).running
    BY <1>1, <2>1 DEF Rearmed, Trigger
  <2>3. repeatable' # 0
    <3>1. Lasts(sent') # {}
      BY <1>1, <1>6, LastOfReliable
    <3>2. IsFiniteSet(Lasts(sent'))
      BY <1>1, LastsFinite
    <3>3. Cardinality(Lasts(sent')) # 0
      BY <3>1, <3>2, FS_EmptySet
    <3>4. QED
      BY <1>8, <3>3 DEF RepeatableCounts, Lasts
  <2>4. QED
    BY <2>1, <2>2, <2>3
<1>10. QED
  BY <1>5, <1>7, <1>8, <1>9
\* An acknowledgment: the lists lose what it confirms or gives up, and what is
\* lost and reliable is written again.
LEMMA AcknowledgeWInv ==
    ASSUME WInv, IInv', NEW a \in Acknowledgments, NEW ack \in stageAck .. stage,
           IsNewAck(a, ack), Acknowledge(a, ack),
           UNCHANGED <<state, connection, connectedSize, messages, stage, generation,
                       life, created, closeCalled>>
    PROVE  WInv'
<1> DEFINE head(e, cuts, i) == i = 1 \/ e[i] # e[i - 1] + 1 \/ i \in cuts
           ending == state = "CLOSED" /\ Len(messages) = 1
           chunks(e, cuts) ==
             [i \in DOMAIN e |->
                ChunkOf(FragmentAt(e[i]), e[i], ack, head(e, cuts, i),
                        run + RunsUpTo(cuts, i), ending)]
           effect(e, cuts) ==
             /\ Drops(a, ack)
             /\ repeatable' = repeatable - Completed(ack - stageAck)
             /\ trigger' = IF repeatable' = 0 THEN Stopped(trigger)
                           ELSE IF ack > stageAck \/ LostReliable(a) # {}
                           THEN Rearmed(trigger) ELSE trigger
             /\ wire' = wire \o chunks(e, cuts)
             /\ run' = run + Cardinality(cuts)
             /\ lastWriter' = (lastWriter /\ e = <<>>)
<1>1. PICK e \in Ascending(Resent(a)) : \E cuts \in SUBSET DOMAIN e : effect(e, cuts)
  BY DEF Acknowledge, Drops
<1>2. PICK cuts \in SUBSET DOMAIN e : effect(e, cuts)
  BY <1>1
<1>3. /\ IInv /\ TypeOK
      /\ stage \in Nat /\ stageAck \in Nat /\ ack \in Nat
      /\ sent \in Seq(Fragment) /\ Len(sent) \in Nat /\ DOMAIN sent = 1 .. Len(sent)
      /\ run \in Nat /\ wire \in Seq(Chunk) /\ lastWriter \in BOOLEAN
      /\ generation \in Nat
  BY DEF WInv, IInv, TypeOK
<1>4. /\ Cardinality(Resent(a)) \in Nat
      /\ e \in [1 .. Cardinality(Resent(a)) -> Resent(a)]
      /\ DOMAIN e = 1 .. Cardinality(Resent(a))
  BY <1>3, ResentInWindow, FS_CardinalityType DEF Ascending
<1>5. Cardinality(cuts) \in Nat /\ \A i : RunsUpTo(cuts, i) \in Nat
  BY <1>4, CutsCount
<1>6. ASSUME NEW i \in DOMAIN e
      PROVE  /\ e[i] \in Nat /\ e[i] <= stage /\ e[i] - stageAck \in DOMAIN sent
             /\ stageAck + (e[i] - stageAck) = e[i]
             /\ FragmentAt(e[i]) = sent[e[i] - stageAck]
             /\ FragmentAt(e[i]) \in Fragment /\ FragmentAt(e[i]).reliable
  <2>1. e[i] \in Resent(a)
    BY <1>4
  <2>2. /\ e[i] \in Nat /\ e[i] <= stage /\ e[i] - stageAck \in DOMAIN sent
        /\ FragmentAt(e[i]) \in Fragment
    BY <1>3, <2>1, ResentInWindow
  <2>3. FragmentAt(e[i]).reliable
    BY <2>1 DEF Resent, LostReliable
  <2>4. QED
    BY <1>3, <2>2, <2>3 DEF FragmentAt
<1> DEFINE u == chunks(e, cuts)
<1>7. ASSUME NEW i \in DOMAIN e
      PROVE  /\ u[i] \in Chunk
             /\ u[i].generation = generation /\ u[i].stage = e[i]
             /\ Carries(u[i], FragmentAt(e[i]))
             /\ u[i].head <=> (i = 1 \/ e[i] # e[i - 1] + 1 \/ i \in cuts)
             /\ u[i].run = run + RunsUpTo(cuts, i)
             /\ u[i].end <=> (state = "CLOSED" /\ Len(messages) = 1)
  <2> DEFINE h == head(e, cuts, i)
             x == ending
  <2>1. u[i] = ChunkOf(FragmentAt(e[i]), e[i], ack, h, run + RunsUpTo(cuts, i), x)
    OBVIOUS
  <2>2. h \in BOOLEAN /\ x \in BOOLEAN
        /\ (h <=> (i = 1 \/ e[i] # e[i - 1] + 1 \/ i \in cuts))
        /\ (x <=> (state = "CLOSED" /\ Len(messages) = 1))
    OBVIOUS
  <2>3. run + RunsUpTo(cuts, i) \in Nat
    BY <1>3, <1>5
  <2> HIDE DEF u, h, x
  <2>4. u[i] \in Chunk
    BY <1>3, <1>6, <2>1, <2>2, <2>3, ChunkType
  <2>5. QED
    BY <2>1, <2>2, <2>4 DEF ChunkOf, Carries
<1>8. DOMAIN u = DOMAIN e
  OBVIOUS
<1>9. u \in Seq(Chunk) /\ Len(u) = Cardinality(Resent(a))
  <2>1. u = [i \in 1 .. Cardinality(Resent(a)) |-> u[i]]
    BY <1>4
  <2> HIDE DEF u
  <2>2. u \in [1 .. Cardinality(Resent(a)) -> Chunk]
    BY <1>4, <1>7, <2>1
  <2>3. QED
    BY <1>4, <2>2
<1>10. wire' = wire \o u
  BY <1>2
<1> HIDE DEF u, chunks
<1>11. Again(u)
  <2> SUFFICES ASSUME NEW k \in DOMAIN u
               PROVE  /\ u[k].generation = generation
                      /\ \E j \in DOMAIN sent :
                            sent[j].reliable /\ u[k].stage = stageAck + j /\ Carries(u[k], sent[j])
                      /\ u[k].head \/ (k > 1 /\ Follows(u[k - 1], u[k]))
                      /\ ~Critical => ~u[k].end
                      /\ ~Critical /\ state = "CLOSED" => u[k].stage <= stage
    BY DEF Again
  <2>1. /\ k \in DOMAIN e /\ k \in Nat /\ 1 <= k
        /\ u[k].generation = generation /\ u[k].stage = e[k] /\ e[k] \in Nat
        /\ Carries(u[k], FragmentAt(e[k])) /\ e[k] <= stage
    BY <1>4, <1>6, <1>7, <1>8
  <2>2. \E j \in DOMAIN sent :
            sent[j].reliable /\ u[k].stage = stageAck + j /\ Carries(u[k], sent[j])
    <3> DEFINE j == e[k] - stageAck
    <3>1. j \in DOMAIN sent /\ sent[j].reliable /\ u[k].stage = stageAck + j
          /\ Carries(u[k], sent[j])
      BY <1>6, <2>1
    <3> HIDE DEF j
    <3>2. QED
      BY <3>1
  <2>3. ASSUME ~u[k].head PROVE k > 1 /\ Follows(u[k - 1], u[k])
    <3>1. k # 1 /\ e[k] = e[k - 1] + 1 /\ k \notin cuts
      BY <1>7, <2>1, <2>3
    <3>2. k - 1 \in DOMAIN e /\ k > 1
      BY <1>4, <2>1, <3>1
    <3>3. RunsUpTo(cuts, k) = RunsUpTo(cuts, k - 1)
      BY <1>4, <2>1, <3>1, RunsAlong
    <3>4. /\ u[k - 1].generation = generation /\ u[k - 1].stage = e[k - 1]
          /\ u[k - 1].run = run + RunsUpTo(cuts, k - 1)
      BY <1>7, <3>2
    <3>5. u[k].run = run + RunsUpTo(cuts, k)
      BY <1>7, <2>1
    <3>6. QED
      BY <2>1, <3>1, <3>2, <3>3, <3>4, <3>5 DEF Follows
  <2>4. ~Critical => ~u[k].end
    <3> SUFFICES ASSUME ~Critical, u[k].end PROVE FALSE
      OBVIOUS
    <3>1. state = "CLOSED" /\ Len(messages) = 1
      BY <1>7, <2>1
    <3>2. messages = <<>>
      BY <3>1 DEF WInv, Plain
    <3>3. QED
      BY <3>1, <3>2
  <2>5. QED
    BY <2>1, <2>2, <2>3, <2>4
<1>12. PICK W : W = wire \o u
  OBVIOUS
<1>13. PICK R : R = run + Cardinality(cuts)
  OBVIOUS
<1>14. PICK L \in BOOLEAN : L = (lastWriter /\ e = <<>>)
  OBVIOUS
<1>15. L => lastWriter /\ u = <<>> /\ R = run
  <2> SUFFICES ASSUME L PROVE lastWriter /\ u = <<>> /\ R = run
    OBVIOUS
  <2>1. lastWriter /\ e = <<>>
    BY <1>14
  <2>2. Len(e) = 0
    BY <2>1
  <2>3. e \in Seq(Resent(a)) /\ Len(e) = Cardinality(Resent(a))
    BY <1>4
  <2>4. Cardinality(Resent(a)) = 0
    BY <2>2, <2>3
  <2>5. u = <<>>
    BY <1>9, <2>4
  <2>6. cuts = {}
    BY <1>4, <2>4
  <2>7. Cardinality(cuts) = 0
    BY <2>6, FS_EmptySet
  <2>8. QED
    BY <1>3, <1>13, <2>1, <2>5, <2>7
<1>16. Band(W, R, L)
  <2>1. Band(wire, run, lastWriter)
    BY DEF WInv
  <2>2. QED
    BY <1>3, <1>9, <1>11, <1>12, <1>15, <2>1, AgainKeeps
<1>17. Drops(a, ack)
  BY <1>2
<1>18. Band(W, R, L)'
  BY <1>16, <1>17, DropBand
<1>19. Band(wire, run, lastWriter)'
  <2>1. wire' = W /\ run' = R /\ lastWriter' = L
    BY <1>2, <1>10, <1>12, <1>13, <1>14
  <2>2. QED
    BY <1>18, <2>1, BandBecomes
<1>20. Queued' /\ Whole' /\ RepeatableCounts' /\ RepeatArmed'
  <2>1. /\ repeatable' = repeatable - Completed(ack - stageAck)
        /\ \/ trigger' = Stopped(trigger) /\ repeatable' = 0
           \/ trigger' = Rearmed(trigger)
           \/ trigger' = trigger
    BY <1>2
  <2>2. QED
    BY <1>17, <2>1, DropLists
<1>21. Plain'
  BY DEF WInv, Plain, Critical
<1>22. Announced(wire)'
  <2> SUFFICES ASSUME ~Critical', state' = "CLOSED", stage' > 0
               PROVE  \E c \in ChunksOf(wire') : c.end /\ c.generation = generation'
    BY DEF Announced, ChunksOf
  <2>1. PICK c \in ChunksOf(wire) : c.end /\ c.generation = generation
    BY DEF WInv, Announced, Critical
  <2>2. c \in ChunksOf(wire')
    BY <1>3, <1>9, <1>10, ChunksOfBoth
  <2>3. QED
    BY <2>1, <2>2
<1>23. QED
  BY <1>19, <1>20, <1>21, <1>22 DEF WInv
-----------------------------------------------------------------------------
(* raiseMessage                                                            *)

\* raiseMessage writes reliable fragments of _messagesSent again.
LEMMA RaisedAgain ==
    ASSUME WInv, ~Consumed, NEW q \in RaisedSets, NEW e \in Ascending(q)
    PROVE  Again(RaisedChunks(e)) /\ (q = {} => RaisedChunks(e) = <<>>)
<1> DEFINE u == RaisedChunks(e)
<1>1. /\ IInv /\ TypeOK /\ stageAck \in Nat /\ run \in Nat
      /\ sent \in Seq(Fragment) /\ Len(sent) \in Nat /\ DOMAIN sent = 1 .. Len(sent)
  BY DEF WInv, IInv, TypeOK
<1>2. q \subseteq DOMAIN sent /\ \A j \in q : sent[j].reliable
  BY DEF RaisedSets, Reliable
<1>3. IsFiniteSet(q) /\ Cardinality(q) \in Nat
  <2>1. IsFiniteSet(DOMAIN sent)
    BY <1>1, FS_Interval
  <2>2. QED
    BY <1>2, <2>1, FS_Subset, FS_CardinalityType
<1>4. e \in [1 .. Cardinality(q) -> q] /\ DOMAIN e = 1 .. Cardinality(q)
  BY DEF Ascending
<1>5. u \in Seq(Chunk) /\ DOMAIN u = DOMAIN e
  <2>1. u \in Seq(Chunk)
    BY <1>1, RaisedType
  <2>2. DOMAIN u = DOMAIN e
    BY DEF RaisedChunks
  <2>3. QED
    BY <2>1, <2>2
<1>6. \A k \in DOMAIN e :
         /\ u[k].generation = generation /\ u[k].stage = stageAck + e[k]
         /\ Carries(u[k], sent[e[k]])
         /\ u[k].head <=> (k = 1 \/ e[k] # e[k - 1] + 1)
         /\ u[k].run = run + 1
  BY DEF RaisedChunks, ChunkOf, Carries
<1>7. ~Critical => state # "CLOSED"
  BY DEF WInv, Plain, Consumed
<1>8. \A k \in DOMAIN e : u[k].end => state = "CLOSED"
  BY DEF RaisedChunks, ChunkOf
<1> HIDE DEF u
<1>9. Again(u)
  <2> SUFFICES ASSUME NEW k \in DOMAIN u
               PROVE  /\ u[k].generation = generation
                      /\ \E j \in DOMAIN sent :
                            sent[j].reliable /\ u[k].stage = stageAck + j /\ Carries(u[k], sent[j])
                      /\ u[k].head \/ (k > 1 /\ Follows(u[k - 1], u[k]))
                      /\ ~Critical => ~u[k].end
                      /\ ~Critical /\ state = "CLOSED" => u[k].stage <= stage
    BY DEF Again
  <2>1. k \in DOMAIN e /\ k \in Nat /\ 1 <= k /\ e[k] \in q
    BY <1>4, <1>5
  <2>2. \E j \in DOMAIN sent :
            sent[j].reliable /\ u[k].stage = stageAck + j /\ Carries(u[k], sent[j])
    BY <1>2, <1>6, <2>1
  <2>3. ASSUME ~u[k].head PROVE k > 1 /\ Follows(u[k - 1], u[k])
    <3>1. k # 1 /\ e[k] = e[k - 1] + 1
      BY <1>6, <2>1, <2>3
    <3>2. k - 1 \in DOMAIN e /\ k > 1
      BY <1>3, <1>4, <2>1, <3>1
    <3>3. /\ u[k].generation = u[k - 1].generation /\ u[k].run = u[k - 1].run
          /\ u[k].stage = stageAck + e[k] /\ u[k - 1].stage = stageAck + e[k - 1]
      BY <1>6, <2>1, <3>2
    <3>4. e[k - 1] \in Nat
      BY <1>1, <1>2, <1>4, <3>2
    <3>5. u[k].stage = u[k - 1].stage + 1
      BY <1>1, <3>1, <3>3, <3>4
    <3>6. QED
      BY <3>2, <3>3, <3>5 DEF Follows
  <2>4. QED
    BY <1>6, <1>7, <1>8, <2>1, <2>2, <2>3
<1>10. ASSUME q = {} PROVE u = <<>>
  <2>1. Cardinality(q) = 0
    BY <1>10, FS_EmptySet
  <2>2. Len(u) = 0
    BY <1>4, <1>5, <2>1
  <2>3. QED
    BY <1>5, <2>2
<1>11. QED
  BY <1>9, <1>10 DEF u

\* What is queued may follow a band that is sound.
LEMMA QueueFollows ==
    ASSUME WInv, NEW w, NEW r, NEW last, Band(w, r, last)
    PROVE  Follow(messages, w)
<1>1. \A c \in ChunksOf(w) : Older(c)
  BY DEF Band, Sound
<1>2. QED
  BY <1>1 DEF Follow, Older, WInv, Queued

\* So may what is queued and a new message.
LEMMA MoreFollows ==
    ASSUME WInv, NEW w, NEW r, NEW last, Band(w, r, last), NEW m \in Message, m.name = created
    PROVE  /\ Append(messages, m) \in Seq(Message)
           /\ Follow(Append(messages, m), w)
           /\ \A k \in DOMAIN Append(messages, m) : Append(messages, m)[k].name < created + 1
           /\ Append(messages, m) # <<>>
           /\ Append(messages, m)[Len(Append(messages, m))] = m
<1> DEFINE q == Append(messages, m)
<1>1. /\ messages \in Seq(Message) /\ Len(messages) \in Nat
      /\ DOMAIN messages = 1 .. Len(messages) /\ created \in Nat
  BY DEF WInv, IInv, TypeOK
<1>2. /\ q \in Seq(Message) /\ Len(q) = Len(messages) + 1
      /\ DOMAIN q = 1 .. Len(messages) + 1
      /\ \A k \in DOMAIN messages : q[k] = messages[k]
      /\ q[Len(messages) + 1] = m
  BY <1>1, AppendProperties
<1>3. Queued /\ \A c \in ChunksOf(w) : Older(c)
  BY DEF Band, Sound, WInv
<1> HIDE DEF q
<1>4. \A k \in DOMAIN q : k \in DOMAIN messages \/ k = Len(messages) + 1
  BY <1>1, <1>2
<1>5. ASSUME NEW j \in DOMAIN q, NEW k \in DOMAIN q, j < k PROVE q[j].name < q[k].name
  <2>1. j \in DOMAIN messages
    BY <1>1, <1>2, <1>5
  <2>2. CASE k \in DOMAIN messages
    BY <1>2, <1>3, <1>5, <2>1, <2>2 DEF Queued
  <2>3. CASE k = Len(messages) + 1
    BY <1>2, <1>3, <2>1, <2>3 DEF Queued
  <2>4. QED
    BY <1>4, <2>2, <2>3
<1>6. ASSUME NEW k \in DOMAIN q
      PROVE  /\ \A c \in ChunksOf(w) : c.message < q[k].name
             /\ \A i \in DOMAIN sent : sent[i].message < q[k].name
             /\ q[k].name < created + 1
  <2>1. CASE k \in DOMAIN messages
    <3>1. q[k] = messages[k] /\ messages[k] \in Message /\ messages[k].name < created
      BY <1>1, <1>2, <1>3, <2>1 DEF Queued
    <3>2. messages[k].name \in Nat
      BY <3>1 DEF Message
    <3>3. QED
      BY <1>1, <1>3, <2>1, <3>1, <3>2 DEF Queued, Older
  <2>2. CASE k = Len(messages) + 1
    BY <1>1, <1>2, <1>3, <2>2 DEF Queued, Older
  <2>3. QED
    BY <1>4, <2>1, <2>2
<1>7. Follow(q, w)
  BY <1>5, <1>6 DEF Follow
<1>8. q # <<>> /\ q[Len(q)] = m
  BY <1>1, <1>2
<1>9. QED
  BY <1>2, <1>6, <1>7, <1>8 DEF q

\* So may the first messages of a queue.
LEMMA FirstFollow ==
    ASSUME NEW w, NEW q \in Seq(Message), Follow(q, w), NEW n \in 0 .. Len(q)
    PROVE  /\ SubSeq(q, 1, n) \in Seq(Message)
           /\ DOMAIN SubSeq(q, 1, n) \subseteq DOMAIN q
           /\ \A k \in DOMAIN SubSeq(q, 1, n) : SubSeq(q, 1, n)[k] = q[k]
           /\ Follow(SubSeq(q, 1, n), w)
<1> DEFINE p == SubSeq(q, 1, n)
<1>1. Len(q) \in Nat /\ DOMAIN q = 1 .. Len(q) /\ n \in Nat /\ n <= Len(q)
  OBVIOUS
<1>2. p \in Seq(Message) /\ Len(p) = n /\ (\A k \in 1 .. n : p[k] = q[k])
  BY <1>1
<1>3. DOMAIN p = 1 .. n
  BY <1>2
<1> HIDE DEF p
<1>4. DOMAIN p \subseteq DOMAIN q
  BY <1>1, <1>3
<1>5. Follow(p, w)
  BY <1>2, <1>3, <1>4 DEF Follow
<1>6. QED
  BY <1>2, <1>3, <1>4, <1>5 DEF p
-----------------------------------------------------------------------------
(* fail                                                                    *)

\* Under a new identifier nothing is numbered, queued or believed yet: what was
\* written stays sound.
LEMMA RenewSound ==
    ASSUME WInv, IInv', NEW r \in BOOLEAN, Renew(r), state # "CLOSED",
           NEW c \in Chunk, c.generation <= generation, c.message < created',
           ~c.end, \A k \in DOMAIN sent' : c.message = sent'[k].message => c.reliable = sent'[k].reliable
    PROVE  Sound(c)'
<1>1. /\ generation' = generation + 1 /\ stage' = 0 /\ stageAck' = 0 /\ messages' = <<>>
      /\ generation \in Nat /\ c.generation \in Nat
  BY DEF Renew, WInv, IInv, TypeOK, Chunk
<1>2. generation' # 0 /\ c.generation <= generation' /\ c.generation # generation'
  BY <1>1
<1>3. Bounded(c)' /\ Matches(c)' /\ Acked(c)'
  BY <1>2 DEF Bounded, Matches, Acked
<1>4. Older(c)'
  <2>1. \A k \in DOMAIN messages' : c.message < messages'[k].name
    BY <1>1
  <2>2. QED
    BY <2>1 DEF Older
<1>5. Agrees(c)' /\ EndsAt(c)'
  BY DEF Agrees, EndsAt
<1>6. QED
  BY <1>3, <1>4, <1>5 DEF Sound

\* Giving the identifier up.
LEMMA RenewWInv ==
    ASSUME WInv, IInv', Usable, NEW r \in BOOLEAN, Renew(r), state # "CLOSED"
    PROVE  WInv'
<1>1. /\ messages' = <<>> /\ stage' = 0 /\ stageAck' = 0
      /\ generation' = generation + 1 /\ ~Critical
      /\ UNCHANGED <<state, connection, connectedSize, life, closeCalled>>
  BY DEF Renew
<1>2. /\ IInv /\ TypeOK /\ stage \in Nat /\ generation \in Nat /\ created \in Nat
      /\ run \in Nat /\ wire \in Seq(Chunk) /\ Len(wire) \in Nat
      /\ lastWriter \in BOOLEAN /\ Band(wire, run, lastWriter)
      /\ trigger \in Trigger
      /\ Critical' = Critical
  BY <1>1 DEF WInv, IInv, TypeOK, Critical
<1>3. ASSUME NEW c \in ChunksOf(wire)
      PROVE  /\ c \in Chunk /\ Sound(c) /\ c.generation <= generation /\ c.message < created
             /\ ~c.end /\ c.message \in Nat /\ c.stage \in Nat
             /\ (generation = 0 => c.stage <= stage)
  <2>1. c \in Chunk /\ Sound(c)
    BY <1>2 DEF Band, ChunksOf
  <2>2. c.message \in Nat /\ c.stage \in Nat
    BY <2>1 DEF Chunk
  <2>3. QED
    BY <1>1, <2>1, <2>2 DEF Sound, Bounded, Older, EndsAt, Matches
<1>4. Plain' /\ Announced(wire)'
  BY <1>1, <1>2 DEF WInv, Plain, Announced, Usable
<1>5. CASE stage > 0
  <2> DEFINE ab == [message |-> created, reliable |-> r, empty |-> TRUE,
                    before |-> FALSE, after |-> FALSE, sentAt |-> stage + 1]
  <2>1. PICK cut \in BOOLEAN :
          /\ created' = created + 1
          /\ sent' = <<ab>>
          /\ repeatable' = IF r THEN 1 ELSE 0
          /\ run' = IF cut THEN run + 1 ELSE run
          /\ wire' = Append(wire, ChunkOf(ab, stage + 1, stageAck, cut \/ ~lastWriter, run', FALSE))
    BY <1>5 DEF Renew
  <2>2. PICK d : d = ChunkOf(ab, stage + 1, stageAck, cut \/ ~lastWriter, run', FALSE)
    OBVIOUS
  <2>3. /\ d.generation = generation /\ d.stage = stage + 1 /\ d.message = created
        /\ d.reliable = r /\ ~d.end /\ d.run = run'
        /\ d.head <=> (cut \/ ~lastWriter)
    BY <2>2 DEF ChunkOf
  <2>4. sent' = <<ab>> /\ ab.message = created /\ ab.reliable = r /\ ab.after = FALSE /\ ab.empty = TRUE
    BY <2>1
  <2> HIDE DEF ab
  <2>5. /\ DOMAIN sent' = {1} /\ Len(sent') = 1 /\ sent'[1] = ab
    BY <2>4
  <2>6. d \in Chunk
    <3>1. wire' \in Seq(Chunk) /\ wire' = Append(wire, d)
      BY <2>1, <2>2 DEF IInv, TypeOK
    <3>2. Len(wire') = Len(wire) + 1 /\ wire'[Len(wire) + 1] = d
      BY <1>2, <3>1
    <3>3. QED
      BY <1>2, <3>1, <3>2
  <2> DEFINE u == <<d>>
  <2>7. u \in Seq(Chunk) /\ Len(u) = 1 /\ DOMAIN u = {1} /\ u[1] = d /\ ChunksOf(u) = {d}
    BY <2>6 DEF ChunksOf
  <2>8. PICK W : W = wire \o u
    OBVIOUS
  <2> HIDE DEF u
  <2>9. wire' = W
    <3>1. Append(wire, d) = wire \o <<d>>
      BY <1>2, <2>6
    <3>2. QED
      BY <2>1, <2>2, <2>8, <3>1 DEF u
  <2>10. W \in Seq(Chunk) /\ ChunksOf(W) = ChunksOf(wire) \cup {d}
    BY <1>2, <2>7, <2>8, OfEach, ChunksOfBoth
  <2>11. \A c \in ChunksOf(W) : Sound(c)'
    <3>1. ASSUME NEW c \in ChunksOf(wire) PROVE Sound(c)'
      <4>1. \A k \in DOMAIN sent' : c.message # sent'[k].message
        BY <1>2, <1>3, <2>4, <2>5
      <4>2. c.message < created'
        BY <1>2, <1>3, <2>1
      <4>3. QED
        BY <1>3, <4>1, <4>2, RenewSound
    <3>2. Sound(d)'
      <4>1. \A k \in DOMAIN sent' : d.reliable = sent'[k].reliable
        BY <2>3, <2>4, <2>5
      <4>2. d.generation <= generation /\ d.message < created'
        BY <1>2, <2>1, <2>3
      <4>3. QED
        BY <2>3, <2>6, <4>1, <4>2, RenewSound
    <3>3. QED
      BY <2>10, <3>1, <3>2
  <2>12. ASSUME NEW c \in ChunksOf(wire) PROVE Consistent(c, d) /\ EndsLater(c, d)
    <3>1. c.message # d.message
      BY <1>2, <1>3, <2>3
    <3>2. ~(c.generation = 0 /\ d.generation = 0 /\ c.stage = d.stage)
      BY <1>2, <1>3, <2>3
    <3>3. EndsLater(c, d)
      BY <1>3, <2>3 DEF EndsLater
    <3>4. QED
      BY <3>1, <3>2, <3>3 DEF Consistent
  <2>13. Pairs(W) /\ EndPairs(W)
    <3>1. Pairs(u) /\ EndPairs(u)
      BY <2>7 DEF Pairs, EndPairs
    <3>2. Pairs(wire) /\ EndPairs(wire)
      BY <1>1, <1>2 DEF Band
    <3>3. QED
      BY <1>2, <2>7, <2>8, <2>12, <3>1, <3>2, PairsJoined, EndPairsJoined
  <2>14. Headed(W)
    <3>1. ASSUME NEW k \in DOMAIN u, ~u[k].head, u[k].stage > 1
          PROVE  k = 1 /\ wire # <<>> /\ Follows(wire[Len(wire)], u[1])
      <4>1. k = 1 /\ u[1] = d
        BY <2>7
      <4>2. lastWriter /\ ~cut
        BY <2>3, <3>1, <4>1
      <4>3. wire # <<>> /\ wire[Len(wire)].run = run /\ wire[Len(wire)].generation = generation
            /\ wire[Len(wire)].stage = stage
        BY <1>2, <1>5, <4>2 DEF Band, Continued
      <4>4. d.run = run
        BY <2>1, <2>3, <4>2
      <4>5. QED
        BY <2>3, <4>1, <4>3, <4>4 DEF Follows
    <3>2. Headed(wire)
      BY <1>2 DEF Band
    <3>3. QED
      BY <1>2, <2>7, <2>8, <3>1, <3>2, HeadedJoined
  <2>15. PICK R : R = run'
    OBVIOUS
  <2>16. PICK L : L = lastWriter'
    OBVIOUS
  <2>17. Continued(W, R, L)'
    BY <1>1 DEF Continued
  <2>18. Band(W, R, L)'
    BY <2>10, <2>11, <2>13, <2>14, <2>17 DEF Band
  <2>19. Band(wire, run, lastWriter)'
    BY <2>9, <2>15, <2>16, <2>18, BandBecomes
  <2>20. Queued'
    <3>1. \A k \in DOMAIN messages' : FALSE
      BY <1>1
    <3>2. \A i \in DOMAIN sent' : sent'[i].message < created'
      BY <1>2, <2>1, <2>4, <2>5
    <3>3. QED
      BY <3>1, <3>2 DEF Queued
  <2>21. Whole'
    BY <1>1, <2>4, <2>5 DEF Whole
  <2>22. RepeatableCounts'
    <3> DEFINE S == {i \in DOMAIN sent' : sent'[i].reliable /\ ~sent'[i].after}
    <3>1. S = IF r THEN {1} ELSE {}
      BY <2>4, <2>5
    <3> HIDE DEF S
    <3>2. Cardinality(S) = IF r THEN 1 ELSE 0
      BY <3>1, FS_Singleton, FS_EmptySet
    <3>3. QED
      BY <2>1, <3>2 DEF RepeatableCounts, S
  <2>23. RepeatArmed'
    BY <2>4, <2>5 DEF RepeatArmed
  <2>24. QED
    BY <1>4, <2>19, <2>20, <2>21, <2>22, <2>23 DEF WInv
<1>6. CASE ~(stage > 0)
  <2>1. sent' = <<>> /\ repeatable' = 0 /\ UNCHANGED <<trigger, run, lastWriter, wire, created>>
    BY <1>6 DEF Renew, bandVars
  <2>2. \A k \in DOMAIN sent' : FALSE
    BY <2>1
  <2>3. PICK W : W = wire
    OBVIOUS
  <2>4. \A c \in ChunksOf(W) : Sound(c)'
    <3> SUFFICES ASSUME NEW c \in ChunksOf(wire) PROVE Sound(c)'
      BY <2>3
    <3>1. c.message < created'
      BY <1>3, <2>1
    <3>2. QED
      BY <1>3, <2>2, <3>1, RenewSound
  <2>5. W \in Seq(Chunk) /\ Pairs(W) /\ EndPairs(W) /\ Headed(W)
    BY <1>1, <1>2, <2>3 DEF Band
  <2>6. PICK R : R = run'
    OBVIOUS
  <2>7. PICK L : L = lastWriter'
    OBVIOUS
  <2>8. Continued(W, R, L)'
    BY <1>1 DEF Continued
  <2>9. Band(W, R, L)'
    BY <2>4, <2>5, <2>8 DEF Band
  <2>10. Band(wire, run, lastWriter)'
    BY <2>1, <2>3, <2>6, <2>7, <2>9, BandBecomes
  <2>11. Queued' /\ Whole' /\ RepeatArmed'
    BY <1>1, <2>1, <2>2 DEF Queued, Whole, RepeatArmed
  <2>12. RepeatableCounts'
    <3>1. {i \in DOMAIN sent' : sent'[i].reliable /\ ~sent'[i].after} = {}
      BY <2>2
    <3>2. QED
      BY <2>1, <3>1, FS_EmptySet DEF RepeatableCounts
  <2>13. QED
    BY <1>4, <2>10, <2>11, <2>12 DEF WInv
<1>7. QED
  BY <1>5, <1>6
-----------------------------------------------------------------------------
\* The invariant holds initially and through every step.
LEMMA InitWInv == Init => WInv
<1> SUFFICES ASSUME Init PROVE WInv
  OBVIOUS
<1>1. IInv
  BY InitIInv
<1>2. \A i \in DOMAIN wire : FALSE
  BY DEF Init
<1>3. (\A i \in DOMAIN sent : FALSE) /\ (\A k \in DOMAIN messages : FALSE)
  BY DEF Init
<1>4. ChunksOf(wire) = {}
  BY <1>2 DEF ChunksOf
<1>5. Continued(wire, run, lastWriter)
  BY DEF Init, Continued
<1>6. Band(wire, run, lastWriter)
  BY <1>1, <1>2, <1>4, <1>5 DEF Band, Pairs, EndPairs, Headed, IInv, TypeOK
<1>7. Queued /\ RepeatArmed
  BY <1>3 DEF Queued, RepeatArmed
<1>8. Whole
  BY <1>3 DEF Init, Whole
<1>9. Plain /\ Announced(wire)
  BY DEF Init, Plain, Announced
<1>10. RepeatableCounts
  <2>1. {i \in DOMAIN sent : sent[i].reliable /\ ~sent[i].after} = {}
    BY <1>3
  <2>2. QED
    BY <2>1, FS_EmptySet DEF Init, RepeatableCounts
<1>11. QED
  BY <1>1, <1>6, <1>7, <1>8, <1>9, <1>10 DEF WInv

\* A step that leaves the band as it is, and what it was written from.
LEMMA BandKept ==
    ASSUME WInv, IInv', UNCHANGED <<sent, stage, stageAck, generation, wire, reported>>,
           Critical' = Critical, ~Critical => state' = state,
           \A c \in ChunksOf(wire) : Older(c)',
           \/ ~lastWriter'
           \/ lastWriter' = lastWriter /\ run' = run
    PROVE  Band(wire, run, lastWriter)'
<1>1. PICK W : W = wire
  OBVIOUS
<1>2. PICK R : R = run'
  OBVIOUS
<1>3. PICK L : L = lastWriter'
  OBVIOUS
<1>4. Band(wire, run, lastWriter)
  BY DEF WInv
<1>5. ASSUME NEW c \in ChunksOf(W) PROVE Sound(c)'
  <2>1. Sound(c) /\ Older(c)'
    BY <1>1, <1>4 DEF Band
  <2>2. Bounded(c)' /\ Agrees(c)' /\ Matches(c)' /\ Acked(c)' /\ EndsAt(c)'
    BY <2>1 DEF Sound, Bounded, Agrees, Matches, Acked, EndsAt
  <2>3. QED
    BY <2>1, <2>2 DEF Sound
<1>6. Continued(W, R, L)'
  BY <1>1, <1>2, <1>3, <1>4 DEF Band, Continued
<1>7. Band(W, R, L)'
  BY <1>1, <1>4, <1>5, <1>6 DEF Band
<1>8. QED
  BY <1>1, <1>2, <1>3, <1>7, BandBecomes

\* What a step leaves as it is when it touches neither list.
LEMMA ListsKept ==
    ASSUME WInv, UNCHANGED <<messages, sent, stage, stageAck, repeatable, trigger, created>>
    PROVE  /\ Queued' /\ Whole' /\ RepeatableCounts' /\ RepeatArmed'
           /\ \A c \in ChunksOf(wire) : Older(c)'
<1>1. \A c \in ChunksOf(wire) : Older(c)
  BY DEF WInv, Band, Sound
<1>2. \A c \in ChunksOf(wire) : Older(c)'
  BY <1>1 DEF Older
<1>3. QED
  BY <1>2 DEF WInv, Queued, Whole, RepeatableCounts, RepeatArmed

\* write queues a message.
LEMMA WriteWInv ==
    ASSUME WInv, IInv', NEW r \in Reliabilities, Write(r)
    PROVE  WInv'
<1>1. /\ messages' = Append(messages, NewMessage(r, FALSE)) /\ created' = created + 1
      /\ state # "CLOSED"
      /\ UNCHANGED <<state, connection, connectedSize, sent, stage, stageAck,
                     repeatable, trigger, generation, life, run, lastWriter, wire,
                     reported, closeCalled>>
  BY DEF Write
<1>2. created \in Nat /\ NewMessage(r, FALSE) \in Message /\ NewMessage(r, FALSE).name = created
  BY WriterAssumption DEF NewMessage, Message, WInv, IInv, TypeOK
<1>3. Band(wire, run, lastWriter)
  BY DEF WInv
<1>4. /\ messages' \in Seq(Message)
      /\ Follow(messages', wire)
      /\ \A k \in DOMAIN messages' : messages'[k].name < created'
  BY <1>1, <1>2, <1>3, MoreFollows
<1>5. ASSUME NEW c \in ChunksOf(wire) PROVE Older(c)'
  <2>1. c \in Chunk /\ Sound(c)
    BY <1>3 DEF Band, ChunksOf
  <2>2. c.message < created /\ c.message \in Nat
    BY <2>1 DEF Sound, Older, Chunk
  <2>3. c.message < created'
    BY <1>1, <1>2, <2>2
  <2>4. QED
    BY <1>4, <2>3 DEF Older, Follow
<1>6. Band(wire, run, lastWriter)'
  BY <1>1, <1>5, BandKept DEF Critical
<1>7. Queued'
  <2>1. ASSUME NEW i \in DOMAIN sent PROVE sent[i].message < created'
    <3>1. sent \in Seq(Fragment)
      BY DEF WInv, IInv, TypeOK
    <3>2. sent[i] \in Fragment
      BY <3>1
    <3>3. sent[i].message \in Nat
      BY <3>2 DEF Fragment
    <3>4. sent[i].message < created
      BY DEF WInv, Queued
    <3>5. QED
      BY <1>1, <1>2, <3>3, <3>4
  <2>2. QED
    BY <1>1, <1>4, <2>1 DEF Queued, Follow
<1>8. Whole' /\ RepeatableCounts' /\ RepeatArmed'
  BY <1>1 DEF WInv, Whole, RepeatableCounts, RepeatArmed
<1>9. Plain' /\ Announced(wire)'
  BY <1>1 DEF WInv, Plain, Announced, Critical
<1>10. QED
  BY <1>6, <1>7, <1>8, <1>9 DEF WInv

\* A flush that comes after no repeat.
LEMMA PlainFlush ==
    ASSUME WInv
    PROVE  /\ <<>> \in Seq(Chunk) /\ run \in Nat /\ lastWriter \in BOOLEAN /\ trigger \in Trigger
           /\ messages \in Seq(Message) /\ created \in Nat
           /\ Band(wire \o <<>>, run, lastWriter)
           /\ Follow(messages, wire \o <<>>)
           /\ \A k \in DOMAIN messages : messages[k].name < created
           /\ (\E i \in DOMAIN sent : sent[i].reliable /\ ~sent[i].empty) => trigger.running
<1>1. wire \in Seq(Chunk) /\ Band(wire, run, lastWriter)
  BY DEF WInv, IInv, TypeOK
<1>2. wire \o <<>> = wire
  BY <1>1
<1>3. Follow(messages, wire)
  BY <1>1, QueueFollows
<1>4. <<>> \in Seq(Chunk)
  BY EmptySeq
<1>5. QED
  BY <1>1, <1>2, <1>3, <1>4 DEF WInv, IInv, TypeOK, Queued, RepeatArmed

\* writeRaw flushes the queue and one more message.
LEMMA WriteRawWInv ==
    ASSUME WInv, IInv', WriteRaw
    PROVE  WInv'
<1> DEFINE m == NewMessage(FALSE, FALSE)
           q == Append(messages, m)
<1>1. m \in Message /\ m.name = created
  BY DEF NewMessage, Message, WInv, IInv, TypeOK
<1> HIDE DEF m
<1>2. q \in Seq(Message) /\ Follow(q, wire \o <<>>)
      /\ \A k \in DOMAIN q : q[k].name < created + 1
  BY <1>1, PlainFlush, MoreFollows
<1>3. FlushQueue(q, <<>>, run, lastWriter, trigger, FALSE, FALSE)
  BY DEF WriteRaw, m
<1> HIDE DEF q
<1>4. /\ UNCHANGED <<connection, stageAck, generation, life, reported>> /\ Usable
      /\ state' = "CONNECTED" /\ state = "CONNECTED" /\ connectedSize' = connectedSize
      /\ created' = created + 1
  BY DEF WriteRaw
<1>5. created <= created' /\ \A k \in DOMAIN q : q[k].name < created'
  BY <1>2, <1>4, PlainFlush
<1>6. ~Critical => connectedSize' = -1
  BY <1>4 DEF WInv, Plain
<1>7. FALSE <=> state' = "CLOSED"
  BY <1>4
<1>8. FALSE \in BOOLEAN
  OBVIOUS
<1>9. QED
  BY <1>2, <1>3, <1>4, <1>5, <1>6, <1>7, <1>8, PlainFlush, FlushWInv
\* flush, called by listeners, by a flow's commit and by scripts.
LEMMA FlushCallWInv ==
    ASSUME WInv, IInv', NEW full \in BOOLEAN, Flush(full)
    PROVE  WInv'
<1> DEFINE closed == state = "CLOSED"
<1>1. FlushQueue(messages, <<>>, run, lastWriter, trigger, closed, full)
  BY DEF Flush
<1>2. /\ UNCHANGED <<connection, stageAck, generation, life, reported>> /\ Usable
      /\ state' = state /\ connectedSize' = connectedSize /\ created' = created
  BY DEF Flush
<1>3. closed \in BOOLEAN /\ (closed <=> state' = "CLOSED")
  BY <1>2
<1> HIDE DEF closed
<1>4. created <= created' /\ \A k \in DOMAIN messages : messages[k].name < created'
  BY <1>2, PlainFlush
<1>5. ~Critical => /\ connectedSize' = -1 /\ state' # "CONNECTING"
                   /\ state = "CLOSED" => messages = <<>> /\ state' = "CLOSED"
                   /\ (state' = "CLOSED" /\ messages # <<>>) => messages[Len(messages)].empty
                   /\ (state' = "CLOSED" /\ messages = <<>> /\ stage > 0) => state = "CLOSED"
  BY <1>2 DEF WInv, Plain
<1>6. QED
  BY <1>1, <1>2, <1>3, <1>4, <1>5, PlainFlush, FlushWInv

\* close: the last message of a writer that is not the main one is the empty
\* one that announces the end.
LEMMA CloseWInv ==
    ASSUME WInv, IInv', NEW r \in Reliabilities, Close(r)
    PROVE  WInv'
<1> DEFINE m == NewMessage(r, TRUE)
           queue == IF HasReceiver THEN Append(messages, m) ELSE messages
           kept == IF connectedSize >= 0 /\ connectedSize < Len(queue)
                   THEN SubSeq(queue, 1, connectedSize) ELSE queue
<1>1. r \in BOOLEAN /\ m \in Message /\ m.name = created /\ m.empty
  BY WriterAssumption DEF NewMessage, Message, WInv, IInv, TypeOK
<1>2. created' = IF HasReceiver THEN created + 1 ELSE created
  BY DEF Close
<1>3. FlushQueue(kept, <<>>, run, lastWriter, trigger, TRUE, FALSE)
  BY DEF Close
<1> HIDE DEF m
<1>4. /\ queue \in Seq(Message) /\ Follow(queue, wire \o <<>>)
      /\ \A k \in DOMAIN queue : queue[k].name < created'
  <2>1. CASE HasReceiver
    <3>1. queue = Append(messages, m) /\ created' = created + 1
      BY <1>2, <2>1
    <3>2. QED
      BY <1>1, <3>1, PlainFlush, MoreFollows
  <2>2. CASE ~HasReceiver
    <3>1. queue = messages /\ created' = created
      BY <1>2, <2>2
    <3>2. QED
      BY <3>1, PlainFlush
  <2>3. QED
    BY <2>1, <2>2
<1>5. ~Critical => /\ kept = queue
                   /\ kept # <<>> => kept[Len(kept)].empty
                   /\ kept = <<>> => ~(stage > 0)
                   /\ state # "CLOSED"
  <2>1. ASSUME ~Critical PROVE kept = queue /\ state # "CLOSED"
    BY <2>1 DEF WInv, Plain, Close
  <2>2. CASE HasReceiver
    <3>1. queue = Append(messages, m)
      BY <2>2
    <3>2. queue # <<>> /\ queue[Len(queue)] = m
      BY <1>1, <3>1, PlainFlush, MoreFollows
    <3>3. QED
      BY <1>1, <2>1, <3>2
  <2>3. CASE ~HasReceiver
    <3>1. queue = <<>> /\ ~(stage > 0)
      BY <2>3 DEF HasReceiver
    <3>2. QED
      BY <2>1, <3>1
  <2>4. QED
    BY <2>2, <2>3
<1>6. connectedSize \in Int
  BY DEF WInv, IInv, TypeOK
<1> HIDE DEF queue
<1>7. /\ kept \in Seq(Message) /\ Follow(kept, wire \o <<>>)
      /\ \A k \in DOMAIN kept : kept[k].name < created'
  <2>1. CASE connectedSize >= 0 /\ connectedSize < Len(queue)
    <3>1. connectedSize \in 0 .. Len(queue) /\ kept = SubSeq(queue, 1, connectedSize)
      BY <1>4, <1>6, <2>1
    <3>2. QED
      BY <1>4, <3>1, FirstFollow
  <2>2. CASE ~(connectedSize >= 0 /\ connectedSize < Len(queue))
    BY <1>4, <2>2
  <2>3. QED
    BY <2>1, <2>2
<1> HIDE DEF kept
<1>8. /\ UNCHANGED <<connection, stageAck, generation, life, reported>> /\ Usable
      /\ state' = "CLOSED" /\ connectedSize' = -1
  BY DEF Close
<1>9. created <= created'
  BY <1>2, PlainFlush
<1>10. TRUE \in BOOLEAN /\ FALSE \in BOOLEAN /\ (TRUE <=> state' = "CLOSED")
  BY <1>8
<1>11. ~Critical => /\ connectedSize' = -1 /\ state' # "CONNECTING"
                    /\ state = "CLOSED" => kept = <<>> /\ state' = "CLOSED"
                    /\ (state' = "CLOSED" /\ kept # <<>>) => kept[Len(kept)].empty
                    /\ (state' = "CLOSED" /\ kept = <<>> /\ stage > 0) => state = "CLOSED"
  BY <1>5, <1>8
<1>12. QED
  BY <1>3, <1>7, <1>8, <1>9, <1>10, <1>11, PlainFlush, FlushWInv

\* Peer::onConnection: the queue is kept, or what was queued meanwhile dropped.
LEMMA StartWInv ==
    ASSUME WInv, IInv', StartConnection
    PROVE  WInv'
<1>1. /\ UNCHANGED <<messages, sent, stage, stageAck, repeatable, trigger, generation, life,
                     run, lastWriter, wire, created, reported>>
      /\ Critical /\ Critical' /\ Usable /\ life' # "erased"
  BY DEF StartConnection, windowVars, bandVars, Critical, Usable
<1>2. /\ Queued' /\ Whole' /\ RepeatableCounts' /\ RepeatArmed'
      /\ \A c \in ChunksOf(wire) : Older(c)'
  BY <1>1, ListsKept
<1>3. Band(wire, run, lastWriter)'
  BY <1>1, <1>2, BandKept
<1>4. Announced(wire)' /\ Plain'
  BY <1>1 DEF Announced, Plain
<1>5. QED
  BY <1>2, <1>3, <1>4 DEF WInv

\* The handler of onConnection returns: what it queued is dropped if it refused.
LEMMA FinishWInv ==
    ASSUME WInv, IInv', NEW minimal \in BOOLEAN, FinishConnection(minimal)
    PROVE  WInv'
<1>1. /\ UNCHANGED <<sent, stage, stageAck, repeatable, trigger, generation, life,
                     run, lastWriter, wire, created, reported>>
      /\ Critical /\ Critical'
  BY DEF FinishConnection, bandVars, Critical
<1>2. /\ messages' \in Seq(Message) /\ Follow(messages', wire)
      /\ \A k \in DOMAIN messages' : messages'[k].name < created
  <2>1. messages \in Seq(Message) /\ Follow(messages, wire) /\ connectedSize \in Int
        /\ \A k \in DOMAIN messages : messages[k].name < created
    BY QueueFollows DEF WInv, IInv, TypeOK, Queued
  <2>2. CASE minimal /\ connectedSize >= 0 /\ connectedSize < Len(messages)
    <3>1. connectedSize \in 0 .. Len(messages) /\ messages' = SubSeq(messages, 1, connectedSize)
      BY <2>1, <2>2 DEF FinishConnection
    <3>2. QED
      BY <2>1, <3>1, FirstFollow
  <2>3. CASE ~(minimal /\ connectedSize >= 0 /\ connectedSize < Len(messages))
    <3>1. messages' = messages
      BY <2>3 DEF FinishConnection
    <3>2. QED
      BY <2>1, <3>1
  <2>4. QED
    BY <2>2, <2>3
<1>3. ASSUME NEW c \in ChunksOf(wire) PROVE Older(c)'
  <2>1. c.message < created
    BY DEF WInv, Band, Sound, Older
  <2>2. QED
    BY <1>1, <1>2, <2>1 DEF Older, Follow
<1>4. Band(wire, run, lastWriter)'
  BY <1>1, <1>3, BandKept
<1>5. Queued'
  <2>1. \A i \in DOMAIN sent : sent[i].message < created
    BY DEF WInv, Queued
  <2>2. QED
    BY <1>1, <1>2, <2>1 DEF Queued, Follow
<1>6. Whole' /\ RepeatableCounts' /\ RepeatArmed'
  BY <1>1 DEF WInv, Whole, RepeatableCounts, RepeatArmed
<1>7. Announced(wire)' /\ Plain'
  <2>1. life' # "erased"
    BY <1>1 DEF WInv, Plain
  <2>2. QED
    BY <1>1, <2>1 DEF Announced, Plain
<1>8. QED
  BY <1>4, <1>5, <1>6, <1>7 DEF WInv

\* The band sends its packet: no chunk goes without a header after it.
LEMMA AdvanceWInv ==
    ASSUME WInv, IInv', BandAdvance
    PROVE  WInv'
<1>1. /\ UNCHANGED <<state, connection, connectedSize, messages, sent, stage, stageAck,
                     repeatable, trigger, generation, life, wire, created, reported>>
      /\ ~lastWriter' /\ Critical' = Critical
  BY DEF BandAdvance, windowVars, Critical
<1>2. /\ Queued' /\ Whole' /\ RepeatableCounts' /\ RepeatArmed'
      /\ \A c \in ChunksOf(wire) : Older(c)'
  BY <1>1, ListsKept
<1>3. Band(wire, run, lastWriter)'
  BY <1>1, <1>2, BandKept
<1>4. Announced(wire)' /\ Plain'
  BY <1>1 DEF WInv, Announced, Plain
<1>5. QED
  BY <1>2, <1>3, <1>4 DEF WInv

\* The session drops a closed writer that has nothing queued.
LEMMA ConsumedWInv ==
    ASSUME WInv, IInv', ManageConsumed
    PROVE  WInv'
<1>1. /\ UNCHANGED <<state, connection, connectedSize, messages, sent, stage, stageAck,
                     repeatable, trigger, generation, run, lastWriter, wire, created, reported>>
      /\ Critical' = Critical /\ state = "CLOSED" /\ (life' = "erased" => ~Critical)
  BY DEF ManageConsumed, Consumed, windowVars, bandVars, Critical
<1>2. /\ Queued' /\ Whole' /\ RepeatableCounts' /\ RepeatArmed'
      /\ \A c \in ChunksOf(wire) : Older(c)'
  BY <1>1, ListsKept
<1>3. Band(wire, run, lastWriter)'
  BY <1>1, <1>2, BandKept
<1>4. Announced(wire)' /\ Plain'
  BY <1>1 DEF WInv, Announced, Plain
<1>5. QED
  BY <1>2, <1>3, <1>4 DEF WInv

\* A step of none of the writer's variables.
LEMMA StutterWInv ==
    ASSUME WInv, IInv', UNCHANGED vars
    PROVE  WInv'
<1>1. /\ UNCHANGED <<state, connection, connectedSize, messages, sent, stage, stageAck,
                     repeatable, trigger, generation, life, run, lastWriter, wire, created,
                     reported>>
      /\ Critical' = Critical /\ lastWriter' = lastWriter /\ run' = run
  BY DEF vars, Critical
<1>2. /\ Queued' /\ Whole' /\ RepeatableCounts' /\ RepeatArmed'
      /\ \A c \in ChunksOf(wire) : Older(c)'
  BY <1>1, ListsKept
<1>3. Band(wire, run, lastWriter)'
  BY <1>1, <1>2, BandKept
<1>4. Announced(wire)' /\ Plain'
  BY <1>1 DEF WInv, Announced, Plain
<1>5. QED
  BY <1>2, <1>3, <1>4 DEF WInv

\* The trigger stays quiet: the queue is flushed.
LEMMA QuietWInv ==
    ASSUME WInv, IInv', Usable, NEW elapsed \in BOOLEAN, ManageQuiet(elapsed)
    PROVE  WInv'
<1> DEFINE closed == state = "CLOSED"
           t == IF Waits(trigger, elapsed) THEN trigger ELSE Ticks(trigger)
<1>1. FlushQueue(messages, <<>>, run, lastWriter, t, closed, FALSE)
  BY DEF ManageQuiet
<1>2. t \in Trigger
  BY PlainFlush, TriggerType DEF ManageQuiet
<1>3. t.running = trigger.running
  <2>1. trigger \in Trigger
    BY PlainFlush
  <2>2. Ticks(trigger).running = trigger.running
    BY <2>1 DEF Ticks, Trigger
  <2>3. QED
    BY <2>2
<1>4. /\ UNCHANGED <<connection, stageAck, generation, life, reported>>
      /\ state' = state /\ connectedSize' = connectedSize /\ created' = created
  BY DEF ManageQuiet
<1>5. closed \in BOOLEAN /\ (closed <=> state' = "CLOSED") /\ FALSE \in BOOLEAN
  BY <1>4
<1> HIDE DEF closed, t
<1>6. created <= created' /\ \A k \in DOMAIN messages : messages[k].name < created'
  BY <1>4, PlainFlush
<1>7. ~Critical => /\ connectedSize' = -1 /\ state' # "CONNECTING"
                   /\ state = "CLOSED" => messages = <<>> /\ state' = "CLOSED"
                   /\ (state' = "CLOSED" /\ messages # <<>>) => messages[Len(messages)].empty
                   /\ (state' = "CLOSED" /\ messages = <<>> /\ stage > 0) => state = "CLOSED"
  BY <1>4 DEF WInv, Plain
<1>8. (\E i \in DOMAIN sent : sent[i].reliable /\ ~sent[i].empty) => t.running
  BY <1>3, PlainFlush
<1>9. QED
  BY <1>1, <1>2, <1>4, <1>5, <1>6, <1>7, <1>8, PlainFlush, FlushWInv

\* The trigger fires: what is reliable is written again, then the queue is flushed.
LEMMA RaiseWInv ==
    ASSUME WInv, IInv', Usable, NEW elapsed \in BOOLEAN, ManageRaise(elapsed)
    PROVE  WInv'
<1> DEFINE closed == state = "CLOSED"
           r(q) == IF q = {} THEN run ELSE run + 1
           t(q) == IF q = {} THEN Stopped(Fired(trigger)) ELSE Fired(trigger)
           last(q) == lastWriter /\ q = {}
<1>1. PICK q \in RaisedSets : \E e \in Ascending(q) :
        FlushQueue(messages, RaisedChunks(e), r(q), last(q), t(q), closed, FALSE)
  BY DEF ManageRaise
<1>2. PICK e \in Ascending(q) :
        FlushQueue(messages, RaisedChunks(e), r(q), last(q), t(q), closed, FALSE)
  BY <1>1
<1>3. RaisedChunks(e) \in Seq(Chunk)
  BY RaisedType DEF WInv
<1>4. Again(RaisedChunks(e)) /\ (q = {} => RaisedChunks(e) = <<>>)
  BY RaisedAgain DEF ManageRaise
<1>5. trigger \in Trigger /\ Fired(trigger) \in Trigger
  <2>1. trigger.cycle + 1 <= GiveUp
    BY PlainFlush, WriterAssumption DEF ManageRaise, Trigger
  <2>2. QED
    BY <2>1, PlainFlush, TriggerType
<1>6. t(q) \in Trigger /\ r(q) \in Nat /\ last(q) \in BOOLEAN
  BY <1>5, PlainFlush, TriggerType
<1>7. (\E i \in DOMAIN sent : sent[i].reliable /\ ~sent[i].empty) => t(q).running
  <2>1. SUFFICES ASSUME NEW i \in DOMAIN sent, sent[i].reliable, ~sent[i].empty
                 PROVE  t(q).running
    OBVIOUS
  <2>2. Reliable # {}
    BY <2>1 DEF Reliable
  <2>3. q # {}
    BY <2>2 DEF RaisedSets
  <2>4. trigger.running
    BY <2>1, PlainFlush
  <2>5. Fired(trigger).running = trigger.running
    BY <1>5 DEF Fired, Trigger
  <2>6. QED
    BY <2>3, <2>4, <2>5
<1>8. /\ UNCHANGED <<connection, stageAck, generation, life, reported>>
      /\ state' = state /\ connectedSize' = connectedSize /\ created' = created
  BY DEF ManageRaise
<1>9. closed \in BOOLEAN /\ (closed <=> state' = "CLOSED") /\ FALSE \in BOOLEAN
  BY <1>8
<1>10. last(q) => lastWriter /\ RaisedChunks(e) = <<>> /\ r(q) = run
  BY <1>4
<1> HIDE DEF closed, r, t, last
<1>11. Band(wire \o RaisedChunks(e), r(q), last(q))
  <2>1. Band(wire, run, lastWriter)
    BY DEF WInv
  <2>2. QED
    BY <1>3, <1>4, <1>6, <1>10, <2>1, PlainFlush, AgainKeeps
<1>12. Follow(messages, wire \o RaisedChunks(e))
  BY <1>11, QueueFollows
<1>13. created <= created' /\ \A k \in DOMAIN messages : messages[k].name < created'
  BY <1>8, PlainFlush
<1>14. ~Critical => /\ connectedSize' = -1 /\ state' # "CONNECTING"
                    /\ state = "CLOSED" => messages = <<>> /\ state' = "CLOSED"
                    /\ (state' = "CLOSED" /\ messages # <<>>) => messages[Len(messages)].empty
                    /\ (state' = "CLOSED" /\ messages = <<>> /\ stage > 0) => state = "CLOSED"
  BY <1>8 DEF WInv, Plain
<1>15. messages \in Seq(Message)
  BY PlainFlush
<1>16. QED
  BY <1>2, <1>3, <1>6, <1>7, <1>8, <1>9, <1>11, <1>12, <1>13, <1>14, <1>15, FlushWInv

\* Every step of the writer keeps the invariant.
LEMMA NextWInv == WInv /\ [Next]_vars => WInv'
<1> SUFFICES ASSUME WInv, [Next]_vars PROVE WInv'
  OBVIOUS
<1>0. IInv'
  BY NextIInv DEF WInv
<1>1. ASSUME NEW r \in Reliabilities, Write(r) \/ Close(r) \/ Rejection(r)
      PROVE  WInv'
  <2>1. CASE Write(r)
    BY <1>0, <2>1, WriteWInv
  <2>2. CASE Close(r)
    BY <1>0, <2>2, CloseWInv
  <2>3. CASE Rejection(r)
    BY <1>0, <2>3, RenewWInv, WriterAssumption DEF Rejection
  <2>4. QED
    BY <1>1, <2>1, <2>2, <2>3
<1>2. CASE WriteRaw
  BY <1>0, <1>2, WriteRawWInv
<1>3. ASSUME NEW full \in BOOLEAN, Flush(full) PROVE WInv'
  BY <1>0, <1>3, FlushCallWInv
<1>4. CASE StartConnection
  BY <1>0, <1>4, StartWInv
<1>5. ASSUME NEW minimal \in BOOLEAN, FinishConnection(minimal) PROVE WInv'
  BY <1>0, <1>5, FinishWInv
<1>6. CASE Acknowledgment
  <2>1. PICK a \in Acknowledgments, ack \in 0 .. (stage + 1) :
             IsNewAck(a, ack) /\ Acknowledge(a, ack)
    BY <1>6 DEF Acknowledgment
  <2>2. ack \in stageAck .. stage
    BY <2>1, NewAckInWindow DEF WInv
  <2>3. UNCHANGED <<state, connection, connectedSize, messages, stage, generation, life,
                    created, closeCalled>>
    BY <1>6 DEF Acknowledgment
  <2>4. QED
    BY <1>0, <2>1, <2>2, <2>3, AcknowledgeWInv
<1>7. CASE Manage
  <2>1. Usable
    BY <1>7 DEF Manage
  <2>2. ASSUME NEW elapsed \in BOOLEAN, ManageQuiet(elapsed) PROVE WInv'
    BY <1>0, <2>1, <2>2, QuietWInv
  <2>3. ASSUME NEW elapsed \in BOOLEAN, ManageRaise(elapsed) PROVE WInv'
    BY <1>0, <2>1, <2>3, RaiseWInv
  <2>4. ASSUME NEW elapsed \in BOOLEAN, NEW r \in Reliabilities, ManageFail(elapsed, r)
        PROVE  WInv'
    BY <1>0, <2>1, <2>4, RenewWInv, WriterAssumption DEF ManageFail
  <2>5. CASE ManageConsumed
    BY <1>0, <2>5, ConsumedWInv
  <2>6. QED
    BY <1>7, <2>2, <2>3, <2>4, <2>5 DEF Manage
<1>8. CASE BandAdvance
  BY <1>0, <1>8, AdvanceWInv
<1>9. CASE UNCHANGED vars
  BY <1>0, <1>9, StutterWInv
<1>10. QED
  BY <1>1, <1>2, <1>3, <1>4, <1>5, <1>6, <1>7, <1>8, <1>9 DEF Next
-----------------------------------------------------------------------------
(* What the invariant says of the band and of the peer                     *)

\* Two chunks of the band, in either order.
LEMMA EitherOrder ==
    ASSUME WInv
    PROVE  StageNamesFragment /\ UnreliableOnce
<1>1. Pairs(wire)
  BY DEF WInv, Band
<1>2. wire \in Seq(Chunk) /\ DOMAIN wire \subseteq Int
  BY DEF WInv, Band
<1>3. StageNamesFragment
  <2> SUFFICES ASSUME NEW i \in DOMAIN wire, NEW j \in DOMAIN wire,
                      wire[i].generation = 0, wire[j].generation = 0,
                      wire[i].stage = wire[j].stage
               PROVE  /\ wire[i].message = wire[j].message
                      /\ wire[i].before = wire[j].before
                      /\ wire[i].after = wire[j].after
    BY DEF StageNamesFragment
  <2>1. CASE i < j
    BY <1>1, <2>1 DEF Pairs, Consistent
  <2>2. CASE j < i
    BY <1>1, <2>2 DEF Pairs, Consistent
  <2>3. CASE i = j
    BY <2>3
  <2>4. QED
    BY <1>2, <2>1, <2>2, <2>3
<1>4. UnreliableOnce
  BY <1>1 DEF Pairs, Consistent, UnreliableOnce
<1>5. QED
  BY <1>3, <1>4

\* Everything the band is asked is in the invariant.
LEMMA WInvWellFormed == WInv => WireWellFormed
<1> SUFFICES ASSUME WInv PROVE WireWellFormed
  OBVIOUS
<1>1. StageNamesFragment /\ UnreliableOnce
  BY EitherOrder
<1>2. HeaderlessFollows
  BY DEF WInv, Band, Headed, HeaderlessFollows
<1>3. EndIsLast
  <2> SUFFICES ASSUME ~Critical, NEW i \in DOMAIN wire, NEW j \in DOMAIN wire,
                      wire[i].end, wire[j].generation = wire[i].generation
               PROVE  wire[j].stage <= wire[i].stage
    BY DEF EndIsLast
  <2>1. EndPairs(wire) /\ wire \in Seq(Chunk) /\ DOMAIN wire \subseteq Int
    BY DEF WInv, Band
  <2>2. CASE i < j
    BY <2>1, <2>2 DEF EndPairs, EndsLater
  <2>3. CASE j < i
    BY <2>1, <2>3 DEF EndPairs, EndsLater
  <2>4. CASE i = j
    <3>1. wire[i] \in Chunk
      BY <2>1
    <3>2. wire[i].stage \in Nat
      BY <3>1 DEF Chunk
    <3>3. QED
      BY <2>4, <3>2
  <2>5. QED
    BY <2>1, <2>2, <2>3, <2>4
<1>4. QED
  BY <1>1, <1>2, <1>3 DEF WireWellFormed

\* And so is everything the writer believes.
LEMMA WInvAccounts == WInv => AccountsRight
<1> SUFFICES ASSUME WInv PROVE AccountsRight
  OBVIOUS
<1>1. AckedWasReported
  BY DEF WInv, Band, Sound, Acked, ChunksOf, AckedWasReported
<1>2. EndAnnounced
  BY DEF WInv, Plain, Announced, ChunksOf, EndAnnounced
<1>3. QED
  BY <1>1, <1>2 DEF WInv, AccountsRight

\* In every behaviour what the writer puts on the band reads as RFC 7016 wants
\* it: repeats under the first identifier carry the fragment their stage named
\* first, a chunk without a header comes right after the one it continues,
\* unreliable data is written once, and no stage comes after an announced end.
THEOREM WireCorrect == Spec => []WireWellFormed
<1>1. QED
  BY InitWInv, NextWInv, WInvWellFormed, PTL DEF Spec

\* In every behaviour the writer's accounts are right: it passes over reliable
\* data only when the peer reported it, counts what is left to repeat, keeps the
\* trigger running for it, and is not dropped before its end was announced.
THEOREM AccountsCorrect == Spec => []AccountsRight
<1>1. QED
  BY InitWInv, NextWInv, WInvAccounts, PTL DEF Spec
=============================================================================
