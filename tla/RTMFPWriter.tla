----------------------------- MODULE RTMFPWriter -----------------------------
(***************************************************************************)
(* One RTMFPWriter: the sending half of an RTMFP flow.  A writer queues    *)
(* messages, cuts them into fragments that it numbers with consecutive     *)
(* stages, keeps what the peer has not acknowledged, repeats the reliable  *)
(* part of it, and takes a new identifier when the peer rejects it.        *)
(*                                                                         *)
(* The peer and the network are this module's environment: an              *)
(* acknowledgment carries any contents, so the properties hold whatever    *)
(* the network loses, duplicates or reorders.                              *)
(*                                                                         *)
(* _messagesSent is kept flat, as the sequence of its fragments.  The code *)
(* keeps no stage in a fragment: it recounts from _stageAck + 1 each time  *)
(* it walks the list, so the i-th fragment is taken for stage              *)
(* stageAck + i.                                                           *)
(***************************************************************************)
EXTENDS Integers, Sequences, FiniteSets

CONSTANTS
    GiveUp,         \* the cycle at which Trigger::raise reports a failure
    Connections,    \* "before" for the writer of the NetConnection flow, "none" for another
    Reliabilities,  \* the values the application gives to 'reliable'
    MaxMessages,    \* bound: messages created by the application and by close
    MaxSplit,       \* bound: cuts made by one flush
    MaxStage,       \* bound: stages numbered in one generation
    MaxWire,        \* bound: chunks written to the band
    MaxGenerations  \* bound: identifiers taken, by another than the main writer

ASSUME WriterAssumption ==
    /\ GiveUp \in Nat \ {0}
    /\ Connections \subseteq {"none", "before"}
    /\ Reliabilities \in SUBSET BOOLEAN
    /\ {MaxMessages, MaxSplit, MaxStage, MaxWire, MaxGenerations} \subseteq Nat

VARIABLES
    state,          \* Writer::_state
    connection,     \* of the main writer: Peer::onConnection, which runs the application
    connectedSize,  \* _connectedSize
    messages,       \* _messages
    sent,           \* _messagesSent, fragment by fragment
    stage,          \* _stage
    stageAck,       \* _stageAck
    repeatable,     \* _repeatable
    trigger,        \* _trigger
    generation,     \* which identifier (RTMFPWriter::id) the object has now
    life,           \* the session's view: "managed", "erased", "sessionFailed"
    run,            \* the stretch of the current packet no other chunk interrupts
    lastWriter,     \* RTMFPSession::_pLastWriter is this writer
    wire,           \* every chunk written to the band, in order
    created,        \* messages created so far; the next message's name
    reported,       \* history: stages of this generation reported received
    closeCalled     \* history: close() was called on the open writer

windowVars == <<messages, sent, stage, stageAck, repeatable, trigger>>
bandVars == <<run, lastWriter, wire>>
vars == <<state, connection, connectedSize, messages, sent, stage, stageAck,
          repeatable, trigger, generation, life, run, lastWriter, wire, created,
          reported, closeCalled>>

Message == [name: Nat, reliable: BOOLEAN, empty: BOOLEAN]

Fragment == [message: Nat, reliable: BOOLEAN, empty: BOOLEAN,
             before: BOOLEAN, after: BOOLEAN, sentAt: Nat]

\* A chunk as written: head tells 0x10 (which carries identifier, stage and
\* stage - stageAck) from 0x11 (which carries none of them).
Chunk == [generation: Nat, stage: Nat, floor: Nat, head: BOOLEAN, run: Nat,
          message: Nat, reliable: BOOLEAN, empty: BOOLEAN,
          before: BOOLEAN, after: BOOLEAN, end: BOOLEAN]

Trigger == [running: BOOLEAN, cycle: 0..GiveUp, time: 1..GiveUp]

\* The writer of the NetConnection flow, without which the session ends.
Critical == connection # "none"

-----------------------------------------------------------------------------
(* Trigger: when unacknowledged reliable data is repeated.  Here and below  *)
(* a definition may be preceded by a variant of it that has one slip.      *)

Started(t) == IF t.running THEN t ELSE [running |-> TRUE, cycle |-> 0, time |-> 1]

Stopped(t) == [t EXCEPT !.running = FALSE]

Rearmed(t) == [t EXCEPT !.cycle = 0, !.time = 1]

\* 'elapsed': a second has passed since the last reset.
Waits(t, elapsed) == ~t.running \/ (t.time = 1 /\ ~elapsed)

Ticks(t) == [t EXCEPT !.time = @ + 1]

Fires(t) == t.time + 1 >= t.cycle

FiredTimeless(t) == [t EXCEPT !.time = 0, !.cycle = @ + 1]

Fired(t) == [t EXCEPT !.time = 1, !.cycle = @ + 1]

-----------------------------------------------------------------------------
(* Chunks                                                                  *)

\* What flush(BinaryWriter&, ...) writes for fragment fr numbered st.
ChunkOf(fr, st, ack, head, r, end) ==
    [generation |-> generation, stage |-> st, floor |-> ack, head |-> head,
     run |-> r, message |-> fr.message, reliable |-> fr.reliable,
     empty |-> fr.empty, before |-> fr.before, after |-> fr.after, end |-> end]

\* The increasing enumerations of the finite set S.
Ascending(S) ==
    {e \in [1..Cardinality(S) -> S] : \A i, j \in DOMAIN e : i < j => e[i] < e[j]}

\* The runs opened up to the i-th of a list of chunks, a cut opening one.
RunsUpTo(cuts, i) == Cardinality({c \in cuts : c <= i})

-----------------------------------------------------------------------------
(* flush: number, fragment and write every queued message                  *)

\* The ways to cut the queue q into fragments: f[i] is the message the i-th
\* fragment belongs to.  An empty message has one fragment.
Fragmentations(q) ==
    UNION {{f \in [1..n -> DOMAIN q] :
              /\ \A m \in DOMAIN q : \E i \in 1..n : f[i] = m
              /\ \A i, j \in 1..n : i < j =>
                    f[i] <= f[j] /\ (f[i] = f[j] => ~q[f[i]].empty)}
           : n \in Len(q)..(Len(q) + MaxSplit)}

Fresh(q, f, base) ==
    [i \in DOMAIN f |->
        [message |-> q[f[i]].name, reliable |-> q[f[i]].reliable,
         empty |-> q[f[i]].empty,
         before |-> i > 1 /\ f[i - 1] = f[i],
         after |-> i < Len(f) /\ f[i + 1] = f[i],
         sentAt |-> base + i]]

\* A fragment with an after part fills its packet, so a cut follows it.
CutsOf(f) ==
    {cuts \in SUBSET DOMAIN f :
        \A i \in DOMAIN f : (i > 1 /\ f[i - 1] = f[i]) => i \in cuts}

\* flags |= MESSAGE_END on the last message of a closed writer.
IsLast(q, m) == m = Len(q)

\* flush(full) on queue q, after the chunks 'pre' of the same call have been
\* written up to run r.  'last' is canWriteFollowing, t the trigger, and
\* 'closed' whether the writer's state is CLOSED by now.
FlushQueue(q, pre, r, last, t, closed, full) ==
    \E f \in Fragmentations(q) : \E cuts \in CutsOf(f) :
        LET fresh == Fresh(q, f, stage)
            head(i) == (i = 1 /\ ~last) \/ i \in cuts
        IN  /\ messages' = <<>>
            /\ stage' = stage + Len(f)
            /\ sent' = sent \o fresh
            /\ repeatable' = repeatable
                             + Cardinality({m \in DOMAIN q : q[m].reliable})
            /\ trigger' = IF \E m \in DOMAIN q : q[m].reliable THEN Started(t) ELSE t
            /\ wire' = wire \o pre \o
                  [i \in DOMAIN f |->
                     ChunkOf(fresh[i], stage + i, stageAck, head(i),
                             r + RunsUpTo(cuts, i), closed /\ IsLast(q, f[i]))]
            /\ run' = r + Cardinality(cuts) + (IF full THEN 1 ELSE 0)
            /\ lastWriter' = (~full /\ (last \/ f # <<>>))
            /\ stage' <= MaxStage
            /\ Len(wire') <= MaxWire

-----------------------------------------------------------------------------
(* The application's calls                                                 *)

Usable == life = "managed"

NewMessage(r, empty) == [name |-> created, reliable |-> r, empty |-> empty]

\* createBufferedMessage on behalf of write, writeMember and buffered writeRaw.
Write(r) ==
    /\ Usable
    /\ state # "CLOSED"
    /\ created < MaxMessages
    /\ messages' = Append(messages, NewMessage(r, FALSE))
    /\ created' = created + 1
    /\ UNCHANGED <<state, connection, connectedSize, sent, stage, stageAck,
                   repeatable, trigger, generation, life, run, lastWriter, wire,
                   reported, closeCalled>>

\* writeRaw on an unreliable writer: an unbuffered message, flushed at once.
WriteRaw ==
    /\ Usable
    /\ FALSE \in Reliabilities
    /\ state = "CONNECTED"
    /\ created < MaxMessages
    /\ created' = created + 1
    /\ FlushQueue(Append(messages, NewMessage(FALSE, FALSE)), <<>>, run,
                  lastWriter, trigger, FALSE, FALSE)
    /\ UNCHANGED <<state, connection, connectedSize, stageAck, generation, life,
                   reported, closeCalled>>

\* flush(full), called by listeners, by a flow's commit and by scripts.
Flush(full) ==
    /\ Usable
    /\ state # "CONNECTING"
    /\ messages # <<>>
    /\ FlushQueue(messages, <<>>, run, lastWriter, trigger, state = "CLOSED", full)
    /\ UNCHANGED <<state, connection, connectedSize, stageAck, generation, life,
                   created, reported, closeCalled>>

HasReceiver == stage > 0 \/ connectedSize > 0 \/ messages # <<>>

\* close: an empty last message if the receiver exists or will, then
\* state(CLOSED), which drops what was queued since CONNECTING, then flush.
Close(r) ==
    /\ Usable
    /\ state # "CLOSED"
    /\ LET queue == IF HasReceiver THEN Append(messages, NewMessage(r, TRUE)) ELSE messages
           kept == IF connectedSize >= 0 /\ connectedSize < Len(queue)
                   THEN SubSeq(queue, 1, connectedSize) ELSE queue
       IN  /\ HasReceiver => created < MaxMessages
           /\ created' = IF HasReceiver THEN created + 1 ELSE created
           /\ FlushQueue(kept, <<>>, run, lastWriter, trigger, TRUE, FALSE)
    /\ state' = "CLOSED"
    /\ connectedSize' = -1
    /\ closeCalled' = TRUE
    /\ UNCHANGED <<connection, stageAck, generation, life, reported>>

\* Peer::onConnection before and after the application's handler.
StartConnection ==
    /\ Usable
    /\ connection = "before"
    /\ state' = "CONNECTING"
    /\ connection' = "running"
    /\ connectedSize' = Len(messages)
    /\ UNCHANGED <<windowVars, generation, life, bandVars, created, reported,
                   closeCalled>>

\* 'minimal': the connection was refused.
FinishConnection(minimal) ==
    /\ connection = "running"
    /\ state' = "CONNECTED"
    /\ connection' = "after"
    /\ messages' = IF minimal /\ connectedSize >= 0 /\ connectedSize < Len(messages)
                   THEN SubSeq(messages, 1, connectedSize) ELSE messages
    /\ connectedSize' = -1
    /\ UNCHANGED <<sent, stage, stageAck, repeatable, trigger, generation, life,
                   bandVars, created, reported, closeCalled>>

-----------------------------------------------------------------------------
(* fail: give the identifier up to a closed copy and start again           *)

\* clear() deletes both lists, then flushes an abandonment if the receiver
\* may exist; the object goes on under a new identifier from stage 0.
Renew(r) ==
    /\ ~Critical /\ generation < MaxGenerations
    /\ messages' = <<>>
    /\ IF stage > 0
       THEN \E cut \in BOOLEAN :
              LET abandonment == [message |-> created, reliable |-> r,
                                  empty |-> TRUE, before |-> FALSE,
                                  after |-> FALSE, sentAt |-> stage + 1]
              IN  /\ created' = created + 1
                  /\ sent' = <<abandonment>>
                  /\ repeatable' = IF r THEN 1 ELSE 0
                  /\ trigger' = Stopped(IF r THEN Started(trigger) ELSE trigger)
                  /\ run' = IF cut THEN run + 1 ELSE run
                  /\ lastWriter' = TRUE
                  /\ wire' = Append(wire, ChunkOf(abandonment, stage + 1, stageAck,
                                                  cut \/ ~lastWriter, run', FALSE))
       ELSE /\ sent' = <<>>
            /\ repeatable' = 0
            /\ UNCHANGED <<trigger, bandVars, created>>
    /\ Len(wire') <= MaxWire
    /\ stage' = 0
    /\ stageAck' = 0
    /\ generation' = generation + 1
    /\ reported' = {}
    /\ UNCHANGED <<state, connection, connectedSize, life, closeCalled>>

-----------------------------------------------------------------------------
(* acknowledgment                                                          *)

\* The peer received every stage up to cum, and the stages in recv after a gap.
Acknowledgments ==
    UNION {[cum: {c}, recv: SUBSET ((c + 2)..(stage + 1))] : c \in 0..(stage + 1)}

\* The stages after 'ack' reported missing below one reported received.
Lost(a, ack) ==
    {s \in (ack + 1)..stage : /\ s > a.cum /\ s \notin a.recv
                              /\ \E x \in a.recv : s < x}

\* _stageAck after the cumulative part: clamped to what was sent, never back.
CumulativeUnclamped(a) == IF a.cum <= stageAck THEN stageAck ELSE a.cum

Cumulative(a) ==
    IF a.cum > stage THEN stage ELSE IF a.cum <= stageAck THEN stageAck ELSE a.cum

\* The fragment the walk of _messagesSent takes for stage s.
FragmentAt(s) == sent[s - stageAck]

LostReliable(a) == {s \in Lost(a, Cumulative(a)) : FragmentAt(s).reliable}

\* _stageAck after the walk: past every loss when none of them can be
\* repeated, up to the first repeatable loss otherwise.
IsNewAckSkipping(a, ack) ==
    LET lost == Lost(a, Cumulative(a))
    IN  IF lost # {} THEN ack \in lost /\ \A s \in lost : s <= ack
        ELSE ack = Cumulative(a)

IsNewAck(a, ack) ==
    LET lost == Lost(a, Cumulative(a))
        reliable == LostReliable(a)
    IN  IF reliable # {} THEN ack + 1 \in reliable /\ \A s \in reliable : ack < s
        ELSE IF lost # {} THEN ack \in lost /\ \A s \in lost : s <= ack
        ELSE ack = Cumulative(a)

\* Repeated now: not before the peer has seen what followed the last repeat.
Resent(a) == {s \in LostReliable(a) : \E x \in a.recv : FragmentAt(s).sentAt < x}

\* The reliable messages whose last fragment is among the first d.
Completed(d) ==
    Cardinality({i \in DOMAIN sent : i <= d /\ sent[i].reliable /\ ~sent[i].after})

Acknowledge(a, ack) ==
    LET dropped == ack - stageAck
        resent == Resent(a)
    IN  \E e \in Ascending(resent) : \E cuts \in SUBSET DOMAIN e :
          LET head(i) == i = 1 \/ e[i] # e[i - 1] + 1 \/ i \in cuts
          IN  /\ stageAck' = ack
              /\ sent' = [i \in 1..(Len(sent) - dropped) |->
                            IF i + ack \in resent
                            THEN [sent[i + dropped] EXCEPT !.sentAt = stage]
                            ELSE sent[i + dropped]]
              /\ repeatable' = repeatable - Completed(dropped)
              /\ trigger' = IF repeatable' = 0 THEN Stopped(trigger)
                            ELSE IF ack > stageAck \/ LostReliable(a) # {}
                            THEN Rearmed(trigger) ELSE trigger
              /\ wire' = wire \o
                    [i \in DOMAIN e |->
                       ChunkOf(FragmentAt(e[i]), e[i], ack, head(i),
                               run + RunsUpTo(cuts, i),
                               state = "CLOSED" /\ Len(messages) = 1)]
              /\ run' = run + Cardinality(cuts)
              /\ lastWriter' = (lastWriter /\ e = <<>>)
              /\ Len(wire') <= MaxWire
              /\ reported' = reported \cup {s \in 1..stage : s <= a.cum \/ s \in a.recv}

Acknowledgment ==
    /\ Usable /\ connection # "running"
    /\ \E a \in Acknowledgments : \E ack \in 0..(stage + 1) :
          IsNewAck(a, ack) /\ Acknowledge(a, ack)
    /\ UNCHANGED <<state, connection, connectedSize, messages, stage, generation,
                   life, created, closeCalled>>

\* A negative acknowledgment (bufferSize 0) or a 0x5e rejection: fail().
Rejection(r) ==
    /\ Usable /\ connection # "running"
    /\ state # "CLOSED"
    /\ Renew(r)

-----------------------------------------------------------------------------
(* manage: the session's periodic visit                                    *)

Consumed == messages = <<>> /\ state = "CLOSED"

Reliable == {i \in DOMAIN sent : sent[i].reliable}

\* raiseMessage writes, in one fresh packet, as many of the reliable fragments
\* as fit, from the oldest.
RaisedSets ==
    {q \in SUBSET Reliable : /\ q = {} <=> Reliable = {}
                             /\ \A i \in q, j \in Reliable : j < i => j \in q}

RaisedChunks(e) ==
    [i \in DOMAIN e |->
       ChunkOf(sent[e[i]], stageAck + e[i], stageAck,
               i = 1 \/ e[i] # e[i - 1] + 1, run + 1,
               state = "CLOSED" /\ Len(messages) = 1)]

\* The trigger stays quiet, and the queue is flushed.
ManageQuiet(elapsed) ==
    /\ ~Consumed
    /\ Waits(trigger, elapsed) \/ ~Fires(trigger)
    /\ FlushQueue(messages, <<>>, run, lastWriter,
                  IF Waits(trigger, elapsed) THEN trigger ELSE Ticks(trigger),
                  state = "CLOSED", FALSE)
    /\ UNCHANGED <<state, connection, connectedSize, stageAck, generation, life,
                   created, reported, closeCalled>>

\* The trigger fires: unacknowledged reliable data is repeated, then the queue
\* is flushed.
ManageRaise(elapsed) ==
    /\ ~Consumed
    /\ ~Waits(trigger, elapsed) /\ Fires(trigger)
    /\ trigger.cycle + 1 < GiveUp
    /\ \E q \in RaisedSets : \E e \in Ascending(q) :
         FlushQueue(messages, RaisedChunks(e), IF q = {} THEN run ELSE run + 1,
                    lastWriter /\ q = {},
                    IF q = {} THEN Stopped(Fired(trigger)) ELSE Fired(trigger),
                    state = "CLOSED", FALSE)
    /\ UNCHANGED <<state, connection, connectedSize, stageAck, generation, life,
                   created, reported, closeCalled>>

\* The trigger gives up: "RTMFPWriter can't deliver its data".
ManageFail(elapsed, r) ==
    /\ ~Consumed
    /\ ~Waits(trigger, elapsed) /\ Fires(trigger)
    /\ trigger.cycle + 1 = GiveUp
    /\ state # "CLOSED"
    /\ Renew(r)


ManageConsumed ==
    /\ Consumed
    /\ life' = IF Critical THEN "sessionFailed" ELSE "erased"
    /\ UNCHANGED <<state, connection, connectedSize, windowVars, generation,
                   bandVars, created, reported, closeCalled>>

Manage ==
    /\ Usable /\ connection # "running"
    /\ \/ \E elapsed \in BOOLEAN :
            \/ ManageQuiet(elapsed)
            \/ ManageRaise(elapsed)
            \/ \E r \in Reliabilities : ManageFail(elapsed, r)
       \/ ManageConsumed

\* The band sends its packet, or writes a chunk of something else into it:
\* in both cases _pLastWriter is reset.
BandAdvanceKept ==
    /\ wire # <<>> /\ wire[Len(wire)].run = run
    /\ run' = run + 1
    /\ UNCHANGED <<state, connection, connectedSize, windowVars, generation, life,
                   lastWriter, wire, created, reported, closeCalled>>

BandAdvance ==
    /\ wire # <<>> /\ wire[Len(wire)].run = run
    /\ run' = run + 1
    /\ lastWriter' = FALSE
    /\ UNCHANGED <<state, connection, connectedSize, windowVars, generation, life,
                   wire, created, reported, closeCalled>>

-----------------------------------------------------------------------------
Init ==
    /\ state = "CONNECTED"
    /\ connection \in Connections
    /\ connectedSize = -1
    /\ messages = <<>>
    /\ sent = <<>>
    /\ stage = 0
    /\ stageAck = 0
    /\ repeatable = 0
    /\ trigger = [running |-> FALSE, cycle |-> 0, time |-> 1]
    /\ generation = 0
    /\ life = "managed"
    /\ run = 0
    /\ lastWriter = FALSE
    /\ wire = <<>>
    /\ created = 0
    /\ reported = {}
    /\ closeCalled = FALSE

Next ==
    \/ \E r \in Reliabilities : Write(r) \/ Close(r) \/ Rejection(r)
    \/ WriteRaw
    \/ \E full \in BOOLEAN : Flush(full)
    \/ StartConnection
    \/ \E minimal \in BOOLEAN : FinishConnection(minimal)
    \/ Acknowledgment
    \/ Manage
    \/ BandAdvance

Spec == Init /\ [][Next]_vars

\* The handler of onConnection returns and the session's manage runs every two
\* seconds (the socket manager's loop), so neither can be put off for ever.
FairSpec == Spec /\ WF_vars(\E minimal \in BOOLEAN : FinishConnection(minimal))
                 /\ WF_vars(Manage)
-----------------------------------------------------------------------------
(* Properties                                                              *)

\* Every variable keeps its type.
TypeOK ==
    /\ state \in {"CONNECTING", "CONNECTED", "CLOSED"}
    /\ connection \in {"none", "before", "running", "after"}
    /\ connectedSize \in Int
    /\ messages \in Seq(Message)
    /\ sent \in Seq(Fragment)
    /\ stage \in Nat
    /\ stageAck \in Nat
    /\ repeatable \in Int
    /\ trigger \in Trigger
    /\ generation \in Nat
    /\ life \in {"managed", "erased", "sessionFailed"}
    /\ run \in Nat
    /\ lastWriter \in BOOLEAN
    /\ wire \in Seq(Chunk)
    /\ created \in Nat
    /\ reported \in SUBSET Nat
    /\ closeCalled \in BOOLEAN

\* The list of sent fragments covers the stages after stageAck up to stage, so
\* the recount done by acknowledgment and raiseMessage never runs off its end;
\* under the first identifier it covers exactly those.
WindowAligned ==
    /\ stageAck <= stage
    /\ Len(sent) >= stage - stageAck
    /\ generation = 0 => Len(sent) = stage - stageAck

\* Under the first identifier a stage always names the same fragment, however
\* often acknowledgment and raiseMessage repeat it from their recount.
StageNamesFragment ==
    \A i, j \in DOMAIN wire :
        (wire[i].generation = 0 /\ wire[j].generation = 0 /\ wire[i].stage = wire[j].stage)
        => /\ wire[i].message = wire[j].message
           /\ wire[i].before = wire[j].before
           /\ wire[i].after = wire[j].after

Follows(c, d) ==
    d.run = c.run /\ d.generation = c.generation /\ d.stage = c.stage + 1

\* A headerless chunk (0x11) after the first stage comes right after the
\* chunk of the previous stage in the same packet: the receiver, which counts
\* from there, gives it its own stage.
HeaderlessFollows ==
    \A i \in DOMAIN wire :
        (~wire[i].head /\ wire[i].stage > 1) => i > 1 /\ Follows(wire[i - 1], wire[i])

\* Reliable data that is not acknowledged keeps the repeat trigger running.
RepeatArmed ==
    (\E i \in DOMAIN sent : sent[i].reliable /\ ~sent[i].empty) => trigger.running

\* _repeatable counts the reliable messages of _messagesSent: when it says 0
\* and the trigger is stopped, nothing is left to repeat.
RepeatableCounts ==
    repeatable = Cardinality({i \in DOMAIN sent : sent[i].reliable /\ ~sent[i].after})

\* An unreliable fragment is written once: its message may be unbuffered, a
\* pointer into a caller's buffer that no longer holds it.
UnreliableOnce ==
    \A i, j \in DOMAIN wire :
        (i < j /\ ~wire[i].reliable /\ wire[i].message = wire[j].message)
        => wire[i].stage < wire[j].stage

\* stageAck passes over a reliable stage only when the peer reported it
\* received: what is lost and reliable stays in the window.
AckedWasReported ==
    generation = 0 =>
        \A i \in DOMAIN wire :
            (wire[i].reliable /\ wire[i].stage <= stageAck) => wire[i].stage \in reported

\* A writer that is not the main one never numbers a stage after the one it
\* flagged MESSAGE_END, where the receiver stops listening.
EndIsLast ==
    ~Critical => \A i, j \in DOMAIN wire :
        (wire[i].end /\ wire[j].generation = wire[i].generation)
        => wire[j].stage <= wire[i].stage

\* A writer is dropped only after its receiver, if it may exist, was sent a
\* MESSAGE_END.
EndAnnounced ==
    (life = "erased" /\ stage > 0) =>
        \E i \in DOMAIN wire : wire[i].end /\ wire[i].generation = generation

\* What is written to the band reads as RFC 7016 wants it, whatever was lost,
\* repeated and renewed meanwhile.
WireWellFormed == StageNamesFragment /\ HeaderlessFollows /\ UnreliableOnce /\ EndIsLast

\* What the writer believes of the peer is what the peer said, and what must be
\* repeated will be, as long as the writer is kept: nothing reliable passes for
\* received, and the end is announced.  A closed writer that has nothing to flush
\* is dropped with what it would have repeated (RTMFPWriter.h:73).
AccountsRight == AckedWasReported /\ RepeatableCounts /\ RepeatArmed /\ EndAnnounced


(* What documentation and comments say, and the code does not do           *)

\* RTMFPWriter.cpp:76, "Send a MESSAGE_ABANDONMENT just in the case where the
\* receiver has been created": under its identifier an abandonment comes after
\* an earlier stage, the one that created the receiver.
AbandonmentAfterCreation ==
    \A i \in DOMAIN wire : wire[i].empty =>
        \E j \in 1..(i - 1) : /\ wire[j].generation = wire[i].generation
                              /\ wire[j].stage < wire[i].stage
=============================================================================
