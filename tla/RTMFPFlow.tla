------------------------------ MODULE RTMFPFlow ------------------------------
(***************************************************************************)
(* One RTMFPFlow: the receiving half of an RTMFP flow, with the part of    *)
(* RTMFPSession::packetHandler that creates it, feeds it, commits it and   *)
(* deletes it.  The receiver takes fragments in the order of their stages, *)
(* buffers those that come early, skips those that the sender gave up,     *)
(* assembles messages, and acknowledges with the stage it has reached and  *)
(* the holes in its buffer.                                                *)
(*                                                                         *)
(* A request is a 0x10 chunk with the 0x11 chunks that follow it: what the *)
(* session handles between two commits.  The network delivers requests any *)
(* number of times and in any order.                                       *)
(***************************************************************************)
EXTENDS Integers, Sequences, FiniteSets, FiniteSetsExt

CONSTANTS
    BufferLimit,  \* 0x3F00, the fragments of a message held before it is refused
    MaxStage,     \* bound: stages of the sender
    MaxFlows      \* bound: times the session creates the flow

ASSUME FlowAssumption ==
    /\ BufferLimit \in Nat \ {0}
    /\ {MaxStage, MaxFlows} \subseteq Nat

VARIABLES
    flow,     \* the session's flow of this identifier: its state, and history
    past,     \* history: what its deleted incarnations delivered, one by one
    request,  \* packetHandler's pFlow, stage and stage - deltaNAck
    ack,      \* the last reply of a commit
    plan      \* the fragment that the sender numbers with each stage

vars == <<flow, past, request, ack, plan>>

\* A fragment, by the message it belongs to.  'empty' is MESSAGE_ABANDONMENT.
Fragment == [message: Nat, before: BOOLEAN, after: BOOLEAN, empty: BOOLEAN, end: BOOLEAN]

Part == [stage: Nat, message: Nat, before: BOOLEAN, after: BOOLEAN,
         empty: BOOLEAN, end: BOOLEAN]

\* floor is stage - deltaNAck: what the sender needs no acknowledgment below.
\* header is MESSAGE_HEADER: the chunk carries the signature of its flow.
Chunk == [stage: Nat, floor: Nat, header: BOOLEAN, message: Nat, before: BOOLEAN,
          after: BOOLEAN, empty: BOOLEAN, end: BOOLEAN]

PartOf(c) == [stage |-> c.stage, message |-> c.message, before |-> c.before,
              after |-> c.after, empty |-> c.empty, end |-> c.end]

\* open: the session knows the flow.  skipped, arrived and delivered are
\* history: whether it ever passed over a missing stage on the sender's word,
\* the stages received, and the messages handed to the stream.
NewFlow ==
    [open |-> TRUE, stage |-> 0, fragments |-> <<>>, packet |-> <<>>, lost |-> 0,
     completed |-> FALSE, skipped |-> FALSE, arrived |-> {}, delivered |-> <<>>]

\* pFlow: NULL, the flow of the identifier, or FlowNull.
Request == [pFlow: {"NULL", "flow", "FlowNull"}, stage: Nat, floor: Nat]

NoFlow == [NewFlow EXCEPT !.open = FALSE]

-----------------------------------------------------------------------------
(* fragmentSortedHandler: the next fragment in the order of stages.  Here   *)
(* and below a definition may be preceded by a variant with one slip.      *)

\* Hand 'parts' to the stream, with the count of fragments lost before them.
Processed(f, parts, lost) ==
    [f EXCEPT !.packet = <<>>, !.lost = 0,
              !.delivered = Append(@, [parts |-> parts, lost |-> lost])]

\* A hole in the stages keeps the fragments held for the message it breaks.
SortedHandlerHolding(f, p) ==
    LET lost == f.lost + p.stage - f.stage - 1
        reached == [f EXCEPT !.stage = p.stage, !.lost = lost]
    IN  CASE p.empty -> [reached EXCEPT !.packet = <<>>]
          [] p.before /\ ~p.empty /\ f.packet = <<>> -> [reached EXCEPT !.lost = lost + 1]
          [] p.before /\ ~p.empty /\ f.packet # <<>> /\ p.after ->
                [reached EXCEPT !.packet = Append(f.packet, p)]
          [] p.before /\ ~p.empty /\ f.packet # <<>> /\ ~p.after ->
                Processed(reached, Append(f.packet, p), lost)
          [] ~p.before /\ ~p.empty /\ p.after ->
                [reached EXCEPT !.packet = <<p>>, !.lost = lost + Len(f.packet)]
          [] ~p.before /\ ~p.empty /\ ~p.after -> Processed(reached, <<p>>, lost)

\* A message that comes whole releases the fragments held, uncounted.
SortedHandler(f, p) ==
    LET missed == p.stage - f.stage - 1
        held == IF missed > 0 THEN <<>> ELSE f.packet
        lost == f.lost + missed
        reached == [f EXCEPT !.stage = p.stage, !.packet = held, !.lost = lost]
        orphan == p.before /\ held = <<>> /\ (missed > 0 \/ ~p.empty)
    IN  IF p.stage <= f.stage THEN f
        ELSE CASE orphan -> [reached EXCEPT !.lost = lost + 1]
               [] ~orphan /\ p.empty -> [reached EXCEPT !.packet = <<>>]
               [] ~orphan /\ ~p.empty /\ p.after ->
                     IF p.before THEN [reached EXCEPT !.packet = Append(held, p)]
                     ELSE [reached EXCEPT !.packet = <<p>>, !.lost = lost + Len(held)]
               [] ~orphan /\ ~p.empty /\ ~p.after ->
                     Processed(reached, IF p.before THEN Append(held, p) ELSE <<p>>, lost)

-----------------------------------------------------------------------------
(* fragmentHandler: a chunk as it arrives                                  *)

\* The sender gave up a stage this flow is still waiting for.
Skips(f, c) == f.stage < c.floor

\* On a skip every buffered stage up to the chunk's own is taken, with its holes.
Left(f, c) ==
    {s \in DOMAIN f.fragments : Skips(f, c) /\ s <= c.stage}

InTurn(f, c) == Skips(f, c) \/ c.stage = f.stage + 1

Following(f, c) ==
    {s \in DOMAIN f.fragments : s > c.stage /\ (c.stage + 1)..s \subseteq DOMAIN f.fragments}

Reached(f, c) == Left(f, c) \cup {c.stage} \cup Following(f, c)

PartAt(f, c, s) == IF s \in DOMAIN f.fragments THEN f.fragments[s] ELSE PartOf(c)

Ends(f, c, s) == PartAt(f, c, s).end \/ (s = c.stage /\ c.end)

\* MESSAGE_END completes the flow: what comes after it is not looked at.
Handled(f, c) == {s \in Reached(f, c) : \A e \in Reached(f, c) : Ends(f, c, e) => s <= e}

Completes(f, c) == \E s \in Handled(f, c) : Ends(f, c, s)

Missing(f, c) == \E s \in (f.stage + 1)..c.stage : s \notin f.arrived \cup {c.stage}

LateStrict(f, c) == c.stage < f.stage

Late(f, c) == c.stage <= f.stage

\* A stage that is early is buffered, once.
Buffered(f, c) ==
    [f EXCEPT !.arrived = @ \cup {c.stage},
              !.fragments = [s \in DOMAIN @ \cup {c.stage} |-> PartAt(f, c, s)]]

\* Taking the buffered fragments does not remove them.
RestKept(f, c) == IF Completes(f, c) THEN {} ELSE DOMAIN f.fragments

Rest(f, c) == IF Completes(f, c) THEN {} ELSE DOMAIN f.fragments \ Handled(f, c)

\* The flow after each stage of the walk: those handled go through
\* fragmentSortedHandler, one by one.
Walk(f, c) ==
    LET walk[s \in f.stage..Max(Handled(f, c))] ==
            IF s = f.stage THEN f
            ELSE IF s \in Handled(f, c) THEN SortedHandler(walk[s - 1], PartAt(f, c, s))
            ELSE walk[s - 1]
    IN  walk

\* Then a flow that is complete drops its buffer and the message it was
\* assembling.
Sorted(f, c) ==
    LET last == Max(Handled(f, c))
        sorted == Walk(f, c)[last]
    IN  [open |-> f.open,
         stage |-> last,
         fragments |-> [s \in Rest(f, c) |-> f.fragments[s]],
         packet |-> IF Completes(f, c) THEN <<>> ELSE sorted.packet,
         lost |-> sorted.lost,
         completed |-> Completes(f, c),
         skipped |-> f.skipped \/ Missing(f, c),
         arrived |-> f.arrived \cup {c.stage},
         delivered |-> sorted.delivered]

FragmentHandler(f, c) ==
    IF f.completed \/ Late(f, c) THEN f
    ELSE IF InTurn(f, c) THEN Sorted(f, c)
    ELSE Buffered(f, c)

-----------------------------------------------------------------------------
(* commit: the acknowledgment, and what RTMFPWriter reads from it          *)

\* One turn of commit's loop on the buffer.  'current' is the last stage
\* counted; each pair of 'losts' is of the stages missing before a stretch of
\* buffered ones, and of the stages in it, both less one.
CountedGapless(f, w, s) ==
    LET goesOn == w.losts # <<>> /\ s = w.current + 1
    IN  CASE goesOn -> [w EXCEPT !.current = s, !.losts[Len(w.losts)] = <<@[1], @[2] + 1>>]
          [] ~goesOn -> [current |-> s,
                         losts |-> Append(w.losts, <<s - f.stage - 2, 0>>)]

Counted(f, w, s) ==
    LET goesOn == w.losts # <<>> /\ s = w.current + 1
    IN  CASE goesOn -> [w EXCEPT !.current = s, !.losts[Len(w.losts)] = <<@[1], @[2] + 1>>]
          [] ~goesOn -> [current |-> s,
                         losts |-> Append(w.losts, <<s - w.current - 2, 0>>)]

Newest(f) == Max({f.stage} \cup DOMAIN f.fragments)

Counts(f) ==
    LET count[s \in 0..Newest(f)] ==
            IF s = 0 THEN [current |-> f.stage, losts |-> <<>>]
            ELSE IF s \in DOMAIN f.fragments THEN Counted(f, count[s - 1], s)
            ELSE count[s - 1]
    IN  count

Losts(f) == Counts(f)[Newest(f)].losts

\* No room left for the message being assembled: the sender is refused.
Refused(f) == Len(f.packet) >= BufferLimit

Ack(f) == [negative |-> Refused(f), cum |-> f.stage, losts |-> Losts(f)]

\* What a request on an unknown flow gets: FlowNull's answer.
RejectedAck == [negative |-> TRUE, cum |-> 0, losts |-> <<>>]

\* The stages RTMFPWriter::acknowledgment takes for received, after the first.
ReadRange(r, lost) ==
    [at |-> r.at + lost[1] + 2 + lost[2],
     received |-> r.received \cup (r.at + lost[1] + 2)..(r.at + lost[1] + 2 + lost[2])]

\* What it has read after each of them.
Read(a) ==
    LET read[i \in 0..Len(a.losts)] ==
            IF i = 0 THEN [at |-> a.cum, received |-> {}]
            ELSE ReadRange(read[i - 1], a.losts[i])
    IN  read

ReportedReceived(a) == Read(a)[Len(a.losts)].received

-----------------------------------------------------------------------------
(* RTMFPSession::packetHandler, chunk by chunk                             *)

\* A header creates the flow even when the session knows it.
NormalRequestCreating(c) ==
    /\ request.pFlow = "NULL"
    /\ LET known == flow.open \/ c.header
       IN  /\ request' = [pFlow |-> IF known THEN "flow" ELSE "FlowNull",
                          stage |-> c.stage, floor |-> c.floor]
           /\ flow' = IF known
                      THEN FragmentHandler(IF c.header THEN NewFlow ELSE flow, c)
                      ELSE flow
    /\ UNCHANGED <<past, ack>>

\* A 0x10 chunk: the flow is found, created by the chunk's header, or FlowNull.
NormalRequest(c) ==
    /\ request.pFlow = "NULL"
    /\ LET known == flow.open \/ c.header
       IN  /\ request' = [pFlow |-> IF known THEN "flow" ELSE "FlowNull",
                          stage |-> c.stage, floor |-> c.floor]
           /\ flow' = IF known
                      THEN FragmentHandler(IF flow.open THEN flow ELSE NewFlow, c)
                      ELSE flow
    /\ UNCHANGED <<past, ack>>

\* A 0x11 chunk: the next stage, with the same floor.
FollowingRequest(c) ==
    /\ request.pFlow # "NULL"
    /\ c.stage = request.stage + 1
    /\ c.floor = request.floor
    /\ request' = [request EXCEPT !.stage = c.stage]
    /\ flow' = IF request.pFlow = "flow" THEN FragmentHandler(flow, c) ELSE flow
    /\ UNCHANGED <<past, ack>>

\* No 0x11 follows: the flow is committed, and deleted when it is complete.
Commit ==
    /\ request.pFlow # "NULL"
    /\ request' = [request EXCEPT !.pFlow = "NULL"]
    /\ ack' = IF request.pFlow = "flow" THEN Ack(flow) ELSE RejectedAck
    /\ IF flow.completed
       THEN flow' = NoFlow /\ past' = Append(past, flow.delivered)
       ELSE UNCHANGED <<flow, past>>

-----------------------------------------------------------------------------
(* A sender of this protocol                                               *)

\* The message of each stage.
Numberings ==
    {n \in [1..MaxStage -> 1..MaxStage] :
        n[1] = 1 /\ \A i \in 2..MaxStage : n[i] - n[i - 1] \in 0..1}

\* 'n' gives its message to each stage, the messages in 'abandoned' have been
\* given up, and the stages in 'ended' are flagged MESSAGE_END.
PlanOf(n, abandoned, ended) ==
    [i \in 1..MaxStage |->
        [message |-> n[i],
         before |-> i > 1 /\ n[i - 1] = n[i],
         after |-> i < MaxStage /\ n[i + 1] = n[i],
         empty |-> i \in abandoned,
         end |-> i \in ended]]

\* Only a message of one fragment is sent empty.  MESSAGE_END is on no stage, on
\* the last of a message, or on all of them.
Plans ==
    UNION {LET stages(m) == {i \in 1..MaxStage : n[i] = m}
               single == {i \in 1..MaxStage : stages(n[i]) = {i}}
           IN  {PlanOf(n, abandoned, ended) :
                  abandoned \in SUBSET single,
                  ended \in {{}} \cup UNION {{{Max(stages(n[i]))}, stages(n[i])} : i \in 1..MaxStage}}
           : n \in Numberings}

ChunkAt(s, floor, header) ==
    [stage |-> s, floor |-> floor, header |-> header, message |-> plan[s].message,
     before |-> plan[s].before, after |-> plan[s].after, empty |-> plan[s].empty,
     end |-> plan[s].end]

Init ==
    /\ flow = NoFlow
    /\ past = <<>>
    /\ request = [pFlow |-> "NULL", stage |-> 0, floor |-> 0]
    /\ ack = RejectedAck
    /\ plan \in Plans

Next ==
    /\ \/ \E s \in 1..MaxStage, floor \in 0..MaxStage, header \in BOOLEAN :
            /\ floor < s
            /\ (header /\ ~flow.open) => Len(past) < MaxFlows
            /\ NormalRequest(ChunkAt(s, floor, header))
       \/ /\ request.stage < MaxStage
          /\ FollowingRequest(ChunkAt(request.stage + 1, request.floor, FALSE))
       \/ Commit
    /\ UNCHANGED plan

Spec == Init /\ [][Next]_vars

-----------------------------------------------------------------------------
(* Properties                                                              *)

\* Every variable keeps its type.
TypeOK ==
    /\ flow.open \in BOOLEAN /\ flow.completed \in BOOLEAN /\ flow.skipped \in BOOLEAN
    /\ flow.stage \in Nat /\ flow.lost \in Nat /\ flow.arrived \subseteq Nat
    /\ DOMAIN flow.fragments \subseteq 1..MaxStage
    /\ \A s \in DOMAIN flow.fragments : flow.fragments[s] \in Part /\ flow.fragments[s].stage = s
    /\ flow.packet \in Seq(Part)
    /\ request \in Request
    /\ ack.negative \in BOOLEAN /\ ack.cum \in Nat
    /\ \A i \in DOMAIN ack.losts : ack.losts[i] \in Nat \X Nat

\* Everything buffered is beyond the next stage expected: the subtraction of
\* commit, it->first - current - 2 on 64 unsigned bits, cannot wrap.
BufferedAhead == \A s \in DOMAIN flow.fragments : s > flow.stage + 1

Deliveries == Append(past, flow.delivered)

\* A message reaches the stream whole: the fragments of one message, from its
\* first to its last, with nothing of another one among them.
DeliveredWhole ==
    \A n \in DOMAIN Deliveries : \A d \in DOMAIN Deliveries[n] :
        LET parts == Deliveries[n][d].parts
        IN  /\ ~parts[1].before /\ ~parts[Len(parts)].after
            /\ \A i \in DOMAIN parts :
                 /\ parts[i].message = parts[1].message
                 /\ parts[i].stage = parts[1].stage + i - 1
                 /\ ~parts[i].empty

\* Nothing is handed over after the message flagged MESSAGE_END.
EndStops ==
    \A n \in DOMAIN Deliveries : \A d, e \in DOMAIN Deliveries[n] :
        (d < e) => \A i \in DOMAIN Deliveries[n][d].parts : ~Deliveries[n][d].parts[i].end

\* The sender's decoding of an acknowledgment gives back exactly the stages
\* the flow holds: no stage is taken for received that is not, nor the reverse.
AckReadsBack ==
    (flow.open /\ request.pFlow = "NULL") =>
        ack.cum = flow.stage /\ ReportedReceived(ack) = DOMAIN flow.fragments

\* Unless the sender gave up a stage, the flow reaches a stage only when it
\* has received it and every earlier one, and it counts nothing lost.
LossOnlyAfterSkip ==
    ~flow.skipped => 1..flow.stage \subseteq flow.arrived /\ flow.lost = 0

\* The fragments of the first i deliveries, and the losses told with them.
LengthsUpTo(ds) ==
    LET length[i \in 0..Len(ds)] ==
            IF i = 0 THEN 0 ELSE length[i - 1] + Len(ds[i].parts) + ds[i].lost
    IN  length

Lengths(ds) == LengthsUpTo(ds)[Len(ds)]

\* The losses told to the stream, with those not told yet and the fragments
\* delivered or held, never exceed the stages reached: no loss is told twice.
LossNotOvercounted ==
    Lengths(flow.delivered) + flow.lost + Len(flow.packet) <= flow.stage

\* What is delivered is whole, and ends where the sender ended it.
DeliveredRight == DeliveredWhole /\ EndStops

\* What the flow says it has and what it says it lost are true: the sender
\* repeats nothing in vain and forgets nothing too early.
ReportsTrue == AckReadsBack /\ LossOnlyAfterSkip /\ LossNotOvercounted
=============================================================================
