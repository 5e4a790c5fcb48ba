----------------------------- MODULE RTMFPChannel -----------------------------
(***************************************************************************)
(* An RTMFPWriter and an RTMFPFlow at the two ends of a network that       *)
(* loses, duplicates and reorders packets, in both directions.  The server *)
(* has one end of a flow and the client the other: each end is taken here  *)
(* to be the one that this code implements.                                *)
(*                                                                         *)
(* Every packet written stays in 'wire', so it may be delivered at any     *)
(* time, again or never, once the band has sent it; the same holds for     *)
(* acknowledgments.  The channel is followed up to the writer's first      *)
(* failure (MaxGenerations is 0), under which the receiver changes.        *)
(***************************************************************************)
EXTENDS RTMFPWriter, SequencesExt

CONSTANTS
    BufferLimit,  \* the receiver's limit on the fragments of a message
    MaxFlows,     \* bound: times the receiver creates the flow
    Mixing,       \* does the application mix reliable and unreliable messages?
    Closing       \* does the application close the writer?

ASSUME ChannelAssumption ==
    /\ MaxGenerations = 0 /\ Connections = {"none"}
    /\ BufferLimit \in Nat \ {0} /\ MaxFlows \in Nat
    /\ Mixing \in BOOLEAN /\ Closing \in BOOLEAN

VARIABLES
    flow, past, request, ack,  \* the receiver's, see RTMFPFlow
    reading,                   \* the chunk it handles, by its place in wire
    acks,                      \* the acknowledgments it has sent
    owed                       \* history: the reliable messages written

R == INSTANCE RTMFPFlow WITH plan <- <<>>

receiverVars == <<flow, past, request, ack, reading>>
channelVars == <<vars, receiverVars, acks, owed>>

-----------------------------------------------------------------------------
(* The sending side                                                        *)

\* The application sets 'reliable' once, or for each message.
MaySend(r) == Mixing \/ created = 0 \/ (r <=> owed # {})

SenderWrite(r) ==
    /\ MaySend(r)
    /\ Write(r)
    /\ owed' = IF r THEN owed \cup {created} ELSE owed

SenderStep ==
    \/ MaySend(FALSE) /\ WriteRaw
    \/ Closing /\ \E r \in Reliabilities : MaySend(r) /\ Close(r)
    \/ \E full \in BOOLEAN : Flush(full)
    \/ Manage
    \/ BandAdvance

\* The sender reads the acknowledgment as commit's decoding gives it.
SenderAcknowledged(a) ==
    /\ Usable
    /\ ~a.negative
    /\ LET read == [cum |-> a.cum, recv |-> R!ReportedReceived(a)]
       IN  \E new \in 0..(stage + 1) : IsNewAck(read, new) /\ Acknowledge(read, new)
    /\ UNCHANGED <<state, connection, connectedSize, messages, stage, generation,
                   life, created, closeCalled>>

-----------------------------------------------------------------------------
(* The receiving side                                                      *)

\* A chunk as the receiver reads it: the signature is in a 0x10 chunk written
\* while nothing was acknowledged.
Heard(c) ==
    [stage |-> c.stage, floor |-> c.floor, header |-> c.head /\ c.floor = 0,
     message |-> c.message, before |-> c.before, after |-> c.after,
     empty |-> c.empty, end |-> c.end]

\* The next chunk of the packet is a 0x11.
Continues ==
    /\ reading > 0 /\ reading < Len(wire)
    /\ ~wire[reading + 1].head /\ wire[reading + 1].run = wire[reading].run

ReceiveRequest ==
    \E i \in DOMAIN wire :
        /\ wire[i].head /\ wire[i].run < run
        /\ (wire[i].floor = 0 /\ ~flow.open) => Len(past) < MaxFlows
        /\ R!NormalRequest(Heard(wire[i]))
        /\ reading' = i

ReceiveFollowing ==
    /\ Continues
    /\ R!FollowingRequest(Heard(wire[reading + 1]))
    /\ reading' = reading + 1

ReceiverCommit ==
    /\ ~Continues
    /\ R!Commit
    /\ reading' = 0
    /\ acks' = acks \cup {ack'}

-----------------------------------------------------------------------------
ChannelInit ==
    /\ Init
    /\ flow = R!NoFlow
    /\ past = <<>>
    /\ request = [pFlow |-> "NULL", stage |-> 0, floor |-> 0]
    /\ ack = R!RejectedAck
    /\ reading = 0
    /\ acks = {}
    /\ owed = {}

ChannelNext ==
    \/ (\E r \in Reliabilities : SenderWrite(r)) /\ UNCHANGED <<receiverVars, acks>>
    \/ SenderStep /\ UNCHANGED <<receiverVars, acks, owed>>
    \/ (\E a \in acks : SenderAcknowledged(a)) /\ UNCHANGED <<receiverVars, acks, owed>>
    \/ ReceiveRequest /\ UNCHANGED <<vars, acks, owed>>
    \/ ReceiveFollowing /\ UNCHANGED <<vars, acks, owed>>
    \/ ReceiverCommit /\ UNCHANGED <<vars, owed>>

ChannelSpec == ChannelInit /\ [][ChannelNext]_channelVars

-----------------------------------------------------------------------------
(* Properties                                                              *)

\* The messages the receiver handed to its stream.
ReceivedNames ==
    LET deliveries == FlattenSeq(past) \o flow.delivered
    IN  [i \in DOMAIN deliveries |-> deliveries[i].parts[1].message]

\* The two ends and the network keep the promise of MessageChannel.
C == INSTANCE MessageChannel WITH written <- created, received <- ReceivedNames

KeepsPromise == C!Spec

\* The writer forgets the last fragment of a reliable message only when the
\* receiver has handed the message over, or holds that fragment until it can.
ForgottenWasReceived ==
    \A i \in DOMAIN wire :
        (wire[i].message \in owed /\ ~wire[i].after /\ wire[i].stage <= stageAck)
        => \/ \E j \in DOMAIN ReceivedNames : ReceivedNames[j] = wire[i].message
           \/ wire[i].stage \in DOMAIN flow.fragments

\* A message is handed over once, even when the flow is deleted at its end and
\* a late or repeated packet creates it again.
DeliveredOnce ==
    \A i, j \in DOMAIN ReceivedNames : ReceivedNames[i] = ReceivedNames[j] => i = j
=============================================================================
