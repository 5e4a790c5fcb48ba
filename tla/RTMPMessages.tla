---- MODULE RTMPMessages ----
(* The messages of an RTMP connection: RTMPWriter.cpp and RTMPSender.cpp, which  *)
(* leave out of a header what the last message of the channel has in common,     *)
(* and RTMPSession.cpp's buildPacket, which reads such headers from bytes that    *)
(* come in pieces and deciphers each once.                                        *)
(* Messages are smaller than a chunk and not empty, and a time is below the       *)
(* extended ones.                                                                 *)
EXTENDS Naturals, Sequences, SequencesExt

CONSTANTS
    Channels,
    MediaTypes, \* of messages that come with their content
    Sizes,
    MaxTime,    \* bounds: nothing is written while the other end has messages to read
    MaxMessages

MessageAssumption ==
    "invocation" \notin MediaTypes /\ Sizes \subseteq Nat \ {0} /\ MaxTime \in Nat /\ MaxMessages \in Nat

VARIABLES
    written,   \* _channel of each writer, with its stream: 0 before the first message
    sender,    \* _pSender's messages; the last one's size may have to be written (sizePos)
    unsized,
    wire,      \* messages flushed and not read
    available, \* bytes that came of them
    fresh,     \* bytes came that buildPacket has not seen
    read,      \* channel of each reader
    deciphered, \* _decrypted
    ahead,     \* history: the bytes given to RC4 that are not consumed
    last,      \* history: the last message read, and what was written
    count,     \* counter of the bound
    shared,    \* history: two messages were in one buffer
    back       \* history: the channels whose time went back

vars == <<written, sender, unsized, wire, available, fresh, read, deciphered, ahead,
          last, count, shared, back>>

Types == MediaTypes \cup {"invocation"}
New == [stream |-> 0, absolute |-> 0, time |-> 0, size |-> 0, type |-> "invocation"]
Told == [stream |-> 0, absolute |-> 0, size |-> 0, type |-> "invocation"]
HeaderSize == [flag \in 0 .. 3 |-> IF flag = 3 THEN 1 ELSE 12 - 4 * flag]
Length(m) == HeaderSize[m.flag] + m.size

TypeOK ==
    /\ DOMAIN written = Channels /\ DOMAIN read = Channels
    /\ sender \in Seq([channel : Channels, flag : 0 .. 3, time : 0 .. MaxTime, size : Sizes, type : Types, told : Nat])
    /\ {unsized, fresh, shared} \subseteq BOOLEAN
    /\ {available, deciphered, ahead, count} \subseteq Nat
    /\ back \subseteq Channels

Init ==
    /\ written = [c \in Channels |-> New] /\ read = [c \in Channels |-> New]
    /\ sender = <<>> /\ unsized = FALSE /\ wire = <<>> /\ available = 0 /\ fresh = FALSE
    /\ deciphered = 0 /\ ahead = 0
    /\ last = [read |-> <<>>, told |-> <<>>] /\ count = 0 /\ shared = FALSE /\ back = {}

-----------------------------------------------------------------------------
(* RTMPSender::pack: the size of the last message goes to the header of that     *)
(* message, and to the channel of the writer that writes or flushes now.         *)
Packed(c) == IF unsized THEN [written[c] EXCEPT !.size = Last(sender).size] ELSE written[c]

(* Variant: a time that is repeated is not in the header either.                 *)
FlagAbsolute(c, type, time, size, media) ==
    LET w == written[c] IN
    IF w.stream = 0 THEN 0
    ELSE IF ~media \/ w.type # type \/ w.size # size THEN 1
    ELSE IF w.absolute = time THEN 3 ELSE 2

(* What the header leaves out, as the size of the channel is known before pack.  *)
Flag(c, type, time, size, media) ==
    LET w == written[c]
        delta == IF time < w.absolute THEN 0 ELSE time - w.absolute
    IN  IF w.stream = 0 THEN 0
        ELSE IF ~media \/ w.type # type \/ w.size # size THEN 1
        ELSE IF w.time = delta THEN 3 ELSE 2

(* RTMPWriter::write: media come with their content, an invocation with time 0    *)
(* and a content that is written after its header.                                *)
Write(c, type, time, size) ==
    LET media == type # "invocation"
        flag == Flag(c, type, time, size, media)
        field == IF flag = 0 THEN time ELSE IF time < written[c].absolute THEN 0 ELSE time - written[c].absolute
    IN  /\ count < MaxMessages /\ wire = <<>>
        /\ count' = count + 1
        /\ sender' = Append(sender, [channel |-> c, flag |-> flag, time |-> field, size |-> size,
                                     type |-> type, told |-> time])
        /\ written' = [written EXCEPT ![c] = [Packed(c) EXCEPT
                           !.stream = 1, !.absolute = time, !.time = field, !.type = type]]
        /\ unsized' = (flag <= 1)
        /\ shared' = (shared \/ sender # <<>>)
        /\ back' = IF time < written[c].absolute THEN back \cup {c} ELSE back
        /\ UNCHANGED <<wire, available, fresh, read, deciphered, ahead, last>>

(* flush, by any of the writers that share the buffer. *)
Flush(c) ==
    /\ sender # <<>>
    /\ wire' = wire \o sender
    /\ sender' = <<>> /\ unsized' = FALSE
    /\ written' = [written EXCEPT ![c] = Packed(c)]
    /\ shared' = (shared \/ Last(sender).channel # c)
    /\ UNCHANGED <<available, fresh, read, deciphered, ahead, last, count, back>>

-----------------------------------------------------------------------------
(* The other end. *)

Total == FoldLeft(LAMBDA n, m : n + Length(m), 0, wire)

(* The bytes come up to some of the header of a message, to its end, or all.     *)
Arrive(upTo) ==
    /\ ~fresh /\ wire # <<>> /\ upTo \in (available + 1) .. Total
    /\ available' = upTo /\ fresh' = TRUE
    /\ UNCHANGED <<written, sender, unsized, wire, read, deciphered, ahead, last, count, shared, back>>

(* The channel after a header, of which a part may have been read before. *)
Header(m) ==
    LET r == read[m.channel] IN
    [r EXCEPT !.time = IF m.flag <= 2 THEN m.time ELSE @,
              !.size = IF m.flag <= 1 THEN m.size ELSE @,
              !.type = IF m.flag <= 1 THEN m.type ELSE @,
              !.stream = IF m.flag = 0 THEN 1 ELSE @]

(* Not all of the message is there.  buildPacket deciphers what came since it was *)
(* last called.                                                                   *)
BuildPart ==
    LET m == Head(wire)
        header == Header(m)
    IN  /\ fresh /\ wire # <<>> /\ available > 0
        /\ available < HeaderSize[m.flag] + 1 \/ available < HeaderSize[m.flag] + header.size
        /\ ahead' = ahead + available - deciphered /\ deciphered' = available
        /\ fresh' = FALSE
        /\ read' = IF available < HeaderSize[m.flag] + 1 THEN read ELSE [read EXCEPT ![m.channel] = header]
        /\ UNCHANGED <<written, sender, unsized, wire, available, last, count, shared, back>>

LeftDeciphered(m, header) == available - (HeaderSize[m.flag] + header.size)

(* A whole message; what is left is looked at next.  If its size is not the one   *)
(* that was sent, nothing that follows can be read.                                *)
BuildMessage ==
    LET m == Head(wire)
        header == Header(m)
        size == HeaderSize[m.flag] + header.size
    IN  /\ fresh /\ wire # <<>>
        /\ available >= HeaderSize[m.flag] + 1 /\ available >= size
        /\ ahead' = ahead + available - deciphered - size /\ deciphered' = LeftDeciphered(m, header)
        /\ read' = [read EXCEPT ![m.channel] = [header EXCEPT
                        !.absolute = IF m.flag = 0 THEN header.time ELSE @ + header.time]]
        /\ last' = [read |-> <<m.channel, header.type, header.size, read'[m.channel].absolute>>,
                    told |-> <<m.channel, m.type, m.size, m.told>>]
        /\ IF header.size = m.size
           THEN wire' = Tail(wire) /\ available' = available - size
           ELSE wire' = <<>> /\ available' = 0
        /\ fresh' = (available' > 0)
        /\ UNCHANGED <<written, sender, unsized, count, shared, back>>

Next ==
    \/ \E c \in Channels, size \in Sizes :
          \/ \E time \in 0 .. MaxTime, type \in MediaTypes : Write(c, type, time, size)
          \/ Write(c, "invocation", 0, size)
    \/ \E c \in Channels : Flush(c)
    \/ \E upTo \in {1, Total} \cup {1 + HeaderSize[wire[i].flag] : i \in {1} \cap DOMAIN wire} : Arrive(upTo)
    \/ BuildPart \/ BuildMessage

Spec == Init /\ [][Next]_vars
-----------------------------------------------------------------------------
(* A message is read with the type and the size it was written with, although its *)
(* header may tell neither, unless two were in one buffer, whose sizes are taken  *)
(* for those of the channel too late; and with its time, unless the time of its   *)
(* channel went back, as it does with an invocation.                              *)
ReadAsWritten ==
    (last.read # <<>> /\ ~shared) =>
        /\ \A i \in 1 .. 3 : last.read[i] = last.told[i]
        /\ last.read[1] \notin back => last.read[4] = last.told[4]

(* A byte is deciphered once, in its order, however the bytes came. *)
DecipheredOnce == ahead = deciphered

MessagesSound == ReadAsWritten /\ DecipheredOnce
====
