------------------------------- MODULE WSFrames -------------------------------
(* WebSocket on a connection that has been upgraded (WSWriter.cpp, WS.cpp,         *)
(* WSSession.cpp, Writer.cpp): messages are written after ten bytes left for a      *)
(* header, of which the frame keeps what its size needs; a client's frames come in  *)
(* pieces and masked, and are answered. A byte is a number; a size on two or on     *)
(* eight bytes is its bytes. Text is whatever a JSON writer put in the message      *)
(* (JSONData.tla); an application leaves a message alone once it writes another.    *)
EXTENDS Integers, Sequences, SequencesExt, Bitwise

CONSTANTS
    Sizes,      \* sizes of the messages written
    Asked,      \* frames of the client: [type, size]
    Short,      \* sizes under it are on the frame's second byte (126)
    Long,       \* sizes under it are on two bytes (65 536)
    Mask,       \* the client's mask, four bytes
    Segments,   \* how many bytes come at once, when it is not all of them
    MaxWritten, MaxAsked \* bounds

FramesAssumption ==
    /\ Mask \in [1 .. 4 -> 0 .. 255] /\ Short \in 1 .. 126 /\ Long \in Short .. 65536
    /\ Sizes \subseteq 0 .. 255 /\ Segments \subseteq Nat
    /\ MaxWritten \in Nat /\ MaxAsked \in Nat

VARIABLES
    state,    \* of the writer
    senders,  \* _senders: messages that wait for a flush
    output,   \* the bytes sent to the client
    written,  \* history: the frames the server must have sent, in order
    masked,   \* the client's bytes not handled yet
    coming,   \* of them, those that have not arrived
    frames,   \* history: the frames the client sent
    handled,  \* history: the frames that were handled
    killed    \* the session is dead

framesVars == <<state, senders, output, written, masked, coming, frames, handled, killed>>

Text == 1
Close == 8
Ping == 9
Pong == 10
Content(n) == [i \in 1 .. n |-> 64 + i]

(* WriteHeader. *)
Header(type, n) ==
    <<128 + type>> \o
    (IF n < Short THEN <<n>>
     ELSE IF n < Long THEN <<126, n \div 256, n % 256>>
     ELSE <<127, 0, 0, 0, 0, 0, 0, n \div 256, n % 256>>)

(* HeaderSize, asked before the header is written. *)
HeaderSize(n) == IF n < Short THEN 2 ELSE IF n < Long THEN 4 ELSE 10

(* pack: the last message, when it has no header yet, loses what its header does   *)
(* not need of the ten bytes and has it written over the rest.                      *)
Packed(s) ==
    IF s = <<>> \/ Last(s).packaged THEN s
    ELSE LET n      == Len(Last(s).packet) - 10
             cut    == SubSeq(Last(s).packet, 10 - HeaderSize(n) + 1, Len(Last(s).packet))
             header == Header(Text, n)
         IN  Append(Front(s), [packaged |-> TRUE, packet |-> header \o SubSeq(cut, Len(header) + 1, Len(header) + n)])

Sending(type, content) == Append(Packed(senders), [packaged |-> TRUE, packet |-> Header(type, Len(content)) \o content])
Flushed(s) == output \o FlattenSeq([i \in DOMAIN Packed(s) |-> Packed(s)[i].packet])

(* newDataWriter. *)
NewDataWriter(n) == Append(Packed(senders), [packaged |-> FALSE, packet |-> [i \in 1 .. 10 |-> 0] \o Content(n)])

Frame(type, content) == [type |-> type, content |-> content]

-----------------------------------------------------------------------------
(* The application. *)

UnchangedInput == UNCHANGED <<masked, coming, frames, handled>>
Writes == Len(written) < MaxWritten

(* writeInvocation, writeMessage, writeResponse, writeMedia: all begin a message. *)
Message(n) ==
    /\ state # "CLOSED" /\ Writes
    /\ senders' = NewDataWriter(n)
    /\ written' = Append(written, Frame(Text, Content(n)))
    /\ UNCHANGED <<state, output, killed>> /\ UnchangedInput

(* One more value in the message that is being written. *)
MoreContent ==
    /\ senders # <<>> /\ ~Last(senders).packaged /\ Last(written).content # <<>>
    /\ Len(Last(written).content) < Long
    /\ senders' = [senders EXCEPT ![Len(senders)].packet = @ \o <<44>>]
    /\ written' = [written EXCEPT ![Len(written)].content = @ \o <<44>>]
    /\ UNCHANGED <<state, output, killed>> /\ UnchangedInput

(* writeRaw and manage's writePing. *)
Raw(type, n) ==
    /\ state # "CLOSED" /\ Writes
    /\ senders' = Sending(type, Content(n))
    /\ written' = Append(written, Frame(type, Content(n)))
    /\ UNCHANGED <<state, output, killed>> /\ UnchangedInput

Flush ==
    /\ state # "CONNECTING"
    /\ output' = Flushed(senders) /\ senders' = <<>>
    /\ UNCHANGED <<state, written, killed>> /\ UnchangedInput

CloseFrame(code) == Frame(Close, IF code = 0 THEN <<>> ELSE <<code \div 256, code % 256>>)

(* close: told once; no code when the code is not positive, no frame when negative *)
(* (a listener's end).                                                              *)
CloseWith(code) ==
    /\ written' = IF code < 0 THEN written ELSE Append(written, CloseFrame(code))
    /\ output' = Flushed(IF code < 0 THEN senders ELSE Sending(Close, CloseFrame(code).content))
    /\ senders' = <<>> /\ state' = "CLOSED"

CloseWriter(code) ==
    /\ state = "CONNECTED" /\ Writes /\ ~killed
    /\ CloseWith(code)
    /\ UNCHANGED killed /\ UnchangedInput

(* Peer::onConnection ends: what was written in the meantime goes if it failed. *)
Connection(accepted) ==
    /\ state = "CONNECTING"
    /\ state' = "CONNECTED"
    /\ senders' = IF accepted THEN senders ELSE <<>>
    /\ written' = IF accepted THEN written ELSE <<>>
    /\ killed' = ~accepted
    /\ UNCHANGED output /\ UnchangedInput

-----------------------------------------------------------------------------
(* The client's frames. *)

(* External: a client masks what it sends, and says nothing after its close. *)
Ask(frame) ==
    /\ Len(frames) < MaxAsked /\ \A i \in DOMAIN frames : frames[i].type # Close
    /\ LET header == Header(frame.type, frame.size)
           bytes  == <<header[1], 128 + header[2]>> \o SubSeq(header, 3, Len(header))
                        \o Mask \o [i \in 1 .. frame.size |-> Content(frame.size)[i] ^^ Mask[((i - 1) % 4) + 1]]
       IN  masked' = masked \o bytes /\ coming' = coming + Len(bytes)
    /\ frames' = Append(frames, Frame(frame.type, Content(frame.size)))
    /\ UNCHANGED <<state, senders, output, written, handled, killed>>

Arrive(n) ==
    /\ n \in 1 .. coming
    /\ coming' = coming - n
    /\ UNCHANGED <<state, senders, output, written, masked, frames, handled, killed>>

(* buildPacket: how many bytes the frame at the head of these takes, 0 when they   *)
(* are not enough, and where its content begins.                                    *)
BuildPacket(bytes) ==
    LET none   == [length |-> 0, start |-> 0]
        small  == bytes[2] % 128
        after  == IF small = 127 THEN 10 ELSE IF small = 126 THEN 4 ELSE 2
        size   == 4 + IF after = 2 THEN small ELSE bytes[after - 1] * 256 + bytes[after]
    IN  IF Len(bytes) < 2 \/ Len(bytes) < after \/ Len(bytes) < after + size THEN none
        ELSE [length |-> after + size, start |-> after + 4]

(* Unmask: the four bytes before the content, over and over. *)
Unmasked(bytes, start, length) ==
    [i \in 1 .. length - start |-> bytes[start + i] ^^ bytes[start - 3 + ((i - 1) % 4)]]

(* packetHandler: a ping is answered, a close echoed and the session dead, a type  *)
(* that is not known refused.                                                       *)
Answer(type, content) ==
    CASE type = Ping /\ state # "CLOSED" ->
            /\ written' = Append(written, Frame(Pong, content))
            /\ output' = Flushed(Sending(Pong, content)) /\ senders' = <<>>
            /\ UNCHANGED <<state, killed>>
      [] type = Close ->
            /\ IF state = "CLOSED" THEN UNCHANGED <<written, output, senders, state>>
               ELSE CloseWith(IF content = <<>> THEN 0 ELSE content[1] * 256 + content[2])
            /\ killed' = TRUE
      [] type \notin {Text, Close, Ping, Pong} /\ state # "CLOSED" -> CloseWith(1007) /\ UNCHANGED killed
      [] OTHER -> /\ output' = Flushed(senders) /\ senders' = <<>>
                  /\ UNCHANGED <<written, state, killed>>

Handle ==
    LET arrived == SubSeq(masked, 1, Len(masked) - coming)
        built   == BuildPacket(arrived)
        type    == arrived[1] % 16
        content == Unmasked(arrived, built.start, built.length)
    IN  /\ state # "CONNECTING" /\ ~killed /\ Len(arrived) > 1 /\ built.length > 0
        /\ masked' = SubSeq(masked, built.length + 1, Len(masked))
        /\ handled' = Append(handled, Frame(type, content))
        /\ Answer(type, content)
        /\ UNCHANGED <<coming, frames>>

Init ==
    /\ state = "CONNECTING" /\ senders = <<>> /\ output = <<>> /\ written = <<>>
    /\ masked = <<>> /\ coming = 0 /\ frames = <<>> /\ handled = <<>> /\ killed = FALSE

Next ==
    \/ \E n \in Sizes : Message(n)
    \/ MoreContent \/ Raw(Text, 1) \/ Raw(Ping, 0) \/ Flush
    \/ \E code \in {-1, 0, 1000} : CloseWriter(code)
    \/ \E accepted \in BOOLEAN : Connection(accepted)
    \/ \E frame \in Asked : Ask(frame)
    \/ \E n \in Segments \union {coming} : Arrive(n)
    \/ Handle

-----------------------------------------------------------------------------
(* What a client reads in these bytes: the first `most` frames, and what is left. *)
ReadFrames(bytes, most) ==
    FoldLeft(LAMBDA r, i :
                 IF Len(r.rest) < 2 THEN r
                 ELSE LET after == IF r.rest[2] = 127 THEN 10 ELSE IF r.rest[2] = 126 THEN 4 ELSE 2
                          size  == IF after = 2 THEN r.rest[2] ELSE r.rest[after - 1] * 256 + r.rest[after]
                      IN  [frames |-> Append(r.frames, Frame(r.rest[1] - 128, SubSeq(r.rest, after + 1, after + size))),
                           rest |-> SubSeq(r.rest, after + size + 1, Len(r.rest))],
             [frames |-> <<>>, rest |-> bytes], [i \in 1 .. most |-> i])

TypeOK ==
    /\ state \in {"CONNECTING", "CONNECTED", "CLOSED"} /\ coming \in 0 .. Len(masked)
    /\ killed \in BOOLEAN
    /\ \A i \in DOMAIN senders : i < Len(senders) => senders[i].packaged

(* A client reads, one after the other, the frames that were written and flushed,   *)
(* with their whole content and whatever header their size needs, and nothing after *)
(* a close; what waits is the rest of them. The frames of a client are handled as    *)
(* they were sent, however their bytes come (WSWriter.cpp:48-109, WSSession.cpp:64-141). *)
FramesSound ==
    LET read == ReadFrames(Flushed(senders), MaxWritten + MaxAsked + 1)
    IN  /\ IsPrefix(handled, frames)
        /\ ReadFrames(output, MaxWritten + MaxAsked + 1).rest = <<>>
        /\ read.frames = written /\ read.rest = <<>>
        /\ \A i \in DOMAIN written : written[i].type = Close => i = Len(written)
=============================================================================
