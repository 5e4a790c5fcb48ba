----------------------------- MODULE MediaContainer -----------------------------
(* MediaContainer.cpp: live media for the clients of HTTP.  MPEGTS writes each    *)
(* frame as rows of one size, so that its last row is filled and its first one     *)
(* carries the time and the header of the elementary stream; FLV, which writes a  *)
(* frame whole, is not followed.  Only how many bytes there are is, and which bytes    *)
(* of the frame the payloads are: not the times, nor what the headers say.             *)
EXTENDS Integers, Sequences, SequencesExt, Functions, FiniteSetsExt

CONSTANTS
    UnitSizes,  \* sizes of the units (NALU) of video frames
    AudioSizes, \* sizes of audio frames
    MaxUnits,   \* units of a frame
    MaxFrames   \* bound

MPEGTS_PACKET_SIZE == 188
RowSize == MPEGTS_PACKET_SIZE - 4
Byte(n) == n % 256
PESHeader(type) == IF type = "audio" THEN 21 ELSE 20
StartCode == 3
TimeSize == 7

MediaAssumption == UnitSizes \subseteq Nat \ {0} /\ AudioSizes \subseteq Nat /\ MaxUnits \in Nat /\ MaxFrames \in Nat

VARIABLES
    frame,   \* the last frame given to be written: the sizes of what was found in it
    rows,    \* its rows, as they were written
    counter, \* _counterRow, of each track
    torn,    \* whether a unit of it begins in the last three bytes of a row
    written  \* frames written

vars == <<frame, rows, counter, torn, written>>

-----------------------------------------------------------------------------
(* SubstreamMap: a cursor in the units of a frame.  A unit of a frame is given by its *)
(* number and the bytes read of it.                                                   *)
NewReader == [unit |-> 1, pos |-> 0]
ReadNextSub(units, reader, most) ==
    LET left == units[reader.unit] - reader.pos
        count == Min({most, left})
    IN  IF reader.unit > Len(units) THEN [count |-> 0, reader |-> reader]
        ELSE [count |-> count,
              reader |-> IF count = left THEN [unit |-> reader.unit + 1, pos |-> 0] ELSE [reader EXCEPT !.pos = @ + count]]

(* ParseNAL: the units up to one that is malformed; ParseAudio: all but two bytes.    *)
Available(type, units) == SumFunction(units)
                          + (IF type = "video" THEN StartCode * Len(units) ELSE 0)
ParseAudio(size) == IF size <= 2 THEN <<>> ELSE <<size - 2>>

(* Variant: a row that is one byte short has nothing to fill it. *)
AdaptiveFieldShort(available, first, type) ==
    LET free == RowSize - (IF first THEN PESHeader(type) ELSE 0)
        filled == IF available < free - 1 THEN free - 1 - available ELSE 0
    IN  [present |-> available < free - 1 \/ first, size |-> IF first THEN Max({filled, TimeSize}) ELSE filled]

(* GetAdaptiveSize: the time, in the first row, and what fills the last. *)
AdaptiveField(available, first, type) ==
    LET free == RowSize - (IF first THEN PESHeader(type) ELSE 0)
        filled == IF available < free - 1 THEN free - 1 - available ELSE 0
    IN  [present |-> available < free \/ first, size |-> IF first THEN Max({filled, TimeSize}) ELSE filled]

(* WritePES: the payload of a row.  What is to be written is kept in a byte, of which *)
(* a start code takes three.                                                           *)
RECURSIVE WritePES(_, _, _, _)
WritePES(type, units, row, toWrite) ==
    LET begins == type = "video" /\ row.reader.pos = 0
        left == Byte(toWrite - (IF begins THEN StartCode ELSE 0))
        coded == [row EXCEPT !.size = @ + (IF begins THEN StartCode ELSE 0), !.torn = @ \/ (begins /\ row.reader.unit <= Len(units) /\ toWrite <= StartCode)]
        read == ReadNextSub(units, row.reader, left)
        put == [coded EXCEPT !.size = @ + read.count, !.reader = read.reader,
                             !.pieces = Append(@, [unit |-> row.reader.unit, from |-> row.reader.pos, count |-> read.count])]
    IN  IF toWrite = 0 THEN row
        ELSE IF read.count = 0 THEN [coded EXCEPT !.complete = FALSE]
        ELSE WritePES(type, units, put, left - read.count)

(* writeTS: one row, then the next. *)
RECURSIVE WriteTS(_, _, _, _, _, _)
WriteTS(type, units, available, reader, count, first) ==
    LET plain == ~first /\ available > RowSize
        field == AdaptiveField(available, first, type)
        filled == IF plain THEN 0 ELSE (IF field.present THEN 1 ELSE 0) + field.size
        header == filled + (IF first THEN PESHeader(type) ELSE 0)
        toWrite == RowSize - header
        row == WritePES(type, units, [first |-> first, counter |-> count % 16, size |-> 4 + header, pieces |-> <<>>,
                                      reader |-> reader, complete |-> TRUE, torn |-> FALSE], toWrite)
    IN  IF available = 0 THEN <<>>
        ELSE <<row>> \o (IF row.complete /\ available # toWrite
                         THEN WriteTS(type, units, available - toWrite, row.reader, count + 1, FALSE) ELSE <<>>)

-----------------------------------------------------------------------------
TypeOK == /\ counter \in [{"audio", "video"} -> Nat] /\ torn \in BOOLEAN /\ written \in 0 .. MaxFrames
          /\ \A i \in DOMAIN rows : rows[i].size \in 4 .. 2 * MPEGTS_PACKET_SIZE + 256

Init == /\ frame = [type |-> "video", units |-> <<>>] /\ rows = <<>> /\ torn = FALSE /\ written = 0
        /\ counter = [t \in {"audio", "video"} |-> 0]

(* MPEGTS::write. *)
WriteFrame(type, units) ==
    LET new == WriteTS(type, units, Available(type, units), NewReader, counter[type], TRUE) IN
    /\ written < MaxFrames
    /\ written' = written + 1
    /\ frame' = [type |-> type, units |-> units]
    /\ rows' = new
    /\ torn' = \E i \in DOMAIN new : new[i].torn
    /\ counter' = [counter EXCEPT ![type] = @ + Len(new)]

WriteVideo == \E n \in 0 .. MaxUnits : \E units \in [1 .. n -> UnitSizes] : WriteFrame("video", units)
WriteAudio == \E size \in AudioSizes : WriteFrame("audio", ParseAudio(size))

Next == WriteVideo \/ WriteAudio

Spec == Init /\ [][Next]_vars

-----------------------------------------------------------------------------
(* The bytes of the frame that are in the rows, in their order. *)
Carried == FlattenSeq([i \in DOMAIN rows |-> rows[i].pieces])
CarriedOf(unit, last) == SumFunctionOnSet([i \in DOMAIN Carried |-> Carried[i].count],
                                          {i \in 1 .. last : Carried[i].unit = unit})

(* The rows of a frame have the size of a row, carry every byte of its units in      *)
(* order, once, and are numbered after those of the frame before.  Known not to: a    *)
(* frame with a unit that begins in the last three bytes of a row.                     *)
RowsWhole ==
    ~torn =>
        /\ \A i \in DOMAIN rows : rows[i].size = MPEGTS_PACKET_SIZE /\ rows[i].complete
        /\ \A i \in DOMAIN rows : rows[i].counter = (counter[frame.type] - Len(rows) + i - 1) % 16
        /\ \A i \in DOMAIN Carried :
              /\ Carried[i].from = CarriedOf(Carried[i].unit, i - 1)
              /\ i > 1 => Carried[i].unit >= Carried[i - 1].unit
        /\ \A unit \in DOMAIN frame.units : CarriedOf(unit, Len(Carried)) = frame.units[unit]
=============================================================================
