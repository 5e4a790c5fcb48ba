------------------------------- MODULE XMLData -------------------------------
(* What a script sends and reads back in XML: Script.cpp's ReadData gives the     *)
(* arguments to XMLWriter.cpp, its WriteData takes them from XMLReader.cpp.  The  *)
(* elements of a table under a name are tags of that name, one after the other:   *)
(* the reader finds out where an array begins and ends from the tags' names.       *)
(* A token is the beginning of a tag with its name, the end of a tag, or a value.  *)
EXTENDS Naturals, Sequences, SequencesExt, FiniteSetsExt

CONSTANTS
    Texts,   \* strings and numbers of scripts
    MaxArgs  \* bound

XMLAssumption == MaxArgs \in Nat

VARIABLES
    sent,  \* what was given to the writer
    xml    \* the XMLWriter

vars == <<sent, xml>>

(* A table of a script has names, or indexes, or both. *)
Table(fields, items) == [t |-> "table", fields |-> fields, items |-> items]
IsTable(v) == v.t = "table"
Scalars == [t : {"value"}, v : Texts]
Arrays == {Table(<<>>, <<v, v>>) : v \in Scalars}
Mixed == {Table(<<<<"x", v>>>>, <<v, v>>) : v \in Scalars}
Objects == {Table(<<<<"x", v>>, <<"y", v>>>>, <<>>) : v \in Scalars}
Elements == Scalars \cup Arrays \cup Objects \cup Mixed
Empty == Table(<<>>, <<>>)
Deep == {Table(<<>>, <<Table(<<>>, <<v>>), u>>) : v \in Arrays, u \in Scalars}
Lists == {Table(<<>>, <<v, u>>) : v, u \in Elements} \cup {Table(<<>>, <<v>>) : v \in Arrays \cup Objects \cup Mixed}
         \cup {Table(<<>>, <<Empty, v>>) : v \in Scalars} \cup Deep
Named == {Table(<<<<"a", v>>>>, <<>>) : v \in {Empty} \cup Lists}
         \cup {Table(<<<<"a", v>>, <<"y", u>>>>, <<>>) : v \in Lists \cup Mixed, u \in Scalars}
Values == Elements \cup Named

-----------------------------------------------------------------------------
(* XMLWriter: the tag that a value is to have, the tags open, and whether the     *)
(* document was begun, or begun twice since its first element is an object.        *)
Tag(name) == [tag |-> name]
Close == [mark |-> ">"]
CloseEmpty == [mark |-> "/>"]
Whole(name) == <<Tag(name), Close>>
NewWriter == [text |-> <<>>, tagName |-> "", queue |-> <<>>, started |-> FALSE, twice |-> FALSE]

Put(x, tokens) == [x EXCEPT !.text = @ \o tokens]
Queued(x) == x.queue # <<>>
Top(x) == Last(x.queue)
SetTop(x, tag) == [x EXCEPT !.queue = Append(Front(@), tag)]
NewTag(name) == [name |-> name, children |-> FALSE, empty |-> FALSE, level |-> 1]

BeginDocument(x, double) ==
    IF x.started THEN x
    ELSE [Put(x, Whole("__array") \o (IF double THEN Whole("__array") ELSE <<>>))
             EXCEPT !.started = TRUE, !.twice = double]

(* The top tag is that of each of the elements of an array. *)
InTag(x) == Queued(x) /\ Top(x).name # "__array" /\ Top(x).level = 1

SetTagHasChilds(x) ==
    IF InTag(x) /\ ~Top(x).children THEN SetTop(Put(x, <<Close>>), [Top(x) EXCEPT !.children = TRUE]) ELSE x

BeginObject(x) ==
    LET y == BeginDocument(x, TRUE) IN
    IF InTag(y) THEN SetTop(Put(y, <<Tag(Top(y).name)>>), [Top(y) EXCEPT !.children = FALSE]) ELSE y

EndObject(x) == IF InTag(x) THEN Put(x, Whole("/" \o Top(x).name)) ELSE x

WritePropertyName(x, name) == [SetTagHasChilds(x) EXCEPT !.tagName = name]

BeginArray(x, size) ==
    LET y == BeginDocument(x, FALSE)
        named == [SetTagHasChilds(y) EXCEPT !.tagName = ""]
        deeper == [Top(y) EXCEPT !.level = @ + 1, !.empty = @ \/ size = 0]
    IN  IF y.tagName # ""
        THEN IF size = 0 THEN Put(named, <<Tag(y.tagName), CloseEmpty>>)
             ELSE [named EXCEPT !.queue = Append(@, NewTag(y.tagName))]
        ELSE IF ~Queued(y) THEN [Put(y, Whole("__array")) EXCEPT !.queue = Append(@, NewTag("__array"))]
        ELSE SetTop(Put(y, IF size = 0 THEN <<Tag(Top(y).name), CloseEmpty>>
                           ELSE IF Top(y).level = 1 THEN Whole(Top(y).name) ELSE Whole("__array")), deeper)

EndArray(x) ==
    LET popped == [x EXCEPT !.queue = Front(@)]
        shallower == SetTop(x, [Top(x) EXCEPT !.level = @ - 1])
    IN  IF ~Queued(x) THEN x
        ELSE IF Top(x).level = 1 THEN IF Top(x).name = "__array" THEN Put(popped, Whole("/__array")) ELSE popped
        ELSE Put(shallower, IF Top(x).level > 2 THEN Whole("/__array")
                            ELSE IF Top(x).empty THEN <<>> ELSE Whole("/" \o Top(x).name))

(* writeRaw, between begin and end. *)
WriteRaw(x, v) ==
    LET y == BeginDocument(x, FALSE)
        name == IF y.tagName # "" THEN y.tagName ELSE IF InTag(y) THEN Top(y).name ELSE "__noname"
    IN  [Put(y, Whole(name) \o <<[value |-> v]>> \o Whole("/" \o name)) EXCEPT !.tagName = ""]

EndWrite(x) == x.text \o Whole("/__array") \o (IF x.twice THEN Whole("/__array") ELSE <<>>)

(* Script::ReadData. *)
RECURSIVE WriteValue(_, _)
WriteFields(x, fields) == FoldLeft(LAMBDA y, f : WriteValue(WritePropertyName(y, f[1]), f[2]), x, fields)
WriteValue(x, v) ==
    LET size == Len(v.items)
        array == BeginArray(x, size)
    IN  IF ~IsTable(v) THEN WriteRaw(x, v.v)
        ELSE IF size = 0 /\ v.fields # <<>> THEN EndObject(WriteFields(BeginObject(x), v.fields))
        ELSE EndArray(FoldLeft(WriteValue,
                 IF v.fields = <<>> THEN array ELSE EndObject(WriteFields(BeginObject(array), v.fields)), v.items))

-----------------------------------------------------------------------------
(* XMLReader: the tags open, each with the name of the subtags that are, or may    *)
(* be, an array (sub); the type found, or one found before its array (next); what  *)
(* is to be done before anything else is read (step).                               *)
Tokens == LET all == EndWrite(xml) IN SubSeq(all, 3, Len(all) - 2)
NewReader == [pos |-> 1, last |-> "none", tagName |-> "", opened |-> FALSE, property |-> FALSE, step |-> "none",
              queue |-> <<>>, next |-> "none", text |-> "", ended |-> FALSE, type |-> "end", value |-> ""]

AtEnd(r) == r.pos > Len(Tokens)
At(r, tokens) == SubSeq(Tokens, r.pos, r.pos + Len(tokens) - 1) = tokens
Skip(r, n) == [r EXCEPT !.pos = @ + n]
SetSub(r, sub, started) == SetTop(r, [Top(r) EXCEPT !.sub = sub, !.started = started])

InSubtags(r) == Queued(r) /\ Top(r).sub # ""
EndSubtagArray(r) == IF InSubtags(r) THEN SetSub(r, "", Top(r).started) ELSE r
RemoveTag(r) == [r EXCEPT !.queue = Front(@), !.last = "end"]

IsValue(r) == ~AtEnd(r) /\ "value" \in DOMAIN Tokens[r.pos]
ParsePrimitive(r) == [Skip(r, 1) EXCEPT !.text = Tokens[r.pos].value, !.last = "value"]

(* A tag with nothing but a value is the value; an array is begun before its first  *)
(* element if the next tag has the same name, or if it is no value.                  *)
AddTag(r, evaluates) ==
    LET name == r.tagName
        read == [Skip(ParsePrimitive(Skip(r, 1)), 2) EXCEPT !.step = "none", !.property = @ \/ evaluates]
        same == At(read, Whole(name)) \/ At(read, <<Tag(name), CloseEmpty>>)
    IN  IF At(r, <<Close>>) /\ IsValue(Skip(r, 1))
        THEN IF ~evaluates THEN read
             ELSE IF same THEN [read EXCEPT !.next = "value", !.last = "array"] ELSE EndSubtagArray(read)
        ELSE IF evaluates THEN [r EXCEPT !.property = TRUE, !.step = "add", !.last = "array"]
        ELSE [r EXCEPT !.step = "none", !.opened = TRUE, !.last = "array",
                       !.queue = Append(@, [name |-> name, sub |-> "", started |-> FALSE])]

IsEndTag(name) == SubSeq(name, 1, 1) = "/"

(* What is found ends what is being read, or is its next element. *)
RECURSIVE Following(_)
Following(r0) ==
    LET r == [r0 EXCEPT !.last = "end", !.ended = FALSE]
        name == Tokens[r.pos].tag
        s == [Skip(r, 1) EXCEPT !.tagName = name]
        after == Skip(s, 1)
        ended == [after EXCEPT !.tagName = SubSeq(name, 2, Len(name))]
    IN  IF r0.last \notin {"none", "end"} \/ AtEnd(r0) THEN [r0 EXCEPT !.ended = r0.last \in {"none", "end"}]
        ELSE IF r.next # "none" THEN [r EXCEPT !.last = r.next, !.next = "none"]
        ELSE IF r.step = "pop" THEN [RemoveTag(r) EXCEPT !.step = "none"]
        ELSE IF r.step # "none" THEN AddTag(r, r.step = "start")
        ELSE IF IsValue(r) THEN IF InSubtags(r) THEN EndSubtagArray(r) ELSE ParsePrimitive(r)
        ELSE IF name \in {"__noname", "/__noname"}
             THEN IF InSubtags(after) THEN EndSubtagArray(after) ELSE Following(after)
        ELSE IF name = "__array" THEN [EndSubtagArray(after) EXCEPT !.last = "array", !.ended = InSubtags(after)]
        ELSE IF IsEndTag(name)
             THEN IF Top(r).name = ended.tagName /\ Top(r).sub # "" THEN [SetSub(ended, "", Top(r).started) EXCEPT !.step = "pop"]
                  ELSE RemoveTag(ended)
        ELSE IF ~Queued(r) THEN AddTag(s, TRUE)
        ELSE IF Top(r).started /\ Top(r).sub # name THEN [SetSub(s, name, FALSE) EXCEPT !.step = "start"]
        ELSE AddTag(SetSub(s, IF Top(r).sub = "" THEN name ELSE Top(r).sub, Top(r).started), ~Top(r).started)

TypeFound(f) == [f EXCEPT !.type = IF f.ended THEN "end" ELSE f.last]
FollowingType(r) == TypeFound(Following(r))

ReadArray(r) ==
    LET s == [r EXCEPT !.last = "none"]
        array == [name |-> "__array", sub |-> "", started |-> FALSE]
    IN  IF ~Queued(s) /\ s.tagName # "__array"
        THEN [s EXCEPT !.queue = <<[array EXCEPT !.sub = s.tagName]>>, !.step = "start"]
        ELSE IF ~Queued(s) \/ s.tagName = "__array" THEN [s EXCEPT !.queue = Append(@, array)]
        ELSE IF Top(s).sub # "" THEN SetSub(s, Top(s).sub, TRUE) ELSE s

ReadItem(r) ==
    LET Item(item) == [item EXCEPT !.property = FALSE,
                                   !.value = IF item.property /\ item.tagName # "__array" THEN item.tagName ELSE ""]
    IN
    IF AtEnd(r) THEN [r EXCEPT !.type = "end"]
    ELSE IF r.opened /\ At(r, <<CloseEmpty>>) THEN [RemoveTag(Skip(r, 1)) EXCEPT !.opened = FALSE, !.type = "end"]
    ELSE Item(FollowingType(IF r.opened THEN [Skip(r, 1) EXCEPT !.opened = FALSE] ELSE r))

(* Script::WriteData: an item with a name is a field of the table. *)
RECURSIVE ReadValue(_), ReadItems(_, _)
ReadItems(r, table) ==
    LET AddValue(name, read) ==
            ReadItems(read, IF name = "" THEN [table EXCEPT !.items = Append(@, read.value)]
                            ELSE [table EXCEPT !.fields = Append(@, <<name, read.value>>)])
        Add(item) == IF item.type = "end" THEN [item EXCEPT !.value = table]
                     ELSE AddValue(item.value, ReadValue(item))
    IN  Add(ReadItem(r))

ReadValue(r) ==
    IF r.type = "value" THEN [r EXCEPT !.last = "none", !.value = [t |-> "value", v |-> r.text]]
    ELSE ReadItems(ReadArray(r), Table(<<>>, <<>>))

RECURSIVE ReadAll(_, _)
ReadAll(r, values) ==
    LET Add(read) == ReadAll(read, Append(values, read.value))
        From(next) == IF next.type = "end" THEN values ELSE Add(ReadValue(next))
    IN  From(FollowingType(r))

-----------------------------------------------------------------------------
TypeOK == /\ Len(sent) <= MaxArgs /\ \A i \in DOMAIN sent : sent[i] \in Values
          /\ xml.queue = <<>> /\ (xml.started <=> sent # <<>>) /\ (xml.twice => xml.started)

Init == sent = <<>> /\ xml = NewWriter

WriteArgument ==
    /\ Len(sent) < MaxArgs
    /\ \E v \in Values : sent' = Append(sent, v) /\ xml' = WriteValue(xml, v)

Next == WriteArgument

Spec == Init /\ [][Next]_vars

-----------------------------------------------------------------------------
(* The tags of one name are an array: a table under a name that has names is read   *)
(* as an array that begins with an object for each of them, and one that is empty   *)
(* as an array of one empty table.                                                    *)
ReadFieldAs(v) ==
    IF ~IsTable(v) THEN v
    ELSE IF v = Empty THEN Table(<<>>, <<Empty>>)
    ELSE Table(<<>>, [i \in DOMAIN v.fields |-> Table(<<v.fields[i]>>, <<>>)] \o v.items)
ReadAs(v) ==
    IF IsTable(v) THEN [v EXCEPT !.fields = [i \in DOMAIN @ |-> <<@[i][1], ReadFieldAs(@[i][2])>>]] ELSE v

IsObject(v) == IsTable(v) /\ v.fields # <<>> /\ v.items = <<>>

(* The reader finds the arrays that were written, though nothing says where one     *)
(* begins but the names of the tags that follow, and what was in them.  Known not    *)
(* to: the objects of several arguments become one.                                   *)
XMLReadsBack ==
    (Len(sent) > 1 => \A i \in DOMAIN sent : ~IsObject(sent[i])) =>
        ReadAll(NewReader, <<>>) = [i \in DOMAIN sent |-> ReadAs(sent[i])]
=============================================================================
