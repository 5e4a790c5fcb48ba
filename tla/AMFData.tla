---- MODULE AMFData ----
(* What a script sends and reads back in AMF: Script.cpp's ReadData gives the    *)
(* arguments to AMFWriter.cpp, Script.cpp's WriteData takes them from             *)
(* AMFReader.cpp.  Strings and tables that were written are written again as     *)
(* their rank, so that the two ends must count alike.                             *)
(* A token stands for the bytes of a marker, a length or a content.  A table of  *)
(* the script is its content: two tables that are equal are one.                 *)
EXTENDS Naturals, FiniteSets, Sequences, SequencesExt, Functions, TLC

CONSTANTS
    Strings,    \* strings of scripts and of names
    Numbers,    \* numbers of scripts
    MaxInteger, \* AMF_MAX_INTEGER: what is above is a double
    MaxArgs     \* bound

AMFAssumption == Numbers \subseteq Nat /\ MaxInteger \in Nat /\ MaxArgs \in Nat

VARIABLES
    args,  \* what was given to the writer
    w,     \* the AMFWriter
    seen   \* references: the tables written as arguments, and their reference

vars == <<args, w, seen>>

(* The values of a script. *)
Nil == [t |-> "nil"]
Scalars == [t : {"string"}, s : Strings] \cup [t : {"number"}, n : Numbers]
Object(type, fields) == [t |-> "object", type |-> type, fields |-> fields]
Flat == {Object("", <<<<"a", v>>>>) : v \in Scalars} \cup {Object("T", <<<<"a", v>>, <<"b", v>>>>) : v \in Scalars}
Nested == {Object("", <<<<"b", o>>, <<"a", Nil>>>>) : o \in Flat}
Leaves == {[t |-> "date"], [t |-> "bytes"]}
Arrays == {[t |-> "array", fields |-> f, items |-> <<v>>] :
             f \in {<<>>, <<<<"a", Nil>>>>}, v \in Scalars \cup Leaves \cup {Object("", <<<<"a", Nil>>>>)}}
Maps == {[t |-> "map", pairs |-> <<k, v>>] : k \in Scalars, v \in Leaves \cup {Object("", <<<<"a", Nil>>>>)}}
Values == {Nil} \cup Scalars \cup Leaves \cup Flat \cup Nested \cup Arrays \cup Maps
IsTable(v) == v.t \in {"object", "array", "map", "date", "bytes"}

-----------------------------------------------------------------------------
(* AMFWriter.  The byte that is AMF3's null is that of an empty text as well.    *)
Mark(m) == [mark |-> m]
Content(v) == [content |-> v]
Inline(v) == [inline |-> v]
Rank(n) == [rank |-> n]
Has(token, field) == field \in DOMAIN token
Null3 == Mark("null3")

NewWriter(preference) ==
    [out |-> <<>>, amf3 |-> FALSE, pref |-> preference, strings |-> <<>>, references |-> <<>>,
     stack |-> <<>>, last |-> 0]

Put(x, tokens) == [x EXCEPT !.out = @ \o tokens]
Switch(x) == IF x.amf3 THEN <<>> ELSE <<Mark("avm")>>
Referred(x, mark) == [x EXCEPT !.references = Append(@, mark), !.last = Len(x.references) + 1]

WriteText(x, text) ==
    IF text = "" THEN Put(x, <<Null3>>)
    ELSE IF text \in DOMAIN x.strings THEN Put(x, <<Rank(x.strings[text])>>)
    ELSE [Put(x, <<Inline(text)>>) EXCEPT !.strings = @ @@ (text :> Cardinality(DOMAIN @))]

WriteString(x, text) ==
    IF ~x.amf3 /\ x.pref THEN Put(x, <<Mark("string"), Content(text)>>)
    ELSE WriteText(Put(x, Switch(x) \o <<Mark("string3")>>), text)

WritePropertyName(x, name) ==
    IF x.amf3 THEN WriteText(x, name) ELSE Put(x, <<Content(name)>>)

WriteNumber(x, n) ==
    IF ~x.pref /\ n <= MaxInteger THEN Put(x, Switch(x) \o <<Mark("integer3"), Content(n)>>)
    ELSE Put(x, <<Mark(IF x.amf3 THEN "number3" ELSE "number"), Content(n)>>)

WriteDate(x) ==
    IF ~x.amf3 /\ x.pref THEN [Put(x, <<Mark("date"), Content("date")>>) EXCEPT !.last = 0]
    ELSE Referred(Put(x, Switch(x) \o <<Mark("date3"), Inline(0), Content("date")>>), "date3")

WriteBytes(x) == Referred(Put(x, Switch(x) \o <<Mark("bytes3"), Inline(1), Content("bytes")>>), "bytes3")

Opened(x, reference, isObject) ==
    [x EXCEPT !.stack = Append(@, [reference |-> reference, isObject |-> isObject])]

BeginObject(x, type) ==
    IF ~x.amf3 /\ x.pref
    THEN Opened([Put(x, <<Mark(IF type = "" THEN "object" ELSE "typed")>>
                        \o (IF type = "" THEN <<>> ELSE <<Mark("string"), Content(type)>>)) EXCEPT !.last = 0], 0, TRUE)
    ELSE LET y == [Referred(Put(x, Switch(x) \o <<Mark("object3"), Inline(0)>>), "object3") EXCEPT !.amf3 = TRUE]
         IN  WriteText(Opened(y, y.last, TRUE), type)

BeginArray(x, size) ==
    LET y == [Referred(Put(x, Switch(x) \o <<Mark("array3"), Inline(size)>>), "array3") EXCEPT !.amf3 = TRUE]
    IN  Opened(Opened(y, y.last, FALSE), y.last, FALSE)

BeginMap(x, size) ==
    LET y == [Referred(Put(x, Switch(x) \o <<Mark("map3"), Inline(size), Content("weak")>>), "map3") EXCEPT !.amf3 = TRUE]
    IN  Opened(y, y.last, FALSE)


(* endObject, which endArray and endMap are too. *)
EndObject(x) ==
    LET top == Last(x.stack)
        y == [x EXCEPT !.stack = Front(@), !.last = top.reference]
    IN  IF top.isObject /\ ~x.amf3 THEN Put(y, <<Content(""), Mark("end")>>)
        ELSE [Put(y, <<Null3>>) EXCEPT !.amf3 = y.stack # <<>>]

Repeat(x, reference) == Put(x, Switch(x) \o <<Mark(x.references[reference]), Rank(reference - 1)>>)

(* Script::ReadData.  What a table holds has no references of its own. *)
RECURSIVE WriteValue(_, _)
WriteFields(x, fields) ==
    FoldLeft(LAMBDA y, f : WriteValue(WritePropertyName(y, f[1]), f[2]), x, fields)

WriteValue(x, v) ==
    CASE v.t = "nil" -> Put(x, <<IF x.amf3 THEN Null3 ELSE Mark("null")>>)
      [] v.t = "string" -> WriteString(x, v.s)
      [] v.t = "number" -> WriteNumber(x, v.n)
      [] v.t = "date" -> WriteDate(x)
      [] v.t = "bytes" -> WriteBytes(x)
      [] v.t = "object" -> EndObject(WriteFields(BeginObject(x, v.type), v.fields))
      [] v.t = "array" ->
            LET y == EndObject(WriteFields(BeginArray(x, Len(v.items)), v.fields))
            IN  EndObject(FoldLeft(WriteValue, y, v.items))
      [] v.t = "map" -> EndObject(FoldLeft(WriteValue, BeginMap(x, Len(v.pairs) \div 2), v.pairs))

-----------------------------------------------------------------------------
(* AMFReader: its position, the position of an AMF3 value that begins there or   *)
(* 0, the positions counted, and the objects open.  What it reads is the last.   *)
NewReader == [pos |-> 1, amf3 |-> 0, strings |-> <<>>, references |-> <<>>, defs |-> <<>>, value |-> Nil]

Token(r) == w.out[r.pos]
Skip(r, n) == [r EXCEPT !.pos = @ + n]

(* followingType, without the references of AMF0, which the writer never writes. *)
Following(r) ==
    LET amf3 == IF r.amf3 = r.pos THEN r.amf3 ELSE IF r.defs = <<>> THEN 0 ELSE Last(r.defs).amf3
    IN  IF r.pos <= Len(w.out) /\ amf3 = 0 /\ Token(r) = Mark("avm")
        THEN [r EXCEPT !.pos = @ + 1, !.amf3 = r.pos + 1] ELSE [r EXCEPT !.amf3 = amf3]

ReadText(r) ==
    LET token == Token(r)
        text == IF token = Null3 THEN "" ELSE IF Has(token, "rank") THEN w.out[r.strings[token.rank + 1]].inline
                ELSE IF Has(token, "inline") THEN token.inline ELSE token.content
        counted == r.amf3 # 0 /\ Has(token, "inline")
    IN  [Skip(r, 1) EXCEPT !.value = text, !.strings = IF counted THEN Append(@, r.pos) ELSE @]

(* The place of the content that follows a marker, counted when it is inline,    *)
(* and where to read on after it.                                                 *)
Place(r) ==
    LET token == Token(r) IN
    IF Has(token, "inline") THEN [at |-> r.pos, reset |-> 0, references |-> Append(r.references, r.pos)]
    ELSE [at |-> r.references[token.rank + 1], reset |-> r.pos + 1, references |-> r.references]

Begin(r, kind) ==
    LET p == Place(r) IN
    [r EXCEPT !.pos = p.at + 1, !.references = p.references,
              !.defs = Append(@, [amf3 |-> r.amf3, kind |-> kind, count |-> w.out[p.at].inline, reset |-> p.reset])]

End(r) == [r EXCEPT !.pos = IF Last(r.defs).reset # 0 THEN Last(r.defs).reset ELSE @, !.defs = Front(@)]

Returns(r, v) == [r EXCEPT !.value = v]

RECURSIVE ReadValue(_), ReadFields(_, _), ReadItems(_, _, _), ReadMarked(_, _)

(* Properties to the empty name; what reads an item takes the mode of its object. *)
ReadFields(r, fields) ==
    LET Add(name, item) == ReadFields(item, Append(fields, <<name, item.value>>))
        Named(s) == IF s.value = "" THEN Returns(s, fields) ELSE Add(s.value, ReadValue(s))
    IN  Named(ReadText([r EXCEPT !.amf3 = Last(r.defs).amf3]))

ReadItems(r, n, items) ==
    LET Add(item) == ReadItems(item, n - 1, Append(items, item.value))
    IN  IF n = 0 THEN Returns(r, items) ELSE Add(ReadValue([r EXCEPT !.amf3 = Last(r.defs).amf3]))

ReadObject(r) ==
    LET begun == IF r.amf3 # 0 THEN ReadText(Begin(r, "object"))
                 ELSE Returns([r EXCEPT !.defs = Append(@, [amf3 |-> 0, kind |-> "object", count |-> 0, reset |-> 0])], "")
        Ended(read) == IF Last(read.defs).amf3 = 0 THEN Skip(read, 1) ELSE read
        Named(type, read) == Returns(End(Ended(read)), Object(type, read.value))
        Read(s) == Named(s.value, ReadFields(s, <<>>))
    IN  Read(begun)

(* readArray begins a rank at the first of the references (Script gives it 0). *)
ReadArray(r) ==
    LET begun == Begin(IF Has(Token(r), "rank") THEN [r EXCEPT !.references = <<r.references[1]>>] ELSE r, "array")
        Ended(fields, read) == Returns(End(read), [t |-> "array", fields |-> fields, items |-> read.value])
        Items(read) == Ended(read.value, ReadItems(read, Last(read.defs).count, <<>>))
    IN  Items(ReadFields(begun, <<>>))

ReadMap(r) ==
    LET Ended(read) == Returns(End(read), [t |-> "map", pairs |-> read.value])
        Pairs(s) == ReadItems(Skip(s, 1), 2 * Last(s.defs).count, <<>>)
    IN  Ended(Pairs(Begin(r, "map")))

(* readDate and readBytes: a ranked array of bytes takes its size of what follows. *)
ReadLeaf(r, t) ==
    LET p == Place(r)
        size == IF t = "bytes" THEN w.out[p.at].inline ELSE 0
    IN  Returns([r EXCEPT !.references = p.references,
                          !.pos = IF p.reset # 0 THEN p.reset + size ELSE p.at + 2], [t |-> t])

(* Script::WriteData. *)
ReadMarked(m, s) ==
    CASE m \in {"null", "null3"} -> Returns(s, Nil)
      [] m \in {"number", "number3", "integer3"} -> Returns(Skip(s, 1), [t |-> "number", n |-> Token(s).content])
      [] m \in {"string", "string3"} -> LET x == ReadText(s) IN Returns(x, [t |-> "string", s |-> x.value])
      [] m = "date" -> Returns(Skip(s, 1), [t |-> "date"])
      [] m = "date3" -> ReadLeaf(s, "date")
      [] m = "bytes3" -> ReadLeaf(s, "bytes")
      [] m \in {"object", "object3"} -> ReadObject(s)
      [] m = "array3" -> ReadArray(s)
      [] m = "map3" -> ReadMap(s)

ReadValue(r) ==
    LET From(s) == ReadMarked(Token(s).mark, Skip(s, 1)) IN From(Following(r))

RECURSIVE ReadAll(_, _)
ReadAll(r, values) ==
    IF Following(r).pos > Len(w.out) THEN values
    ELSE LET Add(x) == ReadAll(x, Append(values, x.value)) IN Add(ReadValue(r))

-----------------------------------------------------------------------------
TypeOK ==
    /\ Len(args) <= MaxArgs /\ \A i \in DOMAIN args : args[i] \in Values
    /\ w.stack = <<>> /\ ~w.amf3 /\ Range(seen) \subseteq 0 .. Len(w.references)

Init == args = <<>> /\ (\E preference \in BOOLEAN : w = NewWriter(preference)) /\ seen = <<>>

(* An argument: a table that was an argument is repeated if it has a reference. *)
WriteArgument ==
    /\ Len(args) < MaxArgs
    /\ \E v \in Values :
          /\ args' = Append(args, v)
          /\ IF v \in DOMAIN seen /\ seen[v] # 0
             THEN w' = Repeat(w, seen[v]) /\ UNCHANGED seen
             ELSE /\ w' = WriteValue([w EXCEPT !.last = 0], v)
                  /\ seen' = IF IsTable(v) THEN (v :> w'.last) @@ seen ELSE seen

Next == WriteArgument

Spec == Init /\ [][Next]_vars

-----------------------------------------------------------------------------
Repeated(i) == IsTable(args[i]) /\ \E j \in 1 .. i - 1 : args[j] = args[i]
Typed(v) == v.t = "object" /\ (v.type # "" \/ \E i \in DOMAIN v.fields : v.fields[i][2].t = "object" /\ v.fields[i][2].type # "")

(* An array and a dictionary are followed by a null, as their end is written as  *)
(* that of an object is (AMFWriter.cpp:238-255).                                   *)
Expected(i) == <<args[i]>> \o (IF args[i].t \in {"array", "map"} /\ ~Repeated(i) THEN <<Nil>> ELSE <<>>)

====
