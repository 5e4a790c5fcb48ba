------------------------------- MODULE JSONData -------------------------------
(* What a script sends and reads back in JSON: Script.cpp's ReadData gives the    *)
(* arguments to JSONWriter.cpp, its WriteData takes them from JSONReader.cpp.      *)
(* A token is a character of the syntax, a word or what is between two quotes.    *)
EXTENDS Naturals, Sequences, SequencesExt, FiniteSetsExt

CONSTANTS
    Strings,  \* strings of scripts and of names
    Numbers,  \* numbers of scripts
    MaxArgs   \* bound

JSONAssumption == Numbers \subseteq Nat /\ MaxArgs \in Nat

VARIABLES
    given,  \* what was given to the writer
    out     \* the JSONWriter

vars == <<given, out>>

(* The values of a script.  A table with names only is an object, one with indexes  *)
(* an array, one with both is mixed.                                                 *)
Nil == [t |-> "nil"]
Scalars == {Nil, [t |-> "date"]} \cup [t : {"string"}, s : Strings] \cup [t : {"number"}, n : Numbers]
           \cup [t : {"boolean"}, b : BOOLEAN]
Object(fields) == [t |-> "object", fields |-> fields]
Array(items) == [t |-> "array", items |-> items]
Objects == {Object(<<<<"a", v>>>>) : v \in Scalars} \cup {Object(<<<<"a", Nil>>, <<"b", v>>>>) : v \in Scalars}
Arrays == {Array(<<>>)} \cup {Array(<<v>>) : v \in Scalars} \cup {Array(<<v, Nil>>) : v \in Scalars}
Nested == {Object(<<<<"a", v>>, <<"b", Nil>>>>) : v \in Arrays} \cup {Array(<<v, Nil>>) : v \in Objects}
Mixed == {[t |-> "mixed", fields |-> <<<<"a", v>>>>, items |-> <<v>>] : v \in Scalars}
Values == Scalars \cup Objects \cup Arrays \cup Nested \cup Mixed

-----------------------------------------------------------------------------
(* JSONWriter. *)
Mark(m) == [mark |-> m]
Quoted(s) == [quoted |-> s]
NewWriter == [text |-> <<>>, first |-> TRUE, started |-> FALSE, layers |-> 0]

Put(x, token) == [x EXCEPT !.text = Append(@, token)]

StartData(x, isContainer) ==
    [x EXCEPT !.text = @ \o (IF x.started THEN <<>> ELSE <<Mark("[")>>) \o (IF x.first THEN <<>> ELSE <<Mark(",")>>),
              !.started = TRUE, !.first = @ \/ isContainer, !.layers = IF isContainer THEN @ + 1 ELSE @]

EndData(x, isContainer) == [x EXCEPT !.first = FALSE, !.layers = IF isContainer THEN @ - 1 ELSE @]

WriteRaw(x, token) == EndData(Put(StartData(x, FALSE), token), FALSE)

WritePropertyName(x, name) == [Put(WriteRaw(x, Quoted(name)), Mark(":")) EXCEPT !.first = TRUE]

Begin(x, mark) == Put(StartData(x, TRUE), Mark(mark))
End(x, mark) == IF x.layers = 0 THEN x ELSE EndData(Put(x, Mark(mark)), TRUE)

(* The brackets around all that is sent. *)
EndWrite(x) == IF x.started THEN Append(x.text, Mark("]")) ELSE x.text

(* Script::ReadData: the names of a mixed table are an object, its first element. *)
RECURSIVE WriteValue(_, _)
WriteFields(x, fields) ==
    FoldLeft(LAMBDA y, f : WriteValue(WritePropertyName(y, f[1]), f[2]), x, fields)
WriteItems(x, items) == FoldLeft(WriteValue, x, items)

WriteValue(x, v) ==
    CASE v.t = "nil" -> WriteRaw(x, Mark("null"))
      [] v.t = "boolean" -> WriteRaw(x, Mark(IF v.b THEN "true" ELSE "false"))
      [] v.t = "number" -> WriteRaw(x, [number |-> v.n])
      [] v.t = "string" -> WriteRaw(x, Quoted(v.s))
      [] v.t = "date" -> WriteRaw(x, Quoted("date"))
      [] v.t = "object" -> End(WriteFields(Begin(x, "{"), v.fields), "}")
      [] v.t = "array" -> End(WriteItems(Begin(x, "["), v.items), "]")
      [] v.t = "mixed" -> End(WriteItems(End(WriteFields(Begin(Begin(x, "["), "{"), v.fields), "}"), v.items), "]")

-----------------------------------------------------------------------------
(* JSONReader: its position, _last (the type of the text it keeps, or none) and    *)
(* _bool, which is a boolean, "the string was a name" or "the string is in base 64". *)
Tokens == LET all == EndWrite(out) IN SubSeq(all, 2, Len(all) - 1)
NewReader == [pos |-> 1, last |-> "none", bool |-> FALSE, string |-> "", type |-> "end", value |-> Nil]

AtEnd(r) == r.pos > Len(Tokens)
Is(r, marks) == ~AtEnd(r) /\ Tokens[r.pos] \in {Mark(m) : m \in marks}
Skip(r) == [r EXCEPT !.pos = @ + 1]
Returns(r, v) == [r EXCEPT !.value = v]

(* The separators are skipped wherever they are. *)
Separated(r) ==
    [r EXCEPT !.pos = Min({i \in r.pos .. Len(Tokens) + 1 :
                              i > Len(Tokens) \/ Tokens[i] \notin {Mark(","), Mark("}"), Mark("]")}})]

(* A string is a date unless Date::update sets an error, which it does for a month *)
(* that is not one, not for what is no date: it only returns false.                 *)
TypeOf(s, token) ==
    LET named == Skip(s)
        text == IF s.bool THEN "decoded" ELSE token.quoted
    IN  IF "quoted" \in DOMAIN token
        THEN IF Is(named, {":"})
             THEN [Skip(named) EXCEPT !.string = text, !.last = "string", !.bool = TRUE, !.type = "string"]
             ELSE [named EXCEPT !.string = text, !.last = "date", !.type = "date"]
        ELSE IF "number" \in DOMAIN token THEN [s EXCEPT !.type = "number"]
        ELSE CASE token = Mark("{") -> [s EXCEPT !.type = "object"]
               [] token = Mark("[") -> [s EXCEPT !.type = "array"]
               [] token = Mark("null") -> [s EXCEPT !.type = "nil"]
               [] token = Mark("true") -> [s EXCEPT !.type = "boolean", !.bool = TRUE]
               [] token = Mark("false") -> [s EXCEPT !.type = "boolean", !.bool = FALSE]

NextType(s) == IF AtEnd(s) THEN [s EXCEPT !.type = "end"] ELSE TypeOf(s, Tokens[s.pos])
FollowingType(r) == IF r.last # "none" THEN [r EXCEPT !.type = r.last] ELSE NextType(Separated(r))

(* readItem: the name of a property, if there is one, then the type of its value;   *)
(* in an object a boolean is false whatever it is.                                   *)
Keyed(key) ==
    IF key.type = "string" /\ key.bool
    THEN [FollowingType([key EXCEPT !.last = "none", !.bool = (key.string = "__raw")]) EXCEPT
             !.bool = FALSE, !.value = key.string]
    ELSE [key EXCEPT !.value = ""]

ReadItem(r) ==
    IF AtEnd(r) THEN [r EXCEPT !.type = "end"]
    ELSE IF Is(r, {"}", "]"}) THEN [(IF Is(Skip(r), {","}) THEN Skip(Skip(r)) ELSE Skip(r)) EXCEPT !.type = "end"]
    ELSE Keyed(FollowingType([r EXCEPT !.bool = FALSE]))

(* A boolean taken for false is a letter longer than 'true': the next character goes *)
(* with it.                                                                           *)
ReadBoolean(r) ==
    Returns(IF r.bool \/ Is(r, {"false"}) THEN Skip(r) ELSE Skip(Skip(r)), [t |-> "boolean", b |-> r.bool])

(* Script::WriteData. *)
RECURSIVE ReadValue(_), ReadItems(_, _, _)
ReadItems(r, fields, items) ==
    LET AddValue(name, read) ==
            IF name = "" THEN ReadItems(read, fields, Append(items, read.value))
            ELSE ReadItems(read, Append(fields, <<name, read.value>>), items)
        Add(item) == IF item.type = "end" THEN [item EXCEPT !.value = <<fields, items>>]
                     ELSE AddValue(item.value, ReadValue(item))
    IN  Add(ReadItem(r))

ReadTable(type, r) ==
    Returns(r, IF type = "object" THEN Object(r.value[1]) ELSE Array(r.value[2]))

ReadValue(r) ==
    CASE r.type = "nil" -> Returns(Skip(r), Nil)
      [] r.type = "boolean" -> ReadBoolean(r)
      [] r.type = "number" -> Returns(Skip(r), [t |-> "number", n |-> Tokens[r.pos].number])
      [] r.type = "string" -> [r EXCEPT !.last = "none", !.value = [t |-> "string", s |-> r.string]]
      [] r.type = "date" -> [r EXCEPT !.last = "none", !.value = [t |-> "date"]]
      [] r.type \in {"object", "array"} -> ReadTable(r.type, ReadItems(Skip(r), <<>>, <<>>))

RECURSIVE ReadAll(_, _)
ReadAll(r, values) ==
    LET Add(x) == ReadAll(x, Append(values, x.value))
        From(next) == IF next.type = "end" THEN values ELSE Add(ReadValue(next))
    IN  From(FollowingType(r))

-----------------------------------------------------------------------------
TypeOK == Len(given) <= MaxArgs /\ \A i \in DOMAIN given : given[i] \in Values
          /\ out.layers = 0 /\ (out.started <=> given # <<>>)

Init == given = <<>> /\ out = NewWriter

WriteArgument ==
    /\ Len(given) < MaxArgs
    /\ \E v \in Values : given' = Append(given, v) /\ out' = WriteValue(out, v)

Next == WriteArgument

Spec == Init /\ [][Next]_vars

-----------------------------------------------------------------------------
Fields(v) == IF v.t \in {"object", "mixed"} THEN v.fields ELSE <<>>
Items(v) == IF v.t \in {"array", "mixed"} THEN v.items ELSE <<>>

RECURSIVE TrueIn(_)
TrueIn(v) == \/ \E i \in DOMAIN Fields(v) : Fields(v)[i][2] = [t |-> "boolean", b |-> TRUE] \/ TrueIn(Fields(v)[i][2])
             \/ \E i \in DOMAIN Items(v) : TrueIn(Items(v)[i])

(* What a value is read as: a mixed table is an array that begins with its names,   *)
(* and, if the strings of scripts are taken for dates, so are they.                  *)
RECURSIVE ReadAs(_)
ReadAs(v) ==
    LET fields == [i \in DOMAIN Fields(v) |-> <<Fields(v)[i][1], ReadAs(Fields(v)[i][2])>>]
        items == [i \in DOMAIN Items(v) |-> ReadAs(Items(v)[i])]
    IN  CASE v.t = "object" -> Object(fields)
          [] v.t = "array" -> Array(items)
          [] v.t = "mixed" -> Array(<<Object(fields)>> \o items)
          [] v.t = "string" -> [t |-> "date"]
          [] OTHER -> v

(* Whatever is nested in what, what is read has the shape of what was written.      *)
(* Known not to: what holds a property that is true.                                 *)
ShapeKept ==
    (\A i \in DOMAIN given : ~TrueIn(given[i])) =>
        ReadAll(NewReader, <<>>) = [i \in DOMAIN given |-> ReadAs(given[i])]
=============================================================================
