------------------------------- MODULE DateText -------------------------------
(* Dates as text (Date.cpp, and the codes of zones of Timezone.cpp): a date is   *)
(* written in a format, and read by finding out which format it may be in.  A    *)
(* text is a sequence of characters, but a word is one element of it.            *)
EXTENDS Integers, Sequences, SequencesExt, FiniteSetsExt

CONSTANT Dates  \* dates that are written: fields, and offset in minutes

GMT == 1000     \* special offsets
InZone == -1000

VARIABLES
    date,    \* what was written
    format,  \* in which format
    shown,   \* the elements of it that were written
    text,    \* the text
    read     \* the result of reading it, once it was read

vars == <<date, format, shown, text, read>>

None == <<>>
DateTextAssumption == \A d \in Dates : d.year \in 1970 .. 2069 /\ d.offset \notin {0, InZone}

-----------------------------------------------------------------------------
WEEKDAY_NAMES == <<"Sunday", "Monday", "Tuesday", "Wednesday", "Thursday", "Friday", "Saturday">>
MONTH_NAMES == <<"January", "February", "March", "April", "May", "June", "July", "August",
                 "September", "October", "November", "December">>

Digits == <<"0", "1", "2", "3", "4", "5", "6", "7", "8", "9">>
IsDigit(c) == c \in ToSet(Digits)
IsWord(c) == Len(c) > 1 \/ c \in {"T", "Z"}

Two(n) == <<Digits[(n \div 10) + 1], Digits[(n % 10) + 1]>>
Plain(n) == IF n < 10 THEN <<Digits[n + 1]>> ELSE Two(n)
Spaced(n) == IF n < 10 THEN <<" ", Digits[n + 1]>> ELSE Two(n)

Magnitude(n) == IF n < 0 THEN -n ELSE n

FormatTimezone(d, isISO) ==
    IF d.offset = GMT THEN <<IF isISO THEN "Z" ELSE "GMT">>
    ELSE <<IF d.offset < 0 THEN "-" ELSE "+">> \o Two(Magnitude(d.offset) \div 60)
         \o (IF isISO THEN <<":">> ELSE <<>>) \o Two(Magnitude(d.offset) % 60)

(* What an element of a format writes. *)
Written(item, d) ==
    CASE item \in {"[", "]"} -> <<>>
      [] item = "%w" -> <<SubSeq(WEEKDAY_NAMES[d.week + 1], 1, 3)>>
      [] item = "%W" -> <<WEEKDAY_NAMES[d.week + 1]>>
      [] item = "%b" -> <<SubSeq(MONTH_NAMES[d.month], 1, 3)>>
      [] item = "%B" -> <<MONTH_NAMES[d.month]>>
      [] item = "%d" -> Two(d.day)
      [] item = "%e" -> Plain(d.day)
      [] item = "%f" -> Spaced(d.day)
      [] item = "%m" -> Two(d.month)
      [] item = "%y" -> Two(d.year % 100)
      [] item = "%Y" -> Two(d.year \div 100) \o Two(d.year % 100)
      [] item = "%H" -> Two(d.hour)
      [] item = "%M" -> Two(d.minute)
      [] item = "%S" -> Two(d.second)
      [] item = "%s" -> Two(d.second) \o <<".", Digits[(d.milli \div 100) + 1]>> \o Two(d.milli % 100)
      [] item = "%i" -> <<Digits[(d.milli \div 100) + 1]>> \o Two(d.milli % 100)
      [] item = "%z" -> FormatTimezone(d, TRUE)
      [] item = "%Z" -> FormatTimezone(d, FALSE)
      [] OTHER -> <<item>>

TextOf(items, d) == FlattenSeq([i \in DOMAIN items |-> Written(items[i], d)])

-----------------------------------------------------------------------------
(* The formats by their names; elements that may be missing are between brackets. *)
Items == [
    ISO8601 |-> <<"%Y", "[", "-", "%m", "-", "%d", "T", "%H", ":", "%M", ":", "%S", "%z", "]">>,
    ISO8601_FRAC |-> <<"%Y", "[", "-", "%m", "-", "%d", "T", "%H", ":", "%M", ":", "%s", "%z", "]">>,
    RFC822 |-> <<"[", "%w", ",", " ", "]", "%e", " ", "%b", " ", "%y", " ", "%H", ":", "%M",
                 "[", ":", "%S", "]", " ", "%Z">>,
    RFC1123 |-> <<"%w", ",", " ", "%e", " ", "%b", " ", "%Y", " ", "%H", ":", "%M", ":", "%S", " ", "%Z">>,
    HTTP |-> <<"%w", ",", " ", "%d", " ", "%b", " ", "%Y", " ", "%H", ":", "%M", ":", "%S", " ", "%Z">>,
    RFC850 |-> <<"%W", ",", " ", "%e", "-", "%b", "-", "%y", " ", "%H", ":", "%M", ":", "%S", " ", "%Z">>,
    RFC1036 |-> <<"%W", ",", " ", "%e", " ", "%b", " ", "%y", " ", "%H", ":", "%M", ":", "%S", " ", "%Z">>,
    ASCTIME |-> <<"%w", " ", "%b", " ", "%f", " ", "%H", ":", "%M", ":", "%S", " ", "%Y">>,
    SORTABLE |-> <<"%Y", "-", "%m", "-", "%d", "[", " ", "%H", ":", "%M", ":", "%S", "]">>,
    Compact |-> <<"%Y", "%m", "%d", "T", "%H", "%M", "%S", "[", ".", "%i", "]", "[", "%z", "]">>,
    CompactFrac |-> <<"%Y", "%m", "%d", "T", "%H", "%M", "%S", "[", ".", "%i", "%z", "]">>]
DayFirst == <<"%e", "?", "%b", "?", "%_", " ", "%H", ":", "%M", "[", ":", "%S", " ", "%Z", "]">>

-----------------------------------------------------------------------------
(* The number of digits, at most n, from this place of a text, and their value. *)
DigitsFrom(t, pos, n) ==
    Max({k \in 0 .. n : pos + k - 1 <= Len(t) /\ \A i \in pos .. pos + k - 1 : IsDigit(t[i])})
Value(t, pos, k) ==
    FoldLeft(LAMBDA acc, c : 10 * acc + (CHOOSE i \in 1 .. 10 : Digits[i] = c) - 1, 0, SubSeq(t, pos, pos + k - 1))

Century(year) == IF year >= 100 THEN year ELSE IF year >= 70 THEN year + 1900 ELSE year + 2000

(* Three letters at least of a month's name. *)
ParseMonth(word) ==
    LET named == {m \in 1 .. 12 : Len(word) >= 3 /\ Len(word) <= Len(MONTH_NAMES[m])
                                    /\ SubSeq(MONTH_NAMES[m], 1, Len(word)) = word}
    IN  IF named = {} THEN 0 ELSE Min(named)

(* Some of the zones' codes: their offset, and whether it is daylight saving time. *)
Zone(minutes, isDST) == [offset |-> minutes, isDST |-> isDST]
Timezones == [CET |-> Zone(60, FALSE), CEST |-> Zone(120, TRUE), EST |-> Zone(-300, FALSE),
              IRST |-> Zone(210, FALSE)]
Offset(code) ==
    IF code \in DOMAIN Timezones THEN Timezones[code] ELSE Zone(GMT, FALSE)

(* A code, and an offset that is added to it. *)

ParseTimezone(acc, t) ==
    LET coded == IsWord(t[acc.pos])
        zone == IF coded THEN Offset(t[acc.pos]) ELSE Zone(0, FALSE)
        sign == IF coded THEN acc.pos + 1 ELSE acc.pos
        hours == DigitsFrom(t, sign + 1, 2)
        colon == IF sign + 1 + hours <= Len(t) /\ t[sign + 1 + hours] = ":" THEN 1 ELSE 0
        minutes == DigitsFrom(t, sign + 1 + hours + colon, 2)
        moved == 60 * Value(t, sign + 1, hours) + Value(t, sign + 1 + hours + colon, minutes)
    IN  IF sign > Len(t) \/ t[sign] \notin {"+", "-"}
        THEN [acc EXCEPT !.pos = sign, !.offset = zone.offset, !.isDST = zone.isDST]
        ELSE [acc EXCEPT !.pos = sign + 1 + hours + colon + minutes, !.isDST = zone.isDST,
                         !.offset = (IF zone.offset = GMT THEN 0 ELSE zone.offset)
                                    + (IF t[sign] = "+" THEN moved ELSE -moved)]

(* A directive reads from where the text is, whether or not it is optional. *)
Directive(acc, item, t) ==
    LET Read(width, from) ==
            LET k == DigitsFrom(t, from, width) IN [pos |-> from + k, value |-> Value(t, from, k)]
        two == Read(2, acc.pos)
        spaced == Read(2, IF t[acc.pos] = " " THEN acc.pos + 1 ELSE acc.pos)
    IN  CASE item \in {"%w", "%W"} -> [acc EXCEPT !.pos = IF IsWord(t[@]) THEN @ + 1 ELSE @]
          [] item \in {"%b", "%B"} -> [acc EXCEPT !.pos = IF IsWord(t[@]) THEN @ + 1 ELSE @,
                                                  !.month = ParseMonth(t[acc.pos])]
          [] item \in {"%d", "%e", "%f"} -> [acc EXCEPT !.pos = spaced.pos, !.day = spaced.value]
          [] item = "%m" -> [acc EXCEPT !.pos = two.pos, !.month = two.value]
          [] item = "%y" -> [acc EXCEPT !.pos = two.pos, !.year = Century(two.value)]
          [] item = "%Y" -> LET r == Read(4, acc.pos) IN [acc EXCEPT !.pos = r.pos, !.year = r.value]
          [] item = "%_" -> LET r == Read(9, acc.pos) IN [acc EXCEPT !.pos = r.pos, !.year = Century(r.value)]
          [] item = "%H" -> [acc EXCEPT !.pos = two.pos, !.hour = two.value]
          [] item = "%M" -> [acc EXCEPT !.pos = two.pos, !.minute = two.value]
          [] item = "%S" -> [acc EXCEPT !.pos = two.pos, !.second = two.value]
          [] item = "%s" ->
                LET point == two.pos <= Len(t) /\ t[two.pos] \in {".", ","}
                    r == Read(3, two.pos + 1)
                    scale == IF r.pos = two.pos + 1 THEN 0 ELSE 10 ^ (3 - (r.pos - two.pos - 1))
                IN  [acc EXCEPT !.second = two.value, !.pos = IF point THEN r.pos ELSE two.pos,
                                !.milli = IF point THEN r.value * scale ELSE @]
          [] item = "%i" -> LET r == Read(3, acc.pos) IN [acc EXCEPT !.pos = r.pos, !.milli = r.value]
          [] OTHER -> ParseTimezone(acc, t)

IsDirective(item) == Len(item) = 2

(* One element of the format: 'optional' counts the brackets, negatively once the  *)
(* text has been found to leave out what they hold.                                *)
Taken(acc, item, t) ==
    IF acc.pos > Len(t) \/ ~acc.ok THEN acc
    ELSE IF item = "[" THEN [acc EXCEPT !.optional = IF @ >= 0 THEN @ + 1 ELSE @ - 1]
    ELSE IF item = "]" THEN [acc EXCEPT !.optional = IF @ > 0 THEN @ - 1 ELSE @ + 1]
    ELSE IF IsDirective(item) THEN Directive(acc, item, t)
    ELSE IF item = "?" \/ (acc.optional >= 0 /\ item = t[acc.pos]) THEN [acc EXCEPT !.pos = @ + 1]
    ELSE IF acc.optional < 0 THEN acc
    ELSE IF acc.optional > 0 THEN [acc EXCEPT !.optional = -@]
    ELSE [acc EXCEPT !.ok = FALSE]

AtLeastOne(n) == IF n < 1 THEN 1 ELSE n

Parsed(end) ==
    IF ~end.ok THEN None
    ELSE [year |-> end.year, month |-> AtLeastOne(end.month), day |-> AtLeastOne(end.day), hour |-> end.hour,
          minute |-> end.minute, second |-> end.second, milli |-> end.milli,
          offset |-> end.offset, isDST |-> end.isDST]

Parse(items, t) ==
    LET start == [pos |-> 1, ok |-> TRUE, optional |-> 0, year |-> 0, month |-> 0, day |-> 0, hour |-> 0,
                  minute |-> 0, second |-> 0, milli |-> 0, offset |-> InZone, isDST |-> FALSE]
    IN  Parsed(FoldLeft(LAMBDA acc, item : Taken(acc, item, t), start, items))

-----------------------------------------------------------------------------
(* The characters of a text: all letters of a word are alike. *)
Chars(t) == FlattenSeq([i \in DOMAIN t |-> IF Len(t[i]) = 1 THEN <<t[i]>> ELSE [k \in 1 .. Len(t[i]) |-> "a"]])

(* The format, from the first characters, then from the first separator. *)
ParseAuto(t) ==
    LET cs == Chars(t)
        head == SubSeq(cs, 1, Min({10, Len(cs)}))
        tPos == Max({0} \cup {i - 1 : i \in {j \in DOMAIN cs : cs[j] = "T"}})
        Places(s, set) == {i \in DOMAIN s : s[i] \in set}
        early == Places(head, {" ", "."})
        later == {i \in Places(cs, {" ", ".", ","}) : i > 10}
        separator == IF Len(cs) >= 10 /\ early # {} THEN cs[Max(early)]
                     ELSE IF later # {} THEN cs[Min(later)] ELSE "none"
    IN  IF Len(cs) > 50 \/ Len(cs) < 4 THEN None
        ELSE IF cs[4] = "," THEN Parse(<<"%w", ",", " ">> \o DayFirst, t)
        ELSE IF cs[4] = " " THEN Parse(Items.ASCTIME, t)
        ELSE IF IsDigit(cs[1]) /\ ~(IsDigit(cs[2]) /\ IsDigit(cs[3])) THEN Parse(DayFirst, t)
        ELSE IF Places(head, {","}) # {} THEN Parse(<<"%W", ",", " ">> \o DayFirst, t)
        ELSE IF Len(cs) >= 10 /\ ~IsDigit(cs[1]) THEN None
        ELSE IF separator = " " \/ (separator = "none" /\ Len(cs) = 10) THEN Parse(Items.SORTABLE, t)
        ELSE IF separator # "none"
             THEN Parse(IF tPos = 8 THEN Items.CompactFrac ELSE Items.ISO8601_FRAC, t)
        ELSE IF Len(cs) < 10 \/ tPos = 10 THEN Parse(Items.ISO8601, t)
        ELSE IF tPos = 8 THEN Parse(Items.Compact, t)
        ELSE None

-----------------------------------------------------------------------------
(* What is left of a format without its first optional part. *)
WithoutFirst(items) ==
    LET open == SelectInSeq(items, LAMBDA item : item = "[")
        close == SelectInSeq(items, LAMBDA item : item = "]")
    IN  SubSeq(items, 1, open - 1) \o SubSeq(items, close + 1, Len(items))

Init == date \in Dates /\ format = "none" /\ shown = None /\ text = None /\ read = None

Appears(name, elements, characters) ==
    /\ text = None
    /\ format' = name /\ shown' = elements /\ text' = characters
    /\ UNCHANGED <<date, read>>

Write(name) == Appears(name, Items[name], TextOf(Items[name], date))

(* Another program leaves out an optional part, or writes the code of a zone. *)
WriteShort(name) ==
    /\ "[" \in ToSet(Items[name])
    /\ LET short == WithoutFirst(Items[name]) IN Appears(name, short, TextOf(short, date))
WriteCode(code) ==
    /\ date.offset = Offset(code).offset
    /\ Appears("HTTP", Items.HTTP, TextOf(SubSeq(Items.HTTP, 1, Len(Items.HTTP) - 1), date) \o <<code>>)

ReadAuto == text # None /\ read = None /\ read' = <<ParseAuto(text)>> /\ UNCHANGED <<date, format, shown, text>>
ReadAs == text # None /\ read = None /\ read' = <<Parse(Items[format], text)>> /\ UNCHANGED <<date, format, shown, text>>

Next ==
    \/ \E name \in DOMAIN Items : Write(name) \/ WriteShort(name)
    \/ \E code \in {"Z", "GMT"} \cup DOMAIN Timezones : WriteCode(code)
    \/ ReadAuto \/ ReadAs

-----------------------------------------------------------------------------
Shows(directives) == ToSet(shown) \cap directives # {}

(* A date is read as it was written, found out or told its format, but for what is  *)
(* left out: the first of the month or year, midnight, the local zone.               *)
ReadAsWritten ==
    \A i \in DOMAIN read :
        LET r == read[i] IN
            /\ r # None /\ r.year = date.year
            /\ r.month = IF Shows({"%m", "%b"}) THEN date.month ELSE 1
            /\ r.day = IF Shows({"%d", "%e", "%f"}) THEN date.day ELSE 1
            /\ \A field \in {"hour", "minute"} : r[field] = IF Shows({"%H"}) THEN date[field] ELSE 0
            /\ r.second = IF Shows({"%S", "%s"}) THEN date.second ELSE 0
            /\ r.milli = IF Shows({"%s", "%i"}) THEN date.milli ELSE 0
            /\ r.offset = IF Shows({"%z", "%Z"}) THEN date.offset ELSE InZone
            /\ r.isDST = (Last(text) \in DOMAIN Timezones /\ Timezones[Last(text)].isDST)
=============================================================================
