---- MODULE Dates ----
(* A date (Date.cpp, Date.h) and the local zone it may be in (Timezone.cpp).  A  *)
(* date keeps both its fields and its time, and computes one from the other only *)
(* when asked: any setter may leave it between the two.  Minutes and seconds are *)
(* as hours; a day has Day units, two to an hour, which the milliseconds count.  *)
EXTENDS Integers, Sequences, SequencesExt, FiniteSets, FiniteSetsExt

CONSTANTS
    Hours,      \* hours in a day
    Years,      \* years, months and days that are set
    Months,
    DaysSet,
    Times,      \* times that are given
    Nows,       \* times that may be now
    Offsets,    \* offsets that are given, in units
    Zone,       \* the zone's standard offset
    Types,      \* of its database: the types [offset, isDST]...
    Entries,    \* ... and the transitions <<time, type>>, in order
    FreshDays,  \* days after the 28th are given to a date never used
    MaxSteps    \* bound

GMT == 1000    \* special offsets
InZone == -1000

VARIABLES
    d,      \* the object
    asked,  \* history: what the last operation that gave a whole date asked for
    exact,  \* history: the fields come from the time
    steps   \* counter of the bound

vars == <<d, asked, exact, steps>>

Day == 2 * Hours
Nothing == <<>>

DateAssumption ==
    /\ Hours \in Nat \ {0} /\ MaxSteps \in Nat /\ FreshDays \in BOOLEAN
    /\ \A i \in DOMAIN Entries : i > 1 => Entries[i - 1][1] < Entries[i][1]

-----------------------------------------------------------------------------
(* C's division. *)
Quot(a, b) == IF a >= 0 THEN a \div b ELSE -((-a) \div b)
Rem(a, b) == a - b * Quot(a, b)

IsLeapYear(year) == year % 400 = 0 \/ (year % 4 = 0 /\ year % 100 # 0)

MonthDays == <<<<0, 31, 59, 90, 120, 151, 181, 212, 243, 273, 304, 334>>,
               <<0, 31, 60, 91, 121, 152, 182, 213, 244, 274, 305, 335>>>>
DaysBefore(year, month) == MonthDays[IF IsLeapYear(year) THEN 2 ELSE 1][month]

LeapYears(year) ==
    Quot(year, 4) - Quot(year, 100) + Quot(year, 400) - 477 - (IF year <= 0 THEN 1 ELSE 0)

WeekDayOf(days) ==
    LET moved == days + 4 IN
    IF moved < 0 THEN Rem(moved + 1, 7) + 6 ELSE moved % 7

-----------------------------------------------------------------------------
(* The zone: its transitions in universal time, and in what the code takes for  *)
(* local time, that of the last standard type.                                   *)
Transitions ==
    FoldLeft(LAMBDA acc, e :
        IF e[2] \notin DOMAIN Types THEN acc
        ELSE LET type == Types[e[2]]
                 standard == IF type.isDST THEN acc.standard ELSE type.offset
             IN  [standard |-> standard,
                  times |-> acc.times \cup {[at |-> e[1], type |-> type]},
                  locals |-> acc.locals \cup {[at |-> e[1] + standard, type |-> type]}],
        [standard |-> Zone, times |-> {}, locals |-> {}], Entries)

Standard == [offset |-> Zone, isDST |-> FALSE]

(* The type from the transition before this time; outside the table, and without *)
(* rules for what follows it, standard time.                                      *)
TypeAt(table, time) ==
    LET after == {t \in table : t.at >= time}
        upTo == {t \in table : t.at <= time}
        first == Min({t.at : t \in table})
    IN  IF after = {} \/ time <= first THEN Standard
        ELSE (CHOOSE t \in upTo : \A u \in upTo : u.at <= t.at).type

LocalOffset(time) == TypeAt(Transitions.times, time)

(* For a date whose time is, for the moment, its local one. *)
LocalOffsetOf(date) ==
    IF date.year < 1916 \/ (date.year = 1916 /\ (date.month < 4 \/ (date.month = 4 /\ date.day < 30)))
    THEN Standard ELSE TypeAt(Transitions.locals, date.time)

-----------------------------------------------------------------------------
(* update(time, offset): the year is found by guessing with years of 366 days    *)
(* and correcting until the guess stays.                                          *)
RECURSIVE Guess(_, _, _)
Guess(days, year, delta) ==
    LET next == Quot(days, 366)
        correction == next - LeapYears(next + 1970)
    IN  IF next = year THEN [days |-> days, year |-> year]
        ELSE Guess(days - delta + correction, next, correction)

(* From the guess: a day before the first is one of the year before. *)
Counted(negative, guessed, days) ==
    LET counted == IF guessed > 0 /\ IsLeapYear(guessed) THEN days + 1 ELSE days
        year == IF negative /\ counted < 0 THEN guessed - 1 ELSE guessed
    IN  [year |-> year,
         day |-> IF ~negative THEN counted
                 ELSE IF counted < 0 THEN counted + 1 + (IF IsLeapYear(year) THEN 366 ELSE 365)
                 ELSE counted + 1]

(* The year and the day in it, from 1, of local time. *)
YearAndDay(time) ==
    LET days == time \div Day
        g == Guess(IF time >= 0 THEN days + 1 ELSE days, 0, 0)
    IN  Counted(time < 0, g.year + 1970, Rem(g.days, 366))

MonthOf(y) == Max({m \in 1 .. 12 : m = 1 \/ y.day > DaysBefore(y.year, m)})

FieldsOf(time, type, isLocal, y) ==
    LET local == time + type.offset IN
    [year |-> y.year, month |-> MonthOf(y), day |-> y.day - DaysBefore(y.year, MonthOf(y)),
     week |-> WeekDayOf(local \div Day), hour |-> (local % Day) \div 2, milli |-> local % 2,
     offset |-> type.offset, isDST |-> type.isDST, isLocal |-> isLocal, changed |-> FALSE, time |-> time]

FromTime(date, time, offset) ==
    LET type == IF offset = InZone THEN LocalOffset(time)
                ELSE [offset |-> IF offset = GMT THEN 0 ELSE offset, isDST |-> FALSE]
    IN  FieldsOf(time, type, offset = InZone, YearAndDay(time + type.offset))

(* What every getter does first: a date never used is now. *)
Used(date, now) == IF date.day = 0 THEN FromTime(date, now, date.offset) ELSE date

-----------------------------------------------------------------------------
(* Setters.  The order of those of a whole date is the code's. *)
SetYear(date, year) ==
    IF date.day > 0 /\ year = date.year THEN date ELSE [date EXCEPT !.year = year, !.changed = TRUE]

SetMonth(date, m) ==
    LET month == IF m < 1 THEN 1 ELSE IF m > 12 THEN 12 ELSE m IN
    IF date.day > 0 /\ month = date.month THEN date ELSE [date EXCEPT !.month = month, !.changed = TRUE]

(* A day after the 28th depends on the month, which for a date never used is that *)
(* of now: all the other fields become now's as well.                             *)
KeepDay(used, day) ==
    LET long == IF used.month < 8 THEN used.month % 2 = 1 ELSE used.month % 2 = 0
        last == IF used.month = 2 THEN IF IsLeapYear(used.year) THEN 29 ELSE 28 ELSE IF long THEN 31 ELSE 30
        kept == IF day > 28 /\ day > last THEN last ELSE day
    IN  IF ~used.changed /\ kept = used.day THEN used
        ELSE [used EXCEPT !.day = kept, !.changed = TRUE]

SetDay(date, wanted, now) ==
    LET day == IF wanted < 1 THEN 1 ELSE IF wanted > 31 THEN 31 ELSE wanted IN
    IF date.day > 0 /\ wanted = date.day THEN date
    ELSE KeepDay(IF day > 28 THEN Used(date, now) ELSE date, day)

SetHour(date, hour) ==
    IF date.day > 0 /\ hour = date.hour THEN date ELSE [date EXCEPT !.hour = hour, !.changed = TRUE]

(* Milliseconds do not spoil the time: they are added to it. *)
SetMillisecond(date, milli) ==
    IF date.day > 0 /\ milli = date.milli THEN date
    ELSE [date EXCEPT !.milli = milli,
                      !.time = IF date.changed THEN @ ELSE @ - date.milli + milli]

(* The fields stay and the time moves.  The sign of the old offset is the code's, *)
(* right for none only.                                                           *)
SetOffset(date, offset) ==
    IF date.day = 0 THEN [date EXCEPT !.offset = offset]
    ELSE IF offset = InZone /\ (date.offset = InZone \/ date.isLocal) THEN date
    ELSE IF offset = GMT /\ date.offset \in {GMT, 0} THEN [date EXCEPT !.isDST = FALSE, !.isLocal = FALSE]
    ELSE [date EXCEPT !.isLocal = IF offset = InZone THEN TRUE ELSE IF offset = GMT THEN FALSE ELSE @,
                      !.isDST = @ /\ offset # GMT,
                      !.time = IF date.changed THEN @ ELSE @ - date.offset - offset,
                      !.offset = offset]

FromFields(date, year, month, day, hour, now) ==
    SetDay(SetMillisecond(SetHour(SetMonth(SetYear(date, year), month), hour), 0), day, now)

-----------------------------------------------------------------------------
(* Getters. *)

(* Variant: the first of March is counted in a leap year as in another. *)
TimedPlain(used) ==
    IF ~used.changed THEN used
    ELSE [used EXCEPT !.changed = FALSE, !.week = 7, !.offset = IF @ = GMT THEN 0 ELSE @,
            !.time = (used.day - 1 + LeapYears(used.year) + DaysBefore(used.year, used.month) + (used.year - 1970) * 365) * Day
                     + 2 * used.hour + used.milli - (IF used.offset = GMT THEN 0 ELSE used.offset)]

(* time(): from the fields, as if they were universal, then with the offset that  *)
(* they have in the local zone, or that they were given.                           *)
Timed(used) ==
    LET days == used.day - 1 + LeapYears(used.year) - (IF IsLeapYear(used.year) /\ used.year > 0 THEN 1 ELSE 0)
                + DaysBefore(used.year, used.month) + (used.year - 1970) * 365
        local == days * Day + 2 * used.hour + used.milli
        isLocal == used.offset # GMT /\ (used.offset = InZone \/ used.isLocal)
        type == IF isLocal THEN LocalOffsetOf([used EXCEPT !.time = local])
                ELSE [offset |-> IF used.offset = GMT THEN 0 ELSE used.offset,
                      isDST |-> used.isDST /\ used.offset # GMT]
    IN  IF ~used.changed THEN used
        ELSE [used EXCEPT !.changed = FALSE, !.week = 7, !.isLocal = isLocal, !.offset = type.offset,
                          !.isDST = type.isDST, !.time = local - type.offset]

ToTime(date, now) == Timed(Used(date, now))

OffsetOf(date, now) ==
    IF date.day = 0 THEN Used(date, now)
    ELSE IF date.offset = GMT THEN [date EXCEPT !.offset = 0, !.isDST = FALSE, !.isLocal = FALSE]
    ELSE IF date.offset # InZone /\ ~date.isLocal THEN date
    ELSE Timed([date EXCEPT !.isLocal = TRUE])

WithWeek(timed) == [timed EXCEPT !.week = WeekDayOf((timed.time + timed.offset) \div Day)]
WeekDay(date, now) ==
    IF date.day > 0 /\ (date.changed \/ date.week = 7)
    THEN WithWeek(OffsetOf(ToTime(date, now), now)) ELSE Used(date, now)

-----------------------------------------------------------------------------
Clocks == 0 .. Hours - 1

TypeOK ==
    /\ d.month \in 0 .. 12 /\ d.day \in 0 .. 31 /\ d.week \in 0 .. 7
    /\ d.hour \in Clocks /\ d.milli \in 0 .. 1
    /\ d.offset \in Int /\ {d.isDST, d.isLocal, d.changed, exact} \subseteq BOOLEAN

Init ==
    /\ \E offset \in {GMT, InZone} :
          d = [year |-> 0, month |-> 0, day |-> 0, week |-> 7, hour |-> 0, milli |-> 0, offset |-> offset,
               isDST |-> FALSE, isLocal |-> TRUE, changed |-> TRUE, time |-> 0]
    /\ asked = Nothing /\ exact = FALSE /\ steps = 0

Becomes(date, isExact) ==
    /\ steps < MaxSteps /\ steps' = steps + 1
    /\ d' = date /\ exact' = isExact

UpdateTime(time, offset) ==
    Becomes(FromTime(d, time, offset), TRUE) /\ asked' = Nothing

(* An offset is given to a date whose time is still to be computed, or that has *)
(* none: for another the sum of SetOffset is wrong.                              *)
TakesOffset(date, offset) ==
    \/ date.day = 0 \/ date.changed
    \/ offset = InZone /\ date.isLocal
    \/ date.offset = 0 /\ offset # InZone

(* The day of a date never used is set after its month, and is one of any month. *)
Settable(day) == d.day = 0 => d.month > 0 /\ (day <= 28 \/ FreshDays)

(* The application's and the parser's way to give a whole date. *)
Update(year, month, day, hour, offset) ==
    /\ d.day = 0 => day <= 28 \/ FreshDays
    /\ \E now \in Nows :
          LET date == FromFields(d, year, month, day, hour, now) IN
          TakesOffset(date, offset) /\ Becomes(SetOffset(date, offset), FALSE)
    /\ asked' = <<year, month, day, hour>>

ChangeOffset(offset) ==
    TakesOffset(d, offset) /\ Becomes(SetOffset(d, offset), FALSE) /\ UNCHANGED asked

Set ==
    /\ asked' = Nothing
    /\ \/ \E year \in Years : Becomes(SetYear(d, year), FALSE)
       \/ \E month \in Months : Becomes(SetMonth(d, month), FALSE)
       \/ \E day \in DaysSet, now \in Nows : Settable(day) /\ Becomes(SetDay(d, day, now), FALSE)
       \/ \E hour \in Clocks : Becomes(SetHour(d, hour), FALSE)
       \/ \E milli \in 0 .. 1 : Becomes(SetMillisecond(d, milli), FALSE)

Get ==
    /\ UNCHANGED asked
    /\ \E now \in Nows : \/ Becomes(ToTime(d, now), exact)
                         \/ Becomes(OffsetOf(d, now), exact)
                         \/ Becomes(WeekDay(d, now), exact)

Next ==
    \/ \E time \in Times, offset \in Offsets : UpdateTime(time, offset)
    \/ \E year \in Years, month \in Months, day \in DaysSet, hour \in Clocks, offset \in Offsets :
          Update(year, month, day, hour, offset)
    \/ \E offset \in Offsets : ChangeOffset(offset)
    \/ Set \/ Get

Spec == Init /\ [][Next]_vars
-----------------------------------------------------------------------------
(* The calendar, counted from the first of January of the year 1. *)
YearStart(year) == 365 * (year - 1) + (year - 1) \div 4 - (year - 1) \div 100 + (year - 1) \div 400
DayNumber(date) == YearStart(date.year) - YearStart(1970) + DaysBefore(date.year, date.month) + date.day - 1
LastDay(year, month) == IF month = 12 THEN 31 ELSE DaysBefore(year, month + 1) - DaysBefore(year, month)
Fields(date) == <<date.year, date.month, date.day, date.hour>>

(* Whatever was set and read, the time that is read is that of the fields. *)
CacheRight ==
    d.day > 0 =>
        LET timed == ToTime(d, d.time) IN
        /\ timed.time + timed.offset = DayNumber(d) * Day + 2 * d.hour + d.milli
        /\ timed.week # 7 => timed.week = (DayNumber(d) + 4) % 7

(* A time becomes a day of the calendar... *)
TimeRead == exact => d.month \in 1 .. 12 /\ d.day \in 1 .. LastDay(d.year, d.month)

(* ... and back the same time, but next to a change of offset of the zone. *)
NearChange(time) == \E e \in Range(Entries) : time - e[1] \in -Day .. Day
BackAgain ==
    exact /\ d.isLocal /\ ~NearChange(d.time) => ToTime([d EXCEPT !.changed = TRUE], d.time).time = d.time

(* A date of the calendar that was asked for is the one that is had. *)
BuiltAsAsked ==
    asked # Nothing /\ asked[3] <= LastDay(asked[1], asked[2]) => Fields(d) = asked

DatesSound == CacheRight /\ TimeRead /\ BackAgain /\ BuiltAsAsked
====
