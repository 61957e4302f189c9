--------------------------- MODULE ExtensionLaws ---------------------------
(***************************************************************************)
(* What addresses, datetimes and durations promise.  A behaviour has input *)
(* of one kind, which its steps walk through:                              *)
(*                                                                         *)
(*   "range"   an IP address and a range, both widened bit by bit          *)
(*   "time"    a datetime and a duration, over all of their range          *)
(*   "day"     a calendar and a clock, ticking from the start of a year    *)
(***************************************************************************)
EXTENDS ExtensionTypes, FiniteSets

CONSTANTS LastYear,
          WatchedYears   \* the years in which the clock ticks, on the days around a month's end

\* A year is written with four digits.
ASSUME YearAssumption == LastYear \in Nat /\ LastYear + 1 < 10000

\* Hours, minutes and seconds are written with two.
ASSUME DigitsAssumption == {HoursPerDay, MinutesPerHour, SecondsPerMinute} \subseteq 1 .. 100

VARIABLES kind, input

Single(v6) ==
  LET bytes == IF v6 THEN 2 * Groups ELSE Octets
  IN  {IpValue(v6, addr, bytes * ByteBits) : addr \in [1 .. bytes -> 0 .. ByteRange - 1]}
Singles == Single(FALSE) \cup Single(TRUE)

Widen ==
  /\ kind = "range"
  /\ \E part \in {"obj", "range"} :
       /\ input[part].prefix > 0
       /\ input' = [input EXCEPT ![part].prefix = @ - 1]
  /\ UNCHANGED kind

Move ==
  /\ kind = "time"
  /\ \E part \in {"ms", "d"}, by \in {1, -1} :
       /\ input[part] + by \in Long
       /\ input' = [input EXCEPT ![part] = @ + by]
  /\ UNCHANGED kind
-----------------------------------------------------------------------------
MonthEnds ==
  \/ input.m \in {1, 3, 5, 7, 8, 10, 12} /\ input.d = 31
  \/ input.m \in {4, 6, 9, 11} /\ input.d = 30
  \/ input.m = 2 /\ input.d = 29
  \/ input.m = 2 /\ input.d = 28 /\ (input.y % 4 # 0 \/ (input.y % 100 = 0 /\ input.y % 400 # 0))

\* The days on which the clock ticks.
Watched == input.y \in WatchedYears /\ (MonthEnds \/ input.d = 1)

Tick ==
  /\ kind = "day" /\ Watched
  /\ input.tick + 1 < DayMs
  /\ input' = [input EXCEPT !.tick = @ + 1]
  /\ UNCHANGED kind

\* A day may pass unwatched; a watched one passes when its last tick did.
NextDay ==
  /\ kind = "day" /\ input.tick \in {0, DayMs - 1}
  /\ input.y <= LastYear
  /\ input' = [input EXCEPT !.d = IF MonthEnds THEN 1 ELSE @ + 1,
                            !.m = IF ~MonthEnds THEN @ ELSE IF @ = 12 THEN 1 ELSE @ + 1,
                            !.y = IF MonthEnds /\ input.m = 12 THEN @ + 1 ELSE @,
                            !.tick = 0,
                            !.days = @ + 1]
  /\ UNCHANGED kind
-----------------------------------------------------------------------------
\* The days from 1970-01-01 to 0000-01-01.
FirstDay == -719528

\* The first day of year y: each year before it had 365 days or, if a leap year, 366.
NewYear(y) ==
  FirstDay + 365 * y + Cardinality({x \in 0 .. y - 1 : x % 4 = 0 /\ (x % 100 # 0 \/ x % 400 = 0)})

ExtensionInit ==
  \/ kind = "range" /\ input \in [obj : Singles, range : Singles]
  \/ kind = "time" /\ input = [ms |-> 0, d |-> 0]
  \/ /\ kind = "day"
     /\ \E y \in 0 .. LastYear : input = [y |-> y, m |-> 1, d |-> 1, tick |-> 0, days |-> NewYear(y)]

ExtensionNext == Widen \/ Move \/ Tick \/ NextDay

ExtensionSpec == ExtensionInit /\ [][ExtensionNext]_<<kind, input>>
-----------------------------------------------------------------------------
\* The addresses a value stands for, as numbers: those of its prefix.
Addresses(ip) ==
  LET size == Pow(2, Len(ip.addr) * ByteBits - ip.prefix)
      low  == (Horner(ip.addr, ByteRange) \div size) * size
  IN  low .. (low + size - 1)

(***************************************************************************)
(* An address is in a range iff all of what it stands for is: a range is   *)
(* not in a part of itself, nor IPv4 in IPv6, and the bits behind the      *)
(* prefix of either do not matter.  (php_cedar_ip_cidr_contains)           *)
(***************************************************************************)
ContainsIsInclusion ==
  kind = "range" =>
    (CidrContains(input.obj, input.range) <=>
       /\ input.obj.v6 = input.range.v6
       /\ Addresses(input.obj) \subseteq Addresses(input.range))
-----------------------------------------------------------------------------
Method(obj, method) == TimeCall(obj, method, NoArg)
When == DatetimeValue(input.ms)
Span == DurationValue(input.d)

(***************************************************************************)
(* toTime is the time since a day began, before 1970 as well, and toDate   *)
(* that beginning: offset puts the two together again.  It may have no     *)
(* representation only on the first day there is, the one of               *)
(* ToDateTruncates.  (toDate, toTime, offset)                              *)
(***************************************************************************)
Splits(date, time) ==
  /\ Method(date, "toDate") = date /\ Method(date, "toTime").n = 0
  /\ TimeCall(date, "offset", time) = When

SplitsDay ==
  kind = "time" =>
    LET time == Method(When, "toTime")
    IN  /\ time.n \in 0 .. DayMs - 1
        /\ input.ms - time.n \in Long => Splits(Method(When, "toDate"), time)

(***************************************************************************)
(* "truncate to 00:00:00 UTC of the same day" (expr.c 1505): toDate goes   *)
(* back, and less than a day.  On the first day there is the subtraction   *)
(* wraps, as nothing checks it.  (toDate)                                  *)
(***************************************************************************)
ToDateTruncates ==
  kind = "time" => input.ms - Method(When, "toDate").n \in 0 .. DayMs - 1

(***************************************************************************)
(* durationSince undoes offset and offset undoes durationSince, and either *)
(* is an error exactly when its result has no representation, at both ends *)
(* of the range.  (offset, durationSince)                                  *)
(***************************************************************************)
Other == DatetimeValue(input.d)

Undone(there, since) ==
  /\ IsError(there) <=> input.ms + input.d \notin Long
  /\ ~IsError(there) => TimeCall(there, "durationSince", When) = Span
  /\ IsError(since) <=> input.ms - input.d \notin Long
  /\ ~IsError(since) => TimeCall(Other, "offset", since) = When

OffsetInverse ==
  kind = "time" =>
    Undone(TimeCall(When, "offset", Span), TimeCall(When, "durationSince", Other))

(***************************************************************************)
(* A duration in larger units is a whole number of them that lies between  *)
(* zero and the duration, less than one unit from it.                      *)
(* (toSeconds, toMinutes, toHours, toDays)                                 *)
(***************************************************************************)
UnitOf == [toMilliseconds |-> 1, toSeconds |-> SecondMs, toMinutes |-> MinuteMs,
           toHours |-> HourMs, toDays |-> DayMs]

RoundsToZero ==
  kind = "time" =>
    \A method \in DOMAIN UnitOf :
      LET rest == input.d - Method(Span, method).n * UnitOf[method]
      IN  (IF input.d >= 0 THEN rest ELSE -rest) \in 0 .. UnitOf[method] - 1

(***************************************************************************)
(* Negation is subtraction from zero, and applied twice it is the operand: *)
(* the one long without a negative is an error of both.                    *)
(* (NODE_NEGATE, php_cedar_long_arith)                                     *)
(***************************************************************************)
NegationIsSubtraction ==
  kind = "time" =>
    LET a == LongValue(input.d)
    IN  /\ Negate(a) = Arith("sub", LongValue(0), a)
        /\ Negate(a) = Arith("mul", LongValue(-1), a)
        /\ ~IsError(Negate(a)) => Negate(Negate(a)) = a
-----------------------------------------------------------------------------
TwoDigits(n) == <<n \div 10, n % 10>>

DateText(day) ==
  TwoDigits(input.y \div 100) \o TwoDigits(input.y % 100) \o <<Minus>> \o TwoDigits(input.m)
    \o <<Minus>> \o TwoDigits(day)

TimeText ==
  <<LetterT>> \o TwoDigits(input.tick \div HourMs)
    \o <<Colon>> \o TwoDigits((input.tick \div MinuteMs) % MinutesPerHour)
    \o <<Colon>> \o TwoDigits((input.tick \div SecondMs) % SecondsPerMinute)
    \o <<Dot>> \o [k \in 1 .. MsDigits |-> ((input.tick % SecondMs) \div Pow(10, MsDigits - k)) % 10]

(***************************************************************************)
(* The text of a day is the number of days that passed since 1970 on the   *)
(* calendar, over the four hundred years after which it repeats, leap days *)
(* and the days before 1970 included.  (php_cedar_days_from_civil)         *)
(***************************************************************************)
DateCountsDays ==
  kind = "day" => MakeDatetime(DateText(input.d)) = DatetimeValue(input.days * DayMs)

(***************************************************************************)
(* There is a text for the day after iff the month goes on.                *)
(* (php_cedar_days_in_month)                                               *)
(***************************************************************************)
NoDayAfterTheLast ==
  kind = "day" => (MakeDatetime(DateText(input.d + 1)) = ErrorValue <=> MonthEnds)

(***************************************************************************)
(* A text with a zone is the moment that a clock in that zone shows, which *)
(* may fall on another day or year in UTC, and a zone that is a day or     *)
(* more away is none.  (php_cedar_make_datetime)                           *)
(***************************************************************************)
ZoneShiftsTheMoment ==
  kind = "day" /\ Watched =>
    LET local == DateText(input.d) \o TimeText
        utc   == input.days * DayMs + input.tick
        zoned(sign, h, mm) == MakeDatetime(local \o <<sign>> \o TwoDigits(h) \o TwoDigits(mm))
    IN  /\ MakeDatetime(Append(local, LetterZ)) = DatetimeValue(utc)
        /\ \A h \in 0 .. HoursPerDay, mm \in 0 .. MinutesPerHour :
             LET away == h * HourMs + mm * MinuteMs
                 good == h < HoursPerDay /\ mm < MinutesPerHour
             IN  /\ zoned(Plus, h, mm) = IF good THEN DatetimeValue(utc - away) ELSE ErrorValue
                 /\ zoned(Minus, h, mm) = IF good THEN DatetimeValue(utc + away) ELSE ErrorValue
(***************************************************************************)
(* Methods of datetimes and durations undo each other over the whole range *)
(* and report what leaves it.  (php_cedar_eval_method_call)                *)
(***************************************************************************)
TimeAlgebra == SplitsDay /\ OffsetInverse /\ RoundsToZero /\ NegationIsSubtraction

(***************************************************************************)
(* The methods of extension values compute what their arguments stand for: *)
(* a range contains what its addresses do, and a moment or a duration is a *)
(* number of milliseconds.  (php_cedar_eval_method_call)                   *)
(***************************************************************************)
MethodsExact == ContainsIsInclusion /\ TimeAlgebra

(***************************************************************************)
(* A datetime literal is the moment that the calendar and the clock show.  *)
(* (php_cedar_make_datetime)                                               *)
(***************************************************************************)
CalendarExact == DateCountsDays /\ NoDayAfterTheLast /\ ZoneShiftsTheMoment
=============================================================================
