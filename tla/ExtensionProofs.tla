-------------------------- MODULE ExtensionProofs --------------------------
(***************************************************************************)
(* Theorems about the extension values: the inclusion of ranges of         *)
(* addresses, the methods of datetimes and durations and the calendar, for *)
(* every width of the range, every length of the units of time and every   *)
(* year.                                                                   *)
(***************************************************************************)
EXTENDS ExtensionLaws, SequenceLemmas, FiniteSetTheorems

(***************************************************************************)
(* The units of time are positive, each a multiple of the one before.      *)
(***************************************************************************)
LEMMA UnitsPositive ==
  /\ {SecondMs, MinuteMs, HourMs, DayMs} \subseteq Nat \ {0}
  /\ MaxLong \in Nat /\ MaxLong >= 9
<1>1. SecondMs \in Nat \ {0}
  <2>1. MsDigits \in Nat
    BY WidthAssumption
  <2>2. PICK f \in [0 .. MsDigits -> Nat] :
          /\ f[0] = 1
          /\ \A k \in 0 .. MsDigits - 1 : f[k + 1] = f[k] * 10
          /\ Pow(10, MsDigits) = f[MsDigits]
    BY <2>1, PowTable
  <2> DEFINE T == {k \in 0 .. MsDigits : f[k] # 0}
  <2>3. 0 \in T
    BY <2>1, <2>2
  <2>4. ASSUME NEW k \in 0 .. MsDigits - 1, k \in T PROVE k + 1 \in T
    <3>1. f[k] \in Nat \ {0} /\ f[k + 1] = f[k] * 10 /\ k + 1 \in 0 .. MsDigits
      BY <2>1, <2>2, <2>4
    <3> QED
      BY <3>1
  <2>5. MsDigits \in T
    <3>1. \A k \in 0 .. MsDigits : k \in T
      <4> HIDE DEF T
      <4> QED
        BY <2>1, <2>3, <2>4, UpToNumber
    <3> QED
      BY <2>1, <3>1
  <2> QED
    BY <2>1, <2>2, <2>5 DEF SecondMs
<1>2. {HoursPerDay, MinutesPerHour, SecondsPerMinute} \subseteq Nat \ {0}
  BY WidthAssumption
<1>3. MinuteMs \in Nat \ {0}
  <2> HIDE DEF SecondMs
  <2> QED
    BY <1>1, <1>2, SMTT(30) DEF MinuteMs
<1>4. HourMs \in Nat \ {0}
  <2> HIDE DEF MinuteMs
  <2> QED
    BY <1>2, <1>3, SMTT(30) DEF HourMs
<1>5. DayMs \in Nat \ {0}
  <2> HIDE DEF HourMs
  <2> QED
    BY <1>2, <1>4, SMTT(30) DEF DayMs
<1> QED
  BY <1>1, <1>3, <1>4, <1>5, WidthAssumption
-----------------------------------------------------------------------------
(***************************************************************************)
(* What the methods of datetimes and durations return.                     *)
(***************************************************************************)
LEMMA DatetimeCalls ==
  ASSUME NEW n \in Int
  PROVE  /\ TimeCall(DatetimeValue(n), "toDate", NoArg) = DatetimeValue(Wrap(n - TimeOfDay(n)))
         /\ TimeCall(DatetimeValue(n), "toTime", NoArg) = DurationValue(TimeOfDay(n))
BY DEF TimeCall, DatetimeCall, DatetimeValue, NoArg

LEMMA OffsetCall ==
  ASSUME NEW n \in Int, NEW m \in Int
  PROVE  TimeCall(DatetimeValue(n), "offset", DurationValue(m)) =
           IF n + m \in Long THEN DatetimeValue(n + m) ELSE ErrorValue
<1>1. DurationValue(m) # NoArg /\ DurationValue(m).t = "duration" /\ DurationValue(m).n = m
  BY DEF DurationValue, NoArg
<1>2. DatetimeValue(n).t = "datetime" /\ DatetimeValue(n).n = n
  BY DEF DatetimeValue
<1>3. Overflow \notin Long
  BY UnitsPositive DEF Overflow, Long, MinLong
<1>4. TimeCall(DatetimeValue(n), "offset", DurationValue(m)) =
        DatetimeArgCall(DatetimeValue(n), "offset", DurationValue(m))
  BY <1>1, <1>2 DEF TimeCall
<1> QED
  BY <1>1, <1>2, <1>3, <1>4 DEF DatetimeArgCall, Checked

LEMMA SinceCall ==
  ASSUME NEW n \in Int, NEW m \in Int
  PROVE  TimeCall(DatetimeValue(n), "durationSince", DatetimeValue(m)) =
           IF n - m \in Long THEN DurationValue(n - m) ELSE ErrorValue
<1>1. DatetimeValue(m) # NoArg /\ DatetimeValue(m).t = "datetime" /\ DatetimeValue(m).n = m
  BY DEF DatetimeValue, NoArg
<1>2. DatetimeValue(n).t = "datetime" /\ DatetimeValue(n).n = n
  BY DEF DatetimeValue
<1>3. Overflow \notin Long
  BY UnitsPositive DEF Overflow, Long, MinLong
<1>4. TimeCall(DatetimeValue(n), "durationSince", DatetimeValue(m)) =
        DatetimeArgCall(DatetimeValue(n), "durationSince", DatetimeValue(m))
  BY <1>1, <1>2 DEF TimeCall
<1> QED
  BY <1>1, <1>2, <1>3, <1>4 DEF DatetimeArgCall, Checked

LEMMA NoErrors ==
  ASSUME NEW n
  PROVE  /\ IsError(ErrorValue) /\ ~IsError(DatetimeValue(n))
         /\ ~IsError(DurationValue(n)) /\ ~IsError(LongValue(n))
BY DEF IsError, ErrorValue, DatetimeValue, DurationValue, LongValue

(***************************************************************************)
(* What fits is left as it is.                                             *)
(***************************************************************************)
LEMMA WrapIsIdle ==
  ASSUME NEW n \in Long
  PROVE  Wrap(n) = n
<1>1. PICK size \in Nat \ {0} : size = MaxLong - MinLong + 1
  BY UnitsPositive DEF MinLong
<1>2. n - MinLong \in 0 .. size - 1 /\ MinLong \in Int /\ n \in Int
  BY <1>1, UnitsPositive DEF Long, MinLong
<1>3. PICK r \in 0 .. size - 1 : r = n - MinLong
  BY <1>2
<1>4. r % size = r
  <2>1. 0 * size + r = r
    BY <1>1, <1>3
  <2> QED
    BY <2>1, EuclidUnique
<1> QED
  BY <1>1, <1>2, <1>3, <1>4 DEF Wrap

LEMMA TimesOfDay ==
  ASSUME NEW n \in Int
  PROVE  /\ TimeCall(DatetimeValue(n), "toTime", NoArg) = DurationValue(TimeOfDay(n))
         /\ TimeOfDay(n) \in 0 .. DayMs - 1
<1>1. DayMs \in Nat \ {0}
  BY UnitsPositive
<1>2. PICK q \in Int, r \in 0 .. DayMs - 1 : r = n % DayMs /\ n = q * DayMs + r
  <2> HIDE DEF DayMs
  <2> QED
    BY <1>1, Euclid
<1> QED
  BY <1>2, DatetimeCalls DEF TimeOfDay

LEMMA SplitHolds ==
  ASSUME NEW n \in Long, n - TimeOfDay(n) \in Long
  PROVE  LET date == TimeCall(DatetimeValue(n), "toDate", NoArg)
             time == TimeCall(DatetimeValue(n), "toTime", NoArg)
         IN  /\ TimeCall(date, "toDate", NoArg) = date
             /\ TimeCall(date, "toTime", NoArg).n = 0
             /\ TimeCall(date, "offset", time) = DatetimeValue(n)
<1>1. n \in Int /\ MinLong \in Int /\ DayMs \in Nat \ {0}
  BY UnitsPositive DEF Long, MinLong
<1>2. PICK q \in Int, r \in 0 .. DayMs - 1 : r = n % DayMs /\ n = q * DayMs + r
  <2> HIDE DEF DayMs
  <2> QED
    BY <1>1, Euclid
<1>3. PICK m \in Int : m = q * DayMs
  BY <1>1
<1>4. TimeOfDay(n) = r /\ n - r = m
  BY <1>1, <1>2, <1>3 DEF TimeOfDay
<1>5. TimeOfDay(m) = 0
  <2>1. 0 \in 0 .. DayMs - 1 /\ q * DayMs + 0 = m
    BY <1>1, <1>3
  <2>2. m % DayMs = 0
    BY <1>1, <2>1, EuclidUnique
  <2> QED
    BY <2>2 DEF TimeOfDay
<1>6. m \in Long
  BY <1>4
<1>7. Wrap(m) = m
  BY <1>6, WrapIsIdle
<1>8. /\ TimeCall(DatetimeValue(n), "toDate", NoArg) = DatetimeValue(m)
      /\ TimeCall(DatetimeValue(n), "toTime", NoArg) = DurationValue(r)
  BY <1>1, <1>4, <1>7, DatetimeCalls
<1>9. m - 0 = m
  OBVIOUS
<1>10. /\ TimeCall(DatetimeValue(m), "toDate", NoArg) = DatetimeValue(m)
       /\ TimeCall(DatetimeValue(m), "toTime", NoArg) = DurationValue(0)
  BY <1>5, <1>7, <1>9, DatetimeCalls
<1>11. TimeCall(DatetimeValue(m), "offset", DurationValue(r)) = DatetimeValue(n)
  <2>1. r \in Int /\ m + r = n
    BY <1>1, <1>2, <1>3
  <2> QED
    BY <2>1, OffsetCall
<1>12. DurationValue(r).n = r /\ DurationValue(0).n = 0
  BY DEF DurationValue
<1> QED
  BY <1>2, <1>8, <1>10, <1>11, <1>12

(***************************************************************************)
(* A quotient is rounded to zero.                                          *)
(***************************************************************************)
LEMMA QuotientRounds ==
  ASSUME NEW n \in Int, NEW b \in Nat \ {0}
  PROVE  LET rest == n - Quotient(n, b) * b
         IN  /\ Quotient(n, b) \in Int
             /\ (IF n >= 0 THEN rest ELSE -rest) \in 0 .. b - 1
<1>1. CASE n >= 0
  <2>1. PICK q \in Int, r \in 0 .. b - 1 : q = n \div b /\ n = q * b + r
    BY Euclid
  <2>2. Quotient(n, b) = q
    BY <1>1, <2>1 DEF Quotient
  <2>3. n - q * b = r
    BY <2>1
  <2> QED
    BY <1>1, <2>1, <2>2, <2>3
<1>2. CASE ~(n >= 0)
  <2>1. PICK m \in Int : m = -n
    OBVIOUS
  <2>2. PICK q \in Int, r \in 0 .. b - 1 : q = m \div b /\ m = q * b + r
    BY Euclid
  <2>3. Quotient(n, b) = -q
    BY <1>2, <2>1, <2>2 DEF Quotient
  <2>4. -(n - (-q) * b) = r
    <3>1. (-q) * b = -(q * b)
      BY SMTT(30)
    <3> QED
      BY <2>1, <2>2, <3>1
  <2> QED
    BY <1>2, <2>2, <2>3, <2>4
<1> QED
  BY <1>1, <1>2

LEMMA RoundingHolds ==
  ASSUME NEW n \in Int, NEW method \in DOMAIN UnitOf
  PROVE  LET rest == n - TimeCall(DurationValue(n), method, NoArg).n * UnitOf[method]
         IN  (IF n >= 0 THEN rest ELSE -rest) \in 0 .. UnitOf[method] - 1
<1>1. TimeCall(DurationValue(n), method, NoArg) = DurationCall(n, method)
  BY DEF TimeCall, DurationValue, NoArg
<1>2. CASE method = "toMilliseconds"
  <2>1. DurationCall(n, method).n = n
    BY <1>2 DEF DurationCall, LongValue
  <2>2. UnitOf[method] = 1
    BY <1>2 DEF UnitOf
  <2> QED
    BY <1>1, <2>1, <2>2
<1>3. CASE method # "toMilliseconds"
  <2>1. /\ UnitOf[method] \in Nat \ {0}
        /\ DurationCall(n, method).n = Quotient(n, UnitOf[method])
    <3>1. CASE method = "toSeconds"
      BY <3>1, UnitsPositive DEF DurationCall, LongValue, UnitOf
    <3>2. CASE method = "toMinutes"
      BY <3>2, UnitsPositive DEF DurationCall, LongValue, UnitOf
    <3>3. CASE method = "toHours"
      BY <3>3, UnitsPositive DEF DurationCall, LongValue, UnitOf
    <3>4. CASE method = "toDays"
      BY <3>4, UnitsPositive DEF DurationCall, LongValue, UnitOf
    <3> QED
      BY <1>3, <3>1, <3>2, <3>3, <3>4 DEF UnitOf
  <2>2. PICK b \in Nat \ {0} : b = UnitOf[method]
    BY <2>1
  <2> QED
    BY <1>1, <2>1, <2>2, QuotientRounds
<1> QED
  BY <1>2, <1>3

LEMMA NegationHolds ==
  ASSUME NEW n \in Long
  PROVE  LET a == LongValue(n)
         IN  /\ Negate(a) = Arith("sub", LongValue(0), a)
             /\ Negate(a) = Arith("mul", LongValue(-1), a)
             /\ ~IsError(Negate(a)) => Negate(Negate(a)) = a
<1>1. \A m : LongValue(m).t = "long" /\ LongValue(m).n = m
  BY DEF LongValue
<1>2. n \in Int /\ Overflow \notin Long /\ (-1) * n = -n /\ 0 - n = -n
  BY UnitsPositive DEF Long, MinLong, Overflow
<1>3. (n = MinLong <=> -n \notin Long) /\ (n # MinLong => -n # MinLong \/ n = -n)
  BY <1>2, UnitsPositive DEF Long, MinLong
<1>4. Negate(LongValue(n)) = IF -n \in Long THEN LongValue(-n) ELSE ErrorValue
  BY <1>1, <1>3 DEF Negate
<1>5. Arith("sub", LongValue(0), LongValue(n)) = IF -n \in Long THEN LongValue(-n) ELSE ErrorValue
  BY <1>1, <1>2 DEF Arith, Checked
<1>6. Arith("mul", LongValue(-1), LongValue(n)) = IF -n \in Long THEN LongValue(-n) ELSE ErrorValue
  BY <1>1, <1>2 DEF Arith, Checked
<1>7. ASSUME -n \in Long PROVE Negate(LongValue(-n)) = LongValue(n)
  <2>1. -n # MinLong /\ -(-n) = n
    BY <1>2, <1>7, UnitsPositive DEF Long, MinLong
  <2> QED
    BY <1>1, <2>1 DEF Negate
<1> QED
  BY <1>4, <1>5, <1>6, <1>7, NoErrors
-----------------------------------------------------------------------------
(***************************************************************************)
(* The datetime and the duration stay in the range.                        *)
(***************************************************************************)
TimeInv == kind = "time" => input \in [ms : Long, d : Long]

LEMMA TimeStart == ExtensionInit => TimeInv
<1>1. 0 \in Long
  BY UnitsPositive DEF Long, MinLong
<1> QED
  BY <1>1 DEF ExtensionInit, TimeInv

LEMMA TimeStep == TimeInv /\ [ExtensionNext]_<<kind, input>> => TimeInv'
<1> SUFFICES ASSUME TimeInv, [ExtensionNext]_<<kind, input>>, kind' = "time"
             PROVE  input' \in [ms : Long, d : Long]
  BY DEF TimeInv
<1>1. CASE Move
  <2>1. input \in [ms : Long, d : Long]
    BY <1>1 DEF Move, TimeInv
  <2>2. PICK part \in {"ms", "d"}, by \in {1, -1} :
          input[part] + by \in Long /\ input' = [input EXCEPT ![part] = @ + by]
    BY <1>1 DEF Move
  <2> QED
    BY <2>1, <2>2
<1>2. CASE UNCHANGED <<kind, input>>
  BY <1>2 DEF TimeInv
<1> QED
  BY <1>1, <1>2 DEF ExtensionNext, Widen, Tick, NextDay

LEMMA TimeLaws == TimeInv => TimeAlgebra
<1> SUFFICES ASSUME TimeInv, kind = "time" PROVE TimeAlgebra
  BY DEF TimeAlgebra, SplitsDay, OffsetInverse, RoundsToZero, NegationIsSubtraction
<1>1. PICK ms \in Long, d \in Long : ms = input.ms /\ d = input.d
  BY DEF TimeInv
<1>2. ms \in Int /\ d \in Int
  BY UnitsPositive DEF Long, MinLong
<1>3. When = DatetimeValue(ms) /\ Span = DurationValue(d) /\ Other = DatetimeValue(d)
  BY <1>1 DEF When, Span, Other
<1>4. SplitsDay
  <2>1. TimeCall(When, "toTime", NoArg) = DurationValue(TimeOfDay(ms)) /\ TimeOfDay(ms) \in 0 .. DayMs - 1
    BY <1>2, <1>3, TimesOfDay
  <2>2. DurationValue(TimeOfDay(ms)).n = TimeOfDay(ms)
    BY DEF DurationValue
  <2> QED
    BY <1>1, <1>3, <2>1, <2>2, SplitHolds DEF SplitsDay, Splits, Method
<1>5. OffsetInverse
  <2>1. /\ TimeCall(When, "offset", Span) = IF ms + d \in Long THEN DatetimeValue(ms + d) ELSE ErrorValue
        /\ TimeCall(When, "durationSince", Other) =
             IF ms - d \in Long THEN DurationValue(ms - d) ELSE ErrorValue
    BY <1>2, <1>3, OffsetCall, SinceCall
  <2>2. TimeCall(DatetimeValue(ms + d), "durationSince", When) = Span
    <3>1. ms + d \in Int /\ (ms + d) - ms = d
      BY <1>2
    <3> QED
      BY <1>1, <1>2, <1>3, <3>1, SinceCall
  <2>3. TimeCall(Other, "offset", DurationValue(ms - d)) = When
    <3>1. ms - d \in Int /\ d + (ms - d) = ms
      BY <1>2
    <3> QED
      BY <1>1, <1>2, <1>3, <3>1, OffsetCall
  <2> QED
    BY <1>1, <2>1, <2>2, <2>3, NoErrors DEF OffsetInverse, Undone
<1>6. RoundsToZero
  BY <1>1, <1>2, <1>3, RoundingHolds DEF RoundsToZero, Method
<1>7. NegationIsSubtraction
  BY <1>1, NegationHolds DEF NegationIsSubtraction
<1> QED
  BY <1>4, <1>5, <1>6, <1>7 DEF TimeAlgebra

(***************************************************************************)
(* Over the whole range, whatever its width and however long a day is, the *)
(* methods of datetimes and durations undo each other, round to zero, and  *)
(* report exactly what has no representation.  (php_cedar_eval_method_call)*)
(***************************************************************************)
THEOREM TimeAlgebraHolds == ExtensionSpec => []TimeAlgebra
<1>1. ExtensionSpec => []TimeInv
  BY TimeStart, TimeStep, PTL DEF ExtensionSpec
<1> QED
  BY <1>1, TimeLaws, PTL
-----------------------------------------------------------------------------
(***************************************************************************)
(* The lengths of the months.                                              *)
(***************************************************************************)
LEMMA MonthLengths ==
  ASSUME NEW y \in Nat, NEW m \in 1 .. 12
  PROVE  DaysInMonth(y, m) = IF m = 2 THEN IF LeapYear(y) THEN 29 ELSE 28
                             ELSE IF m \in {4, 6, 9, 11} THEN 30 ELSE 31
<1>1. CASE m = 1
  BY <1>1 DEF DaysInMonth
<1>2. CASE m = 2
  BY <1>2 DEF DaysInMonth
<1>3. CASE m = 3
  BY <1>3 DEF DaysInMonth
<1>4. CASE m = 4
  BY <1>4 DEF DaysInMonth
<1>5. CASE m = 5
  BY <1>5 DEF DaysInMonth
<1>6. CASE m = 6
  BY <1>6 DEF DaysInMonth
<1>7. CASE m = 7
  BY <1>7 DEF DaysInMonth
<1>8. CASE m = 8
  BY <1>8 DEF DaysInMonth
<1>9. CASE m = 9
  BY <1>9 DEF DaysInMonth
<1>10. CASE m = 10
  BY <1>10 DEF DaysInMonth
<1>11. CASE m = 11
  BY <1>11 DEF DaysInMonth
<1>12. CASE m = 12
  BY <1>12 DEF DaysInMonth
<1> QED
  BY <1>1, <1>2, <1>3, <1>4, <1>5, <1>6, <1>7, <1>8, <1>9, <1>10, <1>11, <1>12

(***************************************************************************)
(* The days of a civil date count up by one, within a month, from one to   *)
(* the next, and from one year to the next.                                *)
(***************************************************************************)
LEMMA DaysType ==
  ASSUME NEW y \in Nat, NEW m \in 1 .. 12, NEW d \in Nat
  PROVE  DaysFromCivil(y, m, d) \in Int
BY DEF DaysFromCivil

LEMMA NextDayOfMonth ==
  ASSUME NEW y \in Nat, NEW m \in 1 .. 12, NEW d \in Nat
  PROVE  DaysFromCivil(y, m, d + 1) = DaysFromCivil(y, m, d) + 1
BY DEF DaysFromCivil

LEMMA NextMonth ==
  ASSUME NEW y \in Nat, NEW m \in 1 .. 11
  PROVE  DaysFromCivil(y, m + 1, 1) = DaysFromCivil(y, m, DaysInMonth(y, m)) + 1
<1>1. CASE m = 1
  BY <1>1, MonthLengths DEF DaysFromCivil
<1>2. CASE m = 2
  <2>1. DaysInMonth(y, m) = IF LeapYear(y) THEN 29 ELSE 28
    BY <1>2, MonthLengths
  <2>2. DaysFromCivil(y, 3, 1) = DaysFromCivil(y, 2, IF LeapYear(y) THEN 29 ELSE 28) + 1
    <3>1. CASE LeapYear(y)
      <4>1. DaysFromCivil(y, 3, 1) = DaysFromCivil(y, 2, 29) + 1
        BY <3>1, SMTT(60) DEF DaysFromCivil, LeapYear
      <4> QED
        BY <3>1, <4>1
    <3>2. CASE ~LeapYear(y)
      <4>1. DaysFromCivil(y, 3, 1) = DaysFromCivil(y, 2, 28) + 1
        BY <3>2, SMTT(60) DEF DaysFromCivil, LeapYear
      <4> QED
        BY <3>2, <4>1
    <3> QED
      BY <3>1, <3>2
  <2> QED
    BY <1>2, <2>1, <2>2
<1>3. CASE m = 3
  BY <1>3, MonthLengths DEF DaysFromCivil
<1>4. CASE m = 4
  BY <1>4, MonthLengths DEF DaysFromCivil
<1>5. CASE m = 5
  BY <1>5, MonthLengths DEF DaysFromCivil
<1>6. CASE m = 6
  BY <1>6, MonthLengths DEF DaysFromCivil
<1>7. CASE m = 7
  BY <1>7, MonthLengths DEF DaysFromCivil
<1>8. CASE m = 8
  BY <1>8, MonthLengths DEF DaysFromCivil
<1>9. CASE m = 9
  BY <1>9, MonthLengths DEF DaysFromCivil
<1>10. CASE m = 10
  BY <1>10, MonthLengths DEF DaysFromCivil
<1>11. CASE m = 11
  BY <1>11, MonthLengths DEF DaysFromCivil
<1> QED
  BY <1>1, <1>2, <1>3, <1>4, <1>5, <1>6, <1>7, <1>8, <1>9, <1>10, <1>11

LEMMA YearTurns ==
  ASSUME NEW y \in Nat
  PROVE  DaysFromCivil(y + 1, 1, 1) = DaysFromCivil(y, 12, 31) + 1
BY SMTT(60) DEF DaysFromCivil

LEMMA YearLength ==
  ASSUME NEW y \in Nat
  PROVE  DaysFromCivil(y + 1, 1, 1) = DaysFromCivil(y, 1, 1) + 365 + (IF LeapYear(y) THEN 1 ELSE 0)
BY SMTT(60) DEF DaysFromCivil, LeapYear
(***************************************************************************)
(* The first days of the years, counted leap year by leap year, are those  *)
(* of the civil calendar.                                                  *)
(***************************************************************************)
LEMMA LeapYears ==
  ASSUME NEW y \in Nat
  PROVE  /\ NewYear(y) \in Int
         /\ NewYear(0) = FirstDay
         /\ NewYear(y + 1) = NewYear(y) + 365 + (IF LeapYear(y) THEN 1 ELSE 0)
<1> DEFINE Leaps(z) == {x \in 0 .. z - 1 : x % 4 = 0 /\ (x % 100 # 0 \/ x % 400 = 0)}
<1>1. \A z \in Nat : IsFiniteSet(Leaps(z)) /\ Cardinality(Leaps(z)) \in Nat
  <2>1. ASSUME NEW z \in Nat PROVE IsFiniteSet(Leaps(z))
    <3>1. IsFiniteSet(0 .. z - 1)
      BY FS_Interval
    <3>2. Leaps(z) \subseteq 0 .. z - 1
      OBVIOUS
    <3> HIDE DEF Leaps
    <3> QED
      BY <3>1, <3>2, FS_Subset
  <2> HIDE DEF Leaps
  <2> QED
    BY <2>1, FS_CardinalityType
<1>2. \A z \in Nat : NewYear(z) = FirstDay + 365 * z + Cardinality(Leaps(z))
  BY DEF NewYear
<1>3. Cardinality(Leaps(0)) = 0
  <2>1. Leaps(0) = {}
    OBVIOUS
  <2> QED
    BY <2>1, FS_EmptySet
<1>4. Cardinality(Leaps(y + 1)) = Cardinality(Leaps(y)) + (IF LeapYear(y) THEN 1 ELSE 0)
  <2>1. LeapYear(y) <=> y % 4 = 0 /\ (y % 100 # 0 \/ y % 400 = 0)
    BY DEF LeapYear
  <2>2. 0 .. (y + 1) - 1 = 0 .. y - 1 \cup {y} /\ y \notin Leaps(y)
    OBVIOUS
  <2>3. Leaps(y + 1) = IF LeapYear(y) THEN Leaps(y) \cup {y} ELSE Leaps(y)
    BY <2>1, <2>2
  <2> HIDE DEF Leaps
  <2>4. Cardinality(Leaps(y) \cup {y}) = Cardinality(Leaps(y)) + 1
    BY <1>1, <2>2, FS_AddElement
  <2> QED
    BY <1>1, <2>3, <2>4
<1> HIDE DEF Leaps
<1>5. FirstDay \in Int
  BY DEF FirstDay
<1> QED
  BY <1>1, <1>2, <1>3, <1>4, <1>5

LEMMA YearsAgree ==
  ASSUME NEW y \in Nat
  PROVE  NewYear(y) = DaysFromCivil(y, 1, 1)
<1> DEFINE T == {z \in 0 .. y : NewYear(z) = DaysFromCivil(z, 1, 1)}
<1>1. 0 \in T
  <2>1. DaysFromCivil(0, 1, 1) = FirstDay
    <3>1. /\ 0 - 1 = -1 /\ (-1) \div 400 = -1 /\ (-1) - (-1) * 400 = 399
          /\ (153 * (1 + 9) + 2) \div 5 + 1 - 1 = 306
          /\ 399 \div 4 = 99 /\ 399 \div 100 = 3
      <4>1. (-1) * 400 + 399 = -1 /\ 399 \in 0 .. 400 - 1 /\ -1 \in Int /\ 400 \in Nat \ {0}
        OBVIOUS
      <4>2. (-1) \div 400 = -1
        <5>1. PICK q \in Int, b \in Nat \ {0}, t \in Nat : q = -1 /\ b = 400 /\ t = 399
          OBVIOUS
        <5>2. (q * b + t) \div b = q
          <6>1. t \in 0 .. b - 1
            BY <5>1
          <6> QED
            BY <6>1, EuclidUnique
        <5>3. q * b + t = -1
          BY <5>1
        <5> QED
          BY <5>1, <5>2, <5>3
      <4>3. 0 - 1 = -1 /\ (-1) - (-1) * 400 = 399
        OBVIOUS
      <4>4. (153 * (1 + 9) + 2) \div 5 + 1 - 1 = 306
        OBVIOUS
      <4>5. 399 \div 4 = 99 /\ 399 \div 100 = 3
        OBVIOUS
      <4> QED
        BY <4>2, <4>3, <4>4, <4>5
    <3>2. (-1) * 146097 + (399 * 365 + 99 - 3 + 306) - 719468 = -719528
      OBVIOUS
    <3> QED
      BY <3>1, <3>2 DEF DaysFromCivil, FirstDay
  <2> QED
    BY <2>1, LeapYears
<1>2. ASSUME NEW k \in 0 .. y - 1, k \in T PROVE k + 1 \in T
  <2>1. k \in Nat /\ k + 1 \in 0 .. y
    OBVIOUS
  <2>2. NewYear(k + 1) = DaysFromCivil(k + 1, 1, 1)
    BY <1>2, <2>1, LeapYears, YearLength
  <2> QED
    BY <2>1, <2>2
<1> HIDE DEF T
<1>3. y \in T
  BY <1>1, <1>2, UpToNumber
<1> QED
  BY <1>3 DEF T
-----------------------------------------------------------------------------
(***************************************************************************)
(* The calendar shows a day that exists, and has counted as many days as   *)
(* the civil calendar.                                                     *)
(***************************************************************************)
Years == 0 .. LastYear + 1

DayInv ==
  kind = "day" =>
    /\ input \in [y : Years, m : 1 .. 12, d : 1 .. 31, tick : 0 .. DayMs - 1, days : Int]
    /\ input.d <= DaysInMonth(input.y, input.m)
    /\ input.days = DaysFromCivil(input.y, input.m, input.d)

LEMMA MonthEndsIsLast ==
  ASSUME kind = "day", DayInv
  PROVE  /\ MonthEnds <=> input.d = DaysInMonth(input.y, input.m)
         /\ input.m = 12 => DaysInMonth(input.y, input.m) = 31
<1>1. PICK y \in Nat, m \in 1 .. 12, d \in 1 .. 31 : y = input.y /\ m = input.m /\ d = input.d
  <2>1. input.y \in Years /\ input.m \in 1 .. 12 /\ input.d \in 1 .. 31
    BY DEF DayInv
  <2>2. Years \subseteq Nat
    BY YearAssumption DEF Years
  <2> QED
    BY <2>1, <2>2
<1>2. d <= DaysInMonth(y, m)
  BY <1>1 DEF DayInv
<1>3. LeapYear(y) <=> ~(y % 4 # 0 \/ (y % 100 = 0 /\ y % 400 # 0))
  BY DEF LeapYear
<1>4. DaysInMonth(y, m) = IF m = 2 THEN IF LeapYear(y) THEN 29 ELSE 28
                         ELSE IF m \in {4, 6, 9, 11} THEN 30 ELSE 31
  BY MonthLengths
<1>5. MonthEnds <=> \/ m \in {1, 3, 5, 7, 8, 10, 12} /\ d = 31
                    \/ m \in {4, 6, 9, 11} /\ d = 30
                    \/ m = 2 /\ d = 29
                    \/ m = 2 /\ d = 28 /\ ~LeapYear(y)
  BY <1>1, <1>3 DEF MonthEnds
<1> QED
  BY <1>1, <1>2, <1>4, <1>5

LEMMA DayStart == ExtensionInit => DayInv
<1> SUFFICES ASSUME ExtensionInit, kind = "day" PROVE DayInv
  BY DEF DayInv
<1>1. PICK y \in 0 .. LastYear : input = [y |-> y, m |-> 1, d |-> 1, tick |-> 0, days |-> NewYear(y)]
  BY DEF ExtensionInit
<1>2. y \in Nat /\ y \in Years
  BY YearAssumption DEF Years
<1>3. NewYear(y) \in Int /\ NewYear(y) = DaysFromCivil(y, 1, 1)
  BY <1>2, LeapYears, YearsAgree
<1>4. 1 <= DaysInMonth(y, 1)
  BY <1>2, MonthLengths
<1>5. 0 \in 0 .. DayMs - 1
  BY UnitsPositive
<1> QED
  BY <1>1, <1>2, <1>3, <1>4, <1>5 DEF DayInv

LEMMA DayStep == DayInv /\ [ExtensionNext]_<<kind, input>> => DayInv'
<1> SUFFICES ASSUME DayInv, [ExtensionNext]_<<kind, input>>, kind' = "day" PROVE DayInv'
  BY DEF DayInv
<1>1. CASE UNCHANGED <<kind, input>>
  BY <1>1 DEF DayInv
<1>2. CASE Tick
  <2>1. kind = "day" /\ input.tick + 1 < DayMs /\ input' = [input EXCEPT !.tick = @ + 1]
    BY <1>2 DEF Tick
  <2>2. input.tick + 1 \in 0 .. DayMs - 1
    BY <2>1, UnitsPositive DEF DayInv
  <2> QED
    BY <2>1, <2>2 DEF DayInv
<1>3. CASE NextDay
  <2>1. /\ kind = "day" /\ input.y <= LastYear
        /\ input' = [input EXCEPT !.d = IF MonthEnds THEN 1 ELSE @ + 1,
                                  !.m = IF ~MonthEnds THEN @ ELSE IF @ = 12 THEN 1 ELSE @ + 1,
                                  !.y = IF MonthEnds /\ input.m = 12 THEN @ + 1 ELSE @,
                                  !.tick = 0,
                                  !.days = @ + 1]
    BY <1>3 DEF NextDay
  <2>2. PICK y \in Years, m \in 1 .. 12, d \in 1 .. 31, n \in Int, t \in 0 .. DayMs - 1 :
          input = [y |-> y, m |-> m, d |-> d, tick |-> t, days |-> n]
    BY <2>1 DEF DayInv
  <2>3. /\ y \in Nat /\ y <= LastYear /\ LastYear \in Nat
        /\ d <= DaysInMonth(y, m) /\ n = DaysFromCivil(y, m, d)
        /\ MonthEnds <=> d = DaysInMonth(y, m)
        /\ m = 12 => DaysInMonth(y, m) = 31
    <3>1. MonthEnds <=> d = DaysInMonth(y, m)
      BY <2>1, <2>2, MonthEndsIsLast
    <3>2. m = 12 => DaysInMonth(y, m) = 31
      BY <2>1, <2>2, MonthEndsIsLast
    <3>3. d <= DaysInMonth(y, m) /\ n = DaysFromCivil(y, m, d)
      BY <2>1, <2>2 DEF DayInv
    <3>4. LastYear \in Nat /\ y \in Nat
      BY YearAssumption DEF Years
    <3>5. y <= LastYear
      BY <2>1, <2>2
    <3> QED
      BY <3>1, <3>2, <3>3, <3>4, <3>5
  <2>4. 0 \in 0 .. DayMs - 1
    BY UnitsPositive
  <2>5. \A k \in 1 .. 12, z \in Nat : DaysInMonth(z, k) \in 28 .. 31
    BY MonthLengths
  <2>6. CASE ~MonthEnds
    <3>1. input' = [y |-> y, m |-> m, d |-> d + 1, tick |-> 0, days |-> n + 1]
      BY <2>1, <2>2, <2>6
    <3>2. d + 1 <= DaysInMonth(y, m) /\ d + 1 \in 1 .. 31
      BY <2>3, <2>5, <2>6
    <3>3. DaysFromCivil(y, m, d + 1) = n + 1
      BY <2>3, NextDayOfMonth
    <3> QED
      BY <2>4, <3>1, <3>2, <3>3 DEF DayInv
  <2>7. CASE MonthEnds /\ m # 12
    <3>1. input' = [y |-> y, m |-> m + 1, d |-> 1, tick |-> 0, days |-> n + 1]
      BY <2>1, <2>2, <2>7
    <3>2. m \in 1 .. 11 /\ m + 1 \in 1 .. 12
      BY <2>7
    <3>3. DaysFromCivil(y, m + 1, 1) = n + 1
      BY <2>3, <2>7, <3>2, NextMonth
    <3>4. 1 <= DaysInMonth(y, m + 1)
      BY <2>3, <2>5, <3>2
    <3> QED
      BY <2>4, <3>1, <3>2, <3>3, <3>4 DEF DayInv
  <2>8. CASE MonthEnds /\ m = 12
    <3>1. input' = [y |-> y + 1, m |-> 1, d |-> 1, tick |-> 0, days |-> n + 1]
      BY <2>1, <2>2, <2>8
    <3>2. y + 1 \in Years /\ y + 1 \in Nat
      BY <2>3 DEF Years
    <3>3. DaysFromCivil(y + 1, 1, 1) = n + 1
      BY <2>3, <2>8, YearTurns
    <3>4. 1 <= DaysInMonth(y + 1, 1)
      BY <2>5, <3>2
    <3> QED
      BY <2>4, <3>1, <3>2, <3>3, <3>4 DEF DayInv
  <2> QED
    BY <2>6, <2>7, <2>8
<1> QED
  BY <1>1, <1>2, <1>3 DEF ExtensionNext, Widen, Move
-----------------------------------------------------------------------------
(***************************************************************************)
(* Fields of two and of four digits.                                       *)
(***************************************************************************)
LEMMA FieldParts ==
  ASSUME NEW text \in Seq(Nat), NEW p \in Nat \ {0}, NEW n \in Nat, p + n - 1 <= Len(text)
  PROVE  /\ SubSeq(text, p, p + n - 1) \in Seq(Nat)
         /\ Len(SubSeq(text, p, p + n - 1)) = n
         /\ \A k \in 1 .. n : SubSeq(text, p, p + n - 1)[k] = text[p + k - 1]
OBVIOUS

LEMMA FieldOfTwo ==
  ASSUME NEW text \in Seq(Nat), NEW p \in Nat \ {0}, p + 1 <= Len(text)
  PROVE  Field(text, p, 2) = text[p] * 10 + text[p + 1]
<1>1. PICK digits : digits = SubSeq(text, p, p + 2 - 1)
  OBVIOUS
<1>2. /\ digits \in Seq(Nat) /\ Len(digits) = 2
      /\ digits[1] = text[p] /\ digits[2] = text[p + 1]
  BY <1>1, FieldParts
<1>3. PICK f \in [0 .. Len(digits) -> Nat] :
        /\ f[0] = 0
        /\ \A k \in 0 .. Len(digits) - 1 : f[k + 1] = f[k] * 10 + digits[k + 1]
        /\ Horner(digits, 10) = f[Len(digits)]
  <2>1. 10 \in Nat
    OBVIOUS
  <2> QED
    BY <1>2, <2>1, HornerTable
<1>4. f[1] = f[0] * 10 + digits[1]
  <2>1. 0 \in 0 .. Len(digits) - 1 /\ 0 + 1 = 1
    BY <1>2
  <2> QED
    BY <1>3, <2>1
<1>5. f[2] = f[1] * 10 + digits[2]
  <2>1. 1 \in 0 .. Len(digits) - 1 /\ 1 + 1 = 2
    BY <1>2
  <2> QED
    BY <1>3, <2>1
<1>6. \A k \in 0 .. 2 : f[k] \in Nat
  BY <1>2, <1>3
<1>7. Horner(digits, 10) = f[2]
  BY <1>2, <1>3
<1>8. f[1] = text[p] /\ f[2] = text[p] * 10 + text[p + 1]
  BY <1>2, <1>3, <1>4, <1>5, SMTT(30)
<1> QED
  BY <1>1, <1>7, <1>8 DEF Field

LEMMA FieldOfFour ==
  ASSUME NEW text \in Seq(Nat), NEW p \in Nat \ {0}, p + 3 <= Len(text)
  PROVE  Field(text, p, 4) =
           ((text[p] * 10 + text[p + 1]) * 10 + text[p + 2]) * 10 + text[p + 3]
<1>1. PICK digits : digits = SubSeq(text, p, p + 4 - 1)
  OBVIOUS
<1>2. /\ digits \in Seq(Nat) /\ Len(digits) = 4
      /\ digits[1] = text[p] /\ digits[2] = text[p + 1]
      /\ digits[3] = text[p + 2] /\ digits[4] = text[p + 3]
  <2>1. /\ digits \in Seq(Nat) /\ Len(digits) = 4
        /\ \A k \in 1 .. 4 : digits[k] = text[p + k - 1]
    BY <1>1, FieldParts
  <2>2. p + 1 - 1 = p /\ p + 2 - 1 = p + 1 /\ p + 3 - 1 = p + 2 /\ p + 4 - 1 = p + 3
    OBVIOUS
  <2>3. /\ digits[1] = text[p + 1 - 1] /\ digits[2] = text[p + 2 - 1]
        /\ digits[3] = text[p + 3 - 1] /\ digits[4] = text[p + 4 - 1]
    BY <2>1
  <2> QED
    BY <2>1, <2>2, <2>3
<1>3. PICK f \in [0 .. Len(digits) -> Nat] :
        /\ f[0] = 0
        /\ \A k \in 0 .. Len(digits) - 1 : f[k + 1] = f[k] * 10 + digits[k + 1]
        /\ Horner(digits, 10) = f[Len(digits)]
  <2>1. 10 \in Nat
    OBVIOUS
  <2> QED
    BY <1>2, <2>1, HornerTable
<1>4. f[1] = f[0] * 10 + digits[1]
  <2>1. 0 \in 0 .. Len(digits) - 1 /\ 0 + 1 = 1
    BY <1>2
  <2> QED
    BY <1>3, <2>1
<1>5. f[2] = f[1] * 10 + digits[2]
  <2>1. 1 \in 0 .. Len(digits) - 1 /\ 1 + 1 = 2
    BY <1>2
  <2> QED
    BY <1>3, <2>1
<1>6. f[3] = f[2] * 10 + digits[3]
  <2>1. 2 \in 0 .. Len(digits) - 1 /\ 2 + 1 = 3
    BY <1>2
  <2> QED
    BY <1>3, <2>1
<1>7. f[4] = f[3] * 10 + digits[4]
  <2>1. 3 \in 0 .. Len(digits) - 1 /\ 3 + 1 = 4
    BY <1>2
  <2> QED
    BY <1>3, <2>1
<1>8. \A k \in 0 .. 4 : f[k] \in Nat
  BY <1>2, <1>3
<1>9. Horner(digits, 10) = f[4]
  BY <1>2, <1>3
<1>10. f[1] = text[p] /\ f[2] = text[p] * 10 + text[p + 1]
  <2>1. f[1] = text[p]
    <3>1. digits \in Seq(Nat) /\ 1 \in 1 .. Len(digits)
      BY <1>2
    <3>2. PICK x \in Nat : x = digits[1]
      BY <3>1
    <3>3. f[1] = 0 * 10 + x
      BY <1>3, <1>4, <3>2
    <3>4. f[1] = x
      BY <3>3
    <3> QED
      BY <1>2, <3>2, <3>4
  <2> QED
    BY <1>2, <1>5, <2>1
<1>11. f[3] = (text[p] * 10 + text[p + 1]) * 10 + text[p + 2]
  BY <1>2, <1>6, <1>10
<1> QED
  BY <1>1, <1>2, <1>7, <1>9, <1>11 DEF Field

(***************************************************************************)
(* One or two characters behind a text.                                    *)
(***************************************************************************)
LEMMA OneMore ==
  ASSUME NEW s \in Seq(Nat), NEW a \in Nat
  PROVE  /\ s \o <<a>> \in Seq(Nat) /\ Len(s \o <<a>>) = Len(s) + 1
         /\ \A k \in 1 .. Len(s) : (s \o <<a>>)[k] = s[k]
         /\ (s \o <<a>>)[Len(s) + 1] = a
OBVIOUS

LEMMA TwoMore ==
  ASSUME NEW s \in Seq(Nat), NEW n \in 0 .. 100
  PROVE  /\ s \o TwoDigits(n) \in Seq(Nat) /\ Len(s \o TwoDigits(n)) = Len(s) + 2
         /\ \A k \in 1 .. Len(s) : (s \o TwoDigits(n))[k] = s[k]
         /\ (s \o TwoDigits(n))[Len(s) + 1] = n \div 10
         /\ (s \o TwoDigits(n))[Len(s) + 2] = n % 10
<1>1. n \div 10 \in Nat /\ n % 10 \in Nat
  OBVIOUS
<1> QED
  BY <1>1 DEF TwoDigits
-----------------------------------------------------------------------------
(***************************************************************************)
(* What is written as a date is read as that date, alone or with more      *)
(* behind it.                                                              *)
(***************************************************************************)
SpellsDate(text, y, m, day) ==
  /\ text[1] = (y \div 100) \div 10 /\ text[2] = (y \div 100) % 10
  /\ text[3] = (y % 100) \div 10 /\ text[4] = (y % 100) % 10
  /\ text[5] = Minus
  /\ text[6] = m \div 10 /\ text[7] = m % 10
  /\ text[8] = Minus
  /\ text[9] = day \div 10 /\ text[10] = day % 10

\* The years of four digits.
WrittenYears == {y \in Nat : y < 10000}

LEMMA YearDigits ==
  ASSUME NEW y \in WrittenYears
  PROVE  /\ y \in Nat /\ y \div 100 \in 0 .. 100 /\ y % 100 \in 0 .. 100
         /\ (y \div 100) \div 10 \in 0 .. 9 /\ (y \div 100) % 10 \in 0 .. 9
         /\ (y % 100) \div 10 \in 0 .. 9 /\ (y % 100) % 10 \in 0 .. 9
         /\ (((((y \div 100) \div 10) * 10 + ((y \div 100) % 10)) * 10 + ((y % 100) \div 10)) * 10
               + ((y % 100) % 10)) = y
<1>1. /\ y \in Nat /\ y \div 100 \in 0 .. 100 /\ y % 100 \in 0 .. 100
      /\ (y \div 100) \div 10 \in 0 .. 9 /\ (y \div 100) % 10 \in 0 .. 9
      /\ (y % 100) \div 10 \in 0 .. 9 /\ (y % 100) % 10 \in 0 .. 9
  BY DEF WrittenYears
<1>2. (((((y \div 100) \div 10) * 10 + ((y \div 100) % 10)) * 10 + ((y % 100) \div 10)) * 10
         + ((y % 100) % 10)) = y
  BY DEF WrittenYears
<1> QED
  BY <1>1, <1>2

LEMMA MonthDays ==
  ASSUME NEW y \in WrittenYears, NEW m \in 1 .. 12
  PROVE  DaysInMonth(y, m) \in Nat
<1>1. PICK year \in Nat : year = y
  BY YearDigits
<1>2. DaysInMonth(year, m) = IF m = 2 THEN IF LeapYear(year) THEN 29 ELSE 28
                             ELSE IF m \in {4, 6, 9, 11} THEN 30 ELSE 31
  BY MonthLengths
<1> QED
  BY <1>1, <1>2

LEMMA DateSpelled ==
  ASSUME NEW y \in WrittenYears, NEW m \in 1 .. 12, NEW day \in 1 .. 32
  PROVE  \E text \in Seq(Nat) :
           /\ text = TwoDigits(y \div 100) \o TwoDigits(y % 100) \o <<Minus>> \o TwoDigits(m)
                       \o <<Minus>> \o TwoDigits(day)
           /\ Len(text) = 10 /\ SpellsDate(text, y, m, day)
<1>1. y \div 100 \in 0 .. 100 /\ y % 100 \in 0 .. 100 /\ m \in 0 .. 100 /\ day \in 0 .. 100
  BY YearDigits
<1>2. Minus \in Nat
  BY DEF Minus
<1>3. PICK a : a = TwoDigits(y \div 100)
  OBVIOUS
<1>4. /\ a \in Seq(Nat) /\ Len(a) = 2
      /\ a[1] = (y \div 100) \div 10 /\ a[2] = (y \div 100) % 10
  <2>1. (y \div 100) \div 10 \in Nat /\ (y \div 100) % 10 \in Nat
    BY YearDigits
  <2> QED
    BY <1>3, <2>1 DEF TwoDigits
<1>5. PICK b : b = a \o TwoDigits(y % 100)
  OBVIOUS
<1>6. /\ b \in Seq(Nat) /\ Len(b) = 4
      /\ b[1] = a[1] /\ b[2] = a[2] /\ b[3] = (y % 100) \div 10 /\ b[4] = (y % 100) % 10
  <2>1. /\ b \in Seq(Nat) /\ Len(b) = Len(a) + 2
        /\ \A k \in 1 .. Len(a) : b[k] = a[k]
        /\ b[Len(a) + 1] = (y % 100) \div 10 /\ b[Len(a) + 2] = (y % 100) % 10
    <3>1. PICK n \in 0 .. 100 : n = y % 100
      BY <1>1
    <3>2. /\ b \in Seq(Nat) /\ Len(b) = Len(a) + 2
          /\ \A k \in 1 .. Len(a) : b[k] = a[k]
          /\ b[Len(a) + 1] = n \div 10 /\ b[Len(a) + 2] = n % 10
      <4>1. a \in Seq(Nat)
        BY <1>4
      <4>2. b = a \o TwoDigits(n)
        BY <1>5, <3>1
      <4> HIDE <1>5
      <4> QED
        BY <4>1, <4>2, TwoMore
    <3> QED
      BY <3>1, <3>2
  <2> QED
    BY <1>4, <2>1
<1>7. PICK c : c = b \o <<Minus>>
  OBVIOUS
<1>8. /\ c \in Seq(Nat) /\ Len(c) = 5 /\ c[5] = Minus
      /\ \A k \in 1 .. 4 : c[k] = b[k]
  <2>1. /\ c \in Seq(Nat) /\ Len(c) = Len(b) + 1 /\ c[Len(b) + 1] = Minus
        /\ \A k \in 1 .. Len(b) : c[k] = b[k]
    BY <1>2, <1>6, <1>7, OneMore
  <2> QED
    BY <1>6, <2>1
<1>9. PICK d : d = c \o TwoDigits(m)
  OBVIOUS
<1>10. /\ d \in Seq(Nat) /\ Len(d) = 7 /\ d[6] = m \div 10 /\ d[7] = m % 10
       /\ \A k \in 1 .. 5 : d[k] = c[k]
  <2>1. /\ d \in Seq(Nat) /\ Len(d) = Len(c) + 2
        /\ \A k \in 1 .. Len(c) : d[k] = c[k]
        /\ d[Len(c) + 1] = m \div 10 /\ d[Len(c) + 2] = m % 10
    BY <1>1, <1>8, <1>9, TwoMore
  <2> QED
    BY <1>8, <2>1
<1>11. PICK e : e = d \o <<Minus>>
  OBVIOUS
<1>12. /\ e \in Seq(Nat) /\ Len(e) = 8 /\ e[8] = Minus
       /\ \A k \in 1 .. 7 : e[k] = d[k]
  <2>1. /\ e \in Seq(Nat) /\ Len(e) = Len(d) + 1 /\ e[Len(d) + 1] = Minus
        /\ \A k \in 1 .. Len(d) : e[k] = d[k]
    BY <1>2, <1>10, <1>11, OneMore
  <2> QED
    BY <1>10, <2>1
<1>13. PICK f : f = e \o TwoDigits(day)
  OBVIOUS
<1>14. /\ f \in Seq(Nat) /\ Len(f) = 10 /\ f[9] = day \div 10 /\ f[10] = day % 10
       /\ \A k \in 1 .. 8 : f[k] = e[k]
  <2>1. /\ f \in Seq(Nat) /\ Len(f) = Len(e) + 2
        /\ \A k \in 1 .. Len(e) : f[k] = e[k]
        /\ f[Len(e) + 1] = day \div 10 /\ f[Len(e) + 2] = day % 10
    BY <1>1, <1>12, <1>13, TwoMore
  <2> QED
    BY <1>12, <2>1
<1>15. f = TwoDigits(y \div 100) \o TwoDigits(y % 100) \o <<Minus>> \o TwoDigits(m)
             \o <<Minus>> \o TwoDigits(day)
  BY <1>3, <1>5, <1>7, <1>9, <1>11, <1>13
<1>16. SpellsDate(f, y, m, day)
  <2>1. /\ f[1] = a[1] /\ f[2] = a[2] /\ f[3] = b[3] /\ f[4] = b[4] /\ f[5] = Minus
        /\ f[6] = d[6] /\ f[7] = d[7] /\ f[8] = Minus
    BY <1>6, <1>8, <1>10, <1>12, <1>14, SMTT(30)
  <2> QED
    BY <1>4, <1>6, <1>10, <1>14, <2>1 DEF SpellsDate
<1> QED
  BY <1>14, <1>15, <1>16

ReadsDate(text, y, m, day) ==
  Field(text, 1, 4) = y /\ Field(text, 6, 2) = m /\ Field(text, 9, 2) = day

LEMMA DateFields ==
  ASSUME NEW y \in WrittenYears, NEW m \in 1 .. 12, NEW day \in 1 .. 32,
         NEW text \in Seq(Nat), Len(text) >= 10, SpellsDate(text, y, m, day)
  PROVE  ReadsDate(text, y, m, day)
<1>1. Field(text, 1, 4) = y
  <2>1. Field(text, 1, 4) = ((text[1] * 10 + text[1 + 1]) * 10 + text[1 + 2]) * 10 + text[1 + 3]
    BY FieldOfFour
  <2>2. Field(text, 1, 4) = ((text[1] * 10 + text[2]) * 10 + text[3]) * 10 + text[4]
    BY <2>1
  <2>3. (((((y \div 100) \div 10) * 10 + ((y \div 100) % 10)) * 10 + ((y % 100) \div 10)) * 10
           + ((y % 100) % 10)) = y
    BY YearDigits
  <2> QED
    BY <2>2, <2>3 DEF SpellsDate
<1>2. Field(text, 6, 2) = m
  <2>1. Field(text, 6, 2) = text[6] * 10 + text[6 + 1]
    BY FieldOfTwo
  <2>2. Field(text, 6, 2) = text[6] * 10 + text[7]
    BY <2>1
  <2> QED
    BY <2>2 DEF SpellsDate
<1>3. Field(text, 9, 2) = day
  <2>1. Field(text, 9, 2) = text[9] * 10 + text[9 + 1]
    BY FieldOfTwo
  <2>2. Field(text, 9, 2) = text[9] * 10 + text[10]
    BY <2>1
  <2> QED
    BY <2>2 DEF SpellsDate
<1> QED
  BY <1>1, <1>2, <1>3 DEF ReadsDate

LEMMA DateRead ==
  ASSUME NEW y \in WrittenYears, NEW m \in 1 .. 12, NEW day \in 1 .. 32,
         NEW text \in Seq(Nat), Len(text) >= 10, SpellsDate(text, y, m, day)
  PROVE  IsDate(text) <=> day <= DaysInMonth(y, m)
<1>1. ReadsDate(text, y, m, day)
  BY DateFields
<1>2. Field(text, 1, 4) = y /\ Field(text, 6, 2) = m /\ Field(text, 9, 2) = day
  BY <1>1 DEF ReadsDate
<1>3. \A k \in {1, 2, 3, 4, 6, 7, 9, 10} : text[k] \in Digit
  <2>1. /\ (y \div 100) \div 10 \in 0 .. 9 /\ (y \div 100) % 10 \in 0 .. 9
        /\ (y % 100) \div 10 \in 0 .. 9 /\ (y % 100) % 10 \in 0 .. 9
    BY YearDigits
  <2>2. m \div 10 \in 0 .. 9 /\ m % 10 \in 0 .. 9 /\ day \div 10 \in 0 .. 9 /\ day % 10 \in 0 .. 9
    OBVIOUS
  <2> QED
    <3>1. text[1] \in 0 .. 9 /\ text[2] \in 0 .. 9 /\ text[3] \in 0 .. 9 /\ text[4] \in 0 .. 9
      BY <2>1 DEF SpellsDate
    <3>2. text[6] \in 0 .. 9 /\ text[7] \in 0 .. 9 /\ text[9] \in 0 .. 9 /\ text[10] \in 0 .. 9
      BY <2>2 DEF SpellsDate
    <3> QED
      BY <3>1, <3>2 DEF Digit
<1>4. IsField(text, 1, 4) /\ IsField(text, 6, 2) /\ IsField(text, 9, 2)
  <2>1. \A k \in 1 .. 4 : text[k] \in Digit
    <3>1. text[1] \in Digit /\ text[2] \in Digit /\ text[3] \in Digit /\ text[4] \in Digit
      BY <1>3
    <3>2. 1 .. 4 = {1, 2, 3, 4}
      OBVIOUS
    <3> QED
      BY <3>1, <3>2
  <2>2. \A k \in 6 .. 7 : text[k] \in Digit
    BY <1>3
  <2>3. \A k \in 9 .. 10 : text[k] \in Digit
    BY <1>3
  <2>4. /\ 1 + 4 - 1 = 4 /\ 6 + 2 - 1 = 7 /\ 9 + 2 - 1 = 10
        /\ 4 <= Len(text) /\ 7 <= Len(text) /\ 10 <= Len(text)
    OBVIOUS
  <2> QED
    BY <2>1, <2>2, <2>3, <2>4 DEF IsField
<1>5. At(text, 5, Minus) /\ At(text, 8, Minus)
  <2>1. DOMAIN text = 1 .. Len(text)
    OBVIOUS
  <2>2. 5 \in DOMAIN text /\ 8 \in DOMAIN text
    BY <2>1
  <2> QED
    BY <2>2 DEF At, SpellsDate
<1>6. DaysInMonth(y, m) \in Nat
  BY MonthDays
<1>7. m \in 1 .. 12 /\ (day \in 1 .. DaysInMonth(y, m) <=> day <= DaysInMonth(y, m))
  BY <1>6
<1> QED
  BY <1>2, <1>4, <1>5, <1>7 DEF IsDate

LEMMA DatetimeIsNoError ==
  ASSUME NEW n PROVE DatetimeValue(n) # ErrorValue
BY DEF DatetimeValue, ErrorValue

LEMMA DateValue ==
  ASSUME NEW y \in WrittenYears, NEW m \in 1 .. 12, NEW day \in 1 .. 32,
         NEW text \in Seq(Nat), Len(text) = 10, SpellsDate(text, y, m, day)
  PROVE  MakeDatetime(text) =
           IF day <= DaysInMonth(y, m) THEN DatetimeValue(DaysFromCivil(y, m, day) * DayMs)
           ELSE ErrorValue
<1>1. Len(text) >= 10
  OBVIOUS
<1>2. ReadsDate(text, y, m, day)
  BY <1>1, DateFields
<1>3. Field(text, 1, 4) = y /\ Field(text, 6, 2) = m /\ Field(text, 9, 2) = day
  BY <1>2 DEF ReadsDate
<1>4. IsDate(text) <=> day <= DaysInMonth(y, m)
  BY <1>1, DateRead
<1> QED
  BY <1>3, <1>4 DEF MakeDatetime

(***************************************************************************)
(* The calendar's day, as the lemmas above take it.                        *)
(***************************************************************************)
LEMMA DayNumbers ==
  ASSUME kind = "day", DayInv
  PROVE  /\ input.y \in WrittenYears /\ input.m \in 1 .. 12 /\ input.d \in 1 .. 31
         /\ input.tick \in 0 .. DayMs - 1 /\ input.days \in Int
<1>1. Years \subseteq WrittenYears
  BY YearAssumption DEF Years, WrittenYears
<1>2. input \in [y : Years, m : 1 .. 12, d : 1 .. 31, tick : 0 .. DayMs - 1, days : Int]
  BY DEF DayInv
<1>3. /\ input.y \in Years /\ input.m \in 1 .. 12 /\ input.d \in 1 .. 31
      /\ input.tick \in 0 .. DayMs - 1 /\ input.days \in Int
  BY <1>2
<1> QED
  BY <1>1, <1>3

LEMMA DateLaws ==
  ASSUME kind = "day", DayInv
  PROVE  DateCountsDays /\ NoDayAfterTheLast
<1>1. PICK y \in WrittenYears, m \in 1 .. 12, d \in 1 .. 31 : y = input.y /\ m = input.m /\ d = input.d
  BY DayNumbers
<1>2. d <= DaysInMonth(y, m) /\ input.days = DaysFromCivil(y, m, d)
  BY <1>1 DEF DayInv
<1>3. DaysInMonth(y, m) \in Nat
  BY MonthDays
<1>4. ASSUME NEW day \in 1 .. 32
      PROVE  MakeDatetime(DateText(day)) =
               IF day <= DaysInMonth(y, m) THEN DatetimeValue(DaysFromCivil(y, m, day) * DayMs)
               ELSE ErrorValue
  <2>1. PICK text \in Seq(Nat) :
          /\ text = TwoDigits(y \div 100) \o TwoDigits(y % 100) \o <<Minus>> \o TwoDigits(m)
                      \o <<Minus>> \o TwoDigits(day)
          /\ Len(text) = 10 /\ SpellsDate(text, y, m, day)
    BY DateSpelled
  <2>2. DateText(day) = text
    BY <1>1, <2>1 DEF DateText
  <2> QED
    BY <2>1, <2>2, DateValue
<1>5. DateCountsDays
  <2>1. d \in 1 .. 32
    OBVIOUS
  <2>2. MakeDatetime(DateText(d)) = DatetimeValue(DaysFromCivil(y, m, d) * DayMs)
    BY <1>2, <1>4, <2>1
  <2> QED
    BY <1>1, <1>2, <2>2 DEF DateCountsDays
<1>6. NoDayAfterTheLast
  <2>1. d + 1 \in 1 .. 32
    OBVIOUS
  <2>2. MonthEnds <=> d = DaysInMonth(y, m)
    BY <1>1, MonthEndsIsLast
  <2>3. MakeDatetime(DateText(d + 1)) = ErrorValue <=> ~(d + 1 <= DaysInMonth(y, m))
    BY <1>4, <2>1, DatetimeIsNoError
  <2>4. MakeDatetime(DateText(d + 1)) = ErrorValue <=> MonthEnds
    BY <1>2, <1>3, <2>2, <2>3
  <2> QED
    BY <1>1, <2>4 DEF NoDayAfterTheLast
<1> QED
  BY <1>5, <1>6
-----------------------------------------------------------------------------
(***************************************************************************)
(* Two digits anywhere in a text; a hundred has none.                      *)
(***************************************************************************)
LEMMA TwoDigitsRead ==
  ASSUME NEW text \in Seq(Nat), NEW p \in Nat \ {0}, p + 1 <= Len(text), NEW n \in 0 .. 100,
         text[p] = n \div 10, text[p + 1] = n % 10
  PROVE  Field(text, p, 2) = n /\ (IsField(text, p, 2) <=> n < 100)
<1>1. Field(text, p, 2) = text[p] * 10 + text[p + 1]
  BY FieldOfTwo
<1>2. (n \div 10) * 10 + (n % 10) = n
  OBVIOUS
<1>3. n % 10 \in 0 .. 9 /\ (n \div 10 \in 0 .. 9 <=> n < 100)
  OBVIOUS
<1>4. p .. p + 2 - 1 = {p, p + 1} /\ p + 2 - 1 <= Len(text)
  OBVIOUS
<1>5. IsField(text, p, 2) <=> text[p] \in 0 .. 9 /\ text[p + 1] \in 0 .. 9
  BY <1>4 DEF IsField, Digit
<1> QED
  BY <1>1, <1>2, <1>3, <1>5
(***************************************************************************)
(* The clock behind a date: written as it is in TimeText, and read.        *)
(***************************************************************************)
Fraction(ms) == [k \in 1 .. MsDigits |-> (ms \div Pow(10, MsDigits - k)) % 10]

ClockText(hh, mi, ss, ms) ==
  <<LetterT>> \o TwoDigits(hh) \o <<Colon>> \o TwoDigits(mi) \o <<Colon>> \o TwoDigits(ss)
    \o <<Dot>> \o Fraction(ms)

SpellsTime(text, hh, mi, ss, ms) ==
  /\ text[11] = LetterT /\ text[14] = Colon /\ text[17] = Colon /\ text[20] = Dot
  /\ text[12] = hh \div 10 /\ text[13] = hh % 10
  /\ text[15] = mi \div 10 /\ text[16] = mi % 10
  /\ text[18] = ss \div 10 /\ text[19] = ss % 10
  /\ \A k \in 1 .. MsDigits : text[20 + k] = (ms \div Pow(10, MsDigits - k)) % 10

LEMMA Joined ==
  ASSUME NEW s \in Seq(Nat), NEW t \in Seq(Nat)
  PROVE  /\ s \o t \in Seq(Nat) /\ Len(s \o t) = Len(s) + Len(t)
         /\ \A k \in 1 .. Len(s) : (s \o t)[k] = s[k]
         /\ \A k \in 1 .. Len(t) : (s \o t)[Len(s) + k] = t[k]
OBVIOUS

LEMMA FractionWritten ==
  ASSUME NEW ms \in Nat
  PROVE  /\ Fraction(ms) \in Seq(Nat) /\ Len(Fraction(ms)) = MsDigits
         /\ \A k \in 1 .. MsDigits : /\ Fraction(ms)[k] = (ms \div Pow(10, MsDigits - k)) % 10
                                     /\ Fraction(ms)[k] \in 0 .. 9
<1>1. MsDigits \in Nat
  BY WidthAssumption
<1>2. ASSUME NEW k \in 1 .. MsDigits PROVE (ms \div Pow(10, MsDigits - k)) % 10 \in 0 .. 9
  <2>1. PICK j \in Nat : j = MsDigits - k
    BY <1>1
  <2>2. PICK b \in Nat \ {0} : b = Pow(10, j)
    BY PowOfTen
  <2>3. PICK q \in Nat : q = ms \div b
    BY NaturalQuotient
  <2>4. q % 10 \in 0 .. 9
    OBVIOUS
  <2> QED
    BY <2>1, <2>2, <2>3, <2>4
<1>3. Fraction(ms) \in [1 .. MsDigits -> Nat]
  <2>1. \A k \in 1 .. MsDigits : (ms \div Pow(10, MsDigits - k)) % 10 \in Nat
    BY <1>2
  <2> QED
    BY <2>1 DEF Fraction
<1>4. Fraction(ms) \in Seq(Nat) /\ Len(Fraction(ms)) = MsDigits
  BY <1>1, <1>3
<1>5. \A k \in 1 .. MsDigits : Fraction(ms)[k] = (ms \div Pow(10, MsDigits - k)) % 10
  BY DEF Fraction
<1> QED
  BY <1>2, <1>4, <1>5

\* What two digits can write.
BelowHundred == 0 .. 99

ClockBehind(text, date, hh, mi, ss, ms) ==
  /\ text = date \o ClockText(hh, mi, ss, ms)
  /\ Len(text) = 20 + MsDigits /\ SpellsTime(text, hh, mi, ss, ms)
  /\ \A k \in 1 .. 10 : text[k] = date[k]

LEMMA ClockSpelled ==
  ASSUME NEW date \in Seq(Nat), Len(date) = 10,
         NEW hh \in BelowHundred, NEW mi \in BelowHundred, NEW ss \in BelowHundred, NEW ms \in Nat
  PROVE  \E text \in Seq(Nat) : ClockBehind(text, date, hh, mi, ss, ms)
<1>1. LetterT \in Nat /\ Colon \in Nat /\ Dot \in Nat /\ MsDigits \in Nat
  BY WidthAssumption DEF LetterT, Colon, Dot
<1>2. hh \in 0 .. 100 /\ mi \in 0 .. 100 /\ ss \in 0 .. 100
  BY DEF BelowHundred
<1>3. PICK a : a = <<LetterT>>
  OBVIOUS
<1>4. a \in Seq(Nat) /\ Len(a) = 1 /\ a[1] = LetterT
  BY <1>1, <1>3
<1>5. PICK b : b = a \o TwoDigits(hh)
  OBVIOUS
<1>6. /\ b \in Seq(Nat) /\ Len(b) = 3 /\ b[1] = a[1] /\ b[2] = hh \div 10 /\ b[3] = hh % 10
  <2>1. /\ b \in Seq(Nat) /\ Len(b) = Len(a) + 2
        /\ \A k \in 1 .. Len(a) : b[k] = a[k]
        /\ b[Len(a) + 1] = hh \div 10 /\ b[Len(a) + 2] = hh % 10
    BY <1>2, <1>4, <1>5, TwoMore
  <2> QED
    BY <1>4, <2>1
<1>7. PICK c : c = b \o <<Colon>>
  OBVIOUS
<1>8. c \in Seq(Nat) /\ Len(c) = 4 /\ c[4] = Colon /\ \A k \in 1 .. 3 : c[k] = b[k]
  <2>1. /\ c \in Seq(Nat) /\ Len(c) = Len(b) + 1 /\ c[Len(b) + 1] = Colon
        /\ \A k \in 1 .. Len(b) : c[k] = b[k]
    BY <1>1, <1>6, <1>7, OneMore
  <2> QED
    BY <1>6, <2>1
<1>9. PICK d : d = c \o TwoDigits(mi)
  OBVIOUS
<1>10. /\ d \in Seq(Nat) /\ Len(d) = 6 /\ d[5] = mi \div 10 /\ d[6] = mi % 10
       /\ \A k \in 1 .. 4 : d[k] = c[k]
  <2>1. /\ d \in Seq(Nat) /\ Len(d) = Len(c) + 2
        /\ \A k \in 1 .. Len(c) : d[k] = c[k]
        /\ d[Len(c) + 1] = mi \div 10 /\ d[Len(c) + 2] = mi % 10
    BY <1>2, <1>8, <1>9, TwoMore
  <2> QED
    BY <1>8, <2>1
<1>11. PICK e : e = d \o <<Colon>>
  OBVIOUS
<1>12. e \in Seq(Nat) /\ Len(e) = 7 /\ e[7] = Colon /\ \A k \in 1 .. 6 : e[k] = d[k]
  <2>1. /\ e \in Seq(Nat) /\ Len(e) = Len(d) + 1 /\ e[Len(d) + 1] = Colon
        /\ \A k \in 1 .. Len(d) : e[k] = d[k]
    BY <1>1, <1>10, <1>11, OneMore, ZenonT(30)
  <2> QED
    BY <1>10, <2>1
<1>13. PICK f : f = e \o TwoDigits(ss)
  OBVIOUS
<1>14. /\ f \in Seq(Nat) /\ Len(f) = 9 /\ f[8] = ss \div 10 /\ f[9] = ss % 10
       /\ \A k \in 1 .. 7 : f[k] = e[k]
  <2>1. /\ f \in Seq(Nat) /\ Len(f) = Len(e) + 2
        /\ \A k \in 1 .. Len(e) : f[k] = e[k]
        /\ f[Len(e) + 1] = ss \div 10 /\ f[Len(e) + 2] = ss % 10
    BY <1>2, <1>12, <1>13, TwoMore
  <2> QED
    BY <1>12, <2>1
<1>15. PICK g : g = f \o <<Dot>>
  OBVIOUS
<1>16. g \in Seq(Nat) /\ Len(g) = 10 /\ g[10] = Dot /\ \A k \in 1 .. 9 : g[k] = f[k]
  <2>1. /\ g \in Seq(Nat) /\ Len(g) = Len(f) + 1 /\ g[Len(f) + 1] = Dot
        /\ \A k \in 1 .. Len(f) : g[k] = f[k]
    BY <1>1, <1>14, <1>15, OneMore, ZenonT(30)
  <2> QED
    BY <1>14, <2>1
<1>17. PICK t : t = g \o Fraction(ms)
  OBVIOUS
<1>18. /\ t \in Seq(Nat) /\ Len(t) = 10 + MsDigits
       /\ \A k \in 1 .. 10 : t[k] = g[k]
       /\ \A k \in 1 .. MsDigits : t[10 + k] = (ms \div Pow(10, MsDigits - k)) % 10
  <2>1. PICK u \in Seq(Nat) : u = Fraction(ms)
    BY FractionWritten
  <2>2. Len(u) = MsDigits /\ \A k \in 1 .. MsDigits : u[k] = (ms \div Pow(10, MsDigits - k)) % 10
    BY <2>1, FractionWritten
  <2>3. /\ t \in Seq(Nat) /\ Len(t) = Len(g) + Len(u)
        /\ \A k \in 1 .. Len(g) : t[k] = g[k]
        /\ \A k \in 1 .. Len(u) : t[Len(g) + k] = u[k]
    <3>1. g \in Seq(Nat) /\ t = g \o u
      BY <1>16, <1>17, <2>1
    <3> QED
      BY <3>1, Joined
  <2> QED
    BY <1>16, <2>2, <2>3
<1>19. t = ClockText(hh, mi, ss, ms)
  BY <1>3, <1>5, <1>7, <1>9, <1>11, <1>13, <1>15, <1>17 DEF ClockText
<1>20. /\ t[1] = LetterT /\ t[4] = Colon /\ t[7] = Colon /\ t[10] = Dot
       /\ t[2] = hh \div 10 /\ t[3] = hh % 10 /\ t[5] = mi \div 10 /\ t[6] = mi % 10
       /\ t[8] = ss \div 10 /\ t[9] = ss % 10
  <2>1. c[1] = LetterT /\ c[2] = hh \div 10 /\ c[3] = hh % 10 /\ c[4] = Colon
    <3>1. c[1] = b[1] /\ c[2] = b[2] /\ c[3] = b[3] /\ c[4] = Colon
      BY <1>8
    <3> QED
      BY <1>4, <1>6, <3>1
  <2>2. /\ e[1] = c[1] /\ e[2] = c[2] /\ e[3] = c[3] /\ e[4] = c[4]
        /\ e[5] = mi \div 10 /\ e[6] = mi % 10 /\ e[7] = Colon
    <3>1. /\ e[1] = d[1] /\ e[2] = d[2] /\ e[3] = d[3] /\ e[4] = d[4] /\ e[5] = d[5]
          /\ e[6] = d[6] /\ e[7] = Colon
      BY <1>12
    <3>2. d[1] = c[1] /\ d[2] = c[2] /\ d[3] = c[3] /\ d[4] = c[4]
      BY <1>10
    <3> QED
      BY <1>10, <3>1, <3>2
  <2>3. /\ g[1] = e[1] /\ g[2] = e[2] /\ g[3] = e[3] /\ g[4] = e[4] /\ g[5] = e[5]
        /\ g[6] = e[6] /\ g[7] = e[7] /\ g[8] = ss \div 10 /\ g[9] = ss % 10 /\ g[10] = Dot
    <3>1. /\ g[1] = f[1] /\ g[2] = f[2] /\ g[3] = f[3] /\ g[4] = f[4] /\ g[5] = f[5]
          /\ g[6] = f[6] /\ g[7] = f[7] /\ g[8] = f[8] /\ g[9] = f[9] /\ g[10] = Dot
      BY <1>16
    <3>2. /\ f[1] = e[1] /\ f[2] = e[2] /\ f[3] = e[3] /\ f[4] = e[4] /\ f[5] = e[5]
          /\ f[6] = e[6] /\ f[7] = e[7]
      BY <1>14
    <3> QED
      BY <1>14, <3>1, <3>2
  <2>4. /\ t[1] = g[1] /\ t[2] = g[2] /\ t[3] = g[3] /\ t[4] = g[4] /\ t[5] = g[5]
        /\ t[6] = g[6] /\ t[7] = g[7] /\ t[8] = g[8] /\ t[9] = g[9] /\ t[10] = g[10]
    BY <1>18
  <2> QED
    BY <2>1, <2>2, <2>3, <2>4
<1>21. PICK text : text = date \o t
  OBVIOUS
<1>22. /\ text \in Seq(Nat) /\ Len(text) = Len(date) + Len(t)
       /\ \A k \in 1 .. Len(date) : text[k] = date[k]
       /\ \A k \in 1 .. Len(t) : text[Len(date) + k] = t[k]
  BY <1>18, <1>21, Joined
<1>23. Len(text) = 20 + MsDigits /\ \A k \in 1 .. 10 : text[k] = date[k]
  BY <1>1, <1>18, <1>22
<1>24. ASSUME NEW k \in 1 .. 10 PROVE text[10 + k] = t[k]
  <2>1. k \in 1 .. Len(t)
    <3>1. PICK n \in Nat : n = Len(t) /\ n = 10 + MsDigits
      BY <1>1, <1>18
    <3>2. n >= 10
      BY <1>1, <3>1
    <3> QED
      BY <3>1, <3>2
  <2> QED
    BY <1>22, <2>1
<1>25. \A k \in 1 .. MsDigits : text[20 + k] = (ms \div Pow(10, MsDigits - k)) % 10
  <2> SUFFICES ASSUME NEW k \in 1 .. MsDigits
               PROVE  text[20 + k] = (ms \div Pow(10, MsDigits - k)) % 10
    OBVIOUS
  <2>1. 10 + k \in 1 .. Len(t) /\ 10 + (10 + k) = 20 + k
    BY <1>1, <1>18
  <2>2. text[20 + k] = t[10 + k]
    BY <1>22, <2>1
  <2> QED
    BY <1>18, <2>2
<1>26. SpellsTime(text, hh, mi, ss, ms)
  <2>1. /\ text[11] = t[1] /\ text[12] = t[2] /\ text[13] = t[3] /\ text[14] = t[4]
        /\ text[15] = t[5] /\ text[16] = t[6] /\ text[17] = t[7] /\ text[18] = t[8]
        /\ text[19] = t[9] /\ text[20] = t[10]
    <3>1. \A k \in 1 .. 10 : text[10 + k] = t[k]
      BY <1>24
    <3> QED
      BY <3>1
  <2> QED
    BY <1>20, <1>25, <2>1 DEF SpellsTime
<1> QED
  BY <1>19, <1>21, <1>22, <1>23, <1>26 DEF ClockBehind
ReadsTime(text, hh, mi, ss, ms) ==
  /\ Field(text, 12, 2) = hh /\ Field(text, 15, 2) = mi /\ Field(text, 18, 2) = ss
  /\ Field(text, 21, MsDigits) = ms
  /\ At(text, 11, LetterT) /\ At(text, 14, Colon) /\ At(text, 17, Colon) /\ At(text, 20, Dot)
  /\ IsField(text, 12, 2) /\ IsField(text, 15, 2) /\ IsField(text, 18, 2)
  /\ IsField(text, 21, MsDigits)

LEMMA ClockRead ==
  ASSUME NEW hh \in BelowHundred, NEW mi \in BelowHundred, NEW ss \in BelowHundred,
         NEW ms \in Nat, ms < SecondMs,
         NEW text \in Seq(Nat), Len(text) >= 20 + MsDigits, SpellsTime(text, hh, mi, ss, ms)
  PROVE  ReadsTime(text, hh, mi, ss, ms)
<1>1. MsDigits \in Nat /\ Len(text) \in Nat
  BY WidthAssumption
<1>2. Len(text) >= 20
  BY <1>1
<1>3. Field(text, 12, 2) = hh /\ IsField(text, 12, 2)
  <2>1. PICK n \in 0 .. 100, q \in Nat \ {0} : n = hh /\ q = 12 /\ n < 100
    BY DEF BelowHundred
  <2>2. q + 1 <= Len(text) /\ text[q] = n \div 10 /\ text[q + 1] = n % 10 /\ n < 100
    <3>1. text[12] = hh \div 10 /\ text[13] = hh % 10
      BY DEF SpellsTime
    <3>2. q + 1 = 13 /\ q + 1 <= Len(text)
      BY <1>1, <1>2, <2>1
    <3>3. n < 100
      BY <2>1
    <3> QED
      BY <2>1, <3>1, <3>2, <3>3
  <2>3. Field(text, q, 2) = n /\ (IsField(text, q, 2) <=> n < 100)
    BY <2>2, TwoDigitsRead
  <2> QED
    BY <2>1, <2>2, <2>3
<1>4. Field(text, 15, 2) = mi /\ IsField(text, 15, 2)
  <2>1. PICK n \in 0 .. 100, q \in Nat \ {0} : n = mi /\ q = 15 /\ n < 100
    BY DEF BelowHundred
  <2>2. q + 1 <= Len(text) /\ text[q] = n \div 10 /\ text[q + 1] = n % 10 /\ n < 100
    <3>1. text[15] = mi \div 10 /\ text[16] = mi % 10
      BY DEF SpellsTime
    <3>2. q + 1 = 16 /\ q + 1 <= Len(text)
      BY <1>1, <1>2, <2>1
    <3>3. n < 100
      BY <2>1
    <3> QED
      BY <2>1, <3>1, <3>2, <3>3
  <2>3. Field(text, q, 2) = n /\ (IsField(text, q, 2) <=> n < 100)
    BY <2>2, TwoDigitsRead
  <2> QED
    BY <2>1, <2>2, <2>3
<1>5. Field(text, 18, 2) = ss /\ IsField(text, 18, 2)
  <2>1. PICK n \in 0 .. 100, q \in Nat \ {0} : n = ss /\ q = 18 /\ n < 100
    BY DEF BelowHundred
  <2>2. q + 1 <= Len(text) /\ text[q] = n \div 10 /\ text[q + 1] = n % 10 /\ n < 100
    <3>1. text[18] = ss \div 10 /\ text[19] = ss % 10
      BY DEF SpellsTime
    <3>2. q + 1 = 19 /\ q + 1 <= Len(text)
      BY <1>1, <1>2, <2>1
    <3>3. n < 100
      BY <2>1
    <3> QED
      BY <2>1, <3>1, <3>2, <3>3
  <2>3. Field(text, q, 2) = n /\ (IsField(text, q, 2) <=> n < 100)
    BY <2>2, TwoDigitsRead
  <2> QED
    BY <2>1, <2>2, <2>3
<1>6. Field(text, 21, MsDigits) = ms /\ IsField(text, 21, MsDigits)
  <2>1. PICK p \in Nat \ {0} : p = 21
    OBVIOUS
  <2>2. p + MsDigits - 1 <= Len(text)
    BY <1>1, <2>1
  <2>3. PICK digits \in Seq(Nat) : digits = SubSeq(text, p, p + MsDigits - 1)
    BY <1>1, <2>2, FieldParts
  <2>4. Len(digits) = MsDigits /\ \A k \in 1 .. MsDigits : digits[k] = text[p + k - 1]
    BY <1>1, <2>2, <2>3, FieldParts
  <2>5. \A k \in 1 .. MsDigits : text[p + k - 1] = (ms \div Pow(10, MsDigits - k)) % 10
    <3> SUFFICES ASSUME NEW k \in 1 .. MsDigits
                 PROVE  text[p + k - 1] = (ms \div Pow(10, MsDigits - k)) % 10
      OBVIOUS
    <3>1. p + k - 1 = 20 + k
      BY <1>1, <2>1
    <3>2. text[20 + k] = (ms \div Pow(10, MsDigits - k)) % 10
      BY DEF SpellsTime
    <3> QED
      BY <3>1, <3>2
  <2>6. Horner(digits, 10) = ms
    <3>1. ms < Pow(10, MsDigits)
      BY DEF SecondMs
    <3>2. \A k \in 1 .. MsDigits : digits[k] = (ms \div Pow(10, MsDigits - k)) % 10
      BY <2>4, <2>5
    <3> QED
      BY <1>1, <2>4, <3>1, <3>2, FractionRead
  <2>7. Field(text, p, MsDigits) = ms
    BY <2>3, <2>6 DEF Field
  <2>8. \A j \in p .. (p + MsDigits - 1) : text[j] \in Digit
    <3> SUFFICES ASSUME NEW j \in p .. (p + MsDigits - 1) PROVE text[j] \in Digit
      OBVIOUS
    <3>1. PICK k \in 1 .. MsDigits : j = p + k - 1
      <4>1. j - p + 1 \in 1 .. MsDigits /\ j = p + (j - p + 1) - 1
        BY <1>1
      <4> QED
        BY <4>1
    <3>2. text[j] = (ms \div Pow(10, MsDigits - k)) % 10
      BY <2>5, <3>1
    <3>3. (ms \div Pow(10, MsDigits - k)) % 10 \in 0 .. 9
      <4>1. Fraction(ms)[k] = (ms \div Pow(10, MsDigits - k)) % 10 /\ Fraction(ms)[k] \in 0 .. 9
        BY FractionWritten
      <4> QED
        BY <4>1
    <3> QED
      BY <3>2, <3>3 DEF Digit
  <2> QED
    BY <2>1, <2>2, <2>7, <2>8 DEF IsField
<1>7. At(text, 11, LetterT) /\ At(text, 14, Colon) /\ At(text, 17, Colon) /\ At(text, 20, Dot)
  <2>1. DOMAIN text = 1 .. Len(text)
    OBVIOUS
  <2>2. {11, 14, 17, 20} \subseteq DOMAIN text
    BY <1>1, <1>2, <2>1
  <2> QED
    BY <2>2 DEF At, SpellsTime
<1> QED
  BY <1>3, <1>4, <1>5, <1>6, <1>7 DEF ReadsTime
-----------------------------------------------------------------------------
(***************************************************************************)
(* A tick of the clock in hours, minutes, seconds and the rest.            *)
(***************************************************************************)
LEMMA UnitsMultiply ==
  /\ MinuteMs = SecondMs * SecondsPerMinute /\ HourMs = MinuteMs * MinutesPerHour
  /\ DayMs = HourMs * HoursPerDay
  /\ {HoursPerDay, MinutesPerHour, SecondsPerMinute} \subseteq Nat \ {0}
<1>1. {HoursPerDay, MinutesPerHour, SecondsPerMinute} \subseteq Nat \ {0}
  BY WidthAssumption
<1>2. MinuteMs = SecondMs * SecondsPerMinute
  BY <1>1, UnitsPositive DEF MinuteMs
<1>3. HourMs = MinuteMs * MinutesPerHour
  BY <1>1, UnitsPositive DEF HourMs
<1>4. DayMs = HourMs * HoursPerDay
  BY <1>1, UnitsPositive DEF DayMs
<1> QED
  BY <1>1, <1>2, <1>3, <1>4

LEMMA ClockParts ==
  ASSUME NEW tick \in 0 .. DayMs - 1
  PROVE  \E hh \in BelowHundred, mi \in BelowHundred, ss \in BelowHundred, ms \in Nat :
           /\ hh = tick \div HourMs /\ mi = (tick \div MinuteMs) % MinutesPerHour
           /\ ss = (tick \div SecondMs) % SecondsPerMinute /\ ms = tick % SecondMs
           /\ hh < HoursPerDay /\ mi < MinutesPerHour /\ ss < SecondsPerMinute /\ ms < SecondMs
           /\ tick = (hh * HourMs + mi * MinuteMs) + (ss * SecondMs + ms)
<1>1. PICK s1 \in Nat \ {0}, m1 \in Nat \ {0}, h1 \in Nat \ {0}, d1 \in Nat \ {0} :
        s1 = SecondMs /\ m1 = MinuteMs /\ h1 = HourMs /\ d1 = DayMs
  BY UnitsPositive
<1>2. PICK sp \in 1 .. 100, mp \in 1 .. 100, hp \in 1 .. 100 :
        sp = SecondsPerMinute /\ mp = MinutesPerHour /\ hp = HoursPerDay
  BY DigitsAssumption
<1>3. m1 = s1 * sp /\ h1 = m1 * mp /\ d1 = h1 * hp
  BY <1>1, <1>2, UnitsMultiply
<1>4. PICK t \in Nat : t = tick /\ t < d1
  BY <1>1
<1>5. PICK a \in Nat, ms \in 0 .. s1 - 1 : a = t \div s1 /\ ms = t % s1 /\ t = a * s1 + ms
  BY NaturalEuclid
<1>6. sp \in Nat \ {0} /\ mp \in Nat \ {0} /\ hp \in Nat \ {0}
  OBVIOUS
<1>7. PICK b \in Nat, ss \in 0 .. sp - 1 : b = a \div sp /\ ss = a % sp /\ a = b * sp + ss
  BY <1>6, NaturalEuclid
<1>8. PICK c \in Nat, mi \in 0 .. mp - 1 : c = b \div mp /\ mi = b % mp /\ b = c * mp + mi
  BY <1>6, NaturalEuclid
<1>9. b = t \div m1
  BY <1>6, <1>3, <1>5, <1>7, DivideTwice
<1>10. c = t \div h1
  BY <1>6, <1>3, <1>8, <1>9, DivideTwice
<1>11. a * s1 = b * m1 + ss * s1
  <2>1. a * s1 = (b * sp) * s1 + ss * s1
    BY <1>7, SMTT(30)
  <2>2. (b * sp) * s1 = b * (s1 * sp)
    BY SMTT(30)
  <2> QED
    BY <1>3, <2>1, <2>2
<1>12. b * m1 = c * h1 + mi * m1
  <2>1. b * m1 = (c * mp) * m1 + mi * m1
    BY <1>8, SMTT(30)
  <2>2. (c * mp) * m1 = c * (m1 * mp)
    BY SMTT(30)
  <2> QED
    BY <1>3, <2>1, <2>2
<1>13. c * h1 \in Nat /\ mi * m1 \in Nat /\ ss * s1 \in Nat /\ b * m1 \in Nat /\ a * s1 \in Nat
  BY SMTT(30)
<1>14. t = (c * h1 + mi * m1) + (ss * s1 + ms)
  BY <1>5, <1>11, <1>12, <1>13
<1>15. c < hp
  <2>1. c * h1 <= t
    BY <1>13, <1>14
  <2>2. CASE c >= hp
    <3>1. c * h1 >= hp * h1
      BY <2>2, SMTT(30)
    <3>2. hp * h1 = d1
      BY <1>3, SMTT(30)
    <3> QED
      BY <1>4, <1>13, <2>1, <3>1, <3>2
  <2> QED
    BY <2>2
<1>16. c \in BelowHundred /\ mi \in BelowHundred /\ ss \in BelowHundred /\ ms \in Nat
  BY <1>15 DEF BelowHundred
<1>17. mi < mp /\ ss < sp /\ ms < s1
  OBVIOUS
<1>18. /\ c = tick \div HourMs /\ mi = (tick \div MinuteMs) % MinutesPerHour
       /\ ss = (tick \div SecondMs) % SecondsPerMinute /\ ms = tick % SecondMs
  BY <1>1, <1>2, <1>4, <1>5, <1>7, <1>8, <1>9, <1>10
<1>19. tick = (c * HourMs + mi * MinuteMs) + (ss * SecondMs + ms)
  BY <1>1, <1>4, <1>14
<1>20. c < HoursPerDay /\ mi < MinutesPerHour /\ ss < SecondsPerMinute /\ ms < SecondMs
  BY <1>1, <1>2, <1>15, <1>17
<1> QED
  BY <1>16, <1>18, <1>19, <1>20

(***************************************************************************)
(* The zones: `Z`, and an offset of two digits for each of its fields.     *)
(***************************************************************************)
LEMMA ZoneStart ==
  ASSUME NEW text, At(text, 20, Dot)
  PROVE  ZoneAt(text) = 21 + MsDigits
BY DEF ZoneAt

LEMMA ZoneUtc ==
  ASSUME NEW text \in Seq(Nat), At(text, 20, Dot), Len(text) = 21 + MsDigits,
         text[21 + MsDigits] = LetterZ
  PROVE  IsZone(text) /\ OffsetMinutes(text) = 0
<1>1. PICK z \in Nat \ {0} : z = 21 + MsDigits /\ z = ZoneAt(text)
  BY WidthAssumption, ZoneStart
<1>2. z \in DOMAIN text /\ text[z] = LetterZ /\ Len(text) = z
  BY <1>1
<1>3. ~HasOffset(text)
  <2>1. ~At(text, z, Plus) /\ ~At(text, z, Minus)
    BY <1>2 DEF At, Plus, Minus, LetterZ
  <2> QED
    BY <1>1, <2>1 DEF HasOffset
<1>4. IsZone(text)
  BY <1>1, <1>2 DEF IsZone, At
<1> QED
  BY <1>3, <1>4 DEF OffsetMinutes

LEMMA UpToHundred ==
  ASSUME NEW bound \in 1 .. 100, NEW x \in 0 .. bound
  PROVE  x \in 0 .. 100
OBVIOUS

SpellsOffset(text, z, sign, h, mm) ==
  /\ text[z] = sign
  /\ text[z + 1] = h \div 10 /\ text[z + 2] = h % 10
  /\ text[z + 3] = mm \div 10 /\ text[z + 4] = mm % 10

LEMMA ZoneOffset ==
  ASSUME NEW text \in Seq(Nat), At(text, 20, Dot), Len(text) = 25 + MsDigits,
         NEW sign \in {Plus, Minus}, NEW h \in 0 .. HoursPerDay, NEW mm \in 0 .. MinutesPerHour,
         SpellsOffset(text, 21 + MsDigits, sign, h, mm)
  PROVE  /\ IsZone(text) <=> h < HoursPerDay /\ mm < MinutesPerHour
         /\ IsZone(text) =>
              OffsetMinutes(text) = (IF sign = Minus THEN -1 ELSE 1) * (h * MinutesPerHour + mm)
<1>1. PICK z \in Nat \ {0} : z = 21 + MsDigits /\ z = ZoneAt(text)
  BY WidthAssumption, ZoneStart
<1>2. /\ text[z] = sign
      /\ text[z + 1] = h \div 10 /\ text[z + 2] = h % 10
      /\ text[z + 3] = mm \div 10 /\ text[z + 4] = mm % 10
  BY <1>1 DEF SpellsOffset
<1>3. Len(text) = z + 4
  BY <1>1, WidthAssumption
<1>4. /\ HoursPerDay \in 1 .. 100 /\ MinutesPerHour \in 1 .. 100
      /\ h \in 0 .. 100 /\ mm \in 0 .. 100
  <2>1. PICK hp \in 1 .. 100, mp \in 1 .. 100 : hp = HoursPerDay /\ mp = MinutesPerHour
    BY DigitsAssumption
  <2>2. h \in 0 .. hp /\ mm \in 0 .. mp
    BY <2>1
  <2>3. h \in 0 .. 100 /\ mm \in 0 .. 100
    BY <2>2, UpToHundred
  <2> QED
    BY <2>1, <2>3
<1>5. Field(text, z + 1, 2) = h /\ (IsField(text, z + 1, 2) <=> h < 100)
  <2>1. PICK p \in Nat \ {0} : p = z + 1
    OBVIOUS
  <2>2. p + 1 <= Len(text) /\ text[p] = h \div 10 /\ text[p + 1] = h % 10
    <3>1. p + 1 = z + 2
      BY <2>1
    <3> QED
      BY <1>2, <1>3, <2>1, <3>1
  <2> QED
    BY <1>4, <2>1, <2>2, TwoDigitsRead
<1>6. Field(text, z + 3, 2) = mm /\ (IsField(text, z + 3, 2) <=> mm < 100)
  <2>1. PICK p \in Nat \ {0} : p = z + 3
    OBVIOUS
  <2>2. p + 1 <= Len(text) /\ text[p] = mm \div 10 /\ text[p + 1] = mm % 10
    <3>1. p + 1 = z + 4
      BY <2>1
    <3> QED
      BY <1>2, <1>3, <2>1, <3>1
  <2> QED
    BY <1>4, <2>1, <2>2, TwoDigitsRead
<1>7. z \in DOMAIN text
  BY <1>3
<1>8. At(text, z, Plus) \/ At(text, z, Minus)
  BY <1>2, <1>7 DEF At
<1>9. ~At(text, z, LetterZ)
  BY <1>2 DEF At, LetterZ, Plus, Minus
<1>10. HasOffset(text) <=> h < HoursPerDay /\ mm < MinutesPerHour
  <2>1. HasOffset(text) <=> /\ h < 100 /\ mm < 100 /\ h < HoursPerDay /\ mm < MinutesPerHour
    BY <1>1, <1>3, <1>5, <1>6, <1>8 DEF HasOffset
  <2> QED
    BY <1>4, <2>1
<1>11. IsZone(text) <=> HasOffset(text)
  BY <1>1, <1>9 DEF IsZone
<1>12. HasOffset(text) =>
         OffsetMinutes(text) = (IF sign = Minus THEN -1 ELSE 1) * (h * MinutesPerHour + mm)
  BY <1>1, <1>2, <1>5, <1>6 DEF OffsetMinutes
<1> QED
  BY <1>10, <1>11, <1>12
-----------------------------------------------------------------------------
(***************************************************************************)
(* A date, a clock and a zone are read as a moment.                        *)
(***************************************************************************)
LEMMA FieldsAdd ==
  ASSUME NEW days \in Int, NEW hh \in Nat, NEW mi \in Nat, NEW ss \in Nat, NEW ms \in Nat,
         NEW off \in Int
  PROVE  days * DayMs + hh * HourMs + mi * MinuteMs + ss * SecondMs + (ms - off * MinuteMs) =
           (days * DayMs + ((hh * HourMs + mi * MinuteMs) + (ss * SecondMs + ms))) - off * MinuteMs
<1>1. PICK s1 \in Nat, m1 \in Nat, h1 \in Nat, d1 \in Nat :
        s1 = SecondMs /\ m1 = MinuteMs /\ h1 = HourMs /\ d1 = DayMs
  BY UnitsPositive
<1>2. PICK dd \in Int : dd = days * d1
  OBVIOUS
<1>3. PICK a \in Nat : a = hh * h1
  OBVIOUS
<1>4. PICK b \in Nat : b = mi * m1
  OBVIOUS
<1>5. PICK c \in Nat : c = ss * s1
  OBVIOUS
<1>6. PICK o \in Int : o = off * m1
  OBVIOUS
<1>7. dd + a + b + c + (ms - o) = (dd + ((a + b) + (c + ms))) - o
  OBVIOUS
<1> QED
  BY <1>1, <1>2, <1>3, <1>4, <1>5, <1>6, <1>7

LEMMA MomentSum ==
  ASSUME NEW text, Len(text) # 10, IsDate(text), IsTime(text), OffsetMinutes(text) \in Int,
         NEW y, NEW m, NEW day, ReadsDate(text, y, m, day), DaysFromCivil(y, m, day) \in Int,
         NEW hh \in Nat, NEW mi \in Nat, NEW ss \in Nat, NEW ms \in Nat,
         ReadsTime(text, hh, mi, ss, ms)
  PROVE  /\ At(text, 20, Dot)
         /\ MakeDatetime(text) =
              IF IsZone(text)
              THEN DatetimeValue((DaysFromCivil(y, m, day) * DayMs
                                    + ((hh * HourMs + mi * MinuteMs) + (ss * SecondMs + ms)))
                                 - OffsetMinutes(text) * MinuteMs)
              ELSE ErrorValue
<1>1. At(text, 20, Dot)
  BY DEF ReadsTime
<1>2. PICK days \in Int, off \in Int : days = DaysFromCivil(y, m, day) /\ off = OffsetMinutes(text)
  OBVIOUS
<1>3. MakeDatetime(text) =
        IF IsZone(text)
        THEN DatetimeValue(days * DayMs + hh * HourMs + mi * MinuteMs + ss * SecondMs
                             + (ms - off * MinuteMs))
        ELSE ErrorValue
  BY <1>1, <1>2 DEF MakeDatetime, ReadsDate, ReadsTime
<1>4. PICK fields, moment :
        /\ fields = days * DayMs + hh * HourMs + mi * MinuteMs + ss * SecondMs + (ms - off * MinuteMs)
        /\ moment = (days * DayMs + ((hh * HourMs + mi * MinuteMs) + (ss * SecondMs + ms)))
                    - off * MinuteMs
        /\ fields = moment
  BY FieldsAdd
<1>5. MakeDatetime(text) = IF IsZone(text) THEN DatetimeValue(moment) ELSE ErrorValue
  BY <1>3, <1>4, Zenon
<1> QED
  BY <1>1, <1>2, <1>4, <1>5, Zenon

LEMMA FieldType ==
  ASSUME NEW text \in Seq(Nat), NEW p \in Nat \ {0}, p + 1 <= Len(text)
  PROVE  Field(text, p, 2) \in Nat
<1>1. p \in 1 .. Len(text) /\ p + 1 \in 1 .. Len(text)
  OBVIOUS
<1>2. PICK u \in Nat, v \in Nat : u = text[p] /\ v = text[p + 1]
  BY <1>1
<1>3. Field(text, p, 2) = u * 10 + v
  BY <1>2, FieldOfTwo
<1> QED
  BY <1>3

LEMMA OffsetType ==
  ASSUME NEW text \in Seq(Nat), At(text, 20, Dot)
  PROVE  OffsetMinutes(text) \in Int
<1>1. PICK z \in Nat \ {0} : z = 21 + MsDigits /\ z = ZoneAt(text)
  BY WidthAssumption, ZoneStart
<1>2. CASE ~HasOffset(text)
  BY <1>2 DEF OffsetMinutes
<1>3. CASE HasOffset(text)
  <2>1. Len(text) = z + 4
    BY <1>1, <1>3 DEF HasOffset
  <2>2. PICK p \in Nat \ {0}, q \in Nat \ {0} : p = z + 1 /\ q = z + 3
    OBVIOUS
  <2>3. p + 1 <= Len(text) /\ q + 1 <= Len(text)
    BY <2>1, <2>2
  <2>4. Field(text, p, 2) \in Nat
    BY <2>3, FieldType
  <2>5. Field(text, q, 2) \in Nat
    BY <2>3, FieldType
  <2>6. PICK a \in Nat, b \in Nat, mp \in Nat :
          a = Field(text, z + 1, 2) /\ b = Field(text, z + 3, 2) /\ mp = MinutesPerHour
    BY <2>2, <2>4, <2>5, UnitsMultiply
  <2>7. PICK c \in Nat : c = a * mp + b
    <3>1. a * mp \in Nat
      OBVIOUS
    <3> QED
      BY <3>1
  <2>8. OffsetMinutes(text) = (IF text[z] = Minus THEN -1 ELSE 1) * c
    BY <1>1, <1>3, <2>6, <2>7 DEF OffsetMinutes
  <2> QED
    BY <2>8
<1> QED
  BY <1>2, <1>3

(***************************************************************************)
(* The text of the calendar and the clock, with anything behind it.        *)
(***************************************************************************)
Today(y, m, day, tick) ==
  /\ y = input.y /\ m = input.m /\ day = input.d /\ tick = input.tick
  /\ day <= DaysInMonth(y, m)
  /\ DaysFromCivil(y, m, day) = input.days /\ input.days \in Int

LEMMA TodayExists ==
  ASSUME kind = "day", DayInv
  PROVE  \E y \in WrittenYears, m \in 1 .. 12, day \in 1 .. 32, tick \in 0 .. DayMs - 1 :
           Today(y, m, day, tick)
<1>1. /\ input.y \in WrittenYears /\ input.m \in 1 .. 12 /\ input.d \in 1 .. 31
      /\ input.tick \in 0 .. DayMs - 1 /\ input.days \in Int
  BY DayNumbers
<1>2. input.d \in 1 .. 32
  BY <1>1
<1>3. Today(input.y, input.m, input.d, input.tick)
  BY <1>1 DEF Today, DayInv
<1> QED
  BY <1>1, <1>2, <1>3

ClockAt(tick, hh, mi, ss, ms) ==
  /\ hh = tick \div HourMs /\ mi = (tick \div MinuteMs) % MinutesPerHour
  /\ ss = (tick \div SecondMs) % SecondsPerMinute /\ ms = tick % SecondMs
  /\ hh < HoursPerDay /\ mi < MinutesPerHour /\ ss < SecondsPerMinute /\ ms < SecondMs
  /\ tick = (hh * HourMs + mi * MinuteMs) + (ss * SecondMs + ms)

Shows(text, y, m, day, tick) ==
  \E hh \in BelowHundred, mi \in BelowHundred, ss \in BelowHundred, ms \in Nat :
    /\ SpellsDate(text, y, m, day)
    /\ SpellsTime(text, hh, mi, ss, ms)
    /\ ClockAt(tick, hh, mi, ss, ms)

Continues(text, local) == \A k \in 1 .. 20 + MsDigits : text[k] = local[k]

LEMMA DateSame ==
  ASSUME NEW a, NEW b, \A k \in 1 .. 10 : b[k] = a[k], NEW y, NEW m, NEW day, SpellsDate(a, y, m, day)
  PROVE  SpellsDate(b, y, m, day)
<1>1. /\ b[1] = a[1] /\ b[2] = a[2] /\ b[3] = a[3] /\ b[4] = a[4] /\ b[5] = a[5]
      /\ b[6] = a[6] /\ b[7] = a[7] /\ b[8] = a[8] /\ b[9] = a[9] /\ b[10] = a[10]
  OBVIOUS
<1> QED
  BY <1>1 DEF SpellsDate

LEMMA ShowsOnward ==
  ASSUME NEW local, NEW text, Continues(text, local),
         NEW y, NEW m, NEW day, NEW tick, Shows(local, y, m, day, tick)
  PROVE  Shows(text, y, m, day, tick)
<1>1. PICK hh \in BelowHundred, mi \in BelowHundred, ss \in BelowHundred, ms \in Nat :
        /\ SpellsDate(local, y, m, day)
        /\ SpellsTime(local, hh, mi, ss, ms)
        /\ ClockAt(tick, hh, mi, ss, ms)
  BY DEF Shows
<1>2. MsDigits \in Nat
  BY WidthAssumption
<1>3. \A k \in 1 .. 20 : text[k] = local[k]
  BY <1>2 DEF Continues
<1>4. SpellsDate(text, y, m, day)
  <2>1. \A k \in 1 .. 10 : text[k] = local[k]
    BY <1>3
  <2> QED
    BY <1>1, <2>1, DateSame
<1>5. /\ text[11] = local[11] /\ text[12] = local[12] /\ text[13] = local[13]
      /\ text[14] = local[14] /\ text[15] = local[15] /\ text[16] = local[16]
      /\ text[17] = local[17] /\ text[18] = local[18] /\ text[19] = local[19]
      /\ text[20] = local[20]
  BY <1>3
<1>6. \A k \in 1 .. MsDigits : text[20 + k] = local[20 + k]
  BY <1>2 DEF Continues
<1>7. SpellsTime(text, hh, mi, ss, ms)
  BY <1>1, <1>5, <1>6 DEF SpellsTime
<1> QED
  BY <1>1, <1>4, <1>7 DEF Shows

LEMMA LocalWritten ==
  ASSUME NEW y \in WrittenYears, NEW m \in 1 .. 12, NEW day \in 1 .. 32, NEW tick \in 0 .. DayMs - 1,
         Today(y, m, day, tick)
  PROVE  \E local \in Seq(Nat) :
           /\ local = DateText(input.d) \o TimeText /\ Len(local) = 20 + MsDigits
           /\ Shows(local, y, m, day, tick)
<1>1. PICK date \in Seq(Nat) :
        /\ date = TwoDigits(y \div 100) \o TwoDigits(y % 100) \o <<Minus>> \o TwoDigits(m)
                    \o <<Minus>> \o TwoDigits(day)
        /\ Len(date) = 10 /\ SpellsDate(date, y, m, day)
  BY DateSpelled
<1>2. DateText(input.d) = date
  BY <1>1 DEF DateText, Today
<1>3. PICK hh \in BelowHundred, mi \in BelowHundred, ss \in BelowHundred, ms \in Nat :
        ClockAt(tick, hh, mi, ss, ms)
  BY ClockParts DEF ClockAt
<1>4. TimeText = ClockText(hh, mi, ss, ms)
  <2>1. ClockAt(input.tick, hh, mi, ss, ms)
    BY <1>3 DEF Today
  <2> QED
    BY <2>1 DEF TimeText, ClockText, Fraction, ClockAt
<1>5. PICK local \in Seq(Nat) : ClockBehind(local, date, hh, mi, ss, ms)
  BY <1>1, ClockSpelled
<1>6. SpellsDate(local, y, m, day)
  <2>1. \A k \in 1 .. 10 : local[k] = date[k]
    BY <1>5 DEF ClockBehind
  <2> QED
    BY <1>1, <2>1, DateSame
<1>7. Shows(local, y, m, day, tick)
  <2>1. SpellsTime(local, hh, mi, ss, ms)
    BY <1>5 DEF ClockBehind
  <2> QED
    BY <1>3, <1>6, <2>1 DEF Shows
<1>8. local = date \o ClockText(hh, mi, ss, ms) /\ Len(local) = 20 + MsDigits
  BY <1>5 DEF ClockBehind
<1> QED
  BY <1>2, <1>4, <1>7, <1>8

LEMMA LongEnough ==
  ASSUME NEW n \in Nat, n >= 21 + MsDigits
  PROVE  n >= 10 /\ n # 10 /\ n >= 20 + MsDigits
BY WidthAssumption

LEMMA MomentRead ==
  ASSUME NEW y \in WrittenYears, NEW m \in 1 .. 12, NEW day \in 1 .. 32, NEW tick \in 0 .. DayMs - 1,
         Today(y, m, day, tick),
         NEW text \in Seq(Nat), Len(text) >= 21 + MsDigits, Shows(text, y, m, day, tick)
  PROVE  /\ At(text, 20, Dot)
         /\ MakeDatetime(text) =
              IF IsZone(text)
              THEN DatetimeValue((input.days * DayMs + input.tick) - OffsetMinutes(text) * MinuteMs)
              ELSE ErrorValue
<1>1. PICK hh \in BelowHundred, mi \in BelowHundred, ss \in BelowHundred, ms \in Nat :
        /\ SpellsDate(text, y, m, day)
        /\ SpellsTime(text, hh, mi, ss, ms)
        /\ ClockAt(tick, hh, mi, ss, ms)
  BY DEF Shows
<1>2. Len(text) >= 10 /\ Len(text) # 10 /\ Len(text) >= 20 + MsDigits
  <2>1. Len(text) \in Nat
    OBVIOUS
  <2> QED
    BY <2>1, LongEnough
<1>3. ReadsDate(text, y, m, day)
  BY <1>1, <1>2, DateFields
<1>4. IsDate(text)
  BY <1>1, <1>2, DateRead DEF Today
<1>5. ReadsTime(text, hh, mi, ss, ms)
  <2>1. ms < SecondMs
    BY <1>1 DEF ClockAt
  <2> QED
    BY <1>1, <1>2, <2>1, ClockRead
<1>6. IsTime(text)
  BY <1>1, <1>5 DEF ReadsTime, IsTime, ClockAt
<1>7. hh \in Nat /\ mi \in Nat /\ ss \in Nat
  BY DEF BelowHundred
<1>8. DaysFromCivil(y, m, day) = input.days /\ DaysFromCivil(y, m, day) \in Int
  BY DEF Today
<1>9. /\ At(text, 20, Dot)
      /\ MakeDatetime(text) =
           IF IsZone(text)
           THEN DatetimeValue((DaysFromCivil(y, m, day) * DayMs
                                 + ((hh * HourMs + mi * MinuteMs) + (ss * SecondMs + ms)))
                              - OffsetMinutes(text) * MinuteMs)
           ELSE ErrorValue
  <2>1. OffsetMinutes(text) \in Int
    BY <1>5, OffsetType DEF ReadsTime
  <2> QED
    BY <1>2, <1>3, <1>4, <1>5, <1>6, <1>7, <1>8, <2>1, MomentSum
<1>10. (hh * HourMs + mi * MinuteMs) + (ss * SecondMs + ms) = input.tick
  BY <1>1 DEF ClockAt, Today
<1> QED
  BY <1>8, <1>9, <1>10

(***************************************************************************)
(* A zone behind the text shifts the moment.                               *)
(***************************************************************************)
LEMMA MomentUtc ==
  ASSUME NEW y \in WrittenYears, NEW m \in 1 .. 12, NEW day \in 1 .. 32, NEW tick \in 0 .. DayMs - 1,
         Today(y, m, day, tick),
         NEW local \in Seq(Nat), Len(local) = 20 + MsDigits, Shows(local, y, m, day, tick),
         NEW utc \in Int, utc = input.days * DayMs + input.tick
  PROVE  MakeDatetime(Append(local, LetterZ)) = DatetimeValue(utc)
<1>1. PICK text : text = local \o <<LetterZ>>
  OBVIOUS
<1>2. LetterZ \in Nat
  BY DEF LetterZ
<1>3. /\ text \in Seq(Nat) /\ Len(text) = Len(local) + 1
      /\ \A k \in 1 .. Len(local) : text[k] = local[k]
      /\ text[Len(local) + 1] = LetterZ
  BY <1>1, <1>2, OneMore
<1>4. PICK n \in Nat : n = Len(local) /\ n = 20 + MsDigits /\ n + 1 = 21 + MsDigits
  BY WidthAssumption
<1>5. Len(text) = 21 + MsDigits /\ Len(text) >= 21 + MsDigits /\ text[21 + MsDigits] = LetterZ
  BY <1>3, <1>4
<1>6. Continues(text, local)
  BY <1>3, <1>4 DEF Continues
<1>7. Shows(text, y, m, day, tick)
  BY <1>6, ShowsOnward
<1>8. /\ At(text, 20, Dot)
      /\ MakeDatetime(text) =
           IF IsZone(text)
           THEN DatetimeValue((input.days * DayMs + input.tick) - OffsetMinutes(text) * MinuteMs)
           ELSE ErrorValue
  BY <1>3, <1>5, <1>7, MomentRead
<1>9. IsZone(text) /\ OffsetMinutes(text) = 0
  BY <1>3, <1>5, <1>8, ZoneUtc
<1>10. utc - 0 * MinuteMs = utc
  <2>1. PICK m1 \in Nat : m1 = MinuteMs
    BY UnitsPositive
  <2>2. utc - 0 * m1 = utc
    OBVIOUS
  <2> QED
    BY <2>1, <2>2
<1>11. Append(local, LetterZ) = text
  BY <1>1
<1> QED
  BY <1>8, <1>9, <1>10, <1>11

LEMMA OffsetWritten ==
  ASSUME NEW local \in Seq(Nat), Len(local) = 20 + MsDigits, NEW sign \in {Plus, Minus},
         NEW h \in 0 .. HoursPerDay, NEW mm \in 0 .. MinutesPerHour
  PROVE  \E text \in Seq(Nat) :
           /\ text = local \o <<sign>> \o TwoDigits(h) \o TwoDigits(mm)
           /\ Len(text) = 25 + MsDigits
           /\ Continues(text, local) /\ SpellsOffset(text, 21 + MsDigits, sign, h, mm)
<1>1. h \in 0 .. 100 /\ mm \in 0 .. 100
  <2>1. PICK hp \in 1 .. 100, mp \in 1 .. 100 : hp = HoursPerDay /\ mp = MinutesPerHour
    BY DigitsAssumption
  <2>2. h \in 0 .. hp /\ mm \in 0 .. mp
    BY <2>1
  <2> QED
    BY <2>2, UpToHundred
<1>2. sign \in Nat
  BY DEF Plus, Minus
<1>3. PICK n \in Nat, z \in Nat : n = Len(local) /\ n = 20 + MsDigits /\ z = 21 + MsDigits /\ z = n + 1
  BY WidthAssumption
<1>4. PICK a : a = local \o <<sign>>
  OBVIOUS
<1>5. a \in Seq(Nat) /\ Len(a) = n + 1 /\ a[n + 1] = sign /\ \A k \in 1 .. n : a[k] = local[k]
  BY <1>2, <1>3, <1>4, OneMore
<1>6. PICK b : b = a \o TwoDigits(h)
  OBVIOUS
<1>7. /\ b \in Seq(Nat) /\ Len(b) = n + 3 /\ b[n + 2] = h \div 10 /\ b[n + 3] = h % 10
      /\ \A k \in 1 .. n + 1 : b[k] = a[k]
  <2>1. /\ b \in Seq(Nat) /\ Len(b) = Len(a) + 2
        /\ \A k \in 1 .. Len(a) : b[k] = a[k]
        /\ b[Len(a) + 1] = h \div 10 /\ b[Len(a) + 2] = h % 10
    BY <1>1, <1>5, <1>6, TwoMore
  <2>2. (n + 1) + 2 = n + 3 /\ (n + 1) + 1 = n + 2
    OBVIOUS
  <2> QED
    BY <1>5, <2>1, <2>2
<1>8. PICK text : text = b \o TwoDigits(mm)
  OBVIOUS
<1>9. /\ text \in Seq(Nat) /\ Len(text) = n + 5 /\ text[n + 4] = mm \div 10 /\ text[n + 5] = mm % 10
      /\ \A k \in 1 .. n + 3 : text[k] = b[k]
  <2>1. /\ text \in Seq(Nat) /\ Len(text) = Len(b) + 2
        /\ \A k \in 1 .. Len(b) : text[k] = b[k]
        /\ text[Len(b) + 1] = mm \div 10 /\ text[Len(b) + 2] = mm % 10
    BY <1>1, <1>7, <1>8, TwoMore
  <2>2. (n + 3) + 2 = n + 5 /\ (n + 3) + 1 = n + 4
    OBVIOUS
  <2> QED
    BY <1>7, <2>1, <2>2
<1>10. text = local \o <<sign>> \o TwoDigits(h) \o TwoDigits(mm)
  BY <1>4, <1>6, <1>8
<1>11. Len(text) = 25 + MsDigits
  <2>1. n + 5 = 25 + MsDigits
    BY <1>3, WidthAssumption
  <2> QED
    BY <1>9, <2>1
<1>12. Continues(text, local)
  <2>1. \A k \in 1 .. n : text[k] = local[k]
    BY <1>5, <1>7, <1>9
  <2> QED
    BY <1>3, <2>1 DEF Continues
<1>13. SpellsOffset(text, z, sign, h, mm)
  <2>1. text[n + 1] = b[n + 1] /\ text[n + 2] = b[n + 2] /\ text[n + 3] = b[n + 3]
    BY <1>9
  <2>2. b[n + 1] = sign
    BY <1>5, <1>7
  <2>3. z = n + 1 /\ z + 1 = n + 2 /\ z + 2 = n + 3 /\ z + 3 = n + 4 /\ z + 4 = n + 5
    BY <1>3, SMTT(30)
  <2> QED
    BY <1>7, <1>9, <2>1, <2>2, <2>3 DEF SpellsOffset
<1> QED
  BY <1>3, <1>9, <1>10, <1>11, <1>12, <1>13

ReadsZone(local, utc, sign, h, mm) ==
  MakeDatetime(local \o <<sign>> \o TwoDigits(h) \o TwoDigits(mm)) =
    IF h < HoursPerDay /\ mm < MinutesPerHour
    THEN DatetimeValue(IF sign = Plus THEN utc - (h * HourMs + mm * MinuteMs)
                       ELSE utc + (h * HourMs + mm * MinuteMs))
    ELSE ErrorValue

LEMMA MomentElsewhere ==
  ASSUME NEW y \in WrittenYears, NEW m \in 1 .. 12, NEW day \in 1 .. 32, NEW tick \in 0 .. DayMs - 1,
         Today(y, m, day, tick),
         NEW local \in Seq(Nat), Len(local) = 20 + MsDigits, Shows(local, y, m, day, tick),
         NEW utc \in Int, utc = input.days * DayMs + input.tick,
         NEW sign \in {Plus, Minus}, NEW h \in 0 .. HoursPerDay, NEW mm \in 0 .. MinutesPerHour
  PROVE  ReadsZone(local, utc, sign, h, mm)
<1>1. PICK text \in Seq(Nat) :
        /\ text = local \o <<sign>> \o TwoDigits(h) \o TwoDigits(mm)
        /\ Len(text) = 25 + MsDigits
        /\ Continues(text, local) /\ SpellsOffset(text, 21 + MsDigits, sign, h, mm)
  BY OffsetWritten
<1>2. Len(text) >= 21 + MsDigits
  BY <1>1, WidthAssumption
<1>3. Shows(text, y, m, day, tick)
  BY <1>1, ShowsOnward
<1>4. /\ At(text, 20, Dot)
      /\ MakeDatetime(text) =
           IF IsZone(text)
           THEN DatetimeValue((input.days * DayMs + input.tick) - OffsetMinutes(text) * MinuteMs)
           ELSE ErrorValue
  BY <1>2, <1>3, MomentRead
<1>5. /\ IsZone(text) <=> h < HoursPerDay /\ mm < MinutesPerHour
      /\ IsZone(text) =>
           OffsetMinutes(text) = (IF sign = Minus THEN -1 ELSE 1) * (h * MinutesPerHour + mm)
  BY <1>1, <1>4, ZoneOffset
<1>6. PICK a \in Nat, b \in Nat, m1 \in Nat, mp \in Nat :
        a = h /\ b = mm /\ m1 = MinuteMs /\ mp = MinutesPerHour /\ HourMs = m1 * mp
  <2>1. PICK mp \in Nat, m1 \in Nat : mp = MinutesPerHour /\ m1 = MinuteMs /\ HourMs = m1 * mp
    BY UnitsMultiply, UnitsPositive
  <2>2. PICK a \in Nat, b \in Nat : a = h /\ b = mm
    OBVIOUS
  <2> QED
    BY <2>1, <2>2
<1>7. (a * mp + b) * m1 = a * (m1 * mp) + b * m1
  BY SMTT(30)
<1>8. PICK away \in Nat, mins \in Nat : /\ away = h * HourMs + mm * MinuteMs
                                        /\ mins = h * MinutesPerHour + mm
                                        /\ mins * m1 = away
  <2>1. a * (m1 * mp) + b * m1 \in Nat
    <3>1. PICK c \in Nat : c = m1 * mp
      BY SMTT(30)
    <3>2. PICK u \in Nat : u = a * c
      BY SMTT(30)
    <3>3. PICK v \in Nat : v = b * m1
      BY SMTT(30)
    <3>4. u + v \in Nat
      OBVIOUS
    <3> QED
      BY <3>1, <3>2, <3>3, <3>4
  <2>2. a * mp + b \in Nat
    <3>1. a * mp \in Nat
      BY SMTT(30)
    <3> QED
      BY <3>1
  <2> QED
    BY <1>6, <1>7, <2>1, <2>2
<1>9. utc - (1 * mins) * m1 = utc - away /\ utc - ((-1) * mins) * m1 = utc + away
  <2>1. 1 * mins = mins /\ (-1) * mins = -mins
    OBVIOUS
  <2>2. (-mins) * m1 = -(mins * m1)
    BY SMTT(30)
  <2> QED
    BY <1>8, <2>1, <2>2
<1>10. CASE sign = Plus
  <2>1. sign # Minus
    BY <1>10 DEF Plus, Minus
  <2>2. IsZone(text) => MakeDatetime(text) = DatetimeValue(utc - away)
    BY <1>4, <1>5, <1>6, <1>8, <1>9, <2>1
  <2> QED
    BY <1>1, <1>4, <1>5, <1>8, <1>10, <2>2 DEF ReadsZone
<1>11. CASE sign = Minus
  <2>1. sign # Plus
    BY <1>11 DEF Plus, Minus
  <2>2. IsZone(text) => MakeDatetime(text) = DatetimeValue(utc + away)
    BY <1>4, <1>5, <1>6, <1>8, <1>9, <1>11
  <2> QED
    BY <1>1, <1>4, <1>5, <1>8, <2>1, <2>2 DEF ReadsZone
<1> QED
  BY <1>10, <1>11 DEF Plus, Minus

LEMMA ZoneLaw ==
  ASSUME kind = "day", DayInv
  PROVE  ZoneShiftsTheMoment
<1>1. PICK y \in WrittenYears, m \in 1 .. 12, day \in 1 .. 32, tick \in 0 .. DayMs - 1 :
        Today(y, m, day, tick)
  BY TodayExists
<1>2. PICK local \in Seq(Nat) :
        /\ local = DateText(input.d) \o TimeText /\ Len(local) = 20 + MsDigits
        /\ Shows(local, y, m, day, tick)
  BY <1>1, LocalWritten
<1>3. PICK utc \in Int : utc = input.days * DayMs + input.tick
  <2>1. PICK days \in Int, d1 \in Nat, now \in Int : days = input.days /\ d1 = DayMs /\ now = input.tick
    BY <1>1, UnitsPositive DEF Today
  <2>2. days * d1 + now \in Int
    OBVIOUS
  <2> QED
    BY <2>1, <2>2
<1>4. MakeDatetime(Append(local, LetterZ)) = DatetimeValue(utc)
  BY <1>1, <1>2, <1>3, MomentUtc
<1>5. ASSUME NEW sign \in {Plus, Minus}, NEW h \in 0 .. HoursPerDay, NEW mm \in 0 .. MinutesPerHour
      PROVE  ReadsZone(local, utc, sign, h, mm)
  BY <1>1, <1>2, <1>3, MomentElsewhere
<1>6. ASSUME NEW h \in 0 .. HoursPerDay, NEW mm \in 0 .. MinutesPerHour
      PROVE  /\ MakeDatetime(local \o <<Plus>> \o TwoDigits(h) \o TwoDigits(mm)) =
                  IF h < HoursPerDay /\ mm < MinutesPerHour
                  THEN DatetimeValue(utc - (h * HourMs + mm * MinuteMs)) ELSE ErrorValue
             /\ MakeDatetime(local \o <<Minus>> \o TwoDigits(h) \o TwoDigits(mm)) =
                  IF h < HoursPerDay /\ mm < MinutesPerHour
                  THEN DatetimeValue(utc + (h * HourMs + mm * MinuteMs)) ELSE ErrorValue
  <2>1. Plus \in {Plus, Minus} /\ Minus \in {Plus, Minus} /\ Minus # Plus
    BY DEF Plus, Minus
  <2> QED
    BY <1>5, <2>1 DEF ReadsZone
<1> QED
  BY <1>2, <1>3, <1>4, <1>6 DEF ZoneShiftsTheMoment

(***************************************************************************)
(* A datetime literal is the moment that the calendar and the clock show:  *)
(* for every year of four digits, every tick of the clock and every zone.  *)
(* (php_cedar_make_datetime, php_cedar_days_from_civil)                    *)
(***************************************************************************)
THEOREM CalendarHolds == ExtensionSpec => []CalendarExact
<1>1. ExtensionSpec => []DayInv
  BY DayStart, DayStep, PTL DEF ExtensionSpec
<1>2. DayInv => CalendarExact
  <2>1. CASE kind = "day"
    BY <2>1, DateLaws, ZoneLaw DEF CalendarExact
  <2>2. CASE kind # "day"
    BY <2>2 DEF CalendarExact, DateCountsDays, NoDayAfterTheLast, ZoneShiftsTheMoment
  <2> QED
    BY <2>1, <2>2
<1> QED
  BY <1>1, <1>2, PTL
-----------------------------------------------------------------------------
(***************************************************************************)
(* Of two addresses of a kind, one has the network of the other in its     *)
(* first bits iff both have the same quotient by the size of the network.  *)
(***************************************************************************)
LEMMA BytesSize ==
  /\ ByteBits \in Nat \ {0} /\ ByteRange \in Nat \ {0}
  /\ Octets \in Nat /\ 2 * Groups \in Nat
<1>1. ByteBits \in Nat \ {0} /\ Octets \in Nat /\ Groups \in Nat
  BY IpAssumption
<1>2. 2 \in Nat \ {0}
  OBVIOUS
<1>3. ByteRange \in Nat \ {0}
  BY <1>1, <1>2, PowPositive DEF ByteRange
<1> QED
  BY <1>1, <1>3

Factors(base, left, shift) == left \in Nat \ {0} /\ shift \in Nat \ {0} /\ base = left * shift

CutAt(base, left, shift, d) ==
  /\ d \div shift \in 0 .. left - 1
  /\ \A w \in Nat : (w * base + d) \div shift = w * left + (d \div shift)

LEMMA DigitCut ==
  ASSUME NEW left, NEW shift, NEW base, Factors(base, left, shift), NEW d \in 0 .. base - 1
  PROVE  CutAt(base, left, shift, d)
<1>0. left \in Nat \ {0} /\ shift \in Nat \ {0} /\ base = left * shift
  BY DEF Factors
<1>1. base \in Nat
  BY <1>0, SMTT(30)
<1>2. d \in Nat
  BY <1>1
<1>3. PICK y \in Nat, r \in 0 .. shift - 1 : y = d \div shift /\ d = y * shift + r
  BY <1>0, <1>2, NaturalEuclid
<1>4. y < left
  <2>1. SUFFICES ASSUME y >= left PROVE FALSE
    BY <1>0, <1>3
  <2>2. y * shift >= left * shift
    BY <1>0, <2>1, SMTT(30)
  <2>3. PICK x \in Int : x = y * shift
    BY <1>0
  <2> QED
    BY <1>0, <1>1, <1>3, <2>2, <2>3
<1>5. ASSUME NEW w \in Nat PROVE (w * base + d) \div shift = w * left + y
  <2>1. PICK z \in Int : z = w * left + y
    BY <1>0, SMTT(30)
  <2>2. w * base = (w * left) * shift
    BY <1>0, SMTT(30)
  <2>3. z * shift = (w * left) * shift + y * shift
    BY <1>0, <2>1, SMTT(30)
  <2>4. PICK s \in Int, t \in Int : s = (w * left) * shift /\ t = y * shift
    BY <1>0, SMTT(30)
  <2>5. z * shift + r = w * base + d
    <3>1. z * shift = s + t /\ w * base = s /\ d = t + r
      BY <1>3, <2>2, <2>3, <2>4
    <3> QED
      BY <1>1, <2>4, <3>1
  <2>6. (z * shift + r) \div shift = z
    BY <1>0, EuclidUnique
  <2> QED
    BY <2>1, <2>5, <2>6
<1> QED
  BY <1>0, <1>3, <1>4, <1>5 DEF CutAt

SameCut(base, shift, w, d, z, e) ==
  (w * base + d) \div shift = (z * base + e) \div shift
    <=> w = z /\ d \div shift = e \div shift

LEMMA NumbersCut ==
  ASSUME NEW left, NEW shift, NEW base, Factors(base, left, shift), NEW w \in Nat, NEW z \in Nat,
         NEW d \in 0 .. base - 1, NEW e \in 0 .. base - 1
  PROVE  SameCut(base, shift, w, d, z, e)
<1>0. left \in Nat \ {0}
  BY DEF Factors
<1>1. PICK u \in 0 .. left - 1, v \in 0 .. left - 1 :
        /\ u = d \div shift /\ v = e \div shift
        /\ (w * base + d) \div shift = w * left + u
        /\ (z * base + e) \div shift = z * left + v
  <2>1. CutAt(base, left, shift, d) /\ CutAt(base, left, shift, e)
    BY DigitCut
  <2> QED
    BY <2>1 DEF CutAt
<1>2. PICK i \in Int, j \in Int : i = w /\ j = z
  OBVIOUS
<1>3. (i * left + u) \div left = i /\ (i * left + u) % left = u
  BY <1>0, EuclidUnique
<1>4. (j * left + v) \div left = j /\ (j * left + v) % left = v
  BY <1>0, EuclidUnique
<1> QED
  BY <1>1, <1>2, <1>3, <1>4 DEF SameCut

(***************************************************************************)
(* The first bits of m bytes, p of them, are full bytes and rest bits of   *)
(* another byte.                                                           *)
(***************************************************************************)
BytesOf(bits, m, p, full, rest) ==
  /\ full \in 0 .. m /\ rest \in 0 .. bits - 1
  /\ full = p \div bits /\ rest = p % bits
  /\ full = m => rest = 0 /\ m * bits - p = 0
  /\ full # m => m * bits - p = bits * (m - (full + 1)) + (bits - rest)

LEMMA WholeBytes ==
  ASSUME NEW bits \in Nat \ {0}, NEW m \in Nat, NEW p \in 0 .. m * bits
  PROVE  \E full, rest : BytesOf(bits, m, p, full, rest)
<1>0. p \in Nat /\ p <= m * bits
  BY SMTT(30)
<1>1. PICK full \in Nat, rest \in 0 .. bits - 1 :
        full = p \div bits /\ rest = p % bits /\ p = full * bits + rest
  BY <1>0, NaturalEuclid
<1>2. PICK all \in Nat, x \in Nat : all = m * bits /\ x = full * bits
  BY SMTT(30)
<1>3. full <= m
  <2>1. SUFFICES ASSUME full >= m + 1 PROVE FALSE
    BY <1>1
  <2>2. full * bits >= m * bits + bits
    BY <2>1, SMTT(30)
  <2> QED
    BY <1>0, <1>1, <1>2, <2>2
<1>4. ASSUME full = m PROVE rest = 0 /\ m * bits - p = 0
  BY <1>0, <1>1, <1>2, <1>4
<1>5. m * bits - p = bits * (m - (full + 1)) + (bits - rest)
  <2>1. bits * (m - (full + 1)) = all - x - bits
    <3>1. bits * (m - (full + 1)) = m * bits - full * bits - bits
      BY SMTT(30)
    <3> QED
      BY <1>2, <3>1
  <2> QED
    BY <1>0, <1>1, <1>2, <2>1
<1>6. full \in 0 .. m
  BY <1>1, <1>3
<1> QED
  BY <1>1, <1>4, <1>5, <1>6 DEF BytesOf

LEMMA NetworkIsQuotient ==
  ASSUME NEW bits, bits = ByteBits, NEW base, base = ByteRange, NEW m \in Nat,
         NEW a \in [1 .. m -> 0 .. base - 1], NEW b \in [1 .. m -> 0 .. base - 1],
         NEW p \in 0 .. m * bits, NEW size, size = Pow(2, m * bits - p)
  PROVE  SameNetwork(a, b, p) <=> Horner(a, base) \div size = Horner(b, base) \div size
<1>1. bits \in Nat \ {0} /\ base \in Nat \ {0} /\ base \in Nat /\ base = Pow(2, bits)
  BY BytesSize DEF ByteRange
<1>2. PICK full \in 0 .. m, rest \in 0 .. bits - 1 :
        /\ full = p \div bits /\ rest = p % bits
        /\ full = m => rest = 0 /\ m * bits - p = 0
        /\ full # m => m * bits - p = bits * (m - (full + 1)) + (bits - rest)
  <2>1. bits \in Nat \ {0}
    BY <1>1
  <2>2. \E full, rest : BytesOf(bits, m, p, full, rest)
    BY <2>1, WholeBytes
  <2> QED
    BY <2>2 DEF BytesOf
<1>3. a \in Seq(0 .. base - 1) /\ b \in Seq(0 .. base - 1) /\ Len(a) = m /\ Len(b) = m
  BY <1>1, SMTT(30)
<1>4. a \in Seq(Nat) /\ b \in Seq(Nat)
  BY <1>1, <1>3, SMTT(30)
<1>5. PICK f : Positional(f, a, base) /\ Horner(a, base) = f[m]
  <2>1. \E f : Positional(f, a, base) /\ Horner(a, base) = f[Len(a)]
    BY <1>1, <1>4, HornerTable DEF Positional
  <2> QED
    BY <1>3, <2>1
<1>6. PICK g : Positional(g, b, base) /\ Horner(b, base) = g[m]
  <2>1. \E g : Positional(g, b, base) /\ Horner(b, base) = g[Len(b)]
    BY <1>1, <1>4, HornerTable DEF Positional
  <2> QED
    BY <1>3, <2>1
<1>7. /\ f \in [0 .. m -> Nat] /\ g \in [0 .. m -> Nat]
      /\ \A k \in 0 .. m - 1 : f[k + 1] = f[k] * base + a[k + 1] /\ g[k + 1] = g[k] * base + b[k + 1]
  BY <1>3, <1>5, <1>6 DEF Positional
<1>8. PICK shift \in Nat \ {0}, left \in Nat \ {0} :
        shift = Pow(2, bits - rest) /\ left = Pow(2, rest) /\ base = left * shift
  <2>1. bits - rest \in Nat /\ rest \in Nat /\ rest + (bits - rest) = bits
        /\ 2 \in Nat \ {0} /\ 2 \in Nat
    BY <1>1
  <2>2. Pow(2, bits - rest) \in Nat \ {0} /\ Pow(2, rest) \in Nat \ {0}
    BY <2>1, PowPositive
  <2>3. Pow(2, rest + (bits - rest)) = Pow(2, rest) * Pow(2, bits - rest)
    BY <2>1, PowSum
  <2> QED
    BY <1>1, <2>1, <2>2, <2>3
<1>9. SameNetwork(a, b, p) <=>
        /\ AlikeUpTo(a, b, full)
        /\ rest > 0 /\ full < m => a[full + 1] \div shift = b[full + 1] \div shift
  BY <1>2, <1>3, <1>8 DEF SameNetwork, AlikeUpTo
<1>10. f[full] = g[full] <=> AlikeUpTo(a, b, full)
  <2>1. full \in Nat /\ full <= Len(a) /\ full <= Len(b) /\ base \in Nat \ {0}
    BY <1>1, <1>3
  <2>2. a \in Seq(0 .. base - 1) /\ b \in Seq(0 .. base - 1)
    BY <1>3
  <2>3. Positional(f, a, base) /\ Positional(g, b, base)
    BY <1>5, <1>6
  <2> QED
    BY <2>1, <2>2, <2>3, PositionalInjective
<1>11. CASE full = m
  <2>1. size = 1
    <3>1. 2 \in Nat /\ 0 \in Nat
      OBVIOUS
    <3> QED
      BY <1>2, <1>11, <3>1, PowStep
  <2>2. f[m] \in Nat /\ g[m] \in Nat
    BY <1>7
  <2>3. f[m] \div 1 = f[m] /\ g[m] \div 1 = g[m]
    BY <2>2
  <2>4. SameNetwork(a, b, p) <=> f[m] = g[m]
    BY <1>2, <1>9, <1>10, <1>11
  <2> QED
    BY <1>5, <1>6, <2>1, <2>3, <2>4
<1>12. CASE full # m
  <2>1. PICK j \in 0 .. m : j = m - (full + 1)
    BY <1>12
  <2>2. /\ full + 1 = m - j /\ full + 1 \in 1 .. m /\ full + 1 \in 0 .. m
        /\ full \in 0 .. m - 1 /\ full \in 0 .. m /\ full < m
    BY <1>12, <2>1
  <2>3. PICK above \in Nat \ {0} : above = Pow(base, j)
    <3>1. base \in Nat \ {0} /\ j \in Nat
      BY <1>1
    <3>2. Pow(base, j) \in Nat \ {0}
      BY <3>1, PowPositive
    <3> QED
      BY <3>2
  <2>4. size = above * shift
    <3>1. PICK i \in Nat : i = bits * j
      BY <1>1, SMTT(30)
    <3>2. bits - rest \in Nat /\ j \in Nat /\ 2 \in Nat /\ bits \in Nat
      BY <1>1
    <3>3. size = Pow(2, i + (bits - rest))
      BY <1>2, <1>12, <2>1, <3>1
    <3>4. Pow(2, i + (bits - rest)) = Pow(2, i) * shift
      BY <1>8, <3>1, <3>2, PowSum
    <3>5. Pow(Pow(2, bits), j) = Pow(2, bits * j)
      BY <3>2, PowOfPow
    <3> QED
      BY <1>1, <2>3, <3>1, <3>3, <3>4, <3>5
  <2>5. f[m] \in Nat /\ g[m] \in Nat
    BY <1>7
  <2>6. f[m] \div above = f[full + 1] /\ g[m] \div above = g[full + 1]
    <3>1. j \in 0 .. Len(a) /\ j \in 0 .. Len(b) /\ base \in Nat \ {0}
      BY <1>1, <1>3
    <3>a. a \in Seq(0 .. base - 1) /\ b \in Seq(0 .. base - 1)
      BY <1>3
    <3>b. Positional(f, a, base) /\ Positional(g, b, base)
      BY <1>5, <1>6
    <3>2. f[Len(a)] \div Pow(base, j) = f[Len(a) - j]
      BY <3>1, <3>a, <3>b, PositionalQuotient
    <3>3. g[Len(b)] \div Pow(base, j) = g[Len(b) - j]
      BY <3>1, <3>a, <3>b, PositionalQuotient
    <3> QED
      BY <1>3, <2>2, <2>3, <3>2, <3>3
  <2>7. /\ f[m] \div (above * shift) = f[full + 1] \div shift
        /\ g[m] \div (above * shift) = g[full + 1] \div shift
    <3>1. (f[m] \div above) \div shift = f[m] \div (above * shift)
      BY <2>5, DivideTwice
    <3>2. (g[m] \div above) \div shift = g[m] \div (above * shift)
      BY <2>5, DivideTwice
    <3> QED
      BY <2>6, <3>1, <3>2
  <2>8. PICK w \in Nat, z \in Nat, d \in 0 .. base - 1, e \in 0 .. base - 1 :
          w = f[full] /\ z = g[full] /\ d = a[full + 1] /\ e = b[full + 1]
    <3>1. f[full] \in Nat /\ g[full] \in Nat
      BY <1>7, <2>2
    <3>2. a[full + 1] \in 0 .. base - 1 /\ b[full + 1] \in 0 .. base - 1
      BY <2>2
    <3> QED
      BY <3>1, <3>2
  <2>9. f[full + 1] = w * base + d /\ g[full + 1] = z * base + e
    BY <1>7, <2>2, <2>8
  <2>10. f[full + 1] \div shift = g[full + 1] \div shift <=> w = z /\ d \div shift = e \div shift
    <3>1. Factors(base, left, shift)
      BY <1>8 DEF Factors
    <3>2. SameCut(base, shift, w, d, z, e)
      BY <3>1, NumbersCut
    <3> QED
      BY <2>9, <3>2 DEF SameCut
  <2>11. ASSUME rest = 0 PROVE d \div shift = e \div shift
    <3>1. 2 \in Nat /\ 0 \in Nat
      OBVIOUS
    <3>2. left = 1
      BY <1>8, <2>11, <3>1, PowStep
    <3>3. Factors(base, left, shift)
      BY <1>8 DEF Factors
    <3>4. CutAt(base, left, shift, d) /\ CutAt(base, left, shift, e)
      BY <3>3, DigitCut
    <3>5. d \div shift \in 0 .. left - 1 /\ e \div shift \in 0 .. left - 1
      BY <3>4 DEF CutAt
    <3> QED
      BY <3>2, <3>5
  <2>12. w = z <=> AlikeUpTo(a, b, full)
    BY <1>10, <2>8
  <2>13. rest > 0 \/ rest = 0
    OBVIOUS
  <2>14. SameNetwork(a, b, p) <=> w = z /\ d \div shift = e \div shift
    BY <1>9, <2>2, <2>8, <2>11, <2>12, <2>13
  <2> QED
    BY <1>5, <1>6, <2>4, <2>7, <2>10, <2>14
<1> QED
  BY <1>11, <1>12

(***************************************************************************)
(* Of two networks, one is in the other iff it is not larger and has the   *)
(* same quotient by the size of the other.                                 *)
(***************************************************************************)
LEMMA NetworksNest ==
  ASSUME NEW x \in Nat, NEW y \in Nat, NEW s \in Nat \ {0}, NEW t \in Nat \ {0},
         s <= t => \E u \in Nat \ {0} : t = s * u
  PROVE  LET low == (x \div s) * s
             at  == (y \div t) * t
         IN  low .. (low + s - 1) \subseteq at .. (at + t - 1) <=> s <= t /\ x \div t = y \div t
<1>1. PICK q \in Nat, r \in 0 .. s - 1 : q = x \div s /\ x = q * s + r
  BY NaturalEuclid
<1>2. PICK p \in Nat, c \in 0 .. t - 1 : p = y \div t /\ y = p * t + c
  BY NaturalEuclid
<1>3. PICK low \in Nat, at \in Nat : low = q * s /\ at = p * t
  BY SMTT(30)
<1>4. ASSUME low .. (low + s - 1) \subseteq at .. (at + t - 1) PROVE s <= t /\ x \div t = p
  <2>1. low \in at .. (at + t - 1) /\ (low + s) - 1 \in at .. (at + t - 1) /\ x \in at .. (at + t - 1)
    <3>1. low \in low .. (low + s - 1) /\ (low + s) - 1 \in low .. (low + s - 1)
          /\ x \in low .. (low + s - 1)
      BY <1>1, <1>3
    <3> QED
      BY <1>4, <3>1
  <2>2. s <= t
    BY <1>3, <2>1
  <2>3. PICK d \in 0 .. t - 1 : x = p * t + d
    <3>1. x - at \in 0 .. t - 1 /\ x = at + (x - at)
      BY <1>3, <2>1
    <3> QED
      BY <1>3, <3>1
  <2>4. (p * t + d) \div t = p
    BY EuclidUnique
  <2> QED
    BY <2>2, <2>3, <2>4
<1>5. ASSUME s <= t, x \div t = p PROVE low .. (low + s - 1) \subseteq at .. (at + t - 1)
  <2>1. PICK u \in Nat \ {0} : t = s * u
    BY <1>5
  <2>2. q \div u = p
    BY <1>1, <1>5, <2>1, DivideTwice
  <2>3. PICK d \in 0 .. u - 1 : q = p * u + d
    BY <2>2, NaturalEuclid
  <2>4. low = at + d * s
    <3>1. q * s = p * (s * u) + d * s
      BY <2>3, SMTT(30)
    <3> QED
      BY <1>3, <2>1, <3>1
  <2>5. d * s >= 0 /\ d * s + s <= t
    <3>1. d * s + s = (d + 1) * s /\ d * s \in Nat
      BY SMTT(30)
    <3>2. (d + 1) * s <= u * s
      BY SMTT(30)
    <3>3. u * s = t
      BY <2>1, SMTT(30)
    <3> QED
      BY <3>1, <3>2, <3>3
  <2>6. PICK e \in Nat : e = d * s
    BY SMTT(30)
  <2>7. low = at + e /\ e + s <= t
    BY <2>4, <2>5, <2>6
  <2> QED
    BY <2>7
<1>6. at .. (at + t - 1) = ((y \div t) * t) .. ((y \div t) * t + t - 1)
  BY <1>2, <1>3
<1>7. low .. (low + s - 1) = ((x \div s) * s) .. ((x \div s) * s + s - 1)
  BY <1>1, <1>3
<1> QED
  BY <1>2, <1>4, <1>5, <1>6, <1>7

(***************************************************************************)
(* The addresses that there are, with every prefix.                        *)
(***************************************************************************)
Bytes(v6) == IF v6 THEN 2 * Groups ELSE Octets

Networks ==
  UNION {{IpValue(v6, addr, prefix) : addr \in [1 .. Bytes(v6) -> 0 .. ByteRange - 1],
                                      prefix \in 0 .. Bytes(v6) * ByteBits} : v6 \in BOOLEAN}

RangeInv == kind = "range" => input \in [obj : Networks, range : Networks]

LEMMA BitsType ==
  ASSUME NEW v6 \in BOOLEAN
  PROVE  Bytes(v6) \in Nat /\ Bytes(v6) * ByteBits \in Nat
<1>1. PICK m \in Nat, bits \in Nat : m = Bytes(v6) /\ bits = ByteBits
  BY BytesSize DEF Bytes
<1>2. m * bits \in Nat
  BY SMTT(30)
<1> QED
  BY <1>1, <1>2

LEMMA RangeStart == ExtensionInit => RangeInv
<1> SUFFICES ASSUME ExtensionInit, kind = "range" PROVE input \in [obj : Networks, range : Networks]
  BY DEF RangeInv
<1>1. input \in [obj : Singles, range : Singles]
  BY DEF ExtensionInit
<1>2. ASSUME NEW v6 \in BOOLEAN PROVE Single(v6) \subseteq Networks
  <2>1. PICK all \in Nat : all = Bytes(v6) * ByteBits
    BY BitsType
  <2>2. all \in 0 .. Bytes(v6) * ByteBits
    BY <2>1
  <2>3. Single(v6) = {IpValue(v6, addr, all) : addr \in [1 .. Bytes(v6) -> 0 .. ByteRange - 1]}
    BY <2>1 DEF Single, Bytes
  <2> QED
    BY <2>2, <2>3 DEF Networks
<1>3. Singles \subseteq Networks
  BY <1>2 DEF Singles
<1> QED
  BY <1>1, <1>3

LEMMA RangeStep == RangeInv /\ [ExtensionNext]_<<kind, input>> => RangeInv'
<1> SUFFICES ASSUME RangeInv, [ExtensionNext]_<<kind, input>>, kind' = "range"
             PROVE  input' \in [obj : Networks, range : Networks]
  BY DEF RangeInv
<1>1. CASE Widen
  <2>1. PICK obj \in Networks, range \in Networks : input = [obj |-> obj, range |-> range]
    BY <1>1 DEF Widen, RangeInv
  <2>2. PICK part \in {"obj", "range"} :
          input[part].prefix > 0 /\ input' = [input EXCEPT ![part].prefix = @ - 1]
    BY <1>1 DEF Widen
  <2>3. ASSUME NEW ip \in Networks, ip.prefix > 0 PROVE [ip EXCEPT !.prefix = @ - 1] \in Networks
    <3>1. PICK v6 \in BOOLEAN :
            ip \in {IpValue(v6, addr, prefix) : addr \in [1 .. Bytes(v6) -> 0 .. ByteRange - 1],
                                                prefix \in 0 .. Bytes(v6) * ByteBits}
      BY DEF Networks
    <3>2. PICK addr \in [1 .. Bytes(v6) -> 0 .. ByteRange - 1], prefix \in 0 .. Bytes(v6) * ByteBits :
            ip = IpValue(v6, addr, prefix)
      BY <3>1
    <3>3. ip.prefix = prefix /\ [ip EXCEPT !.prefix = @ - 1] = IpValue(v6, addr, prefix - 1)
      BY <3>2 DEF IpValue
    <3>4. prefix - 1 \in 0 .. Bytes(v6) * ByteBits
      BY <2>3, <3>3, BitsType
    <3> QED
      BY <3>3, <3>4 DEF Networks
  <2>4. CASE part = "obj"
    <3>1. input' = [obj |-> [obj EXCEPT !.prefix = @ - 1], range |-> range] /\ obj.prefix > 0
      BY <2>1, <2>2, <2>4
    <3> QED
      BY <2>3, <3>1
  <2>5. CASE part = "range"
    <3>1. input' = [obj |-> obj, range |-> [range EXCEPT !.prefix = @ - 1]] /\ range.prefix > 0
      BY <2>1, <2>2, <2>5
    <3> QED
      BY <2>3, <3>1
  <2> QED
    BY <2>2, <2>4, <2>5
<1>2. CASE UNCHANGED <<kind, input>>
  BY <1>2 DEF RangeInv
<1> QED
  BY <1>1, <1>2 DEF ExtensionNext, Move, Tick, NextDay

LEMMA ContainsLaw ==
  ASSUME NEW obj \in Networks, NEW range \in Networks
  PROVE  CidrContains(obj, range) <=>
           obj.v6 = range.v6 /\ Addresses(obj) \subseteq Addresses(range)
<1>1. PICK w6 \in BOOLEAN, v6 \in BOOLEAN :
        /\ obj \in {IpValue(w6, addr, prefix) : addr \in [1 .. Bytes(w6) -> 0 .. ByteRange - 1],
                                               prefix \in 0 .. Bytes(w6) * ByteBits}
        /\ range \in {IpValue(v6, addr, prefix) : addr \in [1 .. Bytes(v6) -> 0 .. ByteRange - 1],
                                                 prefix \in 0 .. Bytes(v6) * ByteBits}
  BY DEF Networks
<1>2. PICK a \in [1 .. Bytes(w6) -> 0 .. ByteRange - 1], i \in 0 .. Bytes(w6) * ByteBits :
        obj = IpValue(w6, a, i)
  BY <1>1
<1>3. PICK b \in [1 .. Bytes(v6) -> 0 .. ByteRange - 1], j \in 0 .. Bytes(v6) * ByteBits :
        range = IpValue(v6, b, j)
  BY <1>1
<1>4. /\ obj.v6 = w6 /\ obj.addr = a /\ obj.prefix = i
      /\ range.v6 = v6 /\ range.addr = b /\ range.prefix = j
  BY <1>2, <1>3 DEF IpValue
<1>5. SUFFICES ASSUME w6 = v6
               PROVE  i >= j /\ SameNetwork(a, b, j) <=> Addresses(obj) \subseteq Addresses(range)
  BY <1>4 DEF CidrContains
<1>6. PICK m \in Nat, all \in Nat : m = Bytes(v6) /\ all = m * ByteBits
  BY BitsType
<1>7. PICK s \in Nat \ {0}, t \in Nat \ {0} : s = Pow(2, all - i) /\ t = Pow(2, all - j)
  <2>1. all - i \in Nat /\ all - j \in Nat /\ 2 \in Nat \ {0}
    BY <1>5, <1>6
  <2> QED
    BY <2>1, PowPositive
<1>8. s <= t <=> i >= j
  <2>1. 2 \in Nat \ {0, 1} /\ all - i \in Nat /\ all - j \in Nat
    BY <1>5, <1>6
  <2>2. all - i <= all - j <=> s <= t
    BY <1>7, <2>1, PowMonotone
  <2>3. i \in Nat /\ j \in Nat
    BY <1>5, <1>6
  <2> QED
    BY <2>2, <2>3
<1>9. ASSUME s <= t PROVE \E u \in Nat \ {0} : t = s * u
  <2>1. i - j \in Nat /\ all - i \in Nat /\ (all - i) + (i - j) = all - j /\ 2 \in Nat \ {0}
    BY <1>5, <1>6, <1>8, <1>9
  <2>2. Pow(2, (all - i) + (i - j)) = Pow(2, all - i) * Pow(2, i - j) /\ Pow(2, i - j) \in Nat \ {0}
    BY <2>1, PowSum, PowPositive
  <2> QED
    BY <1>7, <2>1, <2>2
<1>10. PICK x \in Nat, y \in Nat : x = Horner(a, ByteRange) /\ y = Horner(b, ByteRange)
  <2>1. PICK base \in Nat \ {0} : base = ByteRange
    BY BytesSize
  <2>2. a \in Seq(Nat) /\ b \in Seq(Nat) /\ base \in Nat
    BY <1>5, <1>6, <2>1
  <2>3. Horner(a, base) \in Nat /\ Horner(b, base) \in Nat
    BY <2>2, HornerStep
  <2> QED
    BY <2>1, <2>3
<1>11. SameNetwork(a, b, j) <=> x \div t = y \div t
  <2>1. PICK bits, base : bits = ByteBits /\ base = ByteRange
    OBVIOUS
  <2>2. /\ a \in [1 .. m -> 0 .. base - 1] /\ b \in [1 .. m -> 0 .. base - 1]
        /\ j \in 0 .. m * bits /\ t = Pow(2, m * bits - j)
    BY <1>5, <1>6, <1>7, <2>1
  <2> QED
    <3>1. bits = ByteBits /\ base = ByteRange
      BY <2>1
    <3>2. SameNetwork(a, b, j) <=> Horner(a, base) \div t = Horner(b, base) \div t
      BY <2>2, <3>1, NetworkIsQuotient, SMTT(30)
    <3> QED
      BY <1>10, <2>1, <3>2
<1>12. Len(a) = m /\ Len(b) = m
  BY <1>5, <1>6
<1>13. /\ Addresses(obj) = ((x \div s) * s) .. ((x \div s) * s + s - 1)
       /\ Addresses(range) = ((y \div t) * t) .. ((y \div t) * t + t - 1)
  BY <1>4, <1>6, <1>7, <1>10, <1>12 DEF Addresses
<1>14. Addresses(obj) \subseteq Addresses(range) <=> s <= t /\ x \div t = y \div t
  <2>1. ((x \div s) * s) .. ((x \div s) * s + s - 1) \subseteq ((y \div t) * t) .. ((y \div t) * t + t - 1)
          <=> s <= t /\ x \div t = y \div t
    BY <1>9, NetworksNest
  <2> QED
    BY <1>13, <2>1
<1> QED
  BY <1>8, <1>11, <1>14

(***************************************************************************)
(* An address is in a range iff all of what it stands for is, for every    *)
(* width of a byte, number of bytes and prefix: whole bytes and the bits   *)
(* of one more decide what the set of addresses does.                      *)
(* (php_cedar_ip_cidr_contains)                                            *)
(***************************************************************************)
THEOREM ContainsHolds == ExtensionSpec => []ContainsIsInclusion
<1>1. RangeInv => ContainsIsInclusion
  <2>1. SUFFICES ASSUME RangeInv, kind = "range"
                 PROVE  CidrContains(input.obj, input.range) <=>
                          /\ input.obj.v6 = input.range.v6
                          /\ Addresses(input.obj) \subseteq Addresses(input.range)
    BY DEF ContainsIsInclusion
  <2>2. input.obj \in Networks /\ input.range \in Networks
    BY <2>1 DEF RangeInv
  <2> QED
    BY <2>2, ContainsLaw
<1> QED
  BY RangeStart, RangeStep, <1>1, PTL DEF ExtensionSpec

(***************************************************************************)
(* What the methods of ranges, datetimes and durations return is what      *)
(* their arguments stand for.  (php_cedar_eval_method_call)                *)
(***************************************************************************)
THEOREM MethodsHold == ExtensionSpec => []MethodsExact
<1>1. ContainsIsInclusion /\ TimeAlgebra => MethodsExact
  BY DEF MethodsExact
<1> QED
  BY <1>1, ContainsHolds, TimeAlgebraHolds, PTL
=============================================================================
