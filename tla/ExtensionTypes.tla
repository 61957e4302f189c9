--------------------------- MODULE ExtensionTypes ---------------------------
(***************************************************************************)
(* The extension values of Cedar in php_cedar_expr.c: how the text of a    *)
(* decimal, datetime, duration or IP literal becomes a value, and the      *)
(* 64-bit arithmetic behind them.                                          *)
(*                                                                         *)
(* Every width of the code is a constant, so that TLC can reach both ends  *)
(* of each range: MaxLong for INT64_MAX, FracDigits for the 4 digits of a  *)
(* decimal, MsDigits for the 3 of a fraction of a second.                  *)
(***************************************************************************)
EXTENDS Texts

CONSTANTS MaxLong, FracDigits,
          HoursPerDay, MinutesPerHour, SecondsPerMinute, MsDigits

ASSUME WidthAssumption == /\ MaxLong \in Nat /\ MaxLong >= 9
                          /\ FracDigits \in Nat \ {0}
                          /\ MsDigits \in Nat \ {0}
                          /\ {HoursPerDay, MinutesPerHour, SecondsPerMinute} \subseteq Nat \ {0}

MinLong == -MaxLong - 1
Long == MinLong..MaxLong

SecondMs == Pow(10, MsDigits)
MinuteMs == SecondsPerMinute * SecondMs
HourMs == MinutesPerHour * MinuteMs
DayMs == HoursPerDay * HourMs

(***************************************************************************)
(* Characters.  A digit is its value and so is a hexadecimal letter, which *)
(* makes `d` also the unit of days.                                        *)
(***************************************************************************)
Digit == 0..9
HexDigit == 0..15
LetterD == 13
Minus == 16
Plus == 17
Dot == 18
Colon == 19
Slash == 20
LetterH == 21
LetterM == 22
LetterS == 23
LetterT == 24
LetterZ == 25
Junk == 26

ErrorValue == [t |-> "error"]
IsError(v) == v.t = "error"
LongValue(n) == [t |-> "long", n |-> n]
DecimalValue(n) == [t |-> "decimal", n |-> n]
DatetimeValue(n) == [t |-> "datetime", n |-> n]
DurationValue(n) == [t |-> "duration", n |-> n]

\* A signed result that does not fit is undefined in C; the build keeps its low bits.
Wrap(n) == ((n - MinLong) % (MaxLong - MinLong + 1)) + MinLong

(***************************************************************************)
(* __builtin_{add,sub,mul}_overflow: the exact result, or Overflow.        *)
(***************************************************************************)
Overflow == MinLong - 1

\* Variant: the operators of C, without the check.
CheckedNever(n) == Wrap(n)

Checked(n) == IF n \in Long THEN n ELSE Overflow

\* Digits from left to right, refused before the sum can pass max.
Accumulate(digits, max) ==
  LET val[k \in 0..Len(digits)] ==
        IF k = 0 THEN 0
        ELSE IF val[k - 1] = Overflow \/ val[k - 1] > (max - digits[k]) \div 10 THEN Overflow
        ELSE val[k - 1] * 10 + digits[k]
  IN  val[Len(digits)]
-----------------------------------------------------------------------------
(***************************************************************************)
(* php_cedar_make_decimal.  The sign is applied to both parts, so that the *)
(* sum reaches MinLong and not only -MaxLong.                              *)
(***************************************************************************)
Scaled(negative, int, frac) ==
  LET scaled == Checked(int * (IF negative THEN -1 ELSE 1) * Pow(10, FracDigits))
  IN  IF scaled = Overflow THEN Overflow
      ELSE Checked(IF negative THEN scaled - frac ELSE scaled + frac)

\* Variant: the sign is applied to the assembled magnitude.
ScaledThenNegated(negative, int, frac) ==
  LET scaled == Checked(Checked(int * Pow(10, FracDigits)) + frac)
  IN  IF scaled = Overflow THEN Overflow ELSE IF negative THEN -scaled ELSE scaled

DecimalOf(negative, int, frac) == Scaled(negative, int, frac)

ScaledValue(scaled) == IF scaled = Overflow THEN ErrorValue ELSE DecimalValue(scaled)

\* The digits p .. dot - 1 are in front of the dot, dot + 1 .. end - 1 behind it.
DecimalAt(text, p, dot, end) ==
  LET intPart  == Accumulate(SubSeq(text, p, dot - 1), MaxLong)
      digits   == end - dot - 1
      fracPart == Horner(SubSeq(text, dot + 1, end - 1), 10)
  IN  IF \/ dot = p
         \/ intPart = Overflow
         \/ ~At(text, dot, Dot)
         \/ digits \notin 1..FracDigits
         \/ end # Len(text) + 1
      THEN ErrorValue
      ELSE ScaledValue(DecimalOf(p = 2, intPart, fracPart * Pow(10, FracDigits - digits)))

DecimalFrom(text, p, dot) == DecimalAt(text, p, dot, RunEnd(text, dot + 1, Digit))

MakeDecimal(text) ==
  LET p == IF At(text, 1, Minus) THEN 2 ELSE 1 IN DecimalFrom(text, p, RunEnd(text, p, Digit))
-----------------------------------------------------------------------------
(***************************************************************************)
(* php_cedar_days_in_month and php_cedar_days_from_civil.                  *)
(***************************************************************************)
LeapYear(y) == (y % 4 = 0 /\ y % 100 # 0) \/ y % 400 = 0

\* Variant: every fourth year is a leap year.
DaysInMonthJulian(y, m) ==
  IF m = 2 /\ y % 4 = 0 THEN 29
  ELSE <<31, 28, 31, 30, 31, 30, 31, 31, 30, 31, 30, 31>>[m]

DaysInMonth(y, m) ==
  IF m = 2 /\ LeapYear(y) THEN 29
  ELSE <<31, 28, 31, 30, 31, 30, 31, 31, 30, 31, 30, 31>>[m]

\* Variant: a year counts from January, as a leap day at its end would allow.
DaysFromJanuary(y, m, d) ==
  LET era == y \div 400
      yoe == y - era * 400
      doy == (153 * (m - 1) + 2) \div 5 + d - 1
  IN  era * 146097 + yoe * 365 + yoe \div 4 - yoe \div 100 + doy - 719468

\* \div rounds down where the code adjusts a division that rounds to zero.
DaysFromCivil(y, m, d) ==
  LET yy  == IF m <= 2 THEN y - 1 ELSE y
      era == yy \div 400
      yoe == yy - era * 400
      doy == (153 * (m + (IF m > 2 THEN -3 ELSE 9)) + 2) \div 5 + d - 1
      doe == yoe * 365 + yoe \div 4 - yoe \div 100 + doy
  IN  era * 146097 + doe - 719468

(***************************************************************************)
(* php_cedar_read_uint: exactly n digits at p.                             *)
(***************************************************************************)
IsField(text, p, n) ==
  p + n - 1 <= Len(text) /\ \A k \in p..(p + n - 1) : text[k] \in Digit

Field(text, p, n) == Horner(SubSeq(text, p, p + n - 1), 10)

(***************************************************************************)
(* php_cedar_make_datetime: YYYY-MM-DD, alone or followed by Thh:mm:ss, an *)
(* optional .SSS and a zone.  Every field has a fixed width.               *)
(***************************************************************************)
IsDate(text) ==
  /\ IsField(text, 1, 4) /\ At(text, 5, Minus)
  /\ IsField(text, 6, 2) /\ At(text, 8, Minus)
  /\ IsField(text, 9, 2)
  /\ Field(text, 6, 2) \in 1..12
  /\ Field(text, 9, 2) \in 1..DaysInMonth(Field(text, 1, 4), Field(text, 6, 2))

IsTime(text) ==
  /\ At(text, 11, LetterT)
  /\ IsField(text, 12, 2) /\ At(text, 14, Colon)
  /\ IsField(text, 15, 2) /\ At(text, 17, Colon)
  /\ IsField(text, 18, 2)
  /\ Field(text, 12, 2) < HoursPerDay
  /\ Field(text, 15, 2) < MinutesPerHour
  /\ Field(text, 18, 2) < SecondsPerMinute
  /\ At(text, 20, Dot) => IsField(text, 21, MsDigits)

ZoneAt(text) == IF At(text, 20, Dot) THEN 21 + MsDigits ELSE 20

HasOffset(text) ==
  LET z == ZoneAt(text)
  IN  /\ At(text, z, Plus) \/ At(text, z, Minus)
      /\ IsField(text, z + 1, 2) /\ IsField(text, z + 3, 2)
      /\ Len(text) = z + 4
      /\ Field(text, z + 1, 2) < HoursPerDay
      /\ Field(text, z + 3, 2) < MinutesPerHour

IsZone(text) ==
  \/ At(text, ZoneAt(text), LetterZ) /\ Len(text) = ZoneAt(text)
  \/ HasOffset(text)

\* Variant: the offset is added to the local time.
OffsetAdded(text) ==
  IF ~HasOffset(text) THEN 0
  ELSE LET z == ZoneAt(text)
       IN  (IF text[z] = Minus THEN 1 ELSE -1)
             * (Field(text, z + 1, 2) * MinutesPerHour + Field(text, z + 3, 2))

OffsetMinutes(text) ==
  IF ~HasOffset(text) THEN 0
  ELSE LET z == ZoneAt(text)
       IN  (IF text[z] = Minus THEN -1 ELSE 1)
             * (Field(text, z + 1, 2) * MinutesPerHour + Field(text, z + 3, 2))

MakeDatetime(text) ==
  LET days == DaysFromCivil(Field(text, 1, 4), Field(text, 6, 2), Field(text, 9, 2))
  IN  IF ~IsDate(text) THEN ErrorValue
      ELSE IF Len(text) = 10 THEN DatetimeValue(days * DayMs)
      ELSE IF ~IsTime(text) \/ ~IsZone(text) THEN ErrorValue
      ELSE DatetimeValue(days * DayMs + Field(text, 12, 2) * HourMs
                         + Field(text, 15, 2) * MinuteMs + Field(text, 18, 2) * SecondMs
                         + (IF At(text, 20, Dot) THEN Field(text, 21, MsDigits) ELSE 0)
                         - OffsetMinutes(text) * MinuteMs)
-----------------------------------------------------------------------------
(***************************************************************************)
(* php_cedar_make_duration: quantities with units in descending order.     *)
(***************************************************************************)
UnitFactor == <<DayMs, HourMs, MinuteMs, SecondMs, 1>>

\* The unit at p: its rank and its length; `m` is a minute unless an `s` follows.
UnitAt(text, p) ==
  CASE At(text, p, LetterD)                              -> [stage |-> 1, len |-> 1]
    [] At(text, p, LetterH)                              -> [stage |-> 2, len |-> 1]
    [] At(text, p, LetterM) /\ ~At(text, p + 1, LetterS) -> [stage |-> 3, len |-> 1]
    [] At(text, p, LetterS)                              -> [stage |-> 4, len |-> 1]
    [] At(text, p, LetterM) /\ At(text, p + 1, LetterS)  -> [stage |-> 5, len |-> 2]
    [] OTHER                                             -> [stage |-> 0, len |-> 0]

\* Variant: a unit may repeat.
StageAllowsRepeat(stage, unit) == unit.stage >= stage

StageAllows(stage, unit) == unit.stage > stage

\* What is read when a quantity is refused.
BadQuantity == [p |-> 0, stage |-> 0, total |-> Overflow]

AddContribution(total, contrib) == IF contrib = Overflow THEN Overflow ELSE Checked(total + contrib)

AddQuantity(read, u, qty, unit) ==
  IF u = read.p \/ qty = Overflow \/ unit.stage = 0 \/ ~StageAllows(read.stage, unit) THEN BadQuantity
  ELSE [p     |-> u + unit.len,
        stage |-> unit.stage,
        total |-> AddContribution(read.total, Checked(qty * UnitFactor[unit.stage]))]

QuantityUpTo(text, read, u) ==
  AddQuantity(read, u, Accumulate(SubSeq(text, read.p, u - 1), MaxLong), UnitAt(text, u))

\* One turn of the loop: p is where it reads on, stage the unit before.
NextQuantity(text, read) ==
  IF read.total = Overflow \/ read.p > Len(text) THEN read
  ELSE QuantityUpTo(text, read, RunEnd(text, read.p, Digit))

\* There are no more turns than characters.
QuantitiesFrom(text, p) ==
  LET read[n \in 0..Len(text)] == IF n = 0 THEN [p |-> p, stage |-> 0, total |-> 0]
                                  ELSE NextQuantity(text, read[n - 1])
  IN  read[Len(text)]

TotalOf(read) == IF read.stage = 0 THEN Overflow ELSE read.total

Signed(negative, total) ==
  IF total = Overflow THEN ErrorValue ELSE DurationValue(IF negative THEN -total ELSE total)

MakeDuration(text) ==
  LET negative == At(text, 1, Minus)
  IN  Signed(negative, TotalOf(QuantitiesFrom(text, IF negative THEN 2 ELSE 1)))
-----------------------------------------------------------------------------
(***************************************************************************)
(* php_cedar_long_arith.                                                   *)
(***************************************************************************)
Arith(op, a, b) ==
  LET r == Checked(CASE op = "add" -> a.n + b.n [] op = "sub" -> a.n - b.n
                     [] op = "mul" -> a.n * b.n)
  IN  IF a.t # "long" \/ b.t # "long" THEN ErrorValue
      ELSE IF r = Overflow THEN ErrorValue ELSE LongValue(r)

\* Variant: the one value without a negative is not refused, and wraps.
NegateWrapping(a) ==
  IF a.t # "long" THEN ErrorValue
  ELSE LongValue(IF a.n = MinLong THEN MinLong ELSE -a.n)

Negate(a) ==
  IF a.t # "long" THEN ErrorValue
  ELSE IF a.n = MinLong THEN ErrorValue ELSE LongValue(-a.n)

(***************************************************************************)
(* php_cedar_eval_method_call on datetimes and durations.  NoArg is a call *)
(* without an argument.                                                    *)
(***************************************************************************)
NoArg == [t |-> "none"]

\* Variant: division rounds down.
QuotientDown(n, d) == n \div d

\* Division in C rounds to zero.
Quotient(n, d) == IF n >= 0 THEN n \div d ELSE -((-n) \div d)

\* Variant: the remainder keeps the sign of the dividend.
TimeOfDaySigned(ms) == ms - Quotient(ms, DayMs) * DayMs

TimeOfDay(ms) == ms % DayMs

DatetimeCall(ms, method) ==
  CASE method = "toDate" -> DatetimeValue(Wrap(ms - TimeOfDay(ms)))
    [] method = "toTime" -> DurationValue(TimeOfDay(ms))
    [] OTHER             -> ErrorValue

DurationCall(d, method) ==
  CASE method = "toMilliseconds" -> LongValue(d)
    [] method = "toSeconds"      -> LongValue(Quotient(d, SecondMs))
    [] method = "toMinutes"      -> LongValue(Quotient(d, MinuteMs))
    [] method = "toHours"        -> LongValue(Quotient(d, HourMs))
    [] method = "toDays"         -> LongValue(Quotient(d, DayMs))
    [] OTHER                     -> ErrorValue

DatetimeArgCall(obj, method, arg) ==
  LET shifted == Checked(obj.n + arg.n)
      since   == Checked(obj.n - arg.n)
  IN  CASE method = "offset" /\ arg.t = "duration" ->
             IF shifted = Overflow THEN ErrorValue ELSE DatetimeValue(shifted)
        [] method = "durationSince" /\ arg.t = "datetime" ->
             IF since = Overflow THEN ErrorValue ELSE DurationValue(since)
        [] OTHER -> ErrorValue

TimeCall(obj, method, arg) ==
  CASE obj.t = "datetime" /\ arg = NoArg -> DatetimeCall(obj.n, method)
    [] obj.t = "duration" /\ arg = NoArg -> DurationCall(obj.n, method)
    [] obj.t = "datetime" /\ arg # NoArg -> DatetimeArgCall(obj, method, arg)
    [] OTHER                             -> ErrorValue
-----------------------------------------------------------------------------
(***************************************************************************)
(* The ipaddr extension: addresses and ranges in IPv4 and IPv6 notation,   *)
(* and containment of one range in another.                                *)
(*                                                                         *)
(* ByteBits stands for 8, Octets for the 4 of IPv4, Groups for the 8 of    *)
(* IPv6, MaxIpText for 43.  Two bytes make a group, and a hexadecimal      *)
(* digit has four bits.                                                    *)
(***************************************************************************)
CONSTANTS ByteBits, Octets, Groups, MaxIpText

ASSUME IpAssumption == /\ ByteBits \in Nat /\ ByteBits % 2 = 0 /\ ByteBits > 0
                       /\ {Octets, Groups, MaxIpText} \subseteq Nat \ {0}

ByteRange == Pow(2, ByteBits)
GroupDigits == (2 * ByteBits) \div 4
IpValue(v6, addr, prefix) == [t |-> "ip", v6 |-> v6, addr |-> addr, prefix |-> prefix]

(***************************************************************************)
(* php_cedar_parse_bounded_dec: a number without leading zeros.            *)
(***************************************************************************)
\* Variant: leading zeros are read like any other digit.
BoundedDecPadded(text, p, max) ==
  LET digits == SubSeq(text, p, RunEnd(text, p, Digit) - 1)
  IN  IF digits = <<>> THEN Overflow ELSE Accumulate(digits, max)

BoundedDec(text, p, max) ==
  LET digits == SubSeq(text, p, RunEnd(text, p, Digit) - 1)
  IN  IF digits = <<>> \/ (Len(digits) > 1 /\ Head(digits) = 0) THEN Overflow
      ELSE Accumulate(digits, max)

(***************************************************************************)
(* The end of both notations: nothing, or a slash and a prefix length.     *)
(***************************************************************************)
PrefixAt(text, p, max) ==
  IF p = Len(text) + 1 THEN max
  ELSE IF At(text, p, Slash) /\ RunEnd(text, p + 1, Digit) = Len(text) + 1
  THEN BoundedDec(text, p + 1, max)
  ELSE Overflow

Refused == [addr |-> <<>>, p |-> 0]

(***************************************************************************)
(* php_cedar_parse_ipv4: the octets, then the prefix.                      *)
(***************************************************************************)
PutOctet(text, end, octet, addr) ==
  IF octet = Overflow THEN Refused
  ELSE IF Len(addr) + 1 = Octets THEN [addr |-> Append(addr, octet), p |-> end]
  ELSE IF At(text, end, Dot) THEN [addr |-> Append(addr, octet), p |-> end + 1]
  ELSE Refused

NextOctet(text, read) ==
  IF read = Refused THEN Refused
  ELSE PutOctet(text, RunEnd(text, read.p, Digit), BoundedDec(text, read.p, ByteRange - 1), read.addr)

OctetsOf(text) ==
  LET read[n \in 0..Octets] == IF n = 0 THEN [addr |-> <<>>, p |-> 1] ELSE NextOctet(text, read[n - 1])
  IN  read[Octets]

Ipv4Of(octets, prefix) ==
  IF octets = Refused \/ prefix = Overflow THEN ErrorValue ELSE IpValue(FALSE, octets.addr, prefix)

PrefixBehind(text, octets) == Ipv4Of(octets, PrefixAt(text, octets.p, Octets * ByteBits))

ParseIpv4(text) == PrefixBehind(text, OctetsOf(text))

(***************************************************************************)
(* php_cedar_parse_ipv6.  gap is the number of groups before `::`, and the *)
(* number of groups of a whole address when there is none.                 *)
(***************************************************************************)
NoGap == Groups
BadGroups == [groups |-> <<>>, gap |-> -1, p |-> 0]

\* The digits of a group end at q, which is the end, a colon or a stranger.
PutGroup(text, q, read, grown) ==
  IF Len(read.groups) >= Groups \/ q - read.p \notin 1..GroupDigits THEN BadGroups
  ELSE IF q > Len(text) THEN [read EXCEPT !.groups = grown, !.p = q]
  ELSE IF text[q] # Colon THEN BadGroups
  ELSE IF At(text, q + 1, Colon)
  THEN IF read.gap # NoGap THEN BadGroups ELSE [groups |-> grown, gap |-> Len(grown), p |-> q + 2]
  ELSE IF q = Len(text) THEN BadGroups
  ELSE [read EXCEPT !.groups = grown, !.p = q + 1]

GroupUpTo(text, q, read) ==
  PutGroup(text, q, read, Append(read.groups, Horner(SubSeq(text, read.p, q - 1), 16)))

NextGroup(text, read) ==
  IF read = BadGroups \/ read.p > Len(text) THEN read
  ELSE GroupUpTo(text, RunEnd(text, read.p, HexDigit), read)

\* There are no more groups than characters.
GroupsFrom(text, p, gap) ==
  LET read[n \in 0..Len(text)] == IF n = 0 THEN [groups |-> <<>>, gap |-> gap, p |-> p]
                                  ELSE NextGroup(text, read[n - 1])
  IN  read[Len(text)]

\* Variant: the groups after the gap are written right behind it.
ExpandedLeft(groups, gap) ==
  [k \in 1..Groups |-> IF k <= Len(groups) THEN groups[k] ELSE 0]

Expanded(groups, gap) ==
  LET tail == Len(groups) - gap
  IN  [k \in 1..Groups |-> IF k <= gap THEN groups[k]
                           ELSE IF k > Groups - tail THEN groups[gap + k - (Groups - tail)]
                           ELSE 0]

AsBytes(groups) ==
  [k \in 1..(2 * Groups) |-> IF k % 2 = 1 THEN groups[(k + 1) \div 2] \div ByteRange
                             ELSE groups[k \div 2] % ByteRange]

AddressGroups(address) ==
  IF At(address, 1, Colon) /\ At(address, 2, Colon) THEN GroupsFrom(address, 3, 0)
  ELSE GroupsFrom(address, 1, NoGap)

Ipv6Of(found, prefix) ==
  IF \/ found = BadGroups \/ prefix = Overflow
     \/ found.gap = NoGap /\ Len(found.groups) # Groups
     \/ found.gap # NoGap /\ Len(found.groups) >= Groups
  THEN ErrorValue
  ELSE IpValue(TRUE, AsBytes(Expanded(found.groups, found.gap)), prefix)

SplitAt(text, slash) ==
  Ipv6Of(AddressGroups(SubSeq(text, 1, slash - 1)), PrefixAt(text, slash, 2 * Groups * ByteBits))

ParseIpv6(text) == SplitAt(text, RunEnd(text, 1, (0..Junk) \ {Slash}))

(***************************************************************************)
(* php_cedar_make_ip: the notation is IPv6 if there is a colon.            *)
(***************************************************************************)
MakeIp(text) ==
  IF Len(text) \notin 1..MaxIpText THEN ErrorValue
  ELSE IF \E p \in DOMAIN text : text[p] = Colon THEN ParseIpv6(text)
  ELSE ParseIpv4(text)
-----------------------------------------------------------------------------
(***************************************************************************)
(* php_cedar_ip_cidr_contains: whole bytes first, then the bits that are   *)
(* left of the prefix.                                                     *)
(***************************************************************************)
\* Variant: only whole bytes are compared.
SameNetworkBytes(a, b, prefix) == \A k \in 1..(prefix \div ByteBits) : a[k] = b[k]

SameNetwork(a, b, prefix) ==
  LET full      == prefix \div ByteBits
      remaining == prefix % ByteBits
      shift     == Pow(2, ByteBits - remaining)
  IN  /\ \A k \in 1..full : a[k] = b[k]
      /\ remaining > 0 /\ full < Len(a) => a[full + 1] \div shift = b[full + 1] \div shift

CidrContains(obj, range) ==
  /\ obj.v6 = range.v6
  /\ obj.prefix >= range.prefix
  /\ SameNetwork(obj.addr, range.addr, range.prefix)
=============================================================================
