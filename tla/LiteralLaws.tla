---------------------------- MODULE LiteralLaws -----------------------------
(***************************************************************************)
(* A text written character by character, and what it is worth as a        *)
(* decimal, duration or IP literal: a number in exact arithmetic, or the   *)
(* address that is spelled that way.                                       *)
(***************************************************************************)
EXTENDS ExtensionTypes, FiniteSets

CONSTANTS Alphabet,  \* the characters of the texts for each reader
          MaxText    \* and how long they get

\* The readers of literals get characters.
ASSUME AlphabetAssumption == Alphabet["quantity"] \cup Alphabet["address"] \subseteq 0 .. Junk

VARIABLES text,
          reader  \* whom the text is for

ReaderInit == reader \in DOMAIN Alphabet /\ text = <<>>

Write ==
  /\ Len(text) < MaxText[reader]
  /\ \E c \in Alphabet[reader] : text' = Append(text, c)
  /\ UNCHANGED reader

ReaderSpec == ReaderInit /\ [][Write]_<<text, reader>>
-----------------------------------------------------------------------------
Sign == IF At(text, 1, Minus) THEN -1 ELSE 1
Start == IF At(text, 1, Minus) THEN 2 ELSE 1

AllDigits(s) == s # <<>> /\ \A k \in DOMAIN s : s[k] \in Digit

Dots == {k \in Start .. Len(text) : text[k] = Dot}
Whole == SubSeq(text, Start, First(Dots) - 1)
Frac == SubSeq(text, First(Dots) + 1, Len(text))

IsDecimal ==
  Cardinality(Dots) = 1 /\ AllDigits(Whole) /\ AllDigits(Frac) /\ Len(Frac) <= FracDigits

DecimalWorth ==
  Sign * (Horner(Whole, 10) * Pow(10, FracDigits) + Horner(Frac, 10) * Pow(10, FracDigits - Len(Frac)))

(***************************************************************************)
(* A decimal is accepted iff it is digits, a dot, and one to FracDigits    *)
(* digits, and its value fits; both ends of the range included.            *)
(* (php_cedar_make_decimal)                                                *)
(***************************************************************************)
DecimalExact ==
  reader = "quantity" =>
    MakeDecimal(text) = IF IsDecimal /\ DecimalWorth \in Long THEN DecimalValue(DecimalWorth)
                        ELSE ErrorValue
-----------------------------------------------------------------------------
Units == <<<<LetterD>>, <<LetterH>>, <<LetterM>>, <<LetterS>>, <<LetterM, LetterS>>>>

\* A part ends where letters end; its number is the digits in front of them.
PartEnds == {k \in Start .. Len(text) : /\ text[k] \notin Digit
                                        /\ k < Len(text) => text[k + 1] \in Digit}

PartStart(end) == 1 + Max({Start - 1} \cup {k \in PartEnds : k < end})
Letter(end) == First({k \in PartStart(end) .. end : text[k] \notin Digit})
Number(end) == SubSeq(text, PartStart(end), Letter(end) - 1)
Unit(end) == SubSeq(text, Letter(end), end)
Rank(end) == First({k \in DOMAIN Units : Units[k] = Unit(end)})
Magnitude(end) == Horner(Number(end), 10) * UnitFactor[Rank(end)]

IsDuration ==
  /\ Start <= Len(text) /\ Len(text) \in PartEnds
  /\ \A e \in PartEnds : Number(e) # <<>> /\ Unit(e) \in Range(Units)
  /\ \A e, f \in PartEnds : e < f => Rank(e) < Rank(f)

\* The sum of the parts.
DurationWorth ==
  LET sum[k \in 0 .. Len(text)] ==
        IF k = 0 THEN 0
        ELSE IF k \in PartEnds THEN sum[k - 1] + Magnitude(k)
        ELSE sum[k - 1]
  IN  sum[Len(text)]

(***************************************************************************)
(* A duration is accepted iff it is one or more parts, each a number and a *)
(* unit, every unit smaller than the one before, and the sum of the parts  *)
(* fits before the sign is applied.  (php_cedar_make_duration)             *)
(***************************************************************************)
DurationExact ==
  reader = "quantity" =>
    MakeDuration(text) = IF IsDuration /\ DurationWorth <= MaxLong
                         THEN DurationValue(Sign * DurationWorth)
                         ELSE ErrorValue
-----------------------------------------------------------------------------
\* The digits of n, as many as it needs.
Width(n) == CHOOSE w \in 1 .. n + 1 : n < Pow(10, w) /\ \A v \in 1 .. w - 1 : n >= Pow(10, v)
Printed(n) == [k \in 1 .. Width(n) |-> (n \div Pow(10, Width(n) - k)) % 10]

\* The pieces with a separator between them.
Join(pieces, c) ==
  FlattenSeq([k \in DOMAIN pieces |-> IF k = 1 THEN pieces[k] ELSE <<c>> \o pieces[k]])

\* A prefix length behind a slash; the length of the whole address may go without.
Endings(max) ==
  {[text |-> <<Slash>> \o Printed(n), prefix |-> n] : n \in 0 .. max} \cup {[text |-> <<>>, prefix |-> max]}

PrintedOctets(addr) == Join([k \in 1 .. Octets |-> Printed(addr[k])], Dot)

Ipv4Spellings ==
  {[text |-> PrintedOctets(addr) \o ending.text, ip |-> IpValue(FALSE, addr, ending.prefix)] :
     addr \in [1 .. Octets -> 0 .. ByteRange - 1], ending \in Endings(Octets * ByteBits)}
Ipv4Texts == {s.text : s \in Ipv4Spellings}

HasColon == \E k \in DOMAIN text : text[k] = Colon

\* What a text is read as when these are the spellings that there are.
ReadAs(ip, texts, spellings) ==
  IF text \in texts /\ Len(text) <= MaxIpText THEN [text |-> text, ip |-> ip] \in spellings
  ELSE ip = ErrorValue

(***************************************************************************)
(* Without a colon a text is an address iff it is the one way of printing  *)
(* its octets and its prefix: there are no leading zeros that another      *)
(* reader could take for octal.  (php_cedar_parse_ipv4)                    *)
(***************************************************************************)
Ipv4IsCanonical ==
  reader = "address" /\ ~HasColon => ReadAs(MakeIp(text), Ipv4Texts, Ipv4Spellings)
-----------------------------------------------------------------------------
HexTexts == UNION {[1 .. n -> HexDigit] : n \in 1 .. GroupDigits}
Numbers(groups) == [k \in DOMAIN groups |-> Horner(groups[k], 16)]

\* Groups, and how many of them are in front of the `::`, if there is one.
NoCut == -1
AnyShape == [groups : UNION {[1 .. n -> HexTexts] : n \in 0 .. Groups}, cut : NoCut .. Groups]

\* All the groups, or fewer and a gap.
Shapes ==
  {shape \in AnyShape : /\ shape.cut <= Len(shape.groups)
                        /\ shape.cut = NoCut <=> Len(shape.groups) = Groups}

\* All the groups, and a gap behind them that stands for none.
IdleGaps == {shape \in AnyShape : shape.cut = Groups /\ Len(shape.groups) = Groups}

Before(shape) == SubSeq(shape.groups, 1, shape.cut)
Behind(shape) == SubSeq(shape.groups, shape.cut + 1, Len(shape.groups))

SpelledGroups(shape) ==
  IF shape.cut = NoCut THEN Join(shape.groups, Colon)
  ELSE Join(Before(shape), Colon) \o <<Colon, Colon>> \o Join(Behind(shape), Colon)

\* The `::` stands for the zeroes that are missing.
AllGroups(shape) ==
  IF shape.cut = NoCut THEN Numbers(shape.groups)
  ELSE Numbers(Before(shape)) \o [k \in 1 .. Groups - Len(shape.groups) |-> 0] \o Numbers(Behind(shape))

SpellingsOf(shapes) ==
  {[text |-> SpelledGroups(shape) \o ending.text,
    ip   |-> IpValue(TRUE, AsBytes(AllGroups(shape)), ending.prefix)] :
     shape \in shapes, ending \in Endings(2 * Groups * ByteBits)}

Ipv6Spellings == SpellingsOf(Shapes)
Ipv6Texts == {s.text : s \in Ipv6Spellings}
IdleGapTexts == {s.text : s \in SpellingsOf(IdleGaps)}

(***************************************************************************)
(* With a colon a text is an address iff it is whole groups or has one gap *)
(* for at least one of them, and its value has every group in its place.   *)
(* Texts with a gap behind all the groups are those of GapIsZeroes.        *)
(* (php_cedar_parse_ipv6)                                                  *)
(***************************************************************************)
Ipv6InPlace ==
  reader = "address" /\ HasColon /\ text \notin IdleGapTexts =>
    ReadAs(MakeIp(text), Ipv6Texts, Ipv6Spellings)

(***************************************************************************)
(* ":: must expand to at least one zero group" (expr.c 350): behind all    *)
(* the groups it is an error.  The code takes such a text for the address  *)
(* of its groups, since the position of that gap is the number that stands *)
(* for no gap.  (php_cedar_parse_ipv6)                                     *)
(***************************************************************************)
GapIsZeroes ==
  reader = "address" /\ text \in IdleGapTexts => MakeIp(text) = ErrorValue

(***************************************************************************)
(* Every text is read as what it is worth or refused: decimals, durations  *)
(* and addresses.  (php_cedar_make_decimal and its like)                   *)
(***************************************************************************)
LiteralsExact == DecimalExact /\ DurationExact /\ Ipv4IsCanonical /\ Ipv6InPlace
=============================================================================
