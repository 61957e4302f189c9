--------------------------- MODULE LiteralProofs ----------------------------
(***************************************************************************)
(* Theorems about the literals of the extension types: every text is read  *)
(* as what it is worth or refused, for every width of the range, every     *)
(* number of digits, bytes and groups, and texts of every length.          *)
(***************************************************************************)
EXTENDS LiteralLaws, SequenceLemmas, FiniteSetTheorems

Texts0 == Seq(0 .. Junk)

LEMMA Characters ==
  /\ Digit \subseteq Nat /\ Digit \subseteq 0 .. Junk /\ HexDigit \subseteq 0 .. Junk
  /\ HexDigit \subseteq Nat /\ 0 .. Junk \subseteq Nat
  /\ {Minus, Dot, Colon, Slash, LetterD, LetterH, LetterM, LetterS} \subseteq 0 .. Junk
  /\ {Minus, Dot, Colon, Slash, LetterD, LetterH, LetterM, LetterS} \cap Digit = {}
  /\ {Colon, Slash, Dot} \cap HexDigit = {}
  /\ Colon # Slash /\ Dot # Slash /\ Dot # Colon
BY DEF Digit, HexDigit, Junk, Minus, Dot, Colon, Slash, LetterD, LetterH, LetterM, LetterS

LEMMA Widths ==
  /\ MaxLong \in Nat /\ MaxLong >= 9
  /\ MinLong = -MaxLong - 1 /\ MinLong \in Int
  /\ Overflow \in Int /\ Overflow < MinLong /\ Overflow < 0 /\ Overflow \notin Long
<1>1. MaxLong \in Nat /\ MaxLong >= 9
  BY WidthAssumption
<1> QED
  BY <1>1 DEF MinLong, Overflow, Long
-----------------------------------------------------------------------------
(***************************************************************************)
(* The run of characters of a set that starts somewhere in a text ends at  *)
(* one position.                                                           *)
(***************************************************************************)
EndsRun(s, p, C, q) ==
  /\ q \in p .. Len(s) + 1
  /\ \A r \in p .. q - 1 : s[r] \in C
  /\ q <= Len(s) => s[q] \notin C

LEMMA RunEnds ==
  ASSUME NEW S, NEW s \in Seq(S), NEW p \in 1 .. Len(s) + 1, NEW C
  PROVE  EndsRun(s, p, C, RunEnd(s, p, C))
<1>1. PICK n \in Nat : n = Len(s)
  OBVIOUS
<1> DEFINE Strange == {r \in p .. n + 1 : r = n + 1 \/ s[r] \notin C}
<1>2. Strange \subseteq Nat /\ n + 1 \in Strange
  BY <1>1
<1>3. PICK q \in Strange : \A r \in Strange : q <= r
  <2> HIDE DEF Strange
  <2> QED
    BY <1>2, LeastNumber
<1>4. ASSUME NEW r \in p .. q - 1 PROVE s[r] \in C
  <2>1. r \notin Strange
    BY <1>2, <1>3
  <2>2. r \in p .. n + 1 /\ r # n + 1
    BY <1>1, <1>3
  <2> QED
    BY <2>1, <2>2
<1>5. EndsRun(s, p, C, q)
  BY <1>1, <1>3, <1>4 DEF EndsRun
<1>6. RunEnd(s, p, C) = CHOOSE x \in p .. (Len(s) + 1) : EndsRun(s, p, C, x)
  BY DEF RunEnd, EndsRun
<1>7. q \in p .. (Len(s) + 1)
  BY <1>5 DEF EndsRun
<1> QED
  BY <1>5, <1>6, <1>7

LEMMA RunEndUnique ==
  ASSUME NEW S, NEW s \in Seq(S), NEW p \in 1 .. Len(s) + 1, NEW C, NEW q, EndsRun(s, p, C, q)
  PROVE  RunEnd(s, p, C) = q
<1>1. PICK x : x = RunEnd(s, p, C)
  OBVIOUS
<1>2. EndsRun(s, p, C, x)
  BY <1>1, RunEnds
<1>3. PICK n \in Nat : n = Len(s)
  OBVIOUS
<1>4. q \in p .. n + 1 /\ x \in p .. n + 1 /\ p \in Nat
  BY <1>2, <1>3 DEF EndsRun
<1>5. ~(x < q)
  <2>1. SUFFICES ASSUME x < q PROVE FALSE
    OBVIOUS
  <2>2. x \in p .. q - 1 /\ x <= n
    BY <1>4, <2>1
  <2> QED
    BY <1>2, <1>3, <2>2 DEF EndsRun
<1>6. ~(q < x)
  <2>1. SUFFICES ASSUME q < x PROVE FALSE
    OBVIOUS
  <2>2. q \in p .. x - 1 /\ q <= n
    BY <1>4, <2>1
  <2> QED
    BY <1>2, <1>3, <2>2 DEF EndsRun
<1> QED
  BY <1>1, <1>4, <1>5, <1>6

(***************************************************************************)
(* Digits are accumulated to their number, or found to be too large.       *)
(***************************************************************************)
LEMMA PieceType ==
  ASSUME NEW s \in Texts0, NEW p \in 1 .. Len(s) + 1, NEW q \in p .. Len(s) + 1, NEW C,
         \A r \in p .. q - 1 : s[r] \in C
  PROVE  /\ SubSeq(s, p, q - 1) \in Seq(C)
         /\ Len(SubSeq(s, p, q - 1)) = q - p
         /\ \A i \in 1 .. q - p : SubSeq(s, p, q - 1)[i] = s[(p + i) - 1]
<1>1. PICK n \in Nat : n = Len(s)
  BY DEF Texts0
<1>2. p \in Int /\ q - 1 \in Int /\ p <= q
  BY <1>1
<1>3. PICK e \in Int : e = q - 1
  BY <1>2
<1>4. \A i \in p .. e : s[i] \in C
  BY <1>3
<1>5. /\ SubSeq(s, p, e) \in Seq(C)
      /\ Len(SubSeq(s, p, e)) = IF p <= e THEN (e - p) + 1 ELSE 0
      /\ \A i \in 1 .. (e - p) + 1 : SubSeq(s, p, e)[i] = s[(p + i) - 1]
  BY <1>2, <1>4, SubSeqProperties
<1>6. (e - p) + 1 = q - p /\ (p <= e \/ q - p = 0)
  BY <1>2, <1>3
<1> QED
  BY <1>3, <1>5, <1>6

Exceeds(v, d, max) == v > (max - d) \div 10
LEMMA ExceedsIs ==
  ASSUME NEW v \in Nat, NEW d \in Digit, NEW max \in Nat
  PROVE  Exceeds(v, d, max) <=> v * 10 + d > max
<1>1. PICK x \in Int : x = max - d
  BY DEF Digit
<1>2. x = 10 * (x \div 10) + (x % 10) /\ x % 10 \in 0 .. 9 /\ x \div 10 \in Int
  OBVIOUS
<1> QED
  BY <1>1, <1>2 DEF Exceeds, Digit

LEMMA AccumulateIs ==
  ASSUME NEW digits \in Seq(Digit), NEW max \in Nat
  PROVE  /\ Horner(digits, 10) \in Nat
         /\ Accumulate(digits, max) =
              IF Horner(digits, 10) <= max THEN Horner(digits, 10) ELSE Overflow
<1>1. PICK n \in Nat : n = Len(digits)
  OBVIOUS
<1>2. \A k \in 0 .. n - 1 : k + 1 \in 1 .. n /\ digits[k + 1] \in Digit
  BY <1>1
<1>3. PICK h \in [0 .. n -> Nat] :
        /\ h[0] = 0
        /\ \A k \in 0 .. n - 1 : h[k + 1] = h[k] * 10 + digits[k + 1]
        /\ Horner(digits, 10) = h[n]
  <2>1. 10 \in Nat /\ digits \in Seq(Nat)
    BY Characters, SeqMonotonic
  <2> QED
    BY <1>1, <2>1, HornerTable
<1> DEFINE Is(w) == w = [k \in 0 .. n |->
                           IF k = 0 THEN 0
                           ELSE IF w[k - 1] = Overflow \/ w[k - 1] > (max - digits[k]) \div 10 THEN Overflow
                           ELSE w[k - 1] * 10 + digits[k]]
           g == [k \in 0 .. n |-> IF h[k] <= max THEN h[k] ELSE Overflow]
<1>4. ASSUME NEW k \in 0 .. n - 1
      PROVE  g[k + 1] = IF g[k] = Overflow \/ Exceeds(g[k], digits[k + 1], max) THEN Overflow
                        ELSE g[k] * 10 + digits[k + 1]
  <2>1. PICK d \in Digit : d = digits[k + 1]
    BY <1>2
  <2>2. PICK v \in Nat : v = h[k]
    BY <1>3
  <2>3. k \in 0 .. n /\ k + 1 \in 0 .. n
    OBVIOUS
  <2>4. h[k + 1] = v * 10 + d
    BY <1>3, <2>1, <2>2
  <2>5. g[k] = (IF v <= max THEN v ELSE Overflow)
        /\ g[k + 1] = (IF v * 10 + d <= max THEN v * 10 + d ELSE Overflow)
    BY <2>2, <2>3, <2>4
  <2>6. Exceeds(v, d, max) <=> v * 10 + d > max
    BY ExceedsIs
  <2>7. d \in Nat /\ Overflow \in Int /\ Overflow < 0
    BY Characters, Widths
  <2> HIDE DEF g
  <2> QED
    BY <2>1, <2>5, <2>6, <2>7, SMTT(30)
<1>5. Is(g)
  <2>1. ASSUME NEW i \in 0 .. n, i # 0
        PROVE  g[i] = IF g[i - 1] = Overflow \/ g[i - 1] > (max - digits[i]) \div 10 THEN Overflow
                      ELSE g[i - 1] * 10 + digits[i]
    <3>1. i - 1 \in 0 .. n - 1 /\ (i - 1) + 1 = i
      BY <2>1
    <3> HIDE DEF g
    <3> QED
      BY <1>4, <3>1 DEF Exceeds
  <2>2. g[0] = 0
    BY <1>3
  <2>3. g \in [0 .. n -> Int]
    BY <1>3, Widths
  <2>4. DOMAIN g = 0 .. n
    OBVIOUS
  <2> HIDE DEF g
  <2>5. g = [k \in 0 .. n |-> g[k]]
    BY <2>3
  <2>6. \A i \in 0 .. n : g[i] = IF i = 0 THEN 0
               ELSE IF g[i - 1] = Overflow \/ g[i - 1] > (max - digits[i]) \div 10 THEN Overflow
               ELSE g[i - 1] * 10 + digits[i]
    BY <2>1, <2>2
  <2> QED
    BY <2>5, <2>6
<1>6. PICK w : w = CHOOSE v : Is(v)
  OBVIOUS
<1>7. Is(w)
  <2> HIDE DEF Is, g
  <2> QED
    BY <1>5, <1>6
<1>8. Accumulate(digits, max) = w[n]
  BY <1>1, <1>6 DEF Accumulate
<1>9. \A i \in 0 .. n : w[i] = IF i = 0 THEN 0
               ELSE IF w[i - 1] = Overflow \/ w[i - 1] > (max - digits[i]) \div 10 THEN Overflow
               ELSE w[i - 1] * 10 + digits[i]
  BY <1>7
<1> DEFINE T == {i \in 0 .. n : w[i] = g[i]}
<1>10. 0 \in T
  BY <1>3, <1>9
<1>11. ASSUME NEW k \in 0 .. n - 1, k \in T PROVE k + 1 \in T
  <2>1. k + 1 \in 0 .. n /\ k + 1 # 0 /\ (k + 1) - 1 = k /\ k \in 0 .. n
    OBVIOUS
  <2>2. w[k + 1] = IF w[k] = Overflow \/ w[k] > (max - digits[k + 1]) \div 10 THEN Overflow
                   ELSE w[k] * 10 + digits[k + 1]
    BY <1>9, <2>1
  <2>3. w[k] = g[k]
    BY <1>11
  <2>4. g[k + 1] = IF g[k] = Overflow \/ g[k] > (max - digits[k + 1]) \div 10 THEN Overflow
                   ELSE g[k] * 10 + digits[k + 1]
    <3> HIDE DEF g
    <3> QED
      BY <1>4 DEF Exceeds
  <2> HIDE DEF g
  <2> QED
    BY <2>1, <2>2, <2>3, <2>4
<1>12. \A i \in 0 .. n : i \in T
  <2> HIDE DEF T
  <2> QED
    BY <1>10, <1>11, UpToNumber
<1>13. w[n] = g[n] /\ g[n] = IF h[n] <= max THEN h[n] ELSE Overflow
  BY <1>12
<1> QED
  BY <1>3, <1>8, <1>13
-----------------------------------------------------------------------------
(***************************************************************************)
(* The guards of the reader of decimals tell their texts from all others.  *)
(***************************************************************************)
LEMMA Beginning ==
  ASSUME text \in Texts0
  PROVE  /\ Start \in {1, 2} /\ Start \in 1 .. Len(text) + 1
         /\ Start = IF At(text, 1, Minus) THEN 2 ELSE 1
         /\ Sign = IF Start = 2 THEN -1 ELSE 1
<1>1. PICK n \in Nat : n = Len(text)
  BY DEF Texts0
<1>2. DOMAIN text = 1 .. n
  BY <1>1 DEF Texts0
<1> QED
  BY <1>1, <1>2 DEF Start, Sign, At

LEMMA FirstOfOne ==
  ASSUME NEW x \in Int
  PROVE  First({x}) = x
<1>1. \A k \in {x} : k = x
  OBVIOUS
<1> QED
  BY <1>1 DEF First

LEMMA OneDot ==
  ASSUME text \in Texts0
  PROVE  Cardinality(Dots) = 1 <=> \E x : Dots = {x}
<1>1. PICK n \in Nat : n = Len(text)
  BY DEF Texts0
<1>2. IsFiniteSet(Start .. n)
  BY <1>1, Beginning, FS_Interval
<1>3. Dots \subseteq Start .. n
  BY <1>1 DEF Dots
<1>4. IsFiniteSet(Dots)
  BY <1>2, <1>3, FS_Subset
<1> QED
  BY <1>4, FS_Singleton

DecimalGuards(p, dot, end) ==
  /\ dot # p /\ At(text, dot, Dot)
  /\ end = Len(text) + 1
  /\ end - dot - 1 \in 1 .. FracDigits

LEMMA DecimalRead ==
  ASSUME text \in Texts0, NEW p, p = Start, NEW dot, dot = RunEnd(text, p, Digit),
         NEW end, end = RunEnd(text, dot + 1, Digit), DecimalGuards(p, dot, end)
  PROVE  IsDecimal /\ First(Dots) = dot
<1>1. PICK n \in Nat : n = Len(text)
  BY DEF Texts0
<1>2. /\ p \in 1 .. n + 1 /\ text \in Seq(0 .. Junk) /\ DOMAIN text = 1 .. n
  BY <1>1, Beginning DEF Texts0
<1>3. EndsRun(text, p, Digit, dot)
  BY <1>1, <1>2, RunEnds
<1>4. dot \in p .. n + 1 /\ dot # p /\ dot \in 1 .. n /\ text[dot] = Dot /\ end = n + 1
      /\ end - dot - 1 \in 1 .. FracDigits
  BY <1>1, <1>2, <1>3 DEF EndsRun, DecimalGuards, At
<1>5. PICK d \in 1 .. n : d = dot /\ p < d
  BY <1>2, <1>4
<1>6. EndsRun(text, d + 1, Digit, n + 1)
  <2>1. d + 1 \in 1 .. n + 1
    OBVIOUS
  <2> QED
    BY <1>1, <1>2, <1>4, <1>5, <2>1, RunEnds
<1>7. (\A r \in p .. d - 1 : text[r] \in Digit) /\ (\A r \in d + 1 .. n : text[r] \in Digit)
  <2>1. (n + 1) - 1 = n
    OBVIOUS
  <2> QED
    BY <1>3, <1>5, <1>6, <2>1 DEF EndsRun
<1>8. Dots = {d}
  <2>1. Dot \notin Digit
    BY Characters
  <2>2. \A k \in p .. n : k \in p .. d - 1 \/ k = d \/ k \in d + 1 .. n
    BY <1>2, <1>5
  <2>3. Dots = {k \in p .. n : text[k] = Dot}
    BY <1>1 DEF Dots
  <2>4. d \in p .. n
    BY <1>2, <1>5
  <2> QED
    BY <1>4, <1>5, <1>7, <2>1, <2>2, <2>3, <2>4
<1>9. First(Dots) = d
  BY <1>8, FirstOfOne
<1>10. Whole \in Seq(Digit) /\ Whole # <<>>
  <2>1. d \in p .. n + 1
    BY <1>2, <1>5
  <2>2. SubSeq(text, p, d - 1) \in Seq(Digit) /\ Len(SubSeq(text, p, d - 1)) = d - p
    BY <1>1, <1>2, <1>7, <2>1, PieceType
  <2>3. d - p # 0
    BY <1>2, <1>5
  <2> QED
    BY <1>9, <2>2, <2>3 DEF Whole
<1>11. Frac \in Seq(Digit) /\ Len(Frac) = n - d /\ n - d \in 1 .. FracDigits
  <2>1. d + 1 \in 1 .. n + 1 /\ n + 1 \in d + 1 .. n + 1 /\ (n + 1) - 1 = n
    OBVIOUS
  <2>2. PICK q : q = n + 1
    OBVIOUS
  <2>3. SubSeq(text, d + 1, q - 1) \in Seq(Digit) /\ Len(SubSeq(text, d + 1, q - 1)) = q - (d + 1)
    BY <1>1, <1>7, <2>1, <2>2, PieceType
  <2>4. n - d \in 1 .. FracDigits
    BY <1>4, <1>5
  <2> QED
    BY <1>1, <1>9, <2>1, <2>2, <2>3, <2>4 DEF Frac
<1>12. AllDigits(Whole) /\ AllDigits(Frac) /\ Len(Frac) <= FracDigits
  <2>1. FracDigits \in Nat
    BY WidthAssumption
  <2> QED
    BY <1>10, <1>11, <2>1 DEF AllDigits
<1> QED
  BY <1>5, <1>8, <1>9, <1>12, OneDot DEF IsDecimal

LEMMA DecimalWritten ==
  ASSUME text \in Texts0, IsDecimal, NEW p, p = Start, NEW dot, dot = RunEnd(text, p, Digit),
         NEW end, end = RunEnd(text, dot + 1, Digit)
  PROVE  DecimalGuards(p, dot, end)
<1>1. PICK n \in Nat : n = Len(text)
  BY DEF Texts0
<1>2. /\ p \in 1 .. n + 1 /\ text \in Seq(0 .. Junk) /\ DOMAIN text = 1 .. n
  BY <1>1, Beginning DEF Texts0
<1>3. PICK x : Dots = {x}
  BY OneDot DEF IsDecimal
<1>4. x \in p .. n /\ text[x] = Dot
  BY <1>1, <1>3 DEF Dots
<1>5. PICK d \in 1 .. n : d = x /\ p <= d
  BY <1>2, <1>4
<1>6. First(Dots) = d
  BY <1>3, <1>5, FirstOfOne
<1>7. /\ Len(SubSeq(text, p, d - 1)) = d - p
      /\ \A i \in 1 .. d - p : SubSeq(text, p, d - 1)[i] = text[(p + i) - 1]
      /\ DOMAIN SubSeq(text, p, d - 1) = 1 .. d - p
  <2>1. d \in p .. n + 1 /\ \A r \in p .. d - 1 : text[r] \in 0 .. Junk
    <3>1. d \in p .. n + 1 /\ \A r \in p .. d - 1 : r \in 1 .. n
      BY <1>2, <1>5
    <3> QED
      BY <1>1, <1>2, <3>1, ElementOfSeq
  <2> QED
    BY <1>1, <1>2, <2>1, PieceType DEF Texts0
<1>8. p < d /\ \A r \in p .. d - 1 : text[r] \in Digit
  <2>1. Whole = SubSeq(text, p, d - 1) /\ AllDigits(Whole)
    BY <1>6 DEF Whole, IsDecimal
  <2>2. d - p # 0
    BY <1>2, <1>5, <1>7, <2>1 DEF AllDigits
  <2>3. \A i \in 1 .. d - p : text[(p + i) - 1] \in Digit
    BY <1>7, <2>1 DEF AllDigits
  <2>4. ASSUME NEW r \in p .. d - 1 PROVE text[r] \in Digit
    <3>1. (r - p) + 1 \in 1 .. d - p /\ (p + ((r - p) + 1)) - 1 = r
      BY <1>2, <1>5
    <3> QED
      BY <2>3, <3>1
  <2> QED
    BY <1>2, <1>5, <2>2, <2>4
<1>9. dot = d
  <2>1. EndsRun(text, p, Digit, d)
    <3>1. d \in p .. n + 1 /\ text[d] \notin Digit
      BY <1>2, <1>4, <1>5, Characters
    <3> QED
      BY <1>1, <1>8, <3>1 DEF EndsRun
  <2> QED
    BY <1>1, <1>2, <2>1, RunEndUnique
<1>10. PICK q \in Nat : q = n + 1
  OBVIOUS
<1>11. d + 1 \in 1 .. q /\ q \in d + 1 .. q /\ q - 1 = n
  BY <1>10
<1>12. /\ Len(SubSeq(text, d + 1, q - 1)) = q - (d + 1)
       /\ \A i \in 1 .. q - (d + 1) : SubSeq(text, d + 1, q - 1)[i] = text[((d + 1) + i) - 1]
       /\ DOMAIN SubSeq(text, d + 1, q - 1) = 1 .. q - (d + 1)
  <2>1. \A r \in d + 1 .. q - 1 : text[r] \in 0 .. Junk
    <3>1. \A r \in d + 1 .. q - 1 : r \in 1 .. n
      BY <1>10
    <3> QED
      BY <1>1, <1>2, <3>1, ElementOfSeq
  <2> QED
    BY <1>1, <1>10, <1>11, <2>1, PieceType DEF Texts0
<1>13. Frac = SubSeq(text, d + 1, q - 1) /\ AllDigits(Frac) /\ Len(Frac) <= FracDigits
  BY <1>1, <1>6, <1>11 DEF Frac, IsDecimal
<1>14. q - d - 1 \in 1 .. FracDigits
  <2>1. q - (d + 1) # 0
    BY <1>12, <1>13 DEF AllDigits
  <2>2. q - (d + 1) <= FracDigits /\ FracDigits \in Nat
    BY <1>12, <1>13, WidthAssumption
  <2> QED
    BY <1>10, <2>1, <2>2
<1>15. end = q
  <2>1. \A i \in 1 .. q - (d + 1) : text[((d + 1) + i) - 1] \in Digit
    BY <1>12, <1>13 DEF AllDigits
  <2>2. ASSUME NEW r \in d + 1 .. q - 1 PROVE text[r] \in Digit
    <3>1. r - d \in 1 .. q - (d + 1) /\ ((d + 1) + (r - d)) - 1 = r
      BY <1>10
    <3> QED
      BY <2>1, <3>1
  <2>3. EndsRun(text, d + 1, Digit, q)
    BY <1>1, <1>10, <1>11, <2>2 DEF EndsRun
  <2> QED
    BY <1>1, <1>2, <1>9, <1>10, <1>11, <2>3, RunEndUnique
<1> QED
  BY <1>1, <1>2, <1>4, <1>5, <1>8, <1>9, <1>10, <1>14, <1>15 DEF DecimalGuards, At

(***************************************************************************)
(* What is scaled, and has its sign, fits exactly when the worth does.     *)
(***************************************************************************)
LEMMA ScaledUp ==
  ASSUME NEW int \in Nat, NEW frac \in Nat, NEW whole \in Nat, whole = int * Pow(10, FracDigits)
  PROVE  Scaled(FALSE, int, frac) = IF whole + frac \in Long THEN whole + frac ELSE Overflow
<1>1. int * 1 * Pow(10, FracDigits) = whole
  BY SMTT(30)
<1>2. Scaled(FALSE, int, frac) = IF Checked(whole) = Overflow THEN Overflow ELSE Checked(Checked(whole) + frac)
  BY <1>1 DEF Scaled
<1>3. CASE whole \in Long
  BY <1>2, <1>3, Widths DEF Checked
<1>4. CASE whole \notin Long
  <2>1. whole + frac \notin Long
    BY <1>4, Widths DEF Long
  <2> QED
    BY <1>2, <1>4, <2>1 DEF Checked
<1> QED
  BY <1>3, <1>4

LEMMA ScaledDown ==
  ASSUME NEW int \in Nat, NEW frac \in Nat, NEW whole \in Nat, whole = int * Pow(10, FracDigits)
  PROVE  Scaled(TRUE, int, frac) = IF -(whole + frac) \in Long THEN -(whole + frac) ELSE Overflow
<1>1. int * (-1) * Pow(10, FracDigits) = -whole
  <2>1. PICK f \in Nat : f = Pow(10, FracDigits)
    BY WidthAssumption, PowOfTen
  <2>2. int * (-1) = -int
    OBVIOUS
  <2>3. (-int) * f = -(int * f)
    BY SMTT(30)
  <2> QED
    BY <2>1, <2>2, <2>3
<1>2. Scaled(TRUE, int, frac) =
        IF Checked(-whole) = Overflow THEN Overflow ELSE Checked(Checked(-whole) - frac)
  BY <1>1 DEF Scaled
<1>3. -whole - frac = -(whole + frac)
  OBVIOUS
<1>4. CASE -whole \in Long
  BY <1>2, <1>3, <1>4, Widths DEF Checked
<1>5. CASE -whole \notin Long
  <2>1. -(whole + frac) \notin Long
    BY <1>5, Widths DEF Long
  <2> QED
    BY <1>2, <1>5, <2>1 DEF Checked
<1> QED
  BY <1>4, <1>5

(***************************************************************************)
(* A decimal is accepted iff it is digits, a dot and one to FracDigits     *)
(* digits, and its value is a long; -2^63 is, although 2^63 is not.        *)
(* (php_cedar_make_decimal)                                                *)
(***************************************************************************)
THEOREM DecimalLaw ==
  ASSUME text \in Texts0
  PROVE  MakeDecimal(text) = IF IsDecimal /\ DecimalWorth \in Long THEN DecimalValue(DecimalWorth)
                             ELSE ErrorValue
<1>1. PICK p : p = Start
  OBVIOUS
<1>2. PICK dot : dot = RunEnd(text, p, Digit)
  OBVIOUS
<1>3. PICK end : end = RunEnd(text, dot + 1, Digit)
  OBVIOUS
<1>4. MakeDecimal(text) = DecimalAt(text, p, dot, end)
  BY <1>1, <1>2, <1>3, Beginning DEF MakeDecimal, DecimalFrom
<1>5. CASE ~DecimalGuards(p, dot, end)
  <2>1. ~IsDecimal
    BY <1>1, <1>2, <1>3, <1>5, DecimalWritten
  <2>2. DecimalAt(text, p, dot, end) = ErrorValue
    BY <1>5 DEF DecimalAt, DecimalGuards
  <2> QED
    BY <1>4, <2>1, <2>2
<1>6. CASE DecimalGuards(p, dot, end)
  <2>1. IsDecimal /\ First(Dots) = dot
    BY <1>1, <1>2, <1>3, <1>6, DecimalRead
  <2>2. PICK n \in Nat : n = Len(text)
    BY DEF Texts0
  <2>3. end = n + 1 /\ dot \in 1 .. n /\ (end - dot - 1) \in 1 .. FracDigits
    BY <1>6, <2>2 DEF DecimalGuards, At, Texts0
  <2>4. Whole = SubSeq(text, p, dot - 1) /\ Frac = SubSeq(text, dot + 1, end - 1)
    <3>1. end - 1 = n
      BY <2>3
    <3> QED
      BY <1>1, <2>1, <2>2, <3>1 DEF Whole, Frac
  <2>5. Whole \in Seq(Digit) /\ Frac \in Seq(Digit)
    <3>1. Whole \in Seq(0 .. Junk) /\ Frac \in Seq(0 .. Junk)
      <4>1. p \in 1 .. n + 1 /\ dot \in Int
        BY <1>1, <2>2, <2>3, Beginning
      <4>2. \A i \in p .. dot - 1 : text[i] \in 0 .. Junk
        <5>1. \A i \in p .. dot - 1 : i \in 1 .. n
          BY <2>3, <4>1
        <5> QED
          BY <2>2, <5>1, ElementOfSeq DEF Texts0
      <4>3. \A i \in dot + 1 .. end - 1 : text[i] \in 0 .. Junk
        <5>1. \A i \in dot + 1 .. end - 1 : i \in 1 .. n
          BY <2>3
        <5> QED
          BY <2>2, <5>1, ElementOfSeq DEF Texts0
      <4>4. p \in Int /\ dot - 1 \in Int /\ dot + 1 \in Int /\ end - 1 \in Int
        BY <2>3, <4>1
      <4> QED
        BY <2>4, <4>2, <4>3, <4>4, SubSeqProperties
    <3>2. AllDigits(Whole) /\ AllDigits(Frac)
      BY <2>1 DEF IsDecimal
    <3> QED
      BY <3>1, <3>2 DEF AllDigits
  <2>6. PICK int \in Nat, part \in Nat : int = Horner(Whole, 10) /\ part = Horner(Frac, 10)
    BY <2>5, AccumulateIs
  <2>7. Len(Frac) = end - dot - 1
    <3>1. \A i \in dot + 1 .. end - 1 : text[i] \in 0 .. Junk
      <4>1. \A i \in dot + 1 .. end - 1 : i \in 1 .. n
        BY <2>3
      <4> QED
        BY <2>2, <4>1, ElementOfSeq DEF Texts0
    <3>2. dot + 1 \in Int /\ end - 1 \in Int /\ dot + 1 <= end - 1
      BY <2>3, WidthAssumption
    <3>3. Len(SubSeq(text, dot + 1, end - 1)) = (end - 1) - (dot + 1) + 1
      BY <3>1, <3>2, SubSeqProperties
    <3> QED
      BY <2>3, <2>4, <3>3
  <2>8. PICK rest \in Nat : rest = FracDigits - (end - dot - 1)
    BY <2>3, WidthAssumption
  <2>9. PICK f \in Nat \ {0}, g \in Nat \ {0} : f = Pow(10, FracDigits) /\ g = Pow(10, rest)
    BY <2>8, WidthAssumption, PowOfTen
  <2>10. PICK frac \in Nat, whole \in Nat : frac = part * g /\ whole = int * f
    BY <2>9, SMTT(30)
  <2>11. DecimalWorth = IF p = 2 THEN -(whole + frac) ELSE whole + frac
    <3>1. DecimalWorth = Sign * (whole + frac)
      BY <2>6, <2>7, <2>8, <2>9, <2>10 DEF DecimalWorth
    <3>2. Sign = IF p = 2 THEN -1 ELSE 1
      BY <1>1, Beginning
    <3>3. (-1) * (whole + frac) = -(whole + frac) /\ 1 * (whole + frac) = whole + frac
      OBVIOUS
    <3> QED
      BY <3>1, <3>2, <3>3
  <2>12. Accumulate(SubSeq(text, p, dot - 1), MaxLong) = IF int <= MaxLong THEN int ELSE Overflow
    BY <2>4, <2>5, <2>6, AccumulateIs, Widths
  <2>13. ASSUME int > MaxLong PROVE DecimalWorth \notin Long
    <3>1. f >= 10
      <4>1. FracDigits - 1 \in Nat /\ (FracDigits - 1) + 1 = FracDigits
        BY WidthAssumption
      <4>2. PICK h \in Nat \ {0} : h = Pow(10, FracDigits - 1) /\ Pow(10, (FracDigits - 1) + 1) = h * 10
        BY <4>1, PowOfTen
      <4>3. h * 10 >= 10
        OBVIOUS
      <4> QED
        BY <2>9, <4>1, <4>2, <4>3
    <3>2. whole >= int * 10
      BY <2>10, <3>1, SMTT(30)
    <3>3. whole > MaxLong + 1
      BY <2>13, <3>2, Widths
    <3> QED
      BY <2>11, <3>3, Widths DEF Long
  <2>14. int <= MaxLong => DecimalAt(text, p, dot, end) = ScaledValue(Scaled(p = 2, int, frac))
    <3>1. FracDigits - (end - dot - 1) = rest
      BY <2>8
    <3>2. int # Overflow
      BY Widths
    <3> QED
      BY <1>6, <2>4, <2>6, <2>9, <2>10, <2>12, <3>1, <3>2
         DEF DecimalAt, DecimalGuards, DecimalOf
  <2>15. int > MaxLong => DecimalAt(text, p, dot, end) = ErrorValue
    BY <2>12, Widths DEF DecimalAt
  <2>16. Scaled(p = 2, int, frac) = IF DecimalWorth \in Long THEN DecimalWorth ELSE Overflow
    <3>1. CASE p = 2
      BY <2>9, <2>10, <2>11, <3>1, ScaledDown
    <3>2. CASE p # 2
      BY <2>9, <2>10, <2>11, <3>2, ScaledUp
    <3> QED
      BY <3>1, <3>2
  <2>17. ScaledValue(Scaled(p = 2, int, frac)) =
           IF DecimalWorth \in Long THEN DecimalValue(DecimalWorth) ELSE ErrorValue
    BY <2>16, Widths DEF ScaledValue
  <2>18. int <= MaxLong \/ int > MaxLong
    BY Widths
  <2> QED
    BY <1>4, <2>1, <2>13, <2>14, <2>15, <2>17, <2>18
<1> QED
  BY <1>5, <1>6
-----------------------------------------------------------------------------
(***************************************************************************)
(* The parts of a duration: behind a boundary b, which is the start of the *)
(* text or the end of a part, there are digits, and from u to e letters.   *)
(***************************************************************************)
Boundaries == {Start - 1} \cup PartEnds

PartAt(b, u, e) ==
  /\ b \in Boundaries /\ u \in b + 1 .. Len(text) /\ e \in u .. Len(text)
  /\ \A r \in b + 1 .. u - 1 : text[r] \in Digit
  /\ text[u] \notin Digit
  /\ \A k \in u .. e - 1 : k \notin PartEnds

LEMMA BoundariesType ==
  ASSUME text \in Texts0
  PROVE  /\ PartEnds \subseteq Start .. Len(text)
         /\ Boundaries \subseteq Start - 1 .. Len(text)
         /\ \A b \in Boundaries : b >= Start => b \in PartEnds
<1>1. PICK n \in Nat : n = Len(text)
  BY DEF Texts0
<1>2. Start \in {1, 2} /\ Start \in 1 .. n + 1
  BY <1>1, Beginning
<1>3. PartEnds \subseteq Start .. n
  BY <1>1 DEF PartEnds
<1> QED
  BY <1>1, <1>2, <1>3 DEF Boundaries

LEMMA PartParts ==
  ASSUME text \in Texts0, NEW b, NEW u, NEW e, PartAt(b, u, e)
  PROVE  /\ Number(e) = SubSeq(text, b + 1, u - 1)
         /\ Number(e) \in Seq(Digit) /\ Len(Number(e)) = u - (b + 1)
         /\ Unit(e) = SubSeq(text, u, e)
<1>1. PICK n \in Nat : n = Len(text)
  BY DEF Texts0
<1>2. b \in Start - 1 .. n /\ b \in Boundaries /\ u \in b + 1 .. n /\ e \in u .. n /\ Start \in {1, 2}
  BY <1>1, BoundariesType, Beginning DEF PartAt
<1>3. PartStart(e) = b + 1
  <2> DEFINE S == {Start - 1} \cup {k \in PartEnds : k < e}
  <2>1. b \in S
    BY <1>2 DEF Boundaries
  <2>2. ASSUME NEW k \in S PROVE b >= k
    <3>1. CASE k = Start - 1
      BY <1>2, <3>1
    <3>2. CASE k # Start - 1
      <4>1. k \in PartEnds /\ k < e /\ k \in Start .. n
        BY <1>1, <3>2, BoundariesType
      <4>2. k \notin u .. e - 1
        BY <4>1 DEF PartAt
      <4>3. k \notin b + 1 .. u - 1
        BY <4>1 DEF PartAt, PartEnds
      <4> QED
        BY <1>2, <4>1, <4>2, <4>3
    <3> QED
      BY <3>1, <3>2
  <2>3. ASSUME NEW x \in S, \A y \in S : x >= y PROVE x = b
    <3>1. x >= b /\ b >= x
      BY <2>1, <2>2, <2>3
    <3>2. x \in Int /\ b \in Int
      <4>1. PartEnds \subseteq Int
        BY <1>1, <1>2, BoundariesType
      <4> QED
        BY <1>2, <4>1
    <3> QED
      BY <3>1, <3>2
  <2>4. Max(S) = b
    <3> HIDE DEF S
    <3> QED
      BY <2>1, <2>2, <2>3 DEF Max
  <2>5. 1 + b = b + 1
    BY <1>2
  <2> QED
    BY <2>4, <2>5 DEF PartStart
<1>4. Letter(e) = u
  <2> DEFINE S == {k \in (b + 1) .. e : text[k] \notin Digit}
  <2>1. u \in S
    BY <1>2 DEF PartAt
  <2>2. ASSUME NEW k \in S PROVE u <= k
    <3>1. k \notin b + 1 .. u - 1
      BY DEF PartAt
    <3> QED
      BY <1>2, <3>1
  <2>3. S \subseteq Int
    BY <1>2
  <2>4. First(S) = u
    <3> HIDE DEF S
    <3>1. ASSUME NEW x \in S, \A y \in S : x <= y PROVE x = u
      <4>1. x <= u /\ u <= x /\ x \in Int /\ u \in Int
        BY <2>1, <2>2, <2>3, <3>1
      <4> QED
        BY <4>1
    <3> QED
      BY <2>1, <2>2, <3>1 DEF First
  <2> QED
    BY <1>3, <2>4 DEF Letter
<1>5. b + 1 \in 1 .. Len(text) + 1 /\ u \in b + 1 .. Len(text) + 1
  BY <1>1, <1>2
<1>6. \A r \in b + 1 .. u - 1 : text[r] \in Digit
  BY DEF PartAt
<1>7. SubSeq(text, b + 1, u - 1) \in Seq(Digit) /\ Len(SubSeq(text, b + 1, u - 1)) = u - (b + 1)
  BY <1>5, <1>6, PieceType
<1> QED
  BY <1>3, <1>4, <1>7 DEF Number, Unit

(***************************************************************************)
(* There is a part in front of each end, and one behind each boundary.     *)
(***************************************************************************)
LEMMA PartBefore ==
  ASSUME text \in Texts0, NEW e \in PartEnds
  PROVE  \E b, u : PartAt(b, u, e)
<1>1. PICK n \in Nat : n = Len(text)
  BY DEF Texts0
<1>2. /\ Start \in {1, 2} /\ text \in Seq(0 .. Junk)
      /\ e \in Start .. n /\ text[e] \notin Digit /\ PartEnds \subseteq Start .. n
  BY <1>1, Beginning DEF PartEnds, Texts0
<1> DEFINE Back == {d \in 1 .. n : e - d \in Boundaries}
<1>3. Back \subseteq Nat /\ e - (Start - 1) \in Back
  <2>1. e - (e - (Start - 1)) = Start - 1 /\ e - (Start - 1) \in 1 .. n
    BY <1>2
  <2> QED
    BY <2>1 DEF Boundaries
<1>4. PICK d \in Back : \A c \in Back : d <= c
  <2> HIDE DEF Back
  <2> QED
    BY <1>3, LeastNumber
<1>5. PICK b : b = e - d
  OBVIOUS
<1>6. b \in Boundaries /\ b < e /\ b \in Start - 1 .. n /\ b \in Int
  BY <1>1, <1>2, <1>4, <1>5, BoundariesType
<1>7. ASSUME NEW k \in b + 1 .. e - 1 PROVE k \notin PartEnds
  <2>1. e - k \in 1 .. n /\ e - k < d /\ e - (e - k) = k
    BY <1>2, <1>4, <1>5, <1>6
  <2>2. e - k \notin Back
    BY <1>4, <2>1
  <2>3. k \notin Boundaries
    BY <2>1, <2>2
  <2> QED
    BY <2>3 DEF Boundaries
<1>8. PICK u : u = RunEnd(text, b + 1, Digit)
  OBVIOUS
<1>9. EndsRun(text, b + 1, Digit, u)
  <2>1. b + 1 \in 1 .. Len(text) + 1
    BY <1>1, <1>2, <1>6
  <2> QED
    BY <1>2, <1>8, <2>1, RunEnds
<1>10. u \in b + 1 .. n + 1
  BY <1>1, <1>9 DEF EndsRun
<1>11. u <= e
  <2>1. SUFFICES ASSUME u > e PROVE FALSE
    BY <1>2, <1>6, <1>10
  <2>2. e \in b + 1 .. u - 1
    BY <1>2, <1>6, <1>10, <2>1
  <2> QED
    BY <1>2, <1>9, <2>2 DEF EndsRun
<1>12. u \in b + 1 .. n /\ e \in u .. n /\ \A k \in u .. e - 1 : k \in b + 1 .. e - 1
  BY <1>2, <1>6, <1>10, <1>11
<1>13. text[u] \notin Digit /\ \A r \in b + 1 .. u - 1 : text[r] \in Digit
  BY <1>1, <1>9, <1>12 DEF EndsRun
<1> QED
  BY <1>1, <1>6, <1>7, <1>12, <1>13 DEF PartAt

LEMMA PartAfter ==
  ASSUME text \in Texts0, Len(text) \in PartEnds, NEW b \in Boundaries, b < Len(text)
  PROVE  \E e \in PartEnds : PartAt(b, RunEnd(text, b + 1, Digit), e)
<1>1. PICK n \in Nat : n = Len(text)
  BY DEF Texts0
<1>2. /\ Start \in {1, 2} /\ text \in Seq(0 .. Junk)
      /\ b \in Start - 1 .. n /\ b \in Int /\ PartEnds \subseteq Start .. n /\ PartEnds \subseteq Nat
  BY <1>1, Beginning, BoundariesType DEF Texts0
<1> DEFINE Ahead == {k \in PartEnds : k > b}
<1>3. Ahead \subseteq Nat /\ n \in Ahead
  BY <1>1, <1>2
<1>4. PICK e \in Ahead : \A k \in Ahead : e <= k
  <2> HIDE DEF Ahead
  <2> QED
    BY <1>3, LeastNumber
<1>5. e \in PartEnds /\ e \in b + 1 .. n /\ text[e] \notin Digit
  BY <1>2, <1>4 DEF PartEnds
<1>6. PICK u : u = RunEnd(text, b + 1, Digit)
  OBVIOUS
<1>7. EndsRun(text, b + 1, Digit, u)
  <2>1. b + 1 \in 1 .. Len(text) + 1
    BY <1>1, <1>2
  <2> QED
    BY <1>2, <1>6, <2>1, RunEnds
<1>8. u \in b + 1 .. n + 1
  BY <1>1, <1>7 DEF EndsRun
<1>9. u <= e
  <2>1. SUFFICES ASSUME u > e PROVE FALSE
    BY <1>2, <1>5, <1>8
  <2>2. e \in b + 1 .. u - 1
    BY <1>2, <1>5, <1>8, <2>1
  <2> QED
    BY <1>5, <1>7, <2>2 DEF EndsRun
<1>10. u \in b + 1 .. n /\ e \in u .. n
  BY <1>2, <1>5, <1>8, <1>9
<1>11. ASSUME NEW k \in u .. e - 1 PROVE k \notin PartEnds
  <2>1. k > b /\ k < e
    BY <1>2, <1>10
  <2>2. k \notin Ahead
    BY <1>2, <1>4, <1>5, <2>1
  <2> QED
    BY <2>1, <2>2
<1>12. text[u] \notin Digit /\ \A r \in b + 1 .. u - 1 : text[r] \in Digit
  BY <1>1, <1>7, <1>10 DEF EndsRun
<1>13. PartAt(b, u, e)
  BY <1>1, <1>10, <1>11, <1>12 DEF PartAt
<1> QED
  BY <1>5, <1>6, <1>13

(***************************************************************************)
(* The units, and how the reader finds them.                               *)
(***************************************************************************)
LEMMA FactorsPositive == \A k \in 1 .. 5 : UnitFactor[k] \in Nat \ {0}
<1>1. /\ MsDigits \in Nat /\ HoursPerDay \in Nat \ {0} /\ MinutesPerHour \in Nat \ {0}
      /\ SecondsPerMinute \in Nat \ {0}
  BY WidthAssumption
<1>2. SecondMs \in Nat \ {0}
  BY <1>1, PowOfTen DEF SecondMs
<1> HIDE DEF SecondMs
<1>3. MinuteMs \in Nat \ {0}
  BY <1>1, <1>2, SMTT(30) DEF MinuteMs
<1> HIDE DEF MinuteMs
<1>4. HourMs \in Nat \ {0}
  BY <1>1, <1>3, SMTT(30) DEF HourMs
<1> HIDE DEF HourMs
<1>5. DayMs \in Nat \ {0}
  BY <1>1, <1>4, SMTT(30) DEF DayMs
<1> HIDE DEF DayMs
<1> QED
  BY <1>2, <1>3, <1>4, <1>5 DEF UnitFactor

LEMMA UnitsDiffer ==
  /\ DOMAIN Units = 1 .. 5
  /\ \A j \in 1 .. 5, k \in 1 .. 5 : Units[j] = Units[k] => j = k
<1>1. LetterD # LetterH /\ LetterD # LetterM /\ LetterD # LetterS /\ LetterH # LetterM
      /\ LetterH # LetterS /\ LetterM # LetterS
  BY DEF LetterD, LetterH, LetterM, LetterS
<1>2. DOMAIN Units = 1 .. 5
  BY DEF Units
<1>3. /\ Len(Units[1]) = 1 /\ Units[1][1] = LetterD
      /\ Len(Units[2]) = 1 /\ Units[2][1] = LetterH
      /\ Len(Units[3]) = 1 /\ Units[3][1] = LetterM
      /\ Len(Units[4]) = 1 /\ Units[4][1] = LetterS
      /\ Len(Units[5]) = 2
  BY DEF Units
<1>4. ASSUME NEW j \in 1 .. 5, NEW k \in 1 .. 5, Units[j] = Units[k] PROVE j = k
  <2>1. Len(Units[j]) = Len(Units[k]) /\ Units[j][1] = Units[k][1]
    BY <1>4
  <2>2. k = 1 \/ k = 2 \/ k = 3 \/ k = 4 \/ k = 5
    OBVIOUS
  <2>3. CASE j = 1
    BY <1>1, <1>3, <2>1, <2>2, <2>3
  <2>4. CASE j = 2
    BY <1>1, <1>3, <2>1, <2>2, <2>4
  <2>5. CASE j = 3
    BY <1>1, <1>3, <2>1, <2>2, <2>5
  <2>6. CASE j = 4
    BY <1>1, <1>3, <2>1, <2>2, <2>6
  <2>7. CASE j = 5
    BY <1>3, <2>1, <2>2, <2>7
  <2> QED
    BY <2>3, <2>4, <2>5, <2>6, <2>7
<1> QED
  BY <1>2, <1>4

LEMMA RankIs ==
  ASSUME NEW e, NEW k \in 1 .. 5, Unit(e) = Units[k]
  PROVE  Rank(e) = k /\ Unit(e) \in Range(Units)
<1>1. {j \in DOMAIN Units : Units[j] = Unit(e)} = {k}
  BY UnitsDiffer
<1>2. First({k}) = k
  BY FirstOfOne
<1>3. Unit(e) \in Range(Units)
  BY UnitsDiffer DEF Range
<1> QED
  BY <1>1, <1>2, <1>3 DEF Rank

\* The letters from u to e are a unit, and so the reader finds it.
LEMMA UnitFound ==
  ASSUME text \in Texts0, NEW u, NEW e \in PartEnds, u \in 1 .. e,
         NEW k \in 1 .. 5, SubSeq(text, u, e) = Units[k]
  PROVE  UnitAt(text, u) = [stage |-> k, len |-> (e - u) + 1]
<1>1. PICK n \in Nat : n = Len(text)
  BY DEF Texts0
<1>2. /\ u \in Int /\ e \in Int /\ u <= e /\ e <= n /\ 1 <= u /\ DOMAIN text = 1 .. n
      /\ \A i \in u .. e : text[i] \in 0 .. Junk
  <2>1. e \in 1 .. n /\ e \in Int
    BY <1>1, BoundariesType, Beginning
  <2>2. u \in Int /\ u <= e /\ 1 <= u /\ e <= n
    BY <2>1
  <2>3. \A i \in u .. e : i \in 1 .. n
    BY <2>1, <2>2
  <2>4. text \in Seq(0 .. Junk)
    BY DEF Texts0
  <2>5. DOMAIN text = 1 .. n
    BY <1>1, <2>4
  <2>6. \A i \in 1 .. n : text[i] \in 0 .. Junk
    BY <1>1, <2>4, ElementOfSeq
  <2> QED
    BY <2>1, <2>2, <2>3, <2>5, <2>6
<1>3. /\ Len(SubSeq(text, u, e)) = (e - u) + 1
      /\ \A i \in 1 .. (e - u) + 1 : SubSeq(text, u, e)[i] = text[(u + i) - 1]
  BY <1>2, SubSeqProperties
<1>4. SubSeq(text, u, e)[1] = text[u]
  <2>1. 1 \in 1 .. (e - u) + 1 /\ (u + 1) - 1 = u
    BY <1>2
  <2> QED
    BY <1>3, <2>1
<1>5. e < n => text[e + 1] \in Digit
  BY <1>1 DEF PartEnds
<1>6. /\ LetterD # LetterH /\ LetterD # LetterM /\ LetterD # LetterS /\ LetterH # LetterM
      /\ LetterH # LetterS /\ LetterM # LetterS /\ LetterS \notin Digit
  BY DEF LetterD, LetterH, LetterM, LetterS, Digit
<1>7. \A c : At(text, u, c) <=> text[u] = c
  BY <1>1, <1>2 DEF At
<1>8. k \in {1, 2, 3, 4, 5}
  OBVIOUS
<1>9. CASE k # 5
  <2>1. Len(Units[k]) = 1
    BY <1>8, <1>9 DEF Units
  <2>2. e = u
    BY <1>2, <1>3, <2>1
  <2>3. ~At(text, u + 1, LetterS)
    BY <1>2, <1>5, <1>6, <2>2 DEF At
  <2>4. text[u] = Units[k][1]
    BY <1>4
  <2>5. /\ k = 1 => text[u] = LetterD
        /\ k = 2 => text[u] = LetterH
        /\ k = 3 => text[u] = LetterM
        /\ k = 4 => text[u] = LetterS
    BY <2>4 DEF Units
  <2>6. (e - u) + 1 = 1
    BY <1>2, <2>2
  <2> QED
    BY <1>6, <1>7, <1>8, <1>9, <2>3, <2>5, <2>6 DEF UnitAt
<1>10. CASE k = 5
  <2>1. Len(Units[k]) = 2 /\ Units[k][1] = LetterM /\ Units[k][2] = LetterS
    BY <1>10 DEF Units
  <2>2. e = u + 1 /\ (e - u) + 1 = 2
    <3>1. Len(SubSeq(text, u, e)) = 2
      BY <2>1
    <3>2. (e - u) + 1 = 2
      BY <1>3, <3>1
    <3> QED
      BY <1>2, <3>2
  <2>3. 2 \in 1 .. (e - u) + 1 /\ (u + 2) - 1 = u + 1
    BY <1>2, <2>2
  <2>4. SubSeq(text, u, e)[2] = text[u + 1]
    BY <1>3, <2>3
  <2>5. text[u + 1] = LetterS
    BY <2>1, <2>4
  <2>6. At(text, u + 1, LetterS) /\ text[u] = LetterM
    BY <1>2, <1>4, <2>1, <2>2, <2>5 DEF At
  <2> QED
    BY <1>6, <1>7, <1>10, <2>2, <2>6 DEF UnitAt
<1> QED
  BY <1>9, <1>10

\* What the reader finds is a unit: a letter, or two of which the second is no digit.
LEMMA FoundUnit ==
  ASSUME text \in Texts0, NEW u \in Int, NEW found, found = UnitAt(text, u), found.stage # 0
  PROVE  /\ found.stage \in 1 .. 5 /\ found.len \in {1, 2}
         /\ u \in 1 .. Len(text) /\ (u + found.len) - 1 \in u .. Len(text)
         /\ SubSeq(text, u, (u + found.len) - 1) = Units[found.stage]
         /\ text[(u + found.len) - 1] \notin Digit
         /\ found.len = 2 => text[u + 1] \notin Digit
<1>1. PICK n \in Nat : n = Len(text)
  BY DEF Texts0
<1>2. DOMAIN text = 1 .. n /\ text \in Seq(0 .. Junk)
  BY <1>1 DEF Texts0
<1>3. {LetterD, LetterH, LetterM, LetterS} \cap Digit = {}
  BY Characters
<1>4. \/ At(text, u, LetterD) /\ found = [stage |-> 1, len |-> 1]
      \/ At(text, u, LetterH) /\ found = [stage |-> 2, len |-> 1]
      \/ At(text, u, LetterM) /\ found = [stage |-> 3, len |-> 1]
      \/ At(text, u, LetterS) /\ found = [stage |-> 4, len |-> 1]
      \/ At(text, u, LetterM) /\ At(text, u + 1, LetterS) /\ found = [stage |-> 5, len |-> 2]
  <2>1. \/ At(text, u, LetterD) \/ At(text, u, LetterH) \/ At(text, u, LetterM) \/ At(text, u, LetterS)
    BY DEF UnitAt
  <2>2. /\ LetterD # LetterH /\ LetterD # LetterM /\ LetterD # LetterS /\ LetterH # LetterM
        /\ LetterH # LetterS /\ LetterM # LetterS
    BY DEF LetterD, LetterH, LetterM, LetterS
  <2>3. \A c, d : At(text, u, c) /\ At(text, u, d) => c = d
    BY DEF At
  <2> QED
    BY <2>1, <2>2, <2>3 DEF UnitAt
<1>5. u \in 1 .. n
  BY <1>2, <1>4 DEF At
<1>6. CASE found.len = 1
  <2>1. SubSeq(text, u, u) = <<text[u]>>
    <3>1. u \in 1 .. Len(text) /\ u \in u .. Len(text) /\ u + 1 \in Int /\ u < u + 1
      BY <1>1, <1>5
    <3>2. SubSeq(text, u, u) = <<text[u]>> \o SubSeq(text, u + 1, u)
      BY <1>2, <3>1, SubSeqRecursiveFirst
    <3>3. SubSeq(text, u + 1, u) = <<>>
      BY <3>1, SubSeqEmpty
    <3>4. text[u] \in 0 .. Junk
      BY <1>2, <3>1, ElementOfSeq
    <3>5. <<text[u]>> \in Seq(0 .. Junk)
      BY <3>4
    <3> QED
      BY <3>2, <3>3, <3>5, ConcatEmptySeq
  <2>2. (u + found.len) - 1 = u
    BY <1>5, <1>6
  <2>3. found.stage \in 1 .. 4 /\ Units[found.stage] = <<text[u]>> /\ text[u] \notin Digit
    BY <1>3, <1>4, <1>6 DEF At, Units
  <2> QED
    BY <1>1, <1>5, <1>6, <2>1, <2>2, <2>3
<1>7. CASE found.len = 2
  <2>1. /\ text[u] = LetterM /\ text[u + 1] = LetterS /\ found.stage = 5 /\ u + 1 \in 1 .. n
        /\ (u + found.len) - 1 = u + 1
    BY <1>2, <1>4, <1>5, <1>7 DEF At
  <2>2. SubSeq(text, u, u + 1) = <<LetterM, LetterS>>
    <3>1. u \in Int /\ u + 1 \in Int /\ \A i \in u .. u + 1 : text[i] \in 0 .. Junk
      <4>1. \A i \in u .. u + 1 : i \in 1 .. n
        BY <1>5, <2>1
      <4>2. \A i \in 1 .. n : text[i] \in 0 .. Junk
        BY <1>1, <1>2, ElementOfSeq
      <4> QED
        BY <1>5, <4>1, <4>2
    <3>2. PICK s \in Seq(0 .. Junk) : s = SubSeq(text, u, u + 1)
      BY <3>1, SubSeqProperties
    <3>3. Len(s) = 2 /\ s[1] = text[u] /\ s[2] = text[u + 1]
      <4>1. Len(s) = 2
        BY <3>1, <3>2, SubSeqProperties
      <4>2. \A i \in 1 .. ((u + 1) - u) + 1 : s[i] = text[(u + i) - 1]
        BY <3>1, <3>2, SubSeqProperties
      <4>3. (u + 1) - 1 = u /\ (u + 2) - 1 = u + 1 /\ 1 \in 1 .. ((u + 1) - u) + 1
            /\ 2 \in 1 .. ((u + 1) - u) + 1
        BY <1>5
      <4> QED
        BY <4>1, <4>2, <4>3
    <3>4. PICK t : t = <<LetterM, LetterS>>
      OBVIOUS
    <3>5. t \in Seq(0 .. Junk) /\ Len(t) = 2 /\ t[1] = LetterM /\ t[2] = LetterS
      BY <3>4, Characters
    <3>6. Len(s) = Len(t) /\ \A i \in 1 .. Len(s) : s[i] = t[i]
      BY <2>1, <3>3, <3>5
    <3> QED
      BY <3>2, <3>4, <3>5, <3>6, SeqEqual
  <2>3. Units[5] = <<LetterM, LetterS>>
    BY DEF Units
  <2> QED
    BY <1>1, <1>3, <1>5, <1>7, <2>1, <2>2, <2>3
<1>8. found.len \in {1, 2}
  BY <1>4
<1> QED
  BY <1>6, <1>7, <1>8

(***************************************************************************)
(* What a duration is worth is a sum that grows at the end of each part.   *)
(***************************************************************************)
LEMMA MagnitudeType ==
  ASSUME text \in Texts0, IsDuration, NEW e \in PartEnds
  PROVE  /\ Rank(e) \in 1 .. 5 /\ Unit(e) = Units[Rank(e)]
         /\ Magnitude(e) \in Nat
<1>1. PICK b, u : PartAt(b, u, e)
  BY PartBefore
<1>2. Number(e) \in Seq(Digit)
  BY <1>1, PartParts
<1>3. PICK k \in 1 .. 5 : Unit(e) = Units[k]
  <2>1. Unit(e) \in Range(Units)
    BY DEF IsDuration
  <2> QED
    BY <2>1, UnitsDiffer DEF Range
<1>4. Rank(e) = k
  BY <1>3, RankIs
<1>5. PICK h \in Nat, f \in Nat : h = Horner(Number(e), 10) /\ f = UnitFactor[k]
  <2>1. 0 \in Nat
    OBVIOUS
  <2> QED
    BY <1>2, <2>1, AccumulateIs, FactorsPositive
<1>6. h * f \in Nat
  BY <1>5, SMTT(30)
<1> QED
  BY <1>3, <1>4, <1>5, <1>6 DEF Magnitude

Sums(w, n) ==
  /\ w \in [0 .. n -> Nat] /\ w[0] = 0
  /\ \A k \in 0 .. n - 1 : w[k + 1] = IF k + 1 \in PartEnds THEN w[k] + Magnitude(k + 1) ELSE w[k]

LEMMA SumTable ==
  ASSUME text \in Texts0, IsDuration
  PROVE  \E w : Sums(w, Len(text)) /\ DurationWorth = w[Len(text)]
<1>1. PICK n \in Nat : n = Len(text)
  BY DEF Texts0
<1> DEFINE zero == 0
           Is(w) == w = [k \in 0 .. n |-> IF k = 0 THEN 0
                                          ELSE IF k \in PartEnds THEN w[k - 1] + Magnitude(k)
                                          ELSE w[k - 1]]
           onward == [k \in 0 .. n - 1 |->
                       [x \in Nat |-> IF k + 1 \in PartEnds THEN x + Magnitude(k + 1) ELSE x]]
<1>2. onward \in Steps(n, Nat)
  <2>1. \A e \in PartEnds : Magnitude(e) \in Nat
    BY MagnitudeType
  <2>2. \A k \in 0 .. n - 1, x \in Nat :
          (IF k + 1 \in PartEnds THEN x + Magnitude(k + 1) ELSE x) \in Nat
    BY <2>1
  <2> QED
    BY <2>2 DEF Steps
<1>3. zero \in Nat
  OBVIOUS
<1>4. PICK h : Stepwise(h, n, Nat, zero, onward)
  <2> HIDE DEF onward, zero
  <2> QED
    BY <1>2, <1>3, Recursion
<1>5. Sums(h, n)
  <2>1. /\ h \in [0 .. n -> Nat] /\ h[0] = 0
        /\ \A k \in 0 .. n - 1 : h[k + 1] = onward[k][h[k]]
    BY <1>4 DEF Stepwise
  <2>2. ASSUME NEW k \in 0 .. n - 1
        PROVE  h[k + 1] = IF k + 1 \in PartEnds THEN h[k] + Magnitude(k + 1) ELSE h[k]
    <3>1. h[k] \in Nat
      BY <2>1
    <3>2. onward[k][h[k]] = IF k + 1 \in PartEnds THEN h[k] + Magnitude(k + 1) ELSE h[k]
      BY <3>1
    <3> QED
      BY <2>1, <3>2
  <2> QED
    BY <2>1, <2>2 DEF Sums
<1>6. Is(h)
  <2>1. ASSUME NEW i \in 0 .. n, i # 0
        PROVE  h[i] = IF i \in PartEnds THEN h[i - 1] + Magnitude(i) ELSE h[i - 1]
    <3>1. i - 1 \in 0 .. n - 1 /\ (i - 1) + 1 = i
      BY <2>1
    <3> QED
      BY <1>5, <3>1 DEF Sums
  <2> QED
    BY <1>5, <2>1 DEF Sums
<1>7. PICK w : w = CHOOSE v : Is(v)
  OBVIOUS
<1>8. Is(w)
  <2> HIDE DEF Is
  <2> QED
    BY <1>6, <1>7
<1>9. DurationWorth = w[n]
  BY <1>1, <1>7 DEF DurationWorth
<1>10. \A i \in 0 .. n : w[i] = IF i = 0 THEN 0
                                ELSE IF i \in PartEnds THEN w[i - 1] + Magnitude(i) ELSE w[i - 1]
  BY <1>8
<1>11. DOMAIN w = 0 .. n /\ w = [k \in 0 .. n |-> w[k]]
  BY <1>8
<1>12. Stepwise(w, n, Nat, zero, onward)
  <2>1. w[0] = zero
    BY <1>10
  <2>2. ASSUME NEW k \in 0 .. n - 1, w[k] \in Nat PROVE w[k + 1] = onward[k][w[k]]
    <3>1. k + 1 \in 0 .. n /\ k + 1 # 0 /\ (k + 1) - 1 = k
      OBVIOUS
    <3>2. w[k + 1] = IF k + 1 \in PartEnds THEN w[k] + Magnitude(k + 1) ELSE w[k]
      BY <1>10, <3>1
    <3>3. onward[k][w[k]] = IF k + 1 \in PartEnds THEN w[k] + Magnitude(k + 1) ELSE w[k]
      BY <2>2
    <3> QED
      BY <3>2, <3>3
  <2> HIDE DEF onward, zero, Is
  <2> QED
    BY <1>2, <1>3, <1>11, <2>1, <2>2, StepwiseIs
<1>13. /\ w \in [0 .. n -> Nat] /\ w[0] = 0
       /\ \A k \in 0 .. n - 1 : w[k + 1] = onward[k][w[k]]
  BY <1>12 DEF Stepwise
<1>14. Sums(w, n)
  <2>1. ASSUME NEW k \in 0 .. n - 1
        PROVE  w[k + 1] = IF k + 1 \in PartEnds THEN w[k] + Magnitude(k + 1) ELSE w[k]
    <3>1. k + 1 \in 0 .. n /\ k + 1 # 0 /\ (k + 1) - 1 = k
      OBVIOUS
    <3> QED
      BY <1>10, <3>1
  <2> QED
    BY <1>13, <2>1 DEF Sums
<1> QED
  BY <1>1, <1>9, <1>14

LEMMA SumGrows ==
  ASSUME text \in Texts0, IsDuration, NEW n \in Nat, NEW w, Sums(w, n),
         NEW i \in 0 .. n, NEW j \in i .. n
  PROVE  /\ w[i] <= w[j]
         /\ (\A k \in i + 1 .. j : k \notin PartEnds) => w[j] = w[i]
<1>1. \A e \in PartEnds : Magnitude(e) \in Nat
  BY MagnitudeType
<1> DEFINE Grown(d) == /\ w[i] <= w[i + d]
                       /\ (\A k \in i + 1 .. i + d : k \notin PartEnds) => w[i + d] = w[i]
           T == {d \in 0 .. j - i : Grown(d)}
<1>2. 0 \in T
  <2>1. i + 0 = i /\ w[i] \in Nat /\ 0 \in 0 .. j - i
    BY DEF Sums
  <2> QED
    BY <2>1
<1>3. ASSUME NEW d \in 0 .. (j - i) - 1, d \in T PROVE d + 1 \in T
  <2>1. i + d \in 0 .. n - 1 /\ (i + d) + 1 = i + (d + 1) /\ i + d \in 0 .. n /\ d + 1 \in 0 .. j - i
    OBVIOUS
  <2>2. PICK x, y : x = i + d /\ y = i + (d + 1) /\ y = x + 1 /\ x \in 0 .. n - 1 /\ x \in 0 .. n
    BY <2>1
  <2>3. w[y] = (IF y \in PartEnds THEN w[x] + Magnitude(y) ELSE w[x]) /\ w[x] \in Nat /\ w[i] \in Nat
    BY <2>2 DEF Sums
  <2>4. w[i] <= w[x] /\ ((\A k \in i + 1 .. x : k \notin PartEnds) => w[x] = w[i])
    BY <1>3, <2>2
  <2>5. w[i] <= w[y]
    BY <1>1, <2>3, <2>4
  <2>6. (\A k \in i + 1 .. y : k \notin PartEnds) => w[y] = w[i]
    <3>1. y \in i + 1 .. y /\ \A k \in i + 1 .. x : k \in i + 1 .. y
      BY <2>2
    <3> QED
      BY <2>3, <2>4, <3>1
  <2> QED
    BY <2>1, <2>2, <2>5, <2>6
<1>4. \A d \in 0 .. j - i : d \in T
  <2>1. j - i \in Nat
    OBVIOUS
  <2> HIDE DEF T
  <2> QED
    BY <1>2, <1>3, <2>1, UpToNumber
<1>5. j - i \in 0 .. j - i /\ i + (j - i) = j
  OBVIOUS
<1> QED
  BY <1>4, <1>5

LEMMA SumOver ==
  ASSUME text \in Texts0, IsDuration, NEW n, n = Len(text), NEW w, Sums(w, n),
         NEW b, NEW u, NEW e \in PartEnds, PartAt(b, u, e)
  PROVE  /\ b \in 0 .. n /\ e \in 0 .. n
         /\ w[e] = w[b] + Magnitude(e)
<1>1. n \in Nat
  BY DEF Texts0
<1>2. b \in 0 .. n /\ b \in Int /\ u \in b + 1 .. n /\ e \in u .. n /\ e \in 1 .. n
  BY <1>1, BoundariesType, Beginning DEF PartAt
<1>3. PICK d : d = e - 1
  OBVIOUS
<1>4. d \in b .. n /\ d \in 0 .. n - 1 /\ d + 1 = e
  BY <1>1, <1>2, <1>3
<1>5. w[d] = w[b]
  <2>1. ASSUME NEW k \in b + 1 .. d PROVE k \notin PartEnds
    <3>1. k \in b + 1 .. u - 1 \/ k \in u .. e - 1
      BY <1>2, <1>3
    <3>2. k \in b + 1 .. u - 1 => text[k] \in Digit
      BY DEF PartAt
    <3>3. k \in u .. e - 1 => k \notin PartEnds
      BY DEF PartAt
    <3> QED
      BY <3>1, <3>2, <3>3 DEF PartEnds
  <2> QED
    BY <1>1, <1>2, <1>4, <2>1, SumGrows
<1>6. w[e] = w[d] + Magnitude(e)
  BY <1>4 DEF Sums
<1> QED
  BY <1>2, <1>5, <1>6

(***************************************************************************)
(* One turn of the reader of durations, and all of them.                   *)
(***************************************************************************)
Readings(n) ==
  {r \in [p : 0 .. n + 1, stage : 0 .. 5, total : Int] :
     r.total # Overflow => r.p >= 1 /\ r.total \in 0 .. MaxLong}

\* The sum after a turn that reads these digits and finds this unit.
Counted(read, u, found) == read.total + Horner(SubSeq(text, read.p, u - 1), 10) * UnitFactor[found.stage]

Countable(read, u, found) ==
  u # read.p /\ found.stage > read.stage /\ Counted(read, u, found) <= MaxLong

LEMMA QuantityStep ==
  ASSUME text \in Texts0, NEW n, n = Len(text), NEW read \in Readings(n),
         read.total # Overflow, read.p <= n,
         NEW u, u = RunEnd(text, read.p, Digit), NEW found, found = UnitAt(text, u)
  PROVE  /\ NextQuantity(text, read) \in Readings(n)
         /\ NextQuantity(text, read).total # Overflow <=> Countable(read, u, found)
         /\ Countable(read, u, found) =>
              NextQuantity(text, read) =
                [p |-> u + found.len, stage |-> found.stage, total |-> Counted(read, u, found)]
<1>1. n \in Nat /\ text \in Seq(0 .. Junk)
  BY DEF Texts0
<1>2. PICK p, stage, total : p = read.p /\ stage = read.stage /\ total = read.total
  OBVIOUS
<1>3. p \in 1 .. n /\ stage \in 0 .. 5 /\ total \in 0 .. MaxLong /\ p \in 1 .. n + 1
  BY <1>1, <1>2 DEF Readings
<1>4. EndsRun(text, p, Digit, u)
  BY <1>1, <1>2, <1>3, RunEnds
<1>5. u \in p .. n + 1 /\ u \in Int /\ \A r \in p .. u - 1 : text[r] \in Digit
  BY <1>1, <1>3, <1>4 DEF EndsRun
<1>6. SubSeq(text, p, u - 1) \in Seq(Digit)
  BY <1>1, <1>3, <1>5, PieceType
<1>7. PICK h \in Nat : h = Horner(SubSeq(text, p, u - 1), 10)
  <2>1. 0 \in Nat
    OBVIOUS
  <2> QED
    BY <1>6, <2>1, AccumulateIs
<1>8. PICK qty : qty = Accumulate(SubSeq(text, p, u - 1), MaxLong)
  OBVIOUS
<1>9. qty = IF h <= MaxLong THEN h ELSE Overflow
  BY <1>6, <1>7, <1>8, Widths, AccumulateIs
<1>10. NextQuantity(text, read) = AddQuantity(read, u, qty, found)
  <2>1. ~(read.total = Overflow \/ read.p > Len(text))
    BY <1>1, <1>2, <1>3
  <2> QED
    BY <1>2, <1>8, <2>1 DEF NextQuantity, QuantityUpTo
<1>11. /\ BadQuantity \in Readings(n) /\ BadQuantity.total = Overflow
  BY <1>1, Widths DEF BadQuantity, Readings
<1>12. CASE found.stage = 0
  <2>1. ~(found.stage > stage)
    BY <1>3, <1>12
  <2> QED
    BY <1>2, <1>10, <1>11, <1>12, <2>1 DEF AddQuantity, Countable
<1>13. CASE found.stage # 0
  <2>1. /\ found.stage \in 1 .. 5 /\ found.len \in {1, 2} /\ (u + found.len) - 1 \in u .. n
    BY <1>5, <1>13, FoundUnit
  <2>2. PICK f \in Nat \ {0} : f = UnitFactor[found.stage]
    BY <2>1, FactorsPositive
  <2>3. PICK g \in Nat : g = h * f
    <3>1. h * f \in Nat
      BY <2>2, SMTT(30)
    <3> QED
      BY <3>1
  <2>4. g >= h
    BY <2>2, <2>3, SMTT(30)
  <2>5. Counted(read, u, found) = total + g
    BY <1>2, <1>7, <2>2, <2>3 DEF Counted
  <2>6. PICK later : later = u + found.len
    OBVIOUS
  <2>7. later \in 1 .. n + 1
    BY <1>1, <1>3, <1>5, <2>1, <2>6
  <2>8. CASE u = p \/ found.stage <= stage \/ h > MaxLong
    <3>1. AddQuantity(read, u, qty, found) = BadQuantity
      <4>1. found.stage <= stage => ~StageAllows(read.stage, found)
        BY <1>2, <1>3, <2>1 DEF StageAllows
      <4>2. h > MaxLong => qty = Overflow
        BY <1>9, Widths
      <4> QED
        BY <1>2, <2>8, <4>1, <4>2 DEF AddQuantity
    <3>2. ~Countable(read, u, found)
      <4>1. h > MaxLong => total + g > MaxLong
        BY <1>3, <2>4, Widths
      <4>2. SUFFICES ASSUME Countable(read, u, found) PROVE FALSE
        OBVIOUS
      <4>3. u # p /\ found.stage > stage
        BY <1>2, <4>2 DEF Countable
      <4>4. total + g <= MaxLong
        BY <2>5, <4>2 DEF Countable
      <4> QED
        BY <1>3, <2>1, <2>3, <2>8, <4>1, <4>3, <4>4, Widths
    <3> QED
      BY <1>10, <1>11, <3>1, <3>2
  <2>9. CASE u # p /\ found.stage > stage /\ h <= MaxLong
    <3>1. PICK now : now = AddContribution(total, Checked(g))
      OBVIOUS
    <3>2. AddQuantity(read, u, qty, found) = [p |-> later, stage |-> found.stage, total |-> now]
      <4>1. StageAllows(read.stage, found)
        BY <1>2, <2>9 DEF StageAllows
      <4>2. qty = h /\ qty # Overflow
        BY <1>9, <2>9, Widths
      <4> QED
        BY <1>2, <1>13, <2>2, <2>3, <2>6, <2>9, <3>1, <4>1, <4>2 DEF AddQuantity
    <3>3. now = IF total + g <= MaxLong THEN total + g ELSE Overflow
      <4>1. g \in Long <=> g <= MaxLong
        BY Widths DEF Long
      <4>2. total + g \in Long <=> total + g <= MaxLong
        BY <1>3, Widths DEF Long
      <4>3. g > MaxLong => total + g > MaxLong
        BY <1>3, Widths
      <4>4. g # Overflow
        BY Widths
      <4>5. CASE g \in Long
        <5>1. Checked(g) = g /\ Checked(g) # Overflow
          BY <4>4, <4>5 DEF Checked
        <5>2. now = Checked(total + g)
          BY <3>1, <5>1 DEF AddContribution
        <5> QED
          BY <4>2, <5>2 DEF Checked
      <4>6. CASE g \notin Long
        <5>1. now = Overflow
          BY <3>1, <4>6 DEF AddContribution, Checked
        <5>2. total + g > MaxLong
          BY <4>1, <4>3, <4>6, Widths
        <5> QED
          BY <1>3, <5>1, <5>2, Widths
      <4> QED
        BY <4>5, <4>6
    <3>4. Countable(read, u, found) <=> total + g <= MaxLong
      BY <1>2, <2>5, <2>9 DEF Countable
    <3>5. now \in Int /\ (now # Overflow <=> total + g <= MaxLong)
          /\ (now # Overflow => now \in 0 .. MaxLong)
      BY <1>3, <3>3, Widths
    <3>6. [p |-> later, stage |-> found.stage, total |-> now] \in Readings(n)
      <4>1. later \in 0 .. n + 1 /\ later >= 1 /\ found.stage \in 0 .. 5
        BY <2>1, <2>7
      <4> QED
        BY <3>5, <4>1 DEF Readings
    <3> QED
      BY <1>10, <2>5, <2>6, <3>2, <3>3, <3>4, <3>5, <3>6
  <2> QED
    BY <1>3, <2>1, <2>8, <2>9, Widths
<1> QED
  BY <1>12, <1>13

Turns(f, n) ==
  /\ f \in [0 .. n -> Readings(n)]
  /\ f[0] = [p |-> Start, stage |-> 0, total |-> 0]
  /\ \A k \in 0 .. n - 1 : f[k + 1] = NextQuantity(text, f[k])

LEMMA QuantitiesAre ==
  ASSUME text \in Texts0, NEW n, n = Len(text)
  PROVE  \E f : Turns(f, n) /\ QuantitiesFrom(text, Start) = f[n]
<1>1. n \in Nat
  BY DEF Texts0
<1> DEFINE first == [p |-> Start, stage |-> 0, total |-> 0]
           Is(w) == w = [k \in 0 .. n |-> IF k = 0 THEN [p |-> Start, stage |-> 0, total |-> 0]
                                          ELSE NextQuantity(text, w[k - 1])]
           S == Readings(n)
           onward == [k \in 0 .. n - 1 |-> [r \in S |-> NextQuantity(text, r)]]
<1>2. first \in S
  BY <1>1, Beginning, Widths DEF Readings
<1>3. \A r \in S : NextQuantity(text, r) \in S
  <2>1. SUFFICES ASSUME NEW r \in S PROVE NextQuantity(text, r) \in S
    OBVIOUS
  <2>2. CASE r.total = Overflow \/ r.p > n
    BY <2>2 DEF NextQuantity
  <2>3. CASE ~(r.total = Overflow \/ r.p > n)
    <3>1. r.p <= n
      BY <1>1, <2>3 DEF Readings
    <3> QED
      BY <2>3, <3>1, QuantityStep
  <2> QED
    BY <2>2, <2>3
<1> HIDE DEF S
<1>4. onward \in Steps(n, S)
  BY <1>3 DEF Steps
<1>5. PICK h : Stepwise(h, n, S, first, onward)
  <2> HIDE DEF onward, first
  <2> QED
    BY <1>1, <1>2, <1>4, Recursion
<1>6. h \in [0 .. n -> S] /\ h[0] = first /\ \A k \in 0 .. n - 1 : h[k + 1] = NextQuantity(text, h[k])
  <2>1. /\ h \in [0 .. n -> S] /\ h[0] = first
        /\ \A k \in 0 .. n - 1 : h[k + 1] = onward[k][h[k]]
    BY <1>5 DEF Stepwise
  <2>2. ASSUME NEW k \in 0 .. n - 1 PROVE h[k + 1] = NextQuantity(text, h[k])
    <3>1. h[k] \in S
      BY <2>1
    <3>2. onward[k][h[k]] = NextQuantity(text, h[k])
      BY <3>1
    <3> QED
      BY <2>1, <3>2
  <2> HIDE DEF first
  <2> QED
    BY <2>1, <2>2
<1>7. Is(h)
  <2>1. ASSUME NEW i \in 0 .. n, i # 0 PROVE h[i] = NextQuantity(text, h[i - 1])
    <3>1. i - 1 \in 0 .. n - 1 /\ (i - 1) + 1 = i
      BY <2>1
    <3> QED
      BY <1>6, <3>1
  <2> QED
    BY <1>6, <2>1
<1>8. PICK w : w = CHOOSE v : Is(v)
  OBVIOUS
<1>9. Is(w)
  <2> HIDE DEF Is
  <2> QED
    BY <1>7, <1>8
<1>10. QuantitiesFrom(text, Start) = w[n]
  BY <1>8 DEF QuantitiesFrom
<1>11. w[0] = first /\ \A k \in 0 .. n - 1 : w[k + 1] = NextQuantity(text, w[k])
  <2>1. \A i \in 0 .. n : w[i] = IF i = 0 THEN [p |-> Start, stage |-> 0, total |-> 0]
                                 ELSE NextQuantity(text, w[i - 1])
    BY <1>9
  <2>2. ASSUME NEW k \in 0 .. n - 1 PROVE w[k + 1] = NextQuantity(text, w[k])
    <3>1. k + 1 \in 0 .. n /\ k + 1 # 0 /\ (k + 1) - 1 = k
      OBVIOUS
    <3> HIDE DEF Is
    <3> QED
      BY <2>1, <3>1
  <2>3. w[0] = first
    BY <1>1, <2>1
  <2> QED
    BY <2>2, <2>3
<1>12. DOMAIN w = 0 .. n /\ w = [k \in 0 .. n |-> w[k]]
  BY <1>9
<1>13. Stepwise(w, n, S, first, onward)
  <2>1. ASSUME NEW k \in 0 .. n - 1, w[k] \in S PROVE w[k + 1] = onward[k][w[k]]
    BY <1>11, <2>1
  <2> HIDE DEF onward, first, Is
  <2> QED
    BY <1>1, <1>2, <1>4, <1>11, <1>12, <2>1, StepwiseIs
<1>14. Turns(w, n)
  <2>1. w \in [0 .. n -> S]
    BY <1>13 DEF Stepwise
  <2> QED
    BY <1>11, <2>1 DEF Turns, S
<1> QED
  BY <1>10, <1>14

LEMMA TurnsProgress ==
  ASSUME text \in Texts0, NEW n, n = Len(text), NEW f, Turns(f, n)
  PROVE  f[n].total = Overflow \/ f[n].p = n + 1
<1>1. n \in Nat
  BY DEF Texts0
<1> DEFINE T == {k \in 0 .. n : f[k].total = Overflow \/ f[k].p > n \/ f[k].p >= Start + k}
<1>2. 0 \in T
  <2>1. f[0].p = Start /\ Start \in {1, 2}
    BY Beginning DEF Turns
  <2> QED
    BY <1>1, <2>1
<1>3. ASSUME NEW k \in 0 .. n - 1, k \in T PROVE k + 1 \in T
  <2>1. PICK read \in Readings(n) : read = f[k] /\ f[k + 1] = NextQuantity(text, read)
    <3>1. f[k] \in Readings(n) /\ f[k + 1] = NextQuantity(text, f[k])
      <4>1. k \in 0 .. n
        OBVIOUS
      <4> HIDE DEF T
      <4> QED
        BY <4>1 DEF Turns
    <3> QED
      BY <3>1
  <2>2. k + 1 \in 0 .. n
    OBVIOUS
  <2>3. CASE read.total = Overflow \/ read.p > n
    <3>1. NextQuantity(text, read) = read
      BY <2>3 DEF NextQuantity
    <3> QED
      BY <2>1, <2>2, <2>3, <3>1
  <2>4. CASE ~(read.total = Overflow \/ read.p > n)
    <3>1. read.p <= n /\ read.p \in Int /\ read.p >= Start + k /\ read.p \in 1 .. n + 1
      BY <1>1, <1>3, <2>1, <2>4 DEF Readings
    <3>2. PICK u, found : u = RunEnd(text, read.p, Digit) /\ found = UnitAt(text, u)
      OBVIOUS
    <3>3. /\ NextQuantity(text, read).total # Overflow <=> Countable(read, u, found)
          /\ Countable(read, u, found) =>
              NextQuantity(text, read) =
                [p |-> u + found.len, stage |-> found.stage, total |-> Counted(read, u, found)]
      BY <2>4, <3>1, <3>2, QuantityStep
    <3>4. Countable(read, u, found) => u + found.len >= Start + (k + 1)
      <4>1. SUFFICES ASSUME Countable(read, u, found) PROVE u + found.len >= Start + (k + 1)
        OBVIOUS
      <4>2. EndsRun(text, read.p, Digit, u)
        BY <3>1, <3>2, RunEnds DEF Texts0
      <4>3. u \in read.p .. n + 1 /\ u \in Int
        BY <1>1, <3>1, <4>2 DEF EndsRun
      <4>4. found.stage > read.stage /\ read.stage \in 0 .. 5
        BY <4>1 DEF Countable, Readings
      <4>5. found.stage # 0
        BY <4>4
      <4>6. found.len \in {1, 2}
        BY <3>2, <4>3, <4>5, FoundUnit
      <4>7. Start \in {1, 2}
        BY Beginning
      <4> QED
        BY <3>1, <4>3, <4>6, <4>7
    <3>5. f[k + 1].total = Overflow \/ f[k + 1].p >= Start + (k + 1)
      BY <2>1, <3>3, <3>4
    <3> QED
      BY <2>2, <3>5
  <2> QED
    BY <2>3, <2>4
<1>4. n \in T
  <2>1. \A k \in 0 .. n : k \in T
    <3> HIDE DEF T
    <3> QED
      BY <1>1, <1>2, <1>3, UpToNumber
  <2> QED
    BY <1>1, <2>1
<1>5. f[n] \in Readings(n)
  BY <1>1 DEF Turns
<1>6. f[n].p \in 0 .. n + 1
  BY <1>5 DEF Readings
<1> QED
  BY <1>1, <1>4, <1>6, Beginning

(***************************************************************************)
(* A duration is read up to the end of one of its parts, and what has been *)
(* read is the sum of the parts up to there.                               *)
(***************************************************************************)
SumRead(r, w, n) ==
  \/ r.total = Overflow /\ w[n] > MaxLong
  \/ /\ r.total # Overflow
     /\ r.p - 1 \in Boundaries
     /\ r.stage = (IF r.p - 1 < Start THEN 0 ELSE Rank(r.p - 1))
     /\ r.total = w[r.p - 1]

LEMMA DurationStep ==
  ASSUME text \in Texts0, IsDuration, NEW n, n = Len(text), NEW w, Sums(w, n),
         NEW r \in Readings(n), SumRead(r, w, n), r.total # Overflow, r.p <= n
  PROVE  SumRead(NextQuantity(text, r), w, n)
<1>1. n \in Nat /\ n \in PartEnds
  BY DEF Texts0, IsDuration
<1>2. PICK b : b = r.p - 1
  OBVIOUS
<1>3. /\ r.p \in 1 .. n /\ b \in Int /\ b + 1 = r.p /\ b < n /\ b \in Boundaries
      /\ r.stage = (IF b < Start THEN 0 ELSE Rank(b)) /\ r.total = w[b]
  BY <1>1, <1>2 DEF Readings, SumRead
<1>4. PICK u : u = RunEnd(text, r.p, Digit)
  OBVIOUS
<1>5. PICK e \in PartEnds : PartAt(b, u, e)
  BY <1>1, <1>3, <1>4, PartAfter
<1>6. Number(e) = SubSeq(text, r.p, u - 1) /\ Len(Number(e)) = u - r.p /\ Unit(e) = SubSeq(text, u, e)
  BY <1>3, <1>5, PartParts
<1>7. PICK k \in 1 .. 5 : k = Rank(e) /\ Unit(e) = Units[k]
  BY MagnitudeType
<1>8. e \in 1 .. n /\ u \in 1 .. e /\ u \in Int /\ b < e /\ b \in 0 .. n /\ u \in r.p .. n
  <2>1. Start \in {1, 2} /\ e \in Start .. n /\ b \in Start - 1 .. n
    BY <1>1, <1>3, BoundariesType, Beginning
  <2> QED
    BY <1>1, <1>3, <1>5, <2>1 DEF PartAt
<1>9. PICK found : found = UnitAt(text, u)
  OBVIOUS
<1>10. found = [stage |-> k, len |-> (e - u) + 1]
  BY <1>6, <1>7, <1>8, <1>9, UnitFound
<1>11. found.stage = k /\ found.len = (e - u) + 1
  BY <1>10
<1>12. u # r.p
  <2>1. Number(e) # <<>>
    BY DEF IsDuration
  <2>2. Number(e) \in Seq(Digit)
    BY <1>5, PartParts
  <2>3. Len(Number(e)) # 0
    BY <2>1, <2>2
  <2> QED
    BY <1>3, <1>6, <1>8, <2>3, SMTT(30)
<1>13. found.stage > r.stage
  <2>1. CASE b < Start
    BY <1>3, <1>11, <2>1
  <2>2. CASE ~(b < Start)
    <3>1. b \in PartEnds
      <4>1. b >= Start
        BY <1>3, <2>2, Beginning
      <4> QED
        BY <1>3, <4>1, BoundariesType
    <3>2. Rank(b) < Rank(e)
      BY <1>5, <1>8, <3>1 DEF IsDuration
    <3>3. Rank(b) \in 1 .. 5
      BY <3>1, MagnitudeType
    <3> QED
      BY <1>3, <1>7, <1>11, <2>2, <3>2, <3>3
  <2> QED
    BY <2>1, <2>2
<1>14. Counted(r, u, found) = w[e]
  <2>1. w[e] = w[b] + Magnitude(e)
    BY <1>1, <1>5, SumOver
  <2> QED
    BY <1>3, <1>6, <1>7, <1>11, <2>1 DEF Counted, Magnitude
<1>15. w[e] \in Nat /\ w[n] \in Nat /\ w[e] <= w[n]
  <2>1. e \in 0 .. n /\ n \in e .. n /\ n \in 0 .. n
    BY <1>1, <1>8
  <2>2. w[e] <= w[n]
    BY <1>1, <2>1, SumGrows
  <2> QED
    BY <2>1, <2>2 DEF Sums
<1>16. PICK next : next = NextQuantity(text, r)
  OBVIOUS
<1>17. /\ next.total # Overflow <=> Countable(r, u, found)
       /\ Countable(r, u, found) =>
            next = [p |-> u + found.len, stage |-> found.stage, total |-> Counted(r, u, found)]
  BY <1>4, <1>9, <1>16, QuantityStep
<1>18. CASE w[e] <= MaxLong
  <2>1. Countable(r, u, found)
    BY <1>12, <1>13, <1>14, <1>18 DEF Countable
  <2>2. next.total # Overflow /\ next.p = u + found.len /\ next.stage = k /\ next.total = w[e]
    BY <1>14, <1>17, <1>11, <2>1
  <2>3. next.p - 1 = e
    BY <1>8, <1>11, <2>2
  <2>4. ~(e < Start) /\ e \in Boundaries
    BY <1>1, <1>5, <1>8, BoundariesType, Beginning DEF Boundaries
  <2> QED
    BY <1>7, <1>16, <2>2, <2>3, <2>4 DEF SumRead
<1>19. CASE ~(w[e] <= MaxLong)
  <2>1. ~Countable(r, u, found)
    BY <1>14, <1>19 DEF Countable
  <2>2. w[n] > MaxLong
    BY <1>15, <1>19, Widths
  <2> QED
    BY <1>16, <1>17, <2>1, <2>2 DEF SumRead
<1> QED
  BY <1>18, <1>19

LEMMA DurationRead ==
  ASSUME text \in Texts0, IsDuration
  PROVE  /\ DurationWorth \in Nat
         /\ TotalOf(QuantitiesFrom(text, Start)) =
              IF DurationWorth <= MaxLong THEN DurationWorth ELSE Overflow
<1>1. PICK n \in Nat : n = Len(text) /\ n \in PartEnds /\ Start <= n
  BY DEF Texts0, IsDuration
<1>2. PICK w : Sums(w, n) /\ DurationWorth = w[n]
  BY <1>1, SumTable
<1>3. PICK f : Turns(f, n) /\ QuantitiesFrom(text, Start) = f[n]
  BY <1>1, QuantitiesAre
<1>4. /\ Start \in {1, 2} /\ Start - 1 \in Boundaries /\ \A k \in 0 .. n : f[k] \in Readings(n)
      /\ w[n] \in Nat
  BY <1>1, <1>2, <1>3, Beginning, SMTT(30) DEF Boundaries, Turns, Sums
<1> DEFINE T == {k \in 0 .. n : SumRead(f[k], w, n)}
<1>5. 0 \in T
  <2>1. PICK r : r = f[0]
    OBVIOUS
  <2>2. r = [p |-> Start, stage |-> 0, total |-> 0]
    BY <1>3, <2>1 DEF Turns
  <2>3. w[Start - 1] = 0
    <3>1. w[0] = 0
      BY <1>2 DEF Sums
    <3>2. Start - 1 \in 0 .. n /\ 0 \in 0 .. n /\ Start - 1 \in 0 .. n
      BY <1>1, <1>4
    <3>3. \A k \in 0 + 1 .. Start - 1 : k \notin PartEnds
      BY <1>1, <1>4, BoundariesType
    <3> QED
      BY <1>1, <1>2, <3>1, <3>2, <3>3, SumGrows
  <2>4. 0 # Overflow /\ Start - 1 < Start
    BY <1>4, Widths
  <2>5. SumRead(r, w, n)
    BY <1>4, <2>2, <2>3, <2>4 DEF SumRead
  <2> QED
    BY <1>1, <2>1, <2>5
<1>6. ASSUME NEW k \in 0 .. n - 1, k \in T PROVE k + 1 \in T
  <2>1. k + 1 \in 0 .. n /\ k \in 0 .. n
    OBVIOUS
  <2>2. PICK r \in Readings(n) : r = f[k] /\ SumRead(r, w, n)
    BY <1>4, <1>6
  <2>3. f[k + 1] = NextQuantity(text, r)
    BY <1>3, <2>2 DEF Turns
  <2>4. CASE r.total = Overflow \/ r.p > n
    <3>1. NextQuantity(text, r) = r
      BY <1>1, <2>4 DEF NextQuantity
    <3> QED
      BY <2>1, <2>2, <2>3, <3>1
  <2>5. CASE ~(r.total = Overflow \/ r.p > n)
    <3>1. r.p <= n
      BY <1>1, <2>5 DEF Readings
    <3>2. SumRead(NextQuantity(text, r), w, n)
      BY <1>1, <1>2, <2>2, <2>5, <3>1, DurationStep
    <3> QED
      BY <2>1, <2>3, <3>2
  <2> QED
    BY <2>4, <2>5
<1>7. SumRead(f[n], w, n)
  <2>1. \A k \in 0 .. n : k \in T
    <3> HIDE DEF T
    <3> QED
      BY <1>5, <1>6, UpToNumber
  <2> QED
    BY <1>1, <2>1
<1>8. f[n].total = Overflow \/ f[n].p = n + 1
  BY <1>1, <1>3, TurnsProgress
<1>9. CASE f[n].total = Overflow
  BY <1>2, <1>3, <1>4, <1>7, <1>9, Widths DEF SumRead, TotalOf
<1>10. CASE f[n].total # Overflow
  <2>1. f[n].p - 1 = n /\ ~(n < Start)
    BY <1>1, <1>4, <1>8, <1>10
  <2>2. f[n].stage = Rank(n) /\ f[n].total = w[n]
    BY <1>7, <1>10, <2>1 DEF SumRead
  <2>3. Rank(n) \in 1 .. 5
    BY <1>1, MagnitudeType
  <2>4. w[n] <= MaxLong
    BY <1>1, <1>4, <1>10, <2>2 DEF Readings
  <2> QED
    BY <1>2, <1>3, <1>4, <2>2, <2>3, <2>4 DEF TotalOf
<1> QED
  BY <1>9, <1>10

(***************************************************************************)
(* And what is read to the end is a duration.                              *)
(***************************************************************************)
EndsUpTo(b) == {k \in PartEnds : k < b} \cup {b}

PartsRead(r) ==
  LET b == r.p - 1
  IN  \/ b = Start - 1 /\ r.stage = 0
      \/ /\ b >= Start /\ text[b] \notin Digit /\ r.stage \in 1 .. 5
         /\ \A k \in EndsUpTo(b) : Number(k) # <<>> /\ Unit(k) \in Range(Units) /\ Rank(k) <= r.stage
         /\ \A k \in EndsUpTo(b), l \in EndsUpTo(b) : k < l => Rank(k) < Rank(l)
         /\ \A k \in EndsUpTo(b) : Rank(k) \in 1 .. 5

LEMMA PartsStep ==
  ASSUME text \in Texts0, NEW n, n = Len(text), NEW r \in Readings(n), PartsRead(r),
         r.total # Overflow, r.p <= n, NextQuantity(text, r).total # Overflow
  PROVE  PartsRead(NextQuantity(text, r))
<1>1. n \in Nat /\ text \in Seq(0 .. Junk) /\ Start \in {1, 2}
  BY Beginning DEF Texts0
<1>2. PICK b : b = r.p - 1
  OBVIOUS
<1>3. r.p \in 1 .. n /\ b \in Int /\ b + 1 = r.p /\ r.stage \in 0 .. 5 /\ b >= Start - 1
  BY <1>1, <1>2 DEF Readings, PartsRead
<1>4. PICK u, found, next : /\ u = RunEnd(text, r.p, Digit) /\ found = UnitAt(text, u)
                            /\ next = NextQuantity(text, r)
  OBVIOUS
<1>5. /\ u # r.p /\ found.stage > r.stage
      /\ next.p = u + found.len /\ next.stage = found.stage
  <2>1. /\ next.total # Overflow <=> Countable(r, u, found)
        /\ Countable(r, u, found) =>
            next = [p |-> u + found.len, stage |-> found.stage, total |-> Counted(r, u, found)]
    BY <1>4, QuantityStep
  <2> QED
    BY <1>4, <2>1 DEF Countable
<1>6. EndsRun(text, r.p, Digit, u)
  BY <1>1, <1>3, <1>4, RunEnds
<1>7. /\ u \in r.p .. n + 1 /\ u \in Int /\ \A i \in r.p .. u - 1 : text[i] \in Digit
      /\ u <= n => text[u] \notin Digit
  BY <1>1, <1>3, <1>6 DEF EndsRun
<1>8. /\ found.stage \in 1 .. 5 /\ found.len \in {1, 2} /\ u \in 1 .. n
      /\ (u + found.len) - 1 \in u .. n
      /\ SubSeq(text, u, (u + found.len) - 1) = Units[found.stage]
      /\ text[(u + found.len) - 1] \notin Digit
      /\ found.len = 2 => text[u + 1] \notin Digit
  <2>1. found.stage # 0
    BY <1>3, <1>5
  <2> QED
    BY <1>1, <1>4, <1>7, <2>1, FoundUnit
<1>9. PICK e \in 1 .. n : e = (u + found.len) - 1 /\ e \in u .. n
  BY <1>1, <1>7, <1>8
<1>10. /\ SubSeq(text, u, e) = Units[found.stage] /\ text[e] \notin Digit /\ next.p - 1 = e
       /\ b < e /\ b < u /\ u <= e
  <2>1. next.p - 1 = e
    BY <1>5, <1>9
  <2>2. b < u /\ u <= e /\ b < e
    BY <1>3, <1>7, <1>9
  <2> QED
    BY <1>8, <1>9, <2>1, <2>2
<1>11. text[r.p] \in Digit
  BY <1>3, <1>5, <1>7
<1>12. b >= Start => b \in PartEnds
  <2>1. SUFFICES ASSUME b >= Start PROVE b \in PartEnds
    OBVIOUS
  <2>2. text[b] \notin Digit /\ b \in Start .. n
    BY <1>1, <1>2, <1>3, <2>1 DEF PartsRead
  <2> QED
    BY <1>1, <1>3, <1>11, <2>2 DEF PartEnds
<1>13. PartAt(b, u, e)
  <2>1. b \in Boundaries
    <3>1. b = Start - 1 \/ b >= Start
      BY <1>1, <1>3
    <3> QED
      BY <1>12, <3>1 DEF Boundaries
  <2>2. u \in b + 1 .. n /\ e \in u .. n /\ \A i \in b + 1 .. u - 1 : text[i] \in Digit
    <3>1. \A i \in b + 1 .. u - 1 : i \in r.p .. u - 1
      BY <1>3
    <3>2. u \in b + 1 .. n
      BY <1>3, <1>8, <1>10
    <3> QED
      BY <1>7, <1>9, <3>1, <3>2
  <2>3. text[u] \notin Digit
    BY <1>7, <1>8
  <2>4. ASSUME NEW k \in u .. e - 1 PROVE k \notin PartEnds
    <3>1. found.len = 2 /\ k = u /\ u < n
      BY <1>1, <1>7, <1>8, <1>9
    <3>2. text[u + 1] \notin Digit
      BY <1>8, <3>1
    <3> QED
      BY <1>1, <3>1, <3>2 DEF PartEnds
  <2> QED
    BY <1>1, <2>1, <2>2, <2>3, <2>4 DEF PartAt
<1>14. Number(e) # <<>> /\ Unit(e) = Units[found.stage]
  <2>1. Number(e) \in Seq(Digit) /\ Len(Number(e)) = u - (b + 1) /\ Unit(e) = SubSeq(text, u, e)
    BY <1>13, PartParts
  <2>2. u - (b + 1) # 0
    BY <1>3, <1>5, <1>7
  <2> QED
    BY <1>10, <2>1, <2>2
<1>15. Rank(e) = found.stage /\ Unit(e) \in Range(Units)
  BY <1>8, <1>14, RankIs
<1>16. ASSUME NEW k \in EndsUpTo(e)
       PROVE  k = e \/ (b >= Start /\ k \in EndsUpTo(b) /\ k \in Int)
  <2>1. SUFFICES ASSUME k # e PROVE b >= Start /\ k \in EndsUpTo(b) /\ k \in Int
    OBVIOUS
  <2>2. k \in PartEnds /\ k < e
    BY <2>1 DEF EndsUpTo
  <2>3. k \in Start .. n /\ k \in Int
    BY <1>1, <2>2, BoundariesType
  <2>4. k \notin b + 1 .. u - 1 /\ k \notin u .. e - 1
    <3>1. text[k] \notin Digit
      BY <2>2 DEF PartEnds
    <3> QED
      BY <1>13, <2>2, <3>1 DEF PartAt
  <2>5. k <= b
    BY <1>1, <1>3, <1>7, <1>9, <2>2, <2>3, <2>4
  <2>6. k = b \/ k < b
    BY <1>3, <2>3, <2>5
  <2> QED
    BY <1>1, <1>3, <2>2, <2>3, <2>5, <2>6 DEF EndsUpTo
<1>17. b >= Start =>
         /\ \A k \in EndsUpTo(b) : Number(k) # <<>> /\ Unit(k) \in Range(Units) /\ Rank(k) <= r.stage
         /\ \A k \in EndsUpTo(b), l \in EndsUpTo(b) : k < l => Rank(k) < Rank(l)
         /\ \A k \in EndsUpTo(b) : Rank(k) \in 1 .. 5
  <2>1. b >= Start => b # Start - 1
    BY <1>1
  <2> QED
    BY <1>2, <2>1 DEF PartsRead
<1>18. \A k \in EndsUpTo(e) : /\ Number(k) # <<>> /\ Unit(k) \in Range(Units)
                              /\ Rank(k) <= found.stage /\ Rank(k) \in 1 .. 5
                              /\ k # e => Rank(k) < found.stage /\ k \in EndsUpTo(b) /\ b >= Start
  <2>1. SUFFICES ASSUME NEW k \in EndsUpTo(e)
                 PROVE  /\ Number(k) # <<>> /\ Unit(k) \in Range(Units)
                        /\ Rank(k) <= found.stage /\ Rank(k) \in 1 .. 5
                        /\ k # e => Rank(k) < found.stage /\ k \in EndsUpTo(b) /\ b >= Start
    OBVIOUS
  <2>2. CASE k = e
    <3>1. Unit(e) \in Range(Units) /\ Number(e) # <<>>
      BY <1>14, <1>15
    <3>2. PICK s \in 1 .. 5 : s = found.stage
      BY <1>8
    <3>3. Rank(e) = s
      BY <1>15, <3>2
    <3> QED
      BY <2>2, <3>1, <3>2, <3>3
  <2>3. CASE k # e
    <3>1. b >= Start /\ k \in EndsUpTo(b)
      BY <1>16, <2>3
    <3>2. Number(k) # <<>> /\ Unit(k) \in Range(Units) /\ Rank(k) <= r.stage /\ Rank(k) \in 1 .. 5
      BY <1>17, <3>1
    <3>3. PICK s \in 1 .. 5, q \in 0 .. 5 : s = found.stage /\ q = r.stage /\ s > q
      BY <1>3, <1>5, <1>8
    <3>4. PICK x \in 1 .. 5 : x = Rank(k) /\ x <= q
      BY <3>2, <3>3
    <3>5. x < s /\ x <= s
      BY <3>3, <3>4
    <3> QED
      BY <2>3, <3>1, <3>2, <3>3, <3>4, <3>5
  <2> QED
    BY <2>2, <2>3
<1>19. ASSUME NEW k \in EndsUpTo(e), NEW l \in EndsUpTo(e), k < l PROVE Rank(k) < Rank(l)
  <2>1. k # e
    <3>1. SUFFICES ASSUME k = e PROVE FALSE
      OBVIOUS
    <3>2. CASE l = e
      BY <1>9, <1>19, <3>1, <3>2
    <3>3. CASE l # e
      <4>1. l \in PartEnds /\ l < e
        BY <3>3 DEF EndsUpTo
      <4>2. l \in Int
        BY <1>16, <3>3
      <4> QED
        BY <1>9, <1>19, <3>1, <4>1, <4>2
    <3> QED
      BY <3>2, <3>3
  <2>2. CASE l = e
    BY <1>15, <1>18, <2>1, <2>2
  <2>3. CASE l # e
    BY <1>17, <1>18, <1>19, <2>1, <2>3
  <2> QED
    BY <2>2, <2>3
<1>20. next.p - 1 = e /\ e >= Start /\ next.stage \in 1 .. 5
  BY <1>1, <1>3, <1>5, <1>8, <1>10
<1> QED
  BY <1>4, <1>5, <1>10, <1>18, <1>19, <1>20 DEF PartsRead

LEMMA DurationOnly ==
  ASSUME text \in Texts0, TotalOf(QuantitiesFrom(text, Start)) # Overflow
  PROVE  IsDuration
<1>1. PICK n \in Nat : n = Len(text)
  BY DEF Texts0
<1>2. PICK f : Turns(f, n) /\ QuantitiesFrom(text, Start) = f[n]
  BY <1>1, QuantitiesAre
<1>3. Start \in {1, 2} /\ \A k \in 0 .. n : f[k] \in Readings(n)
  BY <1>1, <1>2, Beginning DEF Turns
<1>4. f[n].stage # 0 /\ f[n].total # Overflow
  BY <1>2 DEF TotalOf
<1> DEFINE T == {k \in 0 .. n : f[k].total = Overflow \/ PartsRead(f[k])}
<1>5. 0 \in T
  <2>1. PICK r : r = f[0] /\ r = [p |-> Start, stage |-> 0, total |-> 0]
    BY <1>2 DEF Turns
  <2>2. r.p - 1 = Start - 1 /\ r.stage = 0
    BY <2>1
  <2>3. PartsRead(r)
    BY <2>2 DEF PartsRead
  <2>4. PartsRead(f[0])
    <3> HIDE DEF T
    <3> QED
      BY <2>1, <2>3
  <2>5. 0 \in 0 .. n
    BY <1>1
  <2> QED
    BY <2>4, <2>5
<1>6. ASSUME NEW k \in 0 .. n - 1, k \in T PROVE k + 1 \in T
  <2>1. k + 1 \in 0 .. n /\ k \in 0 .. n
    OBVIOUS
  <2>2. PICK r \in Readings(n) : r = f[k] /\ (r.total = Overflow \/ PartsRead(r))
    BY <1>3, <1>6
  <2>3. f[k + 1] = NextQuantity(text, r)
    BY <1>2, <2>2 DEF Turns
  <2>4. CASE r.total = Overflow \/ r.p > n
    <3>1. NextQuantity(text, r) = r
      BY <1>1, <2>4 DEF NextQuantity
    <3> QED
      BY <2>1, <2>2, <2>3, <3>1
  <2>5. CASE ~(r.total = Overflow \/ r.p > n)
    <3>1. r.p <= n
      BY <1>1, <2>5 DEF Readings
    <3>2. NextQuantity(text, r).total # Overflow => PartsRead(NextQuantity(text, r))
      BY <1>1, <2>2, <2>5, <3>1, PartsStep
    <3> QED
      BY <2>1, <2>3, <3>2
  <2> QED
    BY <2>4, <2>5
<1>7. PartsRead(f[n])
  <2>1. \A k \in 0 .. n : k \in T
    <3> HIDE DEF T
    <3> QED
      BY <1>5, <1>6, UpToNumber
  <2> QED
    BY <1>1, <1>4, <2>1
<1>8. f[n].p - 1 = n
  <2>1. f[n].p = n + 1
    BY <1>1, <1>2, <1>4, TurnsProgress
  <2> QED
    BY <1>1, <2>1
<1>9. PICK s : s = f[n].stage
  OBVIOUS
<1>10. /\ n >= Start /\ text[n] \notin Digit /\ s \in 1 .. 5
       /\ \A k \in EndsUpTo(n) : Number(k) # <<>> /\ Unit(k) \in Range(Units) /\ Rank(k) <= s
       /\ \A k \in EndsUpTo(n), l \in EndsUpTo(n) : k < l => Rank(k) < Rank(l)
  BY <1>4, <1>7, <1>8, <1>9 DEF PartsRead
<1>11. n \in PartEnds
  <2>1. n \in Start .. n /\ ~(n < n)
    BY <1>1, <1>3, <1>10
  <2> QED
    BY <1>1, <1>10, <2>1 DEF PartEnds
<1>12. PartEnds \subseteq EndsUpTo(n)
  <2>1. ASSUME NEW k \in PartEnds PROVE k \in EndsUpTo(n)
    <3>1. k \in Start .. n
      BY <1>1, BoundariesType
    <3>2. k = n \/ k < n
      BY <1>1, <1>3, <3>1
    <3> QED
      BY <3>2 DEF EndsUpTo
  <2> QED
    BY <2>1
<1>13. Start <= n
  BY <1>1, <1>3, <1>10
<1> QED
  BY <1>1, <1>10, <1>11, <1>12, <1>13 DEF IsDuration

(***************************************************************************)
(* A duration is accepted iff it is parts in the order of their units,     *)
(* each once, and what they add up to is a long before the sign is         *)
(* applied.  (php_cedar_make_duration)                                     *)
(***************************************************************************)
THEOREM DurationLaw ==
  ASSUME text \in Texts0
  PROVE  MakeDuration(text) = IF IsDuration /\ DurationWorth <= MaxLong
                              THEN DurationValue(Sign * DurationWorth)
                              ELSE ErrorValue
<1>1. PICK total : total = TotalOf(QuantitiesFrom(text, Start))
  OBVIOUS
<1>2. MakeDuration(text) = Signed(At(text, 1, Minus), total)
  <2>1. Start = IF At(text, 1, Minus) THEN 2 ELSE 1
    BY Beginning
  <2> QED
    BY <1>1, <2>1 DEF MakeDuration
<1>3. CASE IsDuration /\ DurationWorth <= MaxLong
  <2>1. PICK d \in Nat : d = DurationWorth /\ total = d
    BY <1>1, <1>3, DurationRead
  <2>2. d # Overflow
    BY <2>1, Widths
  <2>3. Sign * d = IF At(text, 1, Minus) THEN -d ELSE d
    <3>1. (-1) * d = -d /\ 1 * d = d
      BY <2>1
    <3> QED
      BY <3>1 DEF Sign
  <2> QED
    BY <1>2, <1>3, <2>1, <2>2, <2>3 DEF Signed
<1>4. CASE ~(IsDuration /\ DurationWorth <= MaxLong)
  <2>1. total = Overflow
    BY <1>1, <1>4, DurationRead, DurationOnly
  <2> QED
    BY <1>2, <1>4, <2>1 DEF Signed
<1> QED
  BY <1>3, <1>4
-----------------------------------------------------------------------------
(***************************************************************************)
(* A piece stands somewhere in a text.                                     *)
(***************************************************************************)
Stands(txt, s, p) ==
  /\ p + Len(s) <= Len(txt) + 1
  /\ \A i \in 1 .. Len(s) : txt[(p + i) - 1] = s[i]

LEMMA StandsConcat ==
  ASSUME NEW txt \in Texts0, NEW a \in Texts0, NEW b \in Texts0, NEW p \in Nat
  PROVE  /\ a \o b \in Texts0 /\ Len(a \o b) = Len(a) + Len(b)
         /\ Stands(txt, a \o b, p) <=> Stands(txt, a, p) /\ Stands(txt, b, p + Len(a))
<1>1. PICK n \in Nat, k \in Nat, l \in Nat : n = Len(txt) /\ k = Len(a) /\ l = Len(b)
  BY DEF Texts0
<1>2. PICK s : s = a \o b
  OBVIOUS
<1>3. /\ s \in Texts0 /\ Len(s) = k + l
      /\ \A i \in 1 .. k : s[i] = a[i]
      /\ \A i \in k + 1 .. k + l : s[i] = b[i - k]
  BY <1>1, <1>2, ConcatProperties DEF Texts0
<1>4. ASSUME Stands(txt, s, p) PROVE Stands(txt, a, p) /\ Stands(txt, b, p + k)
  <2>1. (p + k) + l <= n + 1 /\ p + k <= n + 1
    BY <1>1, <1>3, <1>4 DEF Stands
  <2>2. \A i \in 1 .. k : txt[(p + i) - 1] = a[i]
    <3>1. \A i \in 1 .. k : i \in 1 .. k + l
      OBVIOUS
    <3> QED
      BY <1>3, <1>4, <3>1 DEF Stands
  <2>3. \A i \in 1 .. l : txt[((p + k) + i) - 1] = b[i]
    <3>1. SUFFICES ASSUME NEW i \in 1 .. l PROVE txt[((p + k) + i) - 1] = b[i]
      OBVIOUS
    <3>2. k + i \in 1 .. k + l /\ k + i \in k + 1 .. k + l /\ (k + i) - k = i
          /\ (p + (k + i)) - 1 = ((p + k) + i) - 1
      OBVIOUS
    <3>3. txt[(p + (k + i)) - 1] = s[k + i]
      BY <1>3, <1>4, <3>2 DEF Stands
    <3> QED
      BY <1>3, <3>2, <3>3
  <2> QED
    BY <1>1, <2>1, <2>2, <2>3 DEF Stands
<1>5. ASSUME Stands(txt, a, p), Stands(txt, b, p + k) PROVE Stands(txt, s, p)
  <2>1. p + (k + l) <= n + 1
    BY <1>1, <1>5 DEF Stands
  <2>2. ASSUME NEW i \in 1 .. k + l PROVE txt[(p + i) - 1] = s[i]
    <3>1. CASE i \in 1 .. k
      BY <1>1, <1>3, <1>5, <3>1 DEF Stands
    <3>2. CASE i \notin 1 .. k
      <4>1. i - k \in 1 .. l /\ i \in k + 1 .. k + l /\ ((p + k) + (i - k)) - 1 = (p + i) - 1
        BY <3>2
      <4>2. txt[((p + k) + (i - k)) - 1] = b[i - k]
        BY <1>1, <1>5, <4>1 DEF Stands
      <4> QED
        BY <1>3, <4>1, <4>2
    <3> QED
      BY <3>1, <3>2
  <2> QED
    BY <1>1, <1>3, <2>1, <2>2 DEF Stands
<1> QED
  BY <1>1, <1>2, <1>3, <1>4, <1>5

LEMMA StandsOne ==
  ASSUME NEW txt \in Texts0, NEW c \in 0 .. Junk, NEW p \in Nat \ {0}
  PROVE  /\ <<c>> \in Texts0 /\ Len(<<c>>) = 1
         /\ Stands(txt, <<c>>, p) <=> At(txt, p, c)
<1>1. PICK n \in Nat : n = Len(txt) /\ DOMAIN txt = 1 .. n
  BY DEF Texts0
<1>2. PICK s : s = <<c>>
  OBVIOUS
<1>3. s \in Texts0 /\ Len(s) = 1 /\ s[1] = c
  BY <1>2 DEF Texts0
<1>4. (p + 1) - 1 = p /\ 1 .. 1 = {1}
  OBVIOUS
<1>5. p + 1 <= n + 1 <=> p \in 1 .. n
  BY <1>1
<1>6. Stands(txt, s, p) <=> At(txt, p, c)
  BY <1>1, <1>3, <1>4, <1>5 DEF Stands, At
<1> QED
  BY <1>2, <1>3, <1>6

LEMMA StandsEmpty ==
  ASSUME NEW txt \in Texts0, NEW p \in Nat
  PROVE  <<>> \in Texts0 /\ Len(<<>>) = 0 /\ (Stands(txt, <<>>, p) <=> p <= Len(txt) + 1)
<1>1. <<>> \in Texts0 /\ Len(<<>>) = 0 /\ Len(txt) \in Nat
  BY DEF Texts0
<1>2. p + 0 = p /\ 1 .. 0 = {}
  OBVIOUS
<1> QED
  BY <1>1, <1>2 DEF Stands

LEMMA StandsWhole ==
  ASSUME NEW txt \in Texts0, NEW s \in Texts0
  PROVE  txt = s <=> Stands(txt, s, 1) /\ 1 + Len(s) = Len(txt) + 1
<1>1. PICK n \in Nat, k \in Nat : n = Len(txt) /\ k = Len(s)
  BY DEF Texts0
<1>2. \A i \in Int : (1 + i) - 1 = i
  OBVIOUS
<1>3. ASSUME txt = s PROVE Stands(txt, s, 1) /\ 1 + Len(s) = Len(txt) + 1
  BY <1>1, <1>2, <1>3 DEF Stands
<1>4. ASSUME Stands(txt, s, 1), 1 + Len(s) = Len(txt) + 1 PROVE txt = s
  <2>1. n = k
    BY <1>1, <1>4
  <2>2. \A i \in 1 .. n : txt[i] = s[i]
    BY <1>1, <1>2, <1>4, <2>1 DEF Stands
  <2> QED
    BY <1>1, <2>1, <2>2, SeqEqual DEF Texts0
<1> QED
  BY <1>3, <1>4

LEMMA StandsPiece ==
  ASSUME NEW txt \in Texts0, NEW p \in 1 .. Len(txt) + 1, NEW q \in p .. Len(txt) + 1
  PROVE  /\ SubSeq(txt, p, q - 1) \in Texts0
         /\ p + Len(SubSeq(txt, p, q - 1)) = q
         /\ Stands(txt, SubSeq(txt, p, q - 1), p)
<1>1. PICK n \in Nat : n = Len(txt)
  BY DEF Texts0
<1>2. \A r \in p .. q - 1 : txt[r] \in 0 .. Junk
  <2>1. txt \in Seq(0 .. Junk) /\ \A r \in p .. q - 1 : r \in 1 .. n
    BY <1>1 DEF Texts0
  <2> QED
    BY <1>1, <2>1, ElementOfSeq
<1>3. PICK s : s = SubSeq(txt, p, q - 1)
  OBVIOUS
<1>4. s \in Seq(0 .. Junk) /\ Len(s) = q - p /\ \A i \in 1 .. q - p : s[i] = txt[(p + i) - 1]
  BY <1>2, <1>3, PieceType
<1>5. p + (q - p) = q /\ q <= n + 1
  BY <1>1
<1> QED
  BY <1>1, <1>3, <1>4, <1>5 DEF Stands, Texts0

\* A piece is what stands where it stands, and it ends a run there.
LEMMA StandingPiece ==
  ASSUME NEW txt \in Texts0, NEW p \in Nat \ {0}, NEW C, NEW s \in Texts0, s \in Seq(C), Stands(txt, s, p),
         \A c \in C : ~At(txt, p + Len(s), c)
  PROVE  RunEnd(txt, p, C) = p + Len(s) /\ SubSeq(txt, p, (p + Len(s)) - 1) = s
<1>1. PICK n \in Nat, k \in Nat : n = Len(txt) /\ k = Len(s) /\ DOMAIN txt = 1 .. n
  BY DEF Texts0
<1>2. PICK q : q = p + k
  OBVIOUS
<1>3. q \in p .. n + 1 /\ p \in 1 .. n + 1 /\ q \in Int /\ q - p = k
  BY <1>1, <1>2 DEF Stands
<1>4. ASSUME NEW r \in p .. q - 1 PROVE txt[r] \in C
  <2>1. (r - p) + 1 \in 1 .. k /\ (p + ((r - p) + 1)) - 1 = r
    BY <1>2, <1>3
  <2>2. txt[r] = s[(r - p) + 1]
    BY <1>1, <2>1 DEF Stands
  <2> QED
    BY <1>1, <2>1, <2>2, ElementOfSeq
<1>5. q <= n => txt[q] \notin C
  BY <1>1, <1>2, <1>3 DEF At
<1>6. RunEnd(txt, p, C) = q
  <2>1. EndsRun(txt, p, C, q)
    BY <1>1, <1>3, <1>4, <1>5 DEF EndsRun
  <2> QED
    BY <1>1, <1>3, <2>1, RunEndUnique DEF Texts0
<1>7. SubSeq(txt, p, q - 1) = s
  <2>1. PICK t : t = SubSeq(txt, p, q - 1)
    OBVIOUS
  <2>2. t \in Seq(C) /\ Len(t) = k /\ \A i \in 1 .. k : t[i] = txt[(p + i) - 1]
    BY <1>1, <1>3, <1>4, <2>1, PieceType
  <2>3. \A i \in 1 .. k : t[i] = s[i]
    BY <1>1, <2>2 DEF Stands
  <2> QED
    BY <1>1, <2>1, <2>2, <2>3, SeqEqual
<1> QED
  BY <1>1, <1>2, <1>6, <1>7

(***************************************************************************)
(* Pieces with separators, one more each time.                             *)
(***************************************************************************)
LEMMA JoinAppend ==
  ASSUME NEW c \in 0 .. Junk, NEW pieces \in Seq(Texts0), NEW x \in Texts0
  PROVE  /\ Join(<<>>, c) = <<>>
         /\ Join(pieces, c) \in Texts0
         /\ Join(Append(pieces, x), c) =
              IF pieces = <<>> THEN x ELSE Join(pieces, c) \o (<<c>> \o x)
<1> DEFINE A == 0 .. Junk
           Led(ps) == [k \in DOMAIN ps |-> IF k = 1 THEN ps[k] ELSE <<c>> \o ps[k]]
<1>1. PICK n \in Nat : n = Len(pieces)
  OBVIOUS
<1>2. c \in A /\ pieces \in Seq(Seq(A)) /\ x \in Seq(A) /\ <<c>> \in Seq(A)
  BY DEF Texts0
<1> HIDE DEF A
<1>3. \A t \in Seq(A) : <<c>> \o t \in Seq(A)
  BY <1>2, ConcatProperties
<1>4. ASSUME NEW ps \in Seq(Seq(A)) PROVE Led(ps) \in Seq(Seq(A)) /\ Len(Led(ps)) = Len(ps)
  <2> DEFINE SA == Seq(A)
  <2>1. PICK m \in Nat : m = Len(ps) /\ DOMAIN ps = 1 .. m
    OBVIOUS
  <2>2. \A k \in 1 .. m : ps[k] \in SA
    BY <2>1
  <2>3. \A k \in 1 .. m : (IF k = 1 THEN ps[k] ELSE <<c>> \o ps[k]) \in SA
    BY <1>3, <2>2
  <2> HIDE DEF SA
  <2>4. Led(ps) \in [1 .. m -> SA]
    BY <2>1, <2>3
  <2>5. Led(ps) \in Seq(SA) /\ Len(Led(ps)) = m
    BY <2>1, <2>4
  <2> QED
    BY <2>1, <2>5 DEF SA
<1>5. PICK more \in Seq(Seq(A)) : more = Append(pieces, x)
  BY <1>2, AppendProperties
<1>6. /\ Len(more) = n + 1 /\ more[n + 1] = x /\ \A k \in 1 .. n : more[k] = pieces[k]
  BY <1>1, <1>2, <1>5, AppendProperties
<1>7. PICK last \in Seq(A) : last = IF n = 0 THEN x ELSE <<c>> \o x
  BY <1>2, <1>3
<1>8. Led(more) = Append(Led(pieces), last)
  <2>1. PICK some, all : some = Led(pieces) /\ all = Led(more)
    OBVIOUS
  <2>2. some \in Seq(Seq(A)) /\ all \in Seq(Seq(A)) /\ Len(some) = n /\ Len(all) = n + 1
    BY <1>1, <1>2, <1>4, <1>6, <2>1
  <2>3. PICK ext : ext = Append(some, last)
    OBVIOUS
  <2>4. ext \in Seq(Seq(A)) /\ Len(ext) = n + 1 /\ ext[n + 1] = last /\ \A k \in 1 .. n : ext[k] = some[k]
    <3> DEFINE SA == Seq(A)
    <3>1. some \in Seq(SA) /\ last \in SA
      BY <2>2
    <3> HIDE DEF SA
    <3>2. ext \in Seq(SA) /\ Len(ext) = n + 1 /\ ext[n + 1] = last /\ \A k \in 1 .. n : ext[k] = some[k]
      BY <2>2, <2>3, <3>1, AppendProperties
    <3> QED
      BY <3>2 DEF SA
  <2>5. \A k \in 1 .. n + 1 : all[k] = IF k = 1 THEN more[k] ELSE <<c>> \o more[k]
    BY <1>6, <2>1
  <2>6. \A k \in 1 .. n : some[k] = IF k = 1 THEN pieces[k] ELSE <<c>> \o pieces[k]
    BY <1>1, <2>1
  <2>7. ASSUME NEW k \in 1 .. n + 1 PROVE all[k] = ext[k]
    <3>1. CASE k = n + 1
      <4>1. n = 0 <=> k = 1
        BY <3>1
      <4> QED
        BY <1>6, <1>7, <2>4, <2>5, <3>1, <4>1
    <3>2. CASE k # n + 1
      <4>1. k \in 1 .. n
        BY <3>2
      <4>2. all[k] = IF k = 1 THEN more[k] ELSE <<c>> \o more[k]
        BY <2>5
      <4>3. ext[k] = some[k] /\ more[k] = pieces[k]
        BY <1>6, <2>4, <4>1
      <4>4. some[k] = IF k = 1 THEN pieces[k] ELSE <<c>> \o pieces[k]
        BY <2>6, <4>1
      <4> QED
        BY <4>2, <4>3, <4>4
    <3> QED
      BY <3>1, <3>2
  <2> HIDE DEF Led
  <2>8. all = ext
    BY <2>2, <2>4, <2>7, SeqEqual
  <2> QED
    BY <2>1, <2>3, <2>8
<1>9. Join(more, c) = FlattenSeq(Led(pieces)) \o last
  <2>1. PICK some : some = Led(pieces)
    OBVIOUS
  <2>2. some \in Seq(Seq(A))
    BY <1>2, <1>4, <2>1
  <2>3. FlattenSeq(Append(some, last)) = FlattenSeq(some) \o last
    BY <2>2, FlattenAppend
  <2> QED
    BY <1>8, <2>1, <2>3 DEF Join
<1>10. Join(pieces, c) = FlattenSeq(Led(pieces)) /\ FlattenSeq(Led(pieces)) \in Seq(A)
  <2>1. PICK some : some = Led(pieces)
    OBVIOUS
  <2>2. some \in Seq(Seq(A))
    BY <1>2, <1>4, <2>1
  <2>3. FlattenSeq(some) \in Seq(A)
    BY <2>2, FlattenType
  <2> QED
    BY <2>1, <2>3 DEF Join
<1>11. Join(<<>>, c) = <<>>
  <2>1. Led(<<>>) = <<>>
    OBVIOUS
  <2> QED
    BY <2>1, FlattenEmpty DEF Join
<1>12. CASE n = 0
  <2>1. pieces = <<>>
    BY <1>1, <1>12, EmptySeq
  <2>2. Join(pieces, c) = <<>>
    BY <1>11, <2>1
  <2>3. <<>> \o x = x
    BY <1>2, ConcatEmptySeq
  <2> QED
    BY <1>5, <1>7, <1>9, <1>10, <1>11, <1>12, <2>1, <2>2, <2>3 DEF A, Texts0
<1>13. CASE n # 0
  <2>1. pieces # <<>>
    BY <1>1, <1>13
  <2> QED
    BY <1>5, <1>7, <1>9, <1>10, <1>11, <1>13, <2>1 DEF A, Texts0
<1> QED
  BY <1>12, <1>13
-----------------------------------------------------------------------------
(***************************************************************************)
(* A number is printed in one way: no other digits that do not start with  *)
(* a needless zero write it.                                               *)
(***************************************************************************)
Canonical(s) == s \in Seq(Digit) /\ s # <<>> /\ ~(Len(s) > 1 /\ s[1] = 0)

LEMMA WidthIs ==
  ASSUME NEW n \in Nat
  PROVE  /\ Width(n) \in Nat \ {0} /\ n < Pow(10, Width(n))
         /\ \A v \in 1 .. Width(n) - 1 : n >= Pow(10, v)
<1>1. n < Pow(10, n + 1)
  <2> DEFINE T == {k \in 0 .. n : k < Pow(10, k + 1)}
  <2>1. 0 \in T
    <3>1. Pow(10, 0 + 1) \in Nat \ {0}
      BY PowOfTen
    <3> QED
      BY <3>1
  <2>2. ASSUME NEW k \in 0 .. n - 1, k \in T PROVE k + 1 \in T
    <3>1. PICK x \in Nat \ {0} : x = Pow(10, k + 1) /\ Pow(10, (k + 1) + 1) = x * 10
      <4>1. k + 1 \in Nat
        OBVIOUS
      <4> QED
        BY <4>1, PowOfTen
    <3>2. k < x
      BY <2>2, <3>1
    <3> QED
      BY <3>1, <3>2
  <2>3. \A k \in 0 .. n : k \in T
    <3> HIDE DEF T
    <3> QED
      BY <2>1, <2>2, UpToNumber
  <2> QED
    BY <2>3
<1> DEFINE Wide == {w \in 1 .. n + 1 : n < Pow(10, w)}
<1>2. Wide \subseteq Nat /\ n + 1 \in Wide
  BY <1>1
<1>3. PICK w \in Wide : \A v \in Wide : w <= v
  <2> HIDE DEF Wide
  <2> QED
    BY <1>2, LeastNumber
<1>4. w \in 1 .. n + 1 /\ n < Pow(10, w)
  BY <1>3
<1>5. ASSUME NEW v \in 1 .. w - 1 PROVE n >= Pow(10, v)
  <2>1. v \in 1 .. n + 1 /\ ~(w <= v) /\ v \in Nat
    BY <1>4
  <2>2. v \notin Wide
    BY <1>3, <2>1
  <2>3. Pow(10, v) \in Nat
    BY <2>1, PowOfTen
  <2> QED
    BY <2>1, <2>2, <2>3
<1> DEFINE Fits(x) == n < Pow(10, x) /\ \A v \in 1 .. x - 1 : n >= Pow(10, v)
<1>6. PICK x : x = CHOOSE y \in 1 .. n + 1 : Fits(y)
  OBVIOUS
<1>7. x \in 1 .. n + 1 /\ Fits(x)
  <2>1. Fits(w)
    BY <1>4, <1>5
  <2> HIDE DEF Fits
  <2> QED
    BY <1>4, <1>6, <2>1
<1>8. Width(n) = x
  BY <1>6 DEF Width
<1>9. x \in Nat \ {0}
  BY <1>7
<1> QED
  BY <1>7, <1>8, <1>9

LEMMA PrintedIs ==
  ASSUME NEW n \in Nat
  PROVE  Canonical(Printed(n)) /\ Horner(Printed(n), 10) = n
<1>1. PICK w \in Nat \ {0} : w = Width(n) /\ n < Pow(10, w) /\ \A v \in 1 .. w - 1 : n >= Pow(10, v)
  BY WidthIs
<1>2. PICK s : s = Printed(n)
  OBVIOUS
<1>3. s = [k \in 1 .. w |-> (n \div Pow(10, w - k)) % 10]
  BY <1>1, <1>2 DEF Printed
<1>4. \A k \in 1 .. w : s[k] \in Digit
  <2>1. SUFFICES ASSUME NEW k \in 1 .. w PROVE s[k] \in Digit
    OBVIOUS
  <2>2. w - k \in Nat
    OBVIOUS
  <2>3. PICK b \in Nat \ {0} : b = Pow(10, w - k)
    BY <2>2, PowOfTen
  <2>4. PICK q \in Nat : q = n \div b
    BY NaturalQuotient
  <2>5. q % 10 \in 0 .. 9
    OBVIOUS
  <2> QED
    BY <1>3, <2>3, <2>4, <2>5 DEF Digit
<1>5. s \in Seq(Digit) /\ Len(s) = w /\ s \in Seq(Nat) /\ s # <<>>
  <2>1. s \in [1 .. w -> Digit]
    BY <1>3, <1>4
  <2>2. s \in Seq(Digit) /\ Len(s) = w
    BY <2>1
  <2> QED
    BY <2>2, Characters, SeqMonotonic
<1>6. Horner(s, 10) = n
  <2>1. \A k \in 1 .. w : s[k] = (n \div Pow(10, w - k)) % 10
    BY <1>3
  <2> QED
    BY <1>1, <1>5, <2>1, FractionRead
<1>7. ASSUME w > 1 PROVE s[1] # 0
  <2>1. PICK m \in Nat : m = w - 1 /\ m \in 1 .. w - 1 /\ m + 1 = w
    BY <1>7
  <2>2. PICK b \in Nat \ {0} : b = Pow(10, m) /\ Pow(10, w) = b * 10
    BY <2>1, PowOfTen
  <2>3. n >= b /\ n < b * 10
    BY <1>1, <2>1, <2>2
  <2>4. PICK q \in Nat, r \in 0 .. b - 1 : q = n \div b /\ n = q * b + r
    BY NaturalEuclid
  <2>5. q # 0
    BY <2>3, <2>4
  <2>6. q < 10
    <3>1. SUFFICES ASSUME q >= 10 PROVE FALSE
      BY <2>4
    <3>2. q * b >= 10 * b
      BY <3>1, SMTT(30)
    <3>3. PICK x \in Nat : x = q * b
      <4>1. q * b \in Nat
        BY SMTT(30)
      <4> QED
        BY <4>1
    <3> QED
      BY <2>3, <2>4, <3>2, <3>3
  <2>7. s[1] = q % 10
    <3>1. 1 \in 1 .. w
      OBVIOUS
    <3> QED
      BY <1>3, <2>1, <2>2, <2>4, <3>1
  <2> QED
    BY <2>5, <2>6, <2>7
<1> QED
  BY <1>2, <1>5, <1>6, <1>7 DEF Canonical

LEMMA HornerLeast ==
  ASSUME NEW s \in Seq(Digit), NEW m \in Nat, Len(s) = m + 1, s[1] # 0
  PROVE  Horner(s, 10) >= Pow(10, m)
<1>1. s \in Seq(Nat) /\ 10 \in Nat
  BY Characters, SeqMonotonic
<1>2. PICK f \in [0 .. m + 1 -> Nat] :
        /\ f[0] = 0
        /\ \A k \in 0 .. (m + 1) - 1 : f[k + 1] = f[k] * 10 + s[k + 1]
        /\ Horner(s, 10) = f[m + 1]
  BY <1>1, HornerTable
<1>3. \A k \in 1 .. m + 1 : s[k] \in Nat
  BY <1>1
<1> DEFINE T == {k \in 0 .. m : f[k + 1] >= Pow(10, k)}
<1>4. 0 \in T
  <2>1. Pow(10, 0) = 1
    BY PowStep
  <2>2. f[0 + 1] = f[0] * 10 + s[0 + 1]
    <3>1. 0 \in 0 .. (m + 1) - 1
      OBVIOUS
    <3> QED
      BY <1>2, <3>1
  <2>3. s[1] \in Nat
    BY <1>3
  <2> QED
    BY <1>2, <2>1, <2>2, <2>3
<1>5. ASSUME NEW k \in 0 .. m - 1, k \in T PROVE k + 1 \in T
  <2>1. k + 1 \in 0 .. (m + 1) - 1 /\ k + 1 \in 0 .. m /\ (k + 1) + 1 \in 1 .. m + 1 /\ k \in Nat
        /\ k + 1 \in 0 .. m + 1
    OBVIOUS
  <2>2. f[(k + 1) + 1] = f[k + 1] * 10 + s[(k + 1) + 1]
    BY <1>2, <2>1
  <2>3. PICK x \in Nat \ {0} : x = Pow(10, k) /\ Pow(10, k + 1) = x * 10
    BY <2>1, PowOfTen
  <2>4. PICK y \in Nat, d \in Nat : y = f[k + 1] /\ d = s[(k + 1) + 1]
    BY <1>2, <1>3, <2>1
  <2>5. y >= x
    BY <1>5, <2>3, <2>4
  <2>6. y * 10 + d >= x * 10
    BY <2>5
  <2> QED
    BY <2>1, <2>2, <2>3, <2>4, <2>6
<1>6. \A k \in 0 .. m : k \in T
  <2> HIDE DEF T
  <2> QED
    BY <1>4, <1>5, UpToNumber
<1>7. m \in T
  <2> HIDE DEF T
  <2> QED
    BY <1>6
<1> QED
  BY <1>2, <1>7

LEMMA CanonicalLength ==
  ASSUME NEW a, NEW b, Canonical(a), Canonical(b), Horner(a, 10) = Horner(b, 10)
  PROVE  Len(b) <= Len(a)
<1>1. PICK k \in Nat, l \in Nat \ {0} : k = Len(a) /\ l = Len(b)
  <2>1. a \in Seq(Digit) /\ b \in Seq(Digit) /\ b # <<>>
    BY DEF Canonical
  <2> QED
    BY <2>1, EmptySeq
<1>2. SUFFICES ASSUME k < l PROVE FALSE
  BY <1>1
<1>3. PICK m \in Nat : l = m + 1
  <2>1. l - 1 \in Nat /\ (l - 1) + 1 = l
    BY <1>2
  <2> QED
    BY <2>1
<1>4. k <= m /\ k \in Nat \ {0}
  <2>1. a \in Seq(Digit) /\ a # <<>>
    BY DEF Canonical
  <2> QED
    BY <1>1, <1>2, <1>3, <2>1, EmptySeq
<1>5. b \in Seq(Digit) /\ b[1] # 0
  BY <1>1, <1>2, <1>4 DEF Canonical
<1>6. Horner(b, 10) >= Pow(10, m)
  BY <1>1, <1>3, <1>5, HornerLeast
<1>7. Horner(a, 10) \in Nat /\ Horner(a, 10) < Pow(10, k)
  <2>1. PICK base \in Nat \ {0} : base = 10
    OBVIOUS
  <2>2. a \in Seq(0 .. base - 1)
    <3>1. 0 .. base - 1 = Digit
      BY <2>1 DEF Digit
    <3> QED
      BY <3>1 DEF Canonical
  <2>3. Horner(a, base) \in Nat /\ Horner(a, base) < Pow(base, Len(a))
    BY <2>2, HornerBound
  <2> QED
    BY <1>1, <2>1, <2>3
<1>8. Pow(10, k) <= Pow(10, m)
  <2>1. 10 \in Nat \ {0, 1}
    OBVIOUS
  <2> QED
    BY <1>4, <2>1, PowMonotone
<1>9. Pow(10, k) \in Nat /\ Pow(10, m) \in Nat
  BY <1>4, PowOfTen
<1> QED
  BY <1>6, <1>7, <1>8, <1>9

LEMMA OnePrinting ==
  ASSUME NEW s, Canonical(s)
  PROVE  Horner(s, 10) \in Nat /\ s = Printed(Horner(s, 10))
<1>1. PICK base \in Nat \ {0} : base = 10 /\ 0 .. base - 1 = Digit
  BY DEF Digit
<1>2. s \in Seq(0 .. base - 1)
  BY <1>1 DEF Canonical
<1>3. PICK n \in Nat : n = Horner(s, 10)
  BY <1>1, <1>2, HornerBound
<1>4. PICK t : t = Printed(n)
  OBVIOUS
<1>5. Canonical(t) /\ Horner(t, 10) = n /\ t \in Seq(0 .. base - 1)
  BY <1>1, <1>4, PrintedIs DEF Canonical
<1>6. Len(s) = Len(t)
  <2>1. Len(s) <= Len(t) /\ Len(t) <= Len(s)
    BY <1>3, <1>5, CanonicalLength
  <2> QED
    BY <1>2, <1>5, <2>1
<1>7. PICK k \in Nat : k = Len(s) /\ k = Len(t)
  BY <1>2, <1>6
<1>8. PICK f : Positional(f, s, base) /\ f[k] = n
  <2>1. s \in Seq(Nat) /\ base \in Nat
    BY <1>1, <1>2, Characters, SeqMonotonic, SMTT(30)
  <2> QED
    BY <1>1, <1>3, <1>7, <2>1, HornerTable DEF Positional
<1>9. PICK g : Positional(g, t, base) /\ g[k] = n
  <2>1. t \in Seq(Nat) /\ base \in Nat
    BY <1>1, <1>5, Characters, SeqMonotonic
  <2>2. Horner(t, base) = n
    BY <1>1, <1>5
  <2>3. \E g \in [0 .. Len(t) -> Nat] :
          /\ g[0] = 0
          /\ \A i \in 0 .. Len(t) - 1 : g[i + 1] = g[i] * base + t[i + 1]
          /\ Horner(t, base) = g[Len(t)]
    BY <2>1, HornerTable
  <2> QED
    BY <1>7, <2>2, <2>3 DEF Positional
<1>10. AlikeUpTo(s, t, k)
  <2>1. k <= Len(s) /\ k <= Len(t)
    BY <1>7
  <2> QED
    BY <1>2, <1>5, <1>8, <1>9, <2>1, PositionalInjective
<1>11. s = t
  BY <1>2, <1>5, <1>7, <1>10, SeqEqual DEF AlikeUpTo
<1> QED
  BY <1>3, <1>4, <1>11

(***************************************************************************)
(* The reader of bounded numbers takes what is printed, and nothing else.  *)
(***************************************************************************)
LEMMA BoundedRead ==
  ASSUME NEW txt \in Texts0, NEW p \in Nat \ {0}, NEW max \in Nat, NEW v \in 0 .. max,
         Stands(txt, Printed(v), p), \A c \in Digit : ~At(txt, p + Len(Printed(v)), c)
  PROVE  /\ Printed(v) \in Texts0 /\ Len(Printed(v)) \in Nat \ {0}
         /\ RunEnd(txt, p, Digit) = p + Len(Printed(v))
         /\ BoundedDec(txt, p, max) = v
<1>1. PICK s : s = Printed(v)
  OBVIOUS
<1>2. /\ s \in Seq(Digit) /\ s # <<>> /\ ~(Len(s) > 1 /\ s[1] = 0) /\ Horner(s, 10) = v
      /\ v \in Nat
  <2>1. v \in Nat
    OBVIOUS
  <2>2. Canonical(s) /\ Horner(s, 10) = v
    BY <1>1, <2>1, PrintedIs
  <2> QED
    BY <2>1, <2>2 DEF Canonical
<1>3. s \in Texts0 /\ Len(s) \in Nat \ {0}
  BY <1>2, Characters, SeqMonotonic, EmptySeq DEF Texts0
<1>4. RunEnd(txt, p, Digit) = p + Len(s) /\ SubSeq(txt, p, (p + Len(s)) - 1) = s
  BY <1>1, <1>2, <1>3, StandingPiece, ZenonT(30)
<1>5. Accumulate(s, max) = v
  BY <1>2, AccumulateIs
<1>6. Head(s) = s[1]
  BY <1>2
<1>7. BoundedDec(txt, p, max) = v
  BY <1>2, <1>4, <1>5, <1>6 DEF BoundedDec
<1> QED
  BY <1>1, <1>3, <1>4, <1>7

LEMMA BoundedWritten ==
  ASSUME NEW txt \in Texts0, NEW p \in 1 .. Len(txt) + 1, NEW max \in Nat,
         NEW v, v = BoundedDec(txt, p, max), v # Overflow
  PROVE  /\ v \in 0 .. max
         /\ Printed(v) \in Texts0 /\ Len(Printed(v)) \in Nat \ {0}
         /\ Stands(txt, Printed(v), p)
         /\ RunEnd(txt, p, Digit) = p + Len(Printed(v))
<1>1. PICK n \in Nat : n = Len(txt)
  BY DEF Texts0
<1>2. PICK u : u = RunEnd(txt, p, Digit)
  OBVIOUS
<1>3. EndsRun(txt, p, Digit, u)
  BY <1>2, RunEnds DEF Texts0
<1>4. u \in p .. n + 1 /\ \A r \in p .. u - 1 : txt[r] \in Digit
  BY <1>1, <1>3 DEF EndsRun
<1>5. PICK s : s = SubSeq(txt, p, u - 1)
  OBVIOUS
<1>6. s \in Texts0 /\ p + Len(s) = u /\ Stands(txt, s, p)
  BY <1>1, <1>4, <1>5, StandsPiece
<1>7. s \in Seq(Digit)
  BY <1>1, <1>4, <1>5, PieceType
<1>8. s # <<>> /\ ~(Len(s) > 1 /\ Head(s) = 0) /\ v = Accumulate(s, max)
  BY <1>2, <1>5 DEF BoundedDec
<1>9. Head(s) = s[1]
  BY <1>7, <1>8
<1>10. Canonical(s)
  BY <1>7, <1>8, <1>9 DEF Canonical
<1>11. PICK h \in Nat : h = Horner(s, 10) /\ s = Printed(h)
  BY <1>10, OnePrinting
<1>12. v = h /\ h <= max
  BY <1>7, <1>8, <1>11, AccumulateIs
<1>13. Len(s) \in Nat \ {0}
  BY <1>7, <1>8, EmptySeq
<1> QED
  BY <1>2, <1>6, <1>11, <1>12, <1>13

(***************************************************************************)
(* The end of an address is nothing, or a slash and a printed number.      *)
(***************************************************************************)
\* The ending, and nothing behind it.
EndsAt(txt, p, ending) ==
  Stands(txt, ending.text, p) /\ p + Len(ending.text) = Len(txt) + 1

LEMMA PrefixRead ==
  ASSUME NEW txt \in Texts0, NEW p \in Nat \ {0}, NEW max \in Nat, NEW ending \in Endings(max),
         EndsAt(txt, p, ending)
  PROVE  /\ ending.text \in Texts0
         /\ PrefixAt(txt, p, max) = ending.prefix /\ ending.prefix \in Nat
         /\ p = Len(txt) + 1 \/ At(txt, p, Slash)
<1>1. PICK n \in Nat : n = Len(txt) /\ DOMAIN txt = 1 .. n
  BY DEF Texts0
<1>2. CASE ending = [text |-> <<>>, prefix |-> max]
  <2>1. ending.text = <<>> /\ ending.prefix = max
    BY <1>2
  <2>2. p = n + 1 /\ ending.text \in Texts0
    BY <1>1, <2>1, StandsEmpty DEF EndsAt
  <2> QED
    BY <1>1, <2>1, <2>2 DEF PrefixAt
<1>3. CASE ending # [text |-> <<>>, prefix |-> max]
  <2>1. PICK v \in 0 .. max : ending = [text |-> <<Slash>> \o Printed(v), prefix |-> v]
    BY <1>3 DEF Endings
  <2>2. PICK s : s = Printed(v)
    OBVIOUS
  <2>3. s \in Texts0 /\ Len(s) \in Nat \ {0}
    <3>1. v \in Nat
      OBVIOUS
    <3>2. Canonical(s)
      BY <2>2, <3>1, PrintedIs
    <3>3. s \in Seq(Digit) /\ s # <<>>
      BY <3>2 DEF Canonical
    <3> QED
      BY <3>3, Characters, SeqMonotonic, EmptySeq DEF Texts0
  <2>4. PICK slash : slash = <<Slash>> /\ Slash \in 0 .. Junk
    BY Characters
  <2>5. /\ slash \in Texts0 /\ Len(slash) = 1
        /\ Stands(txt, slash, p) <=> At(txt, p, Slash)
    BY <2>4, StandsOne
  <2>6. ending.text = slash \o s /\ ending.prefix = v
    BY <2>1, <2>2, <2>4
  <2>7. /\ ending.text \in Texts0 /\ Len(ending.text) = 1 + Len(s)
        /\ Stands(txt, slash \o s, p) <=> Stands(txt, slash, p) /\ Stands(txt, s, p + 1)
    <3>1. p \in Nat
      OBVIOUS
    <3>2. /\ slash \o s \in Texts0 /\ Len(slash \o s) = Len(slash) + Len(s)
          /\ Stands(txt, slash \o s, p) <=> Stands(txt, slash, p) /\ Stands(txt, s, p + Len(slash))
      BY <2>3, <2>5, <3>1, StandsConcat
    <3> QED
      BY <2>5, <2>6, <3>2
  <2>8. At(txt, p, Slash) /\ Stands(txt, s, p + 1) /\ (p + 1) + Len(s) = n + 1
    BY <1>1, <2>3, <2>5, <2>6, <2>7 DEF EndsAt
  <2>9. p + 1 \in Nat \ {0} /\ p # n + 1
    BY <1>1, <2>8 DEF At
  <2>10. \A c \in Digit : ~At(txt, (p + 1) + Len(s), c)
    BY <1>1, <2>8 DEF At
  <2>11. RunEnd(txt, p + 1, Digit) = n + 1 /\ BoundedDec(txt, p + 1, max) = v
    BY <2>2, <2>8, <2>9, <2>10, BoundedRead
  <2> QED
    BY <1>1, <2>6, <2>7, <2>8, <2>9, <2>11 DEF PrefixAt
<1> QED
  BY <1>2, <1>3

LEMMA PrefixWritten ==
  ASSUME NEW txt \in Texts0, NEW p \in 1 .. Len(txt) + 1, NEW max \in Nat,
         PrefixAt(txt, p, max) # Overflow
  PROVE  \E ending \in Endings(max) : EndsAt(txt, p, ending)
<1>1. PICK n \in Nat : n = Len(txt) /\ DOMAIN txt = 1 .. n
  BY DEF Texts0
<1>2. CASE p = n + 1
  <2>1. PICK ending \in Endings(max) : ending = [text |-> <<>>, prefix |-> max]
    BY DEF Endings
  <2>2. ending.text = <<>>
    BY <2>1
  <2>3. EndsAt(txt, p, ending)
    BY <1>1, <1>2, <2>2, StandsEmpty DEF EndsAt
  <2> QED
    BY <2>3
<1>3. CASE p # n + 1
  <2>1. At(txt, p, Slash) /\ RunEnd(txt, p + 1, Digit) = n + 1 /\ BoundedDec(txt, p + 1, max) # Overflow
    BY <1>1, <1>3 DEF PrefixAt
  <2>2. p + 1 \in 1 .. n + 1 /\ p \in Nat \ {0} /\ (p + 1) - 1 = p
    BY <1>1, <1>3
  <2>3. PICK v : v = BoundedDec(txt, p + 1, max)
    OBVIOUS
  <2>4. /\ v \in 0 .. max
        /\ Printed(v) \in Texts0 /\ Len(Printed(v)) \in Nat \ {0}
        /\ Stands(txt, Printed(v), p + 1)
        /\ n + 1 = (p + 1) + Len(Printed(v))
    BY <1>1, <2>1, <2>2, <2>3, BoundedWritten
  <2>5. PICK s \in Texts0 : s = Printed(v)
    BY <2>4
  <2>6. PICK slash : slash = <<Slash>> /\ Slash \in 0 .. Junk
    BY Characters
  <2>7. slash \in Texts0 /\ Len(slash) = 1 /\ Stands(txt, slash, p)
    BY <2>1, <2>2, <2>6, StandsOne
  <2>8. Stands(txt, slash \o s, p) /\ Len(slash \o s) = 1 + Len(s)
    <3>1. p \in Nat
      BY <2>2
    <3>2. /\ Len(slash \o s) = Len(slash) + Len(s)
          /\ Stands(txt, slash \o s, p) <=> Stands(txt, slash, p) /\ Stands(txt, s, p + Len(slash))
      BY <2>5, <2>7, <3>1, StandsConcat
    <3> QED
      BY <2>4, <2>5, <2>7, <3>2
  <2>9. PICK ending \in Endings(max) : ending = [text |-> slash \o s, prefix |-> v]
    BY <2>4, <2>5, <2>6 DEF Endings
  <2>10. ending.text = slash \o s
    BY <2>9
  <2>11. p + Len(slash \o s) = n + 1
    BY <2>2, <2>4, <2>5, <2>8
  <2>12. EndsAt(txt, p, ending)
    BY <1>1, <2>8, <2>10, <2>11 DEF EndsAt
  <2> QED
    BY <2>12
<1> QED
  BY <1>2, <1>3

(***************************************************************************)
(* Where the next piece comes when these stand from q on.                  *)
(***************************************************************************)
Behind1(pieces, c, q) == IF pieces = <<>> THEN q ELSE (q + Len(Join(pieces, c))) + 1

LEMMA StandsJoin ==
  ASSUME NEW txt \in Texts0, NEW c \in 0 .. Junk, NEW q \in Nat \ {0},
         NEW pieces \in Seq(Texts0), NEW x \in Texts0
  PROVE  /\ Behind1(pieces, c, q) \in Nat \ {0}
         /\ Join(pieces, c) \in Texts0 /\ Join(Append(pieces, x), c) \in Texts0
         /\ q + Len(Join(Append(pieces, x), c)) = Behind1(pieces, c, q) + Len(x)
         /\ Stands(txt, Join(Append(pieces, x), c), q) <=>
              /\ pieces # <<>> => /\ Stands(txt, Join(pieces, c), q)
                                  /\ At(txt, q + Len(Join(pieces, c)), c)
              /\ Stands(txt, x, Behind1(pieces, c, q))
<1>1. PICK j \in Texts0 : j = Join(pieces, c)
  BY JoinAppend
<1>2. PICK l \in Nat, m \in Nat : l = Len(j) /\ m = Len(x)
  BY DEF Texts0
<1>3. PICK more : more = Join(Append(pieces, x), c)
  OBVIOUS
<1>4. more = IF pieces = <<>> THEN x ELSE j \o (<<c>> \o x)
  BY <1>1, <1>3, JoinAppend
<1>5. CASE pieces = <<>>
  BY <1>1, <1>2, <1>3, <1>4, <1>5 DEF Behind1
<1>6. CASE pieces # <<>>
  <2>1. PICK sep : sep = <<c>>
    OBVIOUS
  <2>2. PICK p \in Nat \ {0} : p = q + l
    BY <1>2
  <2>3. sep \in Texts0 /\ Len(sep) = 1 /\ (Stands(txt, sep, p) <=> At(txt, p, c))
    BY <2>1, StandsOne
  <2>4. PICK led : led = sep \o x
    OBVIOUS
  <2>5. p \in Nat /\ q \in Nat /\ p + 1 \in Nat \ {0}
    OBVIOUS
  <2>6. /\ sep \o x \in Texts0 /\ Len(sep \o x) = Len(sep) + Len(x)
        /\ Stands(txt, sep \o x, p) <=> Stands(txt, sep, p) /\ Stands(txt, x, p + Len(sep))
    BY <2>3, <2>5, StandsConcat
  <2>7. led \in Texts0 /\ Len(led) = 1 + m /\ (Stands(txt, led, p) <=> At(txt, p, c) /\ Stands(txt, x, p + 1))
    BY <1>2, <2>3, <2>4, <2>6
  <2>8. /\ j \o led \in Texts0 /\ Len(j \o led) = Len(j) + Len(led)
        /\ Stands(txt, j \o led, q) <=> Stands(txt, j, q) /\ Stands(txt, led, q + Len(j))
    BY <2>5, <2>7, StandsConcat
  <2>9. more = j \o led
    BY <1>4, <1>6, <2>1, <2>4
  <2>10. Behind1(pieces, c, q) = p + 1
    BY <1>1, <1>2, <1>6, <2>2 DEF Behind1
  <2>11. /\ more \in Texts0 /\ q + Len(more) = (p + 1) + m
         /\ Stands(txt, more, q) <=> Stands(txt, j, q) /\ At(txt, p, c) /\ Stands(txt, x, p + 1)
    <3>1. more \in Texts0
      BY <2>8, <2>9
    <3>2. Len(more) = l + (1 + m)
      BY <1>2, <2>7, <2>8, <2>9
    <3>3. q + (l + (1 + m)) = (p + 1) + m
      BY <2>2
    <3>4. q + Len(j) = p
      BY <1>2, <2>2
    <3>5. Stands(txt, more, q) <=> Stands(txt, j, q) /\ Stands(txt, led, p)
      BY <2>8, <2>9, <3>4
    <3> QED
      BY <2>7, <3>1, <3>2, <3>3, <3>5
  <2> QED
    BY <1>1, <1>2, <1>3, <1>6, <2>2, <2>5, <2>10, <2>11
<1> QED
  BY <1>5, <1>6
-----------------------------------------------------------------------------
(***************************************************************************)
(* The octets of an address and how they are printed.                      *)
(***************************************************************************)
Prints(addr) == [k \in 1 .. Len(addr) |-> Printed(addr[k])]

LEMMA PrintedText ==
  ASSUME NEW v \in Nat
  PROVE  Printed(v) \in Texts0 /\ Len(Printed(v)) \in Nat \ {0}
<1>1. Canonical(Printed(v))
  BY PrintedIs
<1>2. PICK s : s = Printed(v)
  OBVIOUS
<1>3. s \in Seq(Digit) /\ s # <<>>
  BY <1>1, <1>2 DEF Canonical
<1> QED
  BY <1>2, <1>3, Characters, SeqMonotonic, EmptySeq DEF Texts0

LEMMA PrintsIs ==
  ASSUME NEW addr \in Seq(Nat), NEW v \in Nat
  PROVE  /\ Prints(addr) \in Seq(Texts0) /\ (Prints(addr) = <<>> <=> addr = <<>>)
         /\ Prints(Append(addr, v)) = Append(Prints(addr), Printed(v))
<1>1. PICK n \in Nat : n = Len(addr)
  OBVIOUS
<1>2. PICK more \in Seq(Nat) : more = Append(addr, v)
  BY AppendProperties
<1>3. Len(more) = n + 1 /\ more[n + 1] = v /\ \A k \in 1 .. n : more[k] = addr[k]
  BY <1>1, <1>2, AppendProperties
<1>4. ASSUME NEW a \in Seq(Nat)
      PROVE  Prints(a) \in Seq(Texts0) /\ Len(Prints(a)) = Len(a)
  <2>1. PICK m \in Nat : m = Len(a)
    OBVIOUS
  <2>2. \A k \in 1 .. m : Printed(a[k]) \in Texts0
    <3>1. \A k \in 1 .. m : a[k] \in Nat
      BY <2>1
    <3> QED
      BY <3>1, PrintedText
  <2>3. PICK s : s = Prints(a)
    OBVIOUS
  <2>4. s \in [1 .. m -> Texts0]
    BY <2>1, <2>2, <2>3 DEF Prints
  <2>5. s \in Seq(Texts0) /\ Len(s) = m
    BY <2>4
  <2> QED
    BY <2>1, <2>3, <2>5
<1>5. PICK some, all : some = Prints(addr) /\ all = Prints(more)
  OBVIOUS
<1>6. some \in Seq(Texts0) /\ all \in Seq(Texts0) /\ Len(some) = n /\ Len(all) = n + 1
  BY <1>1, <1>3, <1>4, <1>5
<1>7. PICK last \in Texts0 : last = Printed(v)
  BY PrintedText
<1>8. PICK ext \in Seq(Texts0) : ext = Append(some, last)
  BY <1>6, AppendProperties
<1>9. Len(ext) = n + 1 /\ ext[n + 1] = last /\ \A k \in 1 .. n : ext[k] = some[k]
  BY <1>6, <1>8, AppendProperties
<1>10. ASSUME NEW k \in 1 .. n + 1 PROVE all[k] = ext[k]
  <2>1. all[k] = Printed(more[k])
    BY <1>3, <1>5 DEF Prints
  <2>2. CASE k = n + 1
    BY <1>3, <1>7, <1>9, <2>1, <2>2
  <2>3. CASE k # n + 1
    <3>1. k \in 1 .. n
      BY <2>3
    <3>2. some[k] = Printed(addr[k])
      BY <1>1, <1>5, <3>1 DEF Prints
    <3> QED
      BY <1>3, <1>9, <2>1, <3>1, <3>2
  <2> QED
    BY <2>2, <2>3
<1>11. all = ext
  BY <1>6, <1>9, <1>10, SeqEqual
<1>12. some = <<>> <=> addr = <<>>
  <2>1. some = <<>> <=> Len(some) = 0
    BY <1>6, EmptySeq
  <2>2. addr = <<>> <=> Len(addr) = 0
    BY EmptySeq
  <2> QED
    BY <1>1, <1>6, <2>1, <2>2
<1> QED
  BY <1>2, <1>5, <1>6, <1>7, <1>8, <1>11, <1>12

Spelled4(addr) == Join(Prints(addr), Dot)
\* Where the next octet comes.
Behind4(addr) == Behind1(Prints(addr), Dot, 1)

LEMMA Spelled4Is ==
  ASSUME NEW txt \in Texts0, NEW addr \in Seq(Nat), NEW v \in Nat
  PROVE  /\ Behind4(addr) \in Nat \ {0}
         /\ Spelled4(addr) \in Texts0 /\ Spelled4(Append(addr, v)) \in Texts0
         /\ 1 + Len(Spelled4(Append(addr, v))) = Behind4(addr) + Len(Printed(v))
         /\ Behind4(addr) = IF addr = <<>> THEN 1 ELSE (1 + Len(Spelled4(addr))) + 1
         /\ Stands(txt, Spelled4(Append(addr, v)), 1) <=>
              /\ addr # <<>> => /\ Stands(txt, Spelled4(addr), 1)
                                /\ At(txt, 1 + Len(Spelled4(addr)), Dot)
              /\ Stands(txt, Printed(v), Behind4(addr))
<1>1. PICK pieces \in Seq(Texts0) : pieces = Prints(addr) /\ (pieces = <<>> <=> addr = <<>>)
  BY PrintsIs
<1>2. PICK x \in Texts0 : x = Printed(v)
  BY PrintedText
<1>3. Prints(Append(addr, v)) = Append(pieces, x)
  BY <1>1, <1>2, PrintsIs
<1>4. PICK q \in Nat \ {0} : q = 1
  OBVIOUS
<1>5. Dot \in 0 .. Junk
  BY Characters
<1>6. /\ Behind1(pieces, Dot, q) \in Nat \ {0}
      /\ Join(pieces, Dot) \in Texts0 /\ Join(Append(pieces, x), Dot) \in Texts0
      /\ q + Len(Join(Append(pieces, x), Dot)) = Behind1(pieces, Dot, q) + Len(x)
      /\ Stands(txt, Join(Append(pieces, x), Dot), q) <=>
              /\ pieces # <<>> => /\ Stands(txt, Join(pieces, Dot), q)
                                  /\ At(txt, q + Len(Join(pieces, Dot)), Dot)
              /\ Stands(txt, x, Behind1(pieces, Dot, q))
  BY <1>5, StandsJoin
<1>7. Spelled4(addr) = Join(pieces, Dot) /\ Spelled4(Append(addr, v)) = Join(Append(pieces, x), Dot)
      /\ Behind4(addr) = Behind1(pieces, Dot, q)
  BY <1>1, <1>3, <1>4 DEF Spelled4, Behind4
<1>8. Behind1(pieces, Dot, q) = IF pieces = <<>> THEN q ELSE (q + Len(Join(pieces, Dot))) + 1
  BY DEF Behind1
<1> QED
  BY <1>1, <1>2, <1>4, <1>6, <1>7, <1>8

(***************************************************************************)
(* The octets that the reader has, and the loop that reads them.           *)
(***************************************************************************)
Byte == 0 .. ByteRange - 1

LEMMA ByteIs == ByteRange \in Nat \ {0} /\ Byte \subseteq Nat /\ Octets \in Nat \ {0} /\ ByteBits \in Nat
<1>1. ByteBits \in Nat /\ Octets \in Nat \ {0}
  BY IpAssumption
<1>2. 2 \in Nat \ {0}
  OBVIOUS
<1>3. ByteRange \in Nat \ {0}
  BY <1>1, <1>2, PowPositive DEF ByteRange
<1> QED
  BY <1>1, <1>3 DEF Byte

OctetsRead(addr, p) ==
  /\ addr \in Seq(Byte) /\ Len(addr) <= Octets
  /\ Stands(text, Spelled4(addr), 1)
  /\ p = IF Len(addr) = Octets THEN 1 + Len(Spelled4(addr)) ELSE Behind4(addr)
  /\ addr # <<>> /\ Len(addr) < Octets => At(text, 1 + Len(Spelled4(addr)), Dot)

OctetReads ==
  {Refused} \cup {[addr |-> a, p |-> q] : a \in Seq(Byte), q \in 1 .. Len(text) + 1}

\* A step of the reader: what it takes is an octet as it is printed.
LEMMA OctetStep ==
  ASSUME text \in Texts0, NEW addr \in Seq(Byte), NEW p \in 1 .. Len(text) + 1,
         NEW next, next = NextOctet(text, [addr |-> addr, p |-> p]), next # Refused
  PROVE  \E v \in Byte :
           /\ Stands(text, Printed(v), p)
           /\ next = [addr |-> Append(addr, v),
                      p    |-> IF Len(addr) + 1 = Octets THEN p + Len(Printed(v))
                               ELSE (p + Len(Printed(v))) + 1]
           /\ Len(addr) + 1 # Octets => At(text, p + Len(Printed(v)), Dot)
           /\ next.p \in 1 .. Len(text) + 1
<1>1. PICK read : read = [addr |-> addr, p |-> p]
  OBVIOUS
<1>2. read.addr = addr /\ read.p = p
  BY <1>1
<1>3. read # Refused
  BY <1>2 DEF Refused
<1>4. PICK end, v : end = RunEnd(text, p, Digit) /\ v = BoundedDec(text, p, ByteRange - 1)
  OBVIOUS
<1>5. next = PutOctet(text, end, v, addr)
  BY <1>1, <1>2, <1>3, <1>4 DEF NextOctet
<1>6. v # Overflow
  BY <1>5 DEF PutOctet
<1>7. ByteRange - 1 \in Nat
  BY ByteIs
<1>8. /\ v \in 0 .. ByteRange - 1 /\ Len(Printed(v)) \in Nat \ {0} /\ Stands(text, Printed(v), p)
      /\ end = p + Len(Printed(v))
  BY <1>4, <1>6, <1>7, BoundedWritten
<1>9. PICK n \in Nat : n = Len(text) /\ DOMAIN text = 1 .. n
  BY DEF Texts0
<1>10. end \in 1 .. n + 1
  BY <1>8, <1>9 DEF Stands
<1>11. v \in Byte
  BY <1>8 DEF Byte
<1>12. CASE Len(addr) + 1 = Octets
  <2>1. next = [addr |-> Append(addr, v), p |-> end]
    BY <1>5, <1>6, <1>12 DEF PutOctet
  <2>2. next.p = end
    BY <2>1
  <2> QED
    BY <1>8, <1>9, <1>10, <1>11, <1>12, <2>1, <2>2
<1>13. CASE Len(addr) + 1 # Octets
  <2>1. At(text, end, Dot)
    BY <1>5, <1>6, <1>13 DEF PutOctet
  <2>2. next = [addr |-> Append(addr, v), p |-> end + 1]
    BY <1>5, <1>6, <1>13, <2>1 DEF PutOctet
  <2>3. next.p = end + 1 /\ end + 1 \in 1 .. n + 1
    BY <1>9, <2>1, <2>2 DEF At
  <2> QED
    BY <1>8, <1>9, <1>11, <1>13, <2>1, <2>2, <2>3
<1> QED
  BY <1>12, <1>13

OctetTurns(w) ==
  /\ w[0] = [addr |-> <<>>, p |-> 1]
  /\ \A k \in 0 .. Octets - 1 : w[k + 1] = NextOctet(text, w[k])

LEMMA OctetsAre ==
  ASSUME text \in Texts0
  PROVE  \E w : OctetTurns(w) /\ OctetsOf(text) = w[Octets]
<1>1. PICK n \in Nat \ {0} : n = Octets
  BY ByteIs
<1> DEFINE first == [addr |-> <<>>, p |-> 1]
           Is(w) == w = [k \in 0 .. Octets |-> IF k = 0 THEN [addr |-> <<>>, p |-> 1]
                                               ELSE NextOctet(text, w[k - 1])]
           onward == [k \in 0 .. n - 1 |-> [r \in OctetReads |-> NextOctet(text, r)]]
<1>2. first \in OctetReads
  <2>1. PICK a \in Seq(Byte), q \in 1 .. Len(text) + 1 : a = <<>> /\ q = 1
    <3>1. <<>> \in Seq(Byte) /\ 1 \in 1 .. Len(text) + 1
      BY DEF Texts0
    <3> QED
      BY <3>1
  <2>2. first = [addr |-> a, p |-> q]
    BY <2>1
  <2> HIDE DEF first
  <2> QED
    BY <2>2 DEF OctetReads
<1>3. \A r \in OctetReads : NextOctet(text, r) \in OctetReads
  <2>1. SUFFICES ASSUME NEW r \in OctetReads PROVE NextOctet(text, r) \in OctetReads
    OBVIOUS
  <2>2. CASE r = Refused
    BY <2>1, <2>2 DEF NextOctet
  <2>3. CASE r # Refused
    <3>1. PICK a \in Seq(Byte), q \in 1 .. Len(text) + 1 : r = [addr |-> a, p |-> q]
      BY <2>3 DEF OctetReads
    <3>2. PICK next : next = NextOctet(text, r)
      OBVIOUS
    <3>3. CASE next = Refused
      BY <3>2, <3>3 DEF OctetReads
    <3>4. CASE next # Refused
      <4>1. PICK v \in Byte : /\ next.p \in 1 .. Len(text) + 1
                              /\ next = [addr |-> Append(a, v),
                                         p    |-> IF Len(a) + 1 = Octets THEN q + Len(Printed(v))
                                                  ELSE (q + Len(Printed(v))) + 1]
        <5>1. next = NextOctet(text, [addr |-> a, p |-> q])
          BY <3>1, <3>2
        <5> HIDE DEF first, Is, onward
        <5>2. \E v \in Byte :
               /\ Stands(text, Printed(v), q)
               /\ next = [addr |-> Append(a, v),
                          p    |-> IF Len(a) + 1 = Octets THEN q + Len(Printed(v))
                                   ELSE (q + Len(Printed(v))) + 1]
               /\ Len(a) + 1 # Octets => At(text, q + Len(Printed(v)), Dot)
               /\ next.p \in 1 .. Len(text) + 1
          BY <3>4, <5>1, OctetStep
        <5> QED
          BY <5>2
      <4>2. PICK b, z : b = Append(a, v) /\ z = next.p
        OBVIOUS
      <4>3. b \in Seq(Byte) /\ z \in 1 .. Len(text) + 1
        BY <4>1, <4>2, AppendProperties
      <4>4. next = [addr |-> b, p |-> z]
        BY <4>1, <4>2
      <4> QED
        BY <3>2, <4>3, <4>4 DEF OctetReads
    <3> QED
      BY <3>3, <3>4
  <2> QED
    BY <2>2, <2>3
<1>4. onward \in Steps(n, OctetReads)
  BY <1>3 DEF Steps
<1>5. PICK h : Stepwise(h, n, OctetReads, first, onward)
  <2> HIDE DEF onward, first
  <2> QED
    BY <1>1, <1>2, <1>4, Recursion
<1>6. /\ h \in [0 .. n -> OctetReads] /\ h[0] = first
      /\ \A k \in 0 .. n - 1 : h[k + 1] = NextOctet(text, h[k])
  <2>1. /\ h \in [0 .. n -> OctetReads] /\ h[0] = first
        /\ \A k \in 0 .. n - 1 : h[k + 1] = onward[k][h[k]]
    BY <1>5 DEF Stepwise
  <2>2. ASSUME NEW k \in 0 .. n - 1 PROVE h[k + 1] = NextOctet(text, h[k])
    <3>1. h[k] \in OctetReads
      BY <2>1
    <3>2. onward[k][h[k]] = NextOctet(text, h[k])
      BY <3>1
    <3> QED
      BY <2>1, <3>2
  <2> HIDE DEF first
  <2> QED
    BY <2>1, <2>2
<1>7. Is(h)
  <2>1. ASSUME NEW i \in 0 .. n, i # 0 PROVE h[i] = NextOctet(text, h[i - 1])
    <3>1. i - 1 \in 0 .. n - 1 /\ (i - 1) + 1 = i
      BY <2>1
    <3> QED
      BY <1>6, <3>1
  <2> QED
    BY <1>1, <1>6, <2>1
<1>8. PICK w : w = CHOOSE v : Is(v)
  OBVIOUS
<1>9. Is(w)
  <2> HIDE DEF Is
  <2> QED
    BY <1>7, <1>8
<1>10. OctetsOf(text) = w[Octets]
  BY <1>8 DEF OctetsOf
<1>11. w[0] = first /\ \A k \in 0 .. n - 1 : w[k + 1] = NextOctet(text, w[k])
  <2>1. \A i \in 0 .. n : w[i] = IF i = 0 THEN [addr |-> <<>>, p |-> 1] ELSE NextOctet(text, w[i - 1])
    BY <1>1, <1>9
  <2>2. ASSUME NEW k \in 0 .. n - 1 PROVE w[k + 1] = NextOctet(text, w[k])
    <3>1. k + 1 \in 0 .. n /\ k + 1 # 0 /\ (k + 1) - 1 = k
      OBVIOUS
    <3> HIDE DEF Is
    <3> QED
      BY <2>1, <3>1
  <2>3. w[0] = first
    BY <1>1, <2>1
  <2> QED
    BY <2>2, <2>3
<1> QED
  BY <1>1, <1>10, <1>11 DEF OctetTurns

LEMMA Fronts ==
  ASSUME NEW S, NEW s \in Seq(S), NEW k \in 0 .. Len(s)
  PROVE  /\ SubSeq(s, 1, k) \in Seq(S) /\ Len(SubSeq(s, 1, k)) = k
         /\ (SubSeq(s, 1, k) = <<>> <=> k = 0)
         /\ SubSeq(s, 1, Len(s)) = s
         /\ k < Len(s) => SubSeq(s, 1, k + 1) = Append(SubSeq(s, 1, k), s[k + 1])
<1>1. PICK n \in Nat : n = Len(s)
  OBVIOUS
<1>2. \A i \in 1 .. n : s[i] \in S
  BY <1>1, ElementOfSeq
<1>3. ASSUME NEW j \in 0 .. n
      PROVE  /\ SubSeq(s, 1, j) \in Seq(S) /\ Len(SubSeq(s, 1, j)) = j
             /\ \A i \in 1 .. j : SubSeq(s, 1, j)[i] = s[i]
  <2>1. 1 \in Int /\ j \in Int /\ \A i \in 1 .. j : s[i] \in S
    BY <1>2
  <2>2. /\ SubSeq(s, 1, j) \in Seq(S)
        /\ Len(SubSeq(s, 1, j)) = IF 1 <= j THEN (j - 1) + 1 ELSE 0
        /\ \A i \in 1 .. (j - 1) + 1 : SubSeq(s, 1, j)[i] = s[(1 + i) - 1]
    BY <2>1, SubSeqProperties
  <2>3. (IF 1 <= j THEN (j - 1) + 1 ELSE 0) = j /\ (j - 1) + 1 = j /\ \A i \in 1 .. j : (1 + i) - 1 = i
    OBVIOUS
  <2> QED
    BY <2>2, <2>3
<1>4. PICK a : a = SubSeq(s, 1, k)
  OBVIOUS
<1>5. a \in Seq(S) /\ Len(a) = k /\ \A i \in 1 .. k : a[i] = s[i]
  BY <1>1, <1>3, <1>4
<1>6. SubSeq(s, 1, n) = s
  <2>1. PICK b : b = SubSeq(s, 1, n)
    OBVIOUS
  <2>2. b \in Seq(S) /\ Len(b) = n /\ \A i \in 1 .. n : b[i] = s[i]
    BY <1>3, <2>1
  <2> QED
    BY <1>1, <2>1, <2>2, SeqEqual
<1>7. ASSUME k < n PROVE SubSeq(s, 1, k + 1) = Append(a, s[k + 1])
  <2>1. PICK b : b = SubSeq(s, 1, k + 1)
    OBVIOUS
  <2>2. k + 1 \in 0 .. n /\ k + 1 \in 1 .. n
    BY <1>1, <1>7
  <2>3. b \in Seq(S) /\ Len(b) = k + 1 /\ \A i \in 1 .. k + 1 : b[i] = s[i]
    BY <1>3, <2>1, <2>2
  <2>4. PICK x \in S : x = s[k + 1]
    BY <1>2, <2>2
  <2>5. PICK c \in Seq(S) : c = Append(a, x)
    BY <1>5, AppendProperties
  <2>6. Len(c) = k + 1 /\ c[k + 1] = x /\ \A i \in 1 .. k : c[i] = a[i]
    BY <1>5, <2>5, AppendProperties
  <2>7. \A i \in 1 .. k + 1 : b[i] = c[i]
    <3>1. \A i \in 1 .. k + 1 : i \in 1 .. k \/ i = k + 1
      OBVIOUS
    <3> QED
      BY <1>5, <2>3, <2>4, <2>6, <3>1
  <2>8. b = c
    BY <2>3, <2>5, <2>6, <2>7, SeqEqual
  <2> QED
    BY <2>1, <2>4, <2>5, <2>8
<1>8. a = <<>> <=> k = 0
  BY <1>5, EmptySeq
<1> QED
  BY <1>1, <1>4, <1>5, <1>6, <1>7, <1>8

(***************************************************************************)
(* What the reader has taken is printed in front of where it reads on.     *)
(***************************************************************************)
LEMMA OctetsReadOn ==
  ASSUME text \in Texts0, NEW addr, NEW p, OctetsRead(addr, p)
  PROVE  p \in 1 .. Len(text) + 1
<1>1. PICK n \in Nat : n = Len(text) /\ DOMAIN text = 1 .. n
  BY DEF Texts0
<1>2. addr \in Seq(Nat) /\ 0 \in Nat /\ Octets # 0
  BY ByteIs, SeqMonotonic DEF OctetsRead
<1>3. PICK l \in Nat : l = Len(Spelled4(addr))
  <2>1. Spelled4(addr) \in Texts0
    BY <1>2, Spelled4Is
  <2> QED
    BY <2>1 DEF Texts0
<1>4. Behind4(addr) = IF addr = <<>> THEN 1 ELSE (1 + l) + 1
  BY <1>2, <1>3, Spelled4Is
<1>5. CASE Len(addr) = Octets
  BY <1>1, <1>3, <1>5 DEF OctetsRead, Stands
<1>6. CASE Len(addr) # Octets
  <2>1. addr # <<>> => 1 + l \in 1 .. n
    <3>1. Len(addr) < Octets
      BY <1>2, <1>6, ByteIs DEF OctetsRead
    <3> QED
      BY <1>1, <1>3, <3>1 DEF OctetsRead, At
  <2> QED
    BY <1>1, <1>4, <1>6, <2>1 DEF OctetsRead
<1> QED
  BY <1>5, <1>6

LEMMA OctetsBack ==
  ASSUME text \in Texts0, NEW addr, NEW p, OctetsRead(addr, p), Len(addr) < Octets,
         NEW next, next = NextOctet(text, [addr |-> addr, p |-> p]), next # Refused
  PROVE  \E v \in Byte : next.addr = Append(addr, v) /\ OctetsRead(next.addr, next.p)
                         /\ Len(next.addr) = Len(addr) + 1 /\ next = [addr |-> next.addr, p |-> next.p]
<1>1. addr \in Seq(Byte) /\ addr \in Seq(Nat) /\ p \in 1 .. Len(text) + 1 /\ p \in Nat
  <2>1. addr \in Seq(Byte)
    BY DEF OctetsRead
  <2>2. addr \in Seq(Nat)
    BY <2>1, ByteIs, SeqMonotonic
  <2>3. p \in 1 .. Len(text) + 1
    BY OctetsReadOn
  <2> QED
    BY <2>1, <2>2, <2>3
<1>2. PICK v \in Byte :
           /\ Stands(text, Printed(v), p)
           /\ next = [addr |-> Append(addr, v),
                      p    |-> IF Len(addr) + 1 = Octets THEN p + Len(Printed(v))
                               ELSE (p + Len(Printed(v))) + 1]
           /\ Len(addr) + 1 # Octets => At(text, p + Len(Printed(v)), Dot)
  BY <1>1, OctetStep
<1>3. PICK more \in Seq(Byte) : more = Append(addr, v)
  BY <1>1, AppendProperties
<1>4. PICK m \in Nat : m = Len(addr) /\ Len(more) = m + 1 /\ more # <<>>
  <2>1. Len(more) = Len(addr) + 1 /\ Len(addr) \in Nat
    BY <1>1, <1>3, AppendProperties
  <2>2. more # <<>>
    BY <2>1, EmptySeq
  <2> QED
    BY <2>1, <2>2
<1>5. v \in Nat /\ m < Octets /\ Octets \in Nat
  BY <1>4, ByteIs
<1>6. p = Behind4(addr)
  BY <1>4, <1>5 DEF OctetsRead
<1>7. /\ Spelled4(more) \in Texts0
      /\ 1 + Len(Spelled4(more)) = Behind4(addr) + Len(Printed(v))
      /\ Stands(text, Spelled4(more), 1) <=>
              /\ addr # <<>> => /\ Stands(text, Spelled4(addr), 1)
                                /\ At(text, 1 + Len(Spelled4(addr)), Dot)
              /\ Stands(text, Printed(v), Behind4(addr))
  BY <1>1, <1>3, <1>5, Spelled4Is
<1>8. Stands(text, Spelled4(more), 1)
  BY <1>2, <1>4, <1>5, <1>6, <1>7 DEF OctetsRead
<1>9. PICK e : e = 1 + Len(Spelled4(more)) /\ e = p + Len(Printed(v))
  BY <1>6, <1>7
<1>10. Behind4(more) = e + 1
  <2>1. more \in Seq(Nat)
    BY <1>3, ByteIs, SeqMonotonic
  <2>2. Behind4(more) = IF more = <<>> THEN 1 ELSE (1 + Len(Spelled4(more))) + 1
    BY <1>5, <2>1, Spelled4Is
  <2> QED
    BY <1>4, <1>9, <2>2
<1>11. next.addr = more /\ next.p = (IF m + 1 = Octets THEN e ELSE e + 1)
       /\ next = [addr |-> next.addr, p |-> next.p]
  BY <1>2, <1>3, <1>4, <1>9
<1>12. OctetsRead(more, next.p)
  <2>1. m + 1 <= Octets
    BY <1>5
  <2>2. m + 1 < Octets => At(text, e, Dot)
    BY <1>2, <1>4, <1>5, <1>9
  <2> QED
    BY <1>4, <1>8, <1>9, <1>10, <1>11, <2>1, <2>2 DEF OctetsRead
<1> QED
  BY <1>3, <1>4, <1>11, <1>12

\* The text and the value of an address and an ending.
Spelling4(addr, ending) ==
  [text |-> PrintedOctets(addr) \o ending.text, ip |-> IpValue(FALSE, addr, ending.prefix)]

LEMMA Ipv4SpellingsAre ==
  Ipv4Spellings = {Spelling4(addr, ending) : addr \in [1 .. Octets -> 0 .. ByteRange - 1],
                                             ending \in Endings(Octets * ByteBits)}
BY DEF Ipv4Spellings, Spelling4

LEMMA Ipv4Written ==
  ASSUME text \in Texts0, ParseIpv4(text) # ErrorValue
  PROVE  text \in Ipv4Texts
<1>1. PICK w : OctetTurns(w) /\ OctetsOf(text) = w[Octets]
  BY OctetsAre
<1>2. Octets \in Nat /\ Octets # 0
  BY ByteIs
<1> DEFINE Got(k) == \/ w[k] = Refused
                     \/ \E a, q : w[k] = [addr |-> a, p |-> q] /\ OctetsRead(a, q) /\ Len(a) = k
           T == {k \in 0 .. Octets : Got(k)}
<1>3. 0 \in T
  <2>1. w[0] = [addr |-> <<>>, p |-> 1]
    BY <1>1 DEF OctetTurns
  <2>2. PICK a, q : a = <<>> /\ q = 1
    OBVIOUS
  <2>3. OctetsRead(a, q)
    <3>1. a \in Seq(Byte) /\ Len(a) = 0 /\ a \in Seq(Nat) /\ 0 \in Nat
      BY <2>2
    <3>2. Behind4(a) = 1
      BY <2>2, <3>1, Spelled4Is
    <3>3. Spelled4(a) = <<>>
      <4>1. Prints(a) = <<>>
        BY <2>2, <3>1, PrintsIs
      <4>2. Join(<<>>, Dot) = <<>>
        <5>1. Dot \in 0 .. Junk /\ <<>> \in Seq(Texts0) /\ <<>> \in Texts0
          BY Characters DEF Texts0
        <5> QED
          BY <5>1, JoinAppend
      <4> QED
        BY <4>1, <4>2 DEF Spelled4
    <3>4. Stands(text, <<>>, 1)
      <4>1. 1 <= Len(text) + 1
        BY DEF Texts0
      <4> QED
        BY <4>1, StandsEmpty
    <3> QED
      BY <1>2, <2>2, <3>1, <3>2, <3>3, <3>4 DEF OctetsRead
  <2>4. Len(a) = 0 /\ 0 \in 0 .. Octets
    BY <1>2, <2>2
  <2>5. Got(0)
    BY <2>1, <2>2, <2>3, <2>4
  <2> HIDE DEF Got
  <2> QED
    BY <2>4, <2>5
<1>4. ASSUME NEW k \in 0 .. Octets - 1, k \in T PROVE k + 1 \in T
  <2>1. w[k + 1] = NextOctet(text, w[k]) /\ k + 1 \in 0 .. Octets /\ k < Octets
    BY <1>1, <1>2 DEF OctetTurns
  <2>2. Got(k)
    BY <1>4
  <2>3. Got(k + 1)
    <3>1. CASE w[k] = Refused
      BY <2>1, <3>1 DEF NextOctet
    <3>2. CASE w[k] # Refused
      <4>1. PICK a, q : w[k] = [addr |-> a, p |-> q] /\ OctetsRead(a, q) /\ Len(a) = k
        BY <2>2, <3>2
      <4>2. PICK next : next = w[k + 1]
        OBVIOUS
      <4>3. CASE next = Refused
        BY <4>2, <4>3
      <4>4. CASE next # Refused
        <5>1. next = NextOctet(text, [addr |-> a, p |-> q]) /\ Len(a) < Octets
          BY <2>1, <4>1, <4>2
        <5>2. \E v \in Byte : next.addr = Append(a, v) /\ OctetsRead(next.addr, next.p)
                         /\ Len(next.addr) = Len(a) + 1 /\ next = [addr |-> next.addr, p |-> next.p]
          <6> HIDE DEF T, Got
          <6> QED
            BY <4>1, <4>4, <5>1, OctetsBack
        <5> QED
          BY <4>1, <4>2, <5>2
      <4> QED
        BY <4>3, <4>4
    <3> QED
      BY <3>1, <3>2
  <2> HIDE DEF Got
  <2> QED
    BY <2>1, <2>3
<1>5. Got(Octets)
  <2>1. \A k \in 0 .. Octets : k \in T
    <3> HIDE DEF T
    <3> QED
      BY <1>2, <1>3, <1>4, UpToNumber
  <2>2. Octets \in T
    <3> HIDE DEF T
    <3> QED
      BY <1>2, <2>1
  <2> HIDE DEF Got
  <2> QED
    BY <2>2
<1>6. PICK octets : octets = OctetsOf(text)
  OBVIOUS
<1>7. PICK max : max = Octets * ByteBits
  OBVIOUS
<1>8. octets # Refused /\ PrefixAt(text, octets.p, max) # Overflow
  BY <1>6, <1>7 DEF ParseIpv4, PrefixBehind, Ipv4Of
<1>9. PICK a, q : octets = [addr |-> a, p |-> q] /\ OctetsRead(a, q) /\ Len(a) = Octets
  BY <1>1, <1>5, <1>6, <1>8
<1>10. octets.p = q /\ q \in 1 .. Len(text) + 1
  BY <1>9, OctetsReadOn
<1>11. max \in Nat
  BY <1>7, ByteIs, SMTT(30)
<1>12. PICK ending \in Endings(max) : EndsAt(text, q, ending)
  BY <1>8, <1>10, <1>11, PrefixWritten
<1>13. a \in Seq(Byte) /\ a \in Seq(Nat) /\ Stands(text, Spelled4(a), 1) /\ q = 1 + Len(Spelled4(a))
  BY <1>9, ByteIs, SeqMonotonic DEF OctetsRead
<1>14. PICK head \in Texts0 : head = Spelled4(a)
  <2>1. 0 \in Nat
    OBVIOUS
  <2> QED
    BY <1>13, <2>1, Spelled4Is
<1>15. PICK tail \in Texts0 : tail = ending.text
  <2>1. q \in Nat \ {0}
    BY <1>10
  <2> QED
    BY <1>11, <1>12, <2>1, PrefixRead
<1>16. /\ head \o tail \in Texts0 /\ Len(head \o tail) = Len(head) + Len(tail)
       /\ Stands(text, head \o tail, 1) <=> Stands(text, head, 1) /\ Stands(text, tail, 1 + Len(head))
  <2>1. 1 \in Nat
    OBVIOUS
  <2> QED
    BY <2>1, StandsConcat
<1>17. text = head \o tail
  <2>1. Stands(text, head \o tail, 1)
    BY <1>12, <1>13, <1>14, <1>15, <1>16 DEF EndsAt
  <2>2. q + Len(tail) = Len(text) + 1 /\ q = 1 + Len(head)
    BY <1>12, <1>13, <1>14, <1>15 DEF EndsAt
  <2>3. Len(head) \in Nat /\ Len(tail) \in Nat /\ Len(text) \in Nat
    BY DEF Texts0
  <2>4. 1 + Len(head \o tail) = Len(text) + 1
    BY <1>16, <2>2, <2>3
  <2> QED
    BY <1>16, <2>1, <2>4, StandsWhole
<1>18. a \in [1 .. Octets -> 0 .. ByteRange - 1]
  <2>1. a \in [1 .. Len(a) -> Byte]
    BY <1>13
  <2> QED
    BY <1>9, <2>1 DEF Byte
<1>19. head = PrintedOctets(a)
  BY <1>9, <1>14 DEF Spelled4, Prints, PrintedOctets
<1>20. Spelling4(a, ending) \in Ipv4Spellings
  <2>1. ending \in Endings(Octets * ByteBits)
    BY <1>7, <1>12
  <2> QED
    BY <1>18, <2>1, Ipv4SpellingsAre
<1> QED
  BY <1>15, <1>17, <1>19, <1>20 DEF Ipv4Texts, Spelling4

(***************************************************************************)
(* Where each of the pieces comes that stand somewhere with separators     *)
(* between them.                                                           *)
(***************************************************************************)
Laid(txt, pieces, c, q, at) ==
  /\ \A k \in 1 .. Len(pieces) : at[k] \in Nat \ {0} /\ Stands(txt, pieces[k], at[k])
  /\ \A k \in 1 .. Len(pieces) - 1 : /\ At(txt, at[k] + Len(pieces[k]), c)
                                     /\ at[k + 1] = (at[k] + Len(pieces[k])) + 1
  /\ pieces # <<>> => at[1] = q

\* They end where all of them end.
LaidTo(pieces, c, q, at) ==
  pieces # <<>> => at[Len(pieces)] + Len(pieces[Len(pieces)]) = q + Len(Join(pieces, c))


\* The first k of the pieces.
Upto(pieces, k) == SubSeq(pieces, 1, k)

LEMMA UptoIs ==
  ASSUME NEW pieces \in Seq(Texts0), NEW k \in 0 .. Len(pieces)
  PROVE  /\ Upto(pieces, k) \in Seq(Texts0)
         /\ Len(Upto(pieces, k)) = k /\ (Upto(pieces, k) = <<>> <=> k = 0)
         /\ k < Len(pieces) => Upto(pieces, k + 1) = Append(Upto(pieces, k), pieces[k + 1])
         /\ Upto(pieces, Len(pieces)) = pieces
BY Fronts DEF Upto

LEMMA UptoStands ==
  ASSUME NEW txt \in Texts0, NEW c \in 0 .. Junk, NEW q \in Nat \ {0},
         NEW pieces \in Seq(Texts0), NEW k \in 0 .. Len(pieces) - 1
  PROVE  /\ Behind1(Upto(pieces, k), c, q) \in Nat \ {0}
         /\ q + Len(Join(Upto(pieces, k + 1), c)) = Behind1(Upto(pieces, k), c, q) + Len(pieces[k + 1])
         /\ Stands(txt, Join(Upto(pieces, k + 1), c), q) <=>
              /\ k # 0 => /\ Stands(txt, Join(Upto(pieces, k), c), q)
                          /\ At(txt, q + Len(Join(Upto(pieces, k), c)), c)
              /\ Stands(txt, pieces[k + 1], Behind1(Upto(pieces, k), c, q))
<1>1. k \in 0 .. Len(pieces) /\ k < Len(pieces) /\ k + 1 \in 1 .. Len(pieces)
  OBVIOUS
<1>2. PICK f \in Seq(Texts0) : f = Upto(pieces, k) /\ (f = <<>> <=> k = 0)
  BY <1>1, UptoIs
<1>3. PICK x \in Texts0 : x = pieces[k + 1]
  BY <1>1, ElementOfSeq
<1>4. Upto(pieces, k + 1) = Append(f, x)
  BY <1>1, <1>2, <1>3, UptoIs
<1>5. /\ Behind1(f, c, q) \in Nat \ {0}
      /\ q + Len(Join(Append(f, x), c)) = Behind1(f, c, q) + Len(x)
      /\ Stands(txt, Join(Append(f, x), c), q) <=>
           /\ f # <<>> => /\ Stands(txt, Join(f, c), q)
                          /\ At(txt, q + Len(Join(f, c)), c)
           /\ Stands(txt, x, Behind1(f, c, q))
  BY StandsJoin, SMTT(30)
<1> QED
  BY <1>2, <1>3, <1>4, <1>5

LEMMA JoinLaid ==
  ASSUME NEW txt \in Texts0, NEW c \in 0 .. Junk, NEW q \in Nat \ {0},
         NEW pieces \in Seq(Texts0), Stands(txt, Join(pieces, c), q)
  PROVE  \E at : Laid(txt, pieces, c, q, at) /\ LaidTo(pieces, c, q, at)
<1>1. PICK n \in Nat : n = Len(pieces)
  OBVIOUS
<1>2. ASSUME NEW k \in 0 .. n
      PROVE  (Upto(pieces, k) = <<>> <=> k = 0) /\ Upto(pieces, n) = pieces
  BY <1>1, UptoIs
<1>3. Upto(pieces, n) = pieces
  BY <1>1, UptoIs
<1>4. ASSUME NEW k \in 0 .. n - 1
      PROVE  /\ Behind1(Upto(pieces, k), c, q) \in Nat \ {0}
             /\ q + Len(Join(Upto(pieces, k + 1), c)) = Behind1(Upto(pieces, k), c, q) + Len(pieces[k + 1])
             /\ Stands(txt, Join(Upto(pieces, k + 1), c), q) <=>
                  /\ k # 0 => /\ Stands(txt, Join(Upto(pieces, k), c), q)
                              /\ At(txt, q + Len(Join(Upto(pieces, k), c)), c)
                  /\ Stands(txt, pieces[k + 1], Behind1(Upto(pieces, k), c, q))
  <2>1. k \in 0 .. Len(pieces) - 1
    BY <1>1
  <2> QED
    BY <2>1, UptoStands
<1> DEFINE Fine(k) == k # 0 => Stands(txt, Join(Upto(pieces, k), c), q)
           T == {i \in 0 .. n : Fine(n - i)}
<1>5. \A k \in 0 .. n : Fine(k)
  <2>1. 0 \in T
    <3>1. n - 0 = n /\ 0 \in 0 .. n
      BY <1>1
    <3> QED
      BY <1>3, <3>1
  <2>2. ASSUME NEW i \in 0 .. n - 1, i \in T PROVE i + 1 \in T
    <3>1. PICK k \in 0 .. n - 1 : k = n - (i + 1) /\ n - i = k + 1
      BY <1>1, SMTT(30)
    <3>2. Fine(k + 1)
      BY <2>2, <3>1
    <3>3. Fine(k)
      BY <1>4, <3>2
    <3>4. i + 1 \in 0 .. n
      BY <1>1
    <3> HIDE DEF Fine
    <3> QED
      BY <3>1, <3>3, <3>4
  <2>3. \A i \in 0 .. n : i \in T
    <3> HIDE DEF T
    <3> QED
      BY <1>1, <2>1, <2>2, UpToNumber
  <2>4. ASSUME NEW k \in 0 .. n PROVE Fine(k)
    <3>1. n - k \in 0 .. n /\ n - (n - k) = k
      BY <1>1
    <3>2. n - k \in T
      BY <2>3, <3>1
    <3>3. Fine(n - (n - k))
      BY <3>2
    <3> HIDE DEF Fine
    <3> QED
      BY <3>1, <3>3
  <2> QED
    BY <2>4
<1>6. PICK at : at = [k \in 1 .. n |-> Behind1(Upto(pieces, k - 1), c, q)]
  OBVIOUS
<1>7. ASSUME NEW k \in 1 .. n
      PROVE  /\ at[k] \in Nat \ {0} /\ Stands(txt, pieces[k], at[k])
             /\ at[k] + Len(pieces[k]) = q + Len(Join(Upto(pieces, k), c))
             /\ at[k] = Behind1(Upto(pieces, k - 1), c, q)
  <2>1. PICK i \in 0 .. n - 1 : i = k - 1 /\ i + 1 = k
    BY <1>1
  <2>2. Stands(txt, Join(Upto(pieces, i + 1), c), q)
    BY <1>5, <2>1
  <2>3. /\ Behind1(Upto(pieces, i), c, q) \in Nat \ {0}
        /\ q + Len(Join(Upto(pieces, i + 1), c)) = Behind1(Upto(pieces, i), c, q) + Len(pieces[i + 1])
        /\ Stands(txt, pieces[i + 1], Behind1(Upto(pieces, i), c, q))
    BY <1>4, <2>2
  <2>4. at[k] = Behind1(Upto(pieces, i), c, q)
    BY <1>6, <2>1
  <2> QED
    BY <2>1, <2>3, <2>4
<1>8. ASSUME NEW k \in 1 .. n - 1
      PROVE  At(txt, at[k] + Len(pieces[k]), c) /\ at[k + 1] = (at[k] + Len(pieces[k])) + 1
  <2>1. k \in 0 .. n - 1 /\ k # 0 /\ k + 1 \in 1 .. n /\ k \in 1 .. n /\ (k + 1) - 1 = k /\ k \in 0 .. n
    BY <1>1
  <2>2. Stands(txt, Join(Upto(pieces, k + 1), c), q)
    BY <1>5, <2>1
  <2>3. At(txt, q + Len(Join(Upto(pieces, k), c)), c)
    BY <1>4, <2>1, <2>2
  <2>4. at[k + 1] = Behind1(Upto(pieces, k), c, q)
    BY <1>6, <2>1
  <2>5. Behind1(Upto(pieces, k), c, q) = (q + Len(Join(Upto(pieces, k), c))) + 1
    BY <1>2, <2>1 DEF Behind1
  <2>6. at[k] + Len(pieces[k]) = q + Len(Join(Upto(pieces, k), c))
    BY <1>7, <2>1
  <2> QED
    BY <2>3, <2>4, <2>5, <2>6
<1>9. ASSUME pieces # <<>> PROVE at[1] = q /\ at[n] + Len(pieces[n]) = q + Len(Join(pieces, c))
  <2>1. 1 \in 1 .. n /\ n \in 1 .. n /\ 1 - 1 = 0 /\ 0 \in 0 .. n
    BY <1>1, <1>9, EmptySeq
  <2>2. at[1] = Behind1(Upto(pieces, 0), c, q)
    BY <1>6, <2>1
  <2>3. Upto(pieces, 0) = <<>>
    BY <1>2, <2>1
  <2> QED
    BY <1>3, <1>7, <2>1, <2>2, <2>3 DEF Behind1
<1> QED
  BY <1>1, <1>7, <1>8, <1>9 DEF Laid, LaidTo

LEMMA LaidJoin ==
  ASSUME NEW txt \in Texts0, NEW c \in 0 .. Junk, NEW q \in Nat \ {0}, q <= Len(txt) + 1,
         NEW pieces \in Seq(Texts0), NEW at, Laid(txt, pieces, c, q, at)
  PROVE  /\ Join(pieces, c) \in Texts0 /\ Stands(txt, Join(pieces, c), q)
         /\ LaidTo(pieces, c, q, at)
<1>1. PICK n \in Nat : n = Len(pieces)
  OBVIOUS
<1>2. ASSUME NEW k \in 0 .. n
      PROVE  (Upto(pieces, k) = <<>> <=> k = 0) /\ Upto(pieces, n) = pieces
  BY <1>1, UptoIs
<1>3. Upto(pieces, n) = pieces
  BY <1>1, UptoIs
<1>4. ASSUME NEW k \in 0 .. n - 1
      PROVE  /\ q + Len(Join(Upto(pieces, k + 1), c)) = Behind1(Upto(pieces, k), c, q) + Len(pieces[k + 1])
             /\ Stands(txt, Join(Upto(pieces, k + 1), c), q) <=>
                  /\ k # 0 => /\ Stands(txt, Join(Upto(pieces, k), c), q)
                              /\ At(txt, q + Len(Join(Upto(pieces, k), c)), c)
                  /\ Stands(txt, pieces[k + 1], Behind1(Upto(pieces, k), c, q))
  <2>1. k \in 0 .. Len(pieces) - 1
    BY <1>1
  <2> QED
    BY <2>1, UptoStands
<1>5. Join(<<>>, c) = <<>> /\ Join(pieces, c) \in Texts0 /\ Stands(txt, <<>>, q)
  <2>1. Stands(txt, <<>>, q)
    BY StandsEmpty
  <2>2. Join(<<>>, c) = <<>>
    <3>1. <<>> \in Seq(Texts0) /\ <<>> \in Texts0
      BY DEF Texts0
    <3> QED
      BY <3>1, JoinAppend
  <2>3. Join(pieces, c) \in Texts0
    <3>1. <<>> \in Texts0
      BY DEF Texts0
    <3> QED
      BY <3>1, JoinAppend
  <2> QED
    BY <2>1, <2>2, <2>3
<1> DEFINE Got(k) == /\ Stands(txt, Join(Upto(pieces, k), c), q)
                     /\ k < n => Behind1(Upto(pieces, k), c, q) = at[k + 1]
                     /\ k # 0 => at[k] + Len(pieces[k]) = q + Len(Join(Upto(pieces, k), c))
           T == {k \in 0 .. n : Got(k)}
<1>6. 0 \in T
  <2>1. Upto(pieces, 0) = <<>> /\ 0 \in 0 .. n
    BY <1>1, <1>2
  <2>2. 0 < n => at[1] = q
    BY <1>1, EmptySeq DEF Laid
  <2>3. Got(0)
    BY <1>5, <2>1, <2>2 DEF Behind1
  <2> HIDE DEF Got
  <2> QED
    BY <2>1, <2>3
<1>7. ASSUME NEW k \in 0 .. n - 1, k \in T PROVE k + 1 \in T
  <2>1. PICK m \in 1 .. n : m = k + 1
    BY <1>1
  <2>2. Got(k)
    BY <1>7
  <2>3. Stands(txt, pieces[m], at[m]) /\ at[m] \in Nat \ {0}
    BY <1>1 DEF Laid
  <2>4. Behind1(Upto(pieces, k), c, q) = at[m]
    BY <1>1, <2>1, <2>2
  <2>5. k # 0 => At(txt, q + Len(Join(Upto(pieces, k), c)), c)
    <3>1. SUFFICES ASSUME k # 0 PROVE At(txt, q + Len(Join(Upto(pieces, k), c)), c)
      OBVIOUS
    <3>2. k \in 1 .. Len(pieces) - 1
      BY <1>1, <3>1
    <3>3. At(txt, at[k] + Len(pieces[k]), c)
      BY <3>2 DEF Laid
    <3> QED
      BY <2>2, <3>1, <3>3
  <2>6. Stands(txt, Join(Upto(pieces, m), c), q) /\ at[m] + Len(pieces[m]) = q + Len(Join(Upto(pieces, m), c))
    BY <1>4, <2>1, <2>2, <2>3, <2>4, <2>5
  <2>7. m < n => Behind1(Upto(pieces, m), c, q) = at[m + 1]
    <3>1. SUFFICES ASSUME m < n PROVE Behind1(Upto(pieces, m), c, q) = at[m + 1]
      OBVIOUS
    <3>2. m \in 1 .. Len(pieces) - 1 /\ m \in 0 .. n /\ m # 0
      BY <1>1, <3>1
    <3>3. at[m + 1] = (at[m] + Len(pieces[m])) + 1
      BY <3>2 DEF Laid
    <3>4. Behind1(Upto(pieces, m), c, q) = (q + Len(Join(Upto(pieces, m), c))) + 1
      BY <1>2, <3>2 DEF Behind1
    <3> QED
      BY <2>6, <3>3, <3>4
  <2>8. Got(m) /\ m \in 0 .. n
    BY <2>6, <2>7
  <2> HIDE DEF Got
  <2> QED
    BY <2>1, <2>8
<1>8. Got(n)
  <2>1. \A k \in 0 .. n : k \in T
    <3> HIDE DEF T
    <3> QED
      BY <1>1, <1>6, <1>7, UpToNumber
  <2>2. n \in T
    <3> HIDE DEF T
    <3> QED
      BY <1>1, <2>1
  <2> HIDE DEF Got
  <2> QED
    BY <2>2
<1>9. pieces # <<>> => n # 0
  BY <1>1, EmptySeq
<1> QED
  BY <1>1, <1>3, <1>5, <1>8, <1>9 DEF LaidTo

LEMMA EndingText ==
  ASSUME NEW max \in Nat, NEW ending \in Endings(max)
  PROVE  ending.text \in Texts0
<1>1. CASE ending = [text |-> <<>>, prefix |-> max]
  BY <1>1 DEF Texts0
<1>2. CASE ending # [text |-> <<>>, prefix |-> max]
  <2>1. PICK v \in 0 .. max : ending = [text |-> <<Slash>> \o Printed(v), prefix |-> v]
    BY <1>2 DEF Endings
  <2>2. Printed(v) \in Texts0
    BY <2>1, PrintedText
  <2>3. <<Slash>> \in Texts0
    BY Characters DEF Texts0
  <2> QED
    BY <2>1, <2>2, <2>3 DEF Texts0
<1> QED
  BY <1>1, <1>2

(***************************************************************************)
(* What is spelled is read.                                                *)
(***************************************************************************)
LEMMA Ipv4Read ==
  ASSUME text \in Texts0, NEW addr \in [1 .. Octets -> 0 .. ByteRange - 1],
         NEW ending \in Endings(Octets * ByteBits), text = PrintedOctets(addr) \o ending.text
  PROVE  ParseIpv4(text) = IpValue(FALSE, addr, ending.prefix) /\ Len(text) # 0
<1>1. PICK w : OctetTurns(w) /\ OctetsOf(text) = w[Octets]
  BY OctetsAre
<1>2. PICK n \in Nat \ {0} : n = Octets
  BY ByteIs
<1>3. PICK max \in Nat : max = Octets * ByteBits
  BY ByteIs, SMTT(30)
<1>4. addr \in Seq(Byte) /\ Len(addr) = n /\ addr \in Seq(Nat)
  <2>1. addr \in [1 .. n -> Byte]
    BY <1>2 DEF Byte
  <2>2. addr \in Seq(Byte) /\ Len(addr) = n
    BY <2>1
  <2> QED
    BY <2>2, ByteIs, SeqMonotonic
<1>5. \A k \in 1 .. n : addr[k] \in Byte /\ addr[k] \in Nat
  BY <1>4, ByteIs, ElementOfSeq
<1>6. ASSUME NEW k \in 0 .. n - 1
       PROVE  /\ SubSeq(addr, 1, k) \in Seq(Byte) /\ Len(SubSeq(addr, 1, k)) = k
              /\ SubSeq(addr, 1, k + 1) = Append(SubSeq(addr, 1, k), addr[k + 1])
  <2>1. PICK a \in Seq(Byte) : a = addr
    BY <1>4
  <2>2. k \in 0 .. Len(a) /\ k < Len(a)
    BY <1>4, <2>1
  <2>3. /\ SubSeq(a, 1, k) \in Seq(Byte) /\ Len(SubSeq(a, 1, k)) = k
        /\ SubSeq(a, 1, k + 1) = Append(SubSeq(a, 1, k), a[k + 1])
    BY <2>2, Fronts
  <2> QED
    BY <2>1, <2>3
<1>7. PICK pieces : pieces = Prints(addr)
  OBVIOUS
<1>8. /\ pieces \in Seq(Texts0) /\ Len(pieces) = n /\ pieces # <<>>
      /\ \A k \in 1 .. n : pieces[k] = Printed(addr[k])
  <2>1. pieces \in Seq(Texts0)
    <3>1. 0 \in Nat
      OBVIOUS
    <3> QED
      BY <1>4, <1>7, <3>1, PrintsIs
  <2>2. DOMAIN pieces = 1 .. n /\ \A k \in 1 .. n : pieces[k] = Printed(addr[k])
    BY <1>4, <1>7 DEF Prints
  <2>3. Len(pieces) = n
    BY <2>1, <2>2
  <2> QED
    BY <2>1, <2>2, <2>3, EmptySeq
<1>9. PICK head \in Texts0 : head = Join(pieces, Dot) /\ head = PrintedOctets(addr)
  <2>1. Spelled4(addr) \in Texts0
    <3>1. 0 \in Nat
      OBVIOUS
    <3> QED
      BY <1>4, <3>1, Spelled4Is
  <2> QED
    BY <1>2, <1>4, <1>7, <2>1 DEF Spelled4, Prints, PrintedOctets
<1>10. ending \in Endings(max)
  BY <1>3
<1>11. PICK tail \in Texts0 : tail = ending.text
  BY <1>10, EndingText
<1>12. text = head \o tail
  BY <1>9, <1>11
<1>13. /\ Len(text) = Len(head) + Len(tail) /\ Len(head) \in Nat /\ Len(tail) \in Nat
       /\ Stands(text, head, 1) /\ Stands(text, tail, 1 + Len(head))
  <2>1. 1 \in Nat
    OBVIOUS
  <2>2. /\ head \o tail \in Texts0 /\ Len(head \o tail) = Len(head) + Len(tail)
        /\ Stands(text, head \o tail, 1) <=> Stands(text, head, 1) /\ Stands(text, tail, 1 + Len(head))
    BY <2>1, StandsConcat
  <2>3. Stands(text, head \o tail, 1)
    BY <1>12, <2>2, StandsWhole
  <2> QED
    BY <1>12, <2>2, <2>3 DEF Texts0
<1>14. PICK end \in Nat \ {0} : end = 1 + Len(head)
  BY <1>13
<1>15. EndsAt(text, end, ending)
  <2>1. end + Len(tail) = Len(text) + 1
    BY <1>13, <1>14
  <2> QED
    BY <1>11, <1>13, <1>14, <2>1 DEF EndsAt
<1>16. PrefixAt(text, end, max) = ending.prefix /\ ending.prefix \in Nat
       /\ (end = Len(text) + 1 \/ At(text, end, Slash))
  BY <1>10, <1>15, PrefixRead
<1>17. \A c \in Digit : ~At(text, end, c)
  <2>1. Slash \notin Digit
    BY Characters
  <2>2. end = Len(text) + 1 => end \notin DOMAIN text
    BY DEF Texts0
  <2> QED
    BY <1>16, <2>1, <2>2 DEF At
<1>18. PICK at : Laid(text, pieces, Dot, 1, at) /\ LaidTo(pieces, Dot, 1, at)
  <2>1. 1 \in Nat \ {0} /\ Dot \in 0 .. Junk
    BY Characters
  <2> QED
    BY <1>8, <1>9, <1>13, <2>1, JoinLaid
<1>19. ASSUME NEW k \in 1 .. n
       PROVE  /\ at[k] \in Nat \ {0} /\ Stands(text, Printed(addr[k]), at[k])
              /\ k # n => /\ At(text, at[k] + Len(Printed(addr[k])), Dot)
                          /\ at[k + 1] = (at[k] + Len(Printed(addr[k]))) + 1
              /\ k = n => at[k] + Len(Printed(addr[k])) = end
  <2>1. k # n => k \in 1 .. n - 1
    BY <1>2
  <2> QED
    BY <1>8, <1>9, <1>14, <1>18, <2>1 DEF Laid, LaidTo
<1>20. at[1] = 1
  BY <1>8, <1>18 DEF Laid
<1> DEFINE Got(k) == w[k] = [addr |-> SubSeq(addr, 1, k), p |-> IF k = n THEN end ELSE at[k + 1]]
           T == {k \in 0 .. n : Got(k)}
<1>21. 0 \in T
  <2>1. SubSeq(addr, 1, 0) = <<>> /\ 0 \in 0 .. n /\ 0 # n /\ 0 + 1 = 1
    <3>1. 0 \in 0 .. Len(addr)
      BY <1>4
    <3>2. SubSeq(addr, 1, 0) = <<>>
      BY <1>4, <3>1, Fronts
    <3> QED
      BY <1>2, <3>2
  <2>2. w[0] = [addr |-> <<>>, p |-> 1]
    BY <1>1 DEF OctetTurns
  <2>3. Got(0)
    BY <1>20, <2>1, <2>2
  <2> HIDE DEF Got
  <2> QED
    BY <2>1, <2>3
<1>22. ASSUME NEW k \in 0 .. n - 1, k \in T PROVE k + 1 \in T
  <2>1. PICK m \in 1 .. n : m = k + 1
    BY <1>2
  <2>2. w[m] = NextOctet(text, w[k])
    BY <1>1, <1>2, <2>1 DEF OctetTurns
  <2>3. PICK f \in Seq(Byte) : /\ f = SubSeq(addr, 1, k) /\ Len(f) = k
                               /\ SubSeq(addr, 1, m) = Append(f, addr[m])
    BY <1>6, <2>1
  <2>4. PICK p \in Nat \ {0} : p = at[m]
    BY <1>19
  <2>5. PICK v \in 0 .. ByteRange - 1 : v = addr[m] /\ v \in Nat
    BY <1>5 DEF Byte
  <2>6. w[k] = [addr |-> f, p |-> p]
    <3>1. Got(k)
      BY <1>22
    <3> QED
      BY <1>2, <2>1, <2>3, <2>4, <3>1
  <2>7. PICK q : q = p + Len(Printed(v))
    OBVIOUS
  <2>8. (m # n => At(text, q, Dot) /\ at[m + 1] = q + 1) /\ (m = n => q = end)
    BY <1>19, <2>4, <2>5, <2>7
  <2>9. \A c \in Digit : ~At(text, q, c)
    <3>1. CASE m = n
      BY <1>17, <2>8, <3>1
    <3>2. CASE m # n
      BY <2>8, <3>2, Characters DEF At
    <3> QED
      BY <3>1, <3>2
  <2>10. Stands(text, Printed(v), p)
    BY <1>19, <2>4, <2>5
  <2>11. RunEnd(text, p, Digit) = q /\ BoundedDec(text, p, ByteRange - 1) = v
    <3>1. PICK top \in Nat : top = ByteRange - 1
      BY ByteIs
    <3>2. v \in 0 .. top
      BY <3>1
    <3>3. \A c \in Digit : ~At(text, p + Len(Printed(v)), c)
      BY <2>7, <2>9
    <3>4. RunEnd(text, p, Digit) = p + Len(Printed(v)) /\ BoundedDec(text, p, top) = v
      BY <2>10, <3>2, <3>3, BoundedRead
    <3> QED
      BY <2>7, <3>1, <3>4
  <2>12. w[m] = PutOctet(text, q, v, f)
    <3>1. [addr |-> f, p |-> p] # Refused
      BY DEF Refused
    <3> QED
      BY <2>2, <2>6, <2>11, <3>1 DEF NextOctet
  <2>13. v # Overflow
    BY <2>5, Widths
  <2>14. Len(f) + 1 = Octets <=> m = n
    BY <1>2, <2>1, <2>3
  <2>15. w[m] = [addr |-> Append(f, v), p |-> IF m = n THEN end ELSE at[m + 1]]
    BY <2>8, <2>12, <2>13, <2>14 DEF PutOctet
  <2>16. Got(m)
    BY <2>3, <2>5, <2>15
  <2>17. m \in 0 .. n
    BY <2>1
  <2> HIDE DEF Got
  <2> QED
    BY <2>1, <2>16, <2>17
<1>23. Got(n)
  <2>1. \A k \in 0 .. n : k \in T
    <3> HIDE DEF T
    <3> QED
      BY <1>2, <1>21, <1>22, UpToNumber
  <2>2. n \in T
    <3> HIDE DEF T
    <3> QED
      BY <1>2, <2>1
  <2> HIDE DEF Got
  <2> QED
    BY <2>2
<1>24. SubSeq(addr, 1, n) = addr
  <2>1. n \in 0 .. Len(addr)
    BY <1>4
  <2>2. SubSeq(addr, 1, Len(addr)) = addr
    BY <1>4, <2>1, Fronts
  <2> QED
    BY <1>4, <2>2
<1>25. OctetsOf(text) = [addr |-> addr, p |-> end]
  BY <1>1, <1>2, <1>23, <1>24
<1>26. [addr |-> addr, p |-> end] # Refused
  BY DEF Refused
<1>27. ending.prefix # Overflow
  BY <1>16, Widths
<1>28. PrefixAt(text, [addr |-> addr, p |-> end].p, Octets * ByteBits) = ending.prefix
  BY <1>3, <1>16
<1>29. ParseIpv4(text) = Ipv4Of([addr |-> addr, p |-> end], ending.prefix)
  BY <1>25, <1>28 DEF ParseIpv4, PrefixBehind
<1>30. Len(text) # 0
  <2>1. n \in 1 .. n
    BY <1>2
  <2>2. PICK l \in Nat \ {0} : l = Len(Printed(addr[n]))
    BY <1>5, <2>1, PrintedText
  <2>3. PICK p \in Nat \ {0} : p + l = end
    BY <1>19, <2>1, <2>2
  <2> QED
    BY <1>13, <1>14, <2>3
<1> QED
  BY <1>26, <1>27, <1>29, <1>30 DEF Ipv4Of

(***************************************************************************)
(* A text without a colon is an address iff it is printed octets and       *)
(* perhaps a printed prefix length, none with a zero too many, and then it *)
(* is the address it is printed from.  (php_cedar_parse_ipv4)              *)
(***************************************************************************)
THEOREM Ipv4Law ==
  ASSUME text \in Texts0, ~HasColon
  PROVE  ReadAs(MakeIp(text), Ipv4Texts, Ipv4Spellings)
<1>1. MakeIp(text) = IF Len(text) \notin 1 .. MaxIpText THEN ErrorValue ELSE ParseIpv4(text)
  BY DEF MakeIp, HasColon
<1>2. ASSUME NEW addr \in [1 .. Octets -> 0 .. ByteRange - 1],
             NEW ending \in Endings(Octets * ByteBits), text = Spelling4(addr, ending).text
      PROVE  Spelling4(addr, ending) = [text |-> text, ip |-> ParseIpv4(text)] /\ Len(text) # 0
  <2>1. text = PrintedOctets(addr) \o ending.text
    BY <1>2 DEF Spelling4
  <2>2. ParseIpv4(text) = IpValue(FALSE, addr, ending.prefix) /\ Len(text) # 0
    BY <2>1, Ipv4Read
  <2> QED
    BY <2>1, <2>2 DEF Spelling4
<1>3. CASE text \in Ipv4Texts /\ Len(text) <= MaxIpText
  <2>1. PICK s \in Ipv4Spellings : text = s.text
    BY <1>3 DEF Ipv4Texts
  <2>2. PICK addr \in [1 .. Octets -> 0 .. ByteRange - 1], ending \in Endings(Octets * ByteBits) :
          s = Spelling4(addr, ending)
    BY <2>1, Ipv4SpellingsAre
  <2>3. s = [text |-> text, ip |-> ParseIpv4(text)] /\ Len(text) # 0
    BY <1>2, <2>1, <2>2
  <2>4. Len(text) \in 1 .. MaxIpText
    BY <1>3, <2>3, IpAssumption DEF Texts0
  <2> QED
    BY <1>1, <1>3, <2>1, <2>3, <2>4 DEF ReadAs
<1>4. CASE ~(text \in Ipv4Texts /\ Len(text) <= MaxIpText)
  <2>1. MakeIp(text) = ErrorValue
    <3>1. CASE Len(text) \notin 1 .. MaxIpText
      BY <1>1, <3>1
    <3>2. CASE Len(text) \in 1 .. MaxIpText
      <4>1. Len(text) <= MaxIpText
        BY <3>2, IpAssumption
      <4> QED
        BY <1>1, <1>4, <3>2, <4>1, Ipv4Written
    <3> QED
      BY <3>1, <3>2
  <2> QED
    BY <1>4, <2>1 DEF ReadAs
<1> QED
  BY <1>3, <1>4
-----------------------------------------------------------------------------
(***************************************************************************)
(* The groups of an address, and the loop that reads them.  A turn takes a *)
(* group and what is behind it: the end, a colon, or the gap.              *)
(***************************************************************************)
LEMMA HexTextIs ==
  ASSUME NEW h
  PROVE  /\ GroupDigits \in Nat /\ Groups \in Nat \ {0}
         /\ h \in HexTexts <=> h \in Seq(HexDigit) /\ Len(h) \in 1 .. GroupDigits
<1>1. Groups \in Nat \ {0} /\ ByteBits \in Nat
  BY IpAssumption
<1>2. GroupDigits \in Nat
  <2>1. PICK b \in Nat : b = 2 * ByteBits
    BY <1>1
  <2>2. b \div 4 \in Nat
    BY <2>1, NaturalQuotient
  <2> QED
    BY <2>1, <2>2 DEF GroupDigits
<1>3. ASSUME h \in HexTexts PROVE h \in Seq(HexDigit) /\ Len(h) \in 1 .. GroupDigits
  <2>1. PICK n \in 1 .. GroupDigits : h \in [1 .. n -> HexDigit]
    BY <1>3 DEF HexTexts
  <2>2. n \in Nat
    BY <1>2
  <2> QED
    BY <2>1, <2>2
<1>4. ASSUME h \in Seq(HexDigit), Len(h) \in 1 .. GroupDigits PROVE h \in HexTexts
  <2>1. PICK n \in 1 .. GroupDigits : n = Len(h)
    BY <1>4
  <2>2. h \in [1 .. n -> HexDigit]
    BY <1>4, <2>1
  <2> QED
    BY <2>2 DEF HexTexts
<1> QED
  BY <1>1, <1>2, <1>3, <1>4

LEMMA HexTextType ==
  ASSUME NEW h \in HexTexts
  PROVE  /\ h \in Texts0 /\ h \in Seq(HexDigit) /\ Len(h) \in Nat \ {0} /\ Horner(h, 16) \in Nat
         /\ h # <<>> /\ h[1] \in HexDigit
<1>1. h \in Seq(HexDigit) /\ Len(h) \in 1 .. GroupDigits /\ GroupDigits \in Nat
  BY HexTextIs
<1>2. h \in Texts0 /\ h \in Seq(Nat)
  BY <1>1, Characters, SeqMonotonic DEF Texts0
<1>3. Horner(h, 16) \in Nat
  <2>1. 16 \in Nat /\ 0 \in Nat
    OBVIOUS
  <2> QED
    BY <1>2, <2>1, HornerStep
<1>4. Len(h) \in Nat \ {0} /\ 1 \in 1 .. Len(h)
  BY <1>1
<1>5. h[1] \in HexDigit /\ h # <<>>
  BY <1>1, <1>4, ElementOfSeq, EmptySeq
<1> QED
  BY <1>1, <1>2, <1>3, <1>4, <1>5

\* What is read when the group h is taken at p.
Turned(txt, h, groups, gap, p, next) ==
  /\ h \in HexTexts /\ Stands(txt, h, p) /\ Len(groups) < Groups
  /\ \/ /\ p + Len(h) = Len(txt) + 1
        /\ next = [groups |-> Append(groups, Horner(h, 16)), gap |-> gap, p |-> p + Len(h)]
     \/ /\ At(txt, p + Len(h), Colon) /\ At(txt, (p + Len(h)) + 1, Colon) /\ gap = NoGap
        /\ next = [groups |-> Append(groups, Horner(h, 16)), gap |-> Len(groups) + 1, p |-> (p + Len(h)) + 2]
     \/ /\ At(txt, p + Len(h), Colon) /\ ~At(txt, (p + Len(h)) + 1, Colon) /\ p + Len(h) < Len(txt)
        /\ next = [groups |-> Append(groups, Horner(h, 16)), gap |-> gap, p |-> (p + Len(h)) + 1]

LEMMA GroupWritten ==
  ASSUME NEW txt \in Texts0, NEW groups \in Seq(Nat), NEW gap, NEW p \in 1 .. Len(txt),
         NEW next, next = NextGroup(txt, [groups |-> groups, gap |-> gap, p |-> p]), next # BadGroups
  PROVE  \E h : Turned(txt, h, groups, gap, p, next)
<1>1. PICK n \in Nat : n = Len(txt) /\ DOMAIN txt = 1 .. n
  BY DEF Texts0
<1>2. PICK read : read = [groups |-> groups, gap |-> gap, p |-> p]
  OBVIOUS
<1>3. read.groups = groups /\ read.gap = gap /\ read.p = p /\ read # BadGroups
  BY <1>2 DEF BadGroups
<1>4. PICK q : q = RunEnd(txt, p, HexDigit)
  OBVIOUS
<1>5. p \in 1 .. n + 1 /\ p <= n
  BY <1>1
<1>6. EndsRun(txt, p, HexDigit, q)
  <2>1. txt \in Seq(0 .. Junk) /\ p \in 1 .. Len(txt) + 1
    BY <1>1, <1>5 DEF Texts0
  <2> QED
    BY <1>4, <2>1, RunEnds
<1>7. q \in p .. n + 1 /\ \A r \in p .. q - 1 : txt[r] \in HexDigit
  BY <1>1, <1>6 DEF EndsRun
<1>8. PICK h : h = SubSeq(txt, p, q - 1)
  OBVIOUS
<1>9. /\ h \in Seq(HexDigit) /\ Len(h) = q - p
      /\ p + Len(h) = q /\ Stands(txt, h, p)
  <2>1. p \in 1 .. Len(txt) + 1 /\ q \in p .. Len(txt) + 1
    BY <1>1, <1>5, <1>7
  <2>2. h \in Seq(HexDigit) /\ Len(h) = q - p
    BY <1>7, <1>8, <2>1, PieceType
  <2>3. p + Len(h) = q /\ Stands(txt, h, p)
    BY <1>8, <2>1, StandsPiece
  <2> QED
    BY <2>2, <2>3
<1>10. PICK grown : grown = Append(groups, Horner(h, 16))
  OBVIOUS
<1>11. next = PutGroup(txt, q, read, grown)
  BY <1>1, <1>2, <1>3, <1>4, <1>5, <1>8, <1>10 DEF NextGroup, GroupUpTo
<1>12. ~(Len(groups) >= Groups) /\ q - p \in 1 .. GroupDigits
  BY <1>3, <1>11 DEF PutGroup
<1>13. h \in HexTexts /\ Len(groups) < Groups
  <2>1. Len(groups) \in Nat /\ Groups \in Nat
    BY HexTextIs
  <2> QED
    BY <1>9, <1>12, <2>1, HexTextIs
<1>14. Len(grown) = Len(groups) + 1
  BY <1>10, <1>13, HexTextType, AppendProperties
<1>15. CASE q > n
  <2>1. next = [read EXCEPT !.groups = grown, !.p = q]
    BY <1>1, <1>3, <1>11, <1>12, <1>15 DEF PutGroup
  <2>2. next = [groups |-> grown, gap |-> gap, p |-> q]
    BY <1>2, <2>1
  <2>3. q = n + 1
    BY <1>7, <1>15
  <2> QED
    BY <1>1, <1>9, <1>10, <1>13, <2>2, <2>3 DEF Turned
<1>16. CASE ~(q > n)
  <2>1. q \in 1 .. n /\ p \in Nat
    BY <1>5, <1>7, <1>16
  <2>2. At(txt, q, Colon)
    BY <1>1, <1>3, <1>11, <1>12, <1>16, <2>1 DEF PutGroup, At
  <2>3. txt[q] = Colon
    BY <2>2 DEF At
  <2>4. CASE At(txt, q + 1, Colon)
    <3>1. gap = NoGap /\ next = [groups |-> grown, gap |-> Len(grown), p |-> q + 2]
      BY <1>1, <1>3, <1>11, <1>12, <1>16, <2>3, <2>4 DEF PutGroup
    <3> QED
      BY <1>9, <1>10, <1>13, <1>14, <2>2, <2>4, <3>1 DEF Turned
  <2>5. CASE ~At(txt, q + 1, Colon)
    <3>1. q # n /\ next = [read EXCEPT !.groups = grown, !.p = q + 1]
      BY <1>1, <1>3, <1>11, <1>12, <1>16, <2>3, <2>5 DEF PutGroup
    <3>2. next = [groups |-> grown, gap |-> gap, p |-> q + 1]
      BY <1>2, <3>1
    <3>3. q < Len(txt)
      BY <1>1, <2>1, <3>1
    <3> QED
      BY <1>9, <1>10, <1>13, <2>2, <2>5, <3>2, <3>3 DEF Turned
  <2> QED
    BY <2>4, <2>5
<1> QED
  BY <1>15, <1>16

LEMMA GroupRead ==
  ASSUME NEW txt \in Texts0, NEW groups \in Seq(Nat), NEW gap, NEW p \in Nat \ {0},
         NEW h, NEW next, Turned(txt, h, groups, gap, p, next)
  PROVE  NextGroup(txt, [groups |-> groups, gap |-> gap, p |-> p]) = next
<1>1. PICK n \in Nat : n = Len(txt) /\ DOMAIN txt = 1 .. n
  BY DEF Texts0
<1>2. PICK read : read = [groups |-> groups, gap |-> gap, p |-> p]
  OBVIOUS
<1>3. read.groups = groups /\ read.gap = gap /\ read.p = p /\ read # BadGroups
  BY <1>2 DEF BadGroups
<1>4. h \in HexTexts /\ Stands(txt, h, p) /\ Len(groups) < Groups
  BY DEF Turned
<1>5. PICK l \in 1 .. GroupDigits : l = Len(h) /\ l \in Nat \ {0}
  BY <1>4, HexTextIs
<1>6. PICK q \in Nat : q = p + l /\ q - p = l /\ q > p /\ q <= n + 1
  BY <1>1, <1>4, <1>5 DEF Stands
<1>7. p <= n
  BY <1>6
<1>8. PICK grown : grown = Append(groups, Horner(h, 16))
  OBVIOUS
<1>9. Len(grown) = Len(groups) + 1
  BY <1>4, <1>8, HexTextType, AppendProperties
<1>10. \A c \in HexDigit : ~At(txt, p + Len(h), c)
  <2>1. Colon \notin HexDigit
    BY Characters
  <2>2. q = n + 1 \/ At(txt, q, Colon)
    BY <1>1, <1>5, <1>6 DEF Turned
  <2>3. q = n + 1 => q \notin DOMAIN txt
    BY <1>1
  <2> QED
    BY <1>5, <1>6, <2>1, <2>2, <2>3 DEF At
<1>11. RunEnd(txt, p, HexDigit) = q /\ SubSeq(txt, p, q - 1) = h
  <2>1. h \in Texts0 /\ h \in Seq(HexDigit)
    BY <1>4, HexTextType
  <2>2. RunEnd(txt, p, HexDigit) = p + Len(h) /\ SubSeq(txt, p, (p + Len(h)) - 1) = h
    BY <1>4, <1>10, <2>1, StandingPiece
  <2> QED
    BY <1>5, <1>6, <2>2
<1>12. NextGroup(txt, read) = PutGroup(txt, q, read, grown)
  <2>1. ~(read.p > Len(txt))
    BY <1>1, <1>3, <1>7
  <2>2. NextGroup(txt, read) = GroupUpTo(txt, RunEnd(txt, read.p, HexDigit), read)
    BY <1>3, <2>1 DEF NextGroup
  <2>3. GroupUpTo(txt, q, read) = PutGroup(txt, q, read, Append(groups, Horner(h, 16)))
    BY <1>3, <1>11 DEF GroupUpTo
  <2> QED
    BY <1>3, <1>8, <1>11, <2>2, <2>3
<1>13. ~(Len(groups) >= Groups \/ q - p \notin 1 .. GroupDigits)
  <2>1. Len(groups) \in Nat /\ Groups \in Nat
    BY HexTextIs
  <2> QED
    BY <1>4, <1>5, <1>6, <2>1
<1>14. CASE q = n + 1 /\ next = [groups |-> grown, gap |-> gap, p |-> q]
  <2>1. PICK s : s = [read EXCEPT !.groups = grown, !.p = q]
    OBVIOUS
  <2>2. s = [groups |-> grown, gap |-> gap, p |-> q]
    BY <1>2, <2>1
  <2>3. next = [read EXCEPT !.groups = grown, !.p = q]
    BY <1>14, <2>1, <2>2
  <2>4. q > n
    BY <1>14
  <2> QED
    BY <1>1, <1>2, <1>3, <1>12, <1>13, <2>3, <2>4 DEF PutGroup
<1>15. CASE /\ At(txt, q, Colon) /\ At(txt, q + 1, Colon) /\ gap = NoGap
            /\ next = [groups |-> grown, gap |-> Len(groups) + 1, p |-> q + 2]
  <2>1. txt[q] = Colon /\ ~(q > n)
    BY <1>1, <1>15 DEF At
  <2> QED
    BY <1>1, <1>2, <1>3, <1>9, <1>12, <1>13, <1>15, <2>1 DEF PutGroup
<1>16. CASE /\ At(txt, q, Colon) /\ ~At(txt, q + 1, Colon) /\ q < n
            /\ next = [groups |-> grown, gap |-> gap, p |-> q + 1]
  <2>1. txt[q] = Colon /\ ~(q > n) /\ q # n
    BY <1>1, <1>16 DEF At
  <2>2. PICK s : s = [read EXCEPT !.groups = grown, !.p = q + 1]
    OBVIOUS
  <2>3. s = [groups |-> grown, gap |-> gap, p |-> q + 1]
    BY <1>2, <2>2
  <2>4. next = [read EXCEPT !.groups = grown, !.p = q + 1]
    BY <1>16, <2>2, <2>3
  <2> QED
    BY <1>1, <1>2, <1>3, <1>12, <1>13, <1>16, <2>1, <2>4 DEF PutGroup
<1> QED
  BY <1>1, <1>5, <1>6, <1>8, <1>14, <1>15, <1>16 DEF Turned

LEMMA TurnedIs ==
  ASSUME NEW txt \in Texts0, NEW groups \in Seq(Nat), NEW gap \in Nat, NEW p \in Nat \ {0},
         NEW h, NEW next, Turned(txt, h, groups, gap, p, next)
  PROVE  \E more \in Seq(Nat), g \in Nat, q \in p + 1 .. Len(txt) + 1 :
           next = [groups |-> more, gap |-> g, p |-> q]
<1>1. PICK n \in Nat : n = Len(txt) /\ DOMAIN txt = 1 .. n
  BY DEF Texts0
<1>2. h \in HexTexts /\ Stands(txt, h, p)
  BY DEF Turned
<1>3. PICK v \in Nat : v = Horner(h, 16)
  BY <1>2, HexTextType
<1>4. PICK l \in Nat \ {0} : l = Len(h)
  BY <1>2, HexTextType
<1>5. PICK more \in Seq(Nat) : more = Append(groups, v) /\ Len(groups) + 1 \in Nat
  <2>1. Append(groups, v) \in Seq(Nat) /\ Len(groups) + 1 \in Nat
    BY <1>3, AppendProperties
  <2> QED
    BY <2>1
<1>6. PICK e \in p + 1 .. n + 1 : e = p + l
  BY <1>1, <1>2, <1>4 DEF Stands
<1>7. e \in Nat /\ e >= p + 1
  OBVIOUS
<1>8. CASE next = [groups |-> more, gap |-> gap, p |-> e]
  BY <1>1, <1>5, <1>6, <1>8
<1>9. CASE At(txt, e + 1, Colon) /\ next = [groups |-> more, gap |-> Len(groups) + 1, p |-> e + 2]
  <2>1. e + 2 \in p + 1 .. n + 1
    BY <1>1, <1>7, <1>9 DEF At
  <2> QED
    BY <1>1, <1>5, <1>9, <2>1
<1>10. CASE At(txt, e, Colon) /\ next = [groups |-> more, gap |-> gap, p |-> e + 1]
  <2>1. e + 1 \in p + 1 .. n + 1
    BY <1>1, <1>7, <1>10 DEF At
  <2> QED
    BY <1>1, <1>5, <1>10, <2>1
<1>11. \/ next = [groups |-> more, gap |-> gap, p |-> e]
       \/ At(txt, e + 1, Colon) /\ next = [groups |-> more, gap |-> Len(groups) + 1, p |-> e + 2]
       \/ At(txt, e, Colon) /\ next = [groups |-> more, gap |-> gap, p |-> e + 1]
  BY <1>3, <1>4, <1>5, <1>6 DEF Turned
<1> QED
  BY <1>8, <1>9, <1>10, <1>11

GroupReads(txt) ==
  {BadGroups} \cup
    {[groups |-> g, gap |-> x, p |-> q] : g \in Seq(Nat), x \in Nat, q \in 1 .. Len(txt) + 1}

LEMMA GroupReadsClosed ==
  ASSUME NEW txt \in Texts0, NEW read \in GroupReads(txt)
  PROVE  NextGroup(txt, read) \in GroupReads(txt)
<1>1. PICK n \in Nat : n = Len(txt)
  BY DEF Texts0
<1>2. CASE read = BadGroups \/ read.p > Len(txt)
  BY <1>2 DEF NextGroup
<1>3. CASE ~(read = BadGroups \/ read.p > Len(txt))
  <2>1. PICK g \in Seq(Nat), x \in Nat, q \in 1 .. n + 1 : read = [groups |-> g, gap |-> x, p |-> q]
    BY <1>1, <1>3 DEF GroupReads
  <2>2. q \in 1 .. Len(txt) /\ q \in Nat \ {0}
    BY <1>1, <1>3, <2>1
  <2>3. PICK next : next = NextGroup(txt, [groups |-> g, gap |-> x, p |-> q])
    OBVIOUS
  <2>4. CASE next = BadGroups
    BY <2>1, <2>3, <2>4 DEF GroupReads
  <2>5. CASE next # BadGroups
    <3>1. PICK h : Turned(txt, h, g, x, q, next)
      BY <2>2, <2>3, <2>5, GroupWritten
    <3>2. PICK more \in Seq(Nat), y \in Nat, z \in q + 1 .. Len(txt) + 1 :
            next = [groups |-> more, gap |-> y, p |-> z]
      BY <2>2, <3>1, TurnedIs
    <3>3. z \in 1 .. Len(txt) + 1
      BY <1>1, <2>2, <3>2
    <3> QED
      BY <2>1, <2>3, <3>2, <3>3, SMTT(30) DEF GroupReads
  <2> QED
    BY <2>4, <2>5
<1> QED
  BY <1>2, <1>3

GroupTurns(txt, p, gap, w) ==
  /\ w[0] = [groups |-> <<>>, gap |-> gap, p |-> p]
  /\ \A k \in 0 .. Len(txt) - 1 : w[k + 1] = NextGroup(txt, w[k])

LEMMA GroupsAre ==
  ASSUME NEW txt \in Texts0, NEW p \in 1 .. Len(txt) + 1, NEW gap \in Nat
  PROVE  \E w : GroupTurns(txt, p, gap, w) /\ GroupsFrom(txt, p, gap) = w[Len(txt)]
<1>1. PICK n \in Nat : n = Len(txt)
  BY DEF Texts0
<1>2. PICK S : S = GroupReads(txt)
  OBVIOUS
<1> DEFINE first == [groups |-> <<>>, gap |-> gap, p |-> p]
           Is(w) == w = [k \in 0 .. Len(txt) |-> IF k = 0 THEN [groups |-> <<>>, gap |-> gap, p |-> p]
                                                 ELSE NextGroup(txt, w[k - 1])]
           onward == [k \in 0 .. n - 1 |-> [r \in S |-> NextGroup(txt, r)]]
<1>3. first \in S
  <2>1. PICK g \in Seq(Nat) : g = <<>>
    <3>1. <<>> \in Seq(Nat)
      OBVIOUS
    <3> QED
      BY <3>1
  <2>2. first = [groups |-> g, gap |-> gap, p |-> p]
    BY <2>1
  <2> HIDE DEF first
  <2> QED
    BY <1>2, <2>2 DEF GroupReads
<1>4. \A r \in S : NextGroup(txt, r) \in S
  BY <1>2, GroupReadsClosed
<1>5. onward \in Steps(n, S)
  BY <1>4 DEF Steps
<1>6. PICK h : Stepwise(h, n, S, first, onward)
  <2> HIDE DEF onward, first
  <2> QED
    BY <1>1, <1>3, <1>5, Recursion
<1>7. /\ h \in [0 .. n -> S] /\ h[0] = first
      /\ \A k \in 0 .. n - 1 : h[k + 1] = NextGroup(txt, h[k])
  <2>1. /\ h \in [0 .. n -> S] /\ h[0] = first
        /\ \A k \in 0 .. n - 1 : h[k + 1] = onward[k][h[k]]
    BY <1>6 DEF Stepwise
  <2>2. ASSUME NEW k \in 0 .. n - 1 PROVE h[k + 1] = NextGroup(txt, h[k])
    <3>1. h[k] \in S
      BY <2>1
    <3>2. onward[k][h[k]] = NextGroup(txt, h[k])
      BY <3>1
    <3> QED
      BY <2>1, <3>2
  <2> HIDE DEF first
  <2> QED
    BY <2>1, <2>2
<1>8. Is(h)
  <2>1. ASSUME NEW i \in 0 .. n, i # 0 PROVE h[i] = NextGroup(txt, h[i - 1])
    <3>1. i - 1 \in 0 .. n - 1 /\ (i - 1) + 1 = i
      BY <2>1
    <3> QED
      BY <1>7, <3>1
  <2> QED
    BY <1>1, <1>7, <2>1
<1>9. PICK w : w = CHOOSE v : Is(v)
  OBVIOUS
<1>10. Is(w)
  <2> HIDE DEF Is
  <2> QED
    BY <1>8, <1>9
<1>11. GroupsFrom(txt, p, gap) = w[Len(txt)]
  BY <1>9 DEF GroupsFrom
<1>12. w[0] = first /\ \A k \in 0 .. n - 1 : w[k + 1] = NextGroup(txt, w[k])
  <2>1. \A i \in 0 .. n : w[i] = IF i = 0 THEN first ELSE NextGroup(txt, w[i - 1])
    BY <1>1, <1>10
  <2>2. ASSUME NEW k \in 0 .. n - 1 PROVE w[k + 1] = NextGroup(txt, w[k])
    <3>1. k + 1 \in 0 .. n /\ k + 1 # 0 /\ (k + 1) - 1 = k
      OBVIOUS
    <3> HIDE DEF Is, first
    <3> QED
      BY <2>1, <3>1
  <2>3. w[0] = first
    BY <1>1, <2>1
  <2> QED
    BY <2>2, <2>3
<1> QED
  BY <1>1, <1>11, <1>12 DEF GroupTurns

(***************************************************************************)
(* Where the groups of an address are: behind a group comes the end, the   *)
(* gap if this is the cut, or a single colon.                              *)
(***************************************************************************)
Follows(txt, cut, j, q, r) ==
  \/ j = cut /\ At(txt, q, Colon) /\ At(txt, q + 1, Colon) /\ r = q + 2
  \/ j # cut /\ q = Len(txt) + 1 /\ r = q
  \/ j # cut /\ At(txt, q, Colon) /\ ~At(txt, q + 1, Colon) /\ q < Len(txt) /\ r = q + 1

Charted(txt, hs, cut, place) ==
  /\ cut \in NoCut .. Len(hs)
  /\ place[0] = IF cut = 0 THEN 3 ELSE 1
  /\ cut = 0 => At(txt, 1, Colon) /\ At(txt, 2, Colon)
  /\ \A j \in 0 .. Len(hs) : place[j] \in Nat \ {0}
  /\ \A j \in 1 .. Len(hs) : /\ Stands(txt, hs[j], place[j - 1])
                             /\ Follows(txt, cut, j, place[j - 1] + Len(hs[j]), place[j])

GapOf(cut) == IF cut = NoCut THEN NoGap ELSE cut

LEMMA NumbersOf ==
  ASSUME NEW hs \in Seq(HexTexts)
  PROVE  /\ Numbers(hs) \in Seq(Nat) /\ Len(Numbers(hs)) = Len(hs)
         /\ \A j \in 1 .. Len(hs) : Numbers(hs)[j] = Horner(hs[j], 16)
<1>1. PICK m \in Nat : m = Len(hs) /\ DOMAIN hs = 1 .. m
  OBVIOUS
<1>2. \A j \in 1 .. m : Horner(hs[j], 16) \in Nat
  <2>1. \A j \in 1 .. m : hs[j] \in HexTexts
    BY <1>1, ElementOfSeq
  <2> QED
    BY <2>1, HexTextType
<1>3. PICK f : f = Numbers(hs)
  OBVIOUS
<1>4. f = [j \in 1 .. m |-> Horner(hs[j], 16)]
  BY <1>1, <1>3 DEF Numbers
<1>5. f \in [1 .. m -> Nat]
  BY <1>2, <1>4
<1>6. f \in Seq(Nat) /\ Len(f) = m
  BY <1>5
<1> QED
  BY <1>1, <1>3, <1>4, <1>6

LEMMA NumbersIs ==
  ASSUME NEW hs \in Seq(HexTexts), NEW h \in HexTexts
  PROVE  /\ hs \in Seq(Texts0) /\ \A j \in 1 .. Len(hs) : hs[j] \in HexTexts
         /\ Append(hs, h) \in Seq(HexTexts) /\ Len(Append(hs, h)) = Len(hs) + 1
         /\ Numbers(hs) \in Seq(Nat) /\ Len(Numbers(hs)) = Len(hs)
         /\ Numbers(<<>>) = <<>>
         /\ Numbers(Append(hs, h)) = Append(Numbers(hs), Horner(h, 16))
<1>1. PICK n \in Nat : n = Len(hs) /\ DOMAIN hs = 1 .. n
  OBVIOUS
<1>2. \A j \in 1 .. n : hs[j] \in HexTexts
  BY <1>1, ElementOfSeq
<1>3. HexTexts \subseteq Texts0
  BY HexTextType
<1>4. hs \in Seq(Texts0)
  BY <1>3, SeqMonotonic
<1>5. ASSUME NEW s \in Seq(HexTexts)
      PROVE  /\ Numbers(s) \in Seq(Nat) /\ Len(Numbers(s)) = Len(s)
             /\ \A j \in 1 .. Len(s) : Numbers(s)[j] = Horner(s[j], 16)
  BY NumbersOf
<1>6. PICK more \in Seq(HexTexts) : more = Append(hs, h)
  BY AppendProperties
<1>7. Len(more) = n + 1 /\ more[n + 1] = h /\ \A j \in 1 .. n : more[j] = hs[j]
  BY <1>1, <1>6, AppendProperties
<1>8. Numbers(<<>>) = <<>>
  <2>1. PICK e \in Seq(HexTexts) : e = <<>> /\ Len(e) = 0
    <3>1. <<>> \in Seq(HexTexts) /\ Len(<<>>) = 0
      OBVIOUS
    <3> QED
      BY <3>1
  <2>2. Numbers(e) \in Seq(Nat) /\ Len(Numbers(e)) = 0
    BY <1>5, <2>1
  <2> QED
    BY <2>1, <2>2, EmptySeq
<1>9. PICK a \in Seq(Nat), v \in Nat, b \in Seq(Nat), c \in Seq(Nat) :
        a = Numbers(hs) /\ v = Horner(h, 16) /\ b = Numbers(more) /\ c = Append(a, v)
  <2>1. Numbers(hs) \in Seq(Nat) /\ Horner(h, 16) \in Nat /\ Numbers(more) \in Seq(Nat)
    BY <1>5, HexTextType
  <2>2. Append(Numbers(hs), Horner(h, 16)) \in Seq(Nat)
    BY <2>1, AppendProperties
  <2> QED
    BY <2>1, <2>2
<1>10. /\ Len(a) = n /\ \A j \in 1 .. n : a[j] = Horner(hs[j], 16)
       /\ Len(b) = n + 1 /\ \A j \in 1 .. n + 1 : b[j] = Horner(more[j], 16)
  BY <1>1, <1>5, <1>7, <1>9
<1>11. Len(c) = n + 1 /\ c[n + 1] = v /\ \A j \in 1 .. n : c[j] = a[j]
  BY <1>9, <1>10, AppendProperties
<1>12. \A j \in 1 .. n + 1 : b[j] = c[j]
  <2>1. \A j \in 1 .. n + 1 : j \in 1 .. n \/ j = n + 1
    OBVIOUS
  <2> QED
    BY <1>7, <1>9, <1>10, <1>11, <2>1
<1>13. b = c
  BY <1>10, <1>11, <1>12, SeqEqual
<1> QED
  BY <1>1, <1>2, <1>4, <1>5, <1>6, <1>7, <1>8, <1>9, <1>13

ChartedAs(txt, read) ==
  \E hs \in Seq(HexTexts) : \E cut, place :
    /\ Charted(txt, hs, cut, place)
    /\ read = [groups |-> Numbers(hs), gap |-> GapOf(cut), p |-> place[Len(hs)]]

LEMMA ChartGrows ==
  ASSUME NEW txt \in Texts0, NEW hs \in Seq(HexTexts), NEW cut, NEW place, Charted(txt, hs, cut, place),
         NEW h, NEW next, Turned(txt, h, Numbers(hs), GapOf(cut), place[Len(hs)], next)
  PROVE  ChartedAs(txt, next)
<1>1. PICK m \in Nat : m = Len(hs)
  OBVIOUS
<1>2. h \in HexTexts /\ Stands(txt, h, place[m]) /\ Len(Numbers(hs)) < Groups
  BY <1>1 DEF Turned
<1>3. /\ Numbers(hs) \in Seq(Nat) /\ Len(Numbers(hs)) = m
      /\ \A j \in 1 .. m : hs[j] \in HexTexts
      /\ Numbers(Append(hs, h)) = Append(Numbers(hs), Horner(h, 16))
  BY <1>1, <1>2, NumbersIs
<1>4. PICK more \in Seq(HexTexts) : more = Append(hs, h)
  BY <1>2, AppendProperties
<1>5. Len(more) = m + 1 /\ more[m + 1] = h /\ \A j \in 1 .. m : more[j] = hs[j]
  BY <1>1, <1>2, <1>4, AppendProperties
<1>6. /\ cut \in NoCut .. m /\ place[0] = IF cut = 0 THEN 3 ELSE 1
      /\ cut = 0 => At(txt, 1, Colon) /\ At(txt, 2, Colon)
      /\ \A j \in 0 .. m : place[j] \in Nat \ {0}
      /\ \A j \in 1 .. m : /\ Stands(txt, hs[j], place[j - 1])
                           /\ Follows(txt, cut, j, place[j - 1] + Len(hs[j]), place[j])
  BY <1>1 DEF Charted
<1>7. PICK p \in Nat \ {0} : p = place[m]
  BY <1>6
<1>8. PICK q \in Nat \ {0} : q = p + Len(h)
  BY <1>2, <1>7, HexTextType
<1>9. m < Groups /\ Groups \in Nat
  BY <1>2, <1>3, HexTextIs
<1>10. ASSUME NEW kut, NEW r \in Nat \ {0}, Follows(txt, kut, m + 1, q, r),
              kut = cut \/ (cut = NoCut /\ kut = m + 1),
              next = [groups |-> Numbers(more), gap |-> GapOf(kut), p |-> r]
       PROVE  ChartedAs(txt, next)
  <2>1. PICK there : there = [j \in 0 .. m + 1 |-> IF j = m + 1 THEN r ELSE place[j]]
    OBVIOUS
  <2>2. there[m + 1] = r /\ \A j \in 0 .. m : there[j] = place[j]
    BY <2>1
  <2>3. kut \in NoCut .. m + 1 /\ (kut = 0 <=> cut = 0)
    BY <1>6, <1>10 DEF NoCut
  <2>4. \A j \in 0 .. m + 1 : there[j] \in Nat \ {0}
    <3>1. \A j \in 0 .. m + 1 : j \in 0 .. m \/ j = m + 1
      OBVIOUS
    <3> QED
      BY <1>6, <1>10, <2>2, <3>1
  <2>5. ASSUME NEW j \in 1 .. m + 1
        PROVE  /\ Stands(txt, more[j], there[j - 1])
               /\ Follows(txt, kut, j, there[j - 1] + Len(more[j]), there[j])
    <3>1. CASE j = m + 1
      <4>1. there[j - 1] = p /\ more[j] = h /\ there[j] = r
        BY <1>5, <1>7, <2>2, <3>1
      <4> QED
        BY <1>2, <1>7, <1>8, <1>10, <3>1, <4>1
    <3>2. CASE j # m + 1
      <4>1. j \in 1 .. m /\ j \in 0 .. m /\ j - 1 \in 0 .. m
        BY <3>2
      <4>2. there[j - 1] = place[j - 1] /\ more[j] = hs[j] /\ there[j] = place[j]
        BY <1>5, <2>2, <4>1
      <4>3. Stands(txt, hs[j], place[j - 1]) /\ Follows(txt, cut, j, place[j - 1] + Len(hs[j]), place[j])
        BY <1>6, <4>1
      <4>4. j = kut <=> j = cut
        BY <1>10, <4>1 DEF NoCut
      <4>5. Follows(txt, kut, j, place[j - 1] + Len(hs[j]), place[j])
        BY <4>3, <4>4 DEF Follows
      <4> QED
        BY <4>2, <4>3, <4>5
    <3> QED
      BY <3>1, <3>2
  <2>6. there[0] = IF kut = 0 THEN 3 ELSE 1
    BY <1>6, <2>2, <2>3
  <2>7. Charted(txt, more, kut, there)
    BY <1>5, <1>6, <2>3, <2>4, <2>5, <2>6 DEF Charted
  <2> QED
    BY <1>5, <1>10, <2>2, <2>7 DEF ChartedAs
<1>11. PICK grown : grown = Numbers(more) /\ grown = Append(Numbers(hs), Horner(h, 16))
  BY <1>3, <1>4
<1>12. \/ q = Len(txt) + 1 /\ next = [groups |-> grown, gap |-> GapOf(cut), p |-> q]
       \/ /\ At(txt, q, Colon) /\ At(txt, q + 1, Colon) /\ GapOf(cut) = NoGap
          /\ next = [groups |-> grown, gap |-> m + 1, p |-> q + 2]
       \/ /\ At(txt, q, Colon) /\ ~At(txt, q + 1, Colon) /\ q < Len(txt)
          /\ next = [groups |-> grown, gap |-> GapOf(cut), p |-> q + 1]
  BY <1>1, <1>3, <1>7, <1>8, <1>11 DEF Turned
<1>13. m + 1 # cut
  BY <1>6 DEF NoCut
<1>14. CASE q = Len(txt) + 1 /\ next = [groups |-> grown, gap |-> GapOf(cut), p |-> q]
  <2>1. Follows(txt, cut, m + 1, q, q)
    BY <1>13, <1>14 DEF Follows
  <2> QED
    <3>1. next = [groups |-> Numbers(more), gap |-> GapOf(cut), p |-> q]
      BY <1>11, <1>14
    <3> QED
      BY <1>10, <2>1, <3>1
<1>15. CASE /\ At(txt, q, Colon) /\ At(txt, q + 1, Colon) /\ GapOf(cut) = NoGap
            /\ next = [groups |-> grown, gap |-> m + 1, p |-> q + 2]
  <2>1. cut = NoCut
    BY <1>6, <1>9, <1>15 DEF GapOf, NoGap, NoCut
  <2>2. GapOf(m + 1) = m + 1
    BY DEF GapOf, NoCut
  <2>3. Follows(txt, m + 1, m + 1, q, q + 2) /\ q + 2 \in Nat \ {0}
    BY <1>15 DEF Follows
  <2> QED
    BY <1>10, <1>11, <1>15, <2>1, <2>2, <2>3
<1>16. CASE /\ At(txt, q, Colon) /\ ~At(txt, q + 1, Colon) /\ q < Len(txt)
            /\ next = [groups |-> grown, gap |-> GapOf(cut), p |-> q + 1]
  <2>1. Follows(txt, cut, m + 1, q, q + 1) /\ q + 1 \in Nat \ {0}
    BY <1>13, <1>16 DEF Follows
  <2> QED
    <3>1. next = [groups |-> Numbers(more), gap |-> GapOf(cut), p |-> q + 1]
      BY <1>11, <1>16
    <3> QED
      BY <1>10, <2>1, <3>1
<1> QED
  BY <1>12, <1>14, <1>15, <1>16

(***************************************************************************)
(* What the loop has read is charted, and it gets on.                      *)
(***************************************************************************)
Reads(txt, read, i) ==
  \E hs \in Seq(HexTexts) : \E cut, place :
    /\ Charted(txt, hs, cut, place)
    /\ read = [groups |-> Numbers(hs), gap |-> GapOf(cut), p |-> place[Len(hs)]]
    /\ place[Len(hs)] \in i + 1 .. Len(txt) + 1

LEMMA ReadsStart ==
  ASSUME NEW txt \in Texts0, NEW cut \in {NoCut, 0}, cut = 0 => At(txt, 1, Colon) /\ At(txt, 2, Colon)
  PROVE  Reads(txt, [groups |-> <<>>, gap |-> GapOf(cut), p |-> IF cut = 0 THEN 3 ELSE 1], 0)
<1>1. PICK n \in Nat : n = Len(txt) /\ DOMAIN txt = 1 .. n
  BY DEF Texts0
<1>2. PICK hs \in Seq(HexTexts) : hs = <<>> /\ Len(hs) = 0 /\ Numbers(hs) = <<>>
  <2>1. <<>> \in Seq(HexTexts) /\ Len(<<>>) = 0
    OBVIOUS
  <2>2. Numbers(<<>>) = <<>>
    BY <2>1 DEF Numbers
  <2> QED
    BY <2>1, <2>2
<1>3. PICK p \in Nat \ {0} : p = IF cut = 0 THEN 3 ELSE 1
  OBVIOUS
<1>4. PICK place : place = [j \in 0 .. 0 |-> p]
  OBVIOUS
<1>5. place[0] = p /\ \A j \in 0 .. 0 : place[j] \in Nat \ {0}
  BY <1>4
<1>6. p \in 0 + 1 .. Len(txt) + 1
  BY <1>1, <1>3 DEF At
<1>7. cut \in NoCut .. 0
  BY DEF NoCut
<1>8. Charted(txt, hs, cut, place)
  BY <1>2, <1>3, <1>5, <1>7 DEF Charted
<1> QED
  BY <1>2, <1>3, <1>5, <1>6, <1>8 DEF Reads

LEMMA ReadsOn ==
  ASSUME NEW txt \in Texts0, NEW read, NEW i \in Nat, i < Len(txt), Reads(txt, read, i),
         NextGroup(txt, read) # BadGroups
  PROVE  Reads(txt, NextGroup(txt, read), i + 1)
<1>1. PICK n \in Nat : n = Len(txt)
  BY DEF Texts0
<1>2. PICK hs \in Seq(HexTexts) : \E cut, place :
        /\ Charted(txt, hs, cut, place)
        /\ read = [groups |-> Numbers(hs), gap |-> GapOf(cut), p |-> place[Len(hs)]]
        /\ place[Len(hs)] \in i + 1 .. Len(txt) + 1
  BY DEF Reads
<1>3. PICK cut, place :
        /\ Charted(txt, hs, cut, place)
        /\ read = [groups |-> Numbers(hs), gap |-> GapOf(cut), p |-> place[Len(hs)]]
        /\ place[Len(hs)] \in i + 1 .. Len(txt) + 1
  BY <1>2
<1>4. PICK p \in Nat \ {0} : p = place[Len(hs)] /\ p \in i + 1 .. n + 1
  BY <1>1, <1>3
<1>5. read.p = p
  BY <1>3, <1>4
<1>6. CASE p > n
  <2>1. NextGroup(txt, read) = read
    BY <1>1, <1>5, <1>6 DEF NextGroup
  <2>2. p \in (i + 1) + 1 .. Len(txt) + 1
    BY <1>1, <1>4, <1>6
  <2> QED
    BY <1>3, <1>4, <2>1, <2>2 DEF Reads
<1>7. CASE ~(p > n)
  <2>1. PICK groups \in Seq(Nat) : groups = Numbers(hs)
    <3>1. CASE hs = <<>>
      <4>1. Numbers(hs) = <<>>
        BY <3>1 DEF Numbers
      <4>2. <<>> \in Seq(Nat)
        OBVIOUS
      <4> QED
        BY <4>1, <4>2
    <3>2. CASE hs # <<>>
      <4>1. hs[1] \in HexTexts
        <5>1. 1 \in 1 .. Len(hs)
          BY <3>2, EmptySeq
        <5> QED
          BY <5>1, ElementOfSeq
      <4> QED
        BY <4>1, NumbersIs
    <3> QED
      BY <3>1, <3>2
  <2>2. PICK gap \in Nat : gap = GapOf(cut)
    <3>1. cut \in NoCut .. Len(hs) /\ Groups \in Nat
      BY <1>3, HexTextIs DEF Charted
    <3> QED
      BY <3>1 DEF GapOf, NoCut, NoGap
  <2>3. PICK next : next = NextGroup(txt, read) /\ next # BadGroups
    OBVIOUS
  <2>4. read = [groups |-> groups, gap |-> gap, p |-> p] /\ p \in 1 .. Len(txt)
    BY <1>1, <1>3, <1>4, <1>7, <2>1, <2>2
  <2>5. next = NextGroup(txt, [groups |-> groups, gap |-> gap, p |-> p])
    BY <2>3, <2>4
  <2>6. PICK h : Turned(txt, h, groups, gap, p, next)
    BY <2>3, <2>4, <2>5, GroupWritten
  <2>7. Turned(txt, h, Numbers(hs), GapOf(cut), place[Len(hs)], next)
    BY <1>4, <2>1, <2>2, <2>6
  <2>8. ChartedAs(txt, next)
    BY <1>3, <2>7, ChartGrows
  <2>9. PICK more \in Seq(HexTexts) : \E kut, there :
           /\ Charted(txt, more, kut, there)
           /\ next = [groups |-> Numbers(more), gap |-> GapOf(kut), p |-> there[Len(more)]]
    BY <2>8 DEF ChartedAs
  <2>10. PICK kut, there : /\ Charted(txt, more, kut, there)
                          /\ next = [groups |-> Numbers(more), gap |-> GapOf(kut), p |-> there[Len(more)]]
    BY <2>9
  <2>11. PICK q \in p + 1 .. Len(txt) + 1 : q = next.p
    <3>1. \E b \in Seq(Nat), g \in Nat, q \in p + 1 .. Len(txt) + 1 :
            next = [groups |-> b, gap |-> g, p |-> q]
      BY <2>6, TurnedIs
    <3> QED
      BY <3>1
  <2>12. there[Len(more)] = q /\ q \in (i + 1) + 1 .. Len(txt) + 1
    BY <1>1, <1>4, <2>10, <2>11
  <2> QED
    BY <2>3, <2>10, <2>12 DEF Reads
<1> QED
  BY <1>6, <1>7

LEMMA GroupsWritten ==
  ASSUME NEW txt \in Texts0, AddressGroups(txt) # BadGroups
  PROVE  \E hs \in Seq(HexTexts) : \E cut, place :
           /\ Charted(txt, hs, cut, place) /\ place[Len(hs)] = Len(txt) + 1
           /\ AddressGroups(txt) = [groups |-> Numbers(hs), gap |-> GapOf(cut), p |-> Len(txt) + 1]
<1>1. PICK n \in Nat : n = Len(txt) /\ DOMAIN txt = 1 .. n
  BY DEF Texts0
<1>2. PICK cut \in {NoCut, 0} : cut = 0 <=> At(txt, 1, Colon) /\ At(txt, 2, Colon)
  <2>1. NoCut # 0
    BY DEF NoCut
  <2> QED
    BY <2>1
<1>3. PICK p : p = IF cut = 0 THEN 3 ELSE 1
  OBVIOUS
<1>4. p \in 1 .. Len(txt) + 1
  BY <1>1, <1>2, <1>3 DEF At
<1>5. PICK gap \in Nat : gap = GapOf(cut)
  <2>1. Groups \in Nat
    BY HexTextIs
  <2> QED
    BY <2>1 DEF GapOf, NoCut, NoGap
<1>6. AddressGroups(txt) = GroupsFrom(txt, p, gap)
  BY <1>2, <1>3, <1>5 DEF AddressGroups, GapOf, NoCut
<1>7. PICK w : GroupTurns(txt, p, gap, w) /\ GroupsFrom(txt, p, gap) = w[Len(txt)]
  BY <1>4, GroupsAre
<1> DEFINE Got(i) == w[i] = BadGroups \/ Reads(txt, w[i], i)
           T == {i \in 0 .. n : Got(i)}
<1>8. 0 \in T
  <2>1. w[0] = [groups |-> <<>>, gap |-> GapOf(cut), p |-> IF cut = 0 THEN 3 ELSE 1]
    BY <1>3, <1>5, <1>7 DEF GroupTurns
  <2>2. Reads(txt, w[0], 0)
    BY <1>2, <2>1, ReadsStart
  <2>3. Got(0) /\ 0 \in 0 .. n
    BY <1>1, <2>2
  <2> HIDE DEF Got
  <2> QED
    BY <2>3
<1>9. ASSUME NEW i \in 0 .. n - 1, i \in T PROVE i + 1 \in T
  <2>1. w[i + 1] = NextGroup(txt, w[i]) /\ i + 1 \in 0 .. n /\ i \in Nat /\ i < Len(txt)
    BY <1>1, <1>7 DEF GroupTurns
  <2>2. Got(i)
    BY <1>9
  <2>3. Got(i + 1)
    <3>1. CASE w[i] = BadGroups
      BY <2>1, <3>1 DEF NextGroup
    <3>2. CASE w[i] # BadGroups
      <4>1. Reads(txt, w[i], i)
        BY <2>2, <3>2
      <4> QED
        BY <2>1, <4>1, ReadsOn
    <3> QED
      BY <3>1, <3>2
  <2> HIDE DEF Got
  <2> QED
    BY <2>1, <2>3
<1>10. Got(n)
  <2>1. \A i \in 0 .. n : i \in T
    <3> HIDE DEF T
    <3> QED
      BY <1>1, <1>8, <1>9, UpToNumber
  <2>2. n \in T
    <3> HIDE DEF T
    <3> QED
      BY <1>1, <2>1
  <2> HIDE DEF Got
  <2> QED
    BY <2>2
<1>11. PICK found : found = AddressGroups(txt) /\ found = w[n]
  BY <1>1, <1>6, <1>7
<1>12. Reads(txt, found, n)
  BY <1>10, <1>11
<1>13. PICK hs \in Seq(HexTexts) : \E kut, place :
        /\ Charted(txt, hs, kut, place)
        /\ found = [groups |-> Numbers(hs), gap |-> GapOf(kut), p |-> place[Len(hs)]]
        /\ place[Len(hs)] \in n + 1 .. Len(txt) + 1
  BY <1>12 DEF Reads
<1>14. PICK kut, place :
        /\ Charted(txt, hs, kut, place)
        /\ found = [groups |-> Numbers(hs), gap |-> GapOf(kut), p |-> place[Len(hs)]]
        /\ place[Len(hs)] \in n + 1 .. Len(txt) + 1
  BY <1>13
<1>15. place[Len(hs)] = Len(txt) + 1
  BY <1>1, <1>14
<1> QED
  BY <1>11, <1>14, <1>15

(***************************************************************************)
(* What is charted is read.                                                *)
(***************************************************************************)
Known(hs, cut, place, k) ==
  [groups |-> Numbers(SubSeq(hs, 1, k)),
   gap    |-> IF cut # NoCut /\ k >= cut THEN cut ELSE NoGap,
   p      |-> place[k]]

LEMMA ChartTurns ==
  ASSUME NEW txt \in Texts0, NEW hs \in Seq(HexTexts), NEW cut, NEW place, Charted(txt, hs, cut, place),
         Len(hs) <= Groups, NEW k \in 0 .. Len(hs) - 1
  PROVE  /\ NextGroup(txt, Known(hs, cut, place, k)) = Known(hs, cut, place, k + 1)
         /\ place[k] \in 1 .. Len(txt) /\ place[k + 1] \in Nat /\ place[k] < place[k + 1]
<1>1. PICK n \in Nat : n = Len(txt) /\ DOMAIN txt = 1 .. n
  BY DEF Texts0
<1>2. PICK m \in Nat : m = Len(hs) /\ m <= Groups /\ Groups \in Nat
  BY HexTextIs
<1>3. PICK j \in 1 .. m : j = k + 1 /\ j - 1 = k /\ j \in 0 .. m /\ k \in 0 .. m /\ k < m /\ j \in Nat
  BY <1>2
<1>4. /\ cut \in NoCut .. m
      /\ place[k] \in Nat \ {0} /\ place[j] \in Nat \ {0}
      /\ Stands(txt, hs[j], place[k]) /\ Follows(txt, cut, j, place[k] + Len(hs[j]), place[j])
  BY <1>2, <1>3 DEF Charted
<1>5. PICK h \in HexTexts : h = hs[j]
  BY <1>2, <1>3, ElementOfSeq
<1>6. PICK p \in Nat \ {0}, r \in Nat \ {0} : p = place[k] /\ r = place[j]
  BY <1>4
<1>7. PICK q \in Nat \ {0} : q = p + Len(h) /\ p < q /\ q <= n + 1
  <2>1. PICK l \in Nat \ {0} : l = Len(h)
    BY HexTextType
  <2>2. p + l <= n + 1
    BY <1>1, <1>4, <1>5, <1>6, <2>1 DEF Stands
  <2> QED
    BY <2>1, <2>2
<1>8. PICK f \in Seq(HexTexts) : /\ f = SubSeq(hs, 1, k) /\ Len(f) = k
                                 /\ SubSeq(hs, 1, j) = Append(f, h)
  <2>1. k \in 0 .. Len(hs) /\ k < Len(hs)
    BY <1>2, <1>3
  <2>2. /\ SubSeq(hs, 1, k) \in Seq(HexTexts) /\ Len(SubSeq(hs, 1, k)) = k
        /\ SubSeq(hs, 1, k + 1) = Append(SubSeq(hs, 1, k), hs[k + 1])
    BY <2>1, Fronts
  <2> QED
    BY <1>3, <1>5, <2>2
<1>9. PICK groups \in Seq(Nat) : groups = Numbers(f) /\ Len(groups) = k
  BY <1>8, NumbersIs
<1>10. Numbers(SubSeq(hs, 1, j)) = Append(groups, Horner(h, 16))
  BY <1>8, <1>9, NumbersIs
<1>11. PICK gap : gap = IF cut # NoCut /\ k >= cut THEN cut ELSE NoGap
  OBVIOUS
<1>12. PICK grown : grown = Append(groups, Horner(h, 16))
  OBVIOUS
<1>13. PICK next : next = Known(hs, cut, place, j)
  OBVIOUS
<1>14. next = [groups |-> grown, gap |-> IF cut # NoCut /\ j >= cut THEN cut ELSE NoGap, p |-> r]
  BY <1>6, <1>10, <1>12, <1>13 DEF Known
<1>15. Known(hs, cut, place, k) = [groups |-> groups, gap |-> gap, p |-> p]
  BY <1>6, <1>8, <1>9, <1>11 DEF Known
<1>16. Follows(txt, cut, j, q, r) /\ Stands(txt, h, p)
  BY <1>4, <1>5, <1>6, <1>7
<1>17. cut \in Int /\ cut <= m /\ NoCut = -1
  BY <1>4 DEF NoCut
<1>18. Turned(txt, h, groups, gap, p, next) /\ p < r
  <2>1. Len(groups) < Groups
    BY <1>2, <1>3, <1>9
  <2>2. CASE j = cut /\ At(txt, q, Colon) /\ At(txt, q + 1, Colon) /\ r = q + 2
    <3>1. gap = NoGap
      BY <1>3, <1>11, <1>17, <2>2
    <3>2. next = [groups |-> grown, gap |-> Len(groups) + 1, p |-> q + 2]
      BY <1>3, <1>9, <1>14, <1>17, <2>2
    <3>3. Turned(txt, h, groups, gap, p, next)
      BY <1>7, <1>12, <1>16, <2>1, <2>2, <3>1, <3>2 DEF Turned
    <3> QED
      BY <1>7, <2>2, <3>3
  <2>3. ASSUME j # cut PROVE next = [groups |-> grown, gap |-> gap, p |-> r]
    <3>1. j >= cut <=> k >= cut
      BY <1>3, <1>17, <2>3
    <3> QED
      BY <1>11, <1>14, <3>1
  <2>4. CASE j # cut /\ q = Len(txt) + 1 /\ r = q
    <3>1. next = [groups |-> grown, gap |-> gap, p |-> q]
      BY <2>3, <2>4
    <3>2. Turned(txt, h, groups, gap, p, next)
      BY <1>7, <1>12, <1>16, <2>1, <2>4, <3>1 DEF Turned
    <3> QED
      BY <1>7, <2>4, <3>2
  <2>5. CASE j # cut /\ At(txt, q, Colon) /\ ~At(txt, q + 1, Colon) /\ q < Len(txt) /\ r = q + 1
    <3>1. next = [groups |-> grown, gap |-> gap, p |-> q + 1]
      BY <2>3, <2>5
    <3>2. Turned(txt, h, groups, gap, p, next)
      BY <1>7, <1>12, <1>16, <2>1, <2>5, <3>1 DEF Turned
    <3> QED
      BY <1>7, <2>5, <3>2
  <2> QED
    BY <1>16, <2>2, <2>4, <2>5 DEF Follows
<1>19. NextGroup(txt, [groups |-> groups, gap |-> gap, p |-> p]) = next
  BY <1>18, GroupRead
<1> QED
  BY <1>1, <1>3, <1>6, <1>7, <1>13, <1>15, <1>18, <1>19, SMTT(30)

LEMMA GroupsKnown ==
  ASSUME NEW txt \in Texts0, NEW hs \in Seq(HexTexts), NEW cut, NEW place, Charted(txt, hs, cut, place),
         Len(hs) <= Groups, place[Len(hs)] = Len(txt) + 1,
         NEW w, GroupTurns(txt, place[0], IF cut = 0 THEN 0 ELSE NoGap, w)
  PROVE  w[Len(txt)] = [groups |-> Numbers(hs), gap |-> GapOf(cut), p |-> Len(txt) + 1]
<1>1. PICK n \in Nat : n = Len(txt)
  BY DEF Texts0
<1>2. PICK m \in Nat : m = Len(hs)
  OBVIOUS
<1>3. ASSUME NEW k \in 0 .. m - 1
      PROVE  /\ NextGroup(txt, Known(hs, cut, place, k)) = Known(hs, cut, place, k + 1)
             /\ place[k] \in 1 .. n /\ place[k + 1] \in Nat /\ place[k] < place[k + 1]
  BY <1>1, <1>2, ChartTurns
<1>4. cut \in NoCut .. m /\ place[0] = IF cut = 0 THEN 3 ELSE 1
  BY <1>2 DEF Charted
<1>5. SubSeq(hs, 1, m) = hs /\ SubSeq(hs, 1, 0) = <<>>
  <2>1. m \in 0 .. Len(hs) /\ 0 \in 0 .. Len(hs)
    BY <1>2
  <2>2. SubSeq(hs, 1, Len(hs)) = hs /\ (SubSeq(hs, 1, 0) = <<>> <=> 0 = 0)
    BY <2>1, Fronts
  <2> QED
    BY <1>2, <2>2
<1>6. Known(hs, cut, place, m) = [groups |-> Numbers(hs), gap |-> GapOf(cut), p |-> n + 1]
  <2>1. (IF cut # NoCut /\ m >= cut THEN cut ELSE NoGap) = GapOf(cut)
    BY <1>4 DEF GapOf, NoCut
  <2> QED
    BY <1>1, <1>2, <1>5, <2>1 DEF Known
<1> DEFINE Got(i) == /\ i <= m => w[i] = Known(hs, cut, place, i) /\ place[i] \in Nat /\ place[i] >= i + 1
                     /\ i > m => w[i] = Known(hs, cut, place, m)
           T == {i \in 0 .. n : Got(i)}
<1>7. 0 \in T
  <2>1. w[0] = [groups |-> <<>>, gap |-> IF cut = 0 THEN 0 ELSE NoGap, p |-> place[0]]
    BY DEF GroupTurns
  <2>2. Numbers(SubSeq(hs, 1, 0)) = <<>>
    BY <1>5 DEF Numbers
  <2>3. (IF cut # NoCut /\ 0 >= cut THEN cut ELSE NoGap) = IF cut = 0 THEN 0 ELSE NoGap
    BY <1>4 DEF NoCut
  <2>4. w[0] = Known(hs, cut, place, 0)
    BY <2>1, <2>2, <2>3 DEF Known
  <2>5. Got(0) /\ 0 \in 0 .. n
    BY <1>1, <1>4, <2>4
  <2> HIDE DEF Got
  <2> QED
    BY <2>5
<1>8. ASSUME NEW i \in 0 .. n - 1, i \in T PROVE i + 1 \in T
  <2>1. w[i + 1] = NextGroup(txt, w[i]) /\ i + 1 \in 0 .. n
    BY <1>1 DEF GroupTurns
  <2>2. Got(i)
    BY <1>8
  <2>3. CASE i < m
    <3>1. i \in 0 .. m - 1 /\ i <= m /\ i + 1 <= m
      BY <2>3
    <3>2. w[i + 1] = Known(hs, cut, place, i + 1) /\ place[i + 1] \in Nat /\ place[i] < place[i + 1]
      BY <1>3, <2>1, <2>2, <3>1
    <3>3. place[i + 1] >= (i + 1) + 1
      BY <2>2, <3>1, <3>2
    <3>4. Got(i + 1)
      BY <3>1, <3>2, <3>3
    <3> HIDE DEF Got
    <3> QED
      BY <2>1, <3>4
  <2>4. CASE ~(i < m)
    <3>1. w[i] = Known(hs, cut, place, m)
      <4>1. i > m \/ i = m
        BY <2>4
      <4> QED
        BY <2>2, <4>1
    <3>2. w[i].p > Len(txt)
      BY <1>1, <1>6, <3>1
    <3>3. w[i + 1] = w[i]
      BY <2>1, <3>2 DEF NextGroup
    <3>4. i + 1 > m /\ ~(i + 1 <= m)
      BY <2>4
    <3>5. Got(i + 1)
      BY <3>1, <3>3, <3>4
    <3> HIDE DEF Got
    <3> QED
      BY <2>1, <3>5
  <2> QED
    BY <2>3, <2>4
<1>9. Got(n)
  <2>1. \A i \in 0 .. n : i \in T
    <3> HIDE DEF T
    <3> QED
      BY <1>1, <1>7, <1>8, UpToNumber
  <2>2. n \in T
    <3> HIDE DEF T
    <3> QED
      BY <1>1, <2>1
  <2> HIDE DEF Got
  <2> QED
    BY <2>2
<1>10. n >= m
  <2>1. SUFFICES ASSUME n < m PROVE FALSE
    OBVIOUS
  <2>2. n \in 0 .. m - 1 /\ n <= m
    BY <2>1
  <2>3. place[n] \in 1 .. n /\ place[n] >= n + 1
    BY <1>3, <1>9, <2>2
  <2> QED
    BY <2>3
<1>11. w[n] = Known(hs, cut, place, m)
  <2>1. n > m \/ n = m
    BY <1>10
  <2> QED
    BY <1>9, <2>1
<1> QED
  BY <1>1, <1>6, <1>11

LEMMA GroupsReadBack ==
  ASSUME NEW txt \in Texts0, NEW hs \in Seq(HexTexts), NEW cut, NEW place, Charted(txt, hs, cut, place),
         Len(hs) <= Groups, place[Len(hs)] = Len(txt) + 1, cut = 0 \/ hs # <<>>
  PROVE  AddressGroups(txt) = [groups |-> Numbers(hs), gap |-> GapOf(cut), p |-> Len(txt) + 1]
<1>1. PICK n \in Nat : n = Len(txt) /\ DOMAIN txt = 1 .. n
  BY DEF Texts0
<1>2. PICK gap \in Nat : gap = IF cut = 0 THEN 0 ELSE NoGap
  <2>1. Groups \in Nat
    BY HexTextIs
  <2> QED
    BY <2>1 DEF NoGap
<1>3. place[0] = IF cut = 0 THEN 3 ELSE 1
  BY DEF Charted
<1>4. cut = 0 <=> At(txt, 1, Colon) /\ At(txt, 2, Colon)
  <2>1. CASE cut = 0
    BY <2>1 DEF Charted
  <2>2. CASE cut # 0
    <3>1. 1 \in 1 .. Len(hs) /\ place[1 - 1] = 1
      BY <1>3, <2>2, EmptySeq
    <3>2. PICK h \in HexTexts : h = hs[1]
      BY <3>1, ElementOfSeq
    <3>3. Stands(txt, h, 1)
      BY <3>1, <3>2 DEF Charted
    <3>4. 1 \in 1 .. Len(h) /\ h[1] \in HexDigit
      BY <3>2, HexTextType
    <3>5. txt[(1 + 1) - 1] = h[1]
      BY <3>3, <3>4 DEF Stands
    <3>6. txt[1] \in HexDigit /\ Colon \notin HexDigit
      BY <3>4, <3>5, Characters
    <3> QED
      BY <2>2, <3>6 DEF At
  <2> QED
    BY <2>1, <2>2
<1>5. place[0] \in 1 .. Len(txt) + 1
  BY <1>1, <1>3, <1>4 DEF At
<1>6. AddressGroups(txt) = GroupsFrom(txt, place[0], gap)
  BY <1>2, <1>3, <1>4 DEF AddressGroups
<1>7. PICK w : GroupTurns(txt, place[0], gap, w) /\ GroupsFrom(txt, place[0], gap) = w[Len(txt)]
  BY <1>5, GroupsAre
<1>8. w[Len(txt)] = [groups |-> Numbers(hs), gap |-> GapOf(cut), p |-> Len(txt) + 1]
  <2>1. GroupTurns(txt, place[0], IF cut = 0 THEN 0 ELSE NoGap, w)
    BY <1>2, <1>7
  <2> QED
    BY <2>1, GroupsKnown
<1> QED
  BY <1>6, <1>7, <1>8

(***************************************************************************)
(* An address that is charted is spelled so, and the other way round.  The *)
(* gap and what is in front of it make the head, the other groups the      *)
(* rest.                                                                   *)
(***************************************************************************)
Lead(cut) == IF cut = NoCut THEN 0 ELSE cut
Rest(hs, cut) == SubSeq(hs, Lead(cut) + 1, Len(hs))
HeadText(hs, cut) ==
  IF cut = NoCut THEN <<>> ELSE Join(SubSeq(hs, 1, cut), Colon) \o <<Colon, Colon>>

LEMMA Backs ==
  ASSUME NEW S, NEW s \in Seq(S), NEW k \in 0 .. Len(s)
  PROVE  /\ SubSeq(s, k + 1, Len(s)) \in Seq(S) /\ Len(SubSeq(s, k + 1, Len(s))) = Len(s) - k
         /\ \A i \in 1 .. Len(s) - k : SubSeq(s, k + 1, Len(s))[i] = s[k + i]
         /\ k = 0 => SubSeq(s, k + 1, Len(s)) = s
         /\ SubSeq(s, 1, k) \in Seq(S) /\ Len(SubSeq(s, 1, k)) = k
         /\ \A i \in 1 .. k : SubSeq(s, 1, k)[i] = s[i]
<1>1. PICK n \in Nat : n = Len(s)
  OBVIOUS
<1>2. \A i \in 1 .. n : s[i] \in S
  BY <1>1, ElementOfSeq
<1>3. PICK a \in Int : a = k + 1
  BY <1>1
<1>4. PICK b : b = SubSeq(s, a, n)
  OBVIOUS
<1>5. \A i \in a .. n : s[i] \in S
  BY <1>1, <1>2, <1>3
<1>6. /\ b \in Seq(S) /\ Len(b) = IF a <= n THEN (n - a) + 1 ELSE 0
      /\ \A i \in 1 .. (n - a) + 1 : b[i] = s[(a + i) - 1]
  BY <1>1, <1>3, <1>4, <1>5, SubSeqProperties
<1>7. Len(b) = n - k /\ (n - a) + 1 = n - k
  BY <1>1, <1>3, <1>6
<1>8. \A i \in 1 .. n - k : b[i] = s[k + i]
  <2>1. \A i \in 1 .. n - k : (a + i) - 1 = k + i
    BY <1>1, <1>3
  <2> QED
    BY <1>6, <1>7, <2>1
<1>9. k = 0 => b = s
  <2>1. SUFFICES ASSUME k = 0 PROVE b = s
    OBVIOUS
  <2>2. Len(b) = Len(s)
    BY <1>1, <1>7, <2>1
  <2>3. \A i \in 1 .. Len(b) : b[i] = s[i]
    BY <1>1, <1>7, <1>8, <2>1
  <2> QED
    BY <1>6, <2>2, <2>3, SeqEqual
<1>10. PICK c : c = SubSeq(s, 1, k)
  OBVIOUS
<1>11. c \in Seq(S) /\ Len(c) = k /\ \A i \in 1 .. k : c[i] = s[i]
  <2>1. 1 \in Int /\ k \in Int /\ \A i \in 1 .. k : s[i] \in S
    BY <1>1, <1>2
  <2>2. /\ c \in Seq(S) /\ Len(c) = IF 1 <= k THEN (k - 1) + 1 ELSE 0
        /\ \A i \in 1 .. (k - 1) + 1 : c[i] = s[(1 + i) - 1]
    BY <1>10, <2>1, SubSeqProperties
  <2>3. (IF 1 <= k THEN (k - 1) + 1 ELSE 0) = k /\ (k - 1) + 1 = k /\ \A i \in 1 .. k : (1 + i) - 1 = i
    OBVIOUS
  <2> QED
    BY <2>2, <2>3
<1> QED
  BY <1>1, <1>3, <1>4, <1>6, <1>7, <1>8, <1>9, <1>10, <1>11

LEMMA StandsTwo ==
  ASSUME NEW txt \in Texts0, NEW c \in 0 .. Junk, NEW p \in Nat \ {0}
  PROVE  /\ <<c, c>> \in Texts0 /\ Len(<<c, c>>) = 2
         /\ Stands(txt, <<c, c>>, p) <=> At(txt, p, c) /\ At(txt, p + 1, c)
<1>1. PICK n \in Nat : n = Len(txt) /\ DOMAIN txt = 1 .. n
  BY DEF Texts0
<1>2. PICK s : s = <<c, c>>
  OBVIOUS
<1>3. s \in Texts0 /\ Len(s) = 2 /\ s[1] = c /\ s[2] = c
  BY <1>2 DEF Texts0
<1>4. Stands(txt, s, p) <=> p + 2 <= n + 1 /\ txt[p] = c /\ txt[p + 1] = c
  <2>1. (p + 1) - 1 = p /\ (p + 2) - 1 = p + 1 /\ \A i \in 1 .. 2 : i = 1 \/ i = 2
    OBVIOUS
  <2>2. 1 \in 1 .. 2 /\ 2 \in 1 .. 2
    OBVIOUS
  <2> QED
    BY <1>1, <1>3, <2>1, <2>2 DEF Stands
<1>5. At(txt, p, c) /\ At(txt, p + 1, c) <=> p + 1 <= n /\ txt[p] = c /\ txt[p + 1] = c
  BY <1>1 DEF At
<1> QED
  BY <1>2, <1>3, <1>4, <1>5

LEMMA HeadIs ==
  ASSUME NEW txt \in Texts0, NEW hs \in Seq(HexTexts), NEW cut \in NoCut .. Len(hs)
  PROVE  /\ Lead(cut) \in 0 .. Len(hs)
         /\ HeadText(hs, cut) \in Texts0 /\ Join(Rest(hs, cut), Colon) \in Texts0
         /\ SpelledGroups([groups |-> hs, cut |-> cut]) = HeadText(hs, cut) \o Join(Rest(hs, cut), Colon)
         /\ Join(SubSeq(hs, 1, Lead(cut)), Colon) \in Texts0
         /\ cut # NoCut =>
              /\ 1 + Len(HeadText(hs, cut)) = (1 + Len(Join(SubSeq(hs, 1, cut), Colon))) + 2
              /\ Stands(txt, HeadText(hs, cut), 1) <=>
                   /\ Stands(txt, Join(SubSeq(hs, 1, cut), Colon), 1)
                   /\ At(txt, 1 + Len(Join(SubSeq(hs, 1, cut), Colon)), Colon)
                   /\ At(txt, (1 + Len(Join(SubSeq(hs, 1, cut), Colon))) + 1, Colon)
<1>1. PICK m \in Nat : m = Len(hs)
  OBVIOUS
<1>2. Lead(cut) \in 0 .. m /\ NoCut = -1
  BY <1>1 DEF Lead, NoCut
<1>3. PICK k \in 0 .. Len(hs) : k = Lead(cut)
  BY <1>1, <1>2
<1>4. PICK a \in Seq(HexTexts), b \in Seq(HexTexts) :
        a = SubSeq(hs, 1, k) /\ b = SubSeq(hs, k + 1, Len(hs)) /\ (k = 0 => b = hs)
  BY Backs
<1>5. a \in Seq(Texts0) /\ b \in Seq(Texts0) /\ hs \in Seq(Texts0)
  BY HexTextType, SeqMonotonic
<1>6. Colon \in 0 .. Junk /\ <<>> \in Texts0
  BY Characters DEF Texts0
<1>7. PICK front \in Texts0, back \in Texts0 : front = Join(a, Colon) /\ back = Join(b, Colon)
  <2>1. Join(a, Colon) \in Texts0 /\ Join(b, Colon) \in Texts0
    BY <1>5, <1>6, JoinAppend
  <2> QED
    BY <2>1
<1>8. b = Rest(hs, cut)
  BY <1>3, <1>4 DEF Rest
<1>9. CASE cut = NoCut
  <2>1. HeadText(hs, cut) = <<>>
    BY <1>9 DEF HeadText
  <2>2. k = 0 /\ b = hs
    BY <1>3, <1>4, <1>9 DEF Lead
  <2>3. SpelledGroups([groups |-> hs, cut |-> cut]) = back
    BY <1>7, <1>9, <2>2 DEF SpelledGroups
  <2>4. back = <<>> \o back
    BY <1>7, ConcatEmptySeq DEF Texts0
  <2> QED
    BY <1>3, <1>4, <1>6, <1>7, <1>8, <1>9, <2>1, <2>3, <2>4
<1>10. CASE cut # NoCut
  <2>1. k = cut
    BY <1>3, <1>10 DEF Lead
  <2>2. PICK two \in Texts0 : two = <<Colon, Colon>> /\ Len(two) = 2
    <3>1. 1 \in Nat \ {0} /\ Colon \in 0 .. Junk
      BY <1>6
    <3>2. <<Colon, Colon>> \in Texts0 /\ Len(<<Colon, Colon>>) = 2
      BY <3>1, StandsTwo
    <3> QED
      BY <3>2
  <2>3. HeadText(hs, cut) = front \o two
    BY <1>4, <1>7, <1>10, <2>1, <2>2 DEF HeadText
  <2>4. PICK l \in Nat : l = Len(front)
    BY <1>7 DEF Texts0
  <2>5. /\ front \o two \in Texts0 /\ Len(front \o two) = l + 2
        /\ Stands(txt, front \o two, 1) <=> Stands(txt, front, 1) /\ Stands(txt, two, 1 + l)
    <3>1. 1 \in Nat
      OBVIOUS
    <3> QED
      BY <1>7, <2>2, <2>4, <3>1, StandsConcat
  <2>6. Stands(txt, two, 1 + l) <=> At(txt, 1 + l, Colon) /\ At(txt, (1 + l) + 1, Colon)
    <3>1. 1 + l \in Nat \ {0}
      BY <2>4
    <3> QED
      BY <1>6, <2>2, <3>1, StandsTwo
  <2>7. SpelledGroups([groups |-> hs, cut |-> cut]) = (front \o two) \o back
    <3>1. PICK shape : shape = [groups |-> hs, cut |-> cut]
      OBVIOUS
    <3>2. Before(shape) = a /\ Behind(shape) = b
      BY <1>4, <2>1, <3>1 DEF Before, Behind
    <3> QED
      BY <1>7, <1>10, <2>2, <3>1, <3>2 DEF SpelledGroups
  <2>8. 1 + (l + 2) = (1 + l) + 2
    BY <2>4
  <2> QED
    BY <1>3, <1>4, <1>7, <1>8, <1>10, <2>1, <2>3, <2>4, <2>5, <2>6, <2>7, <2>8
<1> QED
  BY <1>9, <1>10

\* A group in front of another one, with a colon between them.
LEMMA FollowsOn ==
  ASSUME NEW txt \in Texts0, NEW q \in Nat \ {0}, NEW h \in HexTexts, NEW cut, NEW j, j # cut, NEW r \in Nat \ {0}
  PROVE  /\ At(txt, q, Colon) /\ Stands(txt, h, q + 1) => Follows(txt, cut, j, q, q + 1)
         /\ Follows(txt, cut, j, q, r) /\ Stands(txt, h, r) => At(txt, q, Colon) /\ r = q + 1
<1>1. PICK n \in Nat : n = Len(txt) /\ DOMAIN txt = 1 .. n
  BY DEF Texts0
<1>2. PICK l \in Nat \ {0} : l = Len(h)
  BY HexTextType
<1>3. 1 \in 1 .. Len(h) /\ h[1] \in HexDigit /\ Colon \notin HexDigit
  BY <1>2, HexTextType, Characters
<1>4. ASSUME At(txt, q, Colon), Stands(txt, h, q + 1) PROVE Follows(txt, cut, j, q, q + 1)
  <2>1. (q + 1) + l <= n + 1
    BY <1>1, <1>2, <1>4 DEF Stands
  <2>2. q < Len(txt)
    BY <1>1, <1>2, <2>1
  <2>3. txt[((q + 1) + 1) - 1] = h[1] /\ ((q + 1) + 1) - 1 = q + 1
    BY <1>3, <1>4 DEF Stands
  <2>4. ~At(txt, q + 1, Colon)
    BY <1>3, <2>3 DEF At
  <2> QED
    BY <1>4, <2>2, <2>4 DEF Follows
<1>5. ASSUME Follows(txt, cut, j, q, r), Stands(txt, h, r) PROVE At(txt, q, Colon) /\ r = q + 1
  <2>1. r + l <= n + 1
    BY <1>1, <1>2, <1>5 DEF Stands
  <2>2. r # n + 1
    BY <1>2, <2>1
  <2> QED
    BY <1>1, <1>5, <2>2 DEF Follows
<1> QED
  BY <1>4, <1>5

LEMMA ChartSpelled ==
  ASSUME NEW txt \in Texts0, NEW hs \in Seq(HexTexts), NEW cut, NEW place, Charted(txt, hs, cut, place),
         place[Len(hs)] = Len(txt) + 1
  PROVE  txt = SpelledGroups([groups |-> hs, cut |-> cut])
<1>1. PICK n \in Nat : n = Len(txt) /\ DOMAIN txt = 1 .. n
  BY DEF Texts0
<1>2. PICK m \in Nat : m = Len(hs)
  OBVIOUS
<1>3. /\ cut \in NoCut .. m /\ NoCut = -1
      /\ place[0] = IF cut = 0 THEN 3 ELSE 1
      /\ cut = 0 => At(txt, 1, Colon) /\ At(txt, 2, Colon)
      /\ \A j \in 0 .. m : place[j] \in Nat \ {0}
      /\ \A j \in 1 .. m : /\ Stands(txt, hs[j], place[j - 1])
                           /\ Follows(txt, cut, j, place[j - 1] + Len(hs[j]), place[j])
      /\ place[m] = n + 1
  BY <1>1, <1>2 DEF Charted, NoCut
<1>4. \A j \in 1 .. m : hs[j] \in HexTexts /\ Len(hs[j]) \in Nat \ {0}
  <2>1. \A j \in 1 .. m : hs[j] \in HexTexts
    BY <1>2, ElementOfSeq
  <2> QED
    BY <2>1, HexTextType
<1>5. ASSUME NEW j \in 1 .. m - 1, j # cut
      PROVE  /\ At(txt, place[j - 1] + Len(hs[j]), Colon)
             /\ place[j] = (place[j - 1] + Len(hs[j])) + 1
  <2>1. j \in 1 .. m /\ j - 1 \in 0 .. m /\ j \in 0 .. m /\ j + 1 \in 1 .. m /\ (j + 1) - 1 = j
    BY <1>2
  <2>2. PICK q \in Nat \ {0}, r \in Nat \ {0} : q = place[j - 1] + Len(hs[j]) /\ r = place[j]
    <3>1. PICK p \in Nat \ {0}, l \in Nat \ {0} : p = place[j - 1] /\ l = Len(hs[j])
      BY <1>3, <1>4, <2>1
    <3>2. p + l \in Nat \ {0}
      OBVIOUS
    <3> QED
      BY <1>3, <2>1, <3>1, <3>2
  <2>3. PICK h \in HexTexts : h = hs[j + 1]
    BY <1>4, <2>1
  <2>4. Follows(txt, cut, j, q, r) /\ Stands(txt, h, r)
    BY <1>3, <2>1, <2>2, <2>3
  <2>5. At(txt, q, Colon) /\ r = q + 1
    BY <1>5, <2>4, FollowsOn
  <2> QED
    BY <2>2, <2>5
<1>6. ASSUME m # 0, m # cut PROVE place[m - 1] + Len(hs[m]) = n + 1
  <2>1. m \in 1 .. m /\ m - 1 \in 0 .. m
    BY <1>2, <1>6
  <2>2. PICK p \in Nat \ {0}, l \in Nat \ {0} : p = place[m - 1] /\ l = Len(hs[m])
    BY <1>3, <1>4, <2>1
  <2>3. Follows(txt, cut, m, p + l, n + 1)
    BY <1>3, <2>1, <2>2
  <2>4. p + l = n + 1 \/ (p + l < n /\ n + 1 = (p + l) + 1)
    BY <1>1, <1>6, <2>3 DEF Follows
  <2> QED
    BY <2>2, <2>4
<1>7. PICK k \in 0 .. m : k = Lead(cut)
  BY <1>2, <1>3, HeadIs
<1>8. PICK a \in Seq(HexTexts) : /\ a = SubSeq(hs, 1, k) /\ Len(a) = k /\ \A i \in 1 .. k : a[i] = hs[i]
  <2>1. k \in 0 .. Len(hs)
    BY <1>2
  <2>2. /\ SubSeq(hs, 1, k) \in Seq(HexTexts) /\ Len(SubSeq(hs, 1, k)) = k
        /\ \A i \in 1 .. k : SubSeq(hs, 1, k)[i] = hs[i]
    BY <2>1, Backs
  <2> QED
    BY <2>2
<1>9. PICK b \in Seq(HexTexts) : /\ b = Rest(hs, cut) /\ Len(b) = m - k
                                 /\ \A i \in 1 .. m - k : b[i] = hs[k + i]
  <2>1. k \in 0 .. Len(hs)
    BY <1>2
  <2>2. /\ SubSeq(hs, k + 1, Len(hs)) \in Seq(HexTexts) /\ Len(SubSeq(hs, k + 1, Len(hs))) = Len(hs) - k
        /\ \A i \in 1 .. Len(hs) - k : SubSeq(hs, k + 1, Len(hs))[i] = hs[k + i]
    BY <2>1, Backs
  <2> QED
    BY <1>2, <1>7, <2>2 DEF Rest
<1>10. a \in Seq(Texts0) /\ b \in Seq(Texts0) /\ Colon \in 0 .. Junk
  BY HexTextType, SeqMonotonic, Characters
<1>11. PICK front \in Texts0, back \in Texts0, head \in Texts0 :
         front = Join(a, Colon) /\ back = Join(b, Colon) /\ head = HeadText(hs, cut)
  <2>1. Join(a, Colon) \in Texts0 /\ Join(b, Colon) \in Texts0
    <3>1. <<>> \in Texts0
      BY DEF Texts0
    <3> QED
      BY <1>10, <3>1, JoinAppend
  <2>2. HeadText(hs, cut) \in Texts0
    BY <1>2, <1>3, HeadIs
  <2> QED
    BY <2>1, <2>2
<1>12. PICK e \in Nat \ {0} : e = 1 + Len(front)
  <2>1. Len(front) \in Nat
    BY DEF Texts0
  <2> QED
    BY <2>1
<1>13. Stands(txt, front, 1) /\ (k # 0 => place[k - 1] + Len(hs[k]) = e) /\ (k = 0 => e = 1)
  <2>1. PICK at : at = [i \in 1 .. k |-> place[i - 1]]
    OBVIOUS
  <2>2. Laid(txt, a, Colon, 1, at)
    <3>1. ASSUME NEW i \in 1 .. Len(a) PROVE at[i] \in Nat \ {0} /\ Stands(txt, a[i], at[i])
      <4>1. i \in 1 .. k /\ i \in 1 .. m /\ i - 1 \in 0 .. m
        BY <1>8
      <4>2. at[i] = place[i - 1] /\ a[i] = hs[i]
        BY <1>8, <2>1, <4>1
      <4> QED
        BY <1>3, <4>1, <4>2
    <3>2. ASSUME NEW i \in 1 .. Len(a) - 1
          PROVE  At(txt, at[i] + Len(a[i]), Colon) /\ at[i + 1] = (at[i] + Len(a[i])) + 1
      <4>1. i \in 1 .. k - 1 /\ (k = 0 \/ k = cut)
        BY <1>7, <1>8 DEF Lead
      <4>2. i \in 1 .. k /\ i + 1 \in 1 .. k /\ i \in 1 .. m - 1 /\ i # cut /\ (i + 1) - 1 = i
        BY <1>2, <4>1
      <4>3. at[i] = place[i - 1] /\ a[i] = hs[i] /\ at[i + 1] = place[i]
        BY <1>8, <2>1, <4>2
      <4> QED
        BY <1>5, <4>2, <4>3
    <3>3. ASSUME a # <<>> PROVE at[1] = 1
      <4>1. 1 \in 1 .. k /\ k # 0 /\ 1 - 1 = 0
        BY <1>8, <3>3, EmptySeq
      <4>2. cut # 0
        BY <1>7, <4>1 DEF Lead
      <4> QED
        BY <1>3, <2>1, <4>1, <4>2
    <3> QED
      BY <3>1, <3>2, <3>3 DEF Laid
  <2>3. /\ Stands(txt, Join(a, Colon), 1)
        /\ LaidTo(a, Colon, 1, at)
    <3>1. 1 \in Nat \ {0} /\ 1 <= Len(txt) + 1
      BY <1>1
    <3> QED
      BY <1>10, <2>2, <3>1, LaidJoin
  <2>4. ASSUME k # 0 PROVE place[k - 1] + Len(hs[k]) = e
    <3>1. k \in 1 .. k /\ a # <<>>
      <4>1. k \in 1 .. k
        BY <1>7, <2>4
      <4> QED
        BY <1>8, <2>4, <4>1, EmptySeq
    <3>2. at[k] = place[k - 1] /\ a[k] = hs[k]
      BY <1>8, <2>1, <3>1
    <3> QED
      BY <1>8, <1>11, <1>12, <2>3, <3>1, <3>2 DEF LaidTo
  <2>5. ASSUME k = 0 PROVE e = 1
    <3>1. a = <<>>
      BY <1>8, <2>5, EmptySeq
    <3>2. Join(<<>>, Colon) = <<>> /\ Len(<<>>) = 0
      <4>1. <<>> \in Texts0 /\ <<>> \in Seq(Texts0)
        BY DEF Texts0
      <4> QED
        BY <1>10, <4>1, JoinAppend
    <3> QED
      BY <1>11, <1>12, <3>1, <3>2
  <2> QED
    BY <1>11, <2>3, <2>4, <2>5
<1>14. Stands(txt, head, 1) /\ place[k] = 1 + Len(head)
  <2>1. CASE cut = NoCut
    <3>1. head = <<>> /\ k = 0 /\ place[k] = 1
      BY <1>3, <1>7, <1>11, <2>1 DEF HeadText, Lead
    <3>2. Stands(txt, <<>>, 1) /\ Len(<<>>) = 0
      <4>1. 1 \in Nat /\ 1 <= Len(txt) + 1
        BY <1>1
      <4> QED
        BY <4>1, StandsEmpty
    <3> QED
      BY <3>1, <3>2
  <2>2. CASE cut # NoCut
    <3>1. k = cut
      BY <1>7, <2>2 DEF Lead
    <3>2. At(txt, e, Colon) /\ At(txt, e + 1, Colon) /\ place[k] = e + 2
      <4>1. CASE k = 0
        <5>1. e = 1 /\ e + 1 = 2 /\ e + 2 = 3
          BY <1>13, <4>1
        <5> QED
          BY <1>3, <3>1, <4>1, <5>1
      <4>2. CASE k # 0
        <5>1. k \in 1 .. m
          BY <4>2
        <5>2. Follows(txt, cut, k, e, place[k])
          BY <1>3, <1>13, <4>2, <5>1
        <5> QED
          BY <3>1, <5>2 DEF Follows
      <4> QED
        BY <4>1, <4>2
    <3>3. /\ 1 + Len(HeadText(hs, cut)) = (1 + Len(Join(SubSeq(hs, 1, cut), Colon))) + 2
          /\ Stands(txt, HeadText(hs, cut), 1) <=>
               /\ Stands(txt, Join(SubSeq(hs, 1, cut), Colon), 1)
               /\ At(txt, 1 + Len(Join(SubSeq(hs, 1, cut), Colon)), Colon)
               /\ At(txt, (1 + Len(Join(SubSeq(hs, 1, cut), Colon))) + 1, Colon)
      BY <1>2, <1>3, <2>2, HeadIs
    <3>4. front = Join(SubSeq(hs, 1, cut), Colon)
      BY <1>8, <1>11, <3>1
    <3> QED
      BY <1>11, <1>12, <1>13, <3>2, <3>3, <3>4
  <2> QED
    BY <2>1, <2>2
<1>15. PICK p0 \in Nat \ {0} : p0 = place[k] /\ p0 = 1 + Len(head) /\ p0 <= n + 1
  <2>1. place[k] <= n + 1
    <3>1. CASE k = m
      BY <1>3, <3>1
    <3>2. CASE k # m
      <4>1. k + 1 \in 1 .. m /\ (k + 1) - 1 = k
        BY <3>2
      <4>2. Stands(txt, hs[k + 1], place[k]) /\ Len(hs[k + 1]) \in Nat /\ place[k] \in Nat
        BY <1>3, <1>4, <4>1
      <4> QED
        BY <1>1, <4>2 DEF Stands
    <3> QED
      BY <3>1, <3>2
  <2> QED
    BY <1>3, <1>14, <2>1
<1>16. Stands(txt, back, p0) /\ p0 + Len(back) = n + 1
  <2>1. PICK at : at = [i \in 1 .. m - k |-> place[k + (i - 1)]]
    OBVIOUS
  <2>2. ASSUME NEW i \in 1 .. m - k
        PROVE  /\ at[i] = place[(k + i) - 1] /\ b[i] = hs[k + i] /\ k + i \in 1 .. m
               /\ k + i # cut /\ (k + i) - 1 \in 0 .. m
    <3>1. k + i \in 1 .. m /\ k + (i - 1) = (k + i) - 1 /\ (k + i) - 1 \in 0 .. m
      BY <1>2
    <3>2. k + i # cut
      BY <1>3, <1>7 DEF Lead
    <3> QED
      BY <1>9, <2>1, <3>1, <3>2
  <2>3. Laid(txt, b, Colon, p0, at)
    <3>1. ASSUME NEW i \in 1 .. Len(b) PROVE at[i] \in Nat \ {0} /\ Stands(txt, b[i], at[i])
      <4>1. i \in 1 .. m - k
        BY <1>9
      <4> QED
        BY <1>3, <2>2, <4>1
    <3>2. ASSUME NEW i \in 1 .. Len(b) - 1
          PROVE  At(txt, at[i] + Len(b[i]), Colon) /\ at[i + 1] = (at[i] + Len(b[i])) + 1
      <4>1. i \in 1 .. m - k /\ i + 1 \in 1 .. m - k /\ (k + (i + 1)) - 1 = k + i /\ k + i \in 1 .. m - 1
        <5>1. i \in 1 .. (m - k) - 1
          BY <1>9
        <5>2. i \in Int /\ 1 <= i /\ i <= (m - k) - 1
          BY <5>1
        <5> QED
          BY <5>2
      <4>2. at[i] = place[(k + i) - 1] /\ b[i] = hs[k + i] /\ k + i # cut /\ at[i + 1] = place[k + i]
        BY <2>2, <4>1
      <4> QED
        BY <1>5, <4>1, <4>2
    <3>3. ASSUME b # <<>> PROVE at[1] = p0
      <4>1. 1 \in 1 .. m - k /\ (k + 1) - 1 = k
        BY <1>9, <3>3, EmptySeq
      <4> QED
        BY <1>15, <2>2, <4>1
    <3> QED
      BY <3>1, <3>2, <3>3 DEF Laid
  <2>4. Stands(txt, Join(b, Colon), p0) /\ LaidTo(b, Colon, p0, at)
    <3>1. p0 <= Len(txt) + 1
      BY <1>1, <1>15
    <3> QED
      BY <1>10, <2>3, <3>1, LaidJoin
  <2>5. p0 + Len(back) = n + 1
    <3>1. CASE k = m
      <4>1. b = <<>>
        BY <1>9, <3>1, EmptySeq
      <4>2. Join(<<>>, Colon) = <<>> /\ Len(<<>>) = 0
        <5>1. <<>> \in Texts0 /\ <<>> \in Seq(Texts0)
          BY DEF Texts0
        <5> QED
          BY <1>10, <5>1, JoinAppend
      <4>3. Len(back) = 0 /\ p0 = n + 1
        BY <1>3, <1>11, <1>15, <3>1, <4>1, <4>2
      <4> QED
        BY <4>3
    <3>2. CASE k # m
      <4>1. m - k \in 1 .. m - k /\ k + (m - k) = m /\ m # 0
        BY <3>2
      <4>2. at[m - k] = place[m - 1] /\ b[m - k] = hs[m] /\ m # cut
        BY <2>2, <4>1
      <4>3. b # <<>> /\ Len(b) = m - k
        BY <1>9, <4>1, EmptySeq
      <4>4. at[m - k] + Len(b[m - k]) = p0 + Len(Join(b, Colon))
        BY <2>4, <4>3 DEF LaidTo
      <4> QED
        BY <1>6, <1>11, <4>1, <4>2, <4>4
    <3> QED
      BY <3>1, <3>2
  <2> QED
    BY <1>11, <2>4, <2>5
<1>17. txt = head \o back
  <2>1. /\ head \o back \in Texts0 /\ Len(head \o back) = Len(head) + Len(back)
        /\ Stands(txt, head \o back, 1) <=> Stands(txt, head, 1) /\ Stands(txt, back, 1 + Len(head))
    <3>1. 1 \in Nat
      OBVIOUS
    <3> QED
      BY <3>1, StandsConcat
  <2>2. 1 + Len(head \o back) = Len(txt) + 1
    <3>1. Len(head) \in Nat /\ Len(back) \in Nat
      BY DEF Texts0
    <3> QED
      BY <1>1, <1>15, <1>16, <2>1, <3>1
  <2>3. Stands(txt, head \o back, 1)
    BY <1>14, <1>15, <1>16, <2>1
  <2> QED
    BY <2>1, <2>2, <2>3, StandsWhole
<1>18. SpelledGroups([groups |-> hs, cut |-> cut]) = HeadText(hs, cut) \o Join(Rest(hs, cut), Colon)
  <2>1. cut \in NoCut .. Len(hs)
    BY <1>2, <1>3
  <2> QED
    BY <2>1, HeadIs
<1> QED
  BY <1>9, <1>11, <1>17, <1>18

LEMMA SpelledChart ==
  ASSUME NEW txt \in Texts0, NEW hs \in Seq(HexTexts), NEW cut \in NoCut .. Len(hs),
         txt = SpelledGroups([groups |-> hs, cut |-> cut])
  PROVE  \E place : Charted(txt, hs, cut, place) /\ place[Len(hs)] = Len(txt) + 1
<1>1. PICK n \in Nat : n = Len(txt) /\ DOMAIN txt = 1 .. n
  BY DEF Texts0
<1>2. PICK m \in Nat : m = Len(hs)
  OBVIOUS
<1>3. cut \in NoCut .. m /\ NoCut = -1
  BY <1>2 DEF NoCut
<1>4. \A j \in 1 .. m : hs[j] \in HexTexts /\ Len(hs[j]) \in Nat \ {0}
  <2>1. \A j \in 1 .. m : hs[j] \in HexTexts
    BY <1>2, ElementOfSeq
  <2> QED
    BY <2>1, HexTextType
<1>5. PICK k \in 0 .. m : k = Lead(cut) /\ ((cut = NoCut /\ k = 0) \/ cut = k)
  BY <1>2, <1>3, HeadIs DEF Lead
<1>6. PICK a \in Seq(HexTexts) : /\ a = SubSeq(hs, 1, k) /\ Len(a) = k /\ \A i \in 1 .. k : a[i] = hs[i]
  <2>1. k \in 0 .. Len(hs)
    BY <1>2
  <2>2. /\ SubSeq(hs, 1, k) \in Seq(HexTexts) /\ Len(SubSeq(hs, 1, k)) = k
        /\ \A i \in 1 .. k : SubSeq(hs, 1, k)[i] = hs[i]
    BY <2>1, Backs
  <2> QED
    BY <2>2
<1>7. PICK b \in Seq(HexTexts) : /\ b = Rest(hs, cut) /\ Len(b) = m - k
                                 /\ \A i \in 1 .. m - k : b[i] = hs[k + i]
  <2>1. k \in 0 .. Len(hs)
    BY <1>2
  <2>2. /\ SubSeq(hs, k + 1, Len(hs)) \in Seq(HexTexts) /\ Len(SubSeq(hs, k + 1, Len(hs))) = Len(hs) - k
        /\ \A i \in 1 .. Len(hs) - k : SubSeq(hs, k + 1, Len(hs))[i] = hs[k + i]
    BY <2>1, Backs
  <2> QED
    BY <1>2, <1>5, <2>2 DEF Rest
<1>8. a \in Seq(Texts0) /\ b \in Seq(Texts0) /\ Colon \in 0 .. Junk
  BY HexTextType, SeqMonotonic, Characters
<1>9. PICK front \in Texts0, back \in Texts0, head \in Texts0 :
         front = Join(a, Colon) /\ back = Join(b, Colon) /\ head = HeadText(hs, cut)
  <2>1. Join(a, Colon) \in Texts0 /\ Join(b, Colon) \in Texts0
    <3>1. <<>> \in Texts0
      BY DEF Texts0
    <3> QED
      BY <1>8, <3>1, JoinAppend
  <2>2. HeadText(hs, cut) \in Texts0
    BY HeadIs
  <2> QED
    BY <2>1, <2>2
<1>10. PICK e \in Nat \ {0}, p0 \in Nat \ {0} : e = 1 + Len(front) /\ p0 = 1 + Len(head)
  <2>1. Len(front) \in Nat /\ Len(head) \in Nat
    BY DEF Texts0
  <2> QED
    BY <2>1
<1>11. Stands(txt, head, 1) /\ Stands(txt, back, p0) /\ p0 + Len(back) = n + 1
  <2>1. txt = head \o back
    <3>1. SpelledGroups([groups |-> hs, cut |-> cut]) = HeadText(hs, cut) \o Join(Rest(hs, cut), Colon)
      BY HeadIs
    <3> QED
      BY <1>7, <1>9, <3>1
  <2>2. /\ head \o back \in Texts0 /\ Len(head \o back) = Len(head) + Len(back)
        /\ Stands(txt, head \o back, 1) <=> Stands(txt, head, 1) /\ Stands(txt, back, 1 + Len(head))
    <3>1. 1 \in Nat
      OBVIOUS
    <3> QED
      BY <3>1, StandsConcat
  <2>3. Stands(txt, head \o back, 1)
    BY <2>1, <2>2, StandsWhole
  <2>4. Len(head) \in Nat /\ Len(back) \in Nat
    BY DEF Texts0
  <2>5. p0 + Len(back) = n + 1
    <3>1. n = Len(head) + Len(back)
      BY <1>1, <2>1, <2>2
    <3> QED
      BY <1>10, <2>4, <3>1
  <2> QED
    BY <1>10, <2>2, <2>3, <2>5
<1>12. cut = NoCut => p0 = 1
  <2>1. cut = NoCut => head = <<>>
    BY <1>9 DEF HeadText
  <2>2. Len(<<>>) = 0
    OBVIOUS
  <2> QED
    BY <1>10, <2>1, <2>2
<1>13. cut # NoCut => /\ Stands(txt, front, 1) /\ At(txt, e, Colon) /\ At(txt, e + 1, Colon)
                      /\ p0 = e + 2 /\ cut = k
  <2>1. SUFFICES ASSUME cut # NoCut
                 PROVE  /\ Stands(txt, front, 1) /\ At(txt, e, Colon) /\ At(txt, e + 1, Colon)
                        /\ p0 = e + 2 /\ cut = k
    OBVIOUS
  <2>2. cut = k /\ front = Join(SubSeq(hs, 1, cut), Colon)
    BY <1>5, <1>6, <1>9, <2>1
  <2>3. /\ 1 + Len(HeadText(hs, cut)) = (1 + Len(Join(SubSeq(hs, 1, cut), Colon))) + 2
        /\ Stands(txt, HeadText(hs, cut), 1) <=>
             /\ Stands(txt, Join(SubSeq(hs, 1, cut), Colon), 1)
             /\ At(txt, 1 + Len(Join(SubSeq(hs, 1, cut), Colon)), Colon)
             /\ At(txt, (1 + Len(Join(SubSeq(hs, 1, cut), Colon))) + 1, Colon)
    BY <2>1, HeadIs
  <2> QED
    BY <1>9, <1>10, <1>11, <2>2, <2>3
<1>14. k = 0 => e = 1
  <2>1. k = 0 => a = <<>>
    BY <1>6, EmptySeq
  <2>2. Join(<<>>, Colon) = <<>> /\ Len(<<>>) = 0
    <3>1. <<>> \in Texts0 /\ <<>> \in Seq(Texts0)
      BY DEF Texts0
    <3> QED
      BY <1>8, <3>1, JoinAppend
  <2> QED
    BY <1>9, <1>10, <2>1, <2>2
<1>15. \E at1 : cut # NoCut => Laid(txt, a, Colon, 1, at1) /\ LaidTo(a, Colon, 1, at1)
  <2>1. CASE cut = NoCut
    BY <2>1
  <2>2. CASE cut # NoCut
    <3>1. 1 \in Nat \ {0} /\ Stands(txt, Join(a, Colon), 1)
      BY <1>9, <1>13, <2>2
    <3>2. \E at1 : Laid(txt, a, Colon, 1, at1) /\ LaidTo(a, Colon, 1, at1)
      BY <1>8, <3>1, JoinLaid
    <3> QED
      BY <3>2
  <2> QED
    BY <2>1, <2>2
<1>16. PICK at1 : cut # NoCut => Laid(txt, a, Colon, 1, at1) /\ LaidTo(a, Colon, 1, at1)
  BY <1>15
<1>17. PICK at2 : Laid(txt, b, Colon, p0, at2) /\ LaidTo(b, Colon, p0, at2)
  BY <1>8, <1>9, <1>11, JoinLaid
<1>18. ASSUME NEW j \in 1 .. k
       PROVE  /\ at1[j] \in Nat \ {0} /\ Stands(txt, hs[j], at1[j])
              /\ j # k => At(txt, at1[j] + Len(hs[j]), Colon) /\ at1[j + 1] = (at1[j] + Len(hs[j])) + 1
              /\ at1[1] = 1 /\ (j = k => at1[j] + Len(hs[j]) = e)
  <2>1. cut # NoCut
    BY <1>3, <1>5
  <2>2. Laid(txt, a, Colon, 1, at1) /\ LaidTo(a, Colon, 1, at1)
    BY <1>16, <2>1
  <2>3. j \in 1 .. Len(a) /\ a[j] = hs[j] /\ a # <<>> /\ (j # k => j \in 1 .. Len(a) - 1)
    <3>1. k # 0 /\ (j # k => j \in 1 .. k - 1)
      OBVIOUS
    <3>2. a # <<>>
      BY <1>6, <3>1, EmptySeq
    <3> QED
      BY <1>6, <3>1, <3>2
  <2>4. j = k => at1[j] + Len(hs[j]) = e
    BY <1>6, <1>9, <1>10, <2>2, <2>3 DEF LaidTo
  <2> QED
    BY <2>2, <2>3, <2>4 DEF Laid
<1>19. ASSUME NEW i \in 1 .. m - k
       PROVE  /\ at2[i] \in Nat \ {0} /\ Stands(txt, hs[k + i], at2[i])
              /\ i # m - k => At(txt, at2[i] + Len(hs[k + i]), Colon) /\ at2[i + 1] = (at2[i] + Len(hs[k + i])) + 1
              /\ at2[1] = p0 /\ (i = m - k => at2[i] + Len(hs[k + i]) = n + 1)
  <2>1. i \in 1 .. Len(b) /\ b[i] = hs[k + i] /\ b # <<>> /\ (i # m - k => i \in 1 .. Len(b) - 1)
    <3>1. m - k # 0 /\ (i # m - k => i \in 1 .. (m - k) - 1)
      OBVIOUS
    <3>2. b # <<>>
      BY <1>7, <3>1, EmptySeq
    <3> QED
      BY <1>7, <3>1, <3>2
  <2>2. i = m - k => at2[i] + Len(hs[k + i]) = n + 1
    BY <1>7, <1>9, <1>11, <1>17, <2>1 DEF LaidTo
  <2> QED
    BY <1>17, <2>1, <2>2 DEF Laid
<1>20. PICK place : place = [j \in 0 .. m |-> IF j < k THEN at1[j + 1]
                                             ELSE IF j < m THEN at2[(j - k) + 1] ELSE n + 1]
  OBVIOUS
<1>21. ASSUME NEW j \in 0 .. m
       PROVE  /\ j < k => place[j] = at1[j + 1] /\ j + 1 \in 1 .. k
              /\ ~(j < k) /\ j < m => place[j] = at2[(j - k) + 1] /\ (j - k) + 1 \in 1 .. m - k
              /\ ~(j < k) /\ ~(j < m) => place[j] = n + 1
  BY <1>20
<1>22. \A j \in 0 .. m : place[j] \in Nat \ {0}
  <2>1. SUFFICES ASSUME NEW j \in 0 .. m PROVE place[j] \in Nat \ {0}
    OBVIOUS
  <2>2. n + 1 \in Nat \ {0}
    OBVIOUS
  <2> QED
    BY <1>18, <1>19, <1>21, <2>2
<1>23. \A j \in 1 .. m : Stands(txt, hs[j], place[j - 1])
  <2>1. SUFFICES ASSUME NEW j \in 1 .. m PROVE Stands(txt, hs[j], place[j - 1])
    OBVIOUS
  <2>2. j - 1 \in 0 .. m /\ (j - 1) + 1 = j /\ k + (((j - 1) - k) + 1) = j /\ j - 1 < m
    OBVIOUS
  <2>3. CASE j - 1 < k
    BY <1>18, <1>21, <2>2, <2>3
  <2>4. CASE ~(j - 1 < k)
    <3>1. PICK i \in 1 .. m - k : i = ((j - 1) - k) + 1 /\ k + i = j /\ place[j - 1] = at2[i]
      BY <1>21, <2>2, <2>4
    <3> QED
      BY <1>19, <3>1
  <2> QED
    BY <2>3, <2>4
<1>24. m = k => p0 = n + 1
  <2>1. SUFFICES ASSUME m = k PROVE p0 = n + 1
    OBVIOUS
  <2>2. b = <<>>
    BY <1>7, <2>1, EmptySeq
  <2>3. Join(<<>>, Colon) = <<>> /\ Len(<<>>) = 0
    <3>1. <<>> \in Texts0 /\ <<>> \in Seq(Texts0)
      BY DEF Texts0
    <3> QED
      BY <1>8, <3>1, JoinAppend
  <2>4. Len(back) = 0
    BY <1>9, <2>2, <2>3
  <2> QED
    BY <1>11, <2>4
<1>25. place[k] = p0
  <2>1. CASE k = m
    BY <1>21, <1>24, <2>1
  <2>2. CASE k # m
    <3>1. (k - k) + 1 = 1 /\ ~(k < k) /\ k < m /\ 1 \in 1 .. m - k
      BY <2>2
    <3> QED
      BY <1>19, <1>21, <3>1
  <2> QED
    BY <2>1, <2>2
<1>26. place[0] = IF cut = 0 THEN 3 ELSE 1
  <2>1. CASE k = 0
    <3>1. cut = NoCut => place[0] = 1
      BY <1>12, <1>25, <2>1
    <3>2. cut # NoCut => cut = 0 /\ place[0] = 3
      BY <1>13, <1>14, <1>25, <2>1
    <3> QED
      BY <1>3, <3>1, <3>2
  <2>2. CASE k # 0
    <3>1. 0 \in 0 .. m /\ 0 < k /\ 0 + 1 = 1 /\ 1 \in 1 .. k
      BY <2>2
    <3>2. place[0] = 1
      BY <1>18, <1>21, <3>1
    <3>3. cut # 0
      BY <1>5, <2>2
    <3> QED
      BY <3>2, <3>3
  <2> QED
    BY <2>1, <2>2
<1>27. cut = 0 => At(txt, 1, Colon) /\ At(txt, 2, Colon)
  <2>1. SUFFICES ASSUME cut = 0 PROVE At(txt, 1, Colon) /\ At(txt, 2, Colon)
    OBVIOUS
  <2>2. k = 0 /\ cut # NoCut
    BY <1>3, <1>5, <2>1
  <2>3. e = 1 /\ e + 1 = 2
    BY <1>14, <2>2
  <2> QED
    BY <1>13, <2>2, <2>3
<1>28. ASSUME NEW j \in 1 .. m PROVE Follows(txt, cut, j, place[j - 1] + Len(hs[j]), place[j])
  <2>1. j - 1 \in 0 .. m /\ j \in 0 .. m /\ (j - 1) + 1 = j
    OBVIOUS
  <2>2. PICK q \in Nat \ {0} : q = place[j - 1] + Len(hs[j])
    <3>1. PICK p \in Nat \ {0}, l \in Nat \ {0} : p = place[j - 1] /\ l = Len(hs[j])
      BY <1>4, <1>22, <2>1
    <3>2. p + l \in Nat \ {0}
      OBVIOUS
    <3> QED
      BY <3>1, <3>2
  <2>3. CASE j = cut
    <3>1. j = k /\ cut # NoCut /\ j - 1 < k /\ k \in 1 .. k
      BY <1>3, <1>5, <2>3
    <3>2. q = e
      BY <1>18, <1>21, <2>1, <2>2, <3>1
    <3>3. place[j] = q + 2
      BY <1>13, <1>25, <3>1, <3>2
    <3> QED
      BY <1>13, <2>2, <2>3, <3>1, <3>2, <3>3 DEF Follows
  <2>4. CASE j # cut /\ j # m
    <3>1. j + 1 \in 1 .. m /\ (j + 1) - 1 = j
      BY <2>4
    <3>2. PICK h \in HexTexts : h = hs[j + 1]
      BY <1>4, <3>1
    <3>3. Stands(txt, h, place[j])
      BY <1>23, <3>1, <3>2
    <3>4. At(txt, q, Colon) /\ place[j] = q + 1
      <4>1. CASE j < k
        <5>1. j - 1 < k /\ j \in 1 .. k /\ j # k
          BY <4>1
        <5> QED
          BY <1>18, <1>21, <2>1, <2>2, <4>1, <5>1
      <4>2. CASE ~(j < k)
        <5>1. k < j /\ j < m
          <6>1. j # k
            BY <1>3, <1>5, <2>4
          <6> QED
            BY <2>4, <4>2, <6>1
        <5>2. PICK i \in 1 .. m - k : i = j - k /\ i = ((j - 1) - k) + 1 /\ k + i = j /\ i # m - k
                                      /\ (j - k) + 1 = i + 1
          BY <5>1
        <5>3. ~(j - 1 < k) /\ j - 1 < m /\ ~(j < k) /\ j < m
          BY <5>1
        <5>4. place[j - 1] = at2[i] /\ place[j] = at2[i + 1]
          BY <1>21, <2>1, <5>2, <5>3
        <5> QED
          BY <1>19, <2>2, <5>2, <5>4
      <4> QED
        BY <4>1, <4>2
    <3>5. Follows(txt, cut, j, q, q + 1)
      <4>1. PICK r \in Nat \ {0} : r = q + 1
        OBVIOUS
      <4>2. Stands(txt, h, q + 1) /\ j # cut
        BY <2>4, <3>3, <3>4
      <4> QED
        BY <3>4, <4>1, <4>2, FollowsOn
    <3> QED
      BY <2>2, <3>4, <3>5
  <2>5. CASE j # cut /\ j = m
    <3>1. j # k
      BY <1>3, <1>5, <2>5
    <3>2. PICK i \in 1 .. m - k : i = m - k /\ i = ((j - 1) - k) + 1 /\ k + i = j
      BY <2>5, <3>1
    <3>3. ~(j - 1 < k) /\ j - 1 < m /\ ~(j < k) /\ ~(j < m)
      BY <2>5, <3>1
    <3>4. place[j - 1] = at2[i] /\ place[j] = n + 1
      BY <1>21, <2>1, <3>2, <3>3
    <3>5. q = n + 1
      BY <1>19, <2>2, <3>2, <3>4
    <3> QED
      BY <1>1, <2>2, <2>5, <3>4, <3>5 DEF Follows
  <2> QED
    BY <2>3, <2>4, <2>5
<1>29. place[m] = n + 1
  <2>1. ~(m < k) /\ ~(m < m) /\ m \in 0 .. m
    OBVIOUS
  <2> QED
    BY <1>21, <2>1
<1>30. Charted(txt, hs, cut, place)
  BY <1>2, <1>3, <1>22, <1>23, <1>26, <1>27, <1>28 DEF Charted
<1> QED
  BY <1>1, <1>2, <1>29, <1>30

(***************************************************************************)
(* The shapes of addresses, and the value of each.                         *)
(***************************************************************************)
ShapeOf(hs, cut) == [groups |-> hs, cut |-> cut]

IsShape(hs, cut) ==
  /\ hs \in Seq(HexTexts) /\ Len(hs) <= Groups /\ cut \in NoCut .. Len(hs)
  /\ Len(hs) = Groups => cut \in {NoCut, Groups}
  /\ cut = NoCut => Len(hs) = Groups

\* What the code takes: a gap behind all the groups too.
TakenShapes == Shapes \cup IdleGaps
TakenSpellings == SpellingsOf(TakenShapes)
TakenTexts == {s.text : s \in TakenSpellings}

LEMMA ShapesAre ==
  ASSUME NEW shape
  PROVE  shape \in TakenShapes <=> \E hs, cut : IsShape(hs, cut) /\ shape = ShapeOf(hs, cut)
<1>1. PICK g \in Nat : g = Groups
  BY HexTextIs
<1>2. ASSUME shape \in TakenShapes PROVE \E hs, cut : IsShape(hs, cut) /\ shape = ShapeOf(hs, cut)
  <2>1. PICK hs, cut : hs = shape.groups /\ cut = shape.cut
    OBVIOUS
  <2>2. /\ shape \in [groups : UNION {[1 .. n -> HexTexts] : n \in 0 .. Groups}, cut : NoCut .. Groups]
        /\ cut <= Len(hs)
        /\ Len(hs) = Groups => cut \in {NoCut, Groups}
        /\ cut = NoCut => Len(hs) = Groups
    <3>1. shape \in AnyShape
      BY <1>2 DEF TakenShapes, Shapes, IdleGaps
    <3>2. \/ cut <= Len(hs) /\ (cut = NoCut <=> Len(hs) = Groups)
          \/ cut = Groups /\ Len(hs) = Groups
      BY <1>2, <2>1 DEF TakenShapes, Shapes, IdleGaps
    <3>3. NoCut # Groups /\ Groups <= Groups
      BY <1>1 DEF NoCut
    <3> QED
      BY <3>1, <3>2, <3>3 DEF AnyShape
  <2>3. /\ hs \in UNION {[1 .. n -> HexTexts] : n \in 0 .. Groups} /\ cut \in NoCut .. Groups
        /\ shape = [groups |-> hs, cut |-> cut]
    BY <2>1, <2>2
  <2>4. PICK n \in 0 .. g : hs \in [1 .. n -> HexTexts]
    BY <1>1, <2>3
  <2>5. hs \in Seq(HexTexts) /\ Len(hs) = n
    BY <2>4
  <2>6. cut \in NoCut .. Len(hs) /\ Len(hs) <= Groups
    BY <1>1, <2>2, <2>3, <2>5 DEF NoCut
  <2> QED
    BY <2>2, <2>3, <2>5, <2>6 DEF IsShape, ShapeOf
<1>3. ASSUME NEW hs, NEW cut, IsShape(hs, cut), shape = ShapeOf(hs, cut) PROVE shape \in TakenShapes
  <2>1. PICK n \in 0 .. g : n = Len(hs)
    BY <1>1, <1>3 DEF IsShape
  <2>2. hs \in [1 .. n -> HexTexts]
    BY <1>3, <2>1 DEF IsShape
  <2>3. hs \in UNION {[1 .. i -> HexTexts] : i \in 0 .. Groups}
    BY <1>1, <2>2
  <2>4. cut \in NoCut .. Groups /\ cut <= Len(hs)
    BY <1>1, <1>3, <2>1 DEF IsShape, NoCut
  <2>5. shape.groups = hs /\ shape.cut = cut
    BY <1>3 DEF ShapeOf
  <2>6. shape \in [groups : UNION {[1 .. i -> HexTexts] : i \in 0 .. Groups}, cut : NoCut .. Groups]
    BY <1>3, <2>3, <2>4 DEF ShapeOf
  <2>7. shape \in AnyShape
    BY <2>6 DEF AnyShape
  <2>8. cut = NoCut => Len(hs) = Groups
    BY <1>3 DEF IsShape
  <2>9. CASE Len(hs) = Groups /\ cut = Groups
    BY <2>5, <2>7, <2>9 DEF TakenShapes, IdleGaps
  <2>10. CASE ~(Len(hs) = Groups /\ cut = Groups)
    <3>1. Len(hs) = Groups => cut = NoCut
      BY <1>3, <2>10 DEF IsShape
    <3> QED
      BY <2>4, <2>5, <2>7, <2>8, <3>1 DEF TakenShapes, Shapes
  <2> QED
    BY <2>9, <2>10
<1> QED
  BY <1>2, <1>3

\* The code writes every group where the shape has it.
LEMMA SameGroups ==
  ASSUME NEW hs, NEW cut, IsShape(hs, cut)
  PROVE  AllGroups(ShapeOf(hs, cut)) = Expanded(Numbers(hs), GapOf(cut))
<1>1. PICK g \in Nat : g = Groups
  BY HexTextIs
<1>2. PICK m \in 0 .. g : m = Len(hs)
  BY <1>1 DEF IsShape
<1>3. hs \in Seq(HexTexts) /\ cut \in NoCut .. m /\ NoCut = -1
  BY <1>2 DEF IsShape, NoCut
<1>4. PICK ns \in Seq(Nat) : ns = Numbers(hs) /\ Len(ns) = m /\ \A j \in 1 .. m : ns[j] = Horner(hs[j], 16)
  BY <1>2, <1>3, NumbersOf
<1>5. \A j \in 1 .. m : ns[j] \in Nat
  BY <1>4, ElementOfSeq
<1>6. PICK shape : shape = ShapeOf(hs, cut) /\ shape.groups = hs /\ shape.cut = cut
  <2>1. ShapeOf(hs, cut).groups = hs /\ ShapeOf(hs, cut).cut = cut
    BY DEF ShapeOf
  <2> QED
    BY <2>1
<1>7. CASE cut = NoCut
  <2>1. m = g /\ AllGroups(shape) = ns /\ GapOf(cut) = g
    BY <1>1, <1>2, <1>4, <1>6, <1>7 DEF IsShape, AllGroups, GapOf, NoGap
  <2>2. PICK x : x = Expanded(ns, g)
    OBVIOUS
  <2>3. x = [k \in 1 .. g |-> ns[k]]
    BY <1>1, <2>2 DEF Expanded
  <2>4. x \in [1 .. g -> Nat]
    BY <1>5, <2>1, <2>3
  <2>5. x \in Seq(Nat) /\ Len(x) = g
    BY <2>4
  <2>6. x = ns
    BY <1>4, <2>1, <2>3, <2>5, SeqEqual
  <2> QED
    BY <1>4, <1>6, <2>1, <2>2, <2>6
<1>8. CASE cut # NoCut
  <2>1. PICK k \in 0 .. m : k = cut
    BY <1>3, <1>8
  <2>2. PICK a \in Seq(HexTexts), b \in Seq(HexTexts) :
          /\ a = SubSeq(hs, 1, k) /\ Len(a) = k /\ \A i \in 1 .. k : a[i] = hs[i]
          /\ b = SubSeq(hs, k + 1, Len(hs)) /\ Len(b) = m - k /\ \A i \in 1 .. m - k : b[i] = hs[k + i]
    <3>1. k \in 0 .. Len(hs)
      BY <1>2
    <3>2. /\ SubSeq(hs, k + 1, Len(hs)) \in Seq(HexTexts) /\ Len(SubSeq(hs, k + 1, Len(hs))) = Len(hs) - k
          /\ \A i \in 1 .. Len(hs) - k : SubSeq(hs, k + 1, Len(hs))[i] = hs[k + i]
          /\ SubSeq(hs, 1, k) \in Seq(HexTexts) /\ Len(SubSeq(hs, 1, k)) = k
          /\ \A i \in 1 .. k : SubSeq(hs, 1, k)[i] = hs[i]
      BY <1>3, <3>1, Backs
    <3> QED
      BY <1>2, <3>2
  <2>3. Before(shape) = a /\ Behind(shape) = b
    BY <1>6, <2>1, <2>2 DEF Before, Behind
  <2>4. PICK na \in Seq(Nat) : na = Numbers(a) /\ Len(na) = k /\ \A i \in 1 .. k : na[i] = ns[i]
    <3>1. Numbers(a) \in Seq(Nat) /\ Len(Numbers(a)) = Len(a) /\ \A i \in 1 .. Len(a) : Numbers(a)[i] = Horner(a[i], 16)
      BY <2>2, NumbersOf
    <3>2. \A i \in 1 .. k : i \in 1 .. m
      OBVIOUS
    <3> QED
      BY <1>4, <2>2, <3>1, <3>2
  <2>5. PICK nb \in Seq(Nat) : nb = Numbers(b) /\ Len(nb) = m - k /\ \A i \in 1 .. m - k : nb[i] = ns[k + i]
    <3>1. Numbers(b) \in Seq(Nat) /\ Len(Numbers(b)) = Len(b) /\ \A i \in 1 .. Len(b) : Numbers(b)[i] = Horner(b[i], 16)
      BY <2>2, NumbersOf
    <3>2. ASSUME NEW i \in 1 .. m - k PROVE Numbers(b)[i] = ns[k + i]
      <4>1. k + i \in 1 .. m
        OBVIOUS
      <4>2. Numbers(b)[i] = Horner(b[i], 16) /\ b[i] = hs[k + i]
        BY <2>2, <3>1
      <4>3. ns[k + i] = Horner(hs[k + i], 16)
        BY <1>4, <4>1
      <4> QED
        BY <4>2, <4>3
    <3>3. Numbers(b) \in Seq(Nat) /\ Len(Numbers(b)) = m - k
      BY <2>2, <3>1
    <3> QED
      BY <3>2, <3>3
  <2>6. PICK z \in Seq(Nat) : z = [i \in 1 .. Groups - Len(hs) |-> 0] /\ Len(z) = g - m
                              /\ \A i \in 1 .. g - m : z[i] = 0
    <3>1. PICK f : f = [i \in 1 .. g - m |-> 0]
      OBVIOUS
    <3>2. PICK d \in Nat : d = g - m
      OBVIOUS
    <3>3. f \in [1 .. d -> Nat]
      BY <3>1, <3>2
    <3>4. f \in Seq(Nat) /\ Len(f) = d
      BY <3>3
    <3>5. f \in Seq(Nat) /\ Len(f) = g - m
      BY <3>2, <3>4
    <3> QED
      BY <1>1, <1>2, <3>1, <3>5
  <2>7. PICK front \in Seq(Nat) : /\ front = na \o z /\ Len(front) = (k + g) - m
                                  /\ \A i \in 1 .. (k + g) - m : front[i] = IF i <= k THEN ns[i] ELSE 0
    <3>1. na \o z \in Seq(Nat) /\ Len(na \o z) = Len(na) + Len(z)
          /\ \A i \in 1 .. Len(na) + Len(z) : (na \o z)[i] = IF i <= Len(na) THEN na[i] ELSE z[i - Len(na)]
      BY ConcatProperties
    <3>2. k + (g - m) = (k + g) - m
      OBVIOUS
    <3>3. ASSUME NEW i \in 1 .. (k + g) - m PROVE (na \o z)[i] = IF i <= k THEN ns[i] ELSE 0
      <4>1. CASE i <= k
        <5>1. i \in 1 .. k
          BY <4>1
        <5> QED
          BY <2>4, <2>6, <3>1, <3>2, <4>1, <5>1
      <4>2. CASE ~(i <= k)
        <5>1. i - k \in 1 .. g - m
          BY <4>2
        <5> QED
          BY <2>4, <2>6, <3>1, <3>2, <4>2, <5>1
      <4> QED
        BY <4>1, <4>2
    <3>4. na \o z \in Seq(Nat) /\ Len(na \o z) = (k + g) - m
      BY <2>4, <2>6, <3>1, <3>2
    <3> QED
      BY <3>3, <3>4
  <2>8. PICK all \in Seq(Nat) : /\ all = front \o nb /\ Len(all) = g
                                /\ \A i \in 1 .. g : all[i] = IF i <= (k + g) - m THEN front[i]
                                                              ELSE nb[i - ((k + g) - m)]
    <3>1. front \o nb \in Seq(Nat) /\ Len(front \o nb) = Len(front) + Len(nb)
          /\ \A i \in 1 .. Len(front) + Len(nb) :
               (front \o nb)[i] = IF i <= Len(front) THEN front[i] ELSE nb[i - Len(front)]
      BY ConcatProperties
    <3>2. ((k + g) - m) + (m - k) = g
      OBVIOUS
    <3>3. front \o nb \in Seq(Nat) /\ Len(front \o nb) = g
      BY <2>5, <2>7, <3>1, <3>2
    <3>4. \A i \in 1 .. g : (front \o nb)[i] = IF i <= (k + g) - m THEN front[i] ELSE nb[i - ((k + g) - m)]
      BY <2>5, <2>7, <3>1, <3>2
    <3> QED
      BY <3>3, <3>4
  <2>9. AllGroups(shape) = all
    BY <1>6, <1>8, <2>3, <2>4, <2>5, <2>6, <2>7, <2>8 DEF AllGroups
  <2>10. PICK x : x = Expanded(ns, k) /\ GapOf(cut) = k
    BY <1>8, <2>1 DEF GapOf
  <2>11. x = [i \in 1 .. g |-> IF i <= k THEN ns[i]
                              ELSE IF i > g - (m - k) THEN ns[(k + i) - (g - (m - k))] ELSE 0]
    <3>1. \A i \in 1 .. g : k + i - (g - (m - k)) = (k + i) - (g - (m - k))
      OBVIOUS
    <3>2. x = [i \in 1 .. g |-> IF i <= k THEN ns[i]
                                ELSE IF i > g - (m - k) THEN ns[k + i - (g - (m - k))] ELSE 0]
      BY <1>1, <1>4, <2>10 DEF Expanded
    <3> QED
      BY <3>1, <3>2
  <2>12. ASSUME NEW i \in 1 .. g PROVE x[i] = all[i] /\ x[i] \in Nat
    <3>1. CASE i <= k
      <4>1. i \in 1 .. m /\ i <= (k + g) - m /\ i \in 1 .. (k + g) - m
        BY <3>1
      <4> QED
        BY <1>5, <2>7, <2>8, <2>11, <3>1, <4>1
    <3>2. CASE ~(i <= k) /\ i > g - (m - k)
      <4>1. ~(i <= (k + g) - m) /\ i - ((k + g) - m) \in 1 .. m - k
        BY <3>2
      <4>2. k + (i - ((k + g) - m)) = (k + i) - (g - (m - k))
        OBVIOUS
      <4>3. (k + i) - (g - (m - k)) \in 1 .. m
        BY <3>2
      <4> QED
        BY <1>5, <2>5, <2>8, <2>11, <3>2, <4>1, <4>2, <4>3
    <3>3. CASE ~(i <= k) /\ ~(i > g - (m - k))
      <4>1. i <= (k + g) - m /\ i \in 1 .. (k + g) - m
        BY <3>3
      <4> QED
        BY <2>7, <2>8, <2>11, <3>3, <4>1
    <3> QED
      BY <3>1, <3>2, <3>3
  <2>13. x \in Seq(Nat) /\ Len(x) = g
    <3>1. x \in [1 .. g -> Nat]
      BY <2>11, <2>12
    <3> QED
      BY <3>1
  <2>14. x = all
    BY <2>8, <2>12, <2>13, SeqEqual
  <2> QED
    BY <1>4, <1>6, <2>9, <2>10, <2>14
<1> QED
  BY <1>7, <1>8

LEMMA AddressWritten ==
  ASSUME NEW txt \in Texts0, NEW prefix, Ipv6Of(AddressGroups(txt), prefix) # ErrorValue
  PROVE  prefix # Overflow /\ \E hs, cut : IsShape(hs, cut) /\ txt = SpelledGroups(ShapeOf(hs, cut))
<1>1. PICK g \in Nat : g = Groups
  BY HexTextIs
<1>2. PICK found : found = AddressGroups(txt)
  OBVIOUS
<1>3. /\ found # BadGroups /\ prefix # Overflow
      /\ ~(found.gap = NoGap /\ Len(found.groups) # Groups)
      /\ ~(found.gap # NoGap /\ Len(found.groups) >= Groups)
  BY <1>2 DEF Ipv6Of
<1>4. PICK hs \in Seq(HexTexts) : \E cut, place :
           /\ Charted(txt, hs, cut, place) /\ place[Len(hs)] = Len(txt) + 1
           /\ found = [groups |-> Numbers(hs), gap |-> GapOf(cut), p |-> Len(txt) + 1]
  BY <1>2, <1>3, GroupsWritten
<1>5. PICK cut, place :
           /\ Charted(txt, hs, cut, place) /\ place[Len(hs)] = Len(txt) + 1
           /\ found = [groups |-> Numbers(hs), gap |-> GapOf(cut), p |-> Len(txt) + 1]
  BY <1>4
<1>6. PICK m \in Nat : m = Len(hs) /\ m = Len(found.groups)
  BY <1>5, NumbersOf
<1>7. cut \in NoCut .. m /\ NoCut = -1
  BY <1>5, <1>6 DEF Charted, NoCut
<1>8. found.gap = IF cut = NoCut THEN g ELSE cut
  BY <1>1, <1>5 DEF GapOf, NoGap
<1>9. IsShape(hs, cut)
  <2>1. m <= g /\ (m = g => cut = NoCut \/ cut = g) /\ (cut = NoCut => m = g)
    BY <1>1, <1>3, <1>6, <1>7, <1>8 DEF NoGap
  <2> QED
    BY <1>1, <1>6, <1>7, <2>1 DEF IsShape
<1>10. txt = SpelledGroups(ShapeOf(hs, cut))
  BY <1>5, ChartSpelled DEF ShapeOf
<1> QED
  BY <1>3, <1>9, <1>10

\* The groups in a text and a prefix, read as a shape.
AddressIs(txt, hs, cut, prefix) ==
  Ipv6Of(AddressGroups(txt), prefix) = IpValue(TRUE, AsBytes(AllGroups(ShapeOf(hs, cut))), prefix)

LEMMA AddressRead ==
  ASSUME NEW txt \in Texts0, NEW hs, NEW cut, IsShape(hs, cut), txt = SpelledGroups(ShapeOf(hs, cut)),
         NEW prefix \in Nat
  PROVE  AddressIs(txt, hs, cut, prefix)
<1>1. PICK g \in Nat \ {0} : g = Groups
  BY HexTextIs
<1>2. PICK m \in 0 .. g : m = Len(hs)
  BY <1>1 DEF IsShape
<1>3. hs \in Seq(HexTexts) /\ cut \in NoCut .. Len(hs) /\ cut \in NoCut .. m /\ NoCut = -1
  BY <1>2 DEF IsShape, NoCut
<1>4. PICK place : Charted(txt, hs, cut, place) /\ place[Len(hs)] = Len(txt) + 1
  <2>1. txt = SpelledGroups([groups |-> hs, cut |-> cut])
    BY DEF ShapeOf
  <2> QED
    BY <1>3, <2>1, SpelledChart
<1>5. cut = 0 \/ hs # <<>>
  <2>1. ASSUME cut # 0, hs = <<>> PROVE FALSE
    <3>1. m = 0
      BY <1>2, <2>1
    <3>2. cut = NoCut
      BY <1>3, <2>1, <3>1
    <3> QED
      BY <1>1, <1>2, <3>1, <3>2 DEF IsShape
  <2> QED
    BY <2>1
<1>6. AddressGroups(txt) = [groups |-> Numbers(hs), gap |-> GapOf(cut), p |-> Len(txt) + 1]
  <2>1. Len(hs) <= Groups
    BY DEF IsShape
  <2> QED
    BY <1>3, <1>4, <1>5, <2>1, GroupsReadBack
<1>7. PICK found : found = AddressGroups(txt) /\ found.groups = Numbers(hs) /\ found.gap = GapOf(cut)
                   /\ found.p = Len(txt) + 1
  BY <1>6
<1>8. found # BadGroups
  <2>1. found.p # 0
    BY <1>7 DEF Texts0
  <2> QED
    BY <2>1 DEF BadGroups
<1>9. Len(found.groups) = m
  BY <1>2, <1>3, <1>7, NumbersOf
<1>10. found.gap = IF cut = NoCut THEN g ELSE cut
  BY <1>1, <1>7 DEF GapOf, NoGap
<1>11. (m = g => cut = NoCut \/ cut = g) /\ (cut = NoCut => m = g)
  BY <1>1, <1>2 DEF IsShape
<1>12. ~(\/ found = BadGroups \/ prefix = Overflow
         \/ found.gap = NoGap /\ Len(found.groups) # Groups
         \/ found.gap # NoGap /\ Len(found.groups) >= Groups)
  BY <1>1, <1>2, <1>3, <1>8, <1>9, <1>10, <1>11, Widths DEF NoGap
<1>13. Ipv6Of(found, prefix) = IpValue(TRUE, AsBytes(Expanded(found.groups, found.gap)), prefix)
  BY <1>12 DEF Ipv6Of
<1> QED
  BY <1>7, <1>13, SameGroups DEF AddressIs

(***************************************************************************)
(* There is no slash in a spelled address, so the first one ends it.       *)
(***************************************************************************)
Plain == (0 .. Junk) \ {Slash}

LEMMA JoinType ==
  ASSUME NEW S, NEW c \in S, NEW pieces \in Seq(Seq(S))
  PROVE  Join(pieces, c) \in Seq(S)
<1> DEFINE SS == Seq(S)
           Led == [k \in DOMAIN pieces |-> IF k = 1 THEN pieces[k] ELSE <<c>> \o pieces[k]]
<1>1. PICK m \in Nat : m = Len(pieces) /\ DOMAIN pieces = 1 .. m
  OBVIOUS
<1>2. \A k \in 1 .. m : pieces[k] \in SS
  BY <1>1
<1>3. <<c>> \in SS
  OBVIOUS
<1>4. \A t \in SS : <<c>> \o t \in SS
  BY <1>3, ConcatProperties
<1>5. \A k \in 1 .. m : (IF k = 1 THEN pieces[k] ELSE <<c>> \o pieces[k]) \in SS
  <2> HIDE DEF SS
  <2> QED
    BY <1>2, <1>4
<1>6. Led \in Seq(SS)
  <2> HIDE DEF SS
  <2>1. Led \in [1 .. m -> SS]
    BY <1>1, <1>5
  <2> HIDE DEF Led
  <2> QED
    BY <2>1
<1>7. FlattenSeq(Led) \in Seq(S)
  <2> HIDE DEF Led
  <2> QED
    BY <1>6, FlattenType
<1> QED
  BY <1>7 DEF Join

LEMMA SpelledPlain ==
  ASSUME NEW hs, NEW cut, IsShape(hs, cut)
  PROVE  /\ SpelledGroups(ShapeOf(hs, cut)) \in Seq(Plain)
         /\ SpelledGroups(ShapeOf(hs, cut)) \in Texts0
<1> DEFINE SP == Seq(Plain)
<1>1. Colon \in Plain /\ HexDigit \subseteq Plain /\ Plain \subseteq 0 .. Junk
  BY Characters DEF Plain
<1>2. HexTexts \subseteq SP
  <2>1. ASSUME NEW h \in HexTexts PROVE h \in SP
    BY <1>1, HexTextType, SeqMonotonic
  <2> QED
    BY <2>1
<1>3. hs \in Seq(HexTexts) /\ cut \in NoCut .. Len(hs) /\ NoCut = -1
  BY DEF IsShape, NoCut
<1>4. hs \in Seq(SP)
  BY <1>2, <1>3, SeqMonotonic
<1>5. \A ps \in Seq(SP) : Join(ps, Colon) \in Seq(Plain)
  BY <1>1, JoinType
<1>6. PICK shape : shape = ShapeOf(hs, cut) /\ shape.groups = hs /\ shape.cut = cut
  <2>1. ShapeOf(hs, cut).groups = hs /\ ShapeOf(hs, cut).cut = cut
    BY DEF ShapeOf
  <2> QED
    BY <2>1
<1>7. SpelledGroups(shape) \in Seq(Plain)
  <2>1. CASE cut = NoCut
    BY <1>4, <1>5, <1>6, <2>1 DEF SpelledGroups
  <2>2. CASE cut # NoCut
    <3>1. cut \in 0 .. Len(hs)
      BY <1>3, <2>2
    <3>2. SubSeq(hs, 1, cut) \in Seq(SP) /\ SubSeq(hs, cut + 1, Len(hs)) \in Seq(SP)
      <4> HIDE DEF SP
      <4> QED
        BY <1>4, <3>1, Backs
    <3>3. PICK a \in Seq(Plain), b \in Seq(Plain) :
            a = Join(Before(shape), Colon) /\ b = Join(Behind(shape), Colon)
      BY <1>5, <1>6, <3>2 DEF Before, Behind
    <3>4. <<Colon, Colon>> \in Seq(Plain)
      BY <1>1
    <3>5. SpelledGroups(shape) = a \o <<Colon, Colon>> \o b
      BY <1>6, <2>2, <3>3 DEF SpelledGroups
    <3> QED
      BY <3>3, <3>4, <3>5, ConcatProperties
  <2> QED
    BY <2>1, <2>2
<1>8. SpelledGroups(shape) \in Texts0
  BY <1>1, <1>7, SeqMonotonic DEF Texts0
<1> QED
  BY <1>6, <1>7, <1>8

\* The text and the value of a shape and an ending.
Spelling6(shape, ending) ==
  [text |-> SpelledGroups(shape) \o ending.text,
   ip   |-> IpValue(TRUE, AsBytes(AllGroups(shape)), ending.prefix)]

LEMMA Ipv6SpellingsAre ==
  ASSUME NEW s
  PROVE  s \in TakenSpellings <=> \E hs, cut : \E ending \in Endings(2 * Groups * ByteBits) :
                                    IsShape(hs, cut) /\ s = Spelling6(ShapeOf(hs, cut), ending)
<1>1. PICK M : M = 2 * Groups * ByteBits
  OBVIOUS
<1>2. s \in TakenSpellings <=> \E shape \in TakenShapes, ending \in Endings(M) : s = Spelling6(shape, ending)
  <2>1. TakenSpellings = {Spelling6(shape, ending) : shape \in TakenShapes, ending \in Endings(2 * Groups * ByteBits)}
    BY DEF TakenSpellings, SpellingsOf, Spelling6
  <2> QED
    BY <1>1, <2>1
<1>3. ASSUME s \in TakenSpellings
      PROVE  \E hs, cut : \E ending \in Endings(M) : IsShape(hs, cut) /\ s = Spelling6(ShapeOf(hs, cut), ending)
  <2>1. PICK shape \in TakenShapes, ending \in Endings(M) : s = Spelling6(shape, ending)
    BY <1>2, <1>3
  <2> QED
    BY <2>1, ShapesAre
<1>4. ASSUME NEW hs, NEW cut, NEW ending \in Endings(M), IsShape(hs, cut),
             s = Spelling6(ShapeOf(hs, cut), ending)
      PROVE  s \in TakenSpellings
  <2>1. PICK shape \in TakenShapes : shape = ShapeOf(hs, cut)
    BY <1>4, ShapesAre
  <2> QED
    BY <1>2, <1>4, <2>1
<1> QED
  BY <1>1, <1>3, <1>4

(***************************************************************************)
(* What is taken for an address is spelled that way.                       *)
(***************************************************************************)
LEMMA Ipv6Written ==
  ASSUME text \in Texts0, ParseIpv6(text) # ErrorValue
  PROVE  text \in TakenTexts
<1>1. PICK max \in Nat : max = 2 * Groups * ByteBits
  BY IpAssumption, SMTT(30)
<1>2. PICK n \in Nat : n = Len(text)
  BY DEF Texts0
<1>3. PICK q \in 1 .. n + 1 : q = RunEnd(text, 1, Plain)
  <2>1. 1 \in 1 .. Len(text) + 1
    BY <1>2
  <2>2. EndsRun(text, 1, Plain, RunEnd(text, 1, Plain))
    BY <2>1, RunEnds DEF Texts0
  <2> QED
    BY <1>2, <2>2 DEF EndsRun
<1>4. PICK head \in Texts0 : head = SubSeq(text, 1, q - 1) /\ 1 + Len(head) = q /\ Stands(text, head, 1)
  <2>1. 1 \in 1 .. Len(text) + 1 /\ q \in 1 .. Len(text) + 1
    BY <1>2
  <2> QED
    BY <2>1, StandsPiece
<1>5. PICK prefix : prefix = PrefixAt(text, q, max)
  OBVIOUS
<1>6. Ipv6Of(AddressGroups(head), prefix) # ErrorValue
  BY <1>1, <1>3, <1>4, <1>5 DEF ParseIpv6, SplitAt, Plain
<1>7. prefix # Overflow
  BY <1>6, AddressWritten
<1>8. PICK hs, cut : IsShape(hs, cut) /\ head = SpelledGroups(ShapeOf(hs, cut))
  BY <1>6, AddressWritten
<1>9. PICK ending \in Endings(max) : EndsAt(text, q, ending)
  <2>1. q \in 1 .. Len(text) + 1
    BY <1>2
  <2> QED
    BY <1>5, <1>7, <2>1, PrefixWritten
<1>10. PICK tail \in Texts0 : tail = ending.text
  BY EndingText
<1>11. /\ head \o tail \in Texts0 /\ Len(head \o tail) = Len(head) + Len(tail)
       /\ Stands(text, head \o tail, 1) <=> Stands(text, head, 1) /\ Stands(text, tail, 1 + Len(head))
  <2>1. 1 \in Nat
    OBVIOUS
  <2> QED
    BY <2>1, StandsConcat
<1>12. text = head \o tail
  <2>1. Stands(text, head \o tail, 1)
    BY <1>4, <1>9, <1>10, <1>11 DEF EndsAt
  <2>2. q + Len(tail) = Len(text) + 1
    BY <1>9, <1>10 DEF EndsAt
  <2>3. Len(head) \in Nat /\ Len(tail) \in Nat
    BY DEF Texts0
  <2>4. 1 + Len(head \o tail) = Len(text) + 1
    BY <1>2, <1>4, <1>11, <2>2, <2>3
  <2> QED
    BY <1>11, <2>1, <2>4, StandsWhole
<1>13. PICK s : s = Spelling6(ShapeOf(hs, cut), ending)
  OBVIOUS
<1>14. s \in TakenSpellings
  BY <1>1, <1>8, <1>13, Ipv6SpellingsAre
<1>15. s.text = text
  BY <1>8, <1>10, <1>12, <1>13 DEF Spelling6
<1> QED
  BY <1>14, <1>15 DEF TakenTexts

(***************************************************************************)
(* What is spelled is read.                                                *)
(***************************************************************************)
LEMMA Ipv6Read ==
  ASSUME text \in Texts0, NEW hs, NEW cut, IsShape(hs, cut),
         NEW ending \in Endings(2 * Groups * ByteBits),
         text = SpelledGroups(ShapeOf(hs, cut)) \o ending.text
  PROVE  ParseIpv6(text) = IpValue(TRUE, AsBytes(AllGroups(ShapeOf(hs, cut))), ending.prefix)
<1>1. PICK max \in Nat : max = 2 * Groups * ByteBits
  BY IpAssumption, SMTT(30)
<1>2. PICK head \in Texts0 : /\ head = SpelledGroups(ShapeOf(hs, cut)) /\ head \in Seq(Plain)
                            /\ \A prefix \in Nat : AddressIs(head, hs, cut, prefix)
  <2>1. PICK txt \in Texts0 : txt = SpelledGroups(ShapeOf(hs, cut)) /\ txt \in Seq(Plain)
    BY SpelledPlain
  <2>2. ASSUME NEW prefix \in Nat PROVE AddressIs(txt, hs, cut, prefix)
    BY <2>1, AddressRead
  <2> QED
    BY <2>1, <2>2
<1>3. ending \in Endings(max)
  BY <1>1
<1>4. PICK tail \in Texts0 : tail = ending.text
  BY <1>3, EndingText
<1>5. text = head \o tail
  BY <1>2, <1>4
<1>6. /\ Len(text) = Len(head) + Len(tail) /\ Len(head) \in Nat /\ Len(tail) \in Nat
      /\ Stands(text, head, 1) /\ Stands(text, tail, 1 + Len(head))
  <2>1. 1 \in Nat
    OBVIOUS
  <2>2. /\ head \o tail \in Texts0 /\ Len(head \o tail) = Len(head) + Len(tail)
        /\ Stands(text, head \o tail, 1) <=> Stands(text, head, 1) /\ Stands(text, tail, 1 + Len(head))
    BY <2>1, StandsConcat
  <2>3. Stands(text, head \o tail, 1)
    BY <1>5, <2>2, StandsWhole
  <2> QED
    BY <1>5, <2>2, <2>3 DEF Texts0
<1>7. PICK q \in Nat \ {0} : q = 1 + Len(head)
  BY <1>6
<1>8. EndsAt(text, q, ending)
  <2>1. q + Len(tail) = Len(text) + 1
    BY <1>6, <1>7
  <2> QED
    BY <1>4, <1>6, <1>7, <2>1 DEF EndsAt
<1>9. PrefixAt(text, q, max) = ending.prefix /\ ending.prefix \in Nat
      /\ (q = Len(text) + 1 \/ At(text, q, Slash))
  BY <1>3, <1>8, PrefixRead
<1>10. \A c \in Plain : ~At(text, q, c)
  <2>1. q = Len(text) + 1 => q \notin DOMAIN text
    BY DEF Texts0
  <2> QED
    BY <1>9, <2>1 DEF At, Plain
<1>11. RunEnd(text, 1, Plain) = q /\ SubSeq(text, 1, q - 1) = head
  <2>1. 1 \in Nat \ {0}
    OBVIOUS
  <2>2. \A c \in Plain : ~At(text, 1 + Len(head), c)
    BY <1>7, <1>10
  <2>3. RunEnd(text, 1, Plain) = 1 + Len(head) /\ SubSeq(text, 1, (1 + Len(head)) - 1) = head
    BY <1>2, <1>6, <2>1, <2>2, StandingPiece
  <2> QED
    BY <1>7, <2>3
<1>12. ParseIpv6(text) = Ipv6Of(AddressGroups(head), ending.prefix)
  BY <1>1, <1>9, <1>11 DEF ParseIpv6, SplitAt, Plain
<1>13. PICK prefix \in Nat : prefix = ending.prefix
  BY <1>9
<1>14. Ipv6Of(AddressGroups(head), prefix) = IpValue(TRUE, AsBytes(AllGroups(ShapeOf(hs, cut))), prefix)
  BY <1>2 DEF AddressIs
<1> QED
  BY <1>12, <1>13, <1>14

(***************************************************************************)
(* What php_cedar_parse_ipv6 makes of a text, a gap behind all the groups  *)
(* included.                                                               *)
(***************************************************************************)
LEMMA TakenLaw ==
  ASSUME text \in Texts0, HasColon
  PROVE  ReadAs(MakeIp(text), TakenTexts, TakenSpellings)
<1>1. MakeIp(text) = IF Len(text) \notin 1 .. MaxIpText THEN ErrorValue ELSE ParseIpv6(text)
  BY DEF MakeIp, HasColon
<1>2. Len(text) \in Nat /\ Len(text) # 0
  BY DEF Texts0, HasColon
<1>3. CASE text \in TakenTexts /\ Len(text) <= MaxIpText
  <2>1. PICK s \in TakenSpellings : text = s.text
    BY <1>3 DEF TakenTexts
  <2>2. PICK hs, cut : \E ending \in Endings(2 * Groups * ByteBits) :
          IsShape(hs, cut) /\ s = Spelling6(ShapeOf(hs, cut), ending)
    BY <2>1, Ipv6SpellingsAre
  <2>3. PICK ending \in Endings(2 * Groups * ByteBits) :
          IsShape(hs, cut) /\ s = Spelling6(ShapeOf(hs, cut), ending)
    BY <2>2
  <2>4. text = SpelledGroups(ShapeOf(hs, cut)) \o ending.text
    BY <2>1, <2>3 DEF Spelling6
  <2>5. ParseIpv6(text) = IpValue(TRUE, AsBytes(AllGroups(ShapeOf(hs, cut))), ending.prefix)
    BY <2>3, <2>4, Ipv6Read
  <2>6. s = [text |-> text, ip |-> ParseIpv6(text)]
    BY <2>3, <2>4, <2>5 DEF Spelling6
  <2>7. Len(text) \in 1 .. MaxIpText
    BY <1>2, <1>3, IpAssumption
  <2> QED
    BY <1>1, <1>3, <2>1, <2>6, <2>7 DEF ReadAs
<1>4. CASE ~(text \in TakenTexts /\ Len(text) <= MaxIpText)
  <2>1. MakeIp(text) = ErrorValue
    <3>1. CASE Len(text) \notin 1 .. MaxIpText
      BY <1>1, <3>1
    <3>2. CASE Len(text) \in 1 .. MaxIpText
      <4>1. Len(text) <= MaxIpText
        BY <3>2, IpAssumption
      <4> QED
        BY <1>1, <1>4, <3>2, <4>1, Ipv6Written
    <3> QED
      BY <3>1, <3>2
  <2> QED
    BY <1>4, <2>1 DEF ReadAs
<1> QED
  BY <1>3, <1>4

(***************************************************************************)
(* A text with a colon that has no gap behind all the groups is an address *)
(* iff it is all the groups, or fewer with one gap, and perhaps a printed  *)
(* prefix length; and then every group is where it was written and the gap *)
(* is zeroes.  (php_cedar_parse_ipv6)                                      *)
(***************************************************************************)
THEOREM Ipv6Law ==
  ASSUME text \in Texts0, HasColon, text \notin IdleGapTexts
  PROVE  ReadAs(MakeIp(text), Ipv6Texts, Ipv6Spellings)
<1>1. ReadAs(MakeIp(text), TakenTexts, TakenSpellings)
  BY TakenLaw
<1>2. \A s : s \in TakenSpellings <=> s \in Ipv6Spellings \/ s \in SpellingsOf(IdleGaps)
  <2> DEFINE Spelled6(shapes) ==
        {Spelling6(shape, ending) : shape \in shapes, ending \in Endings(2 * Groups * ByteBits)}
  <2>1. /\ TakenSpellings = Spelled6(TakenShapes)
        /\ Ipv6Spellings = Spelled6(Shapes)
        /\ SpellingsOf(IdleGaps) = Spelled6(IdleGaps)
    BY DEF TakenSpellings, Ipv6Spellings, SpellingsOf, Spelling6
  <2>2. ASSUME NEW s, NEW shapes
        PROVE  s \in Spelled6(shapes) <=>
                 \E shape \in shapes, ending \in Endings(2 * Groups * ByteBits) : s = Spelling6(shape, ending)
    OBVIOUS
  <2> HIDE DEF Spelled6
  <2>3. \A s : s \in Spelled6(TakenShapes) <=> s \in Spelled6(Shapes) \/ s \in Spelled6(IdleGaps)
    BY <2>2 DEF TakenShapes
  <2> QED
    BY <2>1, <2>3
<1>3. text \in TakenTexts <=> text \in Ipv6Texts
  BY <1>2 DEF TakenTexts, Ipv6Texts, IdleGapTexts
<1>4. ASSUME NEW ip, [text |-> text, ip |-> ip] \in TakenSpellings
      PROVE  [text |-> text, ip |-> ip] \in Ipv6Spellings
  <2>1. PICK s : s = [text |-> text, ip |-> ip]
    OBVIOUS
  <2>2. s.text = text
    BY <2>1
  <2>3. s \notin SpellingsOf(IdleGaps)
    BY <2>2 DEF IdleGapTexts
  <2> QED
    BY <1>2, <1>4, <2>1, <2>3
<1> QED
  BY <1>1, <1>3, <1>4 DEF ReadAs
-----------------------------------------------------------------------------
(***************************************************************************)
(* Every text is read as what it is worth or refused, whatever the width   *)
(* of a long, the digits of a decimal, the bytes of an address and the     *)
(* length of the text: the four laws at once.  (php_cedar_make_decimal,    *)
(* php_cedar_make_duration, php_cedar_make_ip)                             *)
(***************************************************************************)
Written == reader \in {"quantity", "address"} => text \in Texts0

THEOREM LiteralsHold == ReaderSpec => []LiteralsExact
<1>1. ReaderInit => Written
  BY DEF ReaderInit, Written, Texts0
<1>2. Written /\ [Write]_<<text, reader>> => Written'
  <2> SUFFICES ASSUME Written, [Write]_<<text, reader>> PROVE Written'
    OBVIOUS
  <2>1. CASE Write
    <3> SUFFICES ASSUME reader' \in {"quantity", "address"} PROVE text' \in Texts0
      BY DEF Written
    <3>1. PICK c \in Alphabet[reader] : text' = Append(text, c)
      BY <2>1 DEF Write
    <3>2. reader' = reader /\ text \in Texts0
      BY <2>1 DEF Write, Written
    <3>3. c \in 0 .. Junk
      BY <3>1, <3>2, AlphabetAssumption
    <3> QED
      BY <3>1, <3>2, <3>3, AppendProperties DEF Texts0
  <2>2. CASE UNCHANGED <<text, reader>>
    BY <2>2 DEF Written
  <2> QED
    BY <2>1, <2>2
<1>3. Written => LiteralsExact
  <2> SUFFICES ASSUME Written PROVE LiteralsExact
    OBVIOUS
  <2>1. DecimalExact
    BY DecimalLaw DEF DecimalExact, Written
  <2>2. DurationExact
    BY DurationLaw DEF DurationExact, Written
  <2>3. Ipv4IsCanonical
    BY Ipv4Law DEF Ipv4IsCanonical, Written
  <2>4. Ipv6InPlace
    BY Ipv6Law DEF Ipv6InPlace, Written
  <2> QED
    BY <2>1, <2>2, <2>3, <2>4 DEF LiteralsExact
<1> QED
  BY <1>1, <1>2, <1>3, PTL DEF ReaderSpec
=============================================================================
