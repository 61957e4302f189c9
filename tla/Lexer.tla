------------------------------- MODULE Lexer -------------------------------
(***************************************************************************)
(* php_cedar_lexer.c: the tokens of a policy text, and the two readers of  *)
(* a string between quotes, the lexer's own and the one that compiles it   *)
(* as the pattern of `like` (php_cedar_parser.c).                          *)
(*                                                                         *)
(* A text is the sequence of its bytes.                                    *)
(***************************************************************************)
EXTENDS Texts, TLC

CONSTANT Keywords  \* php_cedar_keywords: the type of every text that is a keyword

Tab == 9        Newline == 10   Return == 13    Space == 32
Bang == 33      Quote == 34     Ampersand == 38 Star == 42
Slash == 47     Zero == 48      Colon == 58     Less == 60
Equals == 61    Greater == 62   Backslash == 92 LetterN == 110
LetterR == 114  LetterT == 116  LetterU == 117  LetterX == 120
LBrace == 123   Bar == 124      RBrace == 125   Wild == 255

Byte == 0..255
Digits == 48..57
HexBytes == Digits \cup 65..70 \cup 97..102
IdentStart == 65..90 \cup 97..122 \cup {95}
Blank == {Space, Tab, Newline, Return}

\* php_cedar_hex_value
HexValue(c) == CASE c \in Digits -> c - 48 [] c \in 65..70 -> c - 55 [] c \in 97..102 -> c - 87
-----------------------------------------------------------------------------
(***************************************************************************)
(* php_cedar_utf8_encode                                                   *)
(***************************************************************************)
Follow(cp, shift) == 128 + ((cp \div Pow(2, shift)) % 64)

Utf8(cp) ==
  CASE cp \in 0 .. 127      -> <<cp>>
    [] cp \in 128 .. 2047   -> <<192 + (cp \div 64), Follow(cp, 0)>>
    [] cp \in 2048 .. 65535 -> <<224 + (cp \div 4096), Follow(cp, 6), Follow(cp, 0)>>
    [] OTHER                -> <<240 + (cp \div 262144), Follow(cp, 12), Follow(cp, 6), Follow(cp, 0)>>

(***************************************************************************)
(* php_cedar_decode_escape: the bytes that the escape at p (behind its     *)
(* backslash) stands for and the position behind it, or BadEscape.         *)
(***************************************************************************)
BadEscape == [out |-> <<>>, next |-> 0]

Short == (Quote :> Quote) @@ (Backslash :> Backslash) @@ (LetterN :> Newline)
           @@ (LetterR :> Return) @@ (LetterT :> Tab) @@ (Zero :> 0)

\* Variant: the low digit comes first.
HexEscapeSwapped(s, p, rejectWild) ==
  IF p + 2 > Len(s) \/ \E k \in {p + 1, p + 2} : s[k] \notin HexBytes THEN BadEscape
  ELSE [out |-> <<HexValue(s[p + 1]) + 16 * HexValue(s[p + 2])>>, next |-> p + 3]

HexEscape(s, p, rejectWild) ==
  LET byte == 16 * HexValue(s[p + 1]) + HexValue(s[p + 2])
  IN  IF p + 2 > Len(s) \/ \E k \in {p + 1, p + 2} : s[k] \notin HexBytes THEN BadEscape
      ELSE IF rejectWild /\ byte = Wild THEN BadEscape
      ELSE [out |-> <<byte>>, next |-> p + 3]

CodePoint(cp, next) ==
  IF cp > 1114111 \/ cp \in 55296 .. 57343 THEN BadEscape ELSE [out |-> Utf8(cp), next |-> next]

BracedHex(s, p, end) ==
  IF ~At(s, end, RBrace) \/ end - p \notin 1 .. 6 THEN BadEscape
  ELSE CodePoint(Horner([k \in 1 .. end - p |-> HexValue(s[p + k - 1])], 16), end + 1)

UnicodeEscape(s, p) ==
  IF At(s, p + 1, LBrace) THEN BracedHex(s, p + 2, RunEnd(s, p + 2, HexBytes)) ELSE BadEscape

DecodeEscape(s, p, rejectWild) ==
  CASE p > Len(s)           -> BadEscape
    [] At(s, p, LetterX)    -> HexEscape(s, p, rejectWild)
    [] At(s, p, LetterU)    -> UnicodeEscape(s, p)
    [] p \in DOMAIN s /\ s[p] \in DOMAIN Short -> [out |-> <<Short[s[p]]>>, next |-> p + 1]
    [] OTHER                -> BadEscape

(***************************************************************************)
(* The bytes of a string without its escapes, and whether one of them was  *)
(* `\*`, which only a pattern may have.                                    *)
(***************************************************************************)
Unreadable == [out |-> <<-1>>, star |-> FALSE]

\* What is read up to p, the text raw without its escapes.
RECURSIVE UnescapeFrom(_, _, _)
UnescapeEscape(raw, escape, read) ==
  IF escape = BadEscape THEN Unreadable
  ELSE UnescapeFrom(raw, escape.next, [read EXCEPT !.out = @ \o escape.out])

UnescapeFrom(raw, p, read) ==
  IF p > Len(raw) THEN read
  ELSE IF raw[p] # Backslash \/ p = Len(raw)
  THEN UnescapeFrom(raw, p + 1, [read EXCEPT !.out = Append(@, raw[p])])
  ELSE IF raw[p + 1] = Star
  THEN UnescapeFrom(raw, p + 2, [out |-> Append(read.out, Star), star |-> TRUE])
  ELSE UnescapeEscape(raw, DecodeEscape(raw, p + 1, FALSE), read)

Unescape(raw) == UnescapeFrom(raw, 1, [out |-> <<>>, star |-> FALSE])

(***************************************************************************)
(* php_cedar_parser_compile_pattern: a `*` is a wildcard, also when an     *)
(* escape wrote it, unless it is escaped itself.  An empty pattern asks    *)
(* the pool for no bytes, which it refuses.                                *)
(***************************************************************************)
BadPattern == <<-1>>

\* Variant: the escapes of a pattern are those of a string.
WildcardOfNone(bytes) == bytes

WildcardOf(bytes) == IF bytes = <<Star>> THEN <<Wild>> ELSE bytes

RECURSIVE PatternFrom(_, _, _)
PatternEscape(raw, escape, out) ==
  IF escape = BadEscape THEN BadPattern
  ELSE PatternFrom(raw, escape.next, out \o WildcardOf(escape.out))

PatternFrom(raw, p, out) ==
  IF p > Len(raw) THEN out
  ELSE IF raw[p] = Wild THEN BadPattern
  ELSE IF raw[p] # Backslash
  THEN PatternFrom(raw, p + 1, Append(out, IF raw[p] = Star THEN Wild ELSE raw[p]))
  ELSE IF At(raw, p + 1, Star) THEN PatternFrom(raw, p + 2, Append(out, Star))
  ELSE PatternEscape(raw, DecodeEscape(raw, p + 1, TRUE), out)

\* Variant: every wildcard stays.
CompressNever(pattern) == pattern

Compress(pattern) ==
  FoldLeft(LAMBDA kept, c : IF c = Wild /\ kept # <<>> /\ Last(kept) = Wild THEN kept
                            ELSE Append(kept, c), <<>>, pattern)

CompilePattern(raw) ==
  IF raw = <<>> THEN BadPattern ELSE Compress(PatternFrom(raw, 1, <<>>))
-----------------------------------------------------------------------------
(***************************************************************************)
(* php_cedar_lexer_skip_whitespace                                         *)
(***************************************************************************)
\* Variant: what follows a comment is not looked at again.
SkipOnce(input, from) ==
  LET p == RunEnd(input, from, Blank)
  IN  IF At(input, p, Slash) /\ At(input, p + 1, Slash)
      THEN RunEnd(input, RunEnd(input, p + 2, Byte \ {Newline}), {Newline})
      ELSE p

RECURSIVE Skip(_, _)
Skip(input, p) ==
  IF p \in DOMAIN input /\ input[p] \in Blank THEN Skip(input, p + 1)
  ELSE IF At(input, p, Slash) /\ At(input, p + 1, Slash)
  THEN Skip(input, RunEnd(input, p + 2, Byte \ {Newline}))
  ELSE p

(***************************************************************************)
(* A token: the slice up to `end` that it was read from, the value of a    *)
(* string without its escapes, and the raw text of one.                    *)
(***************************************************************************)
Sliced(type, input, p, end) ==
  [type |-> type, value |-> SubSeq(input, p, end - 1), raw |-> <<>>, star |-> FALSE, end |-> end]

ErrorToken == [type |-> "error", value |-> <<>>, raw |-> <<>>, star |-> FALSE, end |-> 0]

\* The quote that closes the string read from p, or 0.
RECURSIVE Closing(_, _)
Closing(input, p) ==
  IF p > Len(input) THEN 0
  ELSE IF input[p] = Backslash THEN Closing(input, p + 2)
  ELSE IF input[p] = Quote THEN p
  ELSE Closing(input, p + 1)

StringToken(raw, read, end) ==
  IF read = Unreadable THEN ErrorToken
  ELSE [type |-> "string", value |-> read.out, raw |-> raw, star |-> read.star, end |-> end]

StringUpTo(input, p, close) ==
  LET raw == SubSeq(input, p + 1, close - 1)
  IN  IF close = 0 THEN ErrorToken ELSE StringToken(raw, Unescape(raw), close + 1)

ReadString(input, p) == StringUpTo(input, p, Closing(input, p + 1))

\* Variant: a digit ends an identifier.
ReadIdentLetters(input, p) ==
  LET end == RunEnd(input, p, IdentStart) IN Sliced("ident", input, p, end)

ReadIdent(input, p) ==
  LET end  == RunEnd(input, p, IdentStart \cup Digits)
      text == SubSeq(input, p, end - 1)
  IN  Sliced(IF text \in DOMAIN Keywords THEN Keywords[text] ELSE "ident", input, p, end)

TwoBytes == (<<Equals, Equals>> :> "eq") @@ (<<Bang, Equals>> :> "ne")
              @@ (<<Ampersand, Ampersand>> :> "and") @@ (<<Bar, Bar>> :> "or")
              @@ (<<Colon, Colon>> :> "coloncolon") @@ (<<Less, Equals>> :> "le")
              @@ (<<Greater, Equals>> :> "ge")

OneByte == (Bang :> "not") @@ (45 :> "minus") @@ (43 :> "plus") @@ (Star :> "star")
             @@ (46 :> "dot") @@ (44 :> "comma") @@ (59 :> "semicolon") @@ (Colon :> "colon")
             @@ (40 :> "lparen") @@ (41 :> "rparen") @@ (LBrace :> "lbrace") @@ (RBrace :> "rbrace")
             @@ (91 :> "lbracket") @@ (93 :> "rbracket") @@ (64 :> "at")
             @@ (Less :> "lt") @@ (Greater :> "gt")

(***************************************************************************)
(* php_cedar_lexer_next, from the position p.                              *)
(***************************************************************************)
TokenAt(input, p) ==
  LET c == input[p]
  IN  IF p > Len(input) THEN Sliced("eof", input, p, p)
      ELSE IF c = Quote THEN ReadString(input, p)
      ELSE IF c \in Digits THEN Sliced("number", input, p, RunEnd(input, p, Digits))
      ELSE IF c \in IdentStart THEN ReadIdent(input, p)
      ELSE IF p < Len(input) /\ SubSeq(input, p, p + 1) \in DOMAIN TwoBytes
      THEN Sliced(TwoBytes[SubSeq(input, p, p + 1)], input, p, p + 2)
      ELSE IF c \in DOMAIN OneByte THEN Sliced(OneByte[c], input, p, p + 1)
      ELSE ErrorToken

NextToken(input, from) == TokenAt(input, Skip(input, from))
=============================================================================
