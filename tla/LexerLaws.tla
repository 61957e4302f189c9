----------------------------- MODULE LexerLaws -----------------------------
(***************************************************************************)
(* A text of bytes: the tokens it has as a policy text, and what it stands *)
(* for as the inside of a string or of a pattern.                          *)
(***************************************************************************)
EXTENDS Lexer

VARIABLES text,
          reader  \* whom the text is for
-----------------------------------------------------------------------------
\* The tokens of input from p on, up to the end or to an error.
RECURSIVE TokensFrom(_, _)
TokensUpTo(input, token) ==
  IF token.type \in {"eof", "error"} THEN <<token>> ELSE <<token>> \o TokensFrom(input, token.end)

TokensFrom(input, p) == TokensUpTo(input, NextToken(input, p))

Tokens(input) == TokensFrom(input, 1)

\* Where each token starts: behind the one before, and what is skipped there.
Start(tokens, k) == Skip(text, IF k = 1 THEN 1 ELSE tokens[k - 1].end)

(***************************************************************************)
(* The grammar of a single token.  A quote is inside a string if an odd    *)
(* number of backslashes is in front of it.                                *)
(***************************************************************************)
Hidden(s, k) ==
  LET before == {j \in 1 .. k - 1 : \A l \in j .. k - 1 : s[l] = Backslash}
  IN  Cardinality(before) % 2 = 1

IsString(s) ==
  /\ Len(s) >= 2 /\ s[1] = Quote /\ s[Len(s)] = Quote /\ ~Hidden(s, Len(s))
  /\ \A k \in 2 .. Len(s) - 1 : s[k] = Quote => Hidden(s, k)
  /\ Unescape(SubSeq(s, 2, Len(s) - 1)) # Unreadable

IsToken(s) ==
  \/ IsString(s)
  \/ Range(s) \subseteq Digits
  \/ s[1] \in IdentStart /\ Range(s) \subseteq IdentStart \cup Digits
  \/ s \in DOMAIN TwoBytes
  \/ Len(s) = 1 /\ s[1] \in DOMAIN OneByte

(***************************************************************************)
(* Every token is the longest one there is where it starts, and the lexer  *)
(* stops in an error only where none is.  (php_cedar_lexer_next)           *)
(***************************************************************************)
Ends(start) == {k \in start .. Len(text) : IsToken(SubSeq(text, start, k))}

IsLongest(token, ends) ==
  IF token.type \in {"eof", "error"} THEN ends = {}
  ELSE token.end - 1 \in ends /\ \A e \in ends : e < token.end

AreLongest(tokens) == \A k \in DOMAIN tokens : IsLongest(tokens[k], Ends(Start(tokens, k)))

LongestToken == reader = "lexer" => AreLongest(Tokens(text))

(***************************************************************************)
(* Blanks and comments between two tokens, after the last or before the    *)
(* first one change none of them.  (php_cedar_lexer_skip_whitespace)       *)
(***************************************************************************)
Comment == <<Slash, Slash, Quote>>

Meaning(tokens) == [k \in DOMAIN tokens |-> [tokens[k] EXCEPT !.end = 0]]

Slice(tokens, k) == SubSeq(text, Start(tokens, k), tokens[k].end - 1)

Joined(tokens, separator) ==
  FlattenSeq([k \in DOMAIN tokens |-> separator \o Slice(tokens, k)])

Layouts(tokens) ==
  {Joined(tokens, <<Newline>>), Joined(tokens, <<Space>> \o Comment \o <<Newline, Tab>>) \o Comment}

KeepTheirMeaning(tokens) ==
  Last(tokens).type # "error" =>
    \A layout \in Layouts(tokens) : Meaning(Tokens(layout)) = Meaning(tokens)

LayoutIsIdle == reader = "lexer" => KeepTheirMeaning(Tokens(text))
-----------------------------------------------------------------------------
\* The text between quotes: with its quotes and backslashes escaped, or all of it.
Quoted(s) == <<Quote>> \o s \o <<Quote>>

Backslashed(chars) ==
  FlattenSeq([k \in DOMAIN text |-> IF text[k] \in chars THEN <<Backslash, text[k]>> ELSE <<text[k]>>])

HexDigitOf(n) == IF n < 10 THEN 48 + n ELSE 55 + n
InHex == FlattenSeq([k \in DOMAIN text |->
                       <<Backslash, LetterX, HexDigitOf(text[k] \div 16), HexDigitOf(text[k] % 16)>>])

(***************************************************************************)
(* A text written with escapes is read back as itself: as a string, with   *)
(* its quotes and backslashes or all of its bytes escaped, and as a        *)
(* pattern that has no wildcard when the stars are escaped too.            *)
(* (php_cedar_lexer_read_string, php_cedar_decode_escape)                  *)
(***************************************************************************)
OneString(tokens) == Len(tokens) = 2 /\ ~tokens[1].star /\ tokens[1].value = text

EscapesAreUndone ==
  reader = "lexer" =>
    /\ \A escaped \in {Backslashed({Quote, Backslash}), InHex} : OneString(Tokens(Quoted(escaped)))
    /\ text # <<>> /\ Wild \notin Range(text) =>
         CompilePattern(Backslashed({Quote, Backslash, Star})) = text

\* The text is what the lexer hands over as the inside of a string.
IsInside == Closing(Quoted(text), 2) = Len(text) + 2

(***************************************************************************)
(* The two readers of a string agree: what the lexer reads without `\*`,   *)
(* its stars taken for wildcards, is the pattern; what only one of them    *)
(* refuses is a `\*`, the byte of the wildcard, or an empty pattern.       *)
(* Neither writes more bytes than the text has, which is what it           *)
(* allocates.                                                              *)
(* (php_cedar_lexer_read_string, php_cedar_parser_compile_pattern)         *)
(***************************************************************************)
Agree(read, pattern) ==
  /\ pattern = BadPattern <=> read = Unreadable \/ text = <<>> \/ Wild \in Range(read.out)
  /\ pattern # BadPattern => Len(pattern) <= Len(text)
  /\ pattern # BadPattern /\ ~read.star =>
       pattern = Compress([k \in DOMAIN read.out |->
                             IF read.out[k] = Star THEN Wild ELSE read.out[k]])
  /\ read # Unreadable => Len(read.out) <= Len(text)

ReadersAgree == reader = "string" /\ IsInside => Agree(Unescape(text), CompilePattern(text))

\* Texts to match a pattern with.
Subjects == UNION {[1 .. n -> {Star, Backslash}] : n \in 0 .. 2}

(***************************************************************************)
(* A compiled pattern has no two wildcards in a row and matches the same   *)
(* texts as if it had.  (php_cedar_parser_compile_pattern)                 *)
(***************************************************************************)
IsCompressed(pattern, plain) ==
  /\ \A k \in 1 .. Len(pattern) - 1 : ~(pattern[k] = Wild /\ pattern[k + 1] = Wild)
  /\ pattern # BadPattern =>
       \A subject \in Subjects : Matches(subject, pattern) = Matches(subject, plain)

WildcardsCompressed ==
  reader = "string" => IsCompressed(CompilePattern(text), PatternFrom(text, 1, <<>>))

(***************************************************************************)
(* The tokens of a text are the longest there are and do not depend on the *)
(* layout between them.  (php_cedar_lexer_next)                            *)
(***************************************************************************)
TokensExact == LongestToken /\ LayoutIsIdle

(***************************************************************************)
(* One text between quotes means the same wherever it is written: its      *)
(* escapes, read as a string and read as a pattern.                        *)
(* (php_cedar_lexer_read_string, php_cedar_parser_compile_pattern)         *)
(***************************************************************************)
StringsAgree == EscapesAreUndone /\ ReadersAgree /\ WildcardsCompressed
=============================================================================
