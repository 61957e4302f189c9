----------------------------- MODULE MCReaders ------------------------------
(***************************************************************************)
(* Texts for the readers of literals and for the lexer, written character  *)
(* by character: every text over an alphabet up to a length is read.       *)
(***************************************************************************)
EXTENDS LiteralLaws

MCKeywords == <<105, 110>> :> "in"

Source == INSTANCE LexerLaws WITH Keywords <- MCKeywords

(***************************************************************************)
(* Quantities have digits that reach both ends of the range and the        *)
(* letters of the units; addresses a hexadecimal letter and the digits     *)
(* that write the largest octet (3), and a prefix on either side of the    *)
(* largest (12).  The lexer gets a byte of each kind that it tells apart,  *)
(* and the inside of a string those that escapes are made of.              *)
(***************************************************************************)
MCAlphabet ==
  [quantity |-> {0, 1, 9, Minus, Dot, LetterM, LetterS},
   address  |-> {0, 1, 3, 10, Colon, Dot, Slash},
   lexer    |-> {Source!Quote, Source!Backslash, Source!Slash, Source!Newline, Source!Colon,
                 Source!Equals, 49, 105, Source!LetterN, Source!Star, Source!Wild},
   string   |-> {Source!Backslash, Source!LetterX, Source!LetterU, Source!LBrace, Source!RBrace,
                 50, 65, 70, Source!Star}]

\* The length of the shortest text of each kind of mistake.
MCMaxText == [quantity |-> 6, address |-> 7, lexer |-> 5, string |-> 6]

-----------------------------------------------------------------------------
\* The tokens are the longest there are, whatever the layout (php_cedar_lexer_next).
TokensExact == Source!TokensExact

\* Escapes are undone, alike by both readers of a string (php_cedar_lexer_read_string).
StringsAgree == Source!StringsAgree
=============================================================================
