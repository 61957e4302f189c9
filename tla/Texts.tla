------------------------------- MODULE Texts -------------------------------
(***************************************************************************)
(* Texts as sequences of characters: the ways the readers of the extension *)
(* walk over them, and when one matches a pattern of `like`.               *)
(***************************************************************************)
EXTENDS Integers, Sequences, SequencesExt

CONSTANT Wildcard  \* the byte 0xFF of a compiled pattern of `like`

At(text, p, c) == p \in DOMAIN text /\ text[p] = c

\* The first member of a set of positions.
First(S) == CHOOSE k \in S : \A l \in S : k <= l

\* The position after the run of characters of C that starts at p.
RunEnd(text, p, C) ==
  CHOOSE q \in p..(Len(text) + 1) :
    /\ \A r \in p..(q - 1) : text[r] \in C
    /\ q <= Len(text) => text[q] \notin C

Pow(base, n) ==
  LET power[k \in 0..n] == IF k = 0 THEN 1 ELSE power[k - 1] * base IN power[n]

\* The number that digits write in a base.
Horner(digits, base) ==
  LET number[k \in 0..Len(digits)] == IF k = 0 THEN 0 ELSE number[k - 1] * base + digits[k]
  IN  number[Len(digits)]
-----------------------------------------------------------------------------
(***************************************************************************)
(* What it means that a subject matches a compiled pattern of `like`: the  *)
(* definition that php_cedar_like_match is held against (LikeMatch), and   *)
(* that the expression evaluator uses in its place.                        *)
(***************************************************************************)
Matches(subject, pattern) ==
  LET end == Len(subject) + 1
      \* Where in the subject the pattern from p on may start to match the rest.
      from[p \in 1 .. (Len(pattern) + 1)] ==
        IF p > Len(pattern) THEN {end}
        ELSE IF pattern[p] = Wildcard
        THEN {s \in 1 .. end : \E r \in from[p + 1] : s <= r}
        ELSE {s \in 1 .. Len(subject) : subject[s] = pattern[p] /\ (s + 1) \in from[p + 1]}
  IN  1 \in from[1]
=============================================================================
