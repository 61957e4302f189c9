----------------------------- MODULE LikeMatch -----------------------------
(***************************************************************************)
(* php_cedar_like_match: the loop that matches a subject with a pattern in *)
(* which a wildcard stands for any number of characters.  It remembers one *)
(* wildcard, the last it met, and lets that one swallow one character more *)
(* whenever it is stuck.                                                   *)
(*                                                                         *)
(* s and p are positions, and one past the end where the code has s_end    *)
(* and p_end.                                                              *)
(***************************************************************************)
EXTENDS Texts

CONSTANTS Char, MaxSubject, MaxPattern

ASSUME LikeAssumption == /\ Wildcard \in Char
                         /\ {MaxSubject, MaxPattern} \subseteq Nat

VARIABLES subject, pattern,
          s, p,          \* the next characters to match
          starP, starS,  \* where to resume after a mismatch, 0 for NULL
          result         \* what is returned

likeVars == <<subject, pattern, s, p, starP, starS, result>>

TextUpTo(n) == UNION {[1 .. k -> Char] : k \in 0 .. n}

SubjectEnd == Len(subject) + 1
PatternEnd == Len(pattern) + 1

LikeInit ==
  /\ subject \in TextUpTo(MaxSubject)
  /\ pattern \in TextUpTo(MaxPattern)
  /\ s = 1 /\ p = 1
  /\ starP = 0 /\ starS = 0
  /\ result = "running"

Looping == result = "running" /\ s < SubjectEnd
AtWildcard == p < PatternEnd /\ pattern[p] = Wildcard
AtEqual == p < PatternEnd /\ pattern[p] # Wildcard /\ pattern[p] = subject[s]

(***************************************************************************)
(* A wildcard is tried with nothing first.  It is tested for before the    *)
(* characters are compared, as a subject may hold the wildcard byte.       *)
(***************************************************************************)
TakeWildcard ==
  /\ Looping /\ AtWildcard
  /\ p' = p + 1
  /\ starP' = p + 1
  /\ starS' = s
  /\ UNCHANGED <<subject, pattern, s, result>>

TakeChar ==
  /\ Looping /\ AtEqual
  /\ p' = p + 1
  /\ s' = s + 1
  /\ UNCHANGED <<subject, pattern, starP, starS, result>>

\* Variant: the wildcard is resumed where the mismatch was.
BacktrackHere ==
  /\ Looping /\ ~AtWildcard /\ ~AtEqual /\ starP # 0
  /\ p' = starP
  /\ s' = s + 1
  /\ starS' = s + 1
  /\ UNCHANGED <<subject, pattern, starP, result>>

\* Variant: the wildcard is resumed without another character.
BacktrackInPlace ==
  /\ Looping /\ ~AtWildcard /\ ~AtEqual /\ starP # 0
  /\ p' = starP
  /\ s' = starS
  /\ UNCHANGED <<subject, pattern, starP, starS, result>>

\* The last wildcard takes one character more and the rest is tried again.
Backtrack ==
  /\ Looping /\ ~AtWildcard /\ ~AtEqual /\ starP # 0
  /\ p' = starP
  /\ s' = starS + 1
  /\ starS' = starS + 1
  /\ UNCHANGED <<subject, pattern, starP, result>>

Mismatch ==
  /\ Looping /\ ~AtWildcard /\ ~AtEqual /\ starP = 0
  /\ result' = "no"
  /\ UNCHANGED <<subject, pattern, s, p, starP, starS>>

\* Variant: the pattern is consumed without a look at its end.
TrailingUnbounded ==
  /\ result = "running" /\ s = SubjectEnd /\ (p = PatternEnd \/ pattern[p] = Wildcard)
  /\ p' = p + 1
  /\ UNCHANGED <<subject, pattern, s, starP, starS, result>>

\* The subject is consumed: wildcards may be left of the pattern.
Trailing ==
  /\ result = "running" /\ s = SubjectEnd /\ AtWildcard
  /\ p' = p + 1
  /\ UNCHANGED <<subject, pattern, s, starP, starS, result>>

Return ==
  /\ result = "running" /\ s = SubjectEnd /\ ~AtWildcard
  /\ result' = IF p = PatternEnd THEN "yes" ELSE "no"
  /\ UNCHANGED <<subject, pattern, s, p, starP, starS>>

LikeNext == TakeWildcard \/ TakeChar \/ Backtrack \/ Mismatch \/ Trailing \/ Return

\* The loop runs on its own: the request thread is not waiting for anything.
LikeSpec == LikeInit /\ [][LikeNext]_likeVars /\ WF_likeVars(LikeNext)
-----------------------------------------------------------------------------
(***************************************************************************)
(* The pointers stay within their strings, the resume points behind them,  *)
(* and a resume point in the pattern is the one after a wildcard.          *)
(***************************************************************************)
PointersInBounds ==
  /\ result \in {"running", "yes", "no"}
  /\ s \in 1 .. SubjectEnd
  /\ p \in 1 .. PatternEnd
  /\ (starP = 0) <=> (starS = 0)
  /\ starP # 0 => /\ starP \in 2 .. p
                  /\ starS \in 1 .. s
                  /\ pattern[starP - 1] = Wildcard

(***************************************************************************)
(* Remembering only the last wildcard loses no match: the loop answers     *)
(* what the definition of matching says.                                   *)
(***************************************************************************)
AnswersMatches == result # "running" => (result = "yes") = Matches(subject, pattern)

(***************************************************************************)
(* At every step what is left, from here or from a later resume of the     *)
(* last wildcard, matches iff the whole does.                              *)
(***************************************************************************)
NoMatchLost ==
  result = "running" =>
    Matches(subject, pattern) =
      \/ Matches(SubSeq(subject, s, Len(subject)), SubSeq(pattern, p, Len(pattern)))
      \/ /\ starP # 0
         /\ \E r \in (starS + 1) .. SubjectEnd :
              Matches(SubSeq(subject, r, Len(subject)), SubSeq(pattern, starP, Len(pattern)))

(***************************************************************************)
(* The loop decides matching, and is on the way to it at every step.       *)
(* (php_cedar_like_match)                                                  *)
(***************************************************************************)
MatchingIsExact == AnswersMatches /\ NoMatchLost

(***************************************************************************)
(* The loop ends, although it can move back in both strings: a policy with *)
(* a `like` cannot hang a request.                                         *)
(***************************************************************************)
Terminates == <>(result # "running")
=============================================================================
