----------------------------- MODULE AppendLog -----------------------------
(***************************************************************************)
(* What an array of the pool is to its users: a list that starts empty and *)
(* grows by one element at a time, and in which nothing ever changes.      *)
(***************************************************************************)
EXTENDS Sequences

CONSTANT Element

VARIABLE log

Init == log = <<>>

Extend == \E v \in Element : log' = Append(log, v)

Spec == Init /\ [][Extend]_log
=============================================================================
