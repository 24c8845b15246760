----------------------------- MODULE SeqFilter -----------------------------
(***************************************************************************)
(* The elements of a sequence, and the subsequence of those in a set.      *)
(* Only is SelectSeq with a set for a test, written as a recursive         *)
(* function so that proofs can reason about it.                            *)
(***************************************************************************)
EXTENDS Integers, Sequences

Elements(s) == {s[i] : i \in 1..Len(s)}

\* The elements of s that are in A, in their order.
Only(s, A) ==
  LET taken[i \in 0..Len(s)] ==
        IF i = 0 THEN <<>>
        ELSE IF s[i] \in A THEN Append(taken[i - 1], s[i])
        ELSE taken[i - 1]
  IN  taken[Len(s)]
=============================================================================
