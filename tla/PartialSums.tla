----------------------------- MODULE PartialSums -----------------------------
(***************************************************************************)
(* The sums of the first n terms of a sequence of numbers, as a function   *)
(* of n.  Where a packet begins, what is filled so far and what has been   *)
(* charged so far are all such sums.  The function is recursive and not a  *)
(* fold so that it can be reasoned about (see Recursion_proofs).           *)
(***************************************************************************)
EXTENDS Integers, Sequences

PartialSums(terms) ==
  LET upTo[n \in 0 .. Len(terms)] == IF n = 0 THEN 0 ELSE upTo[n - 1] + terms[n]
  IN upTo
===============================================================================
