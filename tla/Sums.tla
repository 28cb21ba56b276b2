------------------------------- MODULE Sums -------------------------------
(***************************************************************************)
(* Sums of integers over finite sets: the activities and objectives that   *)
(* the engines accumulate entry by entry.                                  *)
(***************************************************************************)
EXTENDS Integers, FiniteSetsExt

\* The sum of f[j] over the members j of S.
Sum(f, S) == MapThenSumSet(LAMBDA j : f[j], S)
=============================================================================
