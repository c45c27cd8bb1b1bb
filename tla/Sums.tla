-------------------------------- MODULE Sums --------------------------------
(***************************************************************************)
(* The sum of the values a function takes on a finite set.                 *)
(***************************************************************************)
EXTENDS Integers, FiniteSetsExt

SumOver(w, S) == MapThenSumSet(LAMBDA x : w[x], S)
=============================================================================
