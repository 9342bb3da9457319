-------------------------------- MODULE Sums --------------------------------
(* Sums of a function's values over a finite part of its domain. *)
EXTENDS Integers, FiniteSetsExt

SumOver(f, S) == MapThenSumSet(LAMBDA x : f[x], S)
=============================================================================
