-------------------------------- MODULE Sums --------------------------------
(***************************************************************************)
(* The sum of a function's values over a finite set: what a SELECT sum(..) *)
(* of the rows that satisfy its WHERE gives.                               *)
(***************************************************************************)
EXTENDS Integers, FiniteSetsExt

\* What f is on the elements of S, added up; nothing comes to 0.
SumOf(f, S) == MapThenSumSet(LAMBDA x : f[x], S)
=============================================================================
