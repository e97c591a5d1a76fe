--------------------------- MODULE MCStockLedger ---------------------------
(***************************************************************************)
(* Instances of StockLedger for TLC: two moves at once, and enough of them *)
(* for a receipt to arrive before an issue and a transfer compete for it.  *)
(***************************************************************************)
EXTENDS StockLedger, TLC

\* The moves at once are interchangeable.
Symmetry == Permutations(Sessions)
=============================================================================
