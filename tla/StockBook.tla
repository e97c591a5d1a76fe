----------------------------- MODULE StockBook -----------------------------
(***************************************************************************)
(* What the stock ledger promises about quantities: a move takes a         *)
(* quantity off one place and puts the same quantity down in another, at   *)
(* once, and a place of the workspace's own never holds less than nothing. *)
(***************************************************************************)
EXTENDS Integers

CONSTANTS
    Locations,  \* the places stock can be
    Owned,      \* those on the workspace's balance sheet
    Quantities  \* what one move may carry

VARIABLE onHand

Init == onHand = [l \in Locations |-> 0]

Carry(f, t, n) ==
    /\ f # t
    /\ f \in Owned => onHand[f] >= n
    /\ onHand' = [onHand EXCEPT ![f] = @ - n, ![t] = @ + n]

Next == \E f, t \in Locations, n \in Quantities : Carry(f, t, n)

Spec == Init /\ [][Next]_onHand
=============================================================================
