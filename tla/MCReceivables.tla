--------------------------- MODULE MCReceivables ---------------------------
(***************************************************************************)
(* Instances of Receivables for TLC: two requests at once over two sales   *)
(* invoices, a credit note and two payments.                               *)
(***************************************************************************)
EXTENDS Receivables, TLC

CONSTANTS i1, i2, n1, p1, p2, s1, s2

OneSale     == {i1}
TwoSales    == {i1, i2}
OneNote     == {n1}
NoNotes     == {}
OnePayment  == {p1}
TwoPayments == {p1, p2}
TwoSessions == {s1, s2}

OneOrTwo    == {1, 2}
NoneOrOne   == {0, 1}
JustOne     == {1}

\* A draft is left alone once it is saved.
NoResave    == AllOps \ {"resave"}
\* What a race needs and no more.
Posting     == {"save", "post"}
Resaving    == {"save", "resave", "post"}

\* Documents of one kind are interchangeable, and so are requests.
Symmetry == Permutations(Sessions) \cup Permutations(Payments) \cup Permutations(Sales)
=============================================================================
