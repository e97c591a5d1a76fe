------------------------------ MODULE Billing ------------------------------
(***************************************************************************)
(* Suppliers' bills against the lines of posted receipts: the match that   *)
(* is assessed before posting, what each line has been billed for, and the *)
(* journal.  The match reads the lines outside any transaction; numbering, *)
(* the state and what the lines are billed for are one transaction; the    *)
(* ledger posts in another after it, and a third notes the journal.        *)
(***************************************************************************)
EXTENDS Naturals, FiniteSets, Sums

CONSTANTS Clerks, Bills,
          ReceiptLines,  \* the lines of the posted receipts of one order
          Received,      \* how much of each arrived
          MaxBilled,     \* the largest quantity a bill claims of a line
          MaxStops       \* bound: requests that die or whose journal is refused

\* What the constants are taken to be.
Sensible == /\ MaxBilled \in Nat
            /\ Received \in [ReceiptLines -> Nat]
            /\ "none" \notin Bills

\* What the sums over them take besides.
FinitelyMany == IsFiniteSet(Bills)

VARIABLES bill,      \* bills and their lines
          billed,    \* receipt_lines.billed
          journals,  \* the journals the ledger holds for a bill
          clerk,     \* how far each request is
          slips,     \* history: what happened behind a bill's back
          stops

vars == <<bill, billed, journals, clerk, slips, stops>>

Claims  == [ReceiptLines -> 0 .. MaxBilled]
Nothing == [l \in ReceiptLines |-> 0]

States    == {"none", "draft", "posted", "cancelled", "gone"}
Notes     == {"none", "posted", "no_ledger"}
Documents == [state: States, lines: Claims, journal: Notes]
Steps     == {"free", "post", "book", "note"}
Requests  == [at: Steps, bill: Bills \cup {"none"}, lines: Claims, journal: Notes]
Free      == [at |-> "free", bill |-> "none", lines |-> Nothing, journal |-> "none"]

\* Another bill was between its match and its posting; it was posted over a
\* match that did not clear; it was changed between its match and its posting;
\* the request died, or the ledger refused, after it was posted.
Slips == {"raced", "overridden", "changed", "unbooked"}

TypeOK ==
    /\ bill \in [Bills -> Documents]
    /\ billed \in [ReceiptLines -> Nat]
    /\ journals \in [Bills -> Nat]
    /\ clerk \in [Clerks -> Requests]
    /\ slips \in [Bills -> SUBSET Slips]
    /\ stops \in Nat

Init ==
    /\ bill = [b \in Bills |-> [state |-> "none", lines |-> Nothing, journal |-> "none"]]
    /\ billed = Nothing
    /\ journals = [b \in Bills |-> 0]
    /\ clerk = [c \in Clerks |-> Free]
    /\ slips = [b \in Bills |-> {}]
    /\ stops = 0

Matching      == {c \in Clerks : clerk[c].at = "post"}
MatchingOf(b) == {c \in Matching : clerk[c].bill = b}
Slip(b, kinds) == slips' = [slips EXCEPT ![b] = @ \cup kinds]
If(kind, when) == IF when THEN {kind} ELSE {}

Available(l) == IF billed[l] < Received[l] THEN Received[l] - billed[l] ELSE 0

---------------------------------------------------------------------------
\* A line billed in full is refused, more than is left of one is not.
Save(b, lines) ==
    /\ bill[b].state \in {"none", "draft"}
    /\ lines # Nothing
    /\ \A l \in ReceiptLines : lines[l] > 0 => Available(l) > 0
    /\ bill' = [bill EXCEPT ![b].state = "draft", ![b].lines = lines]
    /\ Slip(b, If("changed", MatchingOf(b) # {}))
    /\ UNCHANGED <<billed, journals, clerk, stops>>

WithdrawReleasing(b, how) ==
    /\ bill[b].state = "draft"
    /\ bill' = [bill EXCEPT ![b].state = how]
    /\ billed' = [l \in ReceiptLines |-> billed[l] - bill[b].lines[l]]
    /\ UNCHANGED <<journals, clerk, slips, stops>>

Withdraw(b, how) ==
    /\ bill[b].state = "draft"
    /\ bill' = [bill EXCEPT ![b].state = how]
    /\ UNCHANGED <<billed, journals, clerk, slips, stops>>

ClearsAlways(lines) == lines # Nothing

\* assess: more than arrived and is not billed yet needs somebody's override.
Clears(lines) == \A l \in ReceiptLines : lines[l] <= Available(l)

Match(c, b, override) ==
    /\ clerk[c].at = "free"
    /\ bill[b].state = "draft"
    /\ Clears(bill[b].lines) \/ override
    /\ clerk' = [clerk EXCEPT ![c] = [Free EXCEPT !.at = "post", !.bill = b,
                                                  !.lines = bill[b].lines]]
    /\ Slip(b, If("raced", Matching # {}) \cup If("overridden", override))
    /\ UNCHANGED <<bill, billed, journals, stops>>

PostAnyway(c) ==
    LET b == clerk[c].bill
    IN  /\ clerk[c].at = "post"
        /\ bill' = IF bill[b].state = "draft" THEN [bill EXCEPT ![b].state = "posted"] ELSE bill
        /\ billed' = [l \in ReceiptLines |-> billed[l] + clerk[c].lines[l]]
        /\ clerk' = [clerk EXCEPT ![c].at = "book"]
        /\ UNCHANGED <<journals, slips, stops>>

\* One transaction; a bill that is no draft any more rolls it back.
Post(c) ==
    LET b == clerk[c].bill
        draft == bill[b].state = "draft"
    IN  /\ clerk[c].at = "post"
        /\ bill' = IF draft THEN [bill EXCEPT ![b].state = "posted"] ELSE bill
        /\ billed' = IF draft THEN [l \in ReceiptLines |-> billed[l] + clerk[c].lines[l]]
                     ELSE billed
        /\ clerk' = [clerk EXCEPT ![c] = IF draft THEN [@ EXCEPT !.at = "book"] ELSE Free]
        /\ UNCHANGED <<journals, slips, stops>>

\* The workspace has no series for bills.
NoSeries(c) ==
    /\ clerk[c].at = "post"
    /\ clerk' = [clerk EXCEPT ![c] = Free]
    /\ UNCHANGED <<bill, billed, journals, slips, stops>>

\* The ledger posts, or there is none.
Book(c) ==
    /\ clerk[c].at = "book"
    /\ \E outcome \in {"posted", "no_ledger"} :
         /\ clerk' = [clerk EXCEPT ![c].at = "note", ![c].journal = outcome]
         /\ journals' = [journals EXCEPT ![clerk[c].bill] = @ + (IF outcome = "posted" THEN 1 ELSE 0)]
    /\ UNCHANGED <<bill, billed, slips, stops>>

Note(c) ==
    /\ clerk[c].at = "note"
    /\ bill' = [bill EXCEPT ![clerk[c].bill].journal = clerk[c].journal]
    /\ clerk' = [clerk EXCEPT ![c] = Free]
    /\ UNCHANGED <<billed, journals, slips, stops>>

\* The process dies, or the ledger refuses the journal: nothing tries again.
Stops(c) ==
    /\ clerk[c].at # "free"
    /\ stops < MaxStops
    /\ stops' = stops + 1
    /\ clerk' = [clerk EXCEPT ![c] = Free]
    /\ Slip(clerk[c].bill, If("unbooked", clerk[c].at \in {"book", "note"}))
    /\ UNCHANGED <<bill, billed, journals>>

Next ==
    \/ \E b \in Bills : \/ \E lines \in Claims : Save(b, lines)
                        \/ \E how \in {"cancelled", "gone"} : Withdraw(b, how)
    \/ \E c \in Clerks :
         \/ \E b \in Bills, override \in BOOLEAN : Match(c, b, override)
         \/ Post(c) \/ NoSeries(c) \/ Book(c) \/ Note(c) \/ Stops(c)

Spec == Init /\ [][Next]_vars

---------------------------------------------------------------------------
Posted == {b \in Bills : bill[b].state = "posted"}

(* A receipt line has been billed for what the posted bills claim of it,   *)
(* and for no more than arrived, unless somebody overrode the match or two *)
(* bills were matched before either was posted.                            *)
BilledAsPosted ==
    \A l \in ReceiptLines :
        /\ (\A b \in Bills : "changed" \notin slips[b])
               => billed[l] = SumOf([b \in Bills |-> bill[b].lines[l]], Posted)
        /\ (\A b \in Bills : slips[b] \cap {"raced", "overridden", "changed"} = {})
               => billed[l] <= Received[l]

(* The ledger holds one journal for a posted bill and none for any other,  *)
(* once the request that posted it is over; only a death or a refusal      *)
(* between the two leaves a posted bill without.                           *)
PostedIsBooked ==
    \A b \in Bills :
        /\ journals[b] <= 1
        /\ journals[b] = 1 => bill[b].state = "posted"
        /\ (/\ bill[b].state = "posted" /\ "unbooked" \notin slips[b]
            /\ \A c \in Clerks : clerk[c].at \in {"book", "note"} => clerk[c].bill # b)
               => (bill[b].journal = "posted" <=> journals[b] = 1) /\ bill[b].journal # "none"
=============================================================================
