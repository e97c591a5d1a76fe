------------------------------ MODULE Transfers ------------------------------
(***************************************************************************)
(* A stock transfer: a document whose lines leave one location for the     *)
(* transit location (despatch) and later leave that one for the            *)
(* destination (receive), perhaps in part-loads.                           *)
(*                                                                         *)
(* A clerk's despatch or receipt is one request and many transactions.  It *)
(* works from the document it read first; for every line the movement      *)
(* commits (stock::apply) and is written on the line by a transaction of   *)
(* its own afterwards.  Nothing is locked in between.                      *)
(***************************************************************************)
EXTENDS Naturals, FiniteSets

CONSTANTS Clerks,
          LastLine,    \* line numbers are 1 .. LastLine, each a variant of its own
          MaxQty,      \* the largest quantity of a line
          Plans,       \* what a person may key: a quantity for every line
          MaxEdits,    \* bound: how often the document is saved
          MaxStops     \* bound: how many requests die in the middle

ASSUME TransfersAssumption ==
    /\ LastLine \in Nat
    /\ MaxQty \in Nat
    /\ Plans \subseteq [1 .. LastLine -> 0 .. MaxQty]
    /\ MaxEdits \in Nat
    /\ MaxStops \in Nat

VARIABLES state,    \* stock_transfers.state; "gone" when there is no row
          edition,  \* which saving wrote the lines: each one gives them new ids
          line,     \* stock_transfer_lines of that edition
          out,      \* what this document's movements took from the origin
          in,       \* what they put at the destination
          clerk,    \* how far each request is
          slips,    \* history: what happened behind a request's back
          stops

vars == <<state, edition, line, out, in, clerk, slips, stops>>

Lines  == 1 .. LastLine
NoLine == 0
Sizes  == 0 .. MaxQty

States   == {"gone", "draft", "in_transit", "done", "cancelled"}
HasLeft  == {"in_transit", "done"}
Leaving  == {"claim", "look", "leave", "left"}
Arriving == {"arrive", "arrived", "close"}
\* Two despatches or two receipts ran over each other; a despatch ran over the
\* end of a receipt; a request stopped between a movement and its record; the
\* document was changed under a despatch that had read it.
Slips    == {"raced", "crossed", "lost", "changed"}

\* A line of quantity 0 is one the document does not have.
Rows == [quantity: Sizes, despatched: Sizes, received: Sizes, moved: BOOLEAN]
Fresh(q) == [quantity |-> q, despatched |-> 0, received |-> 0, moved |-> FALSE]

\* load: what the request has still to move, line by line; now: the line of
\* which the movement is committed and not yet recorded.
Requests == [at: {"free"} \cup Leaving \cup Arriving, edition: 0 .. MaxEdits,
             load: [Lines -> Sizes], now: Lines \cup {NoLine}, complete: BOOLEAN]
Nothing  == [l \in Lines |-> 0]
Free     == [at |-> "free", edition |-> 0, load |-> Nothing, now |-> NoLine, complete |-> FALSE]

TypeOK ==
    /\ state \in States
    /\ edition \in 0 .. MaxEdits
    /\ line \in [Lines -> Rows]
    /\ out \in [Lines -> Nat]
    /\ in \in [Lines -> Nat]
    /\ clerk \in [Clerks -> Requests]
    /\ slips \in SUBSET Slips
    /\ stops \in 0 .. MaxStops

Init ==
    /\ state = "gone"
    /\ edition = 0
    /\ line = [l \in Lines |-> Fresh(0)]
    /\ out = Nothing
    /\ in = Nothing
    /\ clerk = [c \in Clerks |-> Free]
    /\ slips = {}
    /\ stops = 0

Busy(steps) == {c \in Clerks : clerk[c].at \in steps}
Slip(kind, when) == slips' = IF when THEN slips \cup {kind} ELSE slips

HasArrived(l) == line[l].received >= line[l].despatched

---------------------------------------------------------------------------
(* The document.                                                           *)

\* The lines are deleted and inserted again.
Save(quantities) ==
    /\ edition < MaxEdits
    /\ state = "draft" \/ (state = "gone" /\ edition = 0)
    /\ quantities # Nothing
    /\ state' = "draft"
    /\ edition' = edition + 1
    /\ line' = [l \in Lines |-> Fresh(quantities[l])]
    /\ Slip("changed", Busy(Leaving) # {})
    /\ UNCHANGED <<out, in, clerk, stops>>

Withdraw(how) ==
    /\ state = "draft"
    /\ state' = how
    /\ Slip("changed", Busy(Leaving) # {})
    /\ UNCHANGED <<edition, line, out, in, clerk, stops>>

Cancel == Withdraw("cancelled")
Delete == Withdraw("gone")

---------------------------------------------------------------------------
(* Despatch.                                                               *)

Despatchable == {"draft", "in_transit"}

BeginDespatch(c) ==
    /\ clerk[c].at = "free"
    /\ state \in Despatchable
    /\ clerk' = [clerk EXCEPT ![c] =
         [Free EXCEPT !.at = IF state = "draft" THEN "claim" ELSE "look",
                      !.edition = edition,
                      !.load = [l \in Lines |-> line[l].quantity]]]
    /\ Slip("crossed", Busy({"close"}) # {})
    /\ UNCHANGED <<state, edition, line, out, in, stops>>

\* Numbered and marked in one transaction, and only a draft is; whoever loses
\* rolls back and goes on all the same.
Claim(c) ==
    /\ clerk[c].at = "claim"
    /\ state' = IF state = "draft" THEN "in_transit" ELSE state
    /\ clerk' = [clerk EXCEPT ![c].at = "look"]
    /\ UNCHANGED <<edition, line, out, in, slips, stops>>

AlreadyNone(c) == {}

\* The lines the rows say have gone.  Rows of another edition have other ids.
Already(c) == IF clerk[c].edition = edition /\ state # "gone"
              THEN {l \in Lines : line[l].moved} ELSE {}

Look(c) ==
    /\ clerk[c].at = "look"
    /\ clerk' = [clerk EXCEPT ![c].at = "leave",
                              ![c].load = [l \in Lines |-> IF l \in Already(c) THEN 0 ELSE @[l]]]
    /\ Slip("raced", Busy({"leave", "left"}) # {})
    /\ UNCHANGED <<state, edition, line, out, in, stops>>

---------------------------------------------------------------------------
(* The lines, one after another.                                           *)

First(load) == CHOOSE l \in Lines : load[l] > 0 /\ \A k \in Lines : load[k] > 0 => l <= k

\* The movement commits.
Move(c, from, to, total) ==
    /\ clerk[c].at = from
    /\ clerk[c].load # Nothing
    /\ LET l == First(clerk[c].load) IN
         /\ total' = [total EXCEPT ![l] = @ + clerk[c].load[l]]
         /\ clerk' = [clerk EXCEPT ![c].at = to, ![c].now = l]
    /\ UNCHANGED <<state, edition, line, slips, stops>>

Leave(c)  == Move(c, "leave", "left", out) /\ UNCHANGED in
Arrive(c) == Move(c, "arrive", "arrived", in) /\ UNCHANGED out

Recorded(c) == [clerk[c] EXCEPT !.load[clerk[c].now] = 0, !.now = NoLine]

\* A line that is no longer there is updated nowhere, and nobody asks.
RecordDespatch(c) ==
    LET l == clerk[c].now
        total == line[l].despatched + clerk[c].load[l]
        there == clerk[c].edition = edition /\ state # "gone"
    IN  /\ clerk[c].at = "left"
        /\ there => total <= line[l].quantity
        /\ line' = IF there
                   THEN [line EXCEPT ![l].despatched = total, ![l].moved = TRUE]
                   ELSE line
        /\ clerk' = [clerk EXCEPT ![c] = [Recorded(c) EXCEPT !.at = "leave"]]
        /\ UNCHANGED <<state, edition, out, in, slips, stops>>

RecordArrival(c) ==
    LET l == clerk[c].now
        total == line[l].received + clerk[c].load[l]
    IN  /\ clerk[c].at = "arrived"
        /\ total <= line[l].despatched
        /\ line' = [line EXCEPT ![l].received = total]
        /\ clerk' = [clerk EXCEPT ![c] = [Recorded(c) EXCEPT !.at = "arrive"]]
        /\ UNCHANGED <<state, edition, out, in, slips, stops>>

\* The constraints of the table refuse the record; the movement stays.
RecordRefused(c) ==
    LET l == clerk[c].now IN
    /\ \/ /\ clerk[c].at = "left"
          /\ clerk[c].edition = edition /\ state # "gone"
          /\ line[l].despatched + clerk[c].load[l] > line[l].quantity
       \/ /\ clerk[c].at = "arrived"
          /\ line[l].received + clerk[c].load[l] > line[l].despatched
    /\ clerk' = [clerk EXCEPT ![c] = Free]
    /\ UNCHANGED <<state, edition, line, out, in, slips, stops>>

\* A movement is refused, too little on the shelf or a closed period; or the
\* number is.
Refused(c) ==
    /\ clerk[c].at \in {"claim", "leave", "arrive"}
    /\ clerk[c].load # Nothing
    /\ clerk' = [clerk EXCEPT ![c] = Free]
    /\ UNCHANGED <<state, edition, line, out, in, slips, stops>>

Despatched(c) ==
    /\ clerk[c].at = "leave"
    /\ clerk[c].load = Nothing
    /\ clerk' = [clerk EXCEPT ![c] = Free]
    /\ UNCHANGED <<state, edition, line, out, in, slips, stops>>

---------------------------------------------------------------------------
(* Receipt.                                                                *)

\* What the person keyed is checked against the lines as they are read.
Receive(c, load) ==
    /\ clerk[c].at = "free"
    /\ state \in HasLeft
    /\ load # Nothing
    /\ \A l \in Lines : load[l] > 0 => load[l] + line[l].received <= line[l].despatched
    /\ clerk' = [clerk EXCEPT ![c] = [Free EXCEPT !.at = "arrive", !.load = load,
                                                  !.edition = edition]]
    /\ Slip("raced", Busy({"arrive", "arrived"}) # {})
    /\ UNCHANGED <<state, edition, line, out, in, stops>>

CompleteWhenAny == \E l \in Lines : line[l].quantity > 0 /\ HasArrived(l)

\* A line that never left counts as arrived.
Complete == \A l \in Lines : HasArrived(l)

ReadBack(c) ==
    /\ clerk[c].at = "arrive"
    /\ clerk[c].load = Nothing
    /\ clerk' = [clerk EXCEPT ![c].at = "close", ![c].complete = Complete]
    /\ Slip("crossed", Busy(Leaving) # {})
    /\ UNCHANGED <<state, edition, line, out, in, stops>>

Close(c) ==
    /\ clerk[c].at = "close"
    /\ state' = IF clerk[c].complete /\ state = "in_transit" THEN "done" ELSE state
    /\ clerk' = [clerk EXCEPT ![c] = Free]
    /\ UNCHANGED <<edition, line, out, in, slips, stops>>

---------------------------------------------------------------------------
\* The process dies, or the connection does.
Stops(c) ==
    /\ clerk[c].at # "free"
    /\ stops < MaxStops
    /\ stops' = stops + 1
    /\ clerk' = [clerk EXCEPT ![c] = Free]
    /\ Slip("lost", clerk[c].now # NoLine)
    /\ UNCHANGED <<state, edition, line, out, in>>

Act(c) ==
    \/ BeginDespatch(c) \/ Claim(c) \/ Look(c) \/ Leave(c) \/ RecordDespatch(c)
    \/ Despatched(c) \/ Arrive(c) \/ RecordArrival(c) \/ ReadBack(c) \/ Close(c)
    \/ RecordRefused(c) \/ Refused(c)
    \/ \E load \in [Lines -> Sizes] : Receive(c, load)

Next ==
    \/ \E quantities \in Plans : Save(quantities)
    \/ Cancel \/ Delete
    \/ \E c \in Clerks : Act(c) \/ Stops(c)

Spec == Init /\ [][Next]_vars

---------------------------------------------------------------------------
\* What the requests under way have moved of a line and not yet written on it.
Unwritten(l, step) == {c \in Clerks : clerk[c].at = step /\ clerk[c].now = l}

(* What the shelves say and what the document says are the same, apart     *)
(* from the one movement a request is about to write down: a despatch that *)
(* failed halfway and was tried again has moved each line once, and what   *)
(* arrived in part-loads adds up, and for a transfer that was withdrawn    *)
(* nothing was moved.                                                      *)
TransitAsRecorded ==
    slips \subseteq {"crossed"} =>
        /\ state \notin HasLeft => out = Nothing
        /\ \A l \in Lines :
             /\ Unwritten(l, "left") = {} => out[l] = line[l].despatched
             /\ Unwritten(l, "arrived") = {} => in[l] = line[l].received
             /\ out[l] <= line[l].quantity
             /\ in[l] <= out[l]

(* A transfer that is done has nothing left on the road.                   *)
DoneMeansArrived ==
    (state = "done" /\ "crossed" \notin slips) =>
        \A l \in Lines : line[l].received = line[l].despatched

(* Two people who press Despatch at once move each pallet once             *)
(* (transfer.rs:224): whatever else overlaps, so long as nobody changed    *)
(* the document and no request died, no line leaves twice.                 *)
PalletsLeaveOnce ==
    slips \cap {"lost", "changed"} = {} =>
        \A l \in Lines : out[l] <= line[l].quantity
=============================================================================
