----------------------------- MODULE Purchasing -----------------------------
(***************************************************************************)
(* A purchase order and the receipts against it.                           *)
(*                                                                         *)
(* What is done to the order reads it first and writes it later: its state *)
(* by id alone, with a constraint of the table tying the state to the      *)
(* number, and its lines by deleting them and inserting others, with what  *)
(* had arrived when they were read.  Nobody asks for the order's state     *)
(* when a receipt is saved, or when it is posted.                          *)
(*                                                                         *)
(* Posting a receipt is one request and many transactions: it works from   *)
(* the lines it read; for each the stock moves (stock::apply), and a       *)
(* second transaction writes the movement on the receipt's line and adds   *)
(* it to the order's; at the end the receipt is numbered, and an order     *)
(* everything has arrived against is closed.                               *)
(***************************************************************************)
EXTENDS Naturals, FiniteSets, Sums

CONSTANTS Clerks, Receipts,
          LastLine,   \* line numbers are 1 .. LastLine; line l of a receipt is for line l of the order
          Plans,      \* what a person may key: a quantity for every line
          MaxEdits,   \* bound: how often a receipt is saved
          MaxResaves, \* bound: after how many savings of the order none is begun
          MaxStops    \* bound: how many requests die in the middle

VARIABLES order,     \* purchase_orders and its lines
          receipt,   \* receipts and their lines
          stock,     \* what the movements made for a receipt put on the shelf
          clerk,     \* how far each request is
          slips,     \* history: what happened behind a receipt's back
          stops

vars == <<order, receipt, stock, clerk, slips, stops>>

Lines   == 1 .. LastLine
NoLine  == 0
Nothing == [l \in Lines |-> 0]

\* What the constants are taken to be: lines are numbered, a plan keys a
\* quantity for each, and no receipt is called "none".
Sensible == /\ LastLine \in Nat
            /\ Plans \subseteq [Lines -> Nat]
            /\ "none" \notin Receipts

\* What the sums over them take besides.
FinitelyMany == IsFiniteSet(Receipts) /\ IsFiniteSet(Clerks)

OrderStates   == {"none", "gone", "draft", "sent", "confirmed", "done", "cancelled"}
Editable      == {"draft", "sent"}
Numbered      == {"confirmed", "done"}
ReceiptStates == {"none", "draft", "done", "cancelled", "gone"}

\* A line nothing is ordered on is not there.  edition: how often the lines
\* were replaced; each time they get new ids.
Orders == [state: OrderStates, numbered: BOOLEAN, edition: Nat,
           ordered: [Lines -> Nat], received: [Lines -> Nat]]
NoOrder == [state |-> "none", numbered |-> FALSE, edition |-> 0,
            ordered |-> Nothing, received |-> Nothing]

\* edition: which saving wrote the lines; each one gives them new ids.
Papers  == [state: ReceiptStates, edition: Nat,
            quantity: [Lines -> Nat], moved: SUBSET Lines]
NoPaper == [state |-> "none", edition |-> 0, quantity |-> Nothing, moved |-> {}]

\* The request's own copy of the receipt's lines is load, what it has still to
\* move; against is the edition of the order they name; now is the line of which
\* the movement is committed and not recorded.  The load of a saving of the
\* order is what had arrived when it read the order.
Posting  == {"move", "moved", "number"}
Setting  == {"send", "cancel", "close"}
Requests == [at: {"free", "save", "settle"} \cup Posting \cup Setting,
             receipt: Receipts \cup {"none"}, edition: Nat, against: Nat,
             load: [Lines -> Nat], now: Lines \cup {NoLine}]
Free     == [at |-> "free", receipt |-> "none", edition |-> 0, against |-> 0,
             load |-> Nothing, now |-> NoLine]

\* Two posts of a receipt overlapped; it was changed after or while something
\* of it moved; the order's lines were replaced then; a request died between a
\* movement and its record, or between posting and closing the order; the
\* receipt was posted before the order was confirmed.
Slips == {"raced", "changed", "astray", "lost", "unsettled", "early"}

TypeOK ==
    /\ order \in Orders
    /\ receipt \in [Receipts -> Papers]
    /\ stock \in [Receipts -> [Lines -> Nat]]
    /\ clerk \in [Clerks -> Requests]
    /\ slips \in [Receipts -> SUBSET Slips]
    /\ stops \in Nat

Init ==
    /\ order = NoOrder
    /\ receipt = [r \in Receipts |-> NoPaper]
    /\ stock = [r \in Receipts |-> Nothing]
    /\ clerk = [c \in Clerks |-> Free]
    /\ slips = [r \in Receipts |-> {}]
    /\ stops = 0

PostersOf(r) == {c \in Clerks : clerk[c].at \in Posting /\ clerk[c].receipt = r}
Slip(r, kind, when) == slips' = IF when THEN [slips EXCEPT ![r] = @ \cup {kind}] ELSE slips

Outstanding(l) == order.received[l] < order.ordered[l]

---------------------------------------------------------------------------
(* The order.                                                              *)

OrderCreate(quantities) ==
    /\ order.state = "none"
    /\ quantities # Nothing
    /\ order' = [NoOrder EXCEPT !.state = "draft", !.ordered = quantities]
    /\ UNCHANGED <<receipt, stock, clerk, slips, stops>>

Confirm ==
    /\ order.state \in Editable
    /\ order' = [order EXCEPT !.state = "confirmed", !.numbered = TRUE]
    /\ UNCHANGED <<receipt, stock, clerk, slips, stops>>

\* The lines of every receipt there is name lines of the order: while one does,
\* neither the order nor a line of it can be deleted.
Referenced == \E r \in Receipts : receipt[r].state \in {"draft", "done", "cancelled"}

\* What came for the lines that go is on the shelf for an order that says less.
LinesGo == slips' = [r \in Receipts |-> IF stock[r] # Nothing
                                        THEN slips[r] \cup {"astray"} ELSE slips[r]]

OrderDelete ==
    /\ order.state \in Editable
    /\ ~Referenced
    /\ order' = [NoOrder EXCEPT !.state = "gone"]
    /\ LinesGo
    /\ UNCHANGED <<receipt, stock, clerk, stops>>

\* The order is read: the state it will be given follows from that, or what
\* its new lines will say has arrived.
Intend(c, step) ==
    /\ clerk[c].at = "free"
    /\ order.state \notin {"none", "gone"}
    /\ CASE step = "save"   -> order.state \in Editable /\ order.edition < MaxResaves
         [] step = "send"   -> order.state = "draft"
         [] step = "cancel" -> \A l \in Lines : order.received[l] = 0
         [] step = "close"  -> order.state = "confirmed"
    /\ clerk' = [clerk EXCEPT ![c] =
         [Free EXCEPT !.at = step, !.load = IF step = "save" THEN order.received ELSE Nothing]]
    /\ UNCHANGED <<order, receipt, stock, slips, stops>>

\* The lines of the form that name lines the request read (kept) take over
\* what had arrived on them.
OrderSave(c, quantities, kept) ==
    /\ clerk[c].at = "save"
    /\ quantities # Nothing
    /\ IF order.state \in Editable /\ ~Referenced
       THEN /\ order' = [order EXCEPT !.edition = @ + 1, !.ordered = quantities,
                 !.received = [l \in Lines |-> IF l \in kept /\ quantities[l] > 0
                                               THEN clerk[c].load[l] ELSE 0]]
            /\ LinesGo
       ELSE UNCHANGED <<order, slips>>
    /\ clerk' = [clerk EXCEPT ![c] = Free]
    /\ UNCHANGED <<receipt, stock, stops>>

AllowsAnything(state) == TRUE

\* purchase_orders_numbered_when_confirmed
Allows(state) == order.numbered <=> state \in Numbered

\* set_state asks nothing of the state it replaces; the constraint does.
SetState(c) ==
    LET state == CASE clerk[c].at = "send"   -> "sent"
                   [] clerk[c].at = "cancel" -> "cancelled"
                   [] clerk[c].at = "close"  -> "done"
    IN  /\ clerk[c].at \in Setting
        /\ order' = IF order.state # "gone" /\ Allows(state)
                    THEN [order EXCEPT !.state = state] ELSE order
        /\ clerk' = [clerk EXCEPT ![c] = Free]
        /\ UNCHANGED <<receipt, stock, slips, stops>>

---------------------------------------------------------------------------
(* Receipts.                                                               *)

\* Nothing is asked of the order but that the lines named are there.  The
\* receipt's lines are deleted and inserted again, without their movements.
ReceiptSave(r, quantities) ==
    /\ receipt[r].state \in {"none", "draft"}
    /\ receipt[r].edition < MaxEdits
    /\ order.state \notin {"none", "gone"}
    /\ quantities # Nothing
    /\ \A l \in Lines : quantities[l] > 0 => order.ordered[l] > 0
    /\ receipt' = [receipt EXCEPT ![r] = [state |-> "draft", edition |-> @.edition + 1,
                                          quantity |-> quantities, moved |-> {}]]
    /\ Slip(r, "changed", PostersOf(r) # {} \/ stock[r] # Nothing)
    /\ UNCHANGED <<order, stock, clerk, stops>>

ReceiptWithdraw(r, how) ==
    /\ receipt[r].state = "draft"
    /\ receipt' = [receipt EXCEPT ![r].state = how]
    /\ Slip(r, "changed", PostersOf(r) # {} \/ stock[r] # Nothing)
    /\ UNCHANGED <<order, stock, clerk, stops>>

BeginPostForgetful(c, r) ==
    /\ clerk[c].at = "free"
    /\ receipt[r].state = "draft"
    /\ clerk' = [clerk EXCEPT ![c] =
         [Free EXCEPT !.at = "move", !.receipt = r, !.edition = receipt[r].edition,
                      !.against = order.edition,
                      !.load = receipt[r].quantity]]
    /\ Slip(r, "raced", PostersOf(r) # {})
    /\ UNCHANGED <<order, receipt, stock, stops>>

\* A line that carries its movement is skipped.
BeginPost(c, r) ==
    /\ clerk[c].at = "free"
    /\ receipt[r].state = "draft"
    /\ clerk' = [clerk EXCEPT ![c] =
         [Free EXCEPT !.at = "move", !.receipt = r, !.edition = receipt[r].edition,
                      !.against = order.edition,
                      !.load = [l \in Lines |-> IF l \in receipt[r].moved THEN 0
                                                ELSE receipt[r].quantity[l]]]]
    /\ Slip(r, "raced", PostersOf(r) # {})
    /\ UNCHANGED <<order, receipt, stock, stops>>

First(load) == CHOOSE l \in Lines : load[l] > 0 /\ \A k \in Lines : load[k] > 0 => l <= k

Move(c) ==
    /\ clerk[c].at = "move"
    /\ clerk[c].load # Nothing
    /\ LET l == First(clerk[c].load) IN
         /\ stock' = [stock EXCEPT ![clerk[c].receipt][l] = @ + clerk[c].load[l]]
         /\ clerk' = [clerk EXCEPT ![c].at = "moved", ![c].now = l]
    /\ UNCHANGED <<order, receipt, slips, stops>>

\* The receipt's line may be gone, and so may the order's: neither update asks.
Lands(c)   == clerk[c].against = order.edition /\ order.state # "gone"
Written(c) == LET r == clerk[c].receipt IN
              IF clerk[c].edition = receipt[r].edition /\ receipt[r].state # "gone"
              THEN [receipt EXCEPT ![r].moved = @ \cup {clerk[c].now}] ELSE receipt

RecordMoveAbsolute(c) ==
    LET l == clerk[c].now
    IN  /\ clerk[c].at = "moved"
        /\ receipt' = Written(c)
        /\ order' = IF Lands(c) THEN [order EXCEPT !.received[l] = clerk[c].load[l]] ELSE order
        /\ clerk' = [clerk EXCEPT ![c].at = "move", ![c].now = NoLine, ![c].load[l] = 0]
        /\ Slip(clerk[c].receipt, "astray", ~Lands(c))
        /\ UNCHANGED <<stock, stops>>

RecordMove(c) ==
    LET l == clerk[c].now
    IN  /\ clerk[c].at = "moved"
        /\ receipt' = Written(c)
        /\ order' = IF Lands(c) THEN [order EXCEPT !.received[l] = @ + clerk[c].load[l]] ELSE order
        /\ clerk' = [clerk EXCEPT ![c].at = "move", ![c].now = NoLine, ![c].load[l] = 0]
        /\ Slip(clerk[c].receipt, "astray", ~Lands(c))
        /\ UNCHANGED <<stock, stops>>

Moved(c) ==
    /\ clerk[c].at = "move"
    /\ clerk[c].load = Nothing
    /\ clerk' = [clerk EXCEPT ![c].at = "number"]
    /\ UNCHANGED <<order, receipt, stock, slips, stops>>

\* Numbered if it is still a draft; whoever comes second is refused.
Post(c) ==
    LET r == clerk[c].receipt
        draft == receipt[r].state = "draft"
    IN  /\ clerk[c].at = "number"
        /\ receipt' = IF draft THEN [receipt EXCEPT ![r].state = "done"] ELSE receipt
        /\ clerk' = [clerk EXCEPT ![c] =
             IF draft THEN [Free EXCEPT !.at = "settle", !.receipt = r] ELSE Free]
        /\ UNCHANGED <<order, stock, slips, stops>>

\* A movement or the numbering is refused.
Refused(c) ==
    /\ clerk[c].at = "number" \/ (clerk[c].at = "move" /\ clerk[c].load # Nothing)
    /\ clerk' = [clerk EXCEPT ![c] = Free]
    /\ UNCHANGED <<order, receipt, stock, slips, stops>>

CompleteExactly == order.received = order.ordered

Complete == \A l \in Lines : ~Outstanding(l)

\* close_if_complete, as far as its reading of the order.
Settle(c) ==
    /\ clerk[c].at = "settle"
    /\ clerk' = [clerk EXCEPT ![c] = IF order.state = "confirmed" /\ Complete
                                     THEN [@ EXCEPT !.at = "close"] ELSE Free]
    /\ Slip(clerk[c].receipt, "early", order.state \notin Numbered)
    /\ UNCHANGED <<order, receipt, stock, stops>>

---------------------------------------------------------------------------
Stops(c) ==
    /\ clerk[c].at # "free"
    /\ stops < MaxStops
    /\ stops' = stops + 1
    /\ clerk' = [clerk EXCEPT ![c] = Free]
    /\ slips' = IF clerk[c].receipt = "none" THEN slips
                ELSE [slips EXCEPT ![clerk[c].receipt] =
                        @ \cup (IF clerk[c].at = "moved" THEN {"lost"} ELSE {})
                          \cup (IF clerk[c].at \in {"settle", "close"} THEN {"unsettled"} ELSE {})]
    /\ UNCHANGED <<order, receipt, stock>>

Act(c) ==
    \/ \E step \in Setting \cup {"save"} : Intend(c, step)
    \/ \E quantities \in Plans, kept \in SUBSET Lines : OrderSave(c, quantities, kept)
    \/ SetState(c)
    \/ \E r \in Receipts : BeginPost(c, r)
    \/ Move(c) \/ RecordMove(c) \/ Moved(c) \/ Post(c) \/ Settle(c) \/ Refused(c)

Next ==
    \/ \E quantities \in Plans :
         OrderCreate(quantities) \/ (\E r \in Receipts : ReceiptSave(r, quantities))
    \/ Confirm \/ OrderDelete
    \/ \E r \in Receipts, how \in {"cancelled", "gone"} : ReceiptWithdraw(r, how)
    \/ \E c \in Clerks : Act(c) \/ Stops(c)

Spec == Init /\ [][Next]_vars

---------------------------------------------------------------------------
Unwritten(r, l) == {c \in Clerks : clerk[c].at = "moved" /\ clerk[c].receipt = r
                                                        /\ clerk[c].now = l}

(* What the order says has arrived is what was put on the shelf for it,    *)
(* however the receipts were posted: before the order was confirmed, twice *)
(* at once, halfway and again, edited under way.  Only the movement being  *)
(* written down is missing, and what an order's line lost by being         *)
(* replaced, which `save` carries over from an earlier reading.            *)
ReceivedAsMoved ==
    \A l \in Lines :
        (\A r \in Receipts : slips[r] \cap {"lost", "astray"} = {} /\ Unwritten(r, l) = {})
            => order.received[l] = SumOf([r \in Receipts |-> stock[r][l]], Receipts)

(* A posted receipt has moved each of its lines once, though it was        *)
(* refused halfway and posted again (receipt::post, "moves each line       *)
(* once").                                                                 *)
PostedMovedOnce ==
    \A r \in Receipts :
        (receipt[r].state = "done" /\ slips[r] \cap {"raced", "changed", "lost"} = {})
            => stock[r] = receipt[r].quantity

(* What a request read before the order was confirmed does not undo the    *)
(* confirmation: neither mark_sent, which read a draft, nor a save or a    *)
(* delete that saw it editable makes a quotation of it again.              *)
ConfirmedStays ==
    [][order.state \in Numbered
         => /\ order'.state \notin Editable \cup {"none", "gone"}
            /\ order'.ordered = order.ordered]_vars

(* "A confirmed one is cancelled and kept" (purchase.rs:308): a cancel     *)
(* that found nothing received leaves the order it meets, still without    *)
(* goods, cancelled.                                                       *)
ConfirmedCancels ==
    [][\A c \in Clerks :
         (/\ clerk[c].at = "cancel" /\ clerk'[c] = Free /\ stops' = stops
          /\ order.state = "confirmed" /\ order.received = Nothing)
             => order'.state = "cancelled"]_vars

\* Everything has arrived, and the requests that brought it are over with no
\* slip but these.
AllIn(forgiven) ==
    /\ \A c \in Clerks : clerk[c].at = "free"
    /\ \A r \in Receipts : /\ slips[r] \subseteq forgiven
                           /\ stock[r] # Nothing => receipt[r].state = "done"
    /\ order.state \in Numbered
    /\ \A l \in Lines : ~Outstanding(l)

(* An order everything has arrived against does not stay open once the     *)
(* requests that brought it are over (close_if_complete), whichever of the *)
(* receipts finishes last.                                                 *)
OrderCloses == AllIn({}) => order.state = "done"

(* The same of every order (receipt.rs:373, "An order everything has       *)
(* arrived against closes itself").  It fails: a receipt may be posted     *)
(* before the order is confirmed; it finds nothing to close, and nobody    *)
(* looks again.                                                            *)
EveryOrderCloses == AllIn({"early"}) => order.state = "done"
=============================================================================
