------------------------------ MODULE Selling ------------------------------
(***************************************************************************)
(* A sales order, the deliveries against it, and the invoices that bill    *)
(* what went.                                                              *)
(*                                                                         *)
(* An order is issued (sent or confirmed) in a transaction that first asks *)
(* whether it has a number.  It is cancelled and closed by requests that   *)
(* read it first and write the state later, by id alone; a saving replaces *)
(* its line, with what had gone when it read it.  A delivery is saved,     *)
(* saved again and posted movement by movement, like a receipt, and        *)
(* nothing asks for the state of its order.  Posting an invoice tells      *)
(* Inventory what it bills through a port that commits before the invoice  *)
(* does.                                                                   *)
(***************************************************************************)
EXTENDS Naturals, FiniteSets, Sums

CONSTANTS Clerks, Deliveries, Invoices,
          MaxQty,      \* the largest quantity of a line
          MaxEdits,    \* bound: how often a delivery is saved
          MaxResaves,  \* bound: after how many savings of the order none is begun
          MaxStops     \* bound: requests that die and commits that fail

\* What the constants are taken to be, and what the sums take besides.
Sensible     == MaxQty \in Nat
FinitelyMany == IsFiniteSet(Clerks) /\ IsFiniteSet(Invoices) /\ IsFiniteSet(Deliveries)

VARIABLES order,     \* sales_orders and its one line
          taken,     \* how many numbers of the series have been used up
          delivery,  \* deliveries, of one line each
          gone,      \* what the movements made for a delivery took off the shelf
          invoice,   \* invoices and what they claim of each delivery
          clerk,     \* how far each request is
          slips,     \* history: what went wrong
          stops

vars == <<order, taken, delivery, gone, invoice, clerk, slips, stops>>

Sizes   == 0 .. MaxQty
Claims  == [Deliveries -> Sizes]
Nothing == [d \in Deliveries |-> 0]

\* edition: how often the order's line was replaced, and which saving wrote the
\* delivery's; each time it gets a new id.  crossed (history): the delivery was
\* saved while a post of it was under way.
Orders   == [state: {"none", "gone", "draft", "sent", "confirmed", "done", "cancelled"},
             number: Nat, edition: Nat, ordered: Sizes, delivered: Nat]
NoOrder  == [state |-> "none", number |-> 0, edition |-> 0, ordered |-> 0, delivered |-> 0]
Editable == {"draft", "sent"}
Papers   == [state: {"none", "draft", "done", "cancelled", "gone"}, edition: Nat,
             quantity: Sizes, moved: BOOLEAN, invoiced: Nat, crossed: BOOLEAN]
NoPaper  == [state |-> "none", edition |-> 0, quantity |-> 0, moved |-> FALSE,
             invoiced |-> 0, crossed |-> FALSE]

\* names: the edition of each delivery whose line is claimed.
InvoiceRows == [state: {"none", "draft", "posted", "voided"},
                lines: Claims, names: [Deliveries -> Nat]]

\* on: the delivery or invoice a request is about; edition and against: those of
\* the delivery and of the order it read; number: the one the order already had;
\* to: the state it is going to be given; load: what it has to move, or what had
\* gone when it read the order to save it.
Issuing   == {"ask", "issue"}
Moving    == {"move", "moved", "number"}
Billing   == {"freeze", "mark", "commit"}
Requests  == [at: {"free", "save", "set", "settle"} \cup Issuing \cup Moving \cup Billing,
              on: Deliveries \cup Invoices \cup {"none"},
              to: {"none", "sent", "confirmed", "done", "cancelled"},
              edition: Nat, against: Nat, number: Nat, load: Nat,
              lines: Claims, names: [Deliveries -> Nat]]
Free      == [at |-> "free", on |-> "none", to |-> "none", edition |-> 0, against |-> 0,
              number |-> 0, load |-> 0, lines |-> Nothing, names |-> Nothing]

\* Two requests asked for the order's number before either issued it; two
\* posts of a delivery overlapped; a request died between a movement and its
\* record; the order's line was replaced after or while something of it moved; an
\* invoice was changed while it was being posted; a commit failed after the port
\* had committed.
Slips == {"asked", "raced", "lost", "astray", "changed", "unsure"}

TypeOK ==
    /\ order \in Orders
    /\ taken \in Nat
    /\ delivery \in [Deliveries -> Papers]
    /\ gone \in [Deliveries -> Nat]
    /\ invoice \in [Invoices -> InvoiceRows]
    /\ clerk \in [Clerks -> Requests]
    /\ slips \in SUBSET Slips
    /\ stops \in Nat

Init ==
    /\ order = NoOrder
    /\ taken = 0
    /\ delivery = [d \in Deliveries |-> NoPaper]
    /\ gone = Nothing
    /\ invoice = [i \in Invoices |-> [state |-> "none", lines |-> Nothing, names |-> Nothing]]
    /\ clerk = [c \in Clerks |-> Free]
    /\ slips = {}
    /\ stops = 0

Busy(steps)       == {c \in Clerks : clerk[c].at \in steps}
BusyWith(x, steps) == {c \in Busy(steps) : clerk[c].on = x}
Slip(kind, when)  == slips' = IF when THEN slips \cup {kind} ELSE slips
Outstanding       == order.delivered < order.ordered

---------------------------------------------------------------------------
(* The order.                                                              *)

OrderCreate(quantity) ==
    /\ order.state = "none"
    /\ order' = [NoOrder EXCEPT !.state = "draft", !.ordered = quantity]
    /\ UNCHANGED <<taken, delivery, gone, invoice, clerk, slips, stops>>

\* The line of every delivery there is names the order's: while one does,
\* neither the order nor its line can be deleted.
Referenced == \E d \in Deliveries : delivery[d].state \in {"draft", "done", "cancelled"}

\* What went for the line that goes left for an order that says less.
LineGoes == Slip("astray", \E d \in Deliveries : gone[d] > 0)

OrderDelete ==
    /\ order.state = "draft"
    /\ ~Referenced
    /\ order' = [NoOrder EXCEPT !.state = "gone"]
    /\ LineGoes
    /\ UNCHANGED <<taken, delivery, gone, invoice, clerk, stops>>

BeginOrderSave(c) ==
    /\ clerk[c].at = "free"
    /\ order.state \in Editable
    /\ order.edition < MaxResaves
    /\ clerk' = [clerk EXCEPT ![c] = [Free EXCEPT !.at = "save", !.load = order.delivered]]
    /\ UNCHANGED <<order, taken, delivery, gone, invoice, slips, stops>>

\* A form whose line names the one the request read (kept) takes over what had
\* gone on it.
OrderSave(c, quantity, kept) ==
    /\ clerk[c].at = "save"
    /\ IF order.state \in Editable /\ ~Referenced
       THEN /\ order' = [order EXCEPT !.edition = @ + 1, !.ordered = quantity,
                                      !.delivered = IF kept THEN clerk[c].load ELSE 0]
            /\ LineGoes
       ELSE UNCHANGED <<order, slips>>
    /\ clerk' = [clerk EXCEPT ![c] = Free]
    /\ UNCHANGED <<taken, delivery, gone, invoice, stops>>

BeginIssue(c, to) ==
    /\ clerk[c].at = "free"
    /\ order.state \in Editable
    /\ clerk' = [clerk EXCEPT ![c] = [Free EXCEPT !.at = "ask", !.to = to]]
    /\ UNCHANGED <<order, taken, delivery, gone, invoice, slips, stops>>

\* number_of, in the transaction and without a lock.
AskNumber(c) ==
    /\ clerk[c].at = "ask"
    /\ clerk' = [clerk EXCEPT ![c].at = "issue", ![c].number = order.number]
    /\ Slip("asked", Busy({"issue"}) # {})
    /\ UNCHANGED <<order, taken, delivery, gone, invoice, stops>>

KeepNumberNever(number) == number

\* An order that has a number by now keeps it.
KeepNumber(number) == IF order.number = 0 THEN number ELSE order.number

\* The series' row is held from the allocation to the commit.
Issue(c) ==
    LET fresh == clerk[c].number = 0
        still == order.state \in Editable
    IN  /\ clerk[c].at = "issue"
        /\ taken' = IF fresh /\ still THEN taken + 1 ELSE taken
        /\ order' = IF still
                    THEN [order EXCEPT !.state = clerk[c].to,
                            !.number = KeepNumber(IF fresh THEN taken + 1 ELSE clerk[c].number)]
                    ELSE order
        /\ clerk' = [clerk EXCEPT ![c] = Free]
        /\ UNCHANGED <<delivery, gone, invoice, slips, stops>>

BeginCancel(c) ==
    /\ clerk[c].at = "free"
    /\ order.state \notin {"none", "gone"}
    /\ order.delivered = 0
    /\ clerk' = [clerk EXCEPT ![c] = [Free EXCEPT !.at = "set", !.to = "cancelled"]]
    /\ UNCHANGED <<order, taken, delivery, gone, invoice, slips, stops>>

BeginClose(c) ==
    /\ clerk[c].at = "free"
    /\ order.state = "confirmed"
    /\ clerk' = [clerk EXCEPT ![c] = [Free EXCEPT !.at = "set", !.to = "done"]]
    /\ UNCHANGED <<order, taken, delivery, gone, invoice, slips, stops>>

\* set_state, by id alone; sales_orders_numbered_once_issued refuses a done
\* order without a number.
SetState(c) ==
    LET may == order.state # "gone" /\ (clerk[c].to = "cancelled" \/ order.number # 0)
    IN  /\ clerk[c].at = "set"
        /\ order' = IF may THEN [order EXCEPT !.state = clerk[c].to] ELSE order
        /\ clerk' = [clerk EXCEPT ![c] = Free]
        /\ UNCHANGED <<taken, delivery, gone, invoice, slips, stops>>

---------------------------------------------------------------------------
(* Deliveries.                                                             *)

\* Nothing is asked of the order but that it is there.  The line is deleted and
\* inserted again, without its movement.
DeliverySave(d, quantity) ==
    /\ delivery[d].state \in {"none", "draft"}
    /\ delivery[d].edition < MaxEdits
    /\ order.state \notin {"none", "gone"}
    /\ delivery' = [delivery EXCEPT ![d] =
         [NoPaper EXCEPT !.state = "draft", !.edition = delivery[d].edition + 1,
                         !.quantity = quantity,
                         !.crossed = delivery[d].crossed \/ BusyWith(d, Moving) # {}]]
    /\ UNCHANGED <<order, taken, gone, invoice, clerk, slips, stops>>

DeliveryWithdraw(d, how) ==
    /\ delivery[d].state = "draft"
    /\ delivery' = [delivery EXCEPT ![d].state = how]
    /\ UNCHANGED <<order, taken, gone, invoice, clerk, slips, stops>>

BeginPost(c, d) ==
    /\ clerk[c].at = "free"
    /\ delivery[d].state = "draft"
    /\ clerk' = [clerk EXCEPT ![c] =
         [Free EXCEPT !.at = IF delivery[d].moved THEN "number" ELSE "move",
                      !.on = d, !.edition = delivery[d].edition, !.against = order.edition,
                      !.load = delivery[d].quantity]]
    /\ Slip("raced", BusyWith(d, Moving) # {})
    /\ UNCHANGED <<order, taken, delivery, gone, invoice, stops>>

Move(c) ==
    /\ clerk[c].at = "move"
    /\ gone' = [gone EXCEPT ![clerk[c].on] = @ + clerk[c].load]
    /\ clerk' = [clerk EXCEPT ![c].at = "moved"]
    /\ UNCHANGED <<order, taken, delivery, invoice, slips, stops>>

\* The delivery's line may be gone, and so may the order's: neither update asks.
Lands(c)   == clerk[c].against = order.edition /\ order.state # "gone"
Written(c) == LET d == clerk[c].on IN
              IF clerk[c].edition = delivery[d].edition /\ delivery[d].state # "gone"
              THEN [delivery EXCEPT ![d].moved = TRUE] ELSE delivery

RecordMoveAbsolute(c) ==
    /\ clerk[c].at = "moved"
    /\ delivery' = Written(c)
    /\ order' = IF Lands(c) THEN [order EXCEPT !.delivered = clerk[c].load] ELSE order
    /\ clerk' = [clerk EXCEPT ![c].at = "number"]
    /\ Slip("astray", ~Lands(c))
    /\ UNCHANGED <<taken, gone, invoice, stops>>

RecordMove(c) ==
    /\ clerk[c].at = "moved"
    /\ delivery' = Written(c)
    /\ order' = IF Lands(c) THEN [order EXCEPT !.delivered = @ + clerk[c].load] ELSE order
    /\ clerk' = [clerk EXCEPT ![c].at = "number"]
    /\ Slip("astray", ~Lands(c))
    /\ UNCHANGED <<taken, gone, invoice, stops>>

\* Numbered if it is still a draft, whatever its line says by now.
PostDelivery(c) ==
    LET draft == delivery[clerk[c].on].state = "draft"
    IN  /\ clerk[c].at = "number"
        /\ delivery' = IF draft THEN [delivery EXCEPT ![clerk[c].on].state = "done"] ELSE delivery
        /\ clerk' = [clerk EXCEPT ![c] = IF draft THEN [Free EXCEPT !.at = "settle"] ELSE Free]
        /\ UNCHANGED <<order, taken, gone, invoice, slips, stops>>

\* close_if_complete, as far as its reading of the order.
Settle(c) ==
    /\ clerk[c].at = "settle"
    /\ clerk' = [clerk EXCEPT ![c] = IF order.state = "confirmed" /\ ~Outstanding
                                     THEN [Free EXCEPT !.at = "set", !.to = "done"] ELSE Free]
    /\ UNCHANGED <<order, taken, delivery, gone, invoice, slips, stops>>

---------------------------------------------------------------------------
(* Invoices.                                                               *)

InvoiceSave(i, lines) ==
    /\ invoice[i].state \in {"none", "draft"}
    /\ BusyWith(i, {"mark", "commit"}) = {}
    /\ invoice' = [invoice EXCEPT ![i] =
         [state |-> "draft", lines |-> lines,
          names |-> [d \in Deliveries |-> IF lines[d] > 0 THEN delivery[d].edition ELSE 0]]]
    /\ Slip("changed", BusyWith(i, {"freeze"}) # {})
    /\ UNCHANGED <<order, taken, delivery, gone, clerk, stops>>

BeginInvoice(c, i) ==
    /\ clerk[c].at = "free"
    /\ invoice[i].state = "draft"
    /\ clerk' = [clerk EXCEPT ![c] = [Free EXCEPT !.at = "freeze", !.on = i,
                                                  !.lines = invoice[i].lines,
                                                  !.names = invoice[i].names]]
    /\ UNCHANGED <<order, taken, delivery, gone, invoice, slips, stops>>

\* The number, the draft made posted and the journal, in a transaction that
\* holds the invoice's row to its end.
Freeze(c) ==
    /\ clerk[c].at = "freeze"
    /\ BusyWith(clerk[c].on, {"mark", "commit"}) = {}
    /\ clerk' = [clerk EXCEPT ![c] = IF invoice[clerk[c].on].state = "draft"
                                     THEN [@ EXCEPT !.at = "mark"] ELSE Free]
    /\ UNCHANGED <<order, taken, delivery, gone, invoice, slips, stops>>

FitsEach(lines, names) == \A d \in Deliveries : lines[d] <= delivery[d].quantity

Fits(lines, names) ==
    \A d \in Deliveries :
        lines[d] > 0 => /\ names[d] = delivery[d].edition
                        /\ delivery[d].state = "done"
                        /\ delivery[d].invoiced + lines[d] <= delivery[d].quantity

\* mark_invoiced, a transaction of its own that locks every line it reads; a
\* refusal rolls the invoice back.
MarkInvoiced(c) ==
    LET fits == Fits(clerk[c].lines, clerk[c].names)
    IN  /\ clerk[c].at = "mark"
        /\ delivery' = [d \in Deliveries |->
             [delivery[d] EXCEPT !.invoiced = @ + (IF fits THEN clerk[c].lines[d] ELSE 0)]]
        /\ clerk' = [clerk EXCEPT ![c] = IF fits THEN [@ EXCEPT !.at = "commit"] ELSE Free]
        /\ UNCHANGED <<order, taken, gone, invoice, slips, stops>>

CommitInvoice(c) ==
    /\ clerk[c].at = "commit"
    /\ invoice' = [invoice EXCEPT ![clerk[c].on].state = "posted"]
    /\ clerk' = [clerk EXCEPT ![c] = Free]
    /\ UNCHANGED <<order, taken, delivery, gone, slips, stops>>

\* A voided invoice leaves what it billed marked.
InvoiceVoid(i) ==
    /\ invoice[i].state = "posted"
    /\ invoice' = [invoice EXCEPT ![i].state = "voided"]
    /\ UNCHANGED <<order, taken, delivery, gone, clerk, slips, stops>>

---------------------------------------------------------------------------
\* A form, a number, a movement or a journal is refused.
Refused(c) ==
    /\ clerk[c].at \in {"save", "issue", "move", "number", "freeze"}
    /\ clerk' = [clerk EXCEPT ![c] = Free]
    /\ UNCHANGED <<order, taken, delivery, gone, invoice, slips, stops>>

\* The process dies, or a commit fails.
Stops(c) ==
    /\ clerk[c].at \in {"moved", "settle", "set", "mark", "commit"}
    /\ stops < MaxStops
    /\ stops' = stops + 1
    /\ clerk' = [clerk EXCEPT ![c] = Free]
    /\ slips' = slips \cup (CASE clerk[c].at = "moved"  -> {"lost"}
                              [] clerk[c].at = "commit" -> {"unsure"}
                              [] OTHER -> {})
    /\ UNCHANGED <<order, taken, delivery, gone, invoice>>

Act(c) ==
    \/ BeginOrderSave(c)
    \/ \E quantity \in Sizes \ {0}, kept \in BOOLEAN : OrderSave(c, quantity, kept)
    \/ \E to \in {"sent", "confirmed"} : BeginIssue(c, to)
    \/ AskNumber(c) \/ Issue(c) \/ BeginCancel(c) \/ BeginClose(c) \/ SetState(c)
    \/ \E d \in Deliveries : BeginPost(c, d)
    \/ Move(c) \/ RecordMove(c) \/ PostDelivery(c) \/ Settle(c)
    \/ \E i \in Invoices : BeginInvoice(c, i)
    \/ Freeze(c) \/ MarkInvoiced(c) \/ CommitInvoice(c) \/ Refused(c) \/ Stops(c)

Next ==
    \/ \E quantity \in Sizes \ {0} :
         OrderCreate(quantity) \/ (\E d \in Deliveries : DeliverySave(d, quantity))
    \/ OrderDelete
    \/ \E d \in Deliveries, how \in {"cancelled", "gone"} : DeliveryWithdraw(d, how)
    \/ \E i \in Invoices : \/ InvoiceVoid(i)
                           \/ \E lines \in Claims \ {Nothing} : InvoiceSave(i, lines)
    \/ \E c \in Clerks : Act(c)

Spec == Init /\ [][Next]_vars

---------------------------------------------------------------------------
Marking(d) == {c \in Busy({"commit"}) : clerk[c].lines[d] > 0}
EverPosted == {i \in Invoices : invoice[i].state \in {"posted", "voided"}}

(* What the order says has gone is what was taken off the shelf for it,   *)
(* however its deliveries were saved and posted: twice at once, halfway    *)
(* and again, rewritten under a post.  Only a movement never written down  *)
(* is missing, and what a line lost by being replaced.                     *)
DeliveredAsGone ==
    (slips \cap {"lost", "astray"} = {} /\ Busy({"moved"}) = {})
        => order.delivered = SumOf(gone, Deliveries)

(* A delivery is never invoiced for more than it says, and is marked with  *)
(* what the invoices posted for it claim: with more only when an invoice's *)
(* commit failed after Inventory's.  What it says did leave the shelf,     *)
(* however often it was saved and posted, unless a saving crossed a post.  *)
InvoicedAsPosted ==
    \A d \in Deliveries :
        /\ delivery[d].invoiced <= delivery[d].quantity
        /\ (delivery[d].invoiced > 0 /\ ~delivery[d].crossed) => gone[d] >= delivery[d].quantity
        /\ (slips \cap {"unsure", "changed"} = {} /\ Marking(d) = {})
               => delivery[d].invoiced = SumOf([i \in Invoices |-> invoice[i].lines[d]], EverPosted)

(* Nobody is charged for what did not leave, the crossed saving included   *)
(* (delivery.rs:264, "Despatching twice therefore moves each line once").  *)
(* It fails: the post moves what it read and marks done what it finds.     *)
InvoicedHasLeft ==
    \A d \in Deliveries : delivery[d].invoiced <= gone[d]

(* The number an order was first issued under stays its number to the end, *)
(* and it uses up no other unless two requests asked at the same time.     *)
OneNumber ==
    [][order.number # 0 => /\ order'.number = order.number
                           /\ taken' # taken => "asked" \in slips]_vars
=============================================================================
