------------------------------ MODULE MCGoods ------------------------------
(***************************************************************************)
(* The documents that move goods: transfers, purchase orders with their    *)
(* receipts, suppliers' bills, sales orders with their deliveries and      *)
(* invoices.  The four share no row, so a behaviour of this instance is    *)
(* about one of them, chosen at the start.  Purchasing is instantiated     *)
(* three times: several receipts of an order of one line; one receipt of   *)
(* two lines that is changed while requests die; and one whose order is    *)
(* saved again.  So is Selling: an order and its delivery from the         *)
(* beginning; a delivery that is saved again and invoiced; and several     *)
(* invoices of one that has gone.                                          *)
(***************************************************************************)
EXTENDS Transfers, Sums, TLC

CONSTANTS Receipts, OneReceipt, Bills, ReceiptLines, Received, MaxBilled, Deliveries, Invoices

VARIABLES purchaseOrder, receipt, stock, buyer, buyerSlips, buyerStops,
          bill, billed, journals, biller, billerSlips, billerStops,
          salesOrder, taken, delivery, gone, invoice, seller, sellerSlips, sellerStops,
          work

buying  == <<purchaseOrder, receipt, stock, buyer, buyerSlips, buyerStops>>
billing == <<bill, billed, journals, biller, billerSlips, billerStops>>
selling == <<salesOrder, taken, delivery, gone, invoice, seller, sellerSlips, sellerStops>>

Symmetry      == Permutations(Clerks) \cup Permutations(Receipts)
TransferPlans == {<<2, 0>>, <<1, 1>>}
OneLinePlans  == {<<1>>, <<2>>}
TwoLinePlans  == {<<1, 1>>, <<1, 0>>}
AsBilled      == [l \in ReceiptLines |-> MaxBilled]
One(S)        == {CHOOSE x \in S : TRUE}

P == INSTANCE Purchasing
       WITH LastLine <- 1, Plans <- OneLinePlans, MaxEdits <- 1, MaxResaves <- 0, MaxStops <- 0,
            order <- purchaseOrder, clerk <- buyer, slips <- buyerSlips, stops <- buyerStops
R == INSTANCE Purchasing
       WITH Receipts <- OneReceipt, Plans <- TwoLinePlans, MaxResaves <- 0,
            order <- purchaseOrder, clerk <- buyer, slips <- buyerSlips, stops <- buyerStops
Q == INSTANCE Purchasing
       WITH Receipts <- OneReceipt, Plans <- TwoLinePlans, MaxEdits <- 1, MaxResaves <- 2,
            MaxStops <- 0,
            order <- purchaseOrder, clerk <- buyer, slips <- buyerSlips, stops <- buyerStops
B == INSTANCE Billing
       WITH clerk <- biller, slips <- billerSlips, stops <- billerStops
S == INSTANCE Selling
       WITH Invoices <- {}, MaxQty <- 1, MaxEdits <- 1, MaxResaves <- 1,
            order <- salesOrder, clerk <- seller, slips <- sellerSlips, stops <- sellerStops
D == INSTANCE Selling
       WITH Invoices <- One(Invoices), MaxResaves <- 0, MaxStops <- 0,
            order <- salesOrder, clerk <- seller, slips <- sellerSlips, stops <- sellerStops
I == INSTANCE Selling
       WITH MaxResaves <- 0,
            order <- salesOrder, clerk <- seller, slips <- sellerSlips, stops <- sellerStops

\* What the proofs about these modules take of their constants.
ASSUME GoodsSensible == /\ P!Sensible /\ R!Sensible /\ Q!Sensible
                        /\ B!Sensible
                        /\ S!Sensible /\ D!Sensible /\ I!Sensible
                        /\ MaxQty > 0
ASSUME GoodsFinite   == /\ P!FinitelyMany /\ R!FinitelyMany /\ Q!FinitelyMany
                        /\ B!FinitelyMany
                        /\ S!FinitelyMany /\ D!FinitelyMany /\ I!FinitelyMany

\* An order of MaxQty with a number, what has gone for it, and nothing invoiced.
OrderedInit(orderState, paper, went, invoices) ==
    /\ delivery = [d \in Deliveries |-> paper]
    /\ gone = [d \in Deliveries |-> went]
    /\ salesOrder = [state |-> orderState, number |-> 1, edition |-> 0, ordered |-> MaxQty,
                     delivered |-> SumOf(gone, Deliveries)]
    /\ taken = 1
    /\ invoice = [i \in invoices |->
                     [state |-> "none", lines |-> I!Nothing, names |-> I!Nothing]]
    /\ seller = [c \in Clerks |-> I!Free]
    /\ sellerSlips = {}
    /\ sellerStops = 0

\* The order confirmed and its delivery begun; the delivery posted.
Paper(paperState, quantity, moved) ==
    [state |-> paperState, edition |-> 1, quantity |-> quantity, moved |-> moved,
     invoiced |-> 0, crossed |-> FALSE]

BegunInit     == OrderedInit("confirmed", Paper("draft", 1, FALSE), 0, One(Invoices))
DeliveredInit == OrderedInit("done", Paper("done", MaxQty, TRUE), MaxQty, Invoices)

MCInit ==
    /\ work \in {"transfers", "receipts", "changes", "resaves", "bills",
                "sales", "rewrites", "invoices"}
    /\ Init /\ B!Init
    /\ CASE work = "changes" -> R!Init [] work = "resaves" -> Q!Init [] OTHER -> P!Init
    /\ CASE work = "rewrites" -> BegunInit [] work = "invoices" -> DeliveredInit
         [] OTHER -> S!Init

MCNext ==
    /\ UNCHANGED work
    /\ \/ work = "transfers" /\ Next /\ UNCHANGED <<buying, billing, selling>>
       \/ work = "receipts" /\ P!Next /\ UNCHANGED <<vars, billing, selling>>
       \/ work = "changes" /\ R!Next /\ UNCHANGED <<vars, billing, selling>>
       \/ work = "resaves" /\ Q!Next /\ UNCHANGED <<vars, billing, selling>>
       \/ work = "bills" /\ B!Next /\ UNCHANGED <<vars, buying, selling>>
       \/ work = "sales" /\ S!Next /\ UNCHANGED <<vars, buying, billing>>
       \/ work = "rewrites" /\ D!Next /\ UNCHANGED <<vars, buying, billing>>
       \/ work = "invoices" /\ I!Next /\ UNCHANGED <<vars, buying, billing>>

MCSpec == MCInit /\ [][MCNext]_<<vars, buying, billing, selling, work>>

\* The properties of the modules, under names of their own, each looked at
\* where its module is at work.
Bought(several, changed, resaved) == /\ work = "receipts" => several
                                     /\ work = "changes" => changed
                                     /\ work = "resaves" => resaved
Sold(rewritten, several) == /\ work = "rewrites" => rewritten
                            /\ work = "invoices" => several

TypesOK == /\ work = "transfers" => TypeOK
           /\ work = "bills" => B!TypeOK
           /\ Bought(P!TypeOK, R!TypeOK, Q!TypeOK)
           /\ (work = "sales" => S!TypeOK)
           /\ Sold(D!TypeOK, I!TypeOK)

ReceivedAsMoved  == Bought(P!ReceivedAsMoved, R!ReceivedAsMoved, Q!ReceivedAsMoved)
PostedMovedOnce  == Bought(P!PostedMovedOnce, R!PostedMovedOnce, Q!PostedMovedOnce)
OrderCloses      == Bought(P!OrderCloses, R!OrderCloses, Q!OrderCloses)
EveryOrderCloses == Bought(P!EveryOrderCloses, R!EveryOrderCloses, Q!EveryOrderCloses)
ConfirmedStays   == P!ConfirmedStays
ConfirmedCancels == P!ConfirmedCancels
BilledAsPosted   == work = "bills" => B!BilledAsPosted
PostedIsBooked   == work = "bills" => B!PostedIsBooked
DeliveredAsGone  == /\ work = "sales" => S!DeliveredAsGone
                    /\ work = "rewrites" => D!DeliveredAsGone
InvoicedAsPosted == Sold(D!InvoicedAsPosted, I!InvoicedAsPosted)
InvoicedHasLeft  == Sold(D!InvoicedHasLeft, I!InvoicedHasLeft)
OneNumber        == S!OneNumber
=============================================================================
