---------------------------- MODULE StockLedger ----------------------------
(***************************************************************************)
(* inventory::stock::apply, the only way a quantity changes: one variant,  *)
(* its quants by location, its valuation layers, the cost its item         *)
(* carries, and the journals its moves file.                               *)
(*                                                                         *)
(* A move is a session.  It reads the item on the pool, opens a            *)
(* transaction, works out what the move is worth (locking the layers it    *)
(* may spend), locks and rewrites the quant it takes from and then the one *)
(* it puts to, settles the layers and the cost, has the journal posted and *)
(* commits.  The ledger commits in a transaction of its own.  Sessions     *)
(* interleave between statements (READ COMMITTED).  A quant of nothing is  *)
(* a row that does not exist, and a row that does not exist is not locked. *)
(***************************************************************************)
EXTENDS Integers, FiniteSets, Sums

CONSTANTS
    Internal,    \* locations of ours that hold stock on hand
    Transit,     \* ours, and on a lorry
    Outside,     \* vendors, customers, inventory loss
    Quantities,  \* what one move may carry
    Prices,      \* what a unit may cost
    Method,      \* the category's costing method
    Sessions,    \* moves that may run at once
    MaxMoves,    \* bound: how many moves may open a transaction
    Item,        \* the item's row
    Nil          \* no session

Owned     == Internal \cup Transit
Locations == Owned \cup Outside
Ids       == 1..MaxMoves

ASSUME StockAssumption ==
    /\ Owned \cap Outside = {}
    /\ Internal \cap Transit = {}
    /\ Item \notin Locations
    /\ Nil \notin Sessions
    /\ Quantities \subseteq Nat \ {0}
    /\ Prices \subseteq Nat
    /\ Method \in {"fifo", "average", "standard"}
    /\ MaxMoves \in Nat

VARIABLES
    quant,     \* the committed quantity at each location, 0 for no row
    layers,    \* the committed valuation layer each move opened
    cost,      \* the item's cost: the receipts blended into it
    moved,     \* the committed moves
    journals,  \* the committed journals: a move and what it added to our stock accounts
    begun,     \* how many moves have opened a transaction
    holder,    \* who holds each quant's row and the item's
    session,   \* where each move has got to
    costing    \* what each move is worth, and what it will do to the layers

stock == <<quant, layers, cost, moved>>
vars  == <<quant, layers, cost, moved, journals, begun, holder, session, costing>>

-----------------------------------------------------------------------------
NoLayer == [qty |-> 0, left |-> 0, price |-> 0]

\* at names the statement a move has reached; left and arrived are what it is
\* to write at its two ends.
Idle ==
    [at |-> "idle", id |-> 0, from |-> Nil, to |-> Nil, qty |-> 0, left |-> 0, arrived |-> 0]

\* price and seen are the unit cost and the item's cost the request read; open the
\* layers it found, rows those it has locked, takes what it spends of each; worth
\* the value of what it carries, blend the cost it is to write on the item.
Uncosted ==
    [price |-> 0, seen |-> {}, open |-> {}, rows |-> {}, takes |-> [i \in Ids |-> 0],
     worth |-> 0, blend |-> {}]

ValueIn(s)  == session[s].from \notin Owned /\ session[s].to \in Owned
ValueOut(s) == session[s].from \in Owned /\ session[s].to \notin Owned

\* posting_roles: the two ends stand for different accounts, and there is value.
Posts(s) ==
    /\ costing[s].worth > 0
    /\ ~({session[s].from, session[s].to} \subseteq Internal)
    /\ ~({session[s].from, session[s].to} \subseteq Transit)

OnHand     == SumOf(quant, Internal)
Left       == [i \in Ids |-> layers[i].left]
OpenLayers == {i \in Ids : layers[i].left > 0}

LayersFree(S, s) == \A t \in Sessions \ {s} : costing[t].rows \cap S = {}
RowFree(r, s)    == holder[r] \in {Nil, s}

\* consume_fifo: what an issue of q takes from layer i of the layers S, each
\* giving all it has left before the next younger one is touched.
Taken(S, q, i) ==
    LET older == SumOf(Left, {j \in S : j < i})
    IN  Min({layers[i].left, Max({q - older, 0})})

Covered(S, q) == SumOf(Left, S) >= q

\* weighted_average: a receipt into nothing starts the average over.
Blended(onHand, current, id) == IF onHand > 0 THEN current \cup {id} ELSE {id}

Init ==
    /\ quant = [l \in Locations |-> 0]
    /\ layers = [i \in Ids |-> NoLayer]
    /\ cost = {}
    /\ moved = {}
    /\ journals = {}
    /\ begun = 0
    /\ holder = [r \in Locations \cup {Item} |-> Nil]
    /\ session = [s \in Sessions |-> Idle]
    /\ costing = [s \in Sessions |-> Uncosted]

-----------------------------------------------------------------------------
\* The request has been checked and its item and locations read; nothing is
\* locked.  check_ends: two different places, one of them ours.
Request(s, f, t, q, p) ==
    /\ session[s].at = "idle"
    /\ begun < MaxMoves
    /\ f # t
    /\ {f, t} \cap Owned # {}
    /\ session' = [session EXCEPT ![s] =
         [at |-> "read", id |-> 0, from |-> f, to |-> t, qty |-> q, left |-> 0, arrived |-> 0]]
    /\ costing' = [costing EXCEPT ![s].price = p, ![s].seen = cost]
    /\ UNCHANGED <<stock, journals, begun, holder>>

Goto(s, at) == session' = [session EXCEPT ![s].at = at]

\* The transaction opens; created_at, and so the age of a layer, is fixed here.
Open(s, at) ==
    /\ session[s].at = "read"
    /\ begun < MaxMoves
    /\ begun' = begun + 1
    /\ session' = [session EXCEPT ![s].at = at, ![s].id = begun + 1]
    /\ UNCHANGED <<stock, journals, holder>>

StandingValue(s) == session[s].qty * costing[s].price

\* cost, for value coming in: an average is blended over what is on hand now
\* with the cost the request read.
CostReceipt(s) ==
    /\ ValueIn(s)
    /\ Open(s, "costed")
    /\ costing' = [costing EXCEPT ![s].worth = StandingValue(s),
         ![s].blend = IF Method = "average" THEN Blended(OnHand, costing[s].seen, begun + 1) ELSE {}]

\* cost, for value that only changes shelves.
CostTransfer(s) ==
    /\ ~ValueIn(s) /\ ~ValueOut(s)
    /\ Open(s, "costed")
    /\ costing' = [costing EXCEPT ![s].worth = StandingValue(s)]

\* cost, for value going out: open_layers fixes which layers it will lock...
LookAtLayers(s) ==
    /\ ValueOut(s)
    /\ Open(s, "layers")
    /\ costing' = [costing EXCEPT ![s].open = OpenLayers]

\* What an issue of q spends of the layers S, nothing where they fall short.
Spent(S, q) == [i \in Ids |-> IF i \in S /\ Covered(S, q) THEN Taken(S, q, i) ELSE 0]
PriceOf(S, q) == SumOf([i \in S |-> Spent(S, q)[i] * layers[i].price], S)

Spend(s, S, locked, value) ==
    /\ session[s].at = "layers"
    /\ Method = "fifo" => Covered(S, session[s].qty)
    /\ Goto(s, "costed")
    /\ costing' = [costing EXCEPT
         ![s].rows = locked, ![s].takes = Spent(S, session[s].qty), ![s].worth = value]
    /\ UNCHANGED <<stock, journals, begun, holder>>

\* Mutant: open_layers loses its FOR UPDATE.
LockLayersNot(s) ==
    LET S == costing[s].open \cap OpenLayers
    IN  Spend(s, S, {}, PriceOf(S, session[s].qty))

\* Mutant: an issue under FIFO is valued at the item's standing cost.
LockLayersStanding(s) ==
    LET S == costing[s].open \cap OpenLayers
    IN  LayersFree(costing[s].open, s) /\ Spend(s, S, S, StandingValue(s))

\* ...and waits for them all, oldest first, so that nobody holds some of them
\* and waits for another who does: one step.  A layer emptied meanwhile is no
\* longer open, one opened meanwhile is not among them.  Where they do not
\* cover the issue FIFO refuses it and the other methods spend nothing.
LockLayers(s) ==
    LET S == costing[s].open \cap OpenLayers
    IN  /\ LayersFree(costing[s].open, s)
        /\ Spend(s, S, S, IF Method = "fifo" THEN PriceOf(S, session[s].qty)
                          ELSE StandingValue(s))

-----------------------------------------------------------------------------
\* shift.  quant::lock answers the row, and holds it, or answers nothing; the
\* row it waited for may have been deleted by the one who held it.
Lock(s, l, next) ==
    /\ \/ quant[l] # 0 /\ RowFree(l, s) /\ holder' = [holder EXCEPT ![l] = s]
       \/ quant[l] = 0 /\ UNCHANGED holder
    /\ session' = [session EXCEPT ![s] = next]
    /\ UNCHANGED <<stock, journals, begun, costing>>

\* Mutant: take has no floor.
LockSourceAnyway(s) ==
    /\ session[s].at = "costed"
    /\ Lock(s, session[s].from, [session[s] EXCEPT
         !.at = "taken", !.left = quant[session[s].from] - session[s].qty])

LockSource(s) ==
    /\ session[s].at = "costed"
    /\ session[s].from \in Owned => quant[session[s].from] >= session[s].qty
    /\ Lock(s, session[s].from, [session[s] EXCEPT
         !.at = "taken", !.left = quant[session[s].from] - session[s].qty])

\* quant::write on a row that is held, or the INSERT of one that was not there:
\* the unique index makes it wait for another's INSERT, and refuse if a row has
\* appeared since the lock answered nothing.
WriteAt(s, l, at) ==
    /\ RowFree(l, s)
    /\ holder[l] # s => quant[l] = 0
    /\ holder' = [holder EXCEPT ![l] = s]
    /\ Goto(s, at)
    /\ UNCHANGED <<stock, journals, begun, costing>>

WriteSource(s) == session[s].at = "taken" /\ WriteAt(s, session[s].from, "source")

LockTarget(s) ==
    /\ session[s].at = "source"
    /\ Lock(s, session[s].to, [session[s] EXCEPT
         !.at = "put", !.arrived = quant[session[s].to] + session[s].qty])

\* Mutant: an INSERT that overwrites the row it meets.
WriteTargetUpsert(s) ==
    /\ session[s].at = "put"
    /\ RowFree(session[s].to, s)
    /\ holder' = [holder EXCEPT ![session[s].to] = s]
    /\ Goto(s, "shifted")
    /\ UNCHANGED <<stock, journals, begun, costing>>

WriteTarget(s) == session[s].at = "put" /\ WriteAt(s, session[s].to, "shifted")

\* settle: the layer is its own row and the spent layers are held already; the
\* item's row is locked where an average is written back.
Settle(s) ==
    /\ session[s].at = "shifted"
    /\ Goto(s, "settled")
    /\ IF costing[s].blend = {} THEN UNCHANGED holder
       ELSE RowFree(Item, s) /\ holder' = [holder EXCEPT ![Item] = s]
    /\ UNCHANGED <<stock, journals, begun, costing>>

\* post: the ledger commits the journal in a transaction of its own.
Post(s) ==
    LET net == IF ValueIn(s) THEN costing[s].worth
               ELSE IF ValueOut(s) THEN 0 - costing[s].worth ELSE 0
    IN  /\ session[s].at = "settled"
        /\ journals' = IF Posts(s) THEN journals \cup {[move |-> session[s].id, value |-> net]}
                       ELSE journals
        /\ Goto(s, "posted")
        /\ UNCHANGED <<stock, begun, holder, costing>>

Release(s) ==
    /\ holder' = [r \in DOMAIN holder |-> IF holder[r] = s THEN Nil ELSE holder[r]]
    /\ session' = [session EXCEPT ![s] = Idle]
    /\ costing' = [costing EXCEPT ![s] = Uncosted]

\* The layers as a commit leaves them.
Settled(s) ==
    [i \in Ids |->
        IF i = session[s].id /\ ValueIn(s)
        THEN [qty |-> session[s].qty, left |-> session[s].qty, price |-> costing[s].price]
        ELSE [layers[i] EXCEPT !.left = @ - costing[s].takes[i]]]

Commit(s) ==
    /\ session[s].at = "posted"
    /\ quant' = [quant EXCEPT ![session[s].from] = session[s].left,
                             ![session[s].to] = session[s].arrived]
    /\ layers' = Settled(s)
    /\ cost' = IF costing[s].blend = {} THEN cost ELSE costing[s].blend
    /\ moved' = moved \cup {session[s].id}
    /\ Release(s)
    /\ UNCHANGED <<journals, begun>>

\* A refusal, a duplicate key, a deadlock's victim, a closed period, a lost
\* connection: the transaction is rolled back, and the ledger's is not.
Fail(s) ==
    /\ session[s].at # "idle"
    /\ Release(s)
    /\ UNCHANGED <<stock, journals, begun>>

Step(s) ==
    \/ \E f, t \in Locations, q \in Quantities, p \in Prices : Request(s, f, t, q, p)
    \/ CostReceipt(s) \/ CostTransfer(s) \/ LookAtLayers(s) \/ LockLayers(s)
    \/ LockSource(s) \/ WriteSource(s) \/ LockTarget(s) \/ WriteTarget(s)
    \/ Settle(s) \/ Post(s) \/ Commit(s) \/ Fail(s)

Next == \E s \in Sessions : Step(s)

Spec == Init /\ [][Next]_vars

-----------------------------------------------------------------------------
\* Every variable holds what its rows can hold: no layer is spent below nothing
\* or beyond what it brought (the CHECK on valuation_layers), a lock is held by
\* a move that is under way, and a move never holds a layer another one holds.
TypeOK ==
    /\ quant \in [Locations -> Int]
    /\ \A i \in Ids : layers[i] \in [qty : Nat, left : 0..layers[i].qty, price : Nat]
    /\ cost \subseteq Ids /\ moved \subseteq Ids
    /\ \A j \in journals : j.move \in Ids /\ j.value \in Int
    /\ begun \in 0..MaxMoves
    /\ holder \in [Locations \cup {Item} -> Sessions \cup {Nil}]
    /\ \A r \in DOMAIN holder : holder[r] # Nil => session[holder[r]].at # "idle"
    /\ \A s \in Sessions : LayersFree(costing[s].rows, s)

\* "Negative stock is refused, and it is not a setting": no interleaving of
\* receipts, issues and transfers leaves one of our own locations holding less
\* than nothing, though shift checks the floor in one statement and writes in
\* another.
OwnedNeverNegative == \A l \in Owned : quant[l] >= 0

\* Seen from outside, concurrent moves happen one at a time and whole: each
\* takes its quantity off one place and puts it down in another, and none is
\* lost under another's write.
Book == INSTANCE StockBook WITH onHand <- quant
BookSpec == Book!Spec

\* "remaining is a quantity and is kept accurate under all three methods": what
\* the layers have left is what our locations hold.
LayersInStep == SumOf(Left, Ids) = SumOf(quant, Owned)

\* Under FIFO the stock accounts, as the journals of the moves that happened
\* leave them, come to what the open layers cost: no unit is charged twice or
\* charged at the price of another's layer.
StockAccountAgrees ==
    SumOf([j \in journals |-> j.value], {j \in journals : j.move \in moved})
        = SumOf([i \in Ids |-> layers[i].left * layers[i].price], Ids)

\* "There is no state in which the shelf changed and the stock account did not":
\* a journal stands for a move that happened, or is about to.
NoJournalWithoutMove ==
    \A j \in journals : j.move \in moved \/ \E s \in Sessions : session[s].id = j.move

\* "What the running average is blended over": a receipt of which nothing has
\* been issued yet is part of the item's average cost.
AverageCoversStock ==
    \A i \in Ids : layers[i].qty > 0 /\ layers[i].left = layers[i].qty => i \in cost
=============================================================================
