-------------------------- MODULE PurchasingProofs --------------------------
(***************************************************************************)
(* What holds of a purchase order and its receipts for any number of       *)
(* requests, receipts and lines: their types, that a confirmed order stays *)
(* a commitment, that posting a receipt again moves no line again, that    *)
(* the order counts what the shelf got, and that it closes.                *)
(***************************************************************************)
EXTENDS Purchasing, SumsProofs

\* The next line to move is one that has something to move.
LEMMA FirstLoaded ==
    ASSUME LastLine \in Nat, NEW load \in [Lines -> Nat], load # Nothing
    PROVE  First(load) \in Lines /\ load[First(load)] > 0
  <1> DEFINE T == {l \in Lines : load[l] > 0}
  <1>1. T \in SUBSET Nat
    BY DEF Lines
  <1>2. T # {}
    <2> SUFFICES ASSUME T = {} PROVE load = Nothing
      OBVIOUS
    <2>1. \A l \in Lines : load[l] = 0
      OBVIOUS
    <2> QED  BY <2>1 DEF Nothing
  <1>3. PICK l \in T : \A k \in T : l <= k
    BY <1>1, <1>2, LeastNumber
  <1>4. l \in Lines /\ load[l] > 0 /\ \A k \in Lines : load[k] > 0 => l <= k
    BY <1>3
  <1> QED  BY <1>4 DEF First

\* A request that posts or has posted has a receipt, and what it moved last is
\* one of its lines.
Working(q) ==
    /\ q.at \in Posting \cup {"settle"} => q.receipt \in Receipts
    /\ q.at = "moved" => q.now \in Lines

\* The constraint of the table, which the code leaves to it.
NumberedWhenConfirmed == order.numbered <=> order.state \in Numbered

TypeInv == TypeOK /\ (\A c \in Clerks : Working(clerk[c])) /\ NumberedWhenConfirmed

LEMMA InitTypeInv == Sensible /\ Init => TypeInv
  <1> SUFFICES ASSUME Sensible, Init PROVE TypeInv
    OBVIOUS
  <1>1. Nothing \in [Lines -> Nat]
    BY DEF Nothing
  <1>2. NoOrder \in Orders /\ NoPaper \in Papers
    BY <1>1 DEF NoOrder, Orders, OrderStates, NoPaper, Papers, ReceiptStates
  <1>3. Free \in Requests /\ Working(Free)
    BY <1>1 DEF Free, Requests, Working, Posting
  <1>4. TypeOK
    BY <1>1, <1>2, <1>3 DEF Init, TypeOK
  <1> QED  BY <1>3, <1>4 DEF Init, TypeInv, NumberedWhenConfirmed, NoOrder, Numbered

\* What the steps make of an order is an order, of the numbered ones only those
\* the constraint allows.
LEMMA OrderTyped ==
    ASSUME NEW o \in Orders
    PROVE  /\ \A s \in OrderStates : [o EXCEPT !.state = s] \in Orders
           /\ \A q \in [Lines -> Nat] :
                [NoOrder EXCEPT !.state = "draft", !.ordered = q] \in Orders
           /\ \A q, f \in [Lines -> Nat] :
                [o EXCEPT !.edition = o.edition + 1, !.ordered = q, !.received = f] \in Orders
           /\ \A s \in OrderStates, n \in BOOLEAN :
                [o EXCEPT !.state = s, !.numbered = n] \in Orders
           /\ \A l \in Lines, n \in Nat :
                [o EXCEPT !.received[l] = o.received[l] + n] \in Orders
  <1>1. \A l \in Lines, n \in Nat : [o.received EXCEPT ![l] = o.received[l] + n] \in [Lines -> Nat]
    BY DEF Orders
  <1>2. \A f \in [Lines -> Nat] : [o EXCEPT !.received = f] \in Orders
    BY DEF Orders
  <1>3. \A l \in Lines, n \in Nat :
          [o EXCEPT !.received[l] = o.received[l] + n]
             = [o EXCEPT !.received = [o.received EXCEPT ![l] = o.received[l] + n]]
    BY DEF Orders
  <1>4. \A l \in Lines, n \in Nat : [o EXCEPT !.received[l] = o.received[l] + n] \in Orders
    BY <1>1, <1>2, <1>3
  <1>5. /\ \A s \in OrderStates : [o EXCEPT !.state = s] \in Orders
        /\ \A s \in OrderStates, n \in BOOLEAN :
             [o EXCEPT !.state = s, !.numbered = n] \in Orders
    BY DEF Orders
  <1>6. \A q, f \in [Lines -> Nat] :
          [o EXCEPT !.edition = o.edition + 1, !.ordered = q, !.received = f] \in Orders
    <2>1. o.edition + 1 \in Nat
      BY DEF Orders
    <2>2. \A n \in Nat, q, f \in [Lines -> Nat] :
            [o EXCEPT !.edition = n, !.ordered = q, !.received = f] \in Orders
      BY DEF Orders
    <2> QED  BY <2>1, <2>2
  <1>7. \A q \in [Lines -> Nat] : [NoOrder EXCEPT !.state = "draft", !.ordered = q] \in Orders
    <2>1. Nothing \in [Lines -> Nat]
      BY DEF Nothing
    <2> QED  BY <2>1 DEF Orders, NoOrder, OrderStates
  <1> QED  BY <1>4, <1>5, <1>6, <1>7

\* What the steps make of a receipt is a receipt.
LEMMA PaperTyped ==
    ASSUME NEW p \in Papers
    PROVE  /\ \A s \in ReceiptStates : [p EXCEPT !.state = s] \in Papers
           /\ \A l \in Lines : [p EXCEPT !.moved = p.moved \cup {l}] \in Papers
           /\ \A q \in [Lines -> Nat] :
                [state |-> "draft", edition |-> p.edition + 1, quantity |-> q, moved |-> {}]
                  \in Papers
  BY DEF Papers, ReceiptStates

\* What the steps make of a request is a request.
LEMMA RequestTyped ==
    ASSUME NEW q \in Requests
    PROVE  /\ \A step \in {"number", "settle"} \cup Setting : [q EXCEPT !.at = step] \in Requests
           /\ \A step \in Setting \cup {"save"}, load \in [Lines -> Nat] :
                [Free EXCEPT !.at = step, !.load = load] \in Requests
           /\ \A l \in Lines : [q EXCEPT !.at = "moved", !.now = l] \in Requests
           /\ \A l \in Lines :
                [q EXCEPT !.at = "move", !.now = NoLine, !.load[l] = 0] \in Requests
           /\ \A r \in Receipts, e, a \in Nat, load \in [Lines -> Nat] :
                [Free EXCEPT !.at = "move", !.receipt = r, !.edition = e, !.against = a,
                             !.load = load] \in Requests
           /\ \A r \in Receipts : [Free EXCEPT !.at = "settle", !.receipt = r] \in Requests
           /\ Free \in Requests
  <1> USE DEF Requests, Posting, Setting
  <1>1. Nothing \in [Lines -> Nat]
    BY DEF Nothing
  <1>2. \A step \in {"number", "settle"} \cup Setting : [q EXCEPT !.at = step] \in Requests
    OBVIOUS
  <1>3. \A l \in Lines : [q EXCEPT !.at = "moved", !.now = l] \in Requests
    OBVIOUS
  <1>4. \A l \in Lines : [q EXCEPT !.at = "move", !.now = NoLine, !.load[l] = 0] \in Requests
    OBVIOUS
  <1>5. \A r \in Receipts, e, a \in Nat, load \in [Lines -> Nat] :
          [Free EXCEPT !.at = "move", !.receipt = r, !.edition = e, !.against = a,
                       !.load = load] \in Requests
    BY DEF Free
  <1>6. /\ \A r \in Receipts : [Free EXCEPT !.at = "settle", !.receipt = r] \in Requests
        /\ Free \in Requests
    BY <1>1 DEF Free
  <1>7. \A step \in Setting \cup {"save"}, load \in [Lines -> Nat] :
          [Free EXCEPT !.at = step, !.load = load] \in Requests
    BY DEF Free
  <1> QED  BY <1>2, <1>3, <1>4, <1>5, <1>6, <1>7

\* A request that goes from one step to the next is still one that works.
LEMMA ClerkTyped ==
    ASSUME clerk \in [Clerks -> Requests], \A d \in Clerks : Working(clerk[d]),
           NEW c \in Clerks, NEW q \in Requests, Working(q),
           clerk' = [clerk EXCEPT ![c] = q]
    PROVE  clerk' \in [Clerks -> Requests] /\ \A d \in Clerks : Working(clerk'[d])
  <1>1. clerk' \in [Clerks -> Requests]
    OBVIOUS
  <1>2. \A d \in Clerks : clerk'[d] \in {q, clerk[d]}
    OBVIOUS
  <1> QED  BY <1>1, <1>2, Zenon

\* The order's part of the invariant.
OrderInv == order \in Orders /\ NumberedWhenConfirmed

\* The constraint holds behind every change of the order.
LEMMA NextOrder == Sensible /\ TypeInv /\ [Next]_vars => OrderInv'
  <1> SUFFICES ASSUME Sensible, TypeInv, [Next]_vars PROVE OrderInv'
    OBVIOUS
  <1>0. order \in Orders /\ OrderInv /\ order.state \in OrderStates /\ order.numbered \in BOOLEAN
    BY DEF TypeInv, TypeOK, OrderInv, Orders
  <1> USE DEF OrderInv, NumberedWhenConfirmed, Numbered, OrderStates
  <1>1. ASSUME NEW q \in Plans, OrderCreate(q) PROVE OrderInv'
    <2>1. q \in [Lines -> Nat]
      BY DEF Sensible
    <2>2. order' = [NoOrder EXCEPT !.state = "draft", !.ordered = q]
      BY <1>1 DEF OrderCreate
    <2>3. order' \in Orders
      BY <1>0, <2>1, <2>2, OrderTyped
    <2>4. order'.state = "draft" /\ order'.numbered = FALSE
      BY <2>2 DEF NoOrder
    <2> QED  BY <2>3, <2>4
  <1>2. CASE Confirm
    <2>1. order' = [order EXCEPT !.state = "confirmed", !.numbered = TRUE]
      BY <1>2 DEF Confirm
    <2>2. order' \in Orders
      BY <1>0, <2>1, OrderTyped
    <2>3. order'.state = "confirmed" /\ order'.numbered = TRUE
      BY <1>0, <2>1 DEF Orders
    <2> QED  BY <2>2, <2>3
  <1>3. CASE OrderDelete
    <2>1. order' = [NoOrder EXCEPT !.state = "gone"] /\ Nothing \in [Lines -> Nat]
      BY <1>3 DEF OrderDelete, Nothing
    <2>2. order' \in Orders
      BY <2>1 DEF Orders, NoOrder
    <2> QED  BY <2>1, <2>2 DEF NoOrder
  <1>4. ASSUME NEW c \in Clerks, SetState(c) PROVE OrderInv'
    <2>1. CASE UNCHANGED order
      BY <1>0, <2>1
    <2>2. CASE order' # order
      <3>1. PICK s \in {"sent", "cancelled", "done"} :
               Allows(s) /\ order' = [order EXCEPT !.state = s]
        BY <1>4, <2>2 DEF SetState, Setting
      <3>2. order' \in Orders
        BY <1>0, <3>1, OrderTyped
      <3>3. order'.state = s /\ order'.numbered = order.numbered
        BY <1>0, <3>1 DEF Orders
      <3> QED  BY <3>1, <3>2, <3>3 DEF Allows
    <2> QED  BY <2>1, <2>2
  <1>5. ASSUME NEW c \in Clerks, RecordMove(c), order' # order PROVE OrderInv'
    <2>1. PICK l \in Lines, n \in Nat :
            order' = [order EXCEPT !.received[l] = order.received[l] + n]
      <3>1. clerk[c].now \in Lines
        BY <1>5 DEF RecordMove, TypeInv, Working
      <3>2. clerk[c].load[clerk[c].now] \in Nat
        BY <3>1 DEF TypeInv, TypeOK, Requests
      <3>3. order' = [order EXCEPT !.received[clerk[c].now] =
                        order.received[clerk[c].now] + clerk[c].load[clerk[c].now]]
        BY <1>5 DEF RecordMove
      <3> QED  BY <3>1, <3>2, <3>3
    <2>2. order' \in Orders
      BY <1>0, <2>1, OrderTyped
    <2>3. order'.state = order.state /\ order'.numbered = order.numbered
      BY <1>0, <2>1 DEF Orders
    <2> QED  BY <1>0, <2>2, <2>3
  <1>6. CASE UNCHANGED order
    BY <1>0, <1>6
  <1>7. ASSUME NEW c \in Clerks, Act(c), ~SetState(c), ~RecordMove(c),
               ~\E q \in Plans, kept \in SUBSET Lines : OrderSave(c, q, kept)
        PROVE  UNCHANGED order
    BY <1>7 DEF Act, Intend, BeginPost, Move, Moved, Post, Settle, Refused
  <1>12. ASSUME NEW c \in Clerks, NEW q \in Plans, NEW kept \in SUBSET Lines,
                OrderSave(c, q, kept), order' # order
         PROVE  OrderInv'
    <2> DEFINE f == [l \in Lines |-> IF l \in kept /\ q[l] > 0 THEN clerk[c].load[l] ELSE 0]
    <2>1. q \in [Lines -> Nat] /\ f \in [Lines -> Nat]
      BY DEF Sensible, TypeInv, TypeOK, Requests
    <2>2. order' = [order EXCEPT !.edition = order.edition + 1, !.ordered = q, !.received = f]
      BY <1>12 DEF OrderSave
    <2>3. order' \in Orders
      BY <1>0, <2>1, <2>2, OrderTyped
    <2>4. order'.state = order.state /\ order'.numbered = order.numbered
      BY <1>0, <2>2 DEF Orders
    <2> QED  BY <1>0, <2>3, <2>4
  <1>8. ASSUME NEW c \in Clerks, Stops(c) PROVE UNCHANGED order
    BY <1>8 DEF Stops
  <1>9. ASSUME NEW r \in Receipts, NEW q \in Plans, ReceiptSave(r, q) PROVE UNCHANGED order
    BY <1>9 DEF ReceiptSave
  <1>10. ASSUME NEW r \in Receipts, NEW how, ReceiptWithdraw(r, how) PROVE UNCHANGED order
    BY <1>10 DEF ReceiptWithdraw
  <1>11. CASE UNCHANGED vars
    BY <1>6, <1>11 DEF vars
  <1> HIDE DEF OrderInv
  <1>13. ASSUME NEW c \in Clerks, Act(c) PROVE OrderInv'
    BY <1>4, <1>5, <1>6, <1>7, <1>12, <1>13
  <1> QED  BY <1>1, <1>2, <1>3, <1>6, <1>8, <1>9, <1>10, <1>11, <1>13 DEF Next

\* The history only grows, and keeps its shape.
LEMMA NextSlips ==
    ASSUME TypeOK, [Next]_vars
    PROVE  /\ slips' \in [Receipts -> SUBSET Slips]
           /\ \A r \in Receipts : slips[r] \subseteq slips'[r]
  <1> USE DEF TypeOK, Slips
  <1>1. ASSUME NEW r \in Receipts, NEW kind \in Slips, NEW when, Slip(r, kind, when)
        PROVE  /\ slips' \in [Receipts -> SUBSET Slips]
               /\ \A q \in Receipts : slips[q] \subseteq slips'[q]
    BY <1>1 DEF Slip
  <1>2. CASE UNCHANGED slips
    BY <1>2
  <1>3. ASSUME NEW r \in Receipts, NEW q \in Plans, ReceiptSave(r, q)
        PROVE  Slip(r, "changed", PostersOf(r) # {} \/ stock[r] # Nothing)
    BY <1>3 DEF ReceiptSave
  <1>4. ASSUME NEW r \in Receipts, NEW how, ReceiptWithdraw(r, how)
        PROVE  Slip(r, "changed", PostersOf(r) # {} \/ stock[r] # Nothing)
    BY <1>4 DEF ReceiptWithdraw
  <1>5. ASSUME NEW c \in Clerks, Act(c)
        PROVE  \/ UNCHANGED slips \/ LinesGo
               \/ \E r \in Receipts : Slip(r, "raced", PostersOf(r) # {})
               \/ Slip(clerk[c].receipt, "astray", ~Lands(c))
               \/ Slip(clerk[c].receipt, "early", order.state \notin Numbered)
    BY <1>5 DEF Act, Intend, OrderSave, SetState, BeginPost, Move, RecordMove, Moved, Post, Settle,
                Refused
  <1>6. ASSUME NEW c \in Clerks, Stops(c)
        PROVE  /\ slips' \in [Receipts -> SUBSET Slips]
               /\ \A q \in Receipts : slips[q] \subseteq slips'[q]
    <2>1. PICK more \in SUBSET Slips : \/ UNCHANGED slips
                                      \/ slips' = [slips EXCEPT ![clerk[c].receipt] = @ \cup more]
      <3>1. CASE clerk[c].receipt = "none"
        BY <1>6, <3>1 DEF Stops
      <3>2. CASE clerk[c].receipt # "none"
        <4> DEFINE m == (IF clerk[c].at = "moved" THEN {"lost"} ELSE {})
                           \cup (IF clerk[c].at \in {"settle", "close"} THEN {"unsettled"} ELSE {})
        <4>1. m \in SUBSET Slips
          OBVIOUS
        <4>2. slips' = [slips EXCEPT ![clerk[c].receipt] =
                 @ \cup (IF clerk[c].at = "moved" THEN {"lost"} ELSE {})
                   \cup (IF clerk[c].at \in {"settle", "close"} THEN {"unsettled"} ELSE {})]
          BY <1>6, <3>2 DEF Stops
        <4>3. slips' = [slips EXCEPT ![clerk[c].receipt] = @ \cup m]
          BY <4>2
        <4> QED  BY <4>1, <4>3
      <3> QED  BY <3>1, <3>2
    <2> QED  BY <2>1
  <1>7. CASE Confirm \/ UNCHANGED vars
    BY <1>2, <1>7 DEF Confirm, vars
  <1>8. ASSUME NEW q \in Plans, OrderCreate(q) PROVE UNCHANGED slips
    BY <1>8 DEF OrderCreate
  <1>9. ASSUME LinesGo
        PROVE  /\ slips' \in [Receipts -> SUBSET Slips]
               /\ \A q \in Receipts : slips[q] \subseteq slips'[q]
    BY <1>9 DEF LinesGo
  <1>10. ASSUME NEW r, NEW kind \in Slips, NEW when, Slip(r, kind, when)
         PROVE  /\ slips' \in [Receipts -> SUBSET Slips]
                /\ \A q \in Receipts : slips[q] \subseteq slips'[q]
    BY <1>10 DEF Slip
  <1>11. OrderDelete => LinesGo
    BY DEF OrderDelete
  <1>12. ASSUME NEW c \in Clerks, Act(c)
         PROVE  /\ slips' \in [Receipts -> SUBSET Slips]
                /\ \A q \in Receipts : slips[q] \subseteq slips'[q]
    BY <1>2, <1>5, <1>9, <1>10, <1>12
  <1> QED  BY <1>1, <1>2, <1>3, <1>4, <1>6, <1>7, <1>8, <1>9, <1>11, <1>12 DEF Next

\* Requests keep their shape, and those that post their receipt and line.
ClerksInv == clerk \in [Clerks -> Requests] /\ \A c \in Clerks : Working(clerk[c])

LEMMA NextClerks ==
    ASSUME Sensible, TypeInv, [Next]_vars
    PROVE  ClerksInv'
  <1>0. ClerksInv
    BY DEF TypeInv, TypeOK, ClerksInv
  <1>1. ASSUME NEW c \in Clerks, NEW q \in Requests, Working(q),
               clerk' = [clerk EXCEPT ![c] = q]
        PROVE  ClerksInv'
    BY <1>0, <1>1, ClerkTyped DEF ClerksInv
  <1>2. CASE UNCHANGED clerk
    BY <1>0, <1>2 DEF ClerksInv
  <1>3. Free \in Requests /\ Working(Free)
    <2>1. Nothing \in [Lines -> Nat]
      BY DEF Nothing
    <2> QED  BY <2>1 DEF Free, Requests, Working, Posting
  <1>4. ASSUME NEW c \in Clerks, clerk' = [clerk EXCEPT ![c] = Free] PROVE ClerksInv'
    BY <1>1, <1>3, <1>4
  <1>5. ASSUME NEW c \in Clerks, Act(c) PROVE ClerksInv'
    <2>0. clerk[c] \in Requests /\ Working(clerk[c])
      BY <1>0 DEF ClerksInv
    <2>1. ASSUME NEW step \in Setting \cup {"save"}, Intend(c, step) PROVE ClerksInv'
      <3> DEFINE load == IF step = "save" THEN order.received ELSE Nothing
                 q == [Free EXCEPT !.at = step, !.load = load]
      <3>1. load \in [Lines -> Nat]
        BY DEF Nothing, TypeInv, TypeOK, Orders
      <3>2. q \in Requests
        BY <2>0, <3>1, RequestTyped
      <3>3. Working(q)
        BY DEF Working, Free, Setting, Posting
      <3>4. clerk' = [clerk EXCEPT ![c] = q]
        BY <2>1 DEF Intend
      <3> QED  BY <1>1, <3>2, <3>3, <3>4
    <2>10. ASSUME NEW q \in Plans, NEW kept \in SUBSET Lines, OrderSave(c, q, kept)
           PROVE  ClerksInv'
      BY <1>4, <2>10 DEF OrderSave
    <2>2. CASE SetState(c)
      BY <1>4, <2>2 DEF SetState
    <2>3. ASSUME NEW r \in Receipts, BeginPost(c, r) PROVE ClerksInv'
      <3> DEFINE load == [l \in Lines |-> IF l \in receipt[r].moved THEN 0
                                          ELSE receipt[r].quantity[l]]
                 q == [Free EXCEPT !.at = "move", !.receipt = r,
                                   !.edition = receipt[r].edition,
                                   !.against = order.edition, !.load = load]
      <3>1. receipt[r].edition \in Nat /\ order.edition \in Nat /\ load \in [Lines -> Nat]
        BY DEF TypeInv, TypeOK, Papers, Orders
      <3>2. q \in Requests
        BY <2>0, <3>1, RequestTyped
      <3>3. Working(q)
        BY DEF Working, Free, Posting
      <3>4. clerk' = [clerk EXCEPT ![c] = q]
        BY <2>3 DEF BeginPost
      <3> QED  BY <1>1, <3>2, <3>3, <3>4
    <2>4. CASE Move(c)
      <3> DEFINE l == First(clerk[c].load)
                 q == [clerk[c] EXCEPT !.at = "moved", !.now = l]
      <3>1. l \in Lines
        BY <2>0, <2>4, FirstLoaded DEF Move, Requests, Sensible
      <3>2. q \in Requests
        BY <2>0, <3>1, RequestTyped
      <3>3. Working(q)
        BY <2>0, <2>4, <3>1 DEF Working, Move, Posting, Requests
      <3>4. clerk' = [clerk EXCEPT ![c] = q]
        BY <1>0, <2>4 DEF Move, ClerksInv
      <3> QED  BY <1>1, <3>2, <3>3, <3>4
    <2>5. CASE RecordMove(c)
      <3> DEFINE l == clerk[c].now
                 q == [clerk[c] EXCEPT !.at = "move", !.now = NoLine, !.load[l] = 0]
      <3>1. l \in Lines
        BY <2>0, <2>5 DEF RecordMove, Working
      <3>2. q \in Requests
        BY <2>0, <3>1, RequestTyped
      <3>3. Working(q)
        BY <2>0, <2>5 DEF Working, RecordMove, Posting, Requests
      <3>4. clerk' = [clerk EXCEPT ![c] = q]
        BY <1>0, <2>5 DEF RecordMove, ClerksInv
      <3> QED  BY <1>1, <3>2, <3>3, <3>4
    <2>6. CASE Moved(c)
      <3> DEFINE q == [clerk[c] EXCEPT !.at = "number"]
      <3>1. q \in Requests
        BY <2>0, RequestTyped
      <3>2. Working(q)
        BY <2>0, <2>6 DEF Working, Moved, Posting, Requests
      <3>3. clerk' = [clerk EXCEPT ![c] = q]
        BY <1>0, <2>6 DEF Moved, ClerksInv
      <3> QED  BY <1>1, <3>1, <3>2, <3>3
    <2>7. CASE Post(c)
      <3> DEFINE q == [Free EXCEPT !.at = "settle", !.receipt = clerk[c].receipt]
      <3>1. clerk[c].receipt \in Receipts
        BY <2>0, <2>7 DEF Post, Working, Posting
      <3>2. q \in Requests
        BY <2>0, <3>1, RequestTyped
      <3>3. Working(q)
        BY <3>1 DEF Working, Free, Posting
      <3>4. clerk' = [clerk EXCEPT ![c] = q] \/ clerk' = [clerk EXCEPT ![c] = Free]
        BY <2>7 DEF Post
      <3> QED  BY <1>1, <1>4, <3>2, <3>3, <3>4
    <2>8. CASE Settle(c)
      <3> DEFINE q == [clerk[c] EXCEPT !.at = "close"]
      <3>1. q \in Requests
        BY <2>0, RequestTyped DEF Setting
      <3>2. Working(q)
        BY <2>0, <2>8 DEF Working, Settle, Posting, Requests
      <3>3. clerk' = [clerk EXCEPT ![c] = q] \/ clerk' = [clerk EXCEPT ![c] = Free]
        BY <1>0, <2>8 DEF Settle, ClerksInv
      <3> QED  BY <1>1, <1>4, <3>1, <3>2, <3>3
    <2>9. CASE Refused(c)
      BY <1>4, <2>9 DEF Refused
    <2> QED  BY <1>5, <2>1, <2>2, <2>3, <2>4, <2>5, <2>6, <2>7, <2>8, <2>9, <2>10 DEF Act
  <1>6. ASSUME NEW c \in Clerks, Stops(c) PROVE ClerksInv'
    BY <1>4, <1>6 DEF Stops
  <1>7. ASSUME NEW r \in Receipts, NEW q \in Plans, ReceiptSave(r, q) PROVE UNCHANGED clerk
    BY <1>7 DEF ReceiptSave
  <1>8. ASSUME NEW r \in Receipts, NEW how, ReceiptWithdraw(r, how) PROVE UNCHANGED clerk
    BY <1>8 DEF ReceiptWithdraw
  <1>9. ASSUME NEW q \in Plans, OrderCreate(q) PROVE UNCHANGED clerk
    BY <1>9 DEF OrderCreate
  <1>10. CASE Confirm \/ OrderDelete \/ UNCHANGED vars
    BY <1>2, <1>10 DEF Confirm, OrderDelete, vars
  <1> QED  BY <1>2, <1>5, <1>6, <1>7, <1>8, <1>9, <1>10 DEF Next

\* Receipts, what was moved for them, and the count of deaths keep their shape.
LEMMA NextPapers ==
    ASSUME Sensible, TypeInv, [Next]_vars
    PROVE  /\ receipt' \in [Receipts -> Papers]
           /\ stock' \in [Receipts -> [Lines -> Nat]]
           /\ stops' \in Nat
  <1> DEFINE Kept == /\ receipt' \in [Receipts -> Papers]
                     /\ stock' \in [Receipts -> [Lines -> Nat]]
                     /\ stops' \in Nat
  <1>0. /\ receipt \in [Receipts -> Papers]
        /\ stock \in [Receipts -> [Lines -> Nat]]
        /\ stops \in Nat
    BY DEF TypeInv, TypeOK
  <1>1. ASSUME NEW r \in Receipts, NEW p \in Papers, receipt' = [receipt EXCEPT ![r] = p],
               UNCHANGED <<stock, stops>>
        PROVE  Kept
    BY <1>0, <1>1
  <1>2. CASE UNCHANGED <<receipt, stock, stops>>
    BY <1>0, <1>2
  <1>3. ASSUME NEW r \in Receipts, NEW q \in Plans, ReceiptSave(r, q) PROVE Kept
    <2> DEFINE p == [state |-> "draft", edition |-> receipt[r].edition + 1,
                     quantity |-> q, moved |-> {}]
    <2>1. p \in Papers
      BY <1>0, PaperTyped DEF Sensible
    <2>2. receipt' = [receipt EXCEPT ![r] = p] /\ UNCHANGED <<stock, stops>>
      BY <1>3 DEF ReceiptSave
    <2> QED  BY <1>1, <2>1, <2>2
  <1>4. ASSUME NEW r \in Receipts, NEW how \in {"cancelled", "gone"}, ReceiptWithdraw(r, how)
        PROVE  Kept
    <2> DEFINE p == [receipt[r] EXCEPT !.state = how]
    <2>1. p \in Papers
      BY <1>0, PaperTyped DEF ReceiptStates
    <2>2. receipt' = [receipt EXCEPT ![r] = p] /\ UNCHANGED <<stock, stops>>
      BY <1>0, <1>4 DEF ReceiptWithdraw
    <2> QED  BY <1>1, <2>1, <2>2
  <1>5. ASSUME NEW c \in Clerks, Move(c) PROVE Kept
    <2>1. /\ clerk[c].receipt \in Receipts
          /\ clerk[c].load \in [Lines -> Nat]
          /\ First(clerk[c].load) \in Lines
      BY <1>5, FirstLoaded DEF Move, TypeInv, TypeOK, Working, Posting, Requests, Sensible
    <2>2. stock' = [stock EXCEPT ![clerk[c].receipt][First(clerk[c].load)] =
                      @ + clerk[c].load[First(clerk[c].load)]]
      BY <1>5 DEF Move
    <2>3. stock' \in [Receipts -> [Lines -> Nat]]
      BY <1>0, <2>1, <2>2
    <2> QED  BY <1>0, <1>5, <2>3 DEF Move
  <1>6. ASSUME NEW c \in Clerks, RecordMove(c) PROVE Kept
    <2>1. clerk[c].receipt \in Receipts /\ clerk[c].now \in Lines
      BY <1>6 DEF RecordMove, TypeInv, Working, Posting
    <2> DEFINE p == [receipt[clerk[c].receipt] EXCEPT
                       !.moved = receipt[clerk[c].receipt].moved \cup {clerk[c].now}]
    <2>2. p \in Papers
      BY <1>0, <2>1, PaperTyped
    <2>3. UNCHANGED receipt \/ receipt' = [receipt EXCEPT ![clerk[c].receipt] = p]
      BY <1>0, <1>6, <2>1 DEF RecordMove, Written
    <2>4. UNCHANGED <<stock, stops>>
      BY <1>6 DEF RecordMove
    <2> QED  BY <1>1, <1>2, <2>1, <2>2, <2>3, <2>4
  <1>7. ASSUME NEW c \in Clerks, Post(c) PROVE Kept
    <2>1. clerk[c].receipt \in Receipts
      BY <1>7 DEF Post, TypeInv, Working, Posting
    <2> DEFINE p == [receipt[clerk[c].receipt] EXCEPT !.state = "done"]
    <2>2. p \in Papers
      BY <1>0, <2>1, PaperTyped DEF ReceiptStates
    <2>3. UNCHANGED receipt \/ receipt' = [receipt EXCEPT ![clerk[c].receipt] = p]
      BY <1>0, <1>7, <2>1 DEF Post
    <2>4. UNCHANGED <<stock, stops>>
      BY <1>7 DEF Post
    <2> QED  BY <1>1, <1>2, <2>1, <2>2, <2>3, <2>4
  <1>8. ASSUME NEW c \in Clerks, Act(c), ~Move(c), ~RecordMove(c), ~Post(c) PROVE Kept
    BY <1>2, <1>8 DEF Act, Intend, OrderSave, SetState, BeginPost, Moved, Settle, Refused
  <1>9. ASSUME NEW c \in Clerks, Stops(c) PROVE Kept
    <2>1. stops' \in Nat
      BY <1>0, <1>9 DEF Stops
    <2>2. UNCHANGED <<receipt, stock>>
      BY <1>9 DEF Stops
    <2> QED  BY <1>0, <2>1, <2>2
  <1>10. ASSUME NEW q \in Plans, OrderCreate(q) PROVE Kept
    BY <1>2, <1>10 DEF OrderCreate
  <1>11. ASSUME Confirm \/ OrderDelete \/ UNCHANGED vars PROVE Kept
    BY <1>2, <1>11 DEF Confirm, OrderDelete, vars
  <1> HIDE DEF Kept
  <1>12. ASSUME NEW c \in Clerks, Act(c) PROVE Kept
    BY <1>5, <1>6, <1>7, <1>8, <1>12
  <1>13. Kept
    BY <1>3, <1>4, <1>9, <1>10, <1>11, <1>12 DEF Next
  <1> QED  BY <1>13 DEF Kept

LEMMA NextTypeInv == Sensible /\ TypeInv /\ [Next]_vars => TypeInv'
  <1> SUFFICES ASSUME Sensible, TypeInv, [Next]_vars PROVE TypeInv'
    OBVIOUS
  <1>1. OrderInv'
    BY NextOrder
  <1>2. ClerksInv'
    BY NextClerks
  <1>3. slips' \in [Receipts -> SUBSET Slips]
    BY NextSlips DEF TypeInv
  <1> QED  BY <1>1, <1>2, <1>3, NextPapers DEF TypeInv, TypeOK, OrderInv, ClerksInv

-----------------------------------------------------------------------------
\* Nothing happened behind the receipt's back that its movements could show.
Clean(r)     == slips[r] \cap {"raced", "changed", "lost"} = {}
Poster(c, r) == clerk[c].at \in Posting /\ clerk[c].receipt = r
Held(c, r)   == Poster(c, r) /\ clerk[c].at = "moved"

\* The request that posts a receipt has a true copy of what is still to move;
\* its movement is the one the receipt does not know.
TrueCopy(c, r) ==
    /\ receipt[r].state = "draft"
    /\ clerk[c].edition = receipt[r].edition
    /\ \A l \in Lines : clerk[c].load[l] =
         IF l \in receipt[r].moved THEN 0 ELSE receipt[r].quantity[l]
    /\ clerk[c].at = "moved" =>
         /\ clerk[c].now \notin receipt[r].moved
         /\ stock[r][clerk[c].now] = receipt[r].quantity[clerk[c].now]
    /\ clerk[c].at = "number" => clerk[c].load = Nothing

\* A line moved once is moved and written down; only the movement in hand is not.
InStep(r) ==
    Clean(r) =>
        /\ \A c, d \in Clerks : Poster(c, r) /\ Poster(d, r) => c = d
        /\ \A c \in Clerks : Poster(c, r) => TrueCopy(c, r)
        /\ \A l \in Lines :
             (\A c \in Clerks : Held(c, r) => clerk[c].now # l)
                => stock[r][l] = IF l \in receipt[r].moved THEN receipt[r].quantity[l] ELSE 0
        /\ receipt[r].state = "done" =>
             \A l \in Lines : l \in receipt[r].moved \/ receipt[r].quantity[l] = 0

IInv == TypeInv /\ \A r \in Receipts : InStep(r)

\* A receipt that nothing but the end of a request concerns is as it was.
LEMMA Elsewhere ==
    ASSUME NEW r \in Receipts, InStep(r), slips[r] \subseteq slips'[r],
           receipt'[r] = receipt[r], stock'[r] = stock[r],
           \A c \in Clerks : \/ clerk'[c] = clerk[c]
                             \/ ~Poster(c, r)' /\ (Clean(r)' => ~Held(c, r))
    PROVE  InStep(r)'
  <1> SUFFICES ASSUME Clean(r)' PROVE InStep(r)'
    BY DEF InStep
  <1>1. Clean(r)
    BY DEF Clean
  <1>2. \A c \in Clerks : Poster(c, r)' => clerk'[c] = clerk[c] /\ Poster(c, r)
    BY DEF Poster
  <1>3. \A c \in Clerks : Held(c, r) => Held(c, r)' /\ clerk'[c] = clerk[c]
    BY DEF Poster, Held
  <1>4. \A c, d \in Clerks : Poster(c, r)' /\ Poster(d, r)' => c = d
    BY <1>1, <1>2 DEF InStep
  <1>5. \A c \in Clerks : Poster(c, r)' => TrueCopy(c, r)'
    BY <1>1, <1>2 DEF InStep, TrueCopy
  <1>6. \A l \in Lines :
          (\A c \in Clerks : Held(c, r)' => clerk'[c].now # l)
             => stock'[r][l] = IF l \in receipt'[r].moved THEN receipt'[r].quantity[l] ELSE 0
    BY <1>1, <1>3 DEF InStep
  <1>7. receipt'[r].state = "done" =>
          \A l \in Lines : l \in receipt'[r].moved \/ receipt'[r].quantity[l] = 0
    BY <1>1 DEF InStep
  <1> QED  BY <1>4, <1>5, <1>6, <1>7 DEF InStep

\* Saving or withdrawing a receipt leaves no request with a copy of it, or is
\* noted as a change behind its back.
LEMMA PaperInStep ==
    ASSUME TypeInv, \A r \in Receipts : InStep(r), \A r \in Receipts : slips[r] \subseteq slips'[r],
           NEW r \in Receipts, Slip(r, "changed", PostersOf(r) # {} \/ stock[r] # Nothing),
           \A q \in Receipts \ {r} : receipt'[q] = receipt[q],
           receipt'[r].state # "done",
           receipt'[r].moved \in {receipt[r].moved, {}},
           receipt'[r].moved # {} => receipt'[r].quantity = receipt[r].quantity,
           UNCHANGED <<stock, clerk>>
    PROVE  \A q \in Receipts : InStep(q)'
  <1>1. ASSUME NEW q \in Receipts \ {r} PROVE InStep(q)'
    BY Elsewhere
  <1>2. InStep(r)'
    <2> SUFFICES ASSUME Clean(r)' PROVE InStep(r)'
      BY DEF InStep
    <2>1. PostersOf(r) = {} /\ stock[r] = Nothing
      BY DEF Clean, Slip, TypeInv, TypeOK
    <2>2. Clean(r)
      BY DEF Clean
    <2>3. \A c \in Clerks : ~Poster(c, r) /\ ~Held(c, r)
      BY <2>1 DEF PostersOf, Poster, Held
    <2>4. \A c \in Clerks : ~Poster(c, r)' /\ ~Held(c, r)'
      BY <2>3 DEF Poster, Held
    <2>5. \A l \in Lines : stock[r][l] = 0
      BY <2>1 DEF Nothing
    <2>6. \A l \in Lines : 0 = IF l \in receipt[r].moved THEN receipt[r].quantity[l] ELSE 0
      BY <2>2, <2>3, <2>5 DEF InStep
    <2>7. \A l \in Lines : 0 = IF l \in receipt'[r].moved THEN receipt'[r].quantity[l] ELSE 0
      BY <2>6
    <2> QED  BY <2>4, <2>5, <2>7 DEF InStep
  <1> QED  BY <1>1, <1>2

\* A request that begins to post has the receipt to itself, or they are known
\* to have overlapped.
LEMMA BeginInStep ==
    ASSUME TypeInv, \A r \in Receipts : InStep(r), \A r \in Receipts : slips[r] \subseteq slips'[r],
           NEW c \in Clerks, NEW r \in Receipts, BeginPost(c, r)
    PROVE  \A q \in Receipts : InStep(q)'
  <1> DEFINE load == [l \in Lines |-> IF l \in receipt[r].moved THEN 0 ELSE receipt[r].quantity[l]]
  <1>0. /\ clerk[c].at = "free" /\ UNCHANGED <<receipt, stock>>
        /\ receipt[r].state = "draft"
        /\ \A d \in Clerks \ {c} : clerk'[d] = clerk[d]
        /\ clerk'[c].at = "move" /\ clerk'[c].receipt = r
        /\ clerk'[c].edition = receipt[r].edition /\ clerk'[c].load = load
    BY DEF BeginPost, TypeInv, TypeOK, Free
  <1>1. ASSUME NEW q \in Receipts \ {r} PROVE InStep(q)'
    <2>1. ~Poster(c, q)' /\ ~Held(c, q)
      BY <1>0 DEF Poster, Held
    <2> QED  BY <1>0, <2>1, Elsewhere
  <1>2. InStep(r)'
    <2> SUFFICES ASSUME Clean(r)' PROVE InStep(r)'
      BY DEF InStep
    <2>1. PostersOf(r) = {}
      BY DEF BeginPost, Clean, Slip, TypeInv, TypeOK
    <2>2. Clean(r)
      BY DEF Clean
    <2>3. \A d \in Clerks : ~Poster(d, r) /\ ~Held(d, r)
      BY <2>1 DEF PostersOf, Poster, Held
    <2>4. \A d \in Clerks : (Poster(d, r)' => d = c) /\ ~Held(d, r)'
      BY <1>0, <2>3 DEF Poster, Held
    <2>5. TrueCopy(c, r)'
      BY <1>0 DEF TrueCopy
    <2>6. \A l \in Lines :
            stock[r][l] = IF l \in receipt[r].moved THEN receipt[r].quantity[l] ELSE 0
      BY <2>2, <2>3 DEF InStep
    <2> QED  BY <1>0, <2>4, <2>5, <2>6 DEF InStep
  <1> QED  BY <1>1, <1>2

\* The movement of a line puts on the shelf what the receipt says of it.
LEMMA MoveInStep ==
    ASSUME Sensible, TypeInv, \A r \in Receipts : InStep(r), UNCHANGED slips,
           NEW c \in Clerks, Move(c)
    PROVE  \A q \in Receipts : InStep(q)'
  <1> DEFINE r == clerk[c].receipt
             l == First(clerk[c].load)
  <1>0. r \in Receipts /\ clerk[c].load \in [Lines -> Nat]
    BY DEF Move, TypeInv, TypeOK, Working, Posting, Requests
  <1>1. l \in Lines /\ clerk[c].load[l] > 0
    BY <1>0, FirstLoaded DEF Move, Sensible
  <1>2. PICK k \in Lines : k = l
    BY <1>1
  <1>3. PICK p \in Receipts : p = r
    BY <1>0
  <1> HIDE DEF l, r
  <1>4. /\ clerk[c].at = "move" /\ clerk[c].receipt = p /\ clerk[c].load[k] > 0
        /\ UNCHANGED receipt
        /\ stock' = [stock EXCEPT ![p][k] = @ + clerk[c].load[k]]
        /\ clerk' = [clerk EXCEPT ![c].at = "moved", ![c].now = k]
    BY <1>1, <1>2, <1>3 DEF Move, l, r
  <1>5. /\ \A d \in Clerks \ {c} : clerk'[d] = clerk[d]
        /\ clerk'[c].at = "moved" /\ clerk'[c].now = k /\ clerk'[c].receipt = p
        /\ clerk'[c].edition = clerk[c].edition /\ clerk'[c].load = clerk[c].load
    BY <1>4 DEF TypeInv, TypeOK, Requests
  <1>6. /\ \A q \in Receipts \ {p} : stock'[q] = stock[q]
        /\ \A j \in Lines \ {k} : stock'[p][j] = stock[p][j]
        /\ stock'[p][k] = stock[p][k] + clerk[c].load[k]
    BY <1>4 DEF TypeInv, TypeOK
  <1>7. ASSUME NEW q \in Receipts \ {p} PROVE InStep(q)'
    <2>1. ~Poster(c, q)' /\ ~Held(c, q)
      BY <1>4, <1>5 DEF Poster, Held
    <2> QED  BY <1>4, <1>5, <1>6, <2>1, Elsewhere
  <1>8. InStep(p)'
    <2> SUFFICES ASSUME Clean(p)' PROVE InStep(p)'
      BY DEF InStep
    <2>1. Clean(p) /\ Poster(c, p) /\ Poster(c, p)'
      BY <1>4, <1>5 DEF Clean, Poster, Posting
    <2>2. \A d \in Clerks : (Poster(d, p) => d = c) /\ (Poster(d, p)' => d = c)
      BY <1>5, <2>1 DEF InStep, Poster
    <2>3. TrueCopy(c, p) /\ \A d \in Clerks : ~Held(d, p)
      BY <1>4, <2>1, <2>2 DEF InStep, Held
    <2>4. /\ k \notin receipt[p].moved
          /\ clerk[c].load[k] = receipt[p].quantity[k]
      BY <1>4, <2>3 DEF TrueCopy
    <2>5. \A j \in Lines :
            stock[p][j] = IF j \in receipt[p].moved THEN receipt[p].quantity[j] ELSE 0
      BY <2>1, <2>3 DEF InStep
    <2>6. stock'[p][k] = receipt[p].quantity[k]
      <3>1. receipt[p].quantity[k] \in Nat /\ stock[p][k] = 0
        BY <2>4, <2>5 DEF TypeInv, TypeOK, Papers
      <3> QED  BY <1>6, <2>4, <3>1
    <2>7. TrueCopy(c, p)'
      BY <1>4, <1>5, <2>3, <2>4, <2>6 DEF TrueCopy
    <2>8. Held(c, p)'
      BY <1>5, <2>1 DEF Held
    <2>9. receipt[p].state = "draft"
      BY <2>3 DEF TrueCopy
    <2> QED  BY <1>4, <1>5, <1>6, <2>2, <2>5, <2>7, <2>8, <2>9 DEF InStep
  <1> QED  BY <1>7, <1>8

\* The record of a movement makes the receipt's line say what the shelf does.
LEMMA RecordInStep ==
    ASSUME TypeInv, \A r \in Receipts : InStep(r), \A r \in Receipts : slips[r] \subseteq slips'[r],
           NEW c \in Clerks, RecordMove(c)
    PROVE  \A q \in Receipts : InStep(q)'
  <1>1. PICK p \in Receipts, k \in Lines : p = clerk[c].receipt /\ k = clerk[c].now
    BY DEF RecordMove, TypeInv, Working, Posting
  <1>2. /\ clerk[c].at = "moved" /\ UNCHANGED stock
        /\ receipt' = IF clerk[c].edition = receipt[p].edition /\ receipt[p].state # "gone"
                      THEN [receipt EXCEPT ![p].moved = @ \cup {k}] ELSE receipt
        /\ clerk' = [clerk EXCEPT ![c].at = "move", ![c].now = NoLine, ![c].load[k] = 0]
    BY <1>1 DEF RecordMove, Written
  <1>3. /\ \A d \in Clerks \ {c} : clerk'[d] = clerk[d]
        /\ clerk'[c].at = "move" /\ clerk'[c].receipt = p
        /\ clerk'[c].edition = clerk[c].edition
        /\ clerk'[c].load = [clerk[c].load EXCEPT ![k] = 0]
    BY <1>1, <1>2 DEF TypeInv, TypeOK, Requests
  <1>4. \A q \in Receipts \ {p} : receipt'[q] = receipt[q]
    BY <1>2 DEF TypeInv, TypeOK
  <1>5. ASSUME NEW q \in Receipts \ {p} PROVE InStep(q)'
    <2>1. ~Poster(c, q)' /\ ~Held(c, q)
      BY <1>1, <1>3 DEF Poster, Held
    <2> QED  BY <1>2, <1>3, <1>4, <2>1, Elsewhere
  <1>6. InStep(p)'
    <2> SUFFICES ASSUME Clean(p)' PROVE InStep(p)'
      BY DEF InStep
    <2>1. Clean(p) /\ Poster(c, p) /\ Poster(c, p)' /\ Held(c, p)
      BY <1>1, <1>2, <1>3 DEF Clean, Poster, Posting, Held
    <2>2. \A d \in Clerks : (Poster(d, p) => d = c) /\ (Poster(d, p)' => d = c)
      BY <1>3, <2>1 DEF InStep, Poster
    <2>3. TrueCopy(c, p)
      BY <2>1 DEF InStep
    <2>4. /\ receipt'[p].moved = receipt[p].moved \cup {k}
          /\ receipt'[p].quantity = receipt[p].quantity
          /\ receipt'[p].edition = receipt[p].edition
          /\ receipt'[p].state = "draft"
      BY <1>2, <2>3 DEF TrueCopy, TypeInv, TypeOK, Papers
    <2>5. \A j \in Lines \ {k} :
            stock[p][j] = IF j \in receipt[p].moved THEN receipt[p].quantity[j] ELSE 0
      BY <1>1, <2>1, <2>2 DEF InStep, Held
    <2>6. stock[p][k] = receipt[p].quantity[k]
      BY <1>1, <1>2, <2>3 DEF TrueCopy
    <2>7. \A j \in Lines :
            stock'[p][j] = IF j \in receipt'[p].moved THEN receipt'[p].quantity[j] ELSE 0
      BY <1>2, <2>4, <2>5, <2>6
    <2>8. \A j \in Lines : clerk'[c].load[j] =
            IF j \in receipt'[p].moved THEN 0 ELSE receipt'[p].quantity[j]
      <3>1. clerk[c].load \in [Lines -> Nat]
        BY DEF TypeInv, TypeOK, Requests
      <3> QED  BY <1>3, <2>3, <2>4, <3>1 DEF TrueCopy
    <2>9. TrueCopy(c, p)'
      BY <1>3, <2>3, <2>4, <2>8 DEF TrueCopy
    <2> QED  BY <2>2, <2>4, <2>7, <2>9 DEF InStep
  <1> QED  BY <1>5, <1>6

\* A request goes on to numbering when nothing is left to move.
LEMMA MovedInStep ==
    ASSUME TypeInv, \A r \in Receipts : InStep(r), UNCHANGED slips,
           NEW c \in Clerks, Moved(c)
    PROVE  \A q \in Receipts : InStep(q)'
  <1>1. PICK p \in Receipts : p = clerk[c].receipt
    BY DEF Moved, TypeInv, Working, Posting
  <1>2. /\ clerk[c].at = "move" /\ clerk[c].load = Nothing /\ UNCHANGED <<stock, receipt>>
        /\ \A d \in Clerks \ {c} : clerk'[d] = clerk[d]
        /\ clerk'[c].at = "number" /\ clerk'[c].receipt = p
        /\ clerk'[c].edition = clerk[c].edition /\ clerk'[c].load = clerk[c].load
    BY <1>1 DEF Moved, TypeInv, TypeOK, Requests
  <1>3. ASSUME NEW q \in Receipts \ {p} PROVE InStep(q)'
    <2>1. ~Poster(c, q)' /\ ~Held(c, q)
      BY <1>1, <1>2 DEF Poster, Held
    <2> QED  BY <1>2, <2>1, Elsewhere
  <1>4. InStep(p)'
    <2> SUFFICES ASSUME Clean(p)' PROVE InStep(p)'
      BY DEF InStep
    <2>1. Clean(p) /\ Poster(c, p)
      BY <1>1, <1>2 DEF Clean, Poster, Posting
    <2>2. \A d \in Clerks : (Poster(d, p) => d = c) /\ (Poster(d, p)' => d = c)
      BY <1>2, <2>1 DEF InStep, Poster
    <2>3. TrueCopy(c, p)
      BY <2>1 DEF InStep
    <2>4. TrueCopy(c, p)'
      BY <1>2, <2>3 DEF TrueCopy
    <2>5. \A d \in Clerks : ~Held(d, p)
      BY <1>2, <2>2 DEF Held
    <2>6. receipt[p].state = "draft"
      BY <2>3 DEF TrueCopy
    <2> QED  BY <1>2, <2>1, <2>2, <2>4, <2>5, <2>6 DEF InStep
  <1> QED  BY <1>3, <1>4

\* The receipt is numbered when every line of it has moved.
LEMMA PostInStep ==
    ASSUME TypeInv, \A r \in Receipts : InStep(r), UNCHANGED slips,
           NEW c \in Clerks, Post(c)
    PROVE  \A q \in Receipts : InStep(q)'
  <1>1. PICK p \in Receipts : p = clerk[c].receipt
    BY DEF Post, TypeInv, Working, Posting
  <1>2. /\ clerk[c].at = "number" /\ UNCHANGED stock
        /\ receipt' = IF receipt[p].state = "draft" THEN [receipt EXCEPT ![p].state = "done"]
                      ELSE receipt
        /\ \A d \in Clerks \ {c} : clerk'[d] = clerk[d]
        /\ clerk'[c].at \in {"settle", "free"}
    BY <1>1 DEF Post, TypeInv, TypeOK, Free
  <1>3. \A q \in Receipts : ~Poster(c, q)' /\ ~Held(c, q)
    BY <1>2 DEF Poster, Held, Posting
  <1>4. ASSUME NEW q \in Receipts \ {p} PROVE InStep(q)'
    <2>1. receipt'[q] = receipt[q]
      BY <1>2 DEF TypeInv, TypeOK
    <2> QED  BY <1>2, <1>3, <2>1, Elsewhere
  <1>5. InStep(p)'
    <2> SUFFICES ASSUME Clean(p)' PROVE InStep(p)'
      BY DEF InStep
    <2>1. Clean(p) /\ Poster(c, p)
      BY <1>1, <1>2 DEF Clean, Poster, Posting
    <2>2. \A d \in Clerks : (Poster(d, p) => d = c) /\ ~Poster(d, p)' /\ ~Held(d, p)
      BY <1>2, <1>3, <2>1 DEF InStep, Poster, Held
    <2>3. TrueCopy(c, p) /\ clerk[c].load = Nothing
      BY <1>2, <2>1 DEF InStep, TrueCopy
    <2>4. /\ receipt'[p].moved = receipt[p].moved
          /\ receipt'[p].quantity = receipt[p].quantity
      BY <1>2 DEF TypeInv, TypeOK, Papers
    <2>5. \A l \in Lines : l \in receipt[p].moved \/ receipt[p].quantity[l] = 0
      BY <2>3 DEF TrueCopy, Nothing
    <2> QED  BY <1>2, <2>1, <2>2, <2>4, <2>5 DEF InStep
  <1> QED  BY <1>4, <1>5

\* Every step keeps the receipts in step.
LEMMA NextInStep ==
    ASSUME Sensible, IInv, [Next]_vars
    PROVE  \A q \in Receipts : InStep(q)'
  <1> DEFINE Goal == \A q \in Receipts : InStep(q)'
  <1>0. /\ TypeInv /\ \A r \in Receipts : InStep(r)
        /\ \A r \in Receipts : slips[r] \subseteq slips'[r]
    BY NextSlips DEF IInv, TypeInv
  <1>1. ASSUME NEW r \in Receipts, NEW q \in Plans, ReceiptSave(r, q) PROVE Goal
    <2>1. /\ Slip(r, "changed", PostersOf(r) # {} \/ stock[r] # Nothing)
          /\ UNCHANGED <<stock, clerk>>
          /\ receipt' = [receipt EXCEPT ![r] = [state |-> "draft", edition |-> @.edition + 1,
                                                quantity |-> q, moved |-> {}]]
      BY <1>1 DEF ReceiptSave
    <2>2. /\ \A p \in Receipts \ {r} : receipt'[p] = receipt[p]
          /\ receipt'[r].state = "draft" /\ receipt'[r].moved = {}
      BY <1>0, <2>1 DEF TypeInv, TypeOK
    <2> QED  BY <1>0, <2>1, <2>2, PaperInStep
  <1>2. ASSUME NEW r \in Receipts, NEW how \in {"cancelled", "gone"}, ReceiptWithdraw(r, how)
        PROVE  Goal
    <2>1. /\ Slip(r, "changed", PostersOf(r) # {} \/ stock[r] # Nothing)
          /\ UNCHANGED <<stock, clerk>>
          /\ receipt' = [receipt EXCEPT ![r].state = how]
      BY <1>2 DEF ReceiptWithdraw
    <2>2. /\ \A p \in Receipts \ {r} : receipt'[p] = receipt[p]
          /\ receipt'[r].state = how /\ receipt'[r].moved = receipt[r].moved
          /\ receipt'[r].quantity = receipt[r].quantity
      BY <1>0, <2>1 DEF TypeInv, TypeOK, Papers
    <2> QED  BY <1>0, <2>1, <2>2, PaperInStep
  <1>3. ASSUME UNCHANGED <<receipt, stock>>, NEW c \in Clerks,
               \A d \in Clerks \ {c} : clerk'[d] = clerk[d],
               clerk'[c].at \notin Posting,
               \A r \in Receipts : Clean(r)' => ~Held(c, r)
        PROVE  Goal
    <2> SUFFICES ASSUME NEW q \in Receipts PROVE InStep(q)'
      OBVIOUS
    <2>1. ~Poster(c, q)'
      BY <1>3 DEF Poster
    <2> QED  BY <1>0, <1>3, <2>1, Elsewhere
  <1>4. ASSUME UNCHANGED <<receipt, stock, clerk>> PROVE Goal
    BY <1>0, <1>4, Elsewhere
  <1>5. ASSUME NEW c \in Clerks, Act(c) PROVE Goal
    <2>1. ASSUME NEW r \in Receipts, BeginPost(c, r) PROVE Goal
      BY <1>0, <2>1, BeginInStep
    <2>2. CASE Move(c)
      BY <1>0, <2>2, MoveInStep DEF Move
    <2>3. CASE RecordMove(c)
      BY <1>0, <2>3, RecordInStep
    <2>4. CASE Moved(c)
      BY <1>0, <2>4, MovedInStep DEF Moved
    <2>5. CASE Post(c)
      BY <1>0, <2>5, PostInStep DEF Post
    <2>6. ASSUME \/ \E step \in Setting \cup {"save"} : Intend(c, step)
                 \/ \E q \in Plans, kept \in SUBSET Lines : OrderSave(c, q, kept)
                 \/ SetState(c) \/ Settle(c) \/ Refused(c)
          PROVE  Goal
      <3>1. /\ UNCHANGED <<receipt, stock>>
            /\ \A d \in Clerks \ {c} : clerk'[d] = clerk[d]
            /\ clerk[c].at # "moved"
        BY <2>6 DEF Intend, OrderSave, SetState, Settle, Refused, TypeInv, TypeOK, Setting, IInv
      <3>2. clerk'[c].at \notin Posting
        <4>1. clerk \in [Clerks -> Requests]
          BY <1>0 DEF TypeInv, TypeOK
        <4>2. ASSUME NEW step \in Setting \cup {"save"}, Intend(c, step) PROVE clerk'[c].at = step
          BY <4>1, <4>2 DEF Intend, Free
        <4>3. ASSUME NEW q, NEW kept, OrderSave(c, q, kept) PROVE clerk'[c].at = "free"
          BY <4>1, <4>3 DEF OrderSave, Free
        <4>4. SetState(c) \/ Refused(c) => clerk'[c].at = "free"
          BY <4>1 DEF SetState, Refused, Free
        <4>5. Settle(c) => clerk'[c].at \in {"close", "free"}
          BY <4>1 DEF Settle, Free, Requests
        <4> QED  BY <2>6, <4>2, <4>3, <4>4, <4>5 DEF Setting, Posting
      <3> QED  BY <1>3, <3>1, <3>2 DEF Held
    <2> QED  BY <1>5, <2>1, <2>2, <2>3, <2>4, <2>5, <2>6 DEF Act
  <1>6. ASSUME NEW c \in Clerks, Stops(c) PROVE Goal
    <2>1. /\ UNCHANGED <<receipt, stock>>
          /\ \A d \in Clerks \ {c} : clerk'[d] = clerk[d]
          /\ clerk'[c].at = "free"
      BY <1>0, <1>6 DEF Stops, TypeInv, TypeOK, Free
    <2>2. ASSUME NEW r \in Receipts, Held(c, r) PROVE "lost" \in slips'[r]
      BY <1>0, <1>6, <2>2 DEF Stops, Held, Poster, Sensible, TypeInv, TypeOK
    <2> QED  BY <1>3, <2>1, <2>2 DEF Clean, Posting
  <1>7. ASSUME NEW q \in Plans, OrderCreate(q) PROVE Goal
    BY <1>4, <1>7 DEF OrderCreate
  <1>8. ASSUME Confirm \/ OrderDelete \/ UNCHANGED vars PROVE Goal
    BY <1>4, <1>8 DEF Confirm, OrderDelete, vars
  <1> HIDE DEF Goal
  <1>9. Goal
    BY <1>1, <1>2, <1>5, <1>6, <1>7, <1>8 DEF Next
  <1> QED  BY <1>9 DEF Goal

LEMMA InitIInv == Sensible /\ Init => IInv
  <1> SUFFICES ASSUME Sensible, Init PROVE IInv
    OBVIOUS
  <1>1. TypeInv
    BY InitTypeInv
  <1>2. ASSUME NEW r \in Receipts PROVE InStep(r)
    <2>1. \A c \in Clerks : ~Poster(c, r) /\ ~Held(c, r)
      BY DEF Init, Poster, Held, Posting, Free
    <2> QED  BY <2>1 DEF Init, InStep, NoPaper, Nothing
  <1> QED  BY <1>1, <1>2 DEF IInv

LEMMA NextIInv == Sensible /\ IInv /\ [Next]_vars => IInv'
  <1> SUFFICES ASSUME Sensible, IInv, [Next]_vars PROVE IInv'
    OBVIOUS
  <1>1. TypeInv'
    BY NextTypeInv DEF IInv
  <1>2. \A q \in Receipts : InStep(q)'
    BY NextInStep
  <1> QED  BY <1>1, <1>2 DEF IInv

LEMMA Invariance ==
    ASSUME Sensible
    PROVE  Spec => []IInv
  <1>1. Init => IInv
    BY InitIInv
  <1>2. IInv /\ [Next]_vars => IInv'
    BY NextIInv
  <1> QED  BY <1>1, <1>2, PTL DEF Spec

-----------------------------------------------------------------------------
\* TypeOK: orders, receipts, movements and requests keep their shape.
THEOREM TypeCorrect ==
    ASSUME Sensible
    PROVE  Spec => []TypeOK
  <1>1. IInv => TypeOK
    BY DEF IInv, TypeInv
  <1> QED  BY <1>1, Invariance, PTL

LEMMA InStepMeans == IInv => PostedMovedOnce
  <1> SUFFICES ASSUME IInv, NEW r \in Receipts,
                      receipt[r].state = "done", Clean(r)
               PROVE  stock[r] = receipt[r].quantity
    BY DEF PostedMovedOnce, Clean
  <1>1. Clean(r) /\ InStep(r)
    BY DEF IInv
  <1>2. \A c \in Clerks : ~Poster(c, r) /\ ~Held(c, r)
    BY <1>1 DEF InStep, TrueCopy, Held
  <1>3. \A l \in Lines : stock[r][l] = receipt[r].quantity[l]
    BY <1>1, <1>2 DEF InStep
  <1>4. stock[r] \in [Lines -> Nat] /\ receipt[r].quantity \in [Lines -> Nat]
    BY DEF IInv, TypeInv, TypeOK, Papers
  <1> QED  BY <1>3, <1>4

\* PostedMovedOnce: a posted receipt has moved each of its lines exactly once,
\* for any number of lines and of posts that were refused halfway, unless two
\* overlapped, a request died over a movement or the receipt was changed.
THEOREM EachLineOnce ==
    ASSUME Sensible
    PROVE  Spec => []PostedMovedOnce
  BY Invariance, InStepMeans, PTL

\* No step takes a confirmation back, or changes what was ordered.
LEMMA StepCommits ==
    ASSUME TypeInv, [Next]_vars, order.state \in Numbered
    PROVE  order'.state \in Numbered /\ order'.ordered = order.ordered
  <1> DEFINE Stands == order'.state \in Numbered /\ order'.ordered = order.ordered
  <1>0. order \in Orders /\ order.numbered
    BY DEF TypeInv, TypeOK, NumberedWhenConfirmed
  <1> USE DEF Numbered
  <1>1. ASSUME NEW c \in Clerks, SetState(c) PROVE Stands
    <2>1. \A s : Allows(s) => s \in Numbered
      BY <1>0 DEF Allows
    <2>2. UNCHANGED order \/ \E s : Allows(s) /\ order' = [order EXCEPT !.state = s]
      BY <1>1 DEF SetState
    <2> QED  BY <1>0, <2>1, <2>2 DEF Orders
  <1>2. ASSUME NEW c \in Clerks, RecordMove(c) PROVE Stands
    BY <1>0, <1>2 DEF RecordMove, Orders
  <1>3. ASSUME NEW c \in Clerks, Act(c), ~SetState(c), ~RecordMove(c) PROVE UNCHANGED order
    BY <1>3 DEF Act, Intend, OrderSave, BeginPost, Move, Moved, Post, Settle, Refused, Editable
  <1>4. ASSUME NEW c \in Clerks, Stops(c) PROVE UNCHANGED order
    BY <1>4 DEF Stops
  <1>5. ASSUME NEW r \in Receipts, NEW q \in Plans, ReceiptSave(r, q) PROVE UNCHANGED order
    BY <1>5 DEF ReceiptSave
  <1>6. ASSUME NEW r \in Receipts, NEW how, ReceiptWithdraw(r, how) PROVE UNCHANGED order
    BY <1>6 DEF ReceiptWithdraw
  <1>7. ASSUME NEW q \in Plans, OrderCreate(q) PROVE FALSE
    BY <1>7 DEF OrderCreate
  <1>8. ~Confirm /\ ~OrderDelete
    BY DEF Confirm, OrderDelete, Editable
  <1>9. CASE UNCHANGED vars
    BY <1>9 DEF vars
  <1> QED  BY <1>1, <1>2, <1>3, <1>4, <1>5, <1>6, <1>7, <1>8, <1>9 DEF Next

\* ConfirmedStays: a request that read the order before it was confirmed, to
\* send it, cancel it, edit it or delete it, leaves it confirmed or closed and
\* its lines as they were; for any number of requests.
THEOREM StaysCommitted ==
    ASSUME Sensible
    PROVE  Spec => ConfirmedStays
  <1>1. IInv /\ [Next]_vars =>
          [order.state \in Numbered
             => /\ order'.state \notin Editable \cup {"none", "gone"}
                /\ order'.ordered = order.ordered]_vars
    BY StepCommits DEF IInv, Numbered, Editable
  <1> QED  BY <1>1, Invariance, PTL DEF Spec, ConfirmedStays

-----------------------------------------------------------------------------
(* What the order says has arrived.                                        *)

\* What a request has put on the shelf of a line and not written down yet.
InHand(l) == [c \in Clerks |-> IF clerk[c].at = "moved" /\ clerk[c].now = l
                               THEN clerk[c].load[l] ELSE 0]
Shelf(l)  == [r \in Receipts |-> stock[r][l]]

\* No request died over a movement, and no line of the order was replaced that
\* something had moved for.
Whole == \A r \in Receipts : slips[r] \cap {"lost", "astray"} = {}

\* The order has counted every movement but those in hand.
Counted ==
    Whole =>
        \A l \in Lines : order.received[l] + SumOf(InHand(l), Clerks) = SumOf(Shelf(l), Receipts)

LEMMA HandsAndShelves ==
    ASSUME FinitelyMany, TypeOK, NEW l \in Lines
    PROVE  /\ \A c \in Clerks : InHand(l)[c] \in Nat
           /\ \A r \in Receipts : Shelf(l)[r] \in Nat
           /\ SumOf(InHand(l), Clerks) \in Nat
           /\ SumOf(Shelf(l), Receipts) \in Nat
           /\ order.received[l] \in Nat
  <1>1. \A c \in Clerks : InHand(l)[c] \in Nat
    BY DEF InHand, TypeOK, Requests
  <1>2. \A r \in Receipts : Shelf(l)[r] \in Nat
    BY DEF Shelf, TypeOK
  <1>3. order.received[l] \in Nat
    BY DEF TypeOK, Orders
  <1>4. SumOf(InHand(l), Clerks) \in Nat
    <2> DEFINE f == InHand(l)
    <2> HIDE DEF f
    <2> SUFFICES SumOf(f, Clerks) \in Nat
      BY DEF f
    <2>1. \A c \in Clerks : f[c] \in Nat
      BY <1>1 DEF f
    <2> QED  BY <2>1, SumNat DEF FinitelyMany
  <1>5. SumOf(Shelf(l), Receipts) \in Nat
    <2> DEFINE f == Shelf(l)
    <2> HIDE DEF f
    <2> SUFFICES SumOf(f, Receipts) \in Nat
      BY DEF f
    <2>1. \A r \in Receipts : f[r] \in Nat
      BY <1>2 DEF f
    <2> QED  BY <2>1, SumNat DEF FinitelyMany
  <1> QED  BY <1>1, <1>2, <1>3, <1>4, <1>5

\* A line of which nothing moves and nothing is written down.
LEMMA LineCountedElsewhere ==
    ASSUME FinitelyMany, TypeOK, NEW l \in Lines,
           order.received[l] + SumOf(InHand(l), Clerks) = SumOf(Shelf(l), Receipts),
           order'.received[l] = order.received[l],
           \A r \in Receipts : stock'[r][l] = stock[r][l],
           \A c \in Clerks : \/ clerk'[c] = clerk[c]
                             \/ /\ clerk[c].at # "moved" \/ clerk[c].now # l
                                /\ clerk'[c].at # "moved" \/ clerk'[c].now # l
    PROVE  order'.received[l] + SumOf(InHand(l)', Clerks) = SumOf(Shelf(l)', Receipts)
  <1> DEFINE f == InHand(l)
             e == InHand(l)'
             g == Shelf(l)
             h == Shelf(l)'
  <1>1. \A c \in Clerks : f[c] = e[c]
    BY DEF InHand
  <1>2. \A r \in Receipts : g[r] = h[r]
    BY DEF Shelf
  <1> HIDE DEF f, e, g, h
  <1>3. SumOf(f, Clerks) = SumOf(e, Clerks)
    BY <1>1, SumSame DEF FinitelyMany
  <1>4. SumOf(g, Receipts) = SumOf(h, Receipts)
    BY <1>2, SumSame DEF FinitelyMany
  <1> QED  BY <1>3, <1>4 DEF f, e, g, h

LEMMA CountedElsewhere ==
    ASSUME FinitelyMany, TypeOK, Counted,
           \A r \in Receipts : slips[r] \subseteq slips'[r],
           order'.received = order.received, UNCHANGED stock,
           \A c \in Clerks : \/ clerk'[c] = clerk[c]
                             \/ clerk[c].at # "moved" /\ clerk'[c].at # "moved"
    PROVE  Counted'
  <1> SUFFICES ASSUME Whole', NEW l \in Lines
               PROVE  order'.received[l] + SumOf(InHand(l)', Clerks) = SumOf(Shelf(l)', Receipts)
    BY DEF Counted
  <1>1. order.received[l] + SumOf(InHand(l), Clerks) = SumOf(Shelf(l), Receipts)
    BY DEF Counted, Whole
  <1> QED  BY <1>1, LineCountedElsewhere

\* A movement is on the shelf and in hand.
LEMMA MoveCounted ==
    ASSUME Sensible, FinitelyMany, TypeInv, TypeOK', Counted, NEW c \in Clerks, Move(c)
    PROVE  Counted'
  <1> USE DEF TypeInv
  <1>1. PICK p \in Receipts, k \in Lines :
            p = clerk[c].receipt /\ k = First(clerk[c].load) /\ clerk[c].load[k] > 0
    BY FirstLoaded DEF Move, TypeOK, Working, Posting, Requests, Sensible
  <1>2. PICK n \in Nat : n = clerk[c].load[k]
    BY DEF TypeOK, Requests
  <1>3. /\ clerk[c].at = "move" /\ UNCHANGED <<order, slips>>
        /\ stock' = [stock EXCEPT ![p][k] = @ + n]
        /\ clerk' = [clerk EXCEPT ![c].at = "moved", ![c].now = k]
    BY <1>1, <1>2 DEF Move
  <1>4. /\ \A d \in Clerks \ {c} : clerk'[d] = clerk[d]
        /\ clerk'[c].at = "moved" /\ clerk'[c].now = k /\ clerk'[c].load = clerk[c].load
    BY <1>3 DEF TypeOK, Requests
  <1>5. /\ \A r \in Receipts \ {p} : stock'[r] = stock[r]
        /\ \A j \in Lines \ {k} : stock'[p][j] = stock[p][j]
        /\ stock'[p][k] = stock[p][k] + n
    BY <1>3 DEF TypeOK
  <1> SUFFICES ASSUME Whole', NEW l \in Lines
               PROVE  order'.received[l] + SumOf(InHand(l)', Clerks) = SumOf(Shelf(l)', Receipts)
    BY DEF Counted
  <1>6. order.received[l] + SumOf(InHand(l), Clerks) = SumOf(Shelf(l), Receipts)
    BY <1>3 DEF Counted, Whole
  <1>7. CASE l # k
    <2>1. /\ order'.received[l] = order.received[l]
          /\ \A r \in Receipts : stock'[r][l] = stock[r][l]
      BY <1>3, <1>5, <1>7
    <2>2. \A d \in Clerks : \/ clerk'[d] = clerk[d]
                            \/ clerk[d].at # "moved" /\ clerk'[d].now # l
      BY <1>3, <1>4, <1>7
    <2> QED  BY <1>6, <2>1, <2>2, LineCountedElsewhere
  <1>8. CASE l = k
    <2> DEFINE f == InHand(l)
               e == InHand(l)'
               g == Shelf(l)
               h == Shelf(l)'
    <2>1. /\ \A d \in Clerks : f[d] \in Int /\ e[d] \in Int
          /\ \A r \in Receipts : g[r] \in Int /\ h[r] \in Int
          /\ SumOf(f, Clerks) \in Nat /\ SumOf(g, Receipts) \in Nat /\ order.received[l] \in Nat
      <3>1. /\ \A d \in Clerks : e[d] \in Nat
            /\ \A r \in Receipts : h[r] \in Nat
        BY DEF InHand, Shelf, TypeOK, Requests
      <3> QED  BY <3>1, HandsAndShelves
    <2>2. /\ \A d \in Clerks \ {c} : e[d] = f[d]
          /\ f[c] = 0 /\ e[c] = n
      <3>1. \A d \in Clerks \ {c} : e[d] = f[d]
        BY <1>4 DEF InHand
      <3>2. f[c] = 0
        BY <1>3 DEF InHand
      <3>3. e[c] = clerk'[c].load[l]
        BY <1>4, <1>8 DEF InHand
      <3> QED  BY <1>2, <1>4, <1>8, <3>1, <3>2, <3>3
    <2>3. /\ \A r \in Receipts \ {p} : h[r] = g[r]
          /\ h[p] = g[p] + n
      BY <1>5, <1>8 DEF Shelf
    <2> HIDE DEF f, e, g, h
    <2>4. SumOf(e, Clerks) = SumOf(f, Clerks) + e[c] - f[c]
      BY <2>1, <2>2, SumChange DEF FinitelyMany
    <2>5. SumOf(h, Receipts) = SumOf(g, Receipts) + h[p] - g[p]
      BY <2>1, <2>3, SumChange DEF FinitelyMany
    <2>6. order.received[l] + SumOf(f, Clerks) = SumOf(g, Receipts)
      BY <1>6 DEF f, g
    <2>7. order'.received[l] + SumOf(e, Clerks) = SumOf(h, Receipts)
      BY <1>3, <2>1, <2>2, <2>3, <2>4, <2>5, <2>6
    <2> QED  BY <2>7 DEF e, h
  <1> QED  BY <1>7, <1>8

\* Its record takes it from the hand to the order.
LEMMA RecordCounted ==
    ASSUME FinitelyMany, TypeInv, TypeOK', Counted, NEW c \in Clerks, RecordMove(c),
           \A r \in Receipts : slips[r] \subseteq slips'[r]
    PROVE  Counted'
  <1> USE DEF TypeInv
  <1>1. PICK k \in Lines : k = clerk[c].now
    BY DEF RecordMove, Working
  <1>2. PICK n \in Nat : n = clerk[c].load[k]
    BY DEF TypeOK, Requests
  <1> SUFFICES ASSUME Whole', NEW l \in Lines
               PROVE  order'.received[l] + SumOf(InHand(l)', Clerks) = SumOf(Shelf(l)', Receipts)
    BY DEF Counted
  <1>0. Whole /\ Lands(c)
    <2>1. clerk[c].receipt \in Receipts
      BY DEF RecordMove, Working, Posting
    <2>2. ~Lands(c) => "astray" \in slips'[clerk[c].receipt]
      BY <2>1 DEF RecordMove, Slip, TypeOK
    <2> QED  BY <2>1, <2>2 DEF Whole
  <1>3. /\ clerk[c].at = "moved" /\ UNCHANGED stock
        /\ order' = [order EXCEPT !.received[k] = @ + n]
        /\ clerk' = [clerk EXCEPT ![c].at = "move", ![c].now = NoLine, ![c].load[k] = 0]
    BY <1>0, <1>1, <1>2 DEF RecordMove
  <1>4. /\ \A d \in Clerks \ {c} : clerk'[d] = clerk[d]
        /\ clerk'[c].at = "move"
    BY <1>3 DEF TypeOK, Requests
  <1>5. /\ \A j \in Lines \ {k} : order'.received[j] = order.received[j]
        /\ order'.received[k] = order.received[k] + n
    BY <1>3 DEF TypeOK, Orders
  <1>6. order.received[l] + SumOf(InHand(l), Clerks) = SumOf(Shelf(l), Receipts)
    BY <1>0 DEF Counted
  <1>7. CASE l # k
    BY <1>1, <1>3, <1>4, <1>5, <1>6, <1>7, LineCountedElsewhere
  <1>8. CASE l = k
    <2> DEFINE f == InHand(l)
               e == InHand(l)'
    <2>1. /\ \A d \in Clerks : f[d] \in Int /\ e[d] \in Int
          /\ SumOf(f, Clerks) \in Nat /\ SumOf(Shelf(l), Receipts) \in Nat
          /\ order.received[l] \in Nat
      <3>1. \A d \in Clerks : e[d] \in Nat
        BY DEF InHand, TypeOK, Requests
      <3> QED  BY <3>1, HandsAndShelves
    <2>2. /\ \A d \in Clerks \ {c} : e[d] = f[d]
          /\ f[c] = n /\ e[c] = 0
      <3>1. \A d \in Clerks \ {c} : e[d] = f[d]
        BY <1>4 DEF InHand
      <3>2. f[c] = clerk[c].load[l]
        BY <1>1, <1>3, <1>8 DEF InHand
      <3>3. e[c] = 0
        BY <1>4 DEF InHand
      <3> QED  BY <1>2, <1>8, <3>1, <3>2, <3>3
    <2>3. Shelf(l)' = Shelf(l)
      BY <1>3 DEF Shelf
    <2> HIDE DEF f, e
    <2>4. SumOf(e, Clerks) = SumOf(f, Clerks) + e[c] - f[c]
      BY <2>1, <2>2, SumChange DEF FinitelyMany
    <2>5. order.received[l] + SumOf(f, Clerks) = SumOf(Shelf(l), Receipts)
      BY <1>6 DEF f
    <2>6. order'.received[l] + SumOf(e, Clerks) = SumOf(Shelf(l), Receipts)
      BY <1>5, <1>8, <2>1, <2>2, <2>4, <2>5
    <2> QED  BY <2>3, <2>6 DEF e
  <1> QED  BY <1>7, <1>8

-----------------------------------------------------------------------------
(* What an order and the requests about it have behind them.               *)

\* An order orders something, and nobody is at work before there is one.
Ordered   == order.state \notin {"none", "gone"} => order.ordered # Nothing
Untouched ==
    order.state = "none" =>
        /\ order.received = Nothing
        /\ \A c \in Clerks : clerk[c].at = "free"
        /\ \A r \in Receipts : receipt[r].state = "none"

\* Only a confirmed order is being closed, and a confirmed one stays numbered.
ClosesNumbered == \A c \in Clerks : clerk[c].at = "close" => order.numbered

\* What is in hand is on the shelf.
OnShelf == \A c \in Clerks : clerk[c].at = "moved" => stock[clerk[c].receipt] # Nothing

\* Nothing is counted, or was read by who edits the order, before something moved.
Arrived ==
    (\A r \in Receipts : stock[r] = Nothing) =>
        /\ order.received = Nothing
        /\ \A c \in Clerks : clerk[c].at = "save" => clerk[c].load = Nothing

Begun == Ordered /\ Untouched /\ ClosesNumbered /\ OnShelf /\ Arrived

\* An order everything has arrived against is about to be closed: a request
\* that posted a receipt of it has yet to do it, or a receipt has yet to be
\* posted.  An order of which something arrived early owes as much.
Closer(c)  == clerk[c].at \in {"settle", "close"} /\ clerk[c].receipt \in Receipts
Unposted(r) == stock[r] # Nothing /\ receipt[r].state # "done"

Owing == \/ order.state = "confirmed" /\ Complete
         \/ ~order.numbered /\ \E r \in Receipts : stock[r] # Nothing

Closing ==
    (Owing /\ \A r \in Receipts : slips[r] = {}) =>
        (\E c \in Clerks : Closer(c)) \/ (\E r \in Receipts : Unposted(r))

\* A step that leaves the order and the shelf alone, and of the requests changes
\* one that is no saving, and ends none in a movement.
LEMMA ElsewhereBegun ==
    ASSUME TypeInv, Begun, order.state # "none", UNCHANGED <<order, stock>>,
           NEW c \in Clerks, \A d \in Clerks \ {c} : clerk'[d] = clerk[d],
           clerk'[c].at \notin {"moved", "save", "close"}
    PROVE  Begun'
  BY DEF Begun, Ordered, Untouched, ClosesNumbered, OnShelf, Arrived

LEMMA NextBegun ==
    ASSUME Sensible, TypeInv, Begun, [Next]_vars
    PROVE  Begun'
  <1>0. /\ order \in Orders /\ order.numbered \in BOOLEAN
        /\ order.numbered <=> order.state \in Numbered
        /\ clerk \in [Clerks -> Requests]
        /\ receipt \in [Receipts -> Papers]
        /\ stock \in [Receipts -> [Lines -> Nat]]
        /\ \A c \in Clerks : Working(clerk[c])
    BY DEF TypeInv, TypeOK, NumberedWhenConfirmed, Orders
  <1> USE DEF Numbered, Editable
  <1>a. ASSUME UNCHANGED <<order, stock, clerk>>, order.state # "none" PROVE Begun'
    BY <1>a DEF Begun, Ordered, Untouched, ClosesNumbered, OnShelf, Arrived
  <1>1. ASSUME NEW q \in Plans, OrderCreate(q) PROVE Begun'
    <2>1. /\ order'.state = "draft" /\ order'.ordered = q /\ q # Nothing
          /\ order'.received = Nothing /\ order.state = "none"
          /\ UNCHANGED <<receipt, stock, clerk>>
      BY <1>1 DEF OrderCreate, NoOrder
    <2> QED  BY <2>1 DEF Begun, Ordered, Untouched, ClosesNumbered, OnShelf, Arrived
  <1>2. CASE Confirm
    <2>1. /\ order'.state = "confirmed" /\ order'.numbered = TRUE /\ order'.ordered = order.ordered
          /\ order'.received = order.received
          /\ order.state \in Editable /\ UNCHANGED <<receipt, stock, clerk>>
      BY <1>0, <1>2 DEF Confirm, Orders
    <2> QED  BY <2>1 DEF Begun, Ordered, Untouched, ClosesNumbered, OnShelf, Arrived
  <1>3. CASE OrderDelete
    <2>1. /\ order'.state = "gone" /\ order'.received = Nothing
          /\ ~order.numbered /\ UNCHANGED <<receipt, stock, clerk>>
      BY <1>0, <1>3 DEF OrderDelete, NoOrder
    <2> QED  BY <2>1 DEF Begun, Ordered, Untouched, ClosesNumbered, OnShelf, Arrived
  <1>4. ASSUME NEW c \in Clerks, Act(c) PROVE Begun'
    <2>0. order.state # "none"
      <3>1. ASSUME order.state = "none"
            PROVE  clerk[c].at = "free" /\ \A r \in Receipts : receipt[r].state = "none"
        BY <3>1 DEF Begun, Untouched
      <3> QED  BY <1>4, <3>1 DEF Act, Intend, OrderSave, SetState, Setting, BeginPost, Move,
                                RecordMove, Moved, Post, Settle, Refused
    <2>1. ASSUME NEW step \in Setting \cup {"save"}, Intend(c, step) PROVE Begun'
      <3>1. /\ UNCHANGED <<order, receipt, stock>>
            /\ \A d \in Clerks \ {c} : clerk'[d] = clerk[d]
            /\ clerk'[c].at = step
            /\ step = "save" => clerk'[c].load = order.received
            /\ step = "close" => order.numbered
        BY <1>0, <2>1 DEF Intend, Free
      <3>2. step # "moved"
        BY DEF Setting
      <3> QED  BY <2>0, <3>1, <3>2 DEF Begun, Ordered, Untouched, ClosesNumbered, OnShelf, Arrived
    <2>2. CASE SetState(c)
      <3>1. /\ UNCHANGED <<receipt, stock>>
            /\ \A d \in Clerks \ {c} : clerk'[d] = clerk[d]
            /\ clerk'[c].at = "free"
        BY <1>0, <2>2 DEF SetState, Free
      <3>2. /\ order'.state # "none"
            /\ order'.state \notin {"none", "gone"} => order.state \notin {"none", "gone"}
            /\ order'.ordered = order.ordered /\ order'.received = order.received
            /\ order'.numbered = order.numbered
        BY <1>0, <2>0, <2>2 DEF SetState, Orders, Setting
      <3> QED  BY <3>1, <3>2 DEF Begun, Ordered, Untouched, ClosesNumbered, OnShelf, Arrived
    <2>3. ASSUME NEW r \in Receipts, BeginPost(c, r) PROVE Begun'
      <3>1. /\ UNCHANGED <<order, receipt, stock>>
            /\ \A d \in Clerks \ {c} : clerk'[d] = clerk[d]
            /\ clerk'[c].at = "move"
        BY <1>0, <2>3 DEF BeginPost, Free
      <3> QED  BY <2>0, <3>1, ElsewhereBegun
    <2>4. CASE Move(c)
      <3>1. PICK p \in Receipts, k \in Lines :
              p = clerk[c].receipt /\ k = First(clerk[c].load) /\ clerk[c].load[k] > 0
        BY <1>0, <2>4, FirstLoaded DEF Move, Working, Posting, Requests, Sensible
      <3>2. /\ UNCHANGED order
            /\ stock' = [stock EXCEPT ![p][k] = @ + clerk[c].load[k]]
            /\ \A d \in Clerks \ {c} : clerk'[d] = clerk[d]
            /\ clerk'[c].at = "moved" /\ clerk'[c].receipt = p
        BY <1>0, <2>4, <3>1 DEF Move, Requests
      <3>3. stock'[p] # Nothing /\ \A r \in Receipts \ {p} : stock'[r] = stock[r]
        <4>1. stock[p][k] \in Nat /\ clerk[c].load[k] \in Nat
          BY <1>0 DEF Requests
        <4>2. stock'[p][k] = stock[p][k] + clerk[c].load[k]
          BY <1>0, <3>2
        <4> QED  BY <1>0, <3>1, <3>2, <4>1, <4>2 DEF Nothing
      <3>4. OnShelf'
        BY <1>0, <3>2, <3>3 DEF Begun, OnShelf, Working, Posting
      <3> QED  BY <2>0, <3>2, <3>3, <3>4 DEF Begun, Ordered, Untouched, ClosesNumbered, Arrived
    <2>5. CASE RecordMove(c)
      <3>1. /\ clerk[c].at = "moved" /\ UNCHANGED stock
            /\ \A d \in Clerks \ {c} : clerk'[d] = clerk[d]
            /\ clerk'[c].at = "move"
        BY <1>0, <2>5 DEF RecordMove, Requests
      <3>2. /\ order'.state = order.state /\ order'.numbered = order.numbered
            /\ order'.ordered = order.ordered
        BY <1>0, <2>5 DEF RecordMove, Orders
      <3>3. clerk[c].receipt \in Receipts /\ stock'[clerk[c].receipt] # Nothing
        BY <1>0, <3>1 DEF Begun, OnShelf, Working, Posting
      <3> QED  BY <2>0, <3>1, <3>2, <3>3 DEF Begun, Ordered, Untouched, ClosesNumbered, OnShelf, Arrived
    <2>6. CASE Moved(c) \/ Post(c) \/ Refused(c)
      <3>1. /\ UNCHANGED <<order, stock>>
            /\ \A d \in Clerks \ {c} : clerk'[d] = clerk[d]
            /\ clerk'[c].at \in {"number", "settle", "free"}
        <4>1. Moved(c) => clerk'[c].at = "number"
          BY <1>0 DEF Moved, Requests
        <4>2. Post(c) => clerk'[c].at \in {"settle", "free"}
          BY <1>0 DEF Post, Free
        <4>3. Refused(c) => clerk'[c].at = "free"
          BY <1>0 DEF Refused, Free
        <4>4. UNCHANGED <<order, stock>> /\ \A d \in Clerks \ {c} : clerk'[d] = clerk[d]
          BY <1>0, <2>6 DEF Moved, Post, Refused
        <4> QED  BY <2>6, <4>1, <4>2, <4>3, <4>4
      <3> QED  BY <2>0, <3>1, ElsewhereBegun
    <2>7. CASE Settle(c)
      <3>1. /\ UNCHANGED <<order, receipt, stock>>
            /\ \A d \in Clerks \ {c} : clerk'[d] = clerk[d]
            /\ \/ clerk'[c].at = "free"
               \/ clerk'[c].at = "close" /\ order.numbered
        BY <1>0, <2>7 DEF Settle, Free, Requests
      <3> QED  BY <2>0, <3>1 DEF Begun, Ordered, Untouched, ClosesNumbered, OnShelf, Arrived
    <2>8. ASSUME NEW q \in Plans, NEW kept \in SUBSET Lines, OrderSave(c, q, kept) PROVE Begun'
      <3>1. /\ clerk[c].at = "save" /\ UNCHANGED <<receipt, stock>> /\ q # Nothing
            /\ \A d \in Clerks \ {c} : clerk'[d] = clerk[d]
            /\ clerk'[c].at = "free"
        BY <1>0, <2>8 DEF OrderSave, Free
      <3>2. CASE UNCHANGED order
        BY <2>0, <3>1, <3>2, ElsewhereBegun
      <3>3. CASE order' # order
        <4>1. /\ order'.state = order.state /\ order'.numbered = order.numbered
              /\ order'.ordered = q
              /\ order'.received = [l \in Lines |-> IF l \in kept /\ q[l] > 0
                                                    THEN clerk[c].load[l] ELSE 0]
          BY <1>0, <2>8, <3>3 DEF OrderSave, Orders
        <4>2. clerk[c].load = Nothing => order'.received = Nothing
          BY <4>1 DEF Nothing
        <4> QED  BY <2>0, <3>1, <4>1, <4>2 DEF Begun, Ordered, Untouched, ClosesNumbered, OnShelf,
                                               Arrived
      <3> QED  BY <3>2, <3>3
    <2> QED  BY <1>4, <2>1, <2>2, <2>3, <2>4, <2>5, <2>6, <2>7, <2>8 DEF Act
  <1>5. ASSUME NEW c \in Clerks, Stops(c) PROVE Begun'
    <2>1. /\ UNCHANGED <<order, receipt, stock>> /\ clerk[c].at # "free"
          /\ \A d \in Clerks \ {c} : clerk'[d] = clerk[d]
          /\ clerk'[c].at = "free"
      BY <1>0, <1>5 DEF Stops, Free
    <2>2. order.state # "none"
      BY <2>1 DEF Begun, Untouched
    <2> QED  BY <2>1, <2>2, ElsewhereBegun
  <1>6. ASSUME NEW r \in Receipts, NEW q \in Plans, ReceiptSave(r, q) PROVE Begun'
    BY <1>a, <1>6 DEF ReceiptSave
  <1>7. ASSUME NEW r \in Receipts, NEW how, ReceiptWithdraw(r, how) PROVE Begun'
    BY <1>a, <1>7 DEF ReceiptWithdraw, Begun, Untouched
  <1>8. CASE UNCHANGED vars
    BY <1>8 DEF vars, Begun, Ordered, Untouched, ClosesNumbered, OnShelf, Arrived
  <1> QED  BY <1>1, <1>2, <1>3, <1>4, <1>5, <1>6, <1>7, <1>8 DEF Next

LEMMA NextCounted ==
    ASSUME Sensible, FinitelyMany, TypeInv, Begun, Counted, [Next]_vars
    PROVE  Counted'
  <1>0. TypeOK' /\ \A r \in Receipts : slips[r] \subseteq slips'[r]
    BY NextTypeInv, NextSlips DEF TypeInv
  <1>1. TypeOK /\ order \in Orders /\ clerk \in [Clerks -> Requests]
    BY DEF TypeInv, TypeOK
  <1>2. ASSUME order'.received = order.received, UNCHANGED <<stock, clerk>> PROVE Counted'
    BY <1>0, <1>1, <1>2, CountedElsewhere
  <1>3. ASSUME NEW c \in Clerks, order'.received = order.received, UNCHANGED stock,
               clerk[c].at # "moved", clerk'[c].at # "moved",
               \A d \in Clerks \ {c} : clerk'[d] = clerk[d]
        PROVE  Counted'
    BY <1>0, <1>1, <1>3, CountedElsewhere
  <1>4. ASSUME NEW q \in Plans, OrderCreate(q) PROVE Counted'
    BY <1>1, <1>2, <1>4 DEF OrderCreate, NoOrder, Begun, Untouched
  <1>12. ASSUME LinesGo, Whole' PROVE \A r \in Receipts : stock[r] = Nothing
    BY <1>1, <1>12 DEF LinesGo, Whole, TypeOK
  <1>5. CASE Confirm
    BY <1>1, <1>2, <1>5 DEF Confirm, Orders
  <1>6. CASE OrderDelete
    <2> SUFFICES ASSUME Whole' PROVE Counted'
      BY DEF Counted
    <2>1. order.received = Nothing
      BY <1>6, <1>12 DEF OrderDelete, Begun, Arrived
    <2> QED  BY <1>2, <1>6, <2>1 DEF OrderDelete, NoOrder
  <1>7. ASSUME NEW c \in Clerks, Act(c) PROVE Counted'
    <2>1. ASSUME NEW step \in Setting \cup {"save"}, Intend(c, step) PROVE Counted'
      <3>1. clerk'[c].at = step /\ clerk[c].at = "free" /\ UNCHANGED <<order, stock>>
        BY <1>1, <2>1 DEF Intend, Free
      <3> QED  BY <1>1, <1>3, <2>1, <3>1 DEF Intend, Setting
    <2>2. CASE SetState(c)
      <3>1. /\ order'.received = order.received /\ clerk'[c].at = "free"
            /\ clerk[c].at \in Setting /\ UNCHANGED stock
            /\ \A d \in Clerks \ {c} : clerk'[d] = clerk[d]
        BY <1>1, <2>2 DEF SetState, Free, Orders
      <3> QED  BY <1>3, <3>1 DEF Setting
    <2>3. ASSUME \/ \E r \in Receipts : BeginPost(c, r)
                 \/ Moved(c) \/ Post(c) \/ Settle(c) \/ Refused(c)
          PROVE  Counted'
      <3>1. /\ UNCHANGED <<order, stock>> /\ clerk[c].at # "moved"
            /\ \A d \in Clerks \ {c} : clerk'[d] = clerk[d]
        BY <1>1, <2>3 DEF BeginPost, Moved, Post, Settle, Refused
      <3>2. clerk'[c].at # "moved"
        <4>1. ASSUME NEW r \in Receipts, BeginPost(c, r) PROVE clerk'[c].at = "move"
          BY <1>1, <4>1 DEF BeginPost, Free
        <4>2. Moved(c) => clerk'[c].at = "number"
          BY <1>1 DEF Moved
        <4>3. Post(c) => clerk'[c].at \in {"settle", "free"}
          BY <1>1 DEF Post, Free
        <4>4. Settle(c) => clerk'[c].at \in {"close", "free"}
          BY <1>1 DEF Settle, Free, Requests
        <4>5. Refused(c) => clerk'[c].at = "free"
          BY <1>1 DEF Refused, Free
        <4> QED  BY <2>3, <4>1, <4>2, <4>3, <4>4, <4>5
      <3> QED  BY <1>3, <3>1, <3>2
    <2>4. CASE Move(c)
      BY <1>0, <2>4, MoveCounted
    <2>5. CASE RecordMove(c)
      BY <1>0, <2>5, RecordCounted
    <2>6. ASSUME NEW q \in Plans, NEW kept \in SUBSET Lines, OrderSave(c, q, kept) PROVE Counted'
      <3> SUFFICES ASSUME Whole' PROVE Counted'
        BY DEF Counted
      <3>1. /\ clerk[c].at = "save" /\ clerk'[c].at = "free" /\ UNCHANGED stock
            /\ \A d \in Clerks \ {c} : clerk'[d] = clerk[d]
        BY <1>1, <2>6 DEF OrderSave, Free
      <3>2. order'.received = order.received
        <4>1. CASE UNCHANGED order
          BY <4>1
        <4>2. CASE order' # order
          <5>1. LinesGo /\ order'.received = [l \in Lines |-> IF l \in kept /\ q[l] > 0
                                                               THEN clerk[c].load[l] ELSE 0]
            BY <1>1, <2>6, <4>2 DEF OrderSave, Orders
          <5>2. order.received = Nothing /\ clerk[c].load = Nothing
            BY <1>12, <3>1, <5>1 DEF Begun, Arrived
          <5> QED  BY <5>1, <5>2 DEF Nothing
        <4> QED  BY <4>1, <4>2
      <3> QED  BY <1>3, <3>1, <3>2
    <2> QED  BY <1>7, <2>1, <2>2, <2>3, <2>4, <2>5, <2>6 DEF Act
  <1>8. ASSUME NEW c \in Clerks, Stops(c) PROVE Counted'
    <2>1. /\ UNCHANGED <<order, stock>> /\ clerk'[c].at = "free"
          /\ \A d \in Clerks \ {c} : clerk'[d] = clerk[d]
      BY <1>1, <1>8 DEF Stops, Free
    <2>2. CASE clerk[c].at # "moved"
      BY <1>3, <2>1, <2>2
    <2>3. CASE clerk[c].at = "moved"
      <3>1. clerk[c].receipt \in Receipts
        BY <2>3 DEF TypeInv, Working, Posting
      <3>2. "lost" \in slips'[clerk[c].receipt]
        BY <1>1, <1>8, <2>3, <3>1 DEF Stops, Sensible, TypeOK
      <3> QED  BY <3>1, <3>2 DEF Counted, Whole
    <2> QED  BY <2>2, <2>3
  <1>9. ASSUME NEW r \in Receipts, NEW q \in Plans, ReceiptSave(r, q) PROVE Counted'
    BY <1>2, <1>9 DEF ReceiptSave
  <1>10. ASSUME NEW r \in Receipts, NEW how, ReceiptWithdraw(r, how) PROVE Counted'
    BY <1>2, <1>10 DEF ReceiptWithdraw
  <1>11. CASE UNCHANGED vars
    BY <1>2, <1>11 DEF vars
  <1> QED  BY <1>4, <1>5, <1>6, <1>7, <1>8, <1>9, <1>10, <1>11 DEF Next

\* Whoever was to close the order still is, when the order and the shelf are as
\* they were.
LEMMA ClosingElsewhere ==
    ASSUME Closing, \A r \in Receipts : slips[r] \subseteq slips'[r],
           Owing' => Owing,
           \A c \in Clerks : Closer(c) =>
              \/ clerk'[c] = clerk[c] \/ ~Owing'
              \/ \E r \in Receipts : slips'[r] # {},
           \A r \in Receipts : Unposted(r) =>
              \/ Unposted(r)' \/ (\E c \in Clerks : Closer(c)')
              \/ \E q \in Receipts : slips'[q] # {}
    PROVE  Closing'
  <1> SUFFICES ASSUME Owing', \A r \in Receipts : slips'[r] = {}
               PROVE  (\E c \in Clerks : Closer(c)') \/ (\E r \in Receipts : Unposted(r)')
    BY DEF Closing
  <1>1. (\E c \in Clerks : Closer(c)) \/ (\E r \in Receipts : Unposted(r))
    BY DEF Closing
  <1> QED  BY <1>1 DEF Closer

LEMMA NextClosing ==
    ASSUME Sensible, IInv, Begun, Closing, [Next]_vars
    PROVE  Closing'
  <1>0. /\ order \in Orders /\ order.numbered \in BOOLEAN
        /\ order.numbered <=> order.state \in Numbered
        /\ clerk \in [Clerks -> Requests]
        /\ receipt \in [Receipts -> Papers]
        /\ stock \in [Receipts -> [Lines -> Nat]]
        /\ slips \in [Receipts -> SUBSET Slips]
        /\ \A r \in Receipts : slips[r] \subseteq slips'[r]
        /\ TypeInv /\ \A r \in Receipts : InStep(r)
    BY NextSlips DEF IInv, TypeInv, TypeOK, NumberedWhenConfirmed, Orders
  <1>1. ASSUME ~Owing' PROVE Closing'
    BY <1>1 DEF Closing
  <1>2. ASSUME NEW c \in Clerks, UNCHANGED <<order, receipt, stock>>, ~Closer(c),
               \A d \in Clerks \ {c} : clerk'[d] = clerk[d]
        PROVE  Closing'
    <2>1. Owing' <=> Owing
      BY <1>2 DEF Owing, Complete, Outstanding
    <2>2. \A r \in Receipts : Unposted(r) => Unposted(r)'
      BY <1>2 DEF Unposted
    <2> QED  BY <1>0, <1>2, <2>1, <2>2, ClosingElsewhere
  <1>12. ASSUME LinesGo PROVE (\E r \in Receipts : stock[r] # Nothing)
                                 => \E r \in Receipts : slips'[r] # {}
    BY <1>0, <1>12 DEF LinesGo
  <1>3. ASSUME NEW q \in Plans, OrderCreate(q) PROVE Closing'
    <2>1. /\ UNCHANGED <<receipt, stock, clerk>> /\ order.state = "none"
          /\ order'.state = "draft"
      BY <1>3 DEF OrderCreate, NoOrder
    <2>2. Owing' => Owing
      BY <1>0, <2>1 DEF Owing, Numbered
    <2>3. \A r \in Receipts : Unposted(r) => Unposted(r)'
      BY <2>1 DEF Unposted
    <2> QED  BY <1>0, <2>1, <2>2, <2>3, ClosingElsewhere
  <1>4. CASE Confirm
    <2>1. /\ order.state \in Editable /\ order'.received = order.received
          /\ order'.ordered = order.ordered /\ order'.numbered
          /\ UNCHANGED <<receipt, stock, clerk>>
      BY <1>0, <1>4 DEF Confirm, Orders
    <2>2. Owing' => Owing
      <3> SUFFICES ASSUME Complete', \A r \in Receipts : stock[r] = Nothing PROVE FALSE
        BY <1>0, <2>1 DEF Owing, Editable, Numbered
      <3>1. order.received = Nothing /\ order.ordered # Nothing
        BY <1>0, <2>1 DEF Begun, Arrived, Ordered, Editable
      <3>2. PICK l \in Lines : order.ordered[l] # 0
        BY <1>0, <3>1 DEF Orders, Nothing
      <3> QED  BY <1>0, <2>1, <3>1, <3>2 DEF Complete, Outstanding, Orders, Nothing
    <2>3. \A r \in Receipts : Unposted(r) => Unposted(r)'
      BY <2>1 DEF Unposted
    <2> QED  BY <1>0, <2>1, <2>2, <2>3, ClosingElsewhere
  <1>5. CASE OrderDelete
    <2>1. UNCHANGED stock /\ order'.state = "gone" /\ LinesGo
      BY <1>5 DEF OrderDelete, NoOrder
    <2> QED  BY <1>12, <2>1 DEF Closing, Owing
  <1>6. ASSUME NEW c \in Clerks, Act(c) PROVE Closing'
    <2>1. ASSUME \/ \E step \in Setting \cup {"save"} : Intend(c, step)
                 \/ \E r \in Receipts : BeginPost(c, r)
                 \/ Moved(c) \/ Refused(c)
          PROVE  Closing'
      <3>1. /\ UNCHANGED <<order, receipt, stock>> /\ clerk[c].at \in {"free", "move", "number"}
            /\ \A d \in Clerks \ {c} : clerk'[d] = clerk[d]
        BY <1>0, <2>1 DEF Intend, BeginPost, Moved, Refused
      <3> QED  BY <1>2, <3>1 DEF Closer
    <2>7. ASSUME NEW q \in Plans, NEW kept \in SUBSET Lines, OrderSave(c, q, kept) PROVE Closing'
      <3>1. /\ UNCHANGED <<receipt, stock>> /\ clerk[c].at = "save"
            /\ \A d \in Clerks \ {c} : clerk'[d] = clerk[d]
        BY <1>0, <2>7 DEF OrderSave
      <3>2. CASE UNCHANGED order
        BY <1>2, <3>1, <3>2 DEF Closer
      <3>3. CASE order' # order
        <4>1. LinesGo /\ order'.state \in Editable
          BY <1>0, <2>7, <3>3 DEF OrderSave, Orders
        <4> QED  BY <1>12, <3>1, <4>1 DEF Closing, Owing, Editable
      <3> QED  BY <3>2, <3>3
    <2>2. CASE SetState(c)
      <3>0. /\ UNCHANGED <<receipt, stock>> /\ clerk[c].at \in Setting
            /\ \A d \in Clerks \ {c} : clerk'[d] = clerk[d]
        BY <1>0, <2>2 DEF SetState
      <3>1. CASE order.numbered
        <4>1. CASE clerk[c].at = "close" /\ order.state # "gone"
          <5>1. order'.state = "done"
            BY <1>0, <2>2, <3>1, <4>1 DEF SetState, Allows, Numbered, Orders
          <5>2. order'.numbered
            BY <1>0, <2>2, <3>1 DEF SetState, Orders
          <5> QED  BY <1>1, <5>1, <5>2 DEF Owing
        <4>2. CASE clerk[c].at # "close"
          <5>1. UNCHANGED order
            BY <1>0, <2>2, <3>0, <3>1, <4>2 DEF SetState, Allows, Numbered, Setting
          <5> QED  BY <1>2, <3>0, <4>2, <5>1 DEF Closer, Setting
        <4> QED  BY <1>0, <3>1, <4>1, <4>2 DEF Numbered
      <3>2. CASE ~order.numbered
        <4>1. clerk[c].at # "close"
          BY <3>2 DEF Begun, ClosesNumbered
        <4>2. order'.state # "confirmed" /\ order'.numbered = order.numbered
          BY <1>0, <2>2, <3>0, <3>2, <4>1 DEF SetState, Orders, Setting, Numbered
        <4>3. Owing' => Owing
          BY <3>0, <3>2, <4>2 DEF Owing
        <4>4. \A r \in Receipts : Unposted(r) => Unposted(r)'
          BY <3>0 DEF Unposted
        <4> QED  BY <1>0, <3>0, <4>1, <4>3, <4>4, ClosingElsewhere DEF Closer, Setting
      <3> QED  BY <3>1, <3>2
    <2>3. CASE Move(c)
      <3>1. PICK p \in Receipts : p = clerk[c].receipt
        BY <1>0, <2>3 DEF Move, TypeInv, Working, Posting
      <3>2. /\ clerk[c].at = "move" /\ UNCHANGED <<order, receipt, slips>>
            /\ \A r \in Receipts \ {p} : stock'[r] = stock[r]
            /\ clerk'[c].at = "moved" /\ clerk'[c].receipt = p
        BY <1>0, <2>3, <3>1 DEF Move, Requests
      <3> SUFFICES ASSUME \A r \in Receipts : slips[r] = {} PROVE Unposted(p)'
        BY <3>2 DEF Closing
      <3>3. TrueCopy(c, p)
        BY <1>0, <3>1, <3>2 DEF InStep, Clean, Poster, Posting
      <3>4. stock'[p] # Nothing
        BY <1>0, <3>2, NextBegun DEF Begun, OnShelf
      <3> QED  BY <3>2, <3>3, <3>4 DEF Unposted, TrueCopy
    <2>4. CASE RecordMove(c)
      <3>1. PICK p \in Receipts : p = clerk[c].receipt
        BY <1>0, <2>4 DEF RecordMove, TypeInv, Working, Posting
      <3>2. /\ clerk[c].at = "moved" /\ UNCHANGED stock
            /\ \A r \in Receipts : receipt'[r].state = receipt[r].state
        <4>1. UNCHANGED receipt \/ receipt' = [receipt EXCEPT ![p].moved = @ \cup {clerk[c].now}]
          BY <2>4, <3>1 DEF RecordMove, Written
        <4>2. \A r \in Receipts : receipt'[r].state = receipt[r].state
          BY <1>0, <4>1 DEF Papers
        <4> QED  BY <2>4, <4>2 DEF RecordMove
      <3> SUFFICES ASSUME \A r \in Receipts : slips'[r] = {} PROVE Unposted(p)'
        BY DEF Closing
      <3>3. TrueCopy(c, p)
        <4>1. slips[p] = {}
          BY <1>0
        <4>2. Clean(p) /\ Poster(c, p)
          BY <3>1, <3>2, <4>1 DEF Clean, Poster, Posting
        <4> QED  BY <1>0, <4>2 DEF InStep
      <3>4. stock[p] # Nothing
        BY <3>1, <3>2 DEF Begun, OnShelf
      <3> QED  BY <3>2, <3>3, <3>4 DEF Unposted, TrueCopy
    <2>5. CASE Post(c)
      <3>1. PICK p \in Receipts : p = clerk[c].receipt
        BY <2>5 DEF Post, TypeInv, Working, Posting, IInv
      <3>2. /\ clerk[c].at = "number" /\ UNCHANGED <<order, stock, slips>>
            /\ \A d \in Clerks \ {c} : clerk'[d] = clerk[d]
            /\ \A r \in Receipts \ {p} : receipt'[r] = receipt[r]
            /\ UNCHANGED receipt \/ (clerk'[c].at = "settle" /\ clerk'[c].receipt = p)
        BY <1>0, <2>5, <3>1 DEF Post, Free
      <3>3. Owing' <=> Owing
        BY <3>2 DEF Owing, Complete, Outstanding
      <3>4. \A r \in Receipts : Unposted(r) => Unposted(r)' \/ \E d \in Clerks : Closer(d)'
        BY <3>2 DEF Unposted, Closer
      <3> QED  BY <1>0, <3>2, <3>3, <3>4, ClosingElsewhere DEF Closer
    <2>6. CASE Settle(c)
      <3>1. /\ clerk[c].at = "settle" /\ UNCHANGED <<order, receipt, stock>>
            /\ clerk[c].receipt \in Receipts
            /\ Slip(clerk[c].receipt, "early", order.state \notin Numbered)
        BY <1>0, <2>6 DEF Settle, TypeInv, Working
      <3> SUFFICES ASSUME Owing, \A r \in Receipts : slips'[r] = {} PROVE Closer(c)'
        BY <3>1 DEF Closing, Owing, Complete, Outstanding
      <3>2. order.state \in Numbered
        BY <1>0, <3>1 DEF Slip
      <3>3. clerk'[c].at = "close" /\ clerk'[c].receipt = clerk[c].receipt
        BY <1>0, <2>6, <3>2 DEF Settle, Requests, Owing
      <3> QED  BY <3>1, <3>3 DEF Closer
    <2> QED  BY <1>6, <2>1, <2>2, <2>3, <2>4, <2>5, <2>6, <2>7 DEF Act
  <1>7. ASSUME NEW c \in Clerks, Stops(c) PROVE Closing'
    <2>1. /\ UNCHANGED <<order, receipt, stock>>
          /\ \A d \in Clerks \ {c} : clerk'[d] = clerk[d]
      BY <1>0, <1>7 DEF Stops
    <2>2. CASE Closer(c)
      <3>1. slips'[clerk[c].receipt] # {} /\ clerk[c].receipt \in Receipts
        BY <1>0, <1>7, <2>2 DEF Stops, Closer, Sensible
      <3> QED  BY <3>1 DEF Closing
    <2> QED  BY <1>2, <2>1, <2>2
  <1>8. ASSUME NEW r \in Receipts, UNCHANGED <<order, stock, clerk>>,
               Slip(r, "changed", PostersOf(r) # {} \/ stock[r] # Nothing),
               \A p \in Receipts \ {r} : receipt'[p] = receipt[p]
        PROVE  Closing'
    <2>1. Owing' <=> Owing
      BY <1>8 DEF Owing, Complete, Outstanding
    <2>2. stock[r] # Nothing => slips'[r] # {}
      BY <1>0, <1>8 DEF Slip
    <2>3. \A p \in Receipts : Unposted(p) => Unposted(p)' \/ slips'[r] # {}
      BY <1>8, <2>2 DEF Unposted
    <2> QED  BY <1>0, <1>8, <2>1, <2>3, ClosingElsewhere
  <1>9. ASSUME NEW r \in Receipts, NEW q \in Plans, ReceiptSave(r, q) PROVE Closing'
    BY <1>0, <1>8, <1>9 DEF ReceiptSave
  <1>10. ASSUME NEW r \in Receipts, NEW how, ReceiptWithdraw(r, how) PROVE Closing'
    BY <1>0, <1>8, <1>10 DEF ReceiptWithdraw
  <1>11. CASE UNCHANGED vars
    <2>1. (Owing' <=> Owing) /\ \A r \in Receipts : Unposted(r) => Unposted(r)'
      BY <1>11 DEF vars, Owing, Complete, Outstanding, Unposted
    <2> QED  BY <1>0, <1>11, <2>1, ClosingElsewhere DEF vars
  <1> QED  BY <1>3, <1>4, <1>5, <1>6, <1>7, <1>9, <1>10, <1>11 DEF Next

-----------------------------------------------------------------------------
OrderIInv == IInv /\ Begun /\ Closing

LEMMA InitOrderIInv == Sensible /\ Init => OrderIInv
  <1> SUFFICES ASSUME Sensible, Init PROVE OrderIInv
    OBVIOUS
  <1>1. IInv
    BY InitIInv
  <1>2. Begun
    BY DEF Init, Begun, Ordered, Untouched, ClosesNumbered, OnShelf, Arrived, NoOrder, NoPaper, Free
  <1>3. Closing
    BY DEF Init, Closing, Owing, NoOrder
  <1> QED  BY <1>1, <1>2, <1>3 DEF OrderIInv

LEMMA NextOrderIInv == Sensible /\ OrderIInv /\ [Next]_vars => OrderIInv'
  BY NextIInv, NextBegun, NextClosing DEF OrderIInv, IInv

LEMMA InitCounted == FinitelyMany /\ Init => Counted
  <1> SUFFICES ASSUME FinitelyMany, Init, NEW l \in Lines
               PROVE  order.received[l] + SumOf(InHand(l), Clerks) = SumOf(Shelf(l), Receipts)
    BY DEF Counted
  <1> DEFINE f == InHand(l)
             g == Shelf(l)
  <1>1. \A c \in Clerks : f[c] = 0
    BY DEF InHand, Init, Free
  <1>2. \A r \in Receipts : g[r] = 0
    BY DEF Shelf, Init, Nothing
  <1>3. order.received[l] = 0
    BY DEF Init, NoOrder, Nothing
  <1> HIDE DEF f, g
  <1>4. SumOf(f, Clerks) = 0 /\ SumOf(g, Receipts) = 0
    BY <1>1, <1>2, SumZero DEF FinitelyMany
  <1> QED  BY <1>3, <1>4 DEF f, g

LEMMA CountedMeans == FinitelyMany /\ TypeInv /\ Counted => ReceivedAsMoved
  <1> SUFFICES ASSUME FinitelyMany, TypeInv, Counted, NEW l \in Lines,
                      \A r \in Receipts :
                         slips[r] \cap {"lost", "astray"} = {} /\ Unwritten(r, l) = {}
               PROVE  order.received[l] = SumOf(Shelf(l), Receipts)
    BY DEF ReceivedAsMoved, Shelf
  <1> DEFINE f == InHand(l)
  <1>1. \A c \in Clerks : f[c] = 0
    BY DEF InHand, Unwritten, TypeInv, Working, Posting
  <1>2. order.received[l] \in Nat
    BY DEF TypeInv, TypeOK, Orders
  <1>3. order.received[l] + SumOf(f, Clerks) = SumOf(Shelf(l), Receipts)
    BY DEF Counted, Whole
  <1> HIDE DEF f
  <1>4. SumOf(f, Clerks) = 0
    BY <1>1, SumZero DEF FinitelyMany
  <1> QED  BY <1>2, <1>3, <1>4

LEMMA ClosingMeans == OrderIInv => OrderCloses
  BY DEF OrderIInv, Closing, Owing, Closer, Unposted, OrderCloses, AllIn, Complete, Numbered

\* All that a step keeps, and what it comes to.
WholeInv == OrderIInv /\ Counted

LEMMA InitWhole == Sensible /\ FinitelyMany /\ Init => WholeInv
  BY InitOrderIInv, InitCounted DEF WholeInv

LEMMA NextWhole == Sensible /\ FinitelyMany /\ WholeInv /\ [Next]_vars => WholeInv'
  BY NextOrderIInv, NextCounted DEF WholeInv, OrderIInv, IInv

LEMMA WholeMeans ==
    ASSUME FinitelyMany, WholeInv
    PROVE  TypeOK /\ ReceivedAsMoved /\ PostedMovedOnce /\ OrderCloses
  BY CountedMeans, InStepMeans, ClosingMeans DEF WholeInv, OrderIInv, IInv, TypeInv

\* ReceivedAsMoved: what the order says has arrived of a line is the sum of
\* what was put on the shelf for it, for any number of receipts and requests,
\* unless one died between a movement and its record or the order's lines were
\* replaced with goods on the way.
THEOREM CountsWhatCame ==
    ASSUME Sensible, FinitelyMany
    PROVE  Spec => []ReceivedAsMoved
  BY InitWhole, NextWhole, WholeMeans, PTL DEF Spec

\* OrderCloses: an order everything has arrived against is closed by the time
\* no request is under way and no receipt is half posted, whether its receipts
\* were saved and begun before it was confirmed or after; what is left out is a
\* receipt whose post was over before the confirmation.
THEOREM ClosesWhenAllCame ==
    ASSUME Sensible
    PROVE  Spec => []OrderCloses
  BY InitOrderIInv, NextOrderIInv, ClosingMeans, PTL DEF Spec
=============================================================================
