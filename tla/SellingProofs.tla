--------------------------- MODULE SellingProofs ---------------------------
(***************************************************************************)
(* What holds of a sales order, its deliveries and their invoices for any  *)
(* number of them and of requests: their types, that the order keeps its   *)
(* number and counts what left the shelf, and that a delivery is marked    *)
(* with what its invoices claim.                                           *)
(***************************************************************************)
EXTENDS Selling, SumsProofs

\* What the steps make of a request is one.
LEMMA RequestTyped ==
    ASSUME Sensible, NEW q \in Requests
    PROVE  /\ Free \in Requests
           /\ \A s \in {"moved", "number", "mark", "commit"} : [q EXCEPT !.at = s] \in Requests
           /\ \A n \in Nat : [q EXCEPT !.at = "issue", !.number = n] \in Requests
           /\ \A s \in {"ask", "set"}, to \in {"sent", "confirmed", "done", "cancelled"} :
                [Free EXCEPT !.at = s, !.to = to] \in Requests
           /\ [Free EXCEPT !.at = "settle"] \in Requests
           /\ \A n \in Nat : [Free EXCEPT !.at = "save", !.load = n] \in Requests
           /\ \A s \in Moving, d \in Deliveries, e, a, n \in Nat :
                [Free EXCEPT !.at = s, !.on = d, !.edition = e, !.against = a, !.load = n]
                  \in Requests
           /\ \A i \in Invoices, lines \in Claims, names \in [Deliveries -> Nat] :
                [Free EXCEPT !.at = "freeze", !.on = i, !.lines = lines, !.names = names]
                  \in Requests
  <1> USE DEF Requests, Issuing, Moving, Billing
  <1>1. Nothing \in Claims /\ 0 \in Sizes /\ Nothing \in [Deliveries -> Nat]
    BY DEF Sensible, Nothing, Claims, Sizes
  <1>2. Free \in Requests
    BY <1>1 DEF Free
  <1>3. /\ \A s \in {"moved", "number", "mark", "commit"} : [q EXCEPT !.at = s] \in Requests
        /\ \A n \in Nat : [q EXCEPT !.at = "issue", !.number = n] \in Requests
    OBVIOUS
  <1>4. /\ \A s \in {"ask", "set"}, to \in {"sent", "confirmed", "done", "cancelled"} :
             [Free EXCEPT !.at = s, !.to = to] \in Requests
        /\ [Free EXCEPT !.at = "settle"] \in Requests
    BY <1>1 DEF Free
  <1>5. ASSUME NEW s \in Moving, NEW d \in Deliveries, NEW e \in Nat, NEW a \in Nat, NEW n \in Nat
        PROVE  [Free EXCEPT !.at = s, !.on = d, !.edition = e, !.against = a, !.load = n] \in Requests
    BY <1>1 DEF Free
  <1>6. \A i \in Invoices, lines \in Claims, names \in [Deliveries -> Nat] :
          [Free EXCEPT !.at = "freeze", !.on = i, !.lines = lines, !.names = names] \in Requests
    BY <1>1 DEF Free
  <1>7. \A n \in Nat : [Free EXCEPT !.at = "save", !.load = n] \in Requests
    BY <1>1 DEF Free
  <1> QED  BY <1>2, <1>3, <1>4, <1>5, <1>6, <1>7

\* A request that moves goods is about a delivery, one that bills about an
\* invoice, and one that sets a state has one to set.
Working(q) ==
    /\ q.at \in Moving => q.on \in Deliveries
    /\ q.at \in Billing => q.on \in Invoices
    /\ q.at \in Issuing \cup {"set"} => q.to # "none"

ClerksInv == clerk \in [Clerks -> Requests] /\ \A c \in Clerks : Working(clerk[c])

TypeInv == TypeOK /\ ClerksInv

LEMMA InitTypeInv == Sensible /\ Init => TypeInv
  <1> SUFFICES ASSUME Sensible, Init PROVE TypeInv
    OBVIOUS
  <1>1. Nothing \in Claims /\ Nothing \in [Deliveries -> Nat] /\ 0 \in Sizes
    BY DEF Sensible, Nothing, Claims, Sizes
  <1>2. NoOrder \in Orders
    BY <1>1 DEF NoOrder, Orders
  <1>3. /\ NoPaper \in Papers
        /\ [state |-> "none", lines |-> Nothing, names |-> Nothing] \in InvoiceRows
    BY <1>1 DEF NoPaper, Papers, InvoiceRows
  <1>4. Free \in Requests /\ Working(Free)
    BY <1>1 DEF Free, Requests, Working, Moving, Billing, Issuing
  <1> QED  BY <1>1, <1>2, <1>3, <1>4 DEF Init, TypeInv, TypeOK, ClerksInv

\* A request that goes from one step to the next is still one that works.
LEMMA NextClerks ==
    ASSUME Sensible, TypeInv, [Next]_vars
    PROVE  ClerksInv'
  <1>0. ClerksInv
    BY DEF TypeInv
  <1>1. ASSUME NEW c \in Clerks, NEW q \in Requests, Working(q),
               clerk' = [clerk EXCEPT ![c] = q]
        PROVE  ClerksInv'
    <2>1. clerk' \in [Clerks -> Requests] /\ \A d \in Clerks : clerk'[d] \in {q, clerk[d]}
      BY <1>0, <1>1 DEF ClerksInv
    <2> QED  BY <1>0, <1>1, <2>1, Zenon DEF ClerksInv
  <1>2. CASE UNCHANGED clerk
    BY <1>0, <1>2 DEF ClerksInv
  <1>3. ASSUME NEW c \in Clerks, Act(c) PROVE ClerksInv'
    <2>0. clerk[c] \in Requests /\ Working(clerk[c])
      BY <1>0 DEF ClerksInv
    <2>f. Free \in Requests /\ Working(Free)
      BY <2>0, RequestTyped DEF Free, Working, Moving, Billing, Issuing
    <2>1. ASSUME clerk' = [clerk EXCEPT ![c] = Free] PROVE ClerksInv'
      BY <1>1, <2>1, <2>f
    <2>2. ASSUME NEW s \in {"ask", "set"}, NEW to \in {"sent", "confirmed", "done", "cancelled"},
                 clerk' = [clerk EXCEPT ![c] = [Free EXCEPT !.at = s, !.to = to]]
          PROVE  ClerksInv'
      <3> DEFINE q == [Free EXCEPT !.at = s, !.to = to]
      <3>1. q \in Requests
        BY <2>0, RequestTyped
      <3>2. Working(q)
        BY DEF Working, Free, Moving, Billing, Issuing
      <3> QED  BY <1>1, <2>2, <3>1, <3>2
    <2>3. ASSUME NEW s \in {"moved", "number", "mark", "commit"},
                 clerk' = [clerk EXCEPT ![c] = [clerk[c] EXCEPT !.at = s]],
                 s \in Moving => clerk[c].at \in Moving,
                 s \in Billing => clerk[c].at \in Billing
          PROVE  ClerksInv'
      <3> DEFINE q == [clerk[c] EXCEPT !.at = s]
      <3>1. q \in Requests
        BY <2>0, RequestTyped
      <3>2. q.at = s /\ q.on = clerk[c].on
        BY <2>0 DEF Requests
      <3>3. Working(q)
        BY <2>0, <2>3, <3>2 DEF Working, Issuing
      <3> QED  BY <1>1, <2>3, <3>1, <3>3
    <2>4. ASSUME NEW to \in {"sent", "confirmed"}, BeginIssue(c, to) PROVE ClerksInv'
      BY <2>2, <2>4 DEF BeginIssue
    <2>5. CASE AskNumber(c)
      <3> DEFINE q == [clerk[c] EXCEPT !.at = "issue", !.number = order.number]
      <3>1. order.number \in Nat
        BY DEF TypeInv, TypeOK, Orders
      <3>2. q \in Requests
        BY <2>0, <3>1, RequestTyped
      <3>3. q.at = "issue" /\ q.to = clerk[c].to /\ clerk[c].at = "ask"
        BY <2>0, <2>5 DEF Requests, AskNumber
      <3>4. Working(q)
        BY <2>0, <3>3 DEF Working, Moving, Billing, Issuing
      <3>5. clerk' = [clerk EXCEPT ![c] = q]
        BY <1>0, <2>5 DEF AskNumber, ClerksInv
      <3> QED  BY <1>1, <3>2, <3>4, <3>5
    <2>6. CASE BeginCancel(c) \/ BeginClose(c)
      BY <2>2, <2>6 DEF BeginCancel, BeginClose
    <2>7. ASSUME Issue(c) \/ SetState(c) \/ CommitInvoice(c) \/ Refused(c) \/ Stops(c)
          PROVE  ClerksInv'
      BY <2>1, <2>7 DEF Issue, SetState, CommitInvoice, Refused, Stops
    <2>8. ASSUME NEW d \in Deliveries, BeginPost(c, d) PROVE ClerksInv'
      <3>1. PICK s \in {"number", "move"} :
              clerk' = [clerk EXCEPT ![c] =
                [Free EXCEPT !.at = s, !.on = d, !.edition = delivery[d].edition,
                             !.against = order.edition, !.load = delivery[d].quantity]]
        BY <2>8 DEF BeginPost
      <3> DEFINE q == [Free EXCEPT !.at = s, !.on = d, !.edition = delivery[d].edition,
                                   !.against = order.edition, !.load = delivery[d].quantity]
      <3>2. /\ delivery[d].quantity \in Nat /\ delivery[d].edition \in Nat
            /\ order.edition \in Nat /\ s \in Moving
        BY DEF TypeInv, TypeOK, Papers, Orders, Moving, Sizes, Sensible
      <3>3. q \in Requests
        BY <2>0, <3>2, RequestTyped
      <3>4. Working(q)
        BY DEF Working, Free, Moving, Billing, Issuing
      <3> QED  BY <1>1, <3>1, <3>3, <3>4
    <2>9. CASE Move(c)
      <3>1. clerk' = [clerk EXCEPT ![c] = [clerk[c] EXCEPT !.at = "moved"]] /\ clerk[c].at = "move"
        BY <1>0, <2>9 DEF Move, ClerksInv
      <3> QED  BY <2>3, <3>1 DEF Moving, Billing
    <2>10. CASE RecordMove(c)
      <3>1. /\ clerk[c].at = "moved"
            /\ clerk' = [clerk EXCEPT ![c] = [clerk[c] EXCEPT !.at = "number"]]
        BY <1>0, <2>10 DEF RecordMove, ClerksInv
      <3> QED  BY <2>3, <3>1 DEF Moving, Billing
    <2>11. CASE PostDelivery(c)
      <3> DEFINE q == [Free EXCEPT !.at = "settle"]
      <3>1. clerk' = [clerk EXCEPT ![c] = q] \/ clerk' = [clerk EXCEPT ![c] = Free]
        BY <2>11 DEF PostDelivery
      <3>2. q \in Requests
        BY <2>0, RequestTyped
      <3>3. Working(q)
        BY DEF Working, Free, Moving, Billing, Issuing
      <3> QED  BY <1>1, <2>1, <3>1, <3>2, <3>3
    <2>12. CASE Settle(c)
      BY <2>1, <2>2, <2>12 DEF Settle
    <2>13. ASSUME NEW i \in Invoices, BeginInvoice(c, i) PROVE ClerksInv'
      <3> DEFINE q == [Free EXCEPT !.at = "freeze", !.on = i, !.lines = invoice[i].lines,
                                   !.names = invoice[i].names]
      <3>1. invoice[i].lines \in Claims /\ invoice[i].names \in [Deliveries -> Nat]
        BY DEF TypeInv, TypeOK, InvoiceRows
      <3>2. q \in Requests
        BY <2>0, <3>1, RequestTyped
      <3>3. Working(q)
        BY DEF Working, Free, Moving, Billing, Issuing
      <3>4. clerk' = [clerk EXCEPT ![c] = q]
        BY <2>13 DEF BeginInvoice
      <3> QED  BY <1>1, <3>2, <3>3, <3>4
    <2>14. CASE Freeze(c)
      <3>1. /\ clerk[c].at = "freeze"
            /\ \/ clerk' = [clerk EXCEPT ![c] = [clerk[c] EXCEPT !.at = "mark"]]
               \/ clerk' = [clerk EXCEPT ![c] = Free]
        BY <1>0, <2>14 DEF Freeze, ClerksInv
      <3> QED  BY <2>1, <2>3, <3>1 DEF Moving, Billing
    <2>15. CASE MarkInvoiced(c)
      <3>1. /\ clerk[c].at = "mark"
            /\ \/ clerk' = [clerk EXCEPT ![c] = [clerk[c] EXCEPT !.at = "commit"]]
               \/ clerk' = [clerk EXCEPT ![c] = Free]
        BY <1>0, <2>15 DEF MarkInvoiced, ClerksInv
      <3> QED  BY <2>1, <2>3, <3>1 DEF Moving, Billing
    <2>16. CASE BeginOrderSave(c)
      <3> DEFINE q == [Free EXCEPT !.at = "save", !.load = order.delivered]
      <3>1. order.delivered \in Nat
        BY DEF TypeInv, TypeOK, Orders
      <3>2. q \in Requests
        BY <2>0, <3>1, RequestTyped
      <3>3. Working(q)
        BY DEF Working, Free, Moving, Billing, Issuing
      <3>4. clerk' = [clerk EXCEPT ![c] = q]
        BY <2>16 DEF BeginOrderSave
      <3> QED  BY <1>1, <3>2, <3>3, <3>4
    <2>17. ASSUME NEW n, NEW kept, OrderSave(c, n, kept) PROVE ClerksInv'
      BY <2>1, <2>17 DEF OrderSave
    <2> QED  BY <1>3, <2>4, <2>5, <2>6, <2>7, <2>8, <2>9, <2>10, <2>11, <2>12, <2>13, <2>14, <2>15,
                <2>16, <2>17 DEF Act
  <1>4. ASSUME NEW n \in Sizes \ {0}, OrderCreate(n) \/ (\E d \in Deliveries : DeliverySave(d, n))
        PROVE  ClerksInv'
    BY <1>2, <1>4 DEF OrderCreate, DeliverySave
  <1>5. ASSUME OrderDelete \/ (\E d \in Deliveries : \E how : DeliveryWithdraw(d, how)) PROVE ClerksInv'
    BY <1>2, <1>5 DEF OrderDelete, DeliveryWithdraw
  <1>6. ASSUME NEW i \in Invoices, InvoiceVoid(i) \/ (\E lines \in Claims : InvoiceSave(i, lines))
        PROVE  ClerksInv'
    BY <1>2, <1>6 DEF InvoiceVoid, InvoiceSave
  <1>7. CASE UNCHANGED vars
    BY <1>2, <1>7 DEF vars
  <1> QED  BY <1>3, <1>4, <1>5, <1>6, <1>7 DEF Next

\* The order, the deliveries and the invoices keep their shape, and the
\* history only grows.
LEMMA NextDocuments ==
    ASSUME Sensible, TypeInv, [Next]_vars
    PROVE  TypeOK' /\ slips \subseteq slips'
  <1> DEFINE Kept == /\ order' \in Orders
                     /\ taken' \in Nat
                     /\ delivery' \in [Deliveries -> Papers]
                     /\ gone' \in [Deliveries -> Nat]
                     /\ invoice' \in [Invoices -> InvoiceRows]
                     /\ slips' \in SUBSET Slips /\ slips \subseteq slips'
                     /\ stops' \in Nat
  <1>0. TypeOK /\ ClerksInv
    BY DEF TypeInv
  <1>s. ASSUME NEW kind \in Slips, NEW when, Slip(kind, when)
        PROVE  slips' \in SUBSET Slips /\ slips \subseteq slips'
    BY <1>0, <1>s DEF Slip, TypeOK
  <1>o. ASSUME order' \in Orders, taken' \in Nat,
               UNCHANGED <<delivery, gone, invoice, stops>>,
               slips' \in SUBSET Slips /\ slips \subseteq slips'
        PROVE  Kept
    BY <1>0, <1>o DEF TypeOK
  <1>d. ASSUME delivery' \in [Deliveries -> Papers],
               UNCHANGED <<taken, gone, invoice, stops>>, order' \in Orders,
               slips' \in SUBSET Slips /\ slips \subseteq slips'
        PROVE  Kept
    BY <1>0, <1>d DEF TypeOK
  <1>i. ASSUME NEW i \in Invoices, NEW r \in InvoiceRows, invoice' = [invoice EXCEPT ![i] = r],
               UNCHANGED <<order, taken, delivery, gone, stops>>,
               slips' \in SUBSET Slips /\ slips \subseteq slips'
        PROVE  Kept
    BY <1>0, <1>i DEF TypeOK
  <1>u. ASSUME UNCHANGED <<order, taken, delivery, gone, invoice>>, stops' \in Nat,
               slips' \in SUBSET Slips /\ slips \subseteq slips'
        PROVE  Kept
    BY <1>0, <1>u DEF TypeOK
  <1>1. ASSUME NEW n \in Sizes \ {0}, OrderCreate(n) PROVE Kept
    <2>1. order' \in Orders
      BY <1>1 DEF OrderCreate, NoOrder, Orders, Sizes, Sensible
    <2> QED  BY <1>0, <1>1, <1>o, <2>1 DEF OrderCreate, TypeOK
  <1>2. ASSUME OrderDelete PROVE Kept
    <2>1. order' \in Orders
      BY <1>2 DEF OrderDelete, NoOrder, Orders, Sizes, Sensible
    <2>2. slips' \in SUBSET Slips /\ slips \subseteq slips'
      BY <1>2, <1>s DEF OrderDelete, LineGoes, Slips
    <2> QED  BY <1>0, <1>2, <1>o, <2>1, <2>2 DEF OrderDelete, TypeOK
  <1>3. ASSUME NEW n \in Sizes \ {0}, NEW d \in Deliveries, DeliverySave(d, n) PROVE Kept
    <2> DEFINE x == delivery[d].crossed \/ BusyWith(d, Moving) # {}
               p == [NoPaper EXCEPT !.state = "draft", !.edition = delivery[d].edition + 1,
                                    !.quantity = n, !.crossed = x]
    <2>0. x \in BOOLEAN /\ delivery[d].edition + 1 \in Nat
      BY <1>0 DEF TypeOK, Papers
    <2>1. p \in Papers
      <3> HIDE DEF x
      <3> QED  BY <2>0 DEF Papers, NoPaper
    <2>2. delivery' = [delivery EXCEPT ![d] = p]
      BY <1>3 DEF DeliverySave
    <2>3. delivery' \in [Deliveries -> Papers]
      BY <1>0, <2>1, <2>2 DEF TypeOK
    <2> QED  BY <1>0, <1>3, <1>d, <2>3 DEF DeliverySave, TypeOK
  <1>4. ASSUME NEW d \in Deliveries, NEW how \in {"cancelled", "gone"}, DeliveryWithdraw(d, how)
        PROVE  Kept
    <2> DEFINE p == [delivery[d] EXCEPT !.state = how]
    <2>1. p \in Papers
      BY <1>0 DEF TypeOK, Papers
    <2>2. delivery' = [delivery EXCEPT ![d] = p]
      BY <1>0, <1>4 DEF DeliveryWithdraw, TypeOK
    <2>3. delivery' \in [Deliveries -> Papers]
      BY <1>0, <2>1, <2>2 DEF TypeOK
    <2> QED  BY <1>0, <1>4, <1>d, <2>3 DEF DeliveryWithdraw, TypeOK
  <1>5. ASSUME NEW i \in Invoices, InvoiceVoid(i) PROVE Kept
    <2> DEFINE r == [invoice[i] EXCEPT !.state = "voided"]
    <2>1. r \in InvoiceRows
      BY <1>0 DEF TypeOK, InvoiceRows
    <2>2. invoice' = [invoice EXCEPT ![i] = r]
      BY <1>0, <1>5 DEF InvoiceVoid, TypeOK
    <2> QED  BY <1>0, <1>5, <1>i, <2>1, <2>2 DEF InvoiceVoid, TypeOK
  <1>6. ASSUME NEW i \in Invoices, NEW lines \in Claims, InvoiceSave(i, lines) PROVE Kept
    <2> DEFINE names == [d \in Deliveries |-> IF lines[d] > 0 THEN delivery[d].edition ELSE 0]
               r == [state |-> "draft", lines |-> lines, names |-> names]
    <2>0. names \in [Deliveries -> Nat]
      BY <1>0 DEF TypeOK, Papers
    <2>1. r \in InvoiceRows
      BY <2>0 DEF InvoiceRows
    <2>2. invoice' = [invoice EXCEPT ![i] = r]
      BY <1>6 DEF InvoiceSave
    <2>3. slips' \in SUBSET Slips /\ slips \subseteq slips'
      BY <1>6, <1>s DEF InvoiceSave, Slips
    <2> QED  BY <1>6, <1>i, <2>1, <2>2, <2>3 DEF InvoiceSave
  <1>7. ASSUME NEW c \in Clerks, Act(c) PROVE Kept
    <2>0. clerk[c] \in Requests /\ Working(clerk[c])
      BY <1>0 DEF ClerksInv
    <2>1. ASSUME \/ \E to \in {"sent", "confirmed"} : BeginIssue(c, to)
                 \/ BeginOrderSave(c) \/ BeginCancel(c) \/ BeginClose(c) \/ Settle(c)
                 \/ \E i \in Invoices : BeginInvoice(c, i)
                 \/ Freeze(c) \/ Refused(c)
          PROVE  Kept
      <3>1. UNCHANGED <<order, taken, delivery, gone, invoice, slips, stops>>
        BY <2>1 DEF BeginOrderSave, BeginIssue, BeginCancel, BeginClose, Settle, BeginInvoice, Freeze, Refused
      <3> QED  BY <1>0, <1>u, <3>1 DEF TypeOK
    <2>2. ASSUME AskNumber(c) \/ (\E d \in Deliveries : BeginPost(c, d)) PROVE Kept
      <3>1. /\ UNCHANGED <<order, taken, delivery, gone, invoice, stops>>
            /\ Slip("asked", Busy({"issue"}) # {}) \/ \E d : Slip("raced", BusyWith(d, Moving) # {})
        BY <2>2 DEF AskNumber, BeginPost
      <3>2. slips' \in SUBSET Slips /\ slips \subseteq slips'
        BY <1>s, <3>1 DEF Slips
      <3> QED  BY <1>0, <1>u, <3>1, <3>2 DEF TypeOK
    <2>3. CASE Issue(c)
      <3>1. taken' \in Nat
        BY <1>0, <2>3 DEF Issue, TypeOK
      <3>2. clerk[c].to \in {"sent", "confirmed", "done", "cancelled"} /\ clerk[c].number \in Nat
        BY <2>0, <2>3 DEF Issue, Working, Issuing, Requests
      <3>3. PICK n \in Nat : UNCHANGED order \/ order' = [order EXCEPT !.state = clerk[c].to,
                                                                       !.number = n]
        <4> DEFINE m == KeepNumber(IF clerk[c].number = 0 THEN taken + 1 ELSE clerk[c].number)
        <4>1. m \in Nat
          BY <1>0, <3>2 DEF KeepNumber, TypeOK, Orders
        <4>2. UNCHANGED order \/ order' = [order EXCEPT !.state = clerk[c].to, !.number = m]
          BY <2>3 DEF Issue
        <4> QED  BY <4>1, <4>2
      <3>4. order' \in Orders
        BY <1>0, <3>2, <3>3 DEF TypeOK, Orders
      <3> QED  BY <1>0, <1>o, <2>3, <3>1, <3>4 DEF Issue, TypeOK
    <2>4. CASE SetState(c)
      <3>1. clerk[c].to \in {"sent", "confirmed", "done", "cancelled"}
        BY <2>0, <2>4 DEF SetState, Working, Requests
      <3>2. order' \in Orders
        BY <1>0, <2>4, <3>1 DEF SetState, TypeOK, Orders
      <3> QED  BY <1>0, <1>o, <2>4, <3>2 DEF SetState, TypeOK
    <2>5. CASE Move(c)
      <3>1. clerk[c].on \in Deliveries /\ clerk[c].load \in Nat
        BY <2>0, <2>5 DEF Move, Working, Moving, Requests, Sizes, Sensible
      <3>2. gone' \in [Deliveries -> Nat]
        BY <1>0, <2>5, <3>1 DEF Move, TypeOK
      <3> QED  BY <1>0, <2>5, <3>2 DEF Move, TypeOK
    <2>6. CASE RecordMove(c)
      <3>1. clerk[c].on \in Deliveries /\ clerk[c].load \in Nat
        BY <2>0, <2>6 DEF RecordMove, Working, Moving, Requests
      <3> DEFINE p == [delivery[clerk[c].on] EXCEPT !.moved = TRUE]
      <3>2. p \in Papers
        BY <1>0, <3>1 DEF TypeOK, Papers
      <3>3. UNCHANGED delivery \/ delivery' = [delivery EXCEPT ![clerk[c].on] = p]
        BY <1>0, <2>6, <3>1 DEF RecordMove, Written, TypeOK
      <3>4. order' \in Orders
        <4>1. order.delivered + clerk[c].load \in Nat
          BY <1>0, <3>1 DEF TypeOK, Orders
        <4>2. \A n \in Nat : [order EXCEPT !.delivered = n] \in Orders
          BY <1>0 DEF TypeOK, Orders
        <4>3. UNCHANGED order
              \/ order' = [order EXCEPT !.delivered = order.delivered + clerk[c].load]
          BY <2>6 DEF RecordMove
        <4> QED  BY <1>0, <4>1, <4>2, <4>3 DEF TypeOK
      <3>5. delivery' \in [Deliveries -> Papers]
        BY <1>0, <3>1, <3>2, <3>3 DEF TypeOK
      <3>6. slips' \in SUBSET Slips /\ slips \subseteq slips'
        BY <2>6, <1>s DEF RecordMove, Slips
      <3> QED  BY <1>d, <2>6, <3>4, <3>5, <3>6 DEF RecordMove
    <2>7. CASE PostDelivery(c)
      <3>1. clerk[c].on \in Deliveries
        BY <2>0, <2>7 DEF PostDelivery, Working, Moving
      <3> DEFINE p == [delivery[clerk[c].on] EXCEPT !.state = "done"]
      <3>2. p \in Papers
        BY <1>0, <3>1 DEF TypeOK, Papers
      <3>3. UNCHANGED delivery \/ delivery' = [delivery EXCEPT ![clerk[c].on] = p]
        BY <1>0, <2>7, <3>1 DEF PostDelivery, TypeOK
      <3>4. UNCHANGED <<order, taken, gone, invoice, slips, stops>>
        BY <2>7 DEF PostDelivery
      <3>5. delivery' \in [Deliveries -> Papers]
        BY <1>0, <3>1, <3>2, <3>3 DEF TypeOK
      <3> QED  BY <1>0, <1>d, <3>4, <3>5 DEF TypeOK
    <2>11. ASSUME NEW n \in Sizes \ {0}, NEW kept, OrderSave(c, n, kept) PROVE Kept
      <3>1. slips' \in SUBSET Slips /\ slips \subseteq slips'
        <4>1. UNCHANGED slips \/ LineGoes
          BY <2>11 DEF OrderSave
        <4>2. LineGoes => slips' \in SUBSET Slips /\ slips \subseteq slips'
          BY <1>s DEF LineGoes, Slips
        <4> QED  BY <1>0, <4>1, <4>2 DEF TypeOK
      <3>2. order' \in Orders
        <4>1. \A m \in Nat : [order EXCEPT !.edition = order.edition + 1, !.ordered = n,
                                            !.delivered = m] \in Orders
          <5>1. order.edition + 1 \in Nat
            BY <1>0 DEF TypeOK, Orders
          <5>2. \A e, m \in Nat : [order EXCEPT !.edition = e, !.ordered = n, !.delivered = m]
                                    \in Orders
            BY <1>0 DEF TypeOK, Orders
          <5> QED  BY <5>1, <5>2
        <4>2. PICK m \in Nat : m = IF kept THEN clerk[c].load ELSE 0
          BY <2>0 DEF Requests
        <4>3. UNCHANGED order \/ order' = [order EXCEPT !.edition = order.edition + 1,
                                                       !.ordered = n, !.delivered = m]
          BY <2>11, <4>2 DEF OrderSave
        <4> QED  BY <1>0, <4>1, <4>3 DEF TypeOK
      <3> QED  BY <1>0, <1>o, <2>11, <3>1, <3>2 DEF OrderSave, TypeOK
    <2>8. CASE MarkInvoiced(c)
      <3>1. \A d \in Deliveries : clerk[c].lines[d] \in Nat
        BY <2>0 DEF Requests, Claims, Sizes, Sensible
      <3>2. PICK more \in [Deliveries -> Nat] :
              delivery' = [d \in Deliveries |-> [delivery[d] EXCEPT !.invoiced = @ + more[d]]]
        <4> DEFINE m == [d \in Deliveries |-> IF Fits(clerk[c].lines, clerk[c].names)
                                         THEN clerk[c].lines[d] ELSE 0]
        <4>1. m \in [Deliveries -> Nat]
          BY <3>1
        <4>2. delivery' = [d \in Deliveries |-> [delivery[d] EXCEPT !.invoiced = @ + m[d]]]
          BY <2>8 DEF MarkInvoiced
        <4> QED  BY <4>1, <4>2
      <3>3. delivery' \in [Deliveries -> Papers]
        <4>1. ASSUME NEW d \in Deliveries
              PROVE  [delivery[d] EXCEPT !.invoiced = @ + more[d]] \in Papers
          BY <1>0 DEF TypeOK, Papers
        <4> QED  BY <3>2, <4>1
      <3> QED  BY <1>0, <2>8, <3>3 DEF MarkInvoiced, TypeOK
    <2>9. CASE CommitInvoice(c)
      <3>1. clerk[c].on \in Invoices
        BY <2>0, <2>9 DEF CommitInvoice, Working, Billing
      <3> DEFINE r == [invoice[clerk[c].on] EXCEPT !.state = "posted"]
      <3>2. r \in InvoiceRows
        BY <1>0, <3>1 DEF TypeOK, InvoiceRows
      <3>3. invoice' = [invoice EXCEPT ![clerk[c].on] = r]
        BY <1>0, <2>9, <3>1 DEF CommitInvoice, TypeOK
      <3> QED  BY <1>0, <1>i, <2>9, <3>1, <3>2, <3>3 DEF CommitInvoice, TypeOK
    <2>10. CASE Stops(c)
      <3>1. PICK more \in SUBSET Slips : slips' = slips \cup more
        <4>1. CASE clerk[c].at = "moved"
          BY <2>10, <4>1 DEF Stops, Slips
        <4>2. CASE clerk[c].at = "commit"
          BY <2>10, <4>2 DEF Stops, Slips
        <4>3. CASE clerk[c].at \notin {"moved", "commit"}
          BY <2>10, <4>3 DEF Stops, Slips
        <4> QED  BY <4>1, <4>2, <4>3
      <3>2. stops' \in Nat /\ UNCHANGED <<order, taken, delivery, gone, invoice>>
        BY <1>0, <2>10 DEF Stops, TypeOK
      <3> QED  BY <1>0, <1>u, <3>1, <3>2 DEF TypeOK
    <2> HIDE DEF Kept
    <2> QED  BY <1>7, <2>1, <2>2, <2>3, <2>4, <2>5, <2>6, <2>7, <2>8, <2>9, <2>10, <2>11 DEF Act
  <1>8. ASSUME UNCHANGED vars PROVE Kept
    BY <1>0, <1>8 DEF vars, TypeOK
  <1> HIDE DEF Kept
  <1>9. Kept
    BY <1>1, <1>2, <1>3, <1>4, <1>5, <1>6, <1>7, <1>8 DEF Next
  <1>10. ClerksInv'
    BY NextClerks
  <1> QED  BY <1>9, <1>10 DEF Kept, TypeOK, ClerksInv

LEMMA NextTypeInv == Sensible /\ TypeInv /\ [Next]_vars => TypeInv'
  BY NextClerks, NextDocuments DEF TypeInv

-----------------------------------------------------------------------------
(* The order's number.                                                     *)

\* A draft has no number yet; and unless two requests asked at once, one that
\* is about to issue the order knows its number.
Unissued == order.state \in {"none", "draft", "gone"} => order.number = 0

Asking(c) == clerk[c].at = "issue"

OneAsks ==
    "asked" \notin slips =>
        /\ \A c, d \in Clerks : Asking(c) /\ Asking(d) => c = d
        /\ \A c \in Clerks : Asking(c) => clerk[c].number = order.number

\* What happens to the order's number happens at the issue of it.
LEMMA NumberChanges ==
    ASSUME TypeInv, Unissued, [Next]_vars
    PROVE  \/ order'.number = order.number /\ taken' = taken
           \/ \E c \in Clerks : Issue(c)
  <1> DEFINE Same == order'.number = order.number /\ taken' = taken
  <1>0. order \in Orders
    BY DEF TypeInv, TypeOK
  <1>1. ASSUME NEW c \in Clerks, Act(c), ~Issue(c) PROVE Same
    <2>1. CASE SetState(c)
      BY <1>0, <2>1 DEF SetState, Orders
    <2>2. CASE RecordMove(c)
      BY <1>0, <2>2 DEF RecordMove, Orders
    <2>4. ASSUME NEW n, NEW kept, OrderSave(c, n, kept) PROVE Same
      BY <1>0, <2>4 DEF OrderSave, Orders
    <2>3. CASE ~SetState(c) /\ ~RecordMove(c) /\ ~\E n, kept : OrderSave(c, n, kept)
      <3>1. UNCHANGED <<order, taken>>
        BY <1>1, <2>3 DEF Act, BeginOrderSave, BeginIssue, AskNumber, BeginCancel, BeginClose, BeginPost, Move,
           PostDelivery, Settle, BeginInvoice, Freeze, MarkInvoiced, CommitInvoice, Refused, Stops
      <3> QED  BY <3>1
    <2> HIDE DEF Same
    <2> QED  BY <2>1, <2>2, <2>3, <2>4
  <1>2. ASSUME NEW n, OrderCreate(n) PROVE Same
    BY <1>0, <1>2 DEF OrderCreate, NoOrder, Unissued
  <1>3. ASSUME OrderDelete PROVE Same
    BY <1>0, <1>3 DEF OrderDelete, NoOrder, Unissued
  <1>4. ASSUME \/ \E d \in Deliveries, n \in Sizes : DeliverySave(d, n)
               \/ \E d \in Deliveries : \E how : DeliveryWithdraw(d, how)
               \/ \E i \in Invoices, lines \in Claims : InvoiceSave(i, lines)
               \/ \E i \in Invoices : InvoiceVoid(i)
               \/ UNCHANGED vars
        PROVE  Same
    BY <1>4 DEF DeliverySave, DeliveryWithdraw, InvoiceSave, InvoiceVoid, vars
  <1> HIDE DEF Same
  <1>5. Same \/ \E c \in Clerks : Issue(c)
    BY <1>1, <1>2, <1>3, <1>4 DEF Next
  <1> QED  BY <1>5 DEF Same

\* The issue keeps a number the order has, and takes none for it from the
\* series unless somebody else was asking as well.
LEMMA IssueKeeps ==
    ASSUME TypeInv, OneAsks, NEW c \in Clerks, Issue(c), order.number # 0
    PROVE  /\ order'.number = order.number
           /\ taken' # taken => "asked" \in slips
  <1>1. order \in Orders
    BY DEF TypeInv, TypeOK
  <1>2. order'.number = order.number
    BY <1>1 DEF Issue, KeepNumber, Orders
  <1>3. taken' # taken => clerk[c].number = 0
    BY DEF Issue
  <1> QED  BY <1>2, <1>3 DEF OneAsks, Asking, Issue

LEMMA NextUnissued ==
    ASSUME Sensible, TypeInv, Unissued, [Next]_vars
    PROVE  Unissued'
  <1>0. order \in Orders /\ TypeOK /\ ClerksInv /\ taken \in Nat
    BY DEF TypeInv, TypeOK
  <1>1. CASE order'.number = order.number
    <2>1. ASSUME order'.state \in {"none", "draft", "gone"},
                 order.state \notin {"none", "draft", "gone"}
          PROVE  FALSE
      <3>1. ASSUME NEW c \in Clerks, Act(c) PROVE FALSE
        <4>1. ASSUME Issue(c) \/ SetState(c) PROVE FALSE
          <5>1. clerk[c].to \in {"sent", "confirmed", "done", "cancelled"}
            BY <1>0, <4>1 DEF Issue, SetState, ClerksInv, Working, Requests, Issuing
          <5> QED  BY <1>0, <2>1, <4>1, <5>1 DEF Issue, SetState, Orders
        <4>2. ASSUME RecordMove(c) PROVE FALSE
          BY <1>0, <2>1, <4>2 DEF RecordMove, Orders
        <4>4. ASSUME NEW n, NEW kept, OrderSave(c, n, kept) PROVE FALSE
          BY <1>0, <2>1, <4>4 DEF OrderSave, Orders
        <4>3. ASSUME ~Issue(c), ~SetState(c), ~RecordMove(c), ~\E n, kept : OrderSave(c, n, kept)
              PROVE  FALSE
          <5>1. UNCHANGED order
            BY <3>1, <4>3 DEF Act, BeginOrderSave, BeginIssue, AskNumber, BeginCancel, BeginClose, BeginPost, Move,
               PostDelivery, Settle, BeginInvoice, Freeze, MarkInvoiced, CommitInvoice, Refused,
               Stops
          <5> QED  BY <2>1, <5>1
        <4> QED  BY <4>1, <4>2, <4>3, <4>4
      <3>2. ASSUME NEW n, OrderCreate(n) PROVE FALSE
        BY <2>1, <3>2 DEF OrderCreate
      <3>3. ASSUME OrderDelete PROVE FALSE
        BY <2>1, <3>3 DEF OrderDelete
      <3>4. ASSUME \/ \E d \in Deliveries, n \in Sizes : DeliverySave(d, n)
                   \/ \E d \in Deliveries : \E how : DeliveryWithdraw(d, how)
                   \/ \E i \in Invoices, lines \in Claims : InvoiceSave(i, lines)
                   \/ \E i \in Invoices : InvoiceVoid(i)
                   \/ UNCHANGED vars
            PROVE  FALSE
        <4>1. UNCHANGED order
          BY <3>4 DEF DeliverySave, DeliveryWithdraw, InvoiceSave, InvoiceVoid, vars
        <4> QED  BY <2>1, <4>1
      <3> QED  BY <3>1, <3>2, <3>3, <3>4 DEF Next
    <2> QED  BY <1>1, <2>1 DEF Unissued
  <1>2. ASSUME NEW c \in Clerks, Issue(c) PROVE Unissued'
    <2>1. clerk[c].to \in {"sent", "confirmed", "done", "cancelled"}
      BY <1>0, <1>2 DEF Issue, ClerksInv, Working, Requests, Issuing
    <2>2. CASE order.state \in Editable
      <3>1. order'.state = clerk[c].to
        BY <1>0, <1>2, <2>2 DEF Issue, Orders
      <3> QED  BY <2>1, <3>1 DEF Unissued
    <2>3. CASE order.state \notin Editable
      BY <1>2, <2>3 DEF Issue, Unissued
    <2> QED  BY <2>2, <2>3
  <1> QED  BY <1>1, <1>2, NumberChanges

LEMMA NextOneAsks ==
    ASSUME Sensible, TypeInv, Unissued, OneAsks, [Next]_vars
    PROVE  OneAsks'
  <1>0. TypeOK /\ ClerksInv /\ slips \subseteq slips' /\ order \in Orders
    BY NextDocuments DEF TypeInv, TypeOK
  <1>1. ASSUME NEW c \in Clerks, Issue(c) PROVE OneAsks'
    <2> SUFFICES ASSUME "asked" \notin slips' PROVE \A d \in Clerks : ~Asking(d)'
      BY DEF OneAsks
    <2>1. \A d \in Clerks : Asking(d) => d = c
      BY <1>0, <1>1 DEF OneAsks, Issue, Asking
    <2>2. /\ clerk'[c].at = "free" /\ \A d \in Clerks \ {c} : clerk'[d] = clerk[d]
      BY <1>0, <1>1 DEF Issue, ClerksInv, Free
    <2> QED  BY <2>1, <2>2 DEF Asking
  <1>2. ASSUME NEW c \in Clerks, AskNumber(c) PROVE OneAsks'
    <2> SUFFICES ASSUME "asked" \notin slips'
                 PROVE  /\ \A d \in Clerks : Asking(d)' => d = c
                        /\ clerk'[c].number = order'.number
      BY DEF OneAsks
    <2>1. /\ clerk'[c].number = order.number /\ UNCHANGED order
          /\ \A d \in Clerks \ {c} : clerk'[d] = clerk[d]
      BY <1>0, <1>2 DEF AskNumber, ClerksInv, Requests
    <2>2. Busy({"issue"}) = {}
      BY <1>2 DEF AskNumber, Slip
    <2> QED  BY <2>1, <2>2 DEF Busy, Asking
  <1>3. ASSUME order'.number = order.number,
               \A c \in Clerks : clerk'[c] = clerk[c] \/ ~Asking(c)'
        PROVE  OneAsks'
    BY <1>0, <1>3 DEF OneAsks, Asking
  <1>4. ASSUME NEW c \in Clerks, Act(c), ~Issue(c), ~AskNumber(c)
        PROVE  \A d \in Clerks : clerk'[d] = clerk[d] \/ ~Asking(d)'
    <2>1. ASSUME NEW s, s.at # "issue", clerk' = [clerk EXCEPT ![c] = s]
          PROVE  \A d \in Clerks : clerk'[d] = clerk[d] \/ ~Asking(d)'
      BY <1>0, <2>1 DEF Asking, ClerksInv
    <2>2. ASSUME NEW s, s # "issue", clerk' = [clerk EXCEPT ![c].at = s]
          PROVE  \A d \in Clerks : clerk'[d] = clerk[d] \/ ~Asking(d)'
      BY <1>0, <2>2 DEF Asking, ClerksInv, Requests
    <2>3. CASE SetState(c) \/ CommitInvoice(c) \/ Refused(c) \/ Stops(c)
      BY <2>1, <2>3 DEF SetState, CommitInvoice, Refused, Stops, Free
    <2>11. ASSUME BeginOrderSave(c) \/ \E n, kept : OrderSave(c, n, kept)
           PROVE  \A d \in Clerks : clerk'[d] = clerk[d] \/ ~Asking(d)'
      BY <2>1, <2>11 DEF BeginOrderSave, OrderSave, Free
    <2>4. CASE Move(c) \/ RecordMove(c)
      BY <2>2, <2>4 DEF Move, RecordMove
    <2>5. CASE \/ BeginCancel(c) \/ BeginClose(c)
               \/ \E to \in {"sent", "confirmed"} : BeginIssue(c, to)
      BY <2>1, <2>5 DEF BeginCancel, BeginClose, BeginIssue, Free
    <2>6. CASE PostDelivery(c) \/ Settle(c)
      BY <2>1, <2>6 DEF PostDelivery, Settle, Free
    <2>7. ASSUME NEW d \in Deliveries, BeginPost(c, d)
          PROVE  \A e \in Clerks : clerk'[e] = clerk[e] \/ ~Asking(e)'
      BY <2>1, <2>7 DEF BeginPost, Free
    <2>8. ASSUME NEW i \in Invoices, BeginInvoice(c, i)
          PROVE  \A d \in Clerks : clerk'[d] = clerk[d] \/ ~Asking(d)'
      BY <2>1, <2>8 DEF BeginInvoice, Free
    <2>9. CASE Freeze(c)
      BY <1>0, <2>9 DEF Freeze, Asking, ClerksInv, Requests, Free
    <2>10. CASE MarkInvoiced(c)
      BY <1>0, <2>10 DEF MarkInvoiced, Asking, ClerksInv, Requests, Free
    <2> QED  BY <1>4, <2>3, <2>4, <2>5, <2>6, <2>7, <2>8, <2>9, <2>10, <2>11 DEF Act
  <1>5. ASSUME ~\E c \in Clerks : Act(c) PROVE UNCHANGED clerk
    BY <1>5 DEF Next, OrderCreate, OrderDelete, DeliverySave, DeliveryWithdraw, InvoiceSave,
                InvoiceVoid, vars
  <1>6. ASSUME ~\E c \in Clerks : Issue(c) PROVE order'.number = order.number
    BY <1>6, NumberChanges
  <1>7. CASE \E c \in Clerks : Act(c)
    BY <1>1, <1>2, <1>3, <1>4, <1>6, <1>7 DEF Act
  <1>8. CASE ~\E c \in Clerks : Act(c)
    <2>1. ~\E c \in Clerks : Issue(c)
      BY <1>8 DEF Act
    <2> QED  BY <1>3, <1>5, <1>6, <1>8, <2>1
  <1> QED  BY <1>7, <1>8

-----------------------------------------------------------------------------
(* Deliveries, and what of them is invoiced.                               *)

\* The other requests wait while one acts.
LEMMA OthersWait ==
    ASSUME TypeInv, NEW c \in Clerks, Act(c)
    PROVE  \A d \in Clerks \ {c} : clerk'[d] = clerk[d]
  <1> USE DEF TypeInv, ClerksInv
  <1>1. ASSUME NEW to, BeginIssue(c, to) PROVE \A d \in Clerks \ {c} : clerk'[d] = clerk[d]
    BY <1>1 DEF BeginIssue
  <1>2. ASSUME NEW d, BeginPost(c, d) PROVE \A e \in Clerks \ {c} : clerk'[e] = clerk[e]
    BY <1>2 DEF BeginPost
  <1>3. ASSUME NEW i, BeginInvoice(c, i) PROVE \A d \in Clerks \ {c} : clerk'[d] = clerk[d]
    BY <1>3 DEF BeginInvoice
  <1>4. ASSUME AskNumber(c) \/ Issue(c) \/ BeginCancel(c) \/ BeginClose(c) \/ SetState(c)
        PROVE  \A d \in Clerks \ {c} : clerk'[d] = clerk[d]
    BY <1>4 DEF AskNumber, Issue, BeginCancel, BeginClose, SetState
  <1>5. ASSUME Move(c) \/ RecordMove(c) \/ PostDelivery(c) \/ Settle(c)
        PROVE  \A d \in Clerks \ {c} : clerk'[d] = clerk[d]
    BY <1>5 DEF Move, RecordMove, PostDelivery, Settle
  <1>6. ASSUME Freeze(c) \/ MarkInvoiced(c) \/ CommitInvoice(c) \/ Refused(c) \/ Stops(c)
        PROVE  \A d \in Clerks \ {c} : clerk'[d] = clerk[d]
    BY <1>6 DEF Freeze, MarkInvoiced, CommitInvoice, Refused, Stops
  <1>7. ASSUME BeginOrderSave(c) \/ \E n, kept : OrderSave(c, n, kept)
        PROVE  \A d \in Clerks \ {c} : clerk'[d] = clerk[d]
    BY <1>7 DEF BeginOrderSave, OrderSave
  <1> QED  BY <1>1, <1>2, <1>3, <1>4, <1>5, <1>6, <1>7 DEF Act

\* What neither moves goods nor bills, and leaves both alone.
Aside(c) ==
    \/ BeginOrderSave(c)
    \/ \E quantity \in Sizes \ {0}, kept \in BOOLEAN : OrderSave(c, quantity, kept)
    \/ \E to \in {"sent", "confirmed"} : BeginIssue(c, to)
    \/ AskNumber(c) \/ Issue(c) \/ BeginCancel(c) \/ BeginClose(c) \/ SetState(c)
    \/ Settle(c) \/ Refused(c)

LEMMA AsideLeaves ==
    ASSUME TypeInv, NEW c \in Clerks, Aside(c)
    PROVE  /\ UNCHANGED <<delivery, gone, invoice>>
           /\ clerk[c].at \notin {"moved", "mark", "commit"}
           /\ clerk'[c].at \notin Moving \cup Billing
  <1> USE DEF TypeInv, ClerksInv, Moving, Billing
  <1>1. ASSUME NEW to, BeginIssue(c, to)
        PROVE  /\ UNCHANGED <<delivery, gone, invoice, slips>>
               /\ clerk[c].at = "free" /\ clerk'[c].at = "ask"
    BY <1>1 DEF BeginIssue, Free
  <1>7. CASE BeginOrderSave(c)
    BY <1>7 DEF BeginOrderSave, Free
  <1>8. ASSUME NEW n, NEW kept, OrderSave(c, n, kept)
        PROVE  /\ UNCHANGED <<delivery, gone, invoice>>
               /\ clerk[c].at = "save" /\ clerk'[c].at = "free"
    BY <1>8 DEF OrderSave, Free
  <1>2. CASE AskNumber(c)
    BY <1>2 DEF AskNumber, Slip
  <1>3. CASE Issue(c)
    BY <1>3 DEF Issue, Free
  <1>4. CASE BeginCancel(c) \/ BeginClose(c)
    BY <1>4 DEF BeginCancel, BeginClose, Free
  <1>5. CASE SetState(c) \/ Refused(c)
    BY <1>5 DEF SetState, Refused, Free
  <1>6. CASE Settle(c)
    BY <1>6 DEF Settle, Free
  <1> QED  BY <1>1, <1>2, <1>3, <1>4, <1>5, <1>6, <1>7, <1>8 DEF Aside

\* What is neither a request nor about a delivery or an invoice.
LEMMA OrderLeaves ==
    ASSUME (\E n \in Sizes : OrderCreate(n)) \/ OrderDelete \/ UNCHANGED vars
    PROVE  UNCHANGED <<delivery, gone, invoice, clerk>>
  BY DEF OrderCreate, OrderDelete, vars

-----------------------------------------------------------------------------
Mover(c, d) == clerk[c].at \in Moving /\ clerk[c].on = d

\* Only a posted delivery is invoiced, and for no more than it has.  Unless a
\* saving crossed a post of it, a delivery that is posted, or says that it moved,
\* has left the shelf, and who posts it moves what it says.
Story(d) ==
    /\ delivery[d].invoiced > 0 => delivery[d].state = "done"
    /\ delivery[d].invoiced <= delivery[d].quantity
    /\ ~delivery[d].crossed =>
         /\ delivery[d].moved \/ delivery[d].state = "done" => gone[d] >= delivery[d].quantity
         /\ \A c \in Clerks : Mover(c, d) =>
              /\ clerk[c].load = delivery[d].quantity
              /\ clerk[c].at # "move" => gone[d] >= delivery[d].quantity

LEMMA StoryElsewhere ==
    ASSUME NEW d \in Deliveries, Story(d), delivery'[d] = delivery[d], gone'[d] = gone[d],
           \A c \in Clerks : clerk'[c] = clerk[c] \/ ~Mover(c, d)'
    PROVE  Story(d)'
  <1>1. \A c \in Clerks : Mover(c, d)' => clerk'[c] = clerk[c] /\ Mover(c, d)
    BY DEF Mover
  <1> QED  BY <1>1 DEF Story

LEMMA NextStory ==
    ASSUME Sensible, TypeInv, [Next]_vars, NEW d \in Deliveries, Story(d)
    PROVE  Story(d)'
  <1>0. /\ TypeOK /\ ClerksInv
        /\ delivery[d] \in Papers /\ delivery \in [Deliveries -> Papers]
        /\ gone[d] \in Nat /\ gone \in [Deliveries -> Nat]
        /\ delivery[d].quantity \in Nat /\ delivery[d].invoiced \in Nat
    BY DEF TypeInv, TypeOK, Papers, Sizes, Sensible
  <1>1. ASSUME UNCHANGED <<delivery, gone, clerk>> PROVE Story(d)'
    BY <1>1, StoryElsewhere
  <1>2. ASSUME NEW n \in Sizes, NEW e \in Deliveries, DeliverySave(e, n) PROVE Story(d)'
    <2>1. CASE e # d
      <3>1. UNCHANGED <<gone, clerk>> /\ delivery'[d] = delivery[d]
        BY <1>0, <1>2, <2>1 DEF DeliverySave
      <3> QED  BY <3>1, StoryElsewhere
    <2>2. CASE e = d
      <3>1. /\ UNCHANGED <<gone, clerk>>
            /\ delivery'[d].state = "draft" /\ delivery'[d].quantity = n
            /\ ~delivery'[d].moved /\ delivery'[d].invoiced = 0
            /\ ~delivery'[d].crossed => BusyWith(d, Moving) = {}
        BY <1>0, <1>2, <2>2 DEF DeliverySave, NoPaper
      <3>2. BusyWith(d, Moving) = {} => \A c \in Clerks : ~Mover(c, d)'
        BY <3>1 DEF BusyWith, Busy, Mover
      <3>3. n \in Nat
        BY DEF Sizes, Sensible
      <3> QED  BY <3>1, <3>2, <3>3 DEF Story
    <2> QED  BY <2>1, <2>2
  <1>3. ASSUME NEW e \in Deliveries, NEW how \in {"cancelled", "gone"}, DeliveryWithdraw(e, how)
        PROVE  Story(d)'
    <2>1. CASE e # d
      <3>1. UNCHANGED <<gone, clerk>> /\ delivery'[d] = delivery[d]
        BY <1>0, <1>3, <2>1 DEF DeliveryWithdraw
      <3> QED  BY <3>1, StoryElsewhere
    <2>2. CASE e = d
      <3>1. /\ delivery[d].state = "draft" /\ UNCHANGED <<gone, clerk>>
            /\ delivery'[d].state = how /\ delivery'[d].quantity = delivery[d].quantity
            /\ delivery'[d].moved = delivery[d].moved
            /\ delivery'[d].crossed = delivery[d].crossed
            /\ delivery'[d].invoiced = delivery[d].invoiced
        BY <1>0, <1>3, <2>2 DEF DeliveryWithdraw, Papers
      <3> QED  BY <1>0, <3>1 DEF Story, Mover
    <2> QED  BY <2>1, <2>2
  <1>4. ASSUME NEW c \in Clerks, Act(c) PROVE Story(d)'
    <2>0. /\ \A e \in Clerks \ {c} : clerk'[e] = clerk[e]
          /\ clerk[c] \in Requests /\ Working(clerk[c])
      BY <1>0, <1>4, OthersWait DEF ClerksInv
    <2>1. ASSUME UNCHANGED <<delivery, gone>>, clerk'[c].at \notin Moving PROVE Story(d)'
      BY <2>0, <2>1, StoryElsewhere DEF Mover
    <2>2. CASE Aside(c)
      BY <2>1, <2>2, AsideLeaves
    <2>3. ASSUME NEW e \in Deliveries, BeginPost(c, e) PROVE Story(d)'
      <3>1. /\ UNCHANGED <<delivery, gone>> /\ delivery[e].state = "draft"
            /\ clerk'[c].at = (IF delivery[e].moved THEN "number" ELSE "move")
            /\ clerk'[c].on = e /\ clerk'[c].load = delivery[e].quantity
        BY <1>0, <2>3 DEF BeginPost, ClerksInv, Free
      <3>2. CASE e # d
        BY <2>0, <3>1, <3>2, StoryElsewhere DEF Mover
      <3>3. CASE e = d
        <4>1. \A b \in Clerks : Mover(b, d)' => b = c \/ (clerk'[b] = clerk[b] /\ Mover(b, d))
          BY <2>0 DEF Mover
        <4> QED  BY <1>0, <3>1, <3>3, <4>1 DEF Story
      <3> QED  BY <3>2, <3>3
    <2>4. CASE Move(c)
      <3>1. /\ UNCHANGED delivery /\ clerk[c].at = "move" /\ clerk[c].on \in Deliveries
            /\ gone' = [gone EXCEPT ![clerk[c].on] = @ + clerk[c].load]
            /\ clerk'[c].at = "moved" /\ clerk'[c].on = clerk[c].on
            /\ clerk'[c].load = clerk[c].load
        BY <1>0, <2>0, <2>4 DEF Move, ClerksInv, Requests, Working, Moving
      <3>2. CASE clerk[c].on # d
        <4>1. gone'[d] = gone[d]
          BY <1>0, <3>1, <3>2
        <4> QED  BY <2>0, <3>1, <3>2, <4>1, StoryElsewhere DEF Mover
      <3>3. CASE clerk[c].on = d
        <4>1. Mover(c, d)
          BY <3>1, <3>3 DEF Mover, Moving
        <4>2. ~delivery[d].crossed => clerk[c].load = delivery[d].quantity
          BY <4>1 DEF Story
        <4>3. gone'[d] = gone[d] + clerk[c].load /\ clerk[c].load \in Nat
          BY <1>0, <2>0, <3>1, <3>3 DEF Requests
        <4>4. \A b \in Clerks : Mover(b, d)' => b = c \/ (clerk'[b] = clerk[b] /\ Mover(b, d))
          BY <2>0 DEF Mover
        <4> QED  BY <1>0, <3>1, <4>2, <4>3, <4>4 DEF Story
      <3> QED  BY <3>2, <3>3
    <2>5. CASE RecordMove(c)
      <3>1. /\ UNCHANGED gone /\ clerk[c].at = "moved" /\ clerk[c].on \in Deliveries
            /\ \/ UNCHANGED delivery
               \/ delivery' = [delivery EXCEPT ![clerk[c].on].moved = TRUE]
            /\ clerk'[c].at = "number" /\ clerk'[c].on = clerk[c].on
            /\ clerk'[c].load = clerk[c].load
        BY <1>0, <2>0, <2>5 DEF RecordMove, Written, ClerksInv, Requests, Working, Moving
      <3>2. CASE clerk[c].on # d
        <4>1. delivery'[d] = delivery[d]
          BY <1>0, <3>1, <3>2
        <4> QED  BY <2>0, <3>1, <3>2, <4>1, StoryElsewhere DEF Mover
      <3>3. CASE clerk[c].on = d
        <4>1. Mover(c, d)
          BY <3>1, <3>3 DEF Mover, Moving
        <4>2. ~delivery[d].crossed => /\ clerk[c].load = delivery[d].quantity
                                      /\ gone[d] >= delivery[d].quantity
          BY <3>1, <4>1 DEF Story
        <4>3. /\ delivery'[d].state = delivery[d].state
              /\ delivery'[d].quantity = delivery[d].quantity
              /\ delivery'[d].crossed = delivery[d].crossed
              /\ delivery'[d].invoiced = delivery[d].invoiced
          BY <1>0, <3>1, <3>3 DEF Papers
        <4>4. \A b \in Clerks : Mover(b, d)' => b = c \/ (clerk'[b] = clerk[b] /\ Mover(b, d))
          BY <2>0 DEF Mover
        <4> QED  BY <1>0, <3>1, <4>2, <4>3, <4>4 DEF Story
      <3> QED  BY <3>2, <3>3
    <2>6. CASE PostDelivery(c)
      <3>1. /\ UNCHANGED gone /\ clerk[c].at = "number" /\ clerk[c].on \in Deliveries
            /\ delivery' = IF delivery[clerk[c].on].state = "draft"
                           THEN [delivery EXCEPT ![clerk[c].on].state = "done"] ELSE delivery
            /\ clerk'[c].at \in {"settle", "free"}
        BY <1>0, <2>0, <2>6 DEF PostDelivery, ClerksInv, Requests, Working, Moving, Free
      <3>2. CASE clerk[c].on # d
        <4>1. delivery'[d] = delivery[d]
          BY <1>0, <3>1, <3>2
        <4> QED  BY <2>0, <3>1, <4>1, StoryElsewhere DEF Mover, Moving
      <3>3. CASE clerk[c].on = d
        <4>1. Mover(c, d)
          BY <3>1, <3>3 DEF Mover, Moving
        <4>2. ~delivery[d].crossed => gone[d] >= delivery[d].quantity
          BY <3>1, <4>1 DEF Story
        <4>3. /\ delivery'[d].state \in {delivery[d].state, "done"}
              /\ delivery'[d].moved = delivery[d].moved
              /\ delivery'[d].crossed = delivery[d].crossed
              /\ delivery'[d].quantity = delivery[d].quantity
              /\ delivery'[d].invoiced = delivery[d].invoiced
          BY <1>0, <3>1, <3>3 DEF Papers
        <4>4. \A b \in Clerks : Mover(b, d)' => clerk'[b] = clerk[b] /\ Mover(b, d)
          BY <2>0, <3>1 DEF Mover, Moving
        <4> QED  BY <1>0, <3>1, <4>2, <4>3, <4>4 DEF Story
      <3> QED  BY <3>2, <3>3
    <2>7. ASSUME NEW i \in Invoices, BeginInvoice(c, i) PROVE Story(d)'
      <3>1. UNCHANGED <<delivery, gone>> /\ clerk'[c].at = "freeze"
        BY <1>0, <2>7 DEF BeginInvoice, ClerksInv, Free
      <3> QED  BY <2>1, <3>1 DEF Moving
    <2>8. CASE Freeze(c)
      <3>1. UNCHANGED <<delivery, gone>> /\ clerk'[c].at \in {"mark", "free"}
        BY <1>0, <2>8 DEF Freeze, ClerksInv, Requests, Free
      <3> QED  BY <2>1, <3>1 DEF Moving
    <2>9. CASE MarkInvoiced(c)
      <3>0. UNCHANGED gone /\ clerk'[c].at \in {"commit", "free"}
        BY <1>0, <2>9 DEF MarkInvoiced, ClerksInv, Requests, Free
      <3>1. /\ delivery'[d].state = delivery[d].state /\ delivery'[d].moved = delivery[d].moved
            /\ delivery'[d].quantity = delivery[d].quantity
            /\ delivery'[d].crossed = delivery[d].crossed
            /\ delivery'[d].invoiced = delivery[d].invoiced
                 + (IF Fits(clerk[c].lines, clerk[c].names) THEN clerk[c].lines[d] ELSE 0)
        BY <1>0, <2>9 DEF MarkInvoiced, Papers
      <3>2. clerk[c].lines[d] \in Nat
        BY <2>0 DEF Requests, Claims, Sizes, Sensible
      <3>3. /\ delivery'[d].invoiced > 0 => delivery[d].state = "done"
            /\ delivery'[d].invoiced <= delivery[d].quantity
        BY <1>0, <3>1, <3>2 DEF Story, Fits
      <3>4. \A b \in Clerks : Mover(b, d)' => clerk'[b] = clerk[b] /\ Mover(b, d)
        BY <2>0, <3>0 DEF Mover, Moving
      <3> QED  BY <3>0, <3>1, <3>3, <3>4 DEF Story
    <2>10. CASE CommitInvoice(c) \/ Stops(c)
      <3>1. UNCHANGED <<delivery, gone>> /\ clerk'[c].at = "free"
        BY <1>0, <2>10 DEF CommitInvoice, Stops, ClerksInv, Free
      <3> QED  BY <2>1, <3>1 DEF Moving
    <2> QED  BY <1>4, <2>2, <2>3, <2>4, <2>5, <2>6, <2>7, <2>8, <2>9, <2>10 DEF Act, Aside
  <1>5. ASSUME NEW i \in Invoices, InvoiceVoid(i) \/ (\E lines \in Claims : InvoiceSave(i, lines))
        PROVE  Story(d)'
    BY <1>1, <1>5 DEF InvoiceVoid, InvoiceSave
  <1>6. ASSUME (\E n \in Sizes : OrderCreate(n)) \/ OrderDelete \/ UNCHANGED vars PROVE Story(d)'
    BY <1>1, <1>6, OrderLeaves
  <1> QED  BY <1>2, <1>3, <1>4, <1>5, <1>6 DEF Next

-----------------------------------------------------------------------------
(* Invoices, and the requests that post them.                              *)

Holds(c, i) == clerk[c].at \in {"mark", "commit"} /\ clerk[c].on = i

\* The row of an invoice is held by one request, and it is a draft till then.
OneHolds ==
    \A i \in Invoices :
        /\ \A c, d \in Clerks : Holds(c, i) /\ Holds(d, i) => c = d
        /\ \A c \in Clerks : Holds(c, i) => invoice[i].state = "draft"

\* What a request read of the invoice is what the invoice says.
Copied ==
    "changed" \notin slips =>
        \A c \in Clerks : clerk[c].at \in Billing => clerk[c].lines = invoice[clerk[c].on].lines

Committing(i) == \E c \in Clerks : clerk[c].at = "commit" /\ clerk[c].on = i
Charged       == EverPosted \cup {i \in Invoices : Committing(i)}
Claimed(d)    == [i \in Invoices |-> invoice[i].lines[d]]

Counted ==
    slips \cap {"unsure", "changed"} = {} =>
        \A d \in Deliveries : delivery[d].invoiced = SumOf(Claimed(d), Charged)

\* What a step that has nothing to do with invoices leaves alone.
NoBilling ==
    /\ UNCHANGED invoice
    /\ \A d \in Deliveries : delivery'[d].invoiced = delivery[d].invoiced
    /\ \A c \in Clerks : \/ clerk'[c] = clerk[c]
                         \/ clerk[c].at \notin Billing \ {"freeze"} /\ clerk'[c].at \notin Billing

LEMMA OthersDoNotBill ==
    ASSUME TypeInv, \A d \in Deliveries : Story(d), [Next]_vars
    PROVE  \/ NoBilling
           \/ \E i \in Invoices : InvoiceVoid(i) \/ \E lines \in Claims : InvoiceSave(i, lines)
           \/ \E c \in Clerks : \/ \E i \in Invoices : BeginInvoice(c, i)
                                \/ Freeze(c) \/ MarkInvoiced(c) \/ CommitInvoice(c) \/ Stops(c)
  <1>0. /\ TypeOK /\ ClerksInv
        /\ delivery \in [Deliveries -> Papers] /\ clerk \in [Clerks -> Requests]
    BY DEF TypeInv, TypeOK, ClerksInv
  <1>1. ASSUME UNCHANGED <<delivery, invoice, clerk>> PROVE NoBilling
    BY <1>1 DEF NoBilling
  <1>2. ASSUME NEW n \in Sizes, NEW d \in Deliveries, DeliverySave(d, n) PROVE NoBilling
    <2>1. delivery[d].invoiced = 0 /\ delivery'[d].invoiced = 0
      BY <1>0, <1>2 DEF DeliverySave, Story, Papers, NoPaper
    <2>2. \A e \in Deliveries \ {d} : delivery'[e] = delivery[e]
      BY <1>0, <1>2 DEF DeliverySave
    <2> QED  BY <1>2, <2>1, <2>2 DEF DeliverySave, NoBilling
  <1>3. ASSUME NEW d \in Deliveries, NEW how, DeliveryWithdraw(d, how) PROVE NoBilling
    <2>1. \A e \in Deliveries : delivery'[e].invoiced = delivery[e].invoiced
      BY <1>0, <1>3 DEF DeliveryWithdraw, Papers
    <2> QED  BY <1>3, <2>1 DEF DeliveryWithdraw, NoBilling
  <1>4. ASSUME NEW c \in Clerks, Aside(c) \/ RecordMove(c) \/ Move(c) \/ PostDelivery(c)
                                 \/ \E d \in Deliveries : BeginPost(c, d)
        PROVE  NoBilling
    <2>0. \A d \in Clerks \ {c} : clerk'[d] = clerk[d]
      <3>1. Act(c)
        BY <1>4 DEF Act, Aside
      <3> QED  BY <3>1, OthersWait
    <2>1. CASE Aside(c)
      BY <2>0, <2>1, AsideLeaves DEF NoBilling, Billing
    <2>2. CASE Move(c)
      <3>1. clerk[c].at = "move" /\ clerk'[c].at = "moved"
        BY <1>0, <2>2 DEF Move, Requests
      <3> QED  BY <2>0, <2>2, <3>1 DEF Move, NoBilling, Billing
    <2>3. CASE RecordMove(c)
      <3>1. clerk[c].at = "moved" /\ clerk'[c].at = "number"
        BY <1>0, <2>3 DEF RecordMove, Requests
      <3>2. \A e \in Deliveries : delivery'[e].invoiced = delivery[e].invoiced
        BY <1>0, <2>3 DEF RecordMove, Written, Papers
      <3> QED  BY <2>0, <2>3, <3>1, <3>2 DEF RecordMove, NoBilling, Billing
    <2>4. CASE PostDelivery(c)
      <3>1. clerk[c].at = "number" /\ clerk'[c].at \in {"settle", "free"}
        BY <1>0, <2>4 DEF PostDelivery, Free
      <3>2. \A e \in Deliveries : delivery'[e].invoiced = delivery[e].invoiced
        BY <1>0, <2>4 DEF PostDelivery, Papers
      <3> QED  BY <2>0, <2>4, <3>1, <3>2 DEF PostDelivery, NoBilling, Billing
    <2>5. ASSUME NEW d \in Deliveries, BeginPost(c, d) PROVE NoBilling
      <3>1. clerk[c].at = "free" /\ clerk'[c].at \in {"move", "number"}
        BY <1>0, <2>5 DEF BeginPost, Free
      <3> QED  BY <2>0, <2>5, <3>1 DEF BeginPost, NoBilling, Billing
    <2> QED  BY <1>4, <2>1, <2>2, <2>3, <2>4, <2>5
  <1>5. ASSUME (\E n \in Sizes : OrderCreate(n)) \/ OrderDelete \/ UNCHANGED vars PROVE NoBilling
    BY <1>1, <1>5, OrderLeaves
  <1> QED  BY <1>2, <1>3, <1>4, <1>5 DEF Next, Act, Aside

\* A step that takes nobody further than he was keeps who holds what.
LEMMA HoldsElsewhere ==
    ASSUME OneHolds, Copied, UNCHANGED invoice, slips \subseteq slips',
           \A c \in Clerks : clerk'[c] = clerk[c] \/ clerk'[c].at \notin Billing
    PROVE  OneHolds' /\ Copied'
  <1>1. \A c \in Clerks, i \in Invoices : Holds(c, i)' => Holds(c, i)
    BY DEF Holds, Billing
  <1>2. OneHolds'
    BY <1>1 DEF OneHolds
  <1>3. Copied'
    BY DEF Copied
  <1> QED  BY <1>2, <1>3

LEMMA NextHolds ==
    ASSUME Sensible, TypeInv, \A d \in Deliveries : Story(d), OneHolds, Copied, [Next]_vars
    PROVE  OneHolds' /\ Copied'
  <1>0. /\ TypeOK /\ ClerksInv /\ slips \subseteq slips'
        /\ clerk \in [Clerks -> Requests] /\ invoice \in [Invoices -> InvoiceRows]
    BY NextDocuments DEF TypeInv, TypeOK, ClerksInv
  <1>1. CASE NoBilling
    BY <1>0, <1>1, HoldsElsewhere DEF NoBilling
  <1>2. ASSUME NEW c \in Clerks, CommitInvoice(c) PROVE OneHolds' /\ Copied'
    <2>1. /\ clerk[c].at = "commit" /\ clerk[c].on \in Invoices /\ UNCHANGED slips
          /\ clerk' = [clerk EXCEPT ![c] = Free]
          /\ invoice' = [invoice EXCEPT ![clerk[c].on].state = "posted"]
      BY <1>0, <1>2 DEF CommitInvoice, ClerksInv, Working, Billing
    <2>2. /\ clerk'[c].at = "free" /\ \A d \in Clerks \ {c} : clerk'[d] = clerk[d]
          /\ \A i \in Invoices \ {clerk[c].on} : invoice'[i] = invoice[i]
          /\ \A i \in Invoices : invoice'[i].lines = invoice[i].lines
      BY <1>0, <2>1 DEF Free, InvoiceRows
    <2>3. \A d \in Clerks, i \in Invoices : Holds(d, i)' => Holds(d, i) /\ i # clerk[c].on
      BY <2>1, <2>2 DEF Holds, OneHolds
    <2>4. OneHolds'
      BY <2>2, <2>3 DEF OneHolds
    <2>5. \A d \in Clerks : clerk[d].at \in Billing => clerk[d].on \in Invoices
      BY <1>0 DEF ClerksInv, Working
    <2>6. Copied'
      BY <2>1, <2>2, <2>5 DEF Copied, Billing
    <2> QED  BY <2>4, <2>6
  <1>3. ASSUME NEW c \in Clerks, Stops(c) PROVE OneHolds' /\ Copied'
    <2>1. UNCHANGED invoice /\ \A d \in Clerks : clerk'[d] = clerk[d] \/ clerk'[d].at = "free"
      BY <1>0, <1>3 DEF Stops, Free
    <2> QED  BY <1>0, <2>1, HoldsElsewhere DEF Billing
  <1>4. ASSUME NEW i \in Invoices, InvoiceVoid(i) PROVE OneHolds' /\ Copied'
    <2>1. /\ UNCHANGED <<clerk, slips>> /\ invoice[i].state = "posted"
          /\ \A j \in Invoices \ {i} : invoice'[j] = invoice[j]
          /\ \A j \in Invoices : invoice'[j].lines = invoice[j].lines
      BY <1>0, <1>4 DEF InvoiceVoid, InvoiceRows
    <2>2. OneHolds'
      BY <2>1 DEF OneHolds, Holds
    <2>3. \A d \in Clerks : clerk[d].at \in Billing => clerk[d].on \in Invoices
      BY <1>0 DEF ClerksInv, Working
    <2>4. Copied'
      BY <2>1, <2>3 DEF Copied
    <2> QED  BY <2>2, <2>4
  <1>5. ASSUME NEW i \in Invoices, NEW lines \in Claims, InvoiceSave(i, lines)
        PROVE  OneHolds' /\ Copied'
    <2>1. /\ UNCHANGED clerk /\ \A j \in Invoices \ {i} : invoice'[j] = invoice[j]
          /\ \A c \in Clerks : ~Holds(c, i)
          /\ "changed" \notin slips' =>
               /\ "changed" \notin slips
               /\ \A c \in Clerks : clerk[c].at = "freeze" => clerk[c].on # i
      BY <1>0, <1>5 DEF InvoiceSave, Slip, BusyWith, Busy, Holds
    <2>2. OneHolds'
      BY <2>1 DEF OneHolds, Holds
    <2>3. \A d \in Clerks : clerk[d].at \in Billing => clerk[d].on \in Invoices
      BY <1>0 DEF ClerksInv, Working
    <2>4. Copied'
      BY <2>1, <2>3 DEF Copied, Holds, Billing
    <2> QED  BY <2>2, <2>4
  <1>6. ASSUME NEW c \in Clerks, NEW i \in Invoices, BeginInvoice(c, i) PROVE OneHolds' /\ Copied'
    <2>1. /\ UNCHANGED <<invoice, slips>> /\ \A d \in Clerks \ {c} : clerk'[d] = clerk[d]
          /\ clerk'[c].at = "freeze" /\ clerk'[c].on = i /\ clerk'[c].lines = invoice[i].lines
      BY <1>0, <1>6 DEF BeginInvoice, Free
    <2>2. \A d \in Clerks, j \in Invoices : Holds(d, j)' => Holds(d, j)
      BY <2>1 DEF Holds
    <2>3. OneHolds'
      BY <2>1, <2>2 DEF OneHolds
    <2>4. Copied'
      BY <2>1 DEF Copied
    <2> QED  BY <2>3, <2>4
  <1>7. ASSUME NEW c \in Clerks, Freeze(c) PROVE OneHolds' /\ Copied'
    <2>1. CASE clerk' = [clerk EXCEPT ![c] = Free]
      <3>1. UNCHANGED invoice /\ \A d \in Clerks : clerk'[d] = clerk[d] \/ clerk'[d].at = "free"
        BY <1>0, <1>7, <2>1 DEF Freeze, Free
      <3> QED  BY <1>0, <3>1, HoldsElsewhere DEF Billing
    <2>2. CASE clerk' # [clerk EXCEPT ![c] = Free]
      <3>1. /\ UNCHANGED <<invoice, slips>> /\ \A d \in Clerks \ {c} : clerk'[d] = clerk[d]
            /\ clerk[c].at = "freeze" /\ clerk'[c].at = "mark"
            /\ clerk'[c].on = clerk[c].on /\ clerk'[c].lines = clerk[c].lines
            /\ invoice[clerk[c].on].state = "draft"
            /\ BusyWith(clerk[c].on, {"mark", "commit"}) = {}
        BY <1>0, <1>7, <2>2 DEF Freeze, Requests
      <3>2. \A d \in Clerks : ~Holds(d, clerk[c].on)
        BY <3>1 DEF Holds, BusyWith, Busy
      <3>3. \A d \in Clerks, j \in Invoices :
              Holds(d, j)' => Holds(d, j) \/ (d = c /\ j = clerk[c].on)
        BY <3>1 DEF Holds
      <3>4. OneHolds'
        BY <3>1, <3>2, <3>3 DEF OneHolds
      <3>5. Copied'
        BY <3>1 DEF Copied, Billing
      <3> QED  BY <3>4, <3>5
    <2> QED  BY <2>1, <2>2
  <1>8. ASSUME NEW c \in Clerks, MarkInvoiced(c) PROVE OneHolds' /\ Copied'
    <2>1. /\ UNCHANGED <<invoice, slips>> /\ \A d \in Clerks \ {c} : clerk'[d] = clerk[d]
          /\ clerk[c].at = "mark"
          /\ \/ clerk'[c].at = "free"
             \/ /\ clerk'[c].at = "commit" /\ clerk'[c].on = clerk[c].on
                /\ clerk'[c].lines = clerk[c].lines
      BY <1>0, <1>8 DEF MarkInvoiced, Requests, Free
    <2>2. \A d \in Clerks, j \in Invoices : Holds(d, j)' => Holds(d, j)
      BY <2>1 DEF Holds
    <2>3. OneHolds'
      BY <2>1, <2>2 DEF OneHolds
    <2>4. Copied'
      BY <2>1 DEF Copied, Billing
    <2> QED  BY <2>3, <2>4
  <1> QED  BY <1>1, <1>2, <1>3, <1>4, <1>5, <1>6, <1>7, <1>8, OthersDoNotBill

\* The marks stay what is claimed when the same invoices claim the same.
LEMMA CountedKept ==
    ASSUME FinitelyMany, Counted, slips \subseteq slips',
           slips' \cap {"unsure", "changed"} = {} =>
             /\ Charged' = Charged
             /\ \A i \in Charged : invoice'[i].lines = invoice[i].lines
             /\ \A d \in Deliveries : delivery'[d].invoiced = delivery[d].invoiced
    PROVE  Counted'
  <1> SUFFICES ASSUME slips' \cap {"unsure", "changed"} = {}, NEW d \in Deliveries
               PROVE  delivery'[d].invoiced = SumOf(Claimed(d)', Charged')
    BY DEF Counted
  <1> DEFINE f == Claimed(d)
             e == Claimed(d)'
  <1>1. Charged \in SUBSET Invoices
    BY DEF Charged, EverPosted
  <1>2. IsFiniteSet(Charged)
    BY <1>1, FS_Subset DEF FinitelyMany
  <1>3. \A i \in Charged : f[i] = e[i]
    BY <1>1 DEF Claimed
  <1>4. delivery[d].invoiced = SumOf(f, Charged)
    BY DEF Counted
  <1> HIDE DEF f, e
  <1>5. SumOf(f, Charged) = SumOf(e, Charged)
    BY <1>2, <1>3, SumSame
  <1>6. delivery'[d].invoiced = SumOf(e, Charged')
    BY <1>4, <1>5
  <1> QED  BY <1>6 DEF e

LEMMA MarkCounted ==
    ASSUME Sensible, FinitelyMany, TypeInv, OneHolds, Copied, Counted,
           NEW c \in Clerks, MarkInvoiced(c), Fits(clerk[c].lines, clerk[c].names)
    PROVE  Counted'
  <1> SUFFICES ASSUME slips' \cap {"unsure", "changed"} = {}, NEW d \in Deliveries
               PROVE  delivery'[d].invoiced = SumOf(Claimed(d)', Charged')
    BY DEF Counted
  <1> DEFINE f == Claimed(d)
             on == clerk[c].on
  <1>0. /\ clerk \in [Clerks -> Requests] /\ on \in Invoices
        /\ delivery \in [Deliveries -> Papers] /\ invoice \in [Invoices -> InvoiceRows]
        /\ UNCHANGED <<invoice, slips>> /\ clerk[c].at = "mark"
    BY DEF TypeInv, TypeOK, ClerksInv, Working, Billing, MarkInvoiced
  <1>1. /\ \A e \in Clerks \ {c} : clerk'[e] = clerk[e]
        /\ clerk'[c].at = "commit" /\ clerk'[c].on = on
    BY <1>0 DEF MarkInvoiced, Requests
  <1>2. \A i \in Invoices : Committing(i)' <=> Committing(i) \/ i = on
    BY <1>0, <1>1 DEF Committing
  <1>3. EverPosted' = EverPosted /\ Claimed(d)' = Claimed(d)
    BY <1>0 DEF EverPosted, Claimed
  <1>4. Charged' = Charged \cup {on}
    BY <1>0, <1>2, <1>3 DEF Charged
  <1>5. on \notin Charged
    <2>1. Holds(c, on)
      BY <1>0 DEF Holds
    <2>2. invoice[on].state = "draft"
      BY <1>0, <2>1 DEF OneHolds
    <2>3. ~Committing(on)
      BY <1>0, <2>1 DEF OneHolds, Holds, Committing
    <2> QED  BY <2>2, <2>3 DEF Charged, EverPosted
  <1>6. delivery'[d].invoiced = delivery[d].invoiced + clerk[c].lines[d]
    BY <1>0 DEF MarkInvoiced, Papers
  <1>7. clerk[c].lines[d] = f[on]
    BY <1>0 DEF Copied, Claimed, Billing
  <1>8. delivery[d].invoiced = SumOf(f, Charged)
    BY <1>0 DEF Counted
  <1>9. Charged \in SUBSET Invoices
    BY DEF Charged, EverPosted
  <1>10. IsFiniteSet(Charged)
    BY <1>9, FS_Subset DEF FinitelyMany
  <1>11. \A i \in Invoices : f[i] \in Int
    BY <1>0 DEF Claimed, InvoiceRows, Claims, Sizes, Sensible
  <1>12. \A i \in Charged \cup {on} : f[i] \in Int
    BY <1>0, <1>9, <1>11
  <1>13. SumOf(Claimed(d)', Charged') = SumOf(f, Charged \cup {on})
    BY <1>3, <1>4
  <1> HIDE DEF f, on
  <1>14. SumOf(f, Charged \cup {on}) = f[on] + SumOf(f, Charged)
    BY <1>5, <1>10, <1>12, SumAdd
  <1>15. SumOf(f, Charged) \in Int
    BY <1>10, <1>12, SumInt
  <1>16. f[on] \in Int
    BY <1>12
  <1> QED  BY <1>6, <1>7, <1>8, <1>13, <1>14, <1>15, <1>16

LEMMA NextCounted ==
    ASSUME Sensible, FinitelyMany, TypeInv, \A d \in Deliveries : Story(d),
           OneHolds, Copied, Counted, [Next]_vars
    PROVE  Counted'
  <1>0. /\ TypeOK /\ ClerksInv /\ slips \subseteq slips'
        /\ clerk \in [Clerks -> Requests] /\ invoice \in [Invoices -> InvoiceRows]
        /\ delivery \in [Deliveries -> Papers]
    BY NextDocuments DEF TypeInv, TypeOK, ClerksInv
  <1>1. ASSUME UNCHANGED invoice,
               \A d \in Deliveries : delivery'[d].invoiced = delivery[d].invoiced,
               \A c \in Clerks : \/ clerk'[c] = clerk[c]
                                 \/ clerk[c].at # "commit" /\ clerk'[c].at # "commit"
        PROVE  Counted'
    <2>1. \A i \in Invoices : Committing(i)' <=> Committing(i)
      BY <1>1 DEF Committing
    <2>2. EverPosted' = EverPosted
      BY <1>1 DEF EverPosted
    <2>3. Charged' = Charged
      BY <2>1, <2>2 DEF Charged
    <2> QED  BY <1>0, <1>1, <2>3, CountedKept
  <1>2. CASE NoBilling
    BY <1>1, <1>2 DEF NoBilling, Billing
  <1>3. ASSUME NEW c \in Clerks, CommitInvoice(c) PROVE Counted'
    <2> DEFINE on == clerk[c].on
    <2>1. /\ clerk[c].at = "commit" /\ on \in Invoices /\ UNCHANGED <<slips, delivery>>
          /\ clerk' = [clerk EXCEPT ![c] = Free]
          /\ invoice' = [invoice EXCEPT ![on].state = "posted"]
      BY <1>0, <1>3 DEF CommitInvoice, ClerksInv, Working, Billing
    <2>2. /\ clerk'[c].at = "free" /\ \A d \in Clerks \ {c} : clerk'[d] = clerk[d]
          /\ \A i \in Invoices : invoice'[i].lines = invoice[i].lines
          /\ \A i \in Invoices \ {on} : invoice'[i].state = invoice[i].state
          /\ invoice'[on].state = "posted"
      BY <1>0, <2>1 DEF Free, InvoiceRows
    <2>3. EverPosted' = EverPosted \cup {on}
      BY <2>1, <2>2 DEF EverPosted
    <2>4. Committing(on) /\ \A i \in Invoices \ {on} : Committing(i)' <=> Committing(i)
      BY <2>1, <2>2 DEF Committing
    <2>5. Charged' = Charged
      BY <2>1, <2>3, <2>4 DEF Charged
    <2>6. Charged \subseteq Invoices
      BY DEF Charged, EverPosted
    <2> QED  BY <1>0, <2>1, <2>2, <2>5, <2>6, CountedKept
  <1>4. ASSUME NEW c \in Clerks, Stops(c) PROVE Counted'
    <2>1. UNCHANGED <<invoice, delivery>> /\ \A d \in Clerks \ {c} : clerk'[d] = clerk[d]
      BY <1>0, <1>4 DEF Stops
    <2>2. clerk'[c].at = "free"
      BY <1>0, <1>4 DEF Stops, Free
    <2>3. CASE clerk[c].at # "commit"
      BY <1>1, <2>1, <2>2, <2>3
    <2>4. CASE clerk[c].at = "commit"
      <3>1. "unsure" \in slips'
        BY <1>4, <2>4 DEF Stops
      <3> QED  BY <3>1 DEF Counted
    <2> QED  BY <2>3, <2>4
  <1>5. ASSUME NEW i \in Invoices, InvoiceVoid(i) PROVE Counted'
    <2>1. /\ UNCHANGED <<clerk, slips, delivery>> /\ invoice[i].state = "posted"
          /\ \A j \in Invoices \ {i} : invoice'[j].state = invoice[j].state
          /\ \A j \in Invoices : invoice'[j].lines = invoice[j].lines
          /\ invoice'[i].state = "voided"
      BY <1>0, <1>5 DEF InvoiceVoid, InvoiceRows
    <2>2. EverPosted' = EverPosted
      BY <2>1 DEF EverPosted
    <2>3. \A j \in Invoices : Committing(j)' <=> Committing(j)
      BY <2>1 DEF Committing
    <2>4. Charged' = Charged
      BY <2>2, <2>3 DEF Charged
    <2>5. Charged \subseteq Invoices
      BY DEF Charged, EverPosted
    <2> QED  BY <1>0, <2>1, <2>4, <2>5, CountedKept
  <1>6. ASSUME NEW i \in Invoices, NEW lines \in Claims, InvoiceSave(i, lines) PROVE Counted'
    <2>1. /\ UNCHANGED <<clerk, delivery>> /\ \A j \in Invoices \ {i} : invoice'[j] = invoice[j]
          /\ invoice[i].state \in {"none", "draft"} /\ invoice'[i].state = "draft"
          /\ \A c \in Clerks : ~Holds(c, i)
      BY <1>0, <1>6 DEF InvoiceSave, BusyWith, Busy, Holds
    <2>2. EverPosted' = EverPosted /\ i \notin EverPosted
      BY <2>1 DEF EverPosted
    <2>3. ~Committing(i) /\ \A j \in Invoices : Committing(j)' <=> Committing(j)
      BY <2>1 DEF Committing, Holds
    <2>4. Charged' = Charged /\ i \notin Charged
      BY <2>2, <2>3 DEF Charged
    <2>5. Charged \subseteq Invoices
      BY DEF Charged, EverPosted
    <2> QED  BY <1>0, <2>1, <2>4, <2>5, CountedKept
  <1>7. ASSUME NEW c \in Clerks, NEW i \in Invoices, BeginInvoice(c, i) PROVE Counted'
    <2>1. /\ UNCHANGED <<invoice, delivery>> /\ \A d \in Clerks \ {c} : clerk'[d] = clerk[d]
          /\ clerk[c].at = "free" /\ clerk'[c].at = "freeze"
      BY <1>0, <1>7 DEF BeginInvoice, Free
    <2> QED  BY <1>1, <2>1
  <1>8. ASSUME NEW c \in Clerks, Freeze(c) PROVE Counted'
    <2>1. /\ UNCHANGED <<invoice, delivery>> /\ \A d \in Clerks \ {c} : clerk'[d] = clerk[d]
          /\ clerk[c].at = "freeze" /\ clerk'[c].at \in {"mark", "free"}
      BY <1>0, <1>8 DEF Freeze, Free, Requests
    <2> QED  BY <1>1, <2>1
  <1>9. ASSUME NEW c \in Clerks, MarkInvoiced(c) PROVE Counted'
    <2>1. CASE Fits(clerk[c].lines, clerk[c].names)
      BY <1>9, <2>1, MarkCounted
    <2>2. CASE ~Fits(clerk[c].lines, clerk[c].names)
      <3>1. /\ UNCHANGED invoice /\ \A d \in Clerks \ {c} : clerk'[d] = clerk[d]
            /\ clerk[c].at = "mark" /\ clerk'[c].at = "free"
        BY <1>0, <1>9, <2>2 DEF MarkInvoiced, Free
      <3>2. \A d \in Deliveries : delivery'[d].invoiced = delivery[d].invoiced
        BY <1>0, <1>9, <2>2 DEF MarkInvoiced, Papers
      <3> QED  BY <1>1, <3>1, <3>2
    <2> QED  BY <2>1, <2>2
  <1> QED  BY <1>2, <1>3, <1>4, <1>5, <1>6, <1>7, <1>8, <1>9, OthersDoNotBill

-----------------------------------------------------------------------------
(* What the order says has gone.                                           *)

\* Nothing is delivered, and nobody delivers, before there is an order.
Untouched ==
    order.state = "none" =>
        /\ order.delivered = 0
        /\ \A d \in Deliveries : delivery[d].state = "none"
        /\ \A c \in Clerks : clerk[c].at \notin Moving

\* What is aboard left the shelf.
OnTruck == \A c \in Clerks : clerk[c].at = "moved" => gone[clerk[c].on] >= clerk[c].load

\* Nothing is counted, or was read by who edits the order, before something left.
Departed ==
    Nothing = gone =>
        /\ order.delivered = 0
        /\ \A c \in Clerks : clerk[c].at = "save" => clerk[c].load = 0

\* What a request has taken off the shelf and not written down yet.
Aboard == [c \in Clerks |-> IF clerk[c].at = "moved" THEN clerk[c].load ELSE 0]

\* The order has counted every movement but those aboard.
Tallied ==
    slips \cap {"lost", "astray"} = {} =>
        order.delivered + SumOf(Aboard, Clerks) = SumOf(gone, Deliveries)

\* What the steps that neither move goods nor write a movement down do to what
\* is counted: the order's line may go, with what it had counted, and who edits
\* the order reads what it counts.
LEMMA OtherSteps ==
    ASSUME TypeInv, [Next]_vars, \A c \in Clerks : ~Move(c) /\ ~RecordMove(c)
    PROVE  /\ UNCHANGED gone
           /\ \A c \in Clerks : clerk'[c].at = "moved" => clerk'[c] = clerk[c]
           /\ \A c \in Clerks : clerk[c].at = "moved" => clerk'[c] = clerk[c] \/ "lost" \in slips'
           /\ \A c \in Clerks : clerk'[c].at = "save" =>
                clerk'[c] = clerk[c] \/ clerk'[c].load = order.delivered
           /\ \/ order'.delivered = order.delivered
              \/ order.state = "none" /\ order'.delivered = 0
              \/ /\ LineGoes
                 /\ \/ order'.delivered = 0
                    \/ \E c \in Clerks : clerk[c].at = "save" /\ order'.delivered = clerk[c].load
  <1> DEFINE Kept == /\ UNCHANGED gone /\ order'.delivered = order.delivered
                     /\ \A c \in Clerks : \/ clerk'[c] = clerk[c]
                                          \/ /\ clerk'[c].at \notin {"moved", "save"}
                                             /\ clerk[c].at = "moved" => "lost" \in slips'
             Goal == /\ UNCHANGED gone
                     /\ \A c \in Clerks : clerk'[c].at = "moved" => clerk'[c] = clerk[c]
                     /\ \A c \in Clerks : clerk[c].at = "moved" =>
                          clerk'[c] = clerk[c] \/ "lost" \in slips'
                     /\ \A c \in Clerks : clerk'[c].at = "save" =>
                          clerk'[c] = clerk[c] \/ clerk'[c].load = order.delivered
                     /\ \/ order'.delivered = order.delivered
                        \/ order.state = "none" /\ order'.delivered = 0
                        \/ /\ LineGoes
                           /\ \/ order'.delivered = 0
                              \/ \E c \in Clerks : /\ clerk[c].at = "save"
                                                   /\ order'.delivered = clerk[c].load
  <1>0. order \in Orders /\ clerk \in [Clerks -> Requests] /\ slips \subseteq Slips
    BY DEF TypeInv, TypeOK
  <1>k. ASSUME Kept PROVE Goal
    BY <1>k
  <1>1. ASSUME NEW n \in Sizes, OrderCreate(n) PROVE Goal
    BY <1>0, <1>1 DEF OrderCreate, NoOrder
  <1>2. ASSUME OrderDelete PROVE Goal
    BY <1>0, <1>2 DEF OrderDelete, NoOrder
  <1>3. ASSUME UNCHANGED <<order, gone, clerk>> PROVE Goal
    BY <1>3
  <1>4. ASSUME \/ \E d \in Deliveries, n \in Sizes : DeliverySave(d, n)
               \/ \E d \in Deliveries : \E how : DeliveryWithdraw(d, how)
               \/ \E i \in Invoices, lines \in Claims : InvoiceSave(i, lines)
               \/ \E i \in Invoices : InvoiceVoid(i)
               \/ UNCHANGED vars
        PROVE  Goal
    <2>1. UNCHANGED <<order, gone, clerk>>
      BY <1>4 DEF DeliverySave, DeliveryWithdraw, InvoiceSave, InvoiceVoid, vars
    <2> QED  BY <1>3, <2>1
  <1>5. ASSUME NEW c \in Clerks, Act(c) PROVE Goal
    <2>0. \A d \in Clerks \ {c} : clerk'[d] = clerk[d]
      BY <1>5, OthersWait
    <2>1. ASSUME UNCHANGED gone, order'.delivered = order.delivered,
                 clerk'[c].at \notin {"moved", "save"}, clerk[c].at # "moved"
          PROVE  Goal
      BY <1>k, <2>0, <2>1
    <2>2. CASE BeginOrderSave(c)
      <3>1. clerk'[c].at = "save" /\ clerk'[c].load = order.delivered /\ clerk[c].at = "free"
        BY <1>0, <2>2 DEF BeginOrderSave, Free
      <3> QED  BY <2>0, <2>2, <3>1 DEF BeginOrderSave
    <2>3. ASSUME NEW n, NEW kept, OrderSave(c, n, kept) PROVE Goal
      <3>1. clerk'[c].at = "free" /\ clerk[c].at = "save" /\ UNCHANGED gone
        BY <1>0, <2>3 DEF OrderSave, Free
      <3>2. \/ order'.delivered = order.delivered
            \/ LineGoes /\ order'.delivered \in {0, clerk[c].load}
        BY <1>0, <2>3 DEF OrderSave, Orders
      <3> QED  BY <2>0, <3>1, <3>2
    <2>4. ASSUME Aside(c), ~BeginOrderSave(c), ~\E n, kept : OrderSave(c, n, kept) PROVE Goal
      <3>1. UNCHANGED gone /\ clerk[c].at # "moved" /\ clerk'[c].at # "moved"
        BY <2>4, AsideLeaves DEF Moving
      <3>2. order'.delivered = order.delivered
        <4>1. CASE Issue(c)
          BY <1>0, <4>1 DEF Issue, Orders
        <4>2. CASE SetState(c)
          BY <1>0, <4>2 DEF SetState, Orders
        <4>3. CASE ~Issue(c) /\ ~SetState(c)
          BY <2>4, <4>3 DEF Aside, BeginIssue, AskNumber, BeginCancel, BeginClose, Settle, Refused
        <4> QED  BY <4>1, <4>2, <4>3
      <3>3. clerk'[c].at # "save"
        <4>1. CASE AskNumber(c)
          BY <1>0, <4>1 DEF AskNumber
        <4>2. CASE Refused(c) \/ SetState(c) \/ Issue(c)
          BY <1>0, <4>2 DEF Refused, SetState, Issue, Free
        <4>4. CASE Settle(c)
          BY <1>0, <4>4 DEF Settle, Free
        <4>3. CASE BeginCancel(c) \/ BeginClose(c) \/ \E to \in {"sent", "confirmed"} : BeginIssue(c, to)
          BY <1>0, <4>3 DEF BeginCancel, BeginClose, BeginIssue, Free
        <4> QED  BY <2>4, <4>1, <4>2, <4>3, <4>4 DEF Aside
      <3> QED  BY <2>1, <3>1, <3>2, <3>3
    <2>5. ASSUME NEW d \in Deliveries, BeginPost(c, d) PROVE Goal
      <3>1. clerk[c].at = "free" /\ clerk'[c].at \in {"number", "move"}
        BY <1>0, <2>5 DEF BeginPost, Free
      <3> QED  BY <2>1, <2>5, <3>1 DEF BeginPost
    <2>6. ASSUME NEW i \in Invoices, BeginInvoice(c, i) PROVE Goal
      <3>1. clerk[c].at = "free" /\ clerk'[c].at = "freeze"
        BY <1>0, <2>6 DEF BeginInvoice, Free
      <3> QED  BY <2>1, <2>6, <3>1 DEF BeginInvoice
    <2>7. CASE PostDelivery(c)
      <3>1. clerk[c].at = "number" /\ clerk'[c].at \in {"settle", "free"}
        BY <1>0, <2>7 DEF PostDelivery, Free
      <3> QED  BY <2>1, <2>7, <3>1 DEF PostDelivery
    <2>8. CASE Freeze(c) \/ MarkInvoiced(c) \/ CommitInvoice(c)
      <3>1. /\ clerk[c].at \in {"freeze", "mark", "commit"}
            /\ clerk'[c].at \in {"mark", "commit", "free"}
        BY <1>0, <2>8 DEF Freeze, MarkInvoiced, CommitInvoice, Free, Requests
      <3> QED  BY <2>1, <2>8, <3>1 DEF Freeze, MarkInvoiced, CommitInvoice
    <2>9. CASE Stops(c)
      <3>1. /\ UNCHANGED <<gone, order>> /\ clerk'[c].at = "free"
            /\ clerk[c].at = "moved" => "lost" \in slips'
        BY <1>0, <2>9 DEF Stops, Free
      <3> QED  BY <1>k, <2>0, <3>1
    <2> HIDE DEF Goal
    <2> QED  BY <1>5, <2>2, <2>3, <2>4, <2>5, <2>6, <2>7, <2>8, <2>9 DEF Act, Aside
  <1> HIDE DEF Goal
  <1>6. Goal
    BY <1>1, <1>2, <1>4, <1>5 DEF Next
  <1> QED  BY <1>6 DEF Goal

\* Who takes something off the shelf, and who writes it down.
LEMMA MoveSteps ==
    ASSUME TypeInv, NEW c \in Clerks, Move(c)
    PROVE  /\ clerk[c].at = "move" /\ clerk[c].on \in Deliveries /\ clerk[c].load \in Nat
           /\ gone' = [gone EXCEPT ![clerk[c].on] = @ + clerk[c].load]
           /\ UNCHANGED <<order, delivery, slips>>
           /\ clerk'[c].at = "moved" /\ clerk'[c].on = clerk[c].on /\ clerk'[c].load = clerk[c].load
           /\ \A d \in Clerks \ {c} : clerk'[d] = clerk[d]
  <1>1. clerk \in [Clerks -> Requests] /\ Working(clerk[c])
    BY DEF TypeInv, ClerksInv
  <1> QED  BY <1>1 DEF Move, Requests, Working, Moving

LEMMA RecordSteps ==
    ASSUME TypeInv, NEW c \in Clerks, RecordMove(c)
    PROVE  /\ clerk[c].at = "moved" /\ clerk[c].on \in Deliveries /\ clerk[c].load \in Nat
           /\ UNCHANGED gone
           /\ order'.state = order.state
           /\ IF Lands(c) THEN order'.delivered = order.delivered + clerk[c].load
                          ELSE order'.delivered = order.delivered /\ "astray" \in slips'
           /\ clerk'[c].at = "number"
           /\ \A d \in Clerks \ {c} : clerk'[d] = clerk[d]
  <1>1. clerk \in [Clerks -> Requests] /\ Working(clerk[c]) /\ order \in Orders
    BY DEF TypeInv, TypeOK, ClerksInv
  <1>2. /\ clerk[c].at = "moved" /\ clerk[c].on \in Deliveries /\ clerk[c].load \in Nat
        /\ UNCHANGED gone /\ clerk'[c].at = "number"
        /\ \A d \in Clerks \ {c} : clerk'[d] = clerk[d]
    BY <1>1 DEF RecordMove, Requests, Working, Moving
  <1>3. order'.state = order.state
    BY <1>1 DEF RecordMove, Orders
  <1>4. CASE Lands(c)
    BY <1>1, <1>2, <1>3, <1>4 DEF RecordMove, Orders
  <1>5. CASE ~Lands(c)
    BY <1>2, <1>3, <1>5 DEF RecordMove, Slip
  <1> QED  BY <1>4, <1>5

LEMMA NextUntouched ==
    ASSUME TypeInv, Untouched, [Next]_vars
    PROVE  Untouched'
  <1>0. /\ order \in Orders /\ clerk \in [Clerks -> Requests]
        /\ delivery \in [Deliveries -> Papers]
        /\ \A c \in Clerks : Working(clerk[c])
    BY DEF TypeInv, TypeOK, ClerksInv
  <1> SUFFICES ASSUME order'.state = "none" PROVE Untouched'
    BY DEF Untouched
  <1>1. order.state = "none" /\ order'.delivered = order.delivered
    <2>1. ASSUME NEW c \in Clerks, Act(c)
          PROVE  order.state = "none" /\ order'.delivered = order.delivered
      <3>1. CASE SetState(c)
        BY <1>0, <3>1 DEF SetState, Working, Orders
      <3>2. CASE Issue(c)
        BY <1>0, <3>2 DEF Issue, Working, Issuing, Orders
      <3>3. CASE RecordMove(c)
        <4>1. order.state = "none" /\ clerk[c].at = "moved"
          BY <3>3, RecordSteps
        <4> QED  BY <4>1 DEF Untouched, Moving
      <3>4. ASSUME NEW n, NEW kept, OrderSave(c, n, kept)
            PROVE  order.state = "none" /\ order'.delivered = order.delivered
        BY <1>0, <3>4 DEF OrderSave, Orders, Editable
      <3>5. CASE ~SetState(c) /\ ~Issue(c) /\ ~RecordMove(c) /\ ~\E n, kept : OrderSave(c, n, kept)
        BY <2>1, <3>5 DEF Act, BeginOrderSave, BeginIssue, AskNumber, BeginCancel, BeginClose,
           BeginPost, Move, PostDelivery, Settle, BeginInvoice, Freeze, MarkInvoiced, CommitInvoice,
           Refused, Stops
      <3> QED  BY <3>1, <3>2, <3>3, <3>4, <3>5
    <2>2. ~OrderDelete /\ ~\E n \in Sizes : OrderCreate(n)
      BY DEF OrderDelete, OrderCreate, NoOrder
    <2>3. ASSUME \/ \E d \in Deliveries, n \in Sizes : DeliverySave(d, n)
                 \/ \E d \in Deliveries : \E how : DeliveryWithdraw(d, how)
                 \/ \E i \in Invoices, lines \in Claims : InvoiceSave(i, lines)
                 \/ \E i \in Invoices : InvoiceVoid(i)
                 \/ UNCHANGED vars
          PROVE  UNCHANGED order
      BY <2>3 DEF DeliverySave, DeliveryWithdraw, InvoiceSave, InvoiceVoid, vars
    <2> QED  BY <2>1, <2>2, <2>3 DEF Next
  <1>2. /\ \A d \in Deliveries : delivery[d].state = "none"
        /\ \A c \in Clerks : clerk[c].at \notin Moving
        /\ order.delivered = 0
    BY <1>1 DEF Untouched
  <1>3. ASSUME UNCHANGED <<delivery, clerk>> PROVE Untouched'
    BY <1>1, <1>2, <1>3 DEF Untouched
  <1>4. ASSUME NEW c \in Clerks, Act(c) PROVE Untouched'
    <2>0. \A d \in Clerks \ {c} : clerk'[d] = clerk[d]
      BY <1>4, OthersWait
    <2>1. ASSUME UNCHANGED delivery, clerk'[c].at \notin Moving PROVE Untouched'
      BY <1>1, <1>2, <2>0, <2>1 DEF Untouched
    <2>2. CASE Aside(c)
      BY <2>1, <2>2, AsideLeaves
    <2>3. ~\E d \in Deliveries : BeginPost(c, d)
      BY <1>2 DEF BeginPost
    <2>4. ~Move(c) /\ ~RecordMove(c) /\ ~PostDelivery(c)
      BY <1>2 DEF Move, RecordMove, PostDelivery, Moving
    <2>5. ASSUME NEW i \in Invoices, BeginInvoice(c, i) PROVE Untouched'
      <3>1. clerk'[c].at = "freeze"
        BY <1>0, <2>5 DEF BeginInvoice, Free
      <3> QED  BY <2>1, <2>5, <3>1 DEF BeginInvoice, Moving
    <2>6. CASE Freeze(c) \/ CommitInvoice(c) \/ Stops(c)
      <3>1. clerk'[c].at \in {"mark", "free"}
        BY <1>0, <2>6 DEF Freeze, CommitInvoice, Stops, Free, Requests
      <3> QED  BY <2>1, <2>6, <3>1 DEF Freeze, CommitInvoice, Stops, Moving
    <2>7. CASE MarkInvoiced(c)
      <3>1. clerk'[c].at \in {"commit", "free"}
        BY <1>0, <2>7 DEF MarkInvoiced, Free
      <3>2. \A d \in Deliveries : delivery'[d].state = delivery[d].state
        BY <1>0, <2>7 DEF MarkInvoiced, Papers
      <3> QED  BY <1>1, <1>2, <2>0, <3>1, <3>2 DEF Untouched, Moving
    <2> QED  BY <1>4, <2>2, <2>3, <2>4, <2>5, <2>6, <2>7 DEF Act, Aside
  <1>5. ~\E d \in Deliveries, n \in Sizes : DeliverySave(d, n)
    BY <1>1 DEF DeliverySave
  <1>6. ~\E d \in Deliveries : \E how : DeliveryWithdraw(d, how)
    BY <1>2 DEF DeliveryWithdraw
  <1>7. ASSUME \/ \E i \in Invoices : InvoiceVoid(i) \/ \E lines \in Claims : InvoiceSave(i, lines)
               \/ (\E n \in Sizes : OrderCreate(n)) \/ OrderDelete \/ UNCHANGED vars
        PROVE  Untouched'
    <2>1. UNCHANGED <<delivery, clerk>>
      BY <1>7, OrderLeaves DEF InvoiceVoid, InvoiceSave
    <2> QED  BY <1>3, <2>1
  <1> QED  BY <1>4, <1>5, <1>6, <1>7 DEF Next

LEMMA NextDeparted ==
    ASSUME Sensible, TypeInv, OnTruck, Departed, [Next]_vars
    PROVE  OnTruck' /\ Departed'
  <1>0. /\ clerk \in [Clerks -> Requests] /\ gone \in [Deliveries -> Nat]
        /\ \A c \in Clerks : clerk[c].at = "moved" => clerk[c].on \in Deliveries
        /\ order.delivered \in Nat
    BY DEF TypeInv, TypeOK, ClerksInv, Working, Moving, Orders
  <1>1. ASSUME NEW c \in Clerks, Move(c) PROVE OnTruck' /\ Departed'
    <2> DEFINE on == clerk[c].on
    <2>1. /\ on \in Deliveries /\ clerk[c].load \in Nat /\ UNCHANGED order
          /\ gone' = [gone EXCEPT ![on] = @ + clerk[c].load]
          /\ clerk'[c].at = "moved" /\ clerk'[c].on = on /\ clerk'[c].load = clerk[c].load
          /\ \A d \in Clerks \ {c} : clerk'[d] = clerk[d]
      BY <1>1, MoveSteps
    <2>2. /\ \A d \in Deliveries : gone[d] \in Nat /\ gone'[d] \in Nat /\ gone'[d] >= gone[d]
          /\ gone'[on] = gone[on] + clerk[c].load
      BY <1>0, <2>1
    <2>3. OnTruck'
      <3> SUFFICES ASSUME NEW d \in Clerks, clerk'[d].at = "moved"
                   PROVE  gone'[clerk'[d].on] >= clerk'[d].load
        BY DEF OnTruck
      <3>1. CASE d = c
        BY <2>1, <2>2, <3>1
      <3>2. CASE d # c
        <4>1. clerk'[d] = clerk[d] /\ clerk[d].on \in Deliveries /\ clerk[d].load \in Nat
          BY <1>0, <2>1, <3>2 DEF Requests
        <4>2. gone[clerk[d].on] >= clerk[d].load
          BY <4>1 DEF OnTruck
        <4> QED  BY <2>2, <4>1, <4>2
      <3> QED  BY <3>1, <3>2
    <2>4. Departed'
      <3> SUFFICES ASSUME Nothing = gone'
                   PROVE  /\ order.delivered = 0
                          /\ \A d \in Clerks : clerk'[d].at = "save" => clerk'[d].load = 0
        BY <2>1 DEF Departed
      <3>1. \A d \in Deliveries : gone[d] = 0
        BY <2>2 DEF Nothing
      <3>2. Nothing = gone
        BY <1>0, <3>1 DEF Nothing
      <3> QED  BY <2>1, <3>2 DEF Departed
    <2> QED  BY <2>3, <2>4
  <1>2. ASSUME NEW c \in Clerks, RecordMove(c) PROVE OnTruck' /\ Departed'
    <2>1. /\ clerk[c].at = "moved" /\ clerk[c].on \in Deliveries /\ clerk[c].load \in Nat
          /\ UNCHANGED gone /\ clerk'[c].at = "number"
          /\ order'.delivered \in {order.delivered, order.delivered + clerk[c].load}
          /\ \A d \in Clerks \ {c} : clerk'[d] = clerk[d]
      BY <1>2, RecordSteps
    <2>2. OnTruck'
      BY <2>1 DEF OnTruck
    <2>3. Departed'
      <3> SUFFICES ASSUME Nothing = gone
                   PROVE  /\ order'.delivered = 0
                          /\ \A d \in Clerks : clerk'[d].at = "save" => clerk'[d].load = 0
        BY <2>1 DEF Departed
      <3>1. gone[clerk[c].on] = 0 /\ gone[clerk[c].on] >= clerk[c].load
        BY <2>1 DEF Nothing, OnTruck
      <3> QED  BY <2>1, <3>1 DEF Departed
    <2> QED  BY <2>2, <2>3
  <1>3. CASE \A c \in Clerks : ~Move(c) /\ ~RecordMove(c)
    <2>1. /\ UNCHANGED gone
          /\ \A c \in Clerks : clerk'[c].at = "moved" => clerk'[c] = clerk[c]
          /\ \A c \in Clerks : clerk'[c].at = "save" =>
               clerk'[c] = clerk[c] \/ clerk'[c].load = order.delivered
          /\ \/ order'.delivered = order.delivered \/ order'.delivered = 0
             \/ \E c \in Clerks : clerk[c].at = "save" /\ order'.delivered = clerk[c].load
      BY <1>3, OtherSteps
    <2>2. OnTruck'
      BY <2>1 DEF OnTruck
    <2>3. Departed'
      BY <2>1 DEF Departed
    <2> QED  BY <2>2, <2>3
  <1> QED  BY <1>1, <1>2, <1>3

\* What is aboard, and what left, are numbers.
LEMMA TruckTyped ==
    ASSUME FinitelyMany, TypeOK
    PROVE  /\ \A c \in Clerks : Aboard[c] \in Nat
           /\ \A d \in Deliveries : gone[d] \in Nat
           /\ SumOf(Aboard, Clerks) \in Nat
           /\ SumOf(gone, Deliveries) \in Nat
           /\ order.delivered \in Nat
  <1> DEFINE f == Aboard
  <1>1. \A c \in Clerks : f[c] \in Nat
    BY DEF Aboard, TypeOK, Requests
  <1>2. \A d \in Deliveries : gone[d] \in Nat
    BY DEF TypeOK
  <1>3. order.delivered \in Nat
    BY DEF TypeOK, Orders
  <1> HIDE DEF f
  <1>4. SumOf(f, Clerks) \in Nat /\ SumOf(gone, Deliveries) \in Nat
    BY <1>1, <1>2, SumNat DEF FinitelyMany
  <1> QED  BY <1>1, <1>2, <1>3, <1>4 DEF f

\* A movement is gone and aboard.
LEMMA MoveTallied ==
    ASSUME FinitelyMany, TypeInv, TypeOK', Tallied, NEW c \in Clerks, Move(c)
    PROVE  Tallied'
  <1> SUFFICES ASSUME slips' \cap {"lost", "astray"} = {}
               PROVE  order'.delivered + SumOf(Aboard', Clerks) = SumOf(gone', Deliveries)
    BY DEF Tallied
  <1> DEFINE f == Aboard
             e == Aboard'
             g == gone
             h == gone'
             on == clerk[c].on
             n == clerk[c].load
  <1>0. TypeOK
    BY DEF TypeInv
  <1>1. /\ clerk[c].at = "move" /\ on \in Deliveries /\ n \in Nat
        /\ gone' = [gone EXCEPT ![on] = @ + n] /\ UNCHANGED <<order, slips>>
        /\ clerk'[c].at = "moved" /\ clerk'[c].load = n
        /\ \A d \in Clerks \ {c} : clerk'[d] = clerk[d]
    BY MoveSteps
  <1>2. order.delivered + SumOf(f, Clerks) = SumOf(g, Deliveries)
    BY <1>1 DEF Tallied
  <1>3. /\ \A d \in Clerks \ {c} : e[d] = f[d]
        /\ f[c] = 0 /\ e[c] = n
    BY <1>1 DEF Aboard
  <1>4. /\ \A d \in Deliveries \ {on} : h[d] = g[d]
        /\ h[on] = g[on] + n
    BY <1>0, <1>1 DEF TypeOK
  <1>5. /\ \A d \in Clerks : f[d] \in Int /\ e[d] \in Int
        /\ \A d \in Deliveries : g[d] \in Int /\ h[d] \in Int
        /\ SumOf(f, Clerks) \in Nat /\ SumOf(g, Deliveries) \in Nat /\ order.delivered \in Nat
    <2>1. /\ \A d \in Clerks : e[d] \in Nat
          /\ \A d \in Deliveries : h[d] \in Nat
      BY DEF Aboard, TypeOK, Requests
    <2> QED  BY <1>0, <2>1, TruckTyped
  <1>6. on \in Deliveries /\ n \in Nat /\ order' = order
    BY <1>1
  <1> HIDE DEF f, e, g, h, on, n
  <1>7. SumOf(e, Clerks) = SumOf(f, Clerks) + e[c] - f[c]
    BY <1>3, <1>5, SumChange DEF FinitelyMany
  <1>8. SumOf(h, Deliveries) = SumOf(g, Deliveries) + h[on] - g[on]
    BY <1>4, <1>5, <1>6, SumChange DEF FinitelyMany
  <1>9. order'.delivered + SumOf(e, Clerks) = SumOf(h, Deliveries)
    BY <1>2, <1>3, <1>4, <1>5, <1>6, <1>7, <1>8
  <1> QED  BY <1>9 DEF e, h

\* Its record takes it from the truck to the order.
LEMMA RecordTallied ==
    ASSUME FinitelyMany, TypeInv, TypeOK', Tallied, NEW c \in Clerks, RecordMove(c),
           slips \subseteq slips'
    PROVE  Tallied'
  <1> SUFFICES ASSUME slips' \cap {"lost", "astray"} = {}
               PROVE  order'.delivered + SumOf(Aboard', Clerks) = SumOf(gone', Deliveries)
    BY DEF Tallied
  <1> DEFINE f == Aboard
             e == Aboard'
             n == clerk[c].load
  <1>0. TypeOK
    BY DEF TypeInv
  <1>1. /\ clerk[c].at = "moved" /\ n \in Nat /\ UNCHANGED gone
        /\ order'.delivered = order.delivered + n
        /\ clerk'[c].at = "number"
        /\ \A d \in Clerks \ {c} : clerk'[d] = clerk[d]
    BY RecordSteps
  <1>2. order.delivered + SumOf(f, Clerks) = SumOf(gone, Deliveries)
    BY DEF Tallied
  <1>3. /\ \A d \in Clerks \ {c} : e[d] = f[d]
        /\ f[c] = n /\ e[c] = 0
    BY <1>1 DEF Aboard
  <1>4. /\ \A d \in Clerks : f[d] \in Int /\ e[d] \in Int
        /\ SumOf(f, Clerks) \in Nat /\ SumOf(gone, Deliveries) \in Nat /\ order.delivered \in Nat
    <2>1. \A d \in Clerks : e[d] \in Nat
      BY DEF Aboard, TypeOK, Requests
    <2> QED  BY <1>0, <2>1, TruckTyped
  <1> HIDE DEF f, e
  <1>5. SumOf(e, Clerks) = SumOf(f, Clerks) + e[c] - f[c]
    BY <1>3, <1>4, SumChange DEF FinitelyMany
  <1>6. order'.delivered + SumOf(e, Clerks) = SumOf(gone, Deliveries)
    BY <1>1, <1>2, <1>3, <1>4, <1>5
  <1> QED  BY <1>1, <1>6 DEF e

LEMMA NextTallied ==
    ASSUME Sensible, FinitelyMany, TypeInv, Untouched, Departed, Tallied, [Next]_vars
    PROVE  Tallied'
  <1>0. /\ TypeOK /\ TypeOK' /\ slips \subseteq slips' /\ gone \in [Deliveries -> Nat]
    BY NextDocuments DEF TypeInv, TypeOK
  <1>1. ASSUME NEW c \in Clerks, Move(c) PROVE Tallied'
    BY <1>0, <1>1, MoveTallied
  <1>2. ASSUME NEW c \in Clerks, RecordMove(c) PROVE Tallied'
    BY <1>0, <1>2, RecordTallied
  <1>3. CASE \A c \in Clerks : ~Move(c) /\ ~RecordMove(c)
    <2> SUFFICES ASSUME slips' \cap {"lost", "astray"} = {}
                 PROVE  order'.delivered + SumOf(Aboard', Clerks) = SumOf(gone', Deliveries)
      BY DEF Tallied
    <2> DEFINE f == Aboard
               e == Aboard'
    <2>1. /\ UNCHANGED gone
          /\ \A c \in Clerks : clerk'[c].at = "moved" => clerk'[c] = clerk[c]
          /\ \A c \in Clerks : clerk[c].at = "moved" => clerk'[c] = clerk[c]
      BY <1>3, OtherSteps
    <2>2. order'.delivered = order.delivered
      <3>1. CASE order.state = "none" /\ order'.delivered = 0
        BY <3>1 DEF Untouched
      <3>2. CASE LineGoes /\ \/ order'.delivered = 0
                             \/ \E c \in Clerks : /\ clerk[c].at = "save"
                                                  /\ order'.delivered = clerk[c].load
        <4>1. \A d \in Deliveries : gone[d] = 0
          BY <1>0, <3>2 DEF LineGoes, Slip
        <4>2. Nothing = gone
          BY <1>0, <4>1 DEF Nothing
        <4> QED  BY <3>2, <4>2 DEF Departed
      <3> QED  BY <1>3, <3>1, <3>2, OtherSteps
    <2>3. \A c \in Clerks : f[c] = e[c]
      BY <2>1 DEF Aboard
    <2>4. order.delivered + SumOf(f, Clerks) = SumOf(gone, Deliveries)
      BY <1>0 DEF Tallied
    <2> HIDE DEF f, e
    <2>5. SumOf(f, Clerks) = SumOf(e, Clerks)
      BY <2>3, SumSame DEF FinitelyMany
    <2>6. order'.delivered + SumOf(e, Clerks) = SumOf(gone', Deliveries)
      BY <2>1, <2>2, <2>4, <2>5
    <2> QED  BY <2>6 DEF e
  <1> QED  BY <1>1, <1>2, <1>3

-----------------------------------------------------------------------------
(* The theorems.                                                           *)

\* Everything that a step keeps.
IInv == /\ TypeInv
        /\ Unissued /\ OneAsks
        /\ \A d \in Deliveries : Story(d)
        /\ OneHolds /\ Copied /\ Counted
        /\ Untouched /\ OnTruck /\ Departed /\ Tallied

LEMMA StepIInv == Sensible /\ FinitelyMany /\ IInv /\ [Next]_vars => IInv'
  <1> SUFFICES ASSUME Sensible, FinitelyMany, IInv, [Next]_vars PROVE IInv'
    OBVIOUS
  <1>1. TypeInv'
    BY NextTypeInv DEF IInv
  <1>2. Unissued' /\ OneAsks'
    BY NextUnissued, NextOneAsks DEF IInv
  <1>3. \A d \in Deliveries : Story(d)'
    BY NextStory DEF IInv
  <1>4. OneHolds' /\ Copied' /\ Counted'
    BY NextHolds, NextCounted DEF IInv
  <1>5. Untouched' /\ OnTruck' /\ Departed' /\ Tallied'
    BY NextUntouched, NextDeparted, NextTallied DEF IInv
  <1> QED  BY <1>1, <1>2, <1>3, <1>4, <1>5 DEF IInv

\* Nothing is charged where no invoice is posted and no request is at work, and
\* the order counts right if it says what left.
LEMMA QuietIInv ==
    ASSUME FinitelyMany, TypeInv, Unissued, \A d \in Deliveries : Story(d),
           order.state = "none" => \A d \in Deliveries : delivery[d].state = "none" /\ gone[d] = 0,
           order.delivered = SumOf(gone, Deliveries),
           \A c \in Clerks : clerk[c].at = "free",
           \A i \in Invoices : invoice[i].state \in {"none", "draft"},
           \A d \in Deliveries : delivery[d].invoiced = 0
    PROVE  IInv
  <1>1. OneAsks
    BY DEF OneAsks, Asking
  <1>2. OneHolds /\ Copied
    BY DEF OneHolds, Holds, Copied, Billing
  <1>3. Charged = {}
    BY DEF Charged, EverPosted, Committing
  <1>4. \A d \in Deliveries : SumOf(Claimed(d), Charged) = 0
    BY <1>3, SumEmpty
  <1>5. Counted
    BY <1>4 DEF Counted
  <1>6. OnTruck
    BY DEF OnTruck
  <1>7. (\A d \in Deliveries : gone[d] = 0) => order.delivered = 0
    BY SumZero DEF FinitelyMany
  <1>8. Untouched /\ Departed
    BY <1>7 DEF Untouched, Departed, Moving, Nothing
  <1>9. SumOf(Aboard, Clerks) = 0
    <2> DEFINE f == Aboard
    <2>1. \A c \in Clerks : f[c] = 0
      BY DEF Aboard
    <2> HIDE DEF f
    <2>2. SumOf(f, Clerks) = 0
      BY <2>1, SumZero DEF FinitelyMany
    <2> QED  BY <2>2 DEF f
  <1>10. order.delivered \in Nat
    BY DEF TypeInv, TypeOK, Orders
  <1>11. Tallied
    BY <1>9, <1>10 DEF Tallied
  <1> QED  BY <1>1, <1>2, <1>5, <1>6, <1>8, <1>11 DEF IInv

LEMMA InitIInv == Sensible /\ FinitelyMany /\ Init => IInv
  <1> SUFFICES ASSUME Sensible, FinitelyMany, Init PROVE IInv
    OBVIOUS
  <1>1. TypeInv
    BY InitTypeInv
  <1>2. Unissued
    BY DEF Init, Unissued, NoOrder
  <1>3. /\ \A c \in Clerks : clerk[c].at = "free"
        /\ \A i \in Invoices : invoice[i].state = "none"
        /\ \A d \in Deliveries : delivery[d] = NoPaper /\ gone[d] = 0
    BY DEF Init, Free, Nothing
  <1>4. \A d \in Deliveries : delivery[d].invoiced = 0 /\ delivery[d].state = "none"
    BY <1>3 DEF NoPaper
  <1>5. \A d \in Deliveries : Story(d)
    BY <1>3 DEF Story, Mover, Moving, NoPaper
  <1>6. SumOf(gone, Deliveries) = 0
    BY <1>3, SumZero DEF FinitelyMany
  <1>7. order.delivered = SumOf(gone, Deliveries)
    BY <1>6 DEF Init, NoOrder
  <1> QED  BY <1>1, <1>2, <1>3, <1>4, <1>5, <1>7, QuietIInv

\* Where no request is between Inventory's commit and the invoice's, what is
\* charged for a delivery is what the posted invoices claim of it.
LEMMA CountedMeans ==
    ASSUME Sensible, FinitelyMany, IInv
    PROVE  InvoicedAsPosted
  <1> SUFFICES ASSUME NEW d \in Deliveries
               PROVE  /\ delivery[d].invoiced <= delivery[d].quantity
                      /\ (delivery[d].invoiced > 0 /\ ~delivery[d].crossed)
                           => gone[d] >= delivery[d].quantity
                      /\ (slips \cap {"unsure", "changed"} = {} /\ Marking(d) = {})
                           => delivery[d].invoiced = SumOf(Claimed(d), EverPosted)
    BY DEF InvoicedAsPosted, Claimed
  <1>1. Story(d) /\ TypeInv /\ Copied /\ Counted
    BY DEF IInv
  <1>2. /\ delivery[d].invoiced <= delivery[d].quantity
        /\ (delivery[d].invoiced > 0 /\ ~delivery[d].crossed) => gone[d] >= delivery[d].quantity
    BY <1>1 DEF Story
  <1>3. ASSUME slips \cap {"unsure", "changed"} = {}, Marking(d) = {}
        PROVE  delivery[d].invoiced = SumOf(Claimed(d), EverPosted)
    <2> DEFINE f == Claimed(d)
    <2>1. Charged \in SUBSET Invoices /\ EverPosted \in SUBSET Charged
      BY DEF Charged, EverPosted
    <2>2. IsFiniteSet(Charged)
      BY <2>1, FS_Subset DEF FinitelyMany
    <2>3. \A i \in Invoices : f[i] \in Nat
      BY <1>1 DEF Claimed, TypeInv, TypeOK, InvoiceRows, Claims, Sizes, Sensible
    <2>4. \A i \in Charged \ EverPosted : f[i] = 0
      <3> SUFFICES ASSUME NEW i \in Charged \ EverPosted PROVE f[i] = 0
        OBVIOUS
      <3>1. PICK c \in Clerks : clerk[c].at = "commit" /\ clerk[c].on = i
        BY DEF Charged, Committing
      <3>2. clerk[c].lines[d] = f[i]
        BY <1>1, <1>3, <2>1, <3>1 DEF Copied, Billing, Claimed
      <3>3. ~(clerk[c].lines[d] > 0)
        BY <1>3, <3>1 DEF Marking, Busy
      <3> QED  BY <2>1, <2>3, <3>2, <3>3
    <2>5. delivery[d].invoiced = SumOf(f, Charged)
      BY <1>1, <1>3 DEF Counted
    <2>6. \A i \in Charged : f[i] \in Int
      BY <2>1, <2>3
    <2> HIDE DEF f
    <2>7. SumOf(f, Charged) = SumOf(f, EverPosted)
      BY <2>1, <2>2, <2>4, <2>6, SumSupport
    <2>8. delivery[d].invoiced = SumOf(f, EverPosted)
      BY <2>5, <2>7
    <2> QED  BY <2>8 DEF f
  <1> QED  BY <1>2, <1>3

\* The order, the deliveries and the invoices are of their types.
THEOREM TypeCorrect == ASSUME Sensible PROVE Spec => []TypeOK
  <1>1. Init => TypeInv
    BY InitTypeInv
  <1>2. TypeInv /\ [Next]_vars => TypeInv'
    BY NextTypeInv
  <1>3. TypeInv => TypeOK
    BY DEF TypeInv
  <1> QED  BY <1>1, <1>2, <1>3, PTL DEF Spec

\* What the first conjunct of the order's story says of a step.
LEMMA StepKeepsNumber ==
    ASSUME TypeInv, Unissued, OneAsks, [Next]_vars, order.number # 0
    PROVE  order'.number = order.number /\ (taken' # taken => "asked" \in slips)
  BY NumberChanges, IssueKeeps

\* An order that is issued keeps its number whatever is cancelled, closed or
\* asked again, and takes no other of the series that one request would not.
THEOREM KeepsItsNumber == ASSUME Sensible PROVE Spec => OneNumber
  <1> DEFINE NumberInv == TypeInv /\ Unissued /\ OneAsks
  <1>1. Init => NumberInv
    <2> SUFFICES ASSUME Init PROVE NumberInv
      OBVIOUS
    <2>1. TypeInv
      BY InitTypeInv
    <2>2. Unissued /\ OneAsks
      BY DEF Init, Unissued, OneAsks, Asking, NoOrder, Free
    <2> QED  BY <2>1, <2>2
  <1>2. NumberInv /\ [Next]_vars => NumberInv'
    BY NextTypeInv, NextUnissued, NextOneAsks
  <1>3. NumberInv /\ [Next]_vars =>
          [order.number # 0 => /\ order'.number = order.number
                               /\ taken' # taken => "asked" \in slips]_vars
    BY StepKeepsNumber
  <1> QED  BY <1>1, <1>2, <1>3, PTL DEF Spec, OneNumber

LEMMA TalliedMeans ==
    ASSUME FinitelyMany, TypeInv, Tallied
    PROVE  DeliveredAsGone
  <1> SUFFICES ASSUME slips \cap {"lost", "astray"} = {}, Busy({"moved"}) = {}
               PROVE  order.delivered = SumOf(gone, Deliveries)
    BY DEF DeliveredAsGone
  <1> DEFINE f == Aboard
  <1>1. \A c \in Clerks : f[c] = 0
    BY DEF Aboard, Busy
  <1>2. order.delivered + SumOf(f, Clerks) = SumOf(gone, Deliveries) /\ order.delivered \in Nat
    BY DEF Tallied, TypeInv, TypeOK, Orders
  <1> HIDE DEF f
  <1>3. SumOf(f, Clerks) = 0
    BY <1>1, SumZero DEF FinitelyMany
  <1> QED  BY <1>2, <1>3

\* DeliveredAsGone: what the order says has gone is what left the shelf for it,
\* for any number of deliveries and requests, however they are posted and saved
\* again; of requests that do not die between a movement and its record, and an
\* order whose line is not replaced when something had left or was leaving.
THEOREM CountsWhatWent ==
    ASSUME Sensible, FinitelyMany PROVE Spec => []DeliveredAsGone
  <1>1. Init => IInv
    BY InitIInv
  <1>2. IInv /\ [Next]_vars => IInv'
    BY StepIInv
  <1>3. IInv => DeliveredAsGone
    BY TalliedMeans DEF IInv
  <1> QED  BY <1>1, <1>2, <1>3, PTL DEF Spec

\* InvoicedAsPosted: a delivery is marked with what the invoices posted for it
\* claim, of requests that neither die at the commit nor change an invoice while
\* it is posted; that is never more than it says, and what it says did leave the
\* shelf, unless it was saved while a post of it was under way.
THEOREM InvoicedAsClaimed ==
    ASSUME Sensible, FinitelyMany PROVE Spec => []InvoicedAsPosted
  <1>1. Init => IInv
    BY InitIInv
  <1>2. IInv /\ [Next]_vars => IInv'
    BY StepIInv
  <1>3. IInv => InvoicedAsPosted
    BY CountedMeans
  <1> QED  BY <1>1, <1>2, <1>3, PTL DEF Spec
=============================================================================
