------------------------- MODULE ReceivablesProofs -------------------------
(***************************************************************************)
(* What holds of Receivables for any documents, requests and amounts: its  *)
(* types, that a posted document never changes, that a journal is reversed *)
(* once, that only payments collecting their invoices can deadlock; and,   *)
(* where drafts are not saved a second time, that every posted document    *)
(* has the journal it should have and no invoice is paid twice.            *)
(*                                                                         *)
(* A request decides on one read and writes later.  What carries the proof *)
(* is what the row locks make of the time in between: a request past its   *)
(* guarded UPDATE holds the document's row and the status it asked for is  *)
(* still there, and the one that holds the journals' series is the only    *)
(* one that may add to the ledger.                                         *)
(***************************************************************************)
EXTENDS Receivables, SumsProofs

Requests == [op : {"idle", "save", "post", "void", "reverse"}, doc : Docs \cup {Nil},
             step : {"start", "found", "locked", "numbered", "frozen", "written"},
             seen : Document, journal : Nat]

\* Which fields a request of each kind fills in.
Shape(s) ==
    LET r == session[s]
    IN  /\ r.op \in {"save", "post", "void"} => r.doc \in Docs
        /\ r.op = "idle" => r.step = "start"
        /\ r.op = "save" => r.step \in {"found", "frozen"}
        /\ r.op \in {"save", "post"} => r.journal = 0
        /\ r.op = "reverse" => r.step \in {"found", "written"} /\ r.journal # 0
        /\ r.journal \in DOMAIN ledger \cup {0}

\* Past its guarded UPDATE a request holds the document, whose status is still
\* what the UPDATE asked for.
HoldsDoc(s) ==
    LET r == session[s]
    IN  r.op \in {"save", "post", "void"} /\ r.step \in {"frozen", "written"} =>
          /\ holder[r.doc] = s
          /\ doc[r.doc].status \in IF r.op = "save" THEN {"none", "draft"}
                                  ELSE {ExpectedStatus(r.op)}

\* The journals' series is held by a request that has written a journal, and
\* the one it reverses has no reversal yet.
HoldsJournal(s) ==
    holder["journal"] = s =>
        /\ session[s].step = "written"
        /\ session[s].journal # 0 => ReversalsOf(session[s].journal) = {}

RequestOK(s) == Shape(s) /\ HoldsDoc(s) /\ HoldsJournal(s)

\* ReversedOnce, without counting.
OneReversal ==
    \A j \in DOMAIN ledger : \A k, l \in ReversalsOf(j) :
        k = l /\ ledger[k].amount = ledger[j].amount

IInv == TypeOK /\ OneReversal /\ \A s \in Sessions : RequestOK(s)

-----------------------------------------------------------------------------
\* Nothing is running and nothing is written.
LEMMA InitIInv == Init => IInv
  <1> SUFFICES ASSUME Init PROVE IInv
    OBVIOUS
  <1>1. Blank \in Document /\ Nothing \in [Sales -> Nat]
    BY DEF Blank, Nothing, Document, Statuses
  <1>2. Idle \in Requests
    BY <1>1 DEF Idle, Requests
  <1>3. TypeOK
    BY <1>1, <1>2 DEF Init, TypeOK, Requests
  <1>4. OneReversal
    BY DEF Init, OneReversal
  <1>5. \A s \in Sessions : RequestOK(s)
    BY ReceivablesAssumption
       DEF Init, RequestOK, Shape, HoldsDoc, HoldsJournal, Idle, Series
  <1> QED  BY <1>3, <1>4, <1>5 DEF IInv

\* A request that takes no part in a step keeps what is said of it, as long as
\* the step leaves its locks and the rows under them alone.
LEMMA Bystander ==
    ASSUME IInv, NEW t \in Sessions,
           session'[t] = session[t],
           \A r \in Docs \cup Series : holder'[r] = t <=> holder[r] = t,
           \A d \in Docs : holder[d] = t => doc'[d].status = doc[d].status,
           \/ ledger' = ledger
           \/ holder["journal"] # t /\ DOMAIN ledger \subseteq DOMAIN ledger'
    PROVE  RequestOK(t)'
  <1>1. Shape(t) /\ HoldsDoc(t) /\ HoldsJournal(t)
    BY DEF IInv, RequestOK
  <1>2. Shape(t)'
    BY <1>1 DEF Shape
  <1>3. HoldsDoc(t)'
    BY <1>1 DEF HoldsDoc, Shape
  <1>4. HoldsJournal(t)'
    BY <1>1 DEF HoldsJournal, ReversalsOf, Series
  <1> QED  BY <1>2, <1>3, <1>4 DEF RequestOK

\* A step of one request that writes no row of its own accord: the documents and
\* the ledger stay, and only its own locks change.
LEMMA OneRequest ==
    ASSUME IInv, NEW s \in Sessions, NEW m \in Requests,
           session' = [session EXCEPT ![s] = m],
           holder' \in [Docs \cup Series -> Sessions \cup {Nil}],
           \A t \in Sessions \ {s}, r \in Docs \cup Series : holder'[r] = t <=> holder[r] = t,
           doc' = doc, ledger' = ledger,
           RequestOK(s)'
    PROVE  IInv'
  <1>1. TypeOK'
    BY DEF IInv, TypeOK, Requests
  <1>2. OneReversal'
    BY DEF IInv, OneReversal, ReversalsOf
  <1>3. ASSUME NEW t \in Sessions PROVE RequestOK(t)'
    <2>1. CASE t = s
      BY <2>1
    <2>2. CASE t # s
      <3>1. session'[t] = session[t]
        BY <2>2 DEF IInv, TypeOK
      <3> QED  BY <2>2, <3>1, Bystander
    <2> QED  BY <2>1, <2>2
  <1> QED  BY <1>1, <1>2, <1>3 DEF IInv

\* Locking rows that are free, or one's own, takes nothing from anybody.
LEMMA HoldTakes ==
    ASSUME IInv, NEW s \in Sessions, NEW rows \in SUBSET (Docs \cup Series),
           Free(rows, s), Hold(rows, s)
    PROVE  /\ holder' \in [Docs \cup Series -> Sessions \cup {Nil}]
           /\ \A t \in Sessions \ {s}, r \in Docs \cup Series : holder'[r] = t <=> holder[r] = t
           /\ \A r \in rows : holder'[r] = s
           /\ \A r \in (Docs \cup Series) \ rows : holder'[r] = holder[r]
  <1>1. holder \in [Docs \cup Series -> Sessions \cup {Nil}]
    BY DEF IInv, TypeOK
  <1> QED  BY <1>1, ReceivablesAssumption DEF Free, Hold

\* The end of a transaction gives back its locks and nobody else's.
LEMMA FinishGives ==
    ASSUME IInv, NEW s \in Sessions, Finish(s)
    PROVE  /\ session' = [session EXCEPT ![s] = Idle]
           /\ Idle \in Requests
           /\ holder' \in [Docs \cup Series -> Sessions \cup {Nil}]
           /\ \A t \in Sessions \ {s}, r \in Docs \cup Series : holder'[r] = t <=> holder[r] = t
           /\ RequestOK(s)'
  <1>1. /\ holder \in [Docs \cup Series -> Sessions \cup {Nil}]
        /\ session \in [Sessions -> Requests]
    BY DEF IInv, TypeOK, Requests
  <1>2. Idle \in Requests
    BY DEF Idle, Requests, Blank, Nothing, Document, Statuses
  <1>3. session' = [session EXCEPT ![s] = Idle] /\ session'[s] = Idle
    BY <1>1 DEF Finish
  <1>4. \A r \in Docs \cup Series : holder'[r] = IF holder[r] = s THEN Nil ELSE holder[r]
    BY <1>1 DEF Finish
  <1>5. holder' \in [Docs \cup Series -> Sessions \cup {Nil}]
    BY <1>1 DEF Finish
  <1>6. holder'["journal"] # s
    BY <1>4, ReceivablesAssumption DEF Series
  <1>7. RequestOK(s)'
    BY <1>3, <1>6 DEF RequestOK, Shape, HoldsDoc, HoldsJournal, Idle
  <1> QED  BY <1>2, <1>3, <1>4, <1>5, <1>7, ReceivablesAssumption

-----------------------------------------------------------------------------
\* What a form holds is a document's content.
LEMMA ContentsTyped ==
    ASSUME NEW d \in Docs, NEW c \in Contents(d)
    PROVE  c.amount \in Nat /\ c.taken \in [Sales -> Nat]
  <1>1. Totals \subseteq Nat /\ Nothing \in [Sales -> Nat]
    BY ReceivablesAssumption DEF Nothing
  <1>2. CASE d \in Sales
    BY <1>1, <1>2 DEF Contents
  <1>3. CASE d \notin Sales /\ d \in Notes
    <2>1. PICK a \in Totals, i \in Sales : c = [amount |-> a, taken |-> [Nothing EXCEPT ![i] = a]]
      BY <1>3 DEF Contents
    <2>2. a \in Nat /\ [Nothing EXCEPT ![i] = a] \in [Sales -> Nat]
      BY <1>1
    <2>3. c.amount = a /\ c.taken = [Nothing EXCEPT ![i] = a]
      BY <2>1
    <2> QED  BY <2>2, <2>3, Zenon
  <1>4. CASE d \notin Sales /\ d \notin Notes
    <2>1. c \in [amount : Totals \ {0}, taken : [Sales -> Totals \cup {0}]]
      BY <1>4 DEF Contents
    <2>2. c.amount \in Totals \ {0} /\ c.taken \in [Sales -> Totals \cup {0}]
      BY <2>1
    <2>3. Totals \cup {0} \subseteq Nat
      BY <1>1
    <2>4. \A f \in [Sales -> Totals \cup {0}] : f \in [Sales -> Nat]
      BY <2>3
    <2> QED  BY <1>1, <2>2, <2>4, Zenon
  <1> QED  BY <1>2, <1>3, <1>4

\* Saving an invoice and deleting a draft: the row is nobody's.
LEMMA DraftIInv ==
    ASSUME IInv, NEW d \in Docs, (d \in Sales \cup Notes /\ SaveInvoice(d)) \/ DeleteDraft(d)
    PROVE  IInv'
  <1>1. /\ holder[d] = Nil
        /\ ledger' = ledger /\ holder' = holder /\ session' = session
    BY DEF SaveInvoice, DeleteDraft
  <1>2. PICK row \in Document : doc' = [doc EXCEPT ![d] = row]
    <2>1. CASE SaveInvoice(d)
      BY <2>1, ContentsTyped DEF SaveInvoice, Document, Statuses
    <2>2. CASE DeleteDraft(d)
      <3>1. doc' = [doc EXCEPT ![d] = [doc[d] EXCEPT !.status = "deleted"]]
        BY <2>2 DEF DeleteDraft
      <3>2. doc[d] \in Document
        BY DEF IInv, TypeOK
      <3>3. [doc[d] EXCEPT !.status = "deleted"] \in Document
        BY <3>2 DEF Document, Statuses
      <3> QED  BY <3>1, <3>3
    <2> QED  BY <2>1, <2>2
  <1>3. TypeOK'
    BY <1>1, <1>2 DEF IInv, TypeOK
  <1>4. OneReversal'
    BY <1>1 DEF IInv, OneReversal, ReversalsOf
  <1>5. \A e \in Docs : holder[e] # Nil => doc'[e] = doc[e]
    BY <1>1, <1>2 DEF IInv, TypeOK
  <1>6. ASSUME NEW t \in Sessions PROVE RequestOK(t)'
    BY <1>1, <1>5, Bystander, ReceivablesAssumption
  <1> QED  BY <1>3, <1>4, <1>6 DEF IInv

-----------------------------------------------------------------------------
\* A request begins: it has read, and holds nothing.
LEMMA BeginIInv ==
    ASSUME IInv, NEW s \in Sessions, session[s].op = "idle",
           NEW op \in {"save", "post", "void", "reverse"}, NEW d \in Docs \cup {Nil},
           NEW seen \in Document, NEW j \in DOMAIN ledger \cup {0},
           op # "reverse" => d \in Docs,
           op \in {"save", "post"} => j = 0,
           op = "reverse" => j # 0,
           Begin(s, op, d, seen, j), UNCHANGED <<doc, ledger, holder>>
    PROVE  IInv'
  <1> DEFINE m == [op |-> op, doc |-> d, step |-> "found", seen |-> seen, journal |-> j]
  <1>1. ledger \in Seq(Journal)
    BY DEF IInv, TypeOK
  <1>2. m \in Requests
    BY <1>1 DEF Requests
  <1>3. session' = [session EXCEPT ![s] = m] /\ session'[s] = m
    BY DEF Begin, IInv, TypeOK
  <1>4. holder["journal"] # s
    BY DEF IInv, RequestOK, Shape, HoldsJournal
  <1>5. RequestOK(s)'
    BY <1>3, <1>4 DEF RequestOK, Shape, HoldsDoc, HoldsJournal
  <1>6. holder' \in [Docs \cup Series -> Sessions \cup {Nil}]
    BY DEF IInv, TypeOK
  <1> QED  BY <1>2, <1>3, <1>5, <1>6, OneRequest

\* The five ways a request begins.
LEMMA BeginningsIInv ==
    ASSUME IInv, NEW s \in Sessions,
           \/ \E p \in Payments : CheckPayment(s, p)
           \/ \E d \in Docs : FindDraft(s, d)
           \/ \E d \in Docs : FindPosted(s, d)
           \/ \E j \in DOMAIN ledger : FindJournal(s, j)
    PROVE  IInv'
  <1>1. ASSUME NEW p \in Payments, CheckPayment(s, p) PROVE IInv'
    <2>1. p \in Docs /\ session[s].op = "idle" /\ UNCHANGED <<doc, ledger, holder>>
      BY <1>1 DEF CheckPayment, Offered, Docs
    <2>2. PICK c \in Contents(p) :
            Begin(s, "save", p, [status |-> "draft", amount |-> c.amount, taken |-> c.taken], 0)
      BY <1>1 DEF CheckPayment
    <2>3. [status |-> "draft", amount |-> c.amount, taken |-> c.taken] \in Document
      BY <2>1, ContentsTyped DEF Document, Statuses
    <2> QED  BY <2>1, <2>2, <2>3, BeginIInv
  <1>2. ASSUME NEW d \in Docs, FindDraft(s, d) PROVE IInv'
    <2>1. /\ session[s].op = "idle" /\ UNCHANGED <<doc, ledger, holder>>
          /\ Begin(s, "post", d, doc[d], 0)
      BY <1>2 DEF FindDraft, Offered
    <2>2. doc[d] \in Document
      BY DEF IInv, TypeOK
    <2> QED  BY <2>1, <2>2, BeginIInv
  <1>3. ASSUME NEW d \in Docs, FindPosted(s, d) PROVE IInv'
    <2>1. /\ session[s].op = "idle" /\ UNCHANGED <<doc, ledger, holder>>
          /\ \E j \in DOMAIN ledger \cup {0} : Begin(s, "void", d, doc[d], j)
      BY <1>3 DEF FindPosted, Offered, OriginalOf
    <2>2. doc[d] \in Document
      BY DEF IInv, TypeOK
    <2> QED  BY <2>1, <2>2, BeginIInv
  <1>4. ASSUME NEW j \in DOMAIN ledger, FindJournal(s, j) PROVE IInv'
    <2>1. /\ session[s].op = "idle" /\ UNCHANGED <<doc, ledger, holder>>
          /\ Begin(s, "reverse", Nil, Blank, j)
      BY <1>4 DEF FindJournal, Offered
    <2>2. Blank \in Document /\ j # 0
      BY DEF Blank, Nothing, Document, Statuses, IInv, TypeOK
    <2> QED  BY <2>1, <2>2, BeginIInv
  <1> QED  BY <1>1, <1>2, <1>3, <1>4

-----------------------------------------------------------------------------
\* A statement between the first and the commit: the request moves on, and may
\* have locked rows that were free.
LEMMA StatementIInv ==
    ASSUME IInv, NEW s \in Sessions, session[s].op # "idle",
           NEW st \in {"found", "locked", "numbered", "frozen", "written"},
           session' = [session EXCEPT ![s].step = st],
           NEW rows \in SUBSET (Docs \cup Series),
           Free(rows, s), Hold(rows, s),
           doc' = doc, ledger' = ledger,
           session[s].op = "save" => st \in {"found", "frozen"},
           session[s].op = "reverse" => st \in {"found", "written"},
           session[s].op \in {"save", "post", "void"} /\ st \in {"frozen", "written"} =>
               /\ session[s].step = "frozen" \/ session[s].doc \in rows
               /\ doc[session[s].doc].status \in IF session[s].op = "save" THEN {"none", "draft"}
                                                 ELSE {ExpectedStatus(session[s].op)},
           session[s].step # "written",
           "journal" \in rows =>
               /\ st = "written"
               /\ session[s].journal # 0 => ReversalsOf(session[s].journal) = {}
    PROVE  IInv'
  <1> DEFINE m == [session[s] EXCEPT !.step = st]
  <1>1. session \in [Sessions -> Requests] /\ RequestOK(s)
    BY DEF IInv, TypeOK, Requests
  <1>2. /\ m \in Requests /\ m.step = st /\ m.op = session[s].op /\ m.doc = session[s].doc
        /\ m.journal = session[s].journal
    BY <1>1 DEF Requests
  <1>3. session' = [session EXCEPT ![s] = m] /\ session'[s] = m
    BY <1>1
  <1>4. /\ holder' \in [Docs \cup Series -> Sessions \cup {Nil}]
        /\ \A t \in Sessions \ {s}, r \in Docs \cup Series : holder'[r] = t <=> holder[r] = t
        /\ \A r \in rows : holder'[r] = s
        /\ \A r \in (Docs \cup Series) \ rows : holder'[r] = holder[r]
    BY HoldTakes
  <1> HIDE DEF m
  <1>5. Shape(s)'
    BY <1>1, <1>2, <1>3 DEF RequestOK, Shape
  <1>6. HoldsDoc(s)'
    <2>1. SUFFICES ASSUME session[s].op \in {"save", "post", "void"}, st \in {"frozen", "written"}
                   PROVE  holder'[session[s].doc] = s
      BY <1>2, <1>3 DEF HoldsDoc
    <2>2. session[s].doc \in Docs
      BY <1>1, <2>1 DEF RequestOK, Shape
    <2>3. CASE session[s].doc \in rows
      BY <1>4, <2>3
    <2>4. CASE session[s].doc \notin rows
      <3>1. holder[session[s].doc] = s
        BY <1>1, <2>1, <2>4 DEF RequestOK, HoldsDoc
      <3> QED  BY <1>4, <2>2, <2>4, <3>1
    <2> QED  BY <2>3, <2>4
  <1>7. HoldsJournal(s)'
    <2>1. "journal" \in Docs \cup Series
      BY DEF Series
    <2>2. holder["journal"] # s
      BY <1>1 DEF RequestOK, HoldsJournal
    <2>3. holder'["journal"] = s => "journal" \in rows
      BY <1>4, <2>1, <2>2
    <2> QED  BY <1>2, <1>3, <2>3 DEF HoldsJournal, ReversalsOf
  <1> QED  BY <1>2, <1>3, <1>4, <1>5, <1>6, <1>7, OneRequest DEF RequestOK

\* The statements of a save, a post, a void and a reversal before the commit.
LEMMA StatementsIInv ==
    ASSUME IInv, NEW s \in Sessions,
           \/ SaveHeader(s) \/ Measure(s) \/ TakeNumber(s) \/ Freeze(s) \/ WriteJournal(s)
           \/ \E i \in Sales : LockInvoice(s, i)
    PROVE  IInv'
  <1>0. /\ session \in [Sessions -> Requests]
        /\ holder \in [Docs \cup Series -> Sessions \cup {Nil}]
        /\ Shape(s) /\ HoldsDoc(s) /\ HoldsJournal(s)
    BY DEF IInv, TypeOK, Requests, RequestOK
  <1>a. UNCHANGED holder => Free({}, s) /\ Hold({}, s)
    BY <1>0 DEF Free, Hold
  <1>b. "journal" \in Series /\ "journal" \notin Docs
    BY ReceivablesAssumption DEF Series
  <1>1. CASE SaveHeader(s)
    <2>1. /\ session[s].op = "save" /\ session[s].step = "found"
          /\ doc[session[s].doc].status \in {"none", "draft"}
          /\ Free({session[s].doc}, s) /\ Hold({session[s].doc}, s)
          /\ session' = [session EXCEPT ![s].step = "frozen"]
          /\ doc' = doc /\ ledger' = ledger
      BY <1>1 DEF SaveHeader, Goto
    <2>2. {session[s].doc} \in SUBSET (Docs \cup Series) /\ "journal" \notin {session[s].doc}
      BY <1>0, <1>b, <2>1 DEF Shape
    <2> QED  BY <2>1, <2>2, StatementIInv
  <1>2. CASE Measure(s)
    <2>1. /\ session[s].op = "post" /\ session[s].step = "found"
          /\ Free({}, s) /\ Hold({}, s)
          /\ session' = [session EXCEPT ![s].step = "locked"]
          /\ doc' = doc /\ ledger' = ledger
      BY <1>2, <1>a DEF Measure, Collecting, Goto
    <2> QED  BY <2>1, StatementIInv
  <1>3. CASE TakeNumber(s)
    <2>1. /\ session[s].op = "post" /\ session[s].step \in {"found", "locked"}
          /\ Free({SeriesOf(session[s].doc)}, s) /\ Hold({SeriesOf(session[s].doc)}, s)
          /\ session' = [session EXCEPT ![s].step = "numbered"]
          /\ doc' = doc /\ ledger' = ledger
      BY <1>3 DEF TakeNumber, Goto
    <2>2. /\ {SeriesOf(session[s].doc)} \in SUBSET (Docs \cup Series)
          /\ "journal" \notin {SeriesOf(session[s].doc)}
      BY DEF SeriesOf, Series
    <2> QED  BY <2>1, <2>2, StatementIInv
  <1>4. CASE Freeze(s)
    <2>1. /\ \/ session[s].op = "post" /\ session[s].step = "numbered"
             \/ session[s].op = "void" /\ session[s].step = "found"
          /\ doc[session[s].doc].status = ExpectedStatus(session[s].op)
          /\ Free({session[s].doc}, s) /\ Hold({session[s].doc}, s)
          /\ session' = [session EXCEPT ![s].step = "frozen"]
          /\ doc' = doc /\ ledger' = ledger
      BY <1>4 DEF Freeze, Goto
    <2>2. {session[s].doc} \in SUBSET (Docs \cup Series) /\ "journal" \notin {session[s].doc}
      BY <1>0, <1>b, <2>1 DEF Shape
    <2> QED  BY <2>1, <2>2, StatementIInv
  <1>5. CASE WriteJournal(s)
    <2>1. /\ \/ session[s].op \in {"post", "void"} /\ session[s].step = "frozen"
             \/ session[s].op = "reverse" /\ session[s].step = "found"
          /\ session' = [session EXCEPT ![s].step = "written"]
          /\ doc' = doc /\ ledger' = ledger
      BY <1>5 DEF WriteJournal, Goto
    <2>2. PICK rows \in {{}, {"journal"}} :
            /\ Free(rows, s) /\ Hold(rows, s)
            /\ "journal" \in rows /\ session[s].journal # 0 => ReversalsOf(session[s].journal) = {}
      BY <1>5, <1>a DEF WriteJournal
    <2>3. rows \in SUBSET (Docs \cup Series)
      BY <1>b
    <2>4. session[s].op \in {"save", "post", "void"} =>
            doc[session[s].doc].status \in IF session[s].op = "save" THEN {"none", "draft"}
                                           ELSE {ExpectedStatus(session[s].op)}
      BY <1>0, <2>1 DEF HoldsDoc
    <2> QED  BY <2>1, <2>2, <2>3, <2>4, StatementIInv
  <1>6. ASSUME NEW i \in Sales, LockInvoice(s, i) PROVE IInv'
    <2>1. /\ session[s].op = "post" /\ session[s].step = "found"
          /\ Free({i}, s) /\ Hold({i}, s)
          /\ session' = session /\ doc' = doc /\ ledger' = ledger
      BY <1>6 DEF LockInvoice, Collecting, Free
    <2>2. session' = [session EXCEPT ![s].step = "found"]
      <3>1. [session[s] EXCEPT !.step = "found"] = session[s]
        BY <1>0, <2>1 DEF Requests
      <3> QED  BY <1>0, <2>1, <3>1
    <2>3. {i} \in SUBSET (Docs \cup Series) /\ "journal" \notin {i}
      BY <1>b DEF Docs
    <2> QED  BY <2>1, <2>2, <2>3, StatementIInv
  <1> QED  BY <1>1, <1>2, <1>3, <1>4, <1>5, <1>6

-----------------------------------------------------------------------------
\* The end of a request that leaves the ledger alone and, of the documents,
\* changes none but one it holds.
LEMMA EndIInv ==
    ASSUME IInv, NEW s \in Sessions, Finish(s), ledger' = ledger,
           doc' \in [Docs -> Document],
           \A d \in Docs : doc'[d].status # doc[d].status => holder[d] = s
    PROVE  IInv'
  <1>1. /\ session' = [session EXCEPT ![s] = Idle]
        /\ Idle \in Requests
        /\ holder' \in [Docs \cup Series -> Sessions \cup {Nil}]
        /\ \A t \in Sessions \ {s}, r \in Docs \cup Series : holder'[r] = t <=> holder[r] = t
        /\ RequestOK(s)'
    BY FinishGives
  <1>2. TypeOK'
    BY <1>1 DEF IInv, TypeOK, Requests
  <1>3. OneReversal'
    BY DEF IInv, OneReversal, ReversalsOf
  <1>4. ASSUME NEW t \in Sessions PROVE RequestOK(t)'
    <2>1. CASE t = s
      BY <1>1, <2>1
    <2>2. CASE t # s
      <3>1. session'[t] = session[t]
        BY <1>1, <2>2 DEF IInv, TypeOK
      <3>2. \A d \in Docs : holder[d] = t => doc'[d].status = doc[d].status
        BY <2>2
      <3> QED  BY <1>1, <2>2, <3>1, <3>2, Bystander
    <2> QED  BY <2>1, <2>2
  <1> QED  BY <1>2, <1>3, <1>4 DEF IInv

\* Rolling back, and the commit of a payment's draft.
LEMMA AbortIInv ==
    ASSUME IInv, NEW s \in Sessions, Abort(s)
    PROVE  IInv'
  <1>1. Finish(s) /\ doc' = doc /\ ledger' = ledger
    BY DEF Abort
  <1> QED  BY <1>1, EndIInv DEF IInv, TypeOK

LEMMA SaveAllocationsIInv ==
    ASSUME IInv, NEW s \in Sessions, SaveAllocations(s)
    PROVE  IInv'
  <1>1. /\ session[s].op = "save" /\ session[s].step = "frozen"
        /\ doc' = [doc EXCEPT ![session[s].doc] = session[s].seen]
        /\ Finish(s) /\ ledger' = ledger
    BY DEF SaveAllocations
  <1>2. session[s].doc \in Docs /\ session[s].seen \in Document /\ holder[session[s].doc] = s
    BY <1>1 DEF IInv, TypeOK, RequestOK, Shape, HoldsDoc
  <1>3. doc' \in [Docs -> Document]
    BY <1>1, <1>2 DEF IInv, TypeOK
  <1>4. \A d \in Docs : doc'[d].status # doc[d].status => holder[d] = s
    BY <1>1, <1>2 DEF IInv, TypeOK
  <1> QED  BY <1>1, <1>3, <1>4, EndIInv

\* A journal that reverses nothing, or one that had no reversal yet for the same
\* amount, leaves every journal with one reversal at most.
LEMMA OneMoreJournal ==
    ASSUME IInv, NEW e \in Journal, ledger' = Append(ledger, e),
           e.reverses \in DOMAIN ledger \cup {0},
           e.reverses # 0 =>
               ReversalsOf(e.reverses) = {} /\ e.amount = ledger[e.reverses].amount
    PROVE  /\ ledger' \in Seq(Journal)
           /\ DOMAIN ledger \subseteq DOMAIN ledger'
           /\ \A j \in DOMAIN ledger' : ledger'[j].reverses < j
           /\ OneReversal'
  <1>1. /\ ledger \in Seq(Journal)
        /\ \A j \in DOMAIN ledger : ledger[j].reverses < j
        /\ OneReversal
    BY DEF IInv, TypeOK
  <1>2. /\ Len(ledger) \in Nat
        /\ DOMAIN ledger = 1 .. Len(ledger)
        /\ DOMAIN ledger' = 1 .. Len(ledger) + 1
        /\ ledger'[Len(ledger) + 1] = e
        /\ \A j \in DOMAIN ledger : ledger'[j] = ledger[j]
        /\ ledger' \in Seq(Journal)
    BY <1>1
  <1>3. \A j \in DOMAIN ledger' : ledger'[j].reverses < j
    <2> SUFFICES ASSUME NEW j \in DOMAIN ledger'
                 PROVE  ledger'[j].reverses < j
      OBVIOUS
    <2>1. CASE j = Len(ledger) + 1
      BY <1>2, <2>1
    <2>2. CASE j \in DOMAIN ledger
      BY <1>1, <1>2, <2>2
    <2> QED  BY <1>2, <2>1, <2>2
  <1>4. ASSUME NEW j \in DOMAIN ledger', NEW k \in ReversalsOf(j)', NEW l \in ReversalsOf(j)'
        PROVE  k = l /\ ledger'[k].amount = ledger'[j].amount
    <2>1. /\ k \in DOMAIN ledger' /\ ledger'[k].reverses = j
          /\ l \in DOMAIN ledger' /\ ledger'[l].reverses = j
      BY DEF ReversalsOf
    <2>2. j \in DOMAIN ledger
      BY <1>2, <1>3, <2>1
    <2>3. \A i \in DOMAIN ledger' : ledger'[i].reverses = j =>
             i \in ReversalsOf(j) \/ (i = Len(ledger) + 1 /\ e.reverses = j)
      BY <1>2 DEF ReversalsOf
    <2>4. CASE e.reverses = j
      <3>1. ReversalsOf(j) = {} /\ e.amount = ledger[j].amount
        BY <1>2, <2>2, <2>4
      <3> QED  BY <1>2, <2>1, <2>2, <2>3, <3>1
    <2>5. CASE e.reverses # j
      <3>1. k \in ReversalsOf(j) /\ l \in ReversalsOf(j)
        BY <2>1, <2>3, <2>5
      <3>2. k = l /\ ledger[k].amount = ledger[j].amount
        BY <1>1, <2>2, <3>1 DEF OneReversal
      <3> QED  BY <1>2, <2>2, <3>1, <3>2 DEF ReversalsOf
    <2> QED  BY <2>4, <2>5
  <1>5. OneReversal'
    BY <1>4 DEF OneReversal
  <1> QED  BY <1>2, <1>3, <1>5

\* What a commit does to the documents: the one it holds goes from the status its
\* UPDATE asked for to the next, and keeps its content.
LEMMA CommitDocs ==
    ASSUME IInv, NEW s \in Sessions, Commit(s), doc' # doc
    PROVE  \E d \in Docs, st \in {"posted", "voided"} :
              /\ holder[d] = s
              /\ doc[d].status = IF st = "posted" THEN "draft" ELSE "posted"
              /\ \A c \in Docs : c # d => doc'[c] = doc[c]
              /\ doc'[d] = [doc[d] EXCEPT !.status = st]
              /\ doc' = [doc EXCEPT ![d] = doc'[d]]
  <1> DEFINE d == session[s].doc
  <1>1. session[s].step = "written" /\ Shape(s) /\ HoldsDoc(s) /\ doc \in [Docs -> Document]
    BY DEF Commit, IInv, RequestOK, TypeOK
  <1>2. CASE session[s].op = "post"
    <2>1. doc' = [doc EXCEPT ![d] = [doc[d] EXCEPT !.status = "posted"]]
      BY <1>2 DEF Commit
    <2>2. d \in Docs /\ holder[d] = s /\ doc[d].status = "draft"
      BY <1>1, <1>2 DEF Shape, HoldsDoc, ExpectedStatus
    <2> HIDE DEF d
    <2>3. doc'[d] = [doc[d] EXCEPT !.status = "posted"]
      BY <1>1, <2>1, <2>2
    <2>4. doc' = [doc EXCEPT ![d] = doc'[d]] /\ \A c \in Docs : c # d => doc'[c] = doc[c]
      BY <1>1, <2>1, <2>3
    <2> QED  BY <2>2, <2>3, <2>4
  <1>3. CASE session[s].op = "void"
    <2>1. doc' = [doc EXCEPT ![d] = [doc[d] EXCEPT !.status = "voided"]]
      BY <1>3 DEF Commit
    <2>2. d \in Docs /\ holder[d] = s /\ doc[d].status = "posted"
      BY <1>1, <1>3 DEF Shape, HoldsDoc, ExpectedStatus
    <2> HIDE DEF d
    <2>3. doc'[d] = [doc[d] EXCEPT !.status = "voided"]
      BY <1>1, <2>1, <2>2
    <2>4. doc' = [doc EXCEPT ![d] = doc'[d]] /\ \A c \in Docs : c # d => doc'[c] = doc[c]
      BY <1>1, <2>1, <2>3
    <2> QED  BY <2>2, <2>3, <2>4
  <1>4. CASE session[s].op \notin {"post", "void"}
    BY <1>4 DEF Commit
  <1> QED  BY <1>2, <1>3, <1>4

LEMMA CommitIInv ==
    ASSUME IInv, NEW s \in Sessions, Commit(s)
    PROVE  IInv'
  <1>0. /\ Finish(s) /\ session[s] \in Requests /\ Shape(s) /\ HoldsJournal(s)
        /\ doc \in [Docs -> Document] /\ ledger \in Seq(Journal)
    BY DEF Commit, IInv, TypeOK, Requests, RequestOK
  <1>1. /\ doc' \in [Docs -> Document]
        /\ \A d \in Docs : doc'[d].status # doc[d].status => holder[d] = s
    <2>1. CASE doc' = doc
      BY <1>0, <2>1
    <2>2. CASE doc' # doc
      <3>1. PICK d \in Docs, st \in {"posted", "voided"} :
              /\ holder[d] = s
              /\ \A c \in Docs : c # d => doc'[c] = doc[c]
              /\ doc'[d] = [doc[d] EXCEPT !.status = st]
              /\ doc' = [doc EXCEPT ![d] = doc'[d]]
        BY <2>2, CommitDocs
      <3>2. doc'[d] \in Document
        <4>1. doc[d] \in Document
          BY <1>0
        <4> QED  BY <3>1, <4>1 DEF Document, Statuses
      <3>3. doc' \in [Docs -> Document]
        BY <1>0, <3>1, <3>2
      <3> QED  BY <3>1, <3>3
    <2> QED  BY <2>1, <2>2
  <1>2. CASE holder["journal"] # s
    <2>1. ledger' = ledger
      BY <1>2 DEF Commit
    <2> QED  BY <1>0, <1>1, <2>1, EndIInv
  <1>3. CASE holder["journal"] = s
    <2> DEFINE j == session[s].journal
               e == IF j = 0 THEN Entry(session[s].doc, session[s].seen.amount, 0)
                    ELSE Entry(Nil, ledger[j].amount, j)
    <2>1. ledger' = Append(ledger, e)
      BY <1>3 DEF Commit
    <2>2. /\ e \in Journal
          /\ e.reverses \in DOMAIN ledger \cup {0}
          /\ e.reverses # 0 =>
               ReversalsOf(e.reverses) = {} /\ e.amount = ledger[e.reverses].amount
      <3>1. CASE j = 0
        BY <1>0, <3>1 DEF Entry, Journal, Requests, Document
      <3>2. CASE j # 0
        <4>1. j \in DOMAIN ledger /\ ledger[j] \in Journal /\ j \in Nat
          BY <1>0, <3>2 DEF Shape
        <4>2. ReversalsOf(j) = {}
          BY <1>0, <1>3, <3>2 DEF HoldsJournal
        <4> QED  BY <3>2, <4>1, <4>2 DEF Entry, Journal
      <3> QED  BY <3>1, <3>2
    <2> HIDE DEF e
    <2>3. /\ ledger' \in Seq(Journal)
          /\ DOMAIN ledger \subseteq DOMAIN ledger'
          /\ \A i \in DOMAIN ledger' : ledger'[i].reverses < i
          /\ OneReversal'
      BY <2>1, <2>2, OneMoreJournal
    <2>4. /\ session' = [session EXCEPT ![s] = Idle]
          /\ Idle \in Requests
          /\ holder' \in [Docs \cup Series -> Sessions \cup {Nil}]
          /\ \A t \in Sessions \ {s}, r \in Docs \cup Series : holder'[r] = t <=> holder[r] = t
          /\ RequestOK(s)'
      BY <1>0, FinishGives
    <2>5. TypeOK'
      BY <1>1, <2>3, <2>4 DEF IInv, TypeOK, Requests
    <2>6. ASSUME NEW t \in Sessions PROVE RequestOK(t)'
      <3>1. CASE t = s
        BY <2>4, <3>1
      <3>2. CASE t # s
        <4>1. session'[t] = session[t]
          BY <2>4, <3>2 DEF IInv, TypeOK
        <4>2. \A d \in Docs : holder[d] = t => doc'[d].status = doc[d].status
          BY <1>1, <3>2
        <4>3. holder["journal"] # t
          BY <1>3, <3>2
        <4> QED  BY <2>3, <2>4, <3>2, <4>1, <4>2, <4>3, Bystander
      <3> QED  BY <3>1, <3>2
    <2> QED  BY <2>3, <2>5, <2>6 DEF IInv
  <1> QED  BY <1>2, <1>3

-----------------------------------------------------------------------------
\* Every step keeps IInv.
LEMMA StepIInv == IInv /\ [Next]_vars => IInv'
  <1> SUFFICES ASSUME IInv, [Next]_vars PROVE IInv'
    OBVIOUS
  <1>1. ASSUME NEW d \in Sales \cup Notes, SaveInvoice(d) PROVE IInv'
    BY <1>1, DraftIInv DEF Docs
  <1>2. ASSUME NEW d \in Docs, DeleteDraft(d) PROVE IInv'
    BY <1>2, DraftIInv
  <1>3. ASSUME NEW s \in Sessions,
               \/ \E p \in Payments : CheckPayment(s, p)
               \/ \E d \in Docs : FindDraft(s, d)
               \/ \E d \in Docs : FindPosted(s, d)
               \/ \E j \in DOMAIN ledger : FindJournal(s, j)
        PROVE  IInv'
    BY <1>3, BeginningsIInv
  <1>4. ASSUME NEW s \in Sessions,
               \/ SaveHeader(s) \/ Measure(s) \/ TakeNumber(s) \/ Freeze(s) \/ WriteJournal(s)
               \/ \E i \in Sales : LockInvoice(s, i)
        PROVE  IInv'
    BY <1>4, StatementsIInv
  <1>5. ASSUME NEW s \in Sessions, SaveAllocations(s) \/ Commit(s) \/ Abort(s) PROVE IInv'
    BY <1>5, SaveAllocationsIInv, CommitIInv, AbortIInv
  <1>6. CASE UNCHANGED vars
    <2>1. doc' = doc /\ ledger' = ledger /\ holder' = holder /\ session' = session
      BY <1>6 DEF vars
    <2>2. TypeOK'
      BY <2>1 DEF IInv, TypeOK
    <2>3. OneReversal'
      BY <2>1 DEF IInv, OneReversal, ReversalsOf
    <2>4. ASSUME NEW t \in Sessions PROVE RequestOK(t)'
      <3>1. Shape(t) /\ HoldsDoc(t) /\ HoldsJournal(t)
        BY DEF IInv, RequestOK
      <3>2. Shape(t)'
        BY <2>1, <3>1 DEF Shape
      <3>3. HoldsDoc(t)'
        BY <2>1, <3>1 DEF HoldsDoc
      <3>4. HoldsJournal(t)'
        BY <2>1, <3>1 DEF HoldsJournal, ReversalsOf
      <3> QED  BY <3>2, <3>3, <3>4 DEF RequestOK
    <2> QED  BY <2>2, <2>3, <2>4 DEF IInv
  <1> QED  BY <1>1, <1>2, <1>3, <1>4, <1>5, <1>6 DEF Next

\* The strengthened invariant holds in every behaviour.
LEMMA InvariantHolds == Spec => []IInv
  BY InitIInv, StepIInv, PTL DEF Spec

\* Documents, journals, locks and requests always have their shape, and a journal
\* only reverses an earlier one, for any documents and any number of requests.
THEOREM TypeCorrect == Spec => []TypeOK
  <1>1. IInv => TypeOK
    BY DEF IInv
  <1> QED  BY InvariantHolds, <1>1, PTL

\* A journal is reversed at most once and by the same amount, however many voids
\* and reversals by hand race for it: the unique index on reverses_id decides
\* under the series' lock.
THEOREM NoSecondReversal == Spec => []ReversedOnce
  <1>1. IInv => ReversedOnce
    <2> SUFFICES ASSUME IInv, NEW j \in DOMAIN ledger
                 PROVE  /\ Cardinality(ReversalsOf(j)) <= 1
                        /\ \A k \in ReversalsOf(j) : ledger[k].amount = ledger[j].amount
      BY DEF ReversedOnce
    <2>1. \A k, l \in ReversalsOf(j) : k = l /\ ledger[k].amount = ledger[j].amount
      BY DEF IInv, OneReversal
    <2>2. CASE ReversalsOf(j) = {}
      BY <2>1, <2>2, FS_EmptySet
    <2>3. CASE ReversalsOf(j) # {}
      <3>1. PICK k \in ReversalsOf(j) : TRUE
        BY <2>3
      <3>2. ReversalsOf(j) = {k}
        BY <2>1, <3>1
      <3>3. Cardinality(ReversalsOf(j)) = 1
        BY <3>2, FS_Singleton
      <3> QED  BY <2>1, <3>3
    <2> QED  BY <2>2, <2>3
  <1> QED  BY InvariantHolds, <1>1, PTL

\* A posted document keeps its content for ever and only ever becomes voided:
\* whatever read it as a draft finds that out at its own guarded UPDATE.
THEOREM PostedStays == Spec => PostedIsFrozen
  <1>1. IInv /\ [Next]_vars => [KeepsPosted]_vars
    <2> SUFFICES ASSUME IInv, Next, NEW d \in Docs, doc[d].status \in {"posted", "voided"}
                 PROVE  /\ doc'[d].amount = doc[d].amount
                        /\ doc'[d].taken = doc[d].taken
                        /\ \/ doc'[d].status = doc[d].status
                           \/ doc[d].status = "posted" /\ doc'[d].status = "voided"
      BY DEF KeepsPosted
    <2>0. doc \in [Docs -> Document]
      BY DEF IInv, TypeOK
    <2>1. CASE doc'[d] = doc[d]
      BY <2>1
    <2>2. ASSUME NEW c \in Docs, SaveInvoice(c) \/ DeleteDraft(c)
          PROVE  doc'[d] = doc[d]
      BY <2>0, <2>2 DEF SaveInvoice, DeleteDraft
    <2>3. ASSUME NEW s \in Sessions, SaveAllocations(s)
          PROVE  doc'[d] = doc[d]
      <3>1. /\ session[s].doc # d
            /\ doc' = [doc EXCEPT ![session[s].doc] = session[s].seen]
        BY <2>3 DEF SaveAllocations, IInv, RequestOK, HoldsDoc
      <3> QED  BY <2>0, <3>1
    <2>4. ASSUME NEW s \in Sessions, Commit(s), doc'[d] # doc[d]
          PROVE  doc[d].status = "posted" /\ doc'[d] = [doc[d] EXCEPT !.status = "voided"]
      <3>1. PICK c \in Docs, st \in {"posted", "voided"} :
              /\ doc[c].status = IF st = "posted" THEN "draft" ELSE "posted"
              /\ \A x \in Docs : x # c => doc'[x] = doc[x]
              /\ doc'[c] = [doc[c] EXCEPT !.status = st]
        BY <2>4, CommitDocs
      <3>2. c = d
        BY <2>4, <3>1
      <3>3. st = "voided"
        BY <3>1, <3>2
      <3> QED  BY <3>1, <3>2, <3>3
    <2>5. \/ UNCHANGED doc
          \/ \E c \in Docs : SaveInvoice(c) \/ DeleteDraft(c)
          \/ \E s \in Sessions : SaveAllocations(s) \/ Commit(s)
      BY DEF Next, Docs, CheckPayment, SaveHeader, FindDraft, LockInvoice, Measure, TakeNumber,
             Freeze, WriteJournal, Abort, FindPosted, FindJournal
    <2>6. CASE doc'[d] = [doc[d] EXCEPT !.status = "voided"] /\ doc[d].status = "posted"
      <3>1. doc[d] \in Document
        BY <2>0
      <3> QED  BY <2>6, <3>1 DEF Document
    <2> QED  BY <2>1, <2>2, <2>3, <2>4, <2>5, <2>6
  <1> QED  BY InvariantHolds, <1>1, PTL DEF Spec, PostedIsFrozen

-----------------------------------------------------------------------------
(* Where a draft is saved once, what a request read is what it finds again,  *)
(* so that a journal and its document cannot come apart.                     *)

NoResaving == "resave" \notin Ops

\* AccountedFor of one document without counting, and that its journal is for
\* what it says.
Accounted(d) ==
    /\ doc[d].status \in {"none", "draft", "deleted"} => OriginalOf(d) = {}
    /\ doc[d].status \in {"posted", "voided"} => (doc[d].amount = 0 <=> OriginalOf(d) = {})
    /\ \A j, k \in OriginalOf(d) : j = k /\ ledger[j].amount = doc[d].amount
    /\ doc[d].status = "voided" => \A j \in OriginalOf(d) : ReversalsOf(j) # {}

\* A save under way is for a payment that nobody else can name yet; a post has
\* read the amount the draft still has; a void has the journal the document still
\* has; and the journals' series is held from the journal on, if there is one.
Knows(s) ==
    LET r == session[s]
    IN  /\ r.op = "save" =>
              /\ r.doc \in Payments /\ doc[r.doc].status = "none" /\ r.seen.status = "draft"
              /\ \A t \in Sessions \ {s} : session[t].doc # r.doc
        /\ r.op = "post" => doc[r.doc].status # "none" /\ r.seen.amount = doc[r.doc].amount
        /\ r.op = "void" =>
              /\ doc[r.doc].status \in {"posted", "voided"}
              /\ OriginalOf(r.doc) = IF r.journal = 0 THEN {} ELSE {r.journal}
        /\ r.step = "written" => (holder["journal"] = s <=> ~Silent(s))

JInv ==
    /\ IInv
    /\ \A d \in Docs : Accounted(d)
    /\ \A s \in Sessions : Knows(s)

\* What may become of a document in a step, and of the journals it raised.
Moves(d) ==
    \/ doc'[d] = doc[d]
    \/ doc[d].status = "none" /\ doc'[d].status = "draft"
    \/ /\ <<doc[d].status, doc'[d].status>> \in
            {<<"draft", "deleted">>, <<"draft", "posted">>, <<"posted", "voided">>}
       /\ doc'[d].amount = doc[d].amount

\* The document of a save under way is a payment that no other request names.
LEMMA SavesAlone ==
    ASSUME JInv, NEW t \in Sessions, session[t].op = "save"
    PROVE  /\ session[t].doc \in Docs /\ session[t].doc \in Payments /\ session[t].doc # Nil
           /\ doc[session[t].doc].status = "none" /\ session[t].seen.status = "draft"
           /\ \A u \in Sessions \ {t} : session[u].doc # session[t].doc
  <1>1. Knows(t)
    BY DEF JInv
  <1> QED  BY <1>1, ReceivablesAssumption DEF Knows, Docs

\* A request that takes no part in a step still knows what it knew.
LEMMA KnowsStill ==
    ASSUME JInv, NEW t \in Sessions,
           session'[t] = session[t],
           holder'["journal"] = t <=> holder["journal"] = t,
           \A d \in Docs : Moves(d) /\ (OriginalOf(d)' = OriginalOf(d) \/ doc[d].status = "draft"),
           session[t].op = "save" =>
               /\ doc'[session[t].doc] = doc[session[t].doc]
               /\ \A u \in Sessions \ {t} : session'[u].doc # session[t].doc
    PROVE  Knows(t)'
  <1> DEFINE d == session[t].doc
  <1>1. Knows(t) /\ (session[t].op \in {"save", "post", "void"} => d \in Docs)
    BY DEF JInv, IInv, RequestOK, Shape
  <1>2. session[t].step = "written" => (holder'["journal"] = t <=> ~Silent(t)')
    BY <1>1 DEF Knows, Silent
  <1>3. CASE session[t].op = "save"
    BY <1>1, <1>2, <1>3 DEF Knows
  <1>4. CASE session[t].op = "post"
    BY <1>1, <1>2, <1>4 DEF Knows, Moves
  <1>5. CASE session[t].op = "void"
    <2>1. doc[d].status \in {"posted", "voided"} /\ OriginalOf(d)' = OriginalOf(d)
      BY <1>1, <1>5 DEF Knows
    <2>2. doc'[d].status \in {"posted", "voided"}
      BY <1>1, <1>5, <2>1 DEF Moves
    <2> QED  BY <1>1, <1>2, <1>5, <2>1, <2>2 DEF Knows
  <1>6. CASE session[t].op \notin {"save", "post", "void"}
    BY <1>1, <1>2, <1>6 DEF Knows
  <1> QED  BY <1>3, <1>4, <1>5, <1>6

\* A step of one request that leaves the documents and the ledger alone.
LEMMA OneKnows ==
    ASSUME JInv, IInv', NEW s \in Sessions, NEW m \in Requests,
           session' = [session EXCEPT ![s] = m],
           \A t \in Sessions \ {s} : holder'["journal"] = t <=> holder["journal"] = t,
           doc' = doc, ledger' = ledger,
           \A t \in Sessions \ {s} : session[t].op = "save" => m.doc # session[t].doc,
           Knows(s)'
    PROVE  JInv'
  <1>1. \A d \in Docs : Accounted(d)'
    BY DEF JInv, Accounted, OriginalOf, ReversalsOf
  <1>2. \A d \in Docs : Moves(d) /\ OriginalOf(d)' = OriginalOf(d)
    BY DEF Moves, OriginalOf
  <1>3. session \in [Sessions -> Requests]
    BY DEF JInv, IInv, TypeOK, Requests
  <1>4. ASSUME NEW t \in Sessions PROVE Knows(t)'
    <2>1. CASE t = s
      BY <2>1
    <2>2. CASE t # s
      <3>1. session'[t] = session[t]
        BY <1>3, <2>2
      <3>2. ASSUME session[t].op = "save", NEW u \in Sessions \ {t}
            PROVE  session'[u].doc # session[t].doc
        <4>1. session[u].doc # session[t].doc
          BY <3>2, SavesAlone
        <4>2. session'[u] = IF u = s THEN m ELSE session[u]
          BY <1>3
        <4> QED  BY <2>2, <3>2, <4>1, <4>2
      <3> QED  BY <1>2, <2>2, <3>1, <3>2, KnowsStill
    <2> QED  BY <2>1, <2>2
  <1> QED  BY <1>1, <1>4 DEF JInv

\* The requests that begin.
LEMMA BeginKnows ==
    ASSUME JInv, IInv', NEW s \in Sessions,
           NEW op \in {"save", "post", "void", "reverse"}, NEW d \in Docs \cup {Nil},
           NEW seen \in Document, NEW j \in Nat,
           Begin(s, op, d, seen, j), UNCHANGED <<doc, ledger, holder>>,
           \A t \in Sessions \ {s} : session[t].op = "save" => session[t].doc # d,
           op = "save" =>
               /\ d \in Payments /\ doc[d].status = "none" /\ seen.status = "draft"
               /\ \A t \in Sessions \ {s} : session[t].doc # d,
           op = "post" => doc[d].status # "none" /\ seen.amount = doc[d].amount,
           op = "void" =>
               /\ doc[d].status \in {"posted", "voided"}
               /\ OriginalOf(d) = IF j = 0 THEN {} ELSE {j}
    PROVE  JInv'
  <1> DEFINE m == [op |-> op, doc |-> d, step |-> "found", seen |-> seen, journal |-> j]
  <1>1. m \in Requests
    BY DEF Requests
  <1>2. session \in [Sessions -> Requests]
    BY DEF JInv, IInv, TypeOK, Requests
  <1>3. session' = [session EXCEPT ![s] = m] /\ session'[s] = m
    BY <1>2 DEF Begin
  <1>4. \A t \in Sessions \ {s} : session'[t] = session[t]
    BY <1>2, <1>3
  <1>5. OriginalOf(d)' = OriginalOf(d)
    BY DEF OriginalOf
  <1>6. Knows(s)'
    <2>1. /\ session'[s].op = op /\ session'[s].doc = d /\ session'[s].seen = seen
          /\ session'[s].journal = j /\ session'[s].step = "found"
      BY <1>3
    <2>2. doc' = doc /\ \A t \in Sessions \ {s} : session'[t].doc = session[t].doc
      BY <1>4
    <2>3. CASE op = "save"
      BY <2>1, <2>2, <2>3 DEF Knows
    <2>4. CASE op = "post"
      BY <2>1, <2>2, <2>4 DEF Knows
    <2>5. CASE op = "void"
      BY <1>5, <2>1, <2>2, <2>5 DEF Knows
    <2>6. CASE op = "reverse"
      BY <2>1, <2>6 DEF Knows
    <2> QED  BY <2>3, <2>4, <2>5, <2>6
  <1>7. \A t \in Sessions \ {s} : session[t].op = "save" => m.doc # session[t].doc
    OBVIOUS
  <1>8. doc' = doc /\ ledger' = ledger /\ holder' = holder
    OBVIOUS
  <1> HIDE DEF m
  <1> QED  BY <1>1, <1>3, <1>6, <1>7, <1>8, OneKnows

LEMMA BeginningsKnow ==
    ASSUME NoResaving, JInv, IInv', NEW s \in Sessions,
           \/ \E p \in Payments : CheckPayment(s, p)
           \/ \E d \in Docs : FindDraft(s, d)
           \/ \E d \in Docs : FindPosted(s, d)
           \/ \E j \in DOMAIN ledger : FindJournal(s, j)
    PROVE  JInv'
  <1>0. /\ \A d \in Docs : doc[d] \in Document
        /\ \A j \in DOMAIN ledger : j \in Nat \ {0}
        /\ \A t \in Sessions : session[t].op = "save" =>
             session[t].doc \in Docs /\ doc[session[t].doc].status = "none"
    BY SavesAlone DEF JInv, IInv, TypeOK
  <1>1. ASSUME NEW p \in Payments, CheckPayment(s, p) PROVE JInv'
    <2>1. /\ p \in Docs /\ doc[p].status = "none"
          /\ \A t \in Sessions : session[t].doc # p
          /\ UNCHANGED <<doc, ledger, holder>>
      BY <1>1 DEF CheckPayment, Offered, Docs, NoResaving
    <2>2. PICK c \in Contents(p) :
            Begin(s, "save", p, [status |-> "draft", amount |-> c.amount, taken |-> c.taken], 0)
      BY <1>1 DEF CheckPayment
    <2> DEFINE form == [status |-> "draft", amount |-> c.amount, taken |-> c.taken]
    <2>3. form \in Document /\ form.status = "draft"
      BY <2>1, ContentsTyped DEF Document, Statuses
    <2>4. Begin(s, "save", p, form, 0)
      BY <2>2
    <2> HIDE DEF form
    <2> QED  BY <2>1, <2>3, <2>4, BeginKnows
  <1>2. ASSUME NEW d \in Docs, FindDraft(s, d) PROVE JInv'
    <2>1. /\ doc[d].status = "draft" /\ UNCHANGED <<doc, ledger, holder>>
          /\ Begin(s, "post", d, doc[d], 0)
      BY <1>2 DEF FindDraft
    <2>2. \A t \in Sessions : session[t].op = "save" => session[t].doc # d
      BY <1>0, <2>1
    <2>3. doc[d] \in Document /\ doc[d].status # "none" /\ doc[d].amount = doc[d].amount
      BY <1>0, <2>1
    <2> QED  BY <2>1, <2>2, <2>3, BeginKnows
  <1>3. ASSUME NEW d \in Docs, FindPosted(s, d) PROVE JInv'
    <2>1. /\ doc[d].status = "posted" /\ UNCHANGED <<doc, ledger, holder>>
          /\ \/ OriginalOf(d) = {} /\ Begin(s, "void", d, doc[d], 0)
             \/ \E j \in OriginalOf(d) : Begin(s, "void", d, doc[d], j)
      BY <1>3 DEF FindPosted
    <2>2. PICK j \in Nat : /\ Begin(s, "void", d, doc[d], j)
                           /\ OriginalOf(d) = IF j = 0 THEN {} ELSE {j}
      <3>1. ASSUME NEW k \in OriginalOf(d) PROVE k \in Nat \ {0} /\ OriginalOf(d) = {k}
        BY <1>0 DEF JInv, Accounted, OriginalOf
      <3>2. CASE OriginalOf(d) = {} /\ Begin(s, "void", d, doc[d], 0)
        BY <3>2
      <3>3. CASE \E j \in OriginalOf(d) : Begin(s, "void", d, doc[d], j)
        BY <3>1, <3>3
      <3> QED  BY <2>1, <3>2, <3>3
    <2>3. \A t \in Sessions : session[t].op = "save" => session[t].doc # d
      BY <1>0, <2>1
    <2> QED  BY <1>0, <2>1, <2>2, <2>3, BeginKnows
  <1>4. ASSUME NEW j \in DOMAIN ledger, FindJournal(s, j) PROVE JInv'
    <2>1. UNCHANGED <<doc, ledger, holder>> /\ Begin(s, "reverse", Nil, Blank, j)
      BY <1>4 DEF FindJournal
    <2>2. Blank \in Document /\ j \in Nat
      BY <1>0 DEF Blank, Nothing, Document, Statuses
    <2>3. \A t \in Sessions : session[t].op = "save" => session[t].doc # Nil
      BY <1>0, ReceivablesAssumption
    <2> QED  BY <2>1, <2>2, <2>3, BeginKnows
  <1> QED  BY <1>1, <1>2, <1>3, <1>4

\* A request that goes on, or ends with nothing written.
LEMMA StatementKnows ==
    ASSUME JInv, IInv', NEW s \in Sessions,
           NEW st \in {"found", "locked", "numbered", "frozen", "written"},
           session' = [session EXCEPT ![s].step = st],
           \A t \in Sessions \ {s} : holder'["journal"] = t <=> holder["journal"] = t,
           doc' = doc, ledger' = ledger,
           st = "written" => (holder'["journal"] = s <=> ~Silent(s))
    PROVE  JInv'
  <1> DEFINE m == [session[s] EXCEPT !.step = st]
  <1>1. session \in [Sessions -> Requests] /\ Knows(s)
    BY DEF JInv, IInv, TypeOK, Requests
  <1>2. /\ m \in Requests /\ m.step = st /\ m.op = session[s].op /\ m.doc = session[s].doc
        /\ m.seen = session[s].seen /\ m.journal = session[s].journal
    BY <1>1 DEF Requests
  <1>3. session' = [session EXCEPT ![s] = m] /\ session'[s] = m
    BY <1>1
  <1>4. \A t \in Sessions \ {s} : session'[t] = session[t]
    BY <1>1, <1>3
  <1> HIDE DEF m
  <1>5. \A t \in Sessions \ {s} : session[t].op = "save" => m.doc # session[t].doc
    BY <1>2, SavesAlone
  <1>6. Silent(s)' <=> Silent(s)
    BY <1>2, <1>3 DEF Silent
  <1>7. Knows(s)'
    BY <1>1, <1>2, <1>3, <1>4, <1>6 DEF Knows, OriginalOf
  <1> QED  BY <1>2, <1>3, <1>5, <1>7, OneKnows

LEMMA StatementsKnow ==
    ASSUME JInv, IInv', NEW s \in Sessions,
           \/ SaveHeader(s) \/ Measure(s) \/ TakeNumber(s) \/ Freeze(s) \/ WriteJournal(s)
           \/ \E i \in Sales : LockInvoice(s, i)
    PROVE  JInv'
  <1>0. /\ IInv /\ session \in [Sessions -> Requests] /\ Shape(s) /\ HoldsJournal(s)
        /\ session[s].doc \in Docs \cup {Nil} /\ "journal" \in Docs \cup Series
    BY DEF JInv, IInv, TypeOK, RequestOK, Requests, Series
  <1>1. ASSUME SaveHeader(s) PROVE JInv'
    <2>1. /\ session[s].doc \in Docs /\ doc' = doc /\ ledger' = ledger
          /\ Free({session[s].doc}, s) /\ Hold({session[s].doc}, s)
          /\ session' = [session EXCEPT ![s].step = "frozen"]
      BY <1>0, <1>1 DEF SaveHeader, Goto, Shape
    <2>2. \A t \in Sessions \ {s} : holder'["journal"] = t <=> holder["journal"] = t
      BY <1>0, <2>1, HoldTakes
    <2> QED  BY <2>1, <2>2, StatementKnows
  <1>2. ASSUME Measure(s) PROVE JInv'
    <2>1. /\ doc' = doc /\ ledger' = ledger /\ holder' = holder
          /\ session' = [session EXCEPT ![s].step = "locked"]
      BY <1>2 DEF Measure, Goto
    <2> QED  BY <2>1, StatementKnows
  <1>3. ASSUME TakeNumber(s) PROVE JInv'
    <2> DEFINE r == SeriesOf(session[s].doc)
    <2>1. /\ r \in Series /\ doc' = doc /\ ledger' = ledger /\ Free({r}, s) /\ Hold({r}, s)
          /\ session' = [session EXCEPT ![s].step = "numbered"]
      BY <1>3 DEF TakeNumber, Goto, SeriesOf, Series
    <2> HIDE DEF r
    <2>2. \A t \in Sessions \ {s} : holder'["journal"] = t <=> holder["journal"] = t
      BY <1>0, <2>1, HoldTakes
    <2> QED  BY <2>1, <2>2, StatementKnows
  <1>4. ASSUME Freeze(s) PROVE JInv'
    <2>1. /\ session[s].doc \in Docs /\ doc' = doc /\ ledger' = ledger
          /\ Free({session[s].doc}, s) /\ Hold({session[s].doc}, s)
          /\ session' = [session EXCEPT ![s].step = "frozen"]
      BY <1>0, <1>4 DEF Freeze, Goto, Shape
    <2>2. \A t \in Sessions \ {s} : holder'["journal"] = t <=> holder["journal"] = t
      BY <1>0, <2>1, HoldTakes
    <2> QED  BY <2>1, <2>2, StatementKnows
  <1>5. ASSUME WriteJournal(s) PROVE JInv'
    <2>1. /\ doc' = doc /\ ledger' = ledger /\ session[s].step # "written"
          /\ session' = [session EXCEPT ![s].step = "written"]
      BY <1>5 DEF WriteJournal, Goto
    <2>2. holder["journal"] # s
      BY <1>0, <2>1 DEF HoldsJournal
    <2>3. CASE Silent(s)
      <3>1. holder' = holder
        BY <1>5, <2>3 DEF WriteJournal
      <3> QED  BY <2>1, <2>2, <2>3, <3>1, StatementKnows
    <2>4. CASE ~Silent(s)
      <3>1. Free({"journal"}, s) /\ Hold({"journal"}, s)
        BY <1>5, <2>4 DEF WriteJournal
      <3>2. /\ holder'["journal"] = s
            /\ \A t \in Sessions \ {s} : holder'["journal"] = t <=> holder["journal"] = t
        BY <1>0, <3>1, HoldTakes
      <3> QED  BY <2>1, <2>4, <3>2, StatementKnows
    <2> QED  BY <2>3, <2>4
  <1>6. ASSUME NEW i \in Sales, LockInvoice(s, i) PROVE JInv'
    <2>1. /\ i \in Docs /\ doc' = doc /\ ledger' = ledger /\ session' = session
          /\ Free({i}, s) /\ Hold({i}, s) /\ session[s].step = "found"
      BY <1>6 DEF LockInvoice, Free, Docs, Collecting
    <2>2. \A t \in Sessions \ {s} : holder'["journal"] = t <=> holder["journal"] = t
      BY <1>0, <2>1, HoldTakes
    <2>3. session' = [session EXCEPT ![s].step = "found"]
      BY <1>0, <2>1 DEF Requests
    <2> QED  BY <2>1, <2>2, <2>3, StatementKnows
  <1> QED  BY <1>1, <1>2, <1>3, <1>4, <1>5, <1>6

LEMMA AbortKnows ==
    ASSUME JInv, IInv', NEW s \in Sessions, Abort(s)
    PROVE  JInv'
  <1>1. /\ IInv /\ Finish(s) /\ doc' = doc /\ ledger' = ledger
        /\ session \in [Sessions -> Requests] /\ "journal" \in Docs \cup Series
    BY DEF Abort, JInv, IInv, TypeOK, Requests, Series
  <1>2. /\ session' = [session EXCEPT ![s] = Idle] /\ Idle \in Requests
        /\ \A t \in Sessions \ {s} : holder'["journal"] = t <=> holder["journal"] = t
    BY <1>1, FinishGives
  <1>3. session'[s] = Idle
    BY <1>1, <1>2
  <1>4. Knows(s)'
    BY <1>3 DEF Knows, Idle
  <1>5. \A t \in Sessions \ {s} : session[t].op = "save" => Idle.doc # session[t].doc
    BY SavesAlone DEF Idle
  <1> QED  BY <1>1, <1>2, <1>4, <1>5, OneKnows

-----------------------------------------------------------------------------
\* Drafts come and go without touching the ledger.
LEMMA DraftMoves ==
    ASSUME JInv, ledger' = ledger, NEW d \in Docs,
           \/ doc'[d] = doc[d]
           \/ doc[d].status = "none" /\ doc'[d].status = "draft"
           \/ /\ doc[d].status = "draft" /\ doc'[d].status = "deleted"
              /\ doc'[d].amount = doc[d].amount
    PROVE  Moves(d) /\ Accounted(d)' /\ OriginalOf(d)' = OriginalOf(d)
  <1>1. Accounted(d)
    BY DEF JInv
  <1>2. OriginalOf(d)' = OriginalOf(d) /\ \A j : ReversalsOf(j)' = ReversalsOf(j)
    BY DEF OriginalOf, ReversalsOf
  <1>3. Moves(d)
    BY DEF Moves
  <1>4. CASE doc'[d] = doc[d]
    BY <1>1, <1>2, <1>3, <1>4 DEF Accounted
  <1>5. CASE doc[d].status \in {"none", "draft"} /\ doc'[d].status \in {"draft", "deleted"}
    BY <1>1, <1>2, <1>3, <1>5 DEF Accounted
  <1> QED  BY <1>4, <1>5

LEMMA DraftKnows ==
    ASSUME NoResaving, JInv, IInv', NEW d \in Docs,
           (d \in Sales \cup Notes /\ SaveInvoice(d)) \/ DeleteDraft(d)
    PROVE  JInv'
  <1>1. ledger' = ledger /\ holder' = holder /\ session' = session /\ doc \in [Docs -> Document]
    BY DEF SaveInvoice, DeleteDraft, JInv, IInv, TypeOK
  <1>2. /\ \A c \in Docs : c # d => doc'[c] = doc[c]
        /\ \/ d \notin Payments /\ doc[d].status = "none" /\ doc'[d].status = "draft"
           \/ /\ doc[d].status = "draft" /\ doc'[d].status = "deleted"
              /\ doc'[d].amount = doc[d].amount
    <2>1. CASE d \in Sales \cup Notes /\ SaveInvoice(d)
      <3>1. d \notin Payments /\ doc[d].status = "none"
        BY <2>1, ReceivablesAssumption DEF SaveInvoice, NoResaving
      <3>2. PICK c \in Contents(d) :
              doc' = [doc EXCEPT ![d] = [status |-> "draft", amount |-> c.amount, taken |-> c.taken]]
        BY <2>1 DEF SaveInvoice
      <3> QED  BY <1>1, <3>1, <3>2
    <2>2. CASE DeleteDraft(d)
      <3>1. doc[d].status = "draft" /\ doc[d] \in Document
        BY <1>1, <2>2 DEF DeleteDraft
      <3>2. doc' = [doc EXCEPT ![d] = [doc[d] EXCEPT !.status = "deleted"]]
        BY <2>2 DEF DeleteDraft
      <3>3. /\ doc'[d] = [doc[d] EXCEPT !.status = "deleted"]
            /\ \A c \in Docs : c # d => doc'[c] = doc[c]
        BY <1>1, <3>2
      <3> QED  BY <3>1, <3>3 DEF Document
    <2> QED  BY <2>1, <2>2
  <1>3. \A c \in Docs : Moves(c) /\ Accounted(c)' /\ OriginalOf(c)' = OriginalOf(c)
    BY <1>1, <1>2, DraftMoves
  <1>4. ASSUME NEW t \in Sessions PROVE Knows(t)'
    <2>1. session[t].op = "save" => /\ doc'[session[t].doc] = doc[session[t].doc]
                                    /\ \A u \in Sessions \ {t} : session'[u].doc # session[t].doc
      BY <1>1, <1>2, SavesAlone
    <2> QED  BY <1>1, <1>3, <2>1, KnowsStill
  <1> QED  BY <1>3, <1>4 DEF JInv

\* A request ends with its document written: what the others know stays.
LEMMA EndKnows ==
    ASSUME JInv, IInv', NEW s \in Sessions, Finish(s),
           \A d \in Docs : Moves(d) /\ (OriginalOf(d)' = OriginalOf(d) \/ doc[d].status = "draft"),
           \A d \in Docs : doc'[d] # doc[d] => d = session[s].doc,
           \A d \in Docs : Accounted(d)'
    PROVE  JInv'
  <1>1. /\ IInv /\ session \in [Sessions -> Requests] /\ "journal" \in Docs \cup Series
    BY DEF JInv, IInv, TypeOK, Requests, Series
  <1>2. /\ session' = [session EXCEPT ![s] = Idle]
        /\ \A t \in Sessions \ {s} : holder'["journal"] = t <=> holder["journal"] = t
    BY <1>1, FinishGives
  <1>3. ASSUME NEW t \in Sessions PROVE Knows(t)'
    <2>1. CASE t = s
      <3>1. session'[s] = Idle
        BY <1>1, <1>2
      <3> QED  BY <2>1, <3>1 DEF Knows, Idle
    <2>2. CASE t # s
      <3>1. session'[t] = session[t]
        BY <1>1, <1>2, <2>2
      <3>2. ASSUME session[t].op = "save"
            PROVE  /\ doc'[session[t].doc] = doc[session[t].doc]
                   /\ \A u \in Sessions \ {t} : session'[u].doc # session[t].doc
        <4>1. /\ session[t].doc \in Docs /\ session[t].doc # Nil
              /\ \A u \in Sessions \ {t} : session[u].doc # session[t].doc
          BY <3>2, SavesAlone
        <4>2. \A u \in Sessions : session'[u].doc \in {session[u].doc, Nil}
          BY <1>1, <1>2 DEF Idle
        <4> QED  BY <2>2, <4>1, <4>2
      <3> QED  BY <1>2, <2>2, <3>1, <3>2, KnowsStill
    <2> QED  BY <2>1, <2>2
  <1> QED  BY <1>3 DEF JInv

LEMMA SaveAllocationsKnows ==
    ASSUME JInv, IInv', NEW s \in Sessions, SaveAllocations(s)
    PROVE  JInv'
  <1>1. /\ session[s].op = "save" /\ Finish(s) /\ ledger' = ledger
        /\ doc' = [doc EXCEPT ![session[s].doc] = session[s].seen]
    BY DEF SaveAllocations
  <1>2. doc \in [Docs -> Document]
    BY DEF JInv, IInv, TypeOK
  <1>3. /\ session[s].doc \in Docs /\ doc[session[s].doc].status = "none"
        /\ session[s].seen.status = "draft"
    BY <1>1, SavesAlone
  <1>4. /\ \A d \in Docs : d # session[s].doc => doc'[d] = doc[d]
        /\ doc'[session[s].doc].status = "draft"
    BY <1>1, <1>2, <1>3
  <1>5. \A d \in Docs : Moves(d) /\ Accounted(d)' /\ OriginalOf(d)' = OriginalOf(d)
    BY <1>1, <1>3, <1>4, DraftMoves
  <1> QED  BY <1>1, <1>4, <1>5, EndKnows

-----------------------------------------------------------------------------
\* One more journal: what is found under a document and what reverses a journal.
LEMMA LedgerGrows ==
    ASSUME ledger \in Seq(Journal), NEW e, ledger' = Append(ledger, e)
    PROVE  /\ \A d : OriginalOf(d)' = IF e.doc = d THEN OriginalOf(d) \cup {Len(ledger) + 1}
                                      ELSE OriginalOf(d)
           /\ \A d : \A j \in OriginalOf(d) : ledger'[j] = ledger[j]
           /\ ledger'[Len(ledger) + 1] = e
           /\ \A j : ReversalsOf(j) \subseteq ReversalsOf(j)'
           /\ ReversalsOf(e.reverses)' # {}
  <1>1. /\ DOMAIN ledger = 1 .. Len(ledger) /\ Len(ledger) \in Nat
        /\ DOMAIN ledger' = DOMAIN ledger \cup {Len(ledger) + 1}
        /\ Len(ledger) + 1 \notin DOMAIN ledger
        /\ ledger'[Len(ledger) + 1] = e
        /\ \A i \in DOMAIN ledger : ledger'[i] = ledger[i]
    OBVIOUS
  <1>2. ASSUME NEW d
        PROVE  OriginalOf(d)' = IF e.doc = d THEN OriginalOf(d) \cup {Len(ledger) + 1}
                                ELSE OriginalOf(d)
    BY <1>1, Zenon DEF OriginalOf
  <1>3. \A d : \A j \in OriginalOf(d) : ledger'[j] = ledger[j]
    BY <1>1 DEF OriginalOf
  <1>4. \A j : ReversalsOf(j) \subseteq ReversalsOf(j)'
    BY <1>1 DEF ReversalsOf
  <1>5. Len(ledger) + 1 \in ReversalsOf(e.reverses)'
    BY <1>1 DEF ReversalsOf
  <1> QED  BY <1>1, <1>2, <1>3, <1>4, <1>5

\* The three kinds of commit.
LEMMA CommitCases ==
    ASSUME JInv, NEW s \in Sessions, Commit(s)
    PROVE  LET d == session[s].doc
               j == session[s].journal
           IN  \/ /\ session[s].op = "post" /\ d \in Docs /\ doc[d].status = "draft"
                  /\ doc' = [doc EXCEPT ![d].status = "posted"]
                  /\ \/ doc[d].amount = 0 /\ ledger' = ledger
                     \/ doc[d].amount # 0 /\ ledger' = Append(ledger, Entry(d, doc[d].amount, 0))
               \/ /\ session[s].op = "void" /\ d \in Docs /\ doc[d].status = "posted"
                  /\ doc' = [doc EXCEPT ![d].status = "voided"]
                  /\ \/ OriginalOf(d) = {} /\ ledger' = ledger
                     \/ /\ OriginalOf(d) = {j}
                        /\ ledger' = Append(ledger, Entry(Nil, ledger[j].amount, j))
               \/ /\ session[s].op = "reverse" /\ doc' = doc
                  /\ ledger' = Append(ledger, Entry(Nil, ledger[j].amount, j))
  <1> DEFINE d == session[s].doc
             j == session[s].journal
             op == session[s].op
  <1>1. /\ session[s].step = "written" /\ session[s] \in Requests
        /\ Shape(s) /\ HoldsDoc(s) /\ Knows(s)
        /\ op \in {"idle", "save", "post", "void", "reverse"}
    BY DEF Commit, JInv, IInv, TypeOK, RequestOK, Requests
  <1>2. op \in {"post", "void", "reverse"} /\ (holder["journal"] = s <=> ~Silent(s))
    BY <1>1 DEF Shape, Knows
  <1>3. ledger' = IF Silent(s) THEN ledger
                  ELSE IF j = 0 THEN Append(ledger, Entry(d, session[s].seen.amount, 0))
                  ELSE Append(ledger, Entry(Nil, ledger[j].amount, j))
    BY <1>2 DEF Commit
  <1>4. CASE op = "post"
    <2>1. doc' = [doc EXCEPT ![d].status = "posted"]
      BY <1>4 DEF Commit
    <2>2. /\ d \in Docs /\ j = 0 /\ doc[d].status = "draft"
          /\ session[s].seen.amount = doc[d].amount
      BY <1>1, <1>4 DEF Shape, HoldsDoc, Knows, ExpectedStatus
    <2>3. Silent(s) <=> doc[d].amount = 0
      BY <1>4, <2>2 DEF Silent
    <2> QED  BY <1>3, <1>4, <2>1, <2>2, <2>3, Zenon
  <1>5. CASE op = "void"
    <2>1. doc' = [doc EXCEPT ![d].status = "voided"]
      BY <1>5 DEF Commit
    <2>2. /\ d \in Docs /\ doc[d].status = "posted"
          /\ OriginalOf(d) = IF j = 0 THEN {} ELSE {j}
      BY <1>1, <1>5 DEF Shape, HoldsDoc, Knows, ExpectedStatus
    <2>3. Silent(s) <=> j = 0
      BY <1>5 DEF Silent
    <2> QED  BY <1>3, <1>5, <2>1, <2>2, <2>3, Zenon
  <1>6. CASE op = "reverse"
    <2>1. doc' = doc
      BY <1>6 DEF Commit
    <2>2. j # 0 /\ ~Silent(s)
      BY <1>1, <1>6 DEF Shape, Silent
    <2> QED  BY <1>3, <1>6, <2>1, <2>2, Zenon
  <1> QED  BY <1>2, <1>4, <1>5, <1>6, Zenon

\* A document that the commit leaves alone, and whose journals it leaves alone.
LEMMA UntouchedAccounted ==
    ASSUME JInv, NEW d \in Docs, doc'[d] = doc[d], OriginalOf(d)' = OriginalOf(d),
           \A j \in OriginalOf(d) : ledger'[j] = ledger[j],
           \A j : ReversalsOf(j) \subseteq ReversalsOf(j)'
    PROVE  Accounted(d)'
  <1>1. Accounted(d)
    BY DEF JInv
  <1> QED  BY <1>1 DEF Accounted

LEMMA CommitKnows ==
    ASSUME JInv, IInv', NEW s \in Sessions, Commit(s)
    PROVE  JInv'
  <1> DEFINE n == Len(ledger) + 1
  <1>0. PICK d, j : d = session[s].doc /\ j = session[s].journal
    OBVIOUS
  <1>1. /\ Finish(s) /\ ledger \in Seq(Journal) /\ doc \in [Docs -> Document]
        /\ \A c \in Docs : c # Nil
    BY ReceivablesAssumption DEF Commit, JInv, IInv, TypeOK
  <1>2. ledger' = ledger =>
          /\ \A c : OriginalOf(c)' = OriginalOf(c)
          /\ \A c : \A k \in OriginalOf(c) : ledger'[k] = ledger[k]
          /\ \A k : ReversalsOf(k) \subseteq ReversalsOf(k)'
    BY DEF OriginalOf, ReversalsOf
  <1>3. CASE session[s].op = "post"
    <2>1. /\ d \in Docs /\ doc[d].status = "draft"
          /\ doc' = [doc EXCEPT ![d] = [doc[d] EXCEPT !.status = "posted"]]
          /\ \/ doc[d].amount = 0 /\ ledger' = ledger
             \/ doc[d].amount # 0 /\ ledger' = Append(ledger, Entry(d, doc[d].amount, 0))
      BY <1>0, <1>3, CommitCases
    <2>2. /\ \A c \in Docs : c # d => doc'[c] = doc[c]
          /\ doc'[d].status = "posted" /\ doc'[d].amount = doc[d].amount
      <3>1. doc[d] \in Document /\ doc'[d] = [doc[d] EXCEPT !.status = "posted"]
        BY <1>1, <2>1
      <3> QED  BY <1>1, <2>1, <3>1 DEF Document
    <2>3. OriginalOf(d) = {}
      BY <2>1 DEF JInv, Accounted
    <2>4. CASE doc[d].amount = 0 /\ ledger' = ledger
      <3>1. Accounted(d)'
        BY <1>2, <2>2, <2>3, <2>4 DEF Accounted
      <3>2. \A c \in Docs : Accounted(c)'
        BY <1>2, <2>2, <2>4, <3>1, UntouchedAccounted
      <3>3. \A c \in Docs : Moves(c) /\ (OriginalOf(c)' = OriginalOf(c) \/ doc[c].status = "draft")
        BY <1>2, <2>1, <2>2, <2>4 DEF Moves
      <3> QED  BY <1>1, <2>2, <3>2, <3>3, <1>0, EndKnows
    <2>5. CASE doc[d].amount # 0 /\ ledger' = Append(ledger, Entry(d, doc[d].amount, 0))
      <3>0. PICK e : e = Entry(d, doc[d].amount, 0)
        OBVIOUS
      <3>1. e.doc = d /\ e.amount = doc[d].amount
        BY <3>0 DEF Entry
      <3>2. /\ \A c : OriginalOf(c)' = IF e.doc = c THEN OriginalOf(c) \cup {n} ELSE OriginalOf(c)
            /\ \A c : \A k \in OriginalOf(c) : ledger'[k] = ledger[k]
            /\ ledger'[n] = e
            /\ \A k : ReversalsOf(k) \subseteq ReversalsOf(k)'
        BY <1>1, <2>5, <3>0, LedgerGrows
      <3>3. OriginalOf(d)' = {n} /\ ledger'[n].amount = doc[d].amount
        BY <2>3, <3>1, <3>2
      <3>4. \A c \in Docs : c # d => OriginalOf(c)' = OriginalOf(c)
        BY <3>1, <3>2
      <3> HIDE DEF n
      <3>5. Accounted(d)'
        BY <2>2, <2>5, <3>3 DEF Accounted
      <3>6. \A c \in Docs : Accounted(c)'
        BY <2>2, <3>2, <3>4, <3>5, UntouchedAccounted
      <3>7. \A c \in Docs : Moves(c) /\ (OriginalOf(c)' = OriginalOf(c) \/ doc[c].status = "draft")
        BY <2>1, <2>2, <3>4 DEF Moves
      <3> QED  BY <1>1, <2>2, <3>6, <3>7, <1>0, EndKnows
    <2> QED  BY <2>1, <2>4, <2>5
  <1>4. ASSUME ledger' = Append(ledger, Entry(Nil, ledger[j].amount, j))
        PROVE  /\ \A c \in Docs : OriginalOf(c)' = OriginalOf(c)
               /\ \A c : \A k \in OriginalOf(c) : ledger'[k] = ledger[k]
               /\ \A k : ReversalsOf(k) \subseteq ReversalsOf(k)'
               /\ ReversalsOf(j)' # {}
    <2>0. PICK e : e = Entry(Nil, ledger[j].amount, j)
      OBVIOUS
    <2>1. e.doc = Nil /\ e.reverses = j
      BY <2>0 DEF Entry
    <2> QED  BY <1>1, <1>4, <2>0, <2>1, LedgerGrows
  <1>5. CASE session[s].op = "void"
    <2>1. /\ d \in Docs /\ doc[d].status = "posted"
          /\ doc' = [doc EXCEPT ![d] = [doc[d] EXCEPT !.status = "voided"]]
          /\ \/ OriginalOf(d) = {} /\ ledger' = ledger
             \/ OriginalOf(d) = {j} /\ ledger' = Append(ledger, Entry(Nil, ledger[j].amount, j))
      BY <1>0, <1>5, CommitCases
    <2>2. /\ \A c \in Docs : c # d => doc'[c] = doc[c]
          /\ doc'[d].status = "voided" /\ doc'[d].amount = doc[d].amount
      <3>1. doc[d] \in Document /\ doc'[d] = [doc[d] EXCEPT !.status = "voided"]
        BY <1>1, <2>1
      <3> QED  BY <1>1, <2>1, <3>1 DEF Document
    <2>3. /\ \A c \in Docs : OriginalOf(c)' = OriginalOf(c)
          /\ \A c : \A k \in OriginalOf(c) : ledger'[k] = ledger[k]
          /\ \A k : ReversalsOf(k) \subseteq ReversalsOf(k)'
          /\ \A k \in OriginalOf(d) : ReversalsOf(k)' # {}
      BY <1>2, <1>4, <2>1
    <2>4. Accounted(d)
      BY <2>1 DEF JInv
    <2>5. Accounted(d)'
      BY <2>1, <2>2, <2>3, <2>4 DEF Accounted
    <2>6. \A c \in Docs : Accounted(c)'
      BY <2>2, <2>3, <2>5, UntouchedAccounted
    <2>7. \A c \in Docs : Moves(c) /\ OriginalOf(c)' = OriginalOf(c)
      BY <2>1, <2>2, <2>3 DEF Moves
    <2> QED  BY <1>1, <2>2, <2>6, <2>7, <1>0, EndKnows
  <1>6. CASE session[s].op = "reverse"
    <2>1. doc' = doc /\ ledger' = Append(ledger, Entry(Nil, ledger[j].amount, j))
      BY <1>0, <1>6, CommitCases
    <2>2. /\ \A c \in Docs : OriginalOf(c)' = OriginalOf(c)
          /\ \A c : \A k \in OriginalOf(c) : ledger'[k] = ledger[k]
          /\ \A k : ReversalsOf(k) \subseteq ReversalsOf(k)'
      BY <1>4, <2>1
    <2>3. \A c \in Docs : Accounted(c)'
      BY <2>1, <2>2, UntouchedAccounted
    <2>4. \A c \in Docs : Moves(c) /\ OriginalOf(c)' = OriginalOf(c)
      BY <2>1, <2>2 DEF Moves
    <2> QED  BY <1>1, <2>1, <2>3, <2>4, EndKnows
  <1> QED  BY <1>3, <1>5, <1>6, CommitCases

-----------------------------------------------------------------------------
LEMMA InitJInv == Init => JInv
  <1> SUFFICES ASSUME Init PROVE JInv
    OBVIOUS
  <1>1. \A d \in Docs : doc[d].status = "none" /\ OriginalOf(d) = {}
    BY DEF Init, Blank, OriginalOf
  <1>2. \A d \in Docs : Accounted(d)
    BY <1>1 DEF Accounted
  <1>3. \A s \in Sessions : Knows(s)
    BY DEF Init, Idle, Knows
  <1> QED  BY <1>2, <1>3, InitIInv DEF JInv

LEMMA StepJInv ==
    ASSUME NoResaving
    PROVE  JInv /\ [Next]_vars => JInv'
  <1> SUFFICES ASSUME JInv, [Next]_vars PROVE JInv'
    OBVIOUS
  <1>0. IInv'
    BY StepIInv DEF JInv
  <1>1. ASSUME NEW d \in Sales \cup Notes, SaveInvoice(d) PROVE JInv'
    BY <1>0, <1>1, DraftKnows DEF Docs
  <1>2. ASSUME NEW d \in Docs, DeleteDraft(d) PROVE JInv'
    BY <1>0, <1>2, DraftKnows
  <1>3. ASSUME NEW s \in Sessions,
               \/ \E p \in Payments : CheckPayment(s, p)
               \/ \E d \in Docs : FindDraft(s, d)
               \/ \E d \in Docs : FindPosted(s, d)
               \/ \E j \in DOMAIN ledger : FindJournal(s, j)
        PROVE  JInv'
    BY <1>0, <1>3, BeginningsKnow
  <1>4. ASSUME NEW s \in Sessions,
               \/ SaveHeader(s) \/ Measure(s) \/ TakeNumber(s) \/ Freeze(s) \/ WriteJournal(s)
               \/ \E i \in Sales : LockInvoice(s, i)
        PROVE  JInv'
    BY <1>0, <1>4, StatementsKnow
  <1>5. ASSUME NEW s \in Sessions, SaveAllocations(s) \/ Commit(s) \/ Abort(s) PROVE JInv'
    BY <1>0, <1>5, SaveAllocationsKnows, CommitKnows, AbortKnows
  <1>6. CASE UNCHANGED vars
    <2>1. doc' = doc /\ ledger' = ledger /\ holder' = holder /\ session' = session
      BY <1>6 DEF vars
    <2>2. \A d \in Docs : Moves(d) /\ Accounted(d)' /\ OriginalOf(d)' = OriginalOf(d)
      BY <2>1, DraftMoves
    <2>3. ASSUME NEW t \in Sessions PROVE Knows(t)'
      <3>1. session[t].op = "save" => /\ doc'[session[t].doc] = doc[session[t].doc]
                                      /\ \A u \in Sessions \ {t} : session'[u].doc # session[t].doc
        BY <2>1, SavesAlone
      <3> QED  BY <2>1, <2>2, <3>1, KnowsStill
    <2> QED  BY <1>0, <2>2, <2>3 DEF JInv
  <1> QED  BY <1>1, <1>2, <1>3, <1>4, <1>5, <1>6 DEF Next

\* Where drafts are saved once, every posted document that comes to something has
\* exactly one journal, a draft has none and a withdrawn one's is reversed,
\* whatever fails or runs at the same time.
THEOREM EachIsAccountedFor ==
    ASSUME NoResaving
    PROVE  Spec => []AccountedFor
  <1>1. JInv => AccountedFor
    <2> SUFFICES ASSUME JInv, NEW d \in Docs
                 PROVE  /\ doc[d].status \in {"none", "draft", "deleted"} => OriginalOf(d) = {}
                        /\ doc[d].status \in {"posted", "voided"} =>
                              Cardinality(OriginalOf(d)) = IF doc[d].amount = 0 THEN 0 ELSE 1
                        /\ doc[d].status = "voided" =>
                              \A j \in OriginalOf(d) : ReversalsOf(j) # {}
      BY DEF AccountedFor
    <2>1. Accounted(d)
      BY DEF JInv
    <2>2. CASE OriginalOf(d) = {}
      <3>1. Cardinality(OriginalOf(d)) = 0
        BY <2>2, FS_EmptySet
      <3> QED  BY <2>1, <2>2, <3>1 DEF Accounted
    <2>3. CASE OriginalOf(d) # {}
      <3>1. PICK j \in OriginalOf(d) : OriginalOf(d) = {j}
        BY <2>1, <2>3 DEF Accounted
      <3>2. Cardinality(OriginalOf(d)) = 1
        BY <3>1, FS_Singleton
      <3> QED  BY <2>1, <2>3, <3>2 DEF Accounted
    <2> QED  BY <2>2, <2>3
  <1>2. JInv /\ [Next]_vars => JInv'
    BY StepJInv
  <1> QED  BY InitJInv, <1>1, <1>2, PTL DEF Spec

-----------------------------------------------------------------------------
(***************************************************************************)
(* No invoice is settled twice.  Between the check under the locks and the *)
(* commit a payment's post is owed what it measured: it holds its invoices *)
(* and what they have left covers its draft.                               *)
(***************************************************************************)
Settled(i) == Taken(i, Payments)

\* Only a posted or withdrawn invoice has anything taken off it, and never more
\* than it comes to.
Covered(i) ==
    /\ doc[i].status \in {"posted", "voided"} => Settled(i) <= doc[i].amount
    /\ doc[i].status \notin {"posted", "voided"} =>
          \A p \in Payments : doc[p].status = "posted" => doc[p].taken[i] = 0

\* A payment's post has read what the draft still says, and once it has measured
\* its invoices they are its own and have that much left.
Reserved(s) ==
    LET r == session[s]
    IN  r.op = "post" /\ r.doc \in Payments =>
          /\ r.seen.taken = doc[r.doc].taken
          /\ r.step # "found" => \A i \in Settles(s) :
                /\ holder[i] = s
                /\ doc[i].status = "posted"
                /\ r.seen.taken[i] + Settled(i) <= doc[i].amount

PInv ==
    /\ JInv
    /\ \A i \in Sales : Covered(i)
    /\ \A s \in Sessions : Reserved(s)

\* What payments take off an invoice are natural numbers, and so is their sum.
LEMMA SettledNatOf ==
    ASSUME NEW docs \in [Docs -> Document], NEW i \in Sales
    PROVE  /\ \A p \in Payments : docs[p].taken[i] \in Nat
           /\ SumOf([d \in Payments |-> docs[d].taken[i]],
                    {d \in Payments : docs[d].status = "posted"}) \in Nat
           /\ IsFiniteSet(Payments)
  <1>1. \A p \in Payments : docs[p].taken[i] \in Nat
    BY DEF Docs, Document
  <1>2. IsFiniteSet(Payments)
    BY ReceivablesAssumption, FS_Subset DEF Docs
  <1> DEFINE f == [d \in Payments |-> docs[d].taken[i]]
             S == {d \in Payments : docs[d].status = "posted"}
  <1>3. IsFiniteSet(S) /\ \A x \in S : f[x] \in Nat
    BY <1>1, <1>2, FS_Subset
  <1>4. SumOf(f, S) \in Nat
    <2> HIDE DEF f, S
    <2> QED  BY <1>3, SumNat
  <1> QED  BY <1>1, <1>2, <1>4

LEMMA SettledNat ==
    ASSUME doc \in [Docs -> Document], NEW i \in Sales
    PROVE  /\ \A p \in Payments : doc[p].taken[i] \in Nat
           /\ Settled(i) \in Nat
           /\ IsFiniteSet(Payments)
  BY SettledNatOf DEF Settled, Taken

\* A step in which no payment posts, and the posted ones stay what they are,
\* leaves no invoice with more taken off it.
LEMMA SettledFalls ==
    ASSUME doc \in [Docs -> Document], doc' \in [Docs -> Document], NEW i \in Sales,
           \A p \in Payments : doc'[p].status = "posted" =>
               doc[p].status = "posted" /\ doc'[p].taken = doc[p].taken
    PROVE  Settled(i)' <= Settled(i)
  <1> DEFINE f == [d \in Payments |-> doc[d].taken[i]]
             g == [d \in Payments |-> doc'[d].taken[i]]
             S == {d \in Payments : doc[d].status = "posted"}
             T == {d \in Payments : doc'[d].status = "posted"}
  <1>1. IsFiniteSet(S) /\ IsFiniteSet(T) /\ T \in SUBSET S /\ \A x \in S : f[x] \in Nat
    BY SettledNat, FS_Subset
  <1>2. \A x \in T : g[x] = f[x]
    OBVIOUS
  <1>3. SumOf(g, T) = SumOf(f, T) /\ SumOf(f, T) <= SumOf(f, S)
    <2> HIDE DEF f, g, S, T
    <2> QED  BY <1>1, <1>2, SumSame, SumSubset
  <1>4. Settled(i) = SumOf(f, S) /\ Settled(i)' = SumOf(g, T)
    BY DEF Settled, Taken
  <1> QED  BY <1>3, <1>4

\* A payment that posts takes its allocation off each invoice.
LEMMA SettledGrows ==
    ASSUME doc \in [Docs -> Document], NEW p \in Payments, doc[p].status = "draft",
           doc' = [doc EXCEPT ![p].status = "posted"], NEW i \in Sales
    PROVE  Settled(i)' = Settled(i) + doc[p].taken[i]
  <1> DEFINE f == [d \in Payments |-> doc[d].taken[i]]
             g == [d \in Payments |-> doc'[d].taken[i]]
             S == {d \in Payments : doc[d].status = "posted"}
             T == {d \in Payments : doc'[d].status = "posted"}
  <1>1. IsFiniteSet(S) /\ p \notin S /\ \A x \in S \cup {p} : f[x] \in Int
    BY SettledNat, FS_Subset
  <1>2. \A d \in Payments : /\ doc'[d].taken = doc[d].taken
                            /\ doc'[d].status = IF d = p THEN "posted" ELSE doc[d].status
    BY DEF Docs, Document
  <1>3. g = f /\ T = S \cup {p} /\ f[p] = doc[p].taken[i]
    BY <1>2
  <1>4. SumOf(f, S \cup {p}) = f[p] + SumOf(f, S)
    <2> HIDE DEF f, S
    <2> QED  BY <1>1, SumAdd
  <1>5. Settled(i) = SumOf(f, S) /\ Settled(i)' = SumOf(g, T)
    BY DEF Settled, Taken
  <1>6. Settled(i) \in Nat /\ doc[p].taken[i] \in Nat
    BY SettledNat
  <1> HIDE DEF f, g, S, T
  <1> QED  BY <1>3, <1>4, <1>5, <1>6

\* What is measured covers what payments alone have taken: credit notes only add
\* to it.
LEMMA FitsCovers ==
    ASSUME doc \in [Docs -> Document], NEW c \in Document, Fits(c),
           NEW i \in Sales, c.taken[i] > 0
    PROVE  doc[i].status = "posted" /\ c.taken[i] + Settled(i) <= doc[i].amount
  <1> DEFINE f == [d \in Payments |-> doc[d].taken[i]]
             g == [d \in Notes \cup Payments |-> doc[d].taken[i]]
             S == {d \in Payments : doc[d].status = "posted"}
             T == {d \in Notes \cup Payments : doc[d].status = "posted"}
  <1>1. IsFiniteSet(T) /\ IsFiniteSet(S) /\ S \in SUBSET T
    BY ReceivablesAssumption, FS_Subset DEF Docs
  <1>2. (\A x \in T : g[x] \in Nat) /\ (\A x \in S : f[x] = g[x])
    BY DEF Docs, Document
  <1>3. SumOf(g, T) \in Nat /\ SumOf(f, S) = SumOf(g, S) /\ SumOf(g, S) <= SumOf(g, T)
    <2> HIDE DEF f, g, S, T
    <2> QED  BY <1>1, <1>2, SumNat, SumSame, SumSubset
  <1>4. Settled(i) = SumOf(f, S) /\ Outstanding(i) = doc[i].amount - SumOf(g, T)
    BY DEF Settled, Taken, Outstanding
  <1>5. /\ doc[i].status = "posted" /\ c.taken[i] <= Outstanding(i)
        /\ c.taken[i] \in Nat /\ doc[i].amount \in Nat
    BY DEF Fits, Docs, Document
  <1>6. Settled(i) \in Nat
    BY SettledNat
  <1> QED  BY <1>3, <1>4, <1>5, <1>6

\* A request keeps what it reserved through a step that leaves it its locks, the
\* documents it holds and its draft, and settles nothing it holds.
LEMMA ReservedStill ==
    ASSUME PInv, NEW t \in Sessions, doc' \in [Docs -> Document],
           session'[t] = session[t],
           \A i \in Sales : holder[i] = t =>
               holder'[i] = t /\ doc'[i] = doc[i] /\ Settled(i)' <= Settled(i),
           session[t].op = "post" /\ session[t].doc \in Payments =>
               doc'[session[t].doc].taken = doc[session[t].doc].taken
    PROVE  Reserved(t)'
  <1> DEFINE r == session[t]
  <1>1. /\ Reserved(t) /\ doc \in [Docs -> Document] /\ r.seen \in Document
    BY DEF PInv, JInv, IInv, TypeOK
  <1>2. ASSUME r.op = "post", r.doc \in Payments, r.step # "found", NEW i \in Settles(t)
        PROVE  /\ holder'[i] = t
               /\ doc'[i].status = "posted"
               /\ r.seen.taken[i] + Settled(i)' <= doc'[i].amount
    <2>1. /\ i \in Sales /\ holder[i] = t /\ doc[i].status = "posted"
          /\ r.seen.taken[i] + Settled(i) <= doc[i].amount
      BY <1>1, <1>2 DEF Reserved, Settles
    <2>2. holder'[i] = t /\ doc'[i] = doc[i] /\ Settled(i)' <= Settled(i)
      BY <2>1
    <2>3. /\ r.seen.taken[i] \in Nat /\ Settled(i) \in Nat /\ Settled(i)' \in Nat
          /\ doc[i].amount \in Nat
      <3>1. Settled(i) \in Nat
        BY <1>1, <2>1, SettledNat
      <3>2. Settled(i)' \in Nat
        BY <2>1, SettledNatOf DEF Settled, Taken
      <3> QED  BY <1>1, <2>1, <3>1, <3>2 DEF Document, Docs
    <2> QED  BY <2>1, <2>2, <2>3
  <1>3. Settles(t)' = Settles(t)
    BY DEF Settles
  <1> QED  BY <1>1, <1>2, <1>3 DEF Reserved

\* A step of one request that leaves the documents alone.
LEMMA OneReserved ==
    ASSUME PInv, JInv', NEW s \in Sessions, NEW m \in Requests,
           session' = [session EXCEPT ![s] = m], doc' = doc,
           \A t \in Sessions \ {s}, i \in Sales : holder[i] = t => holder'[i] = t,
           Reserved(s)'
    PROVE  PInv'
  <1>1. doc \in [Docs -> Document] /\ session \in [Sessions -> Requests]
    BY DEF PInv, JInv, IInv, TypeOK, Requests
  <1>2. \A i \in Sales : Settled(i)' = Settled(i) /\ Settled(i) \in Nat
    BY <1>1, SettledNat DEF Settled, Taken
  <1>3. \A i \in Sales : Covered(i)'
    BY <1>2 DEF PInv, Covered
  <1>4. ASSUME NEW t \in Sessions, t # s PROVE Reserved(t)'
    <2>1. session'[t] = session[t]
      BY <1>1, <1>4
    <2>2. \A i \in Sales : Settled(i)' <= Settled(i)
      BY <1>2
    <2> QED  BY <1>1, <1>4, <2>1, <2>2, ReservedStill
  <1> QED  BY <1>3, <1>4 DEF PInv

\* The requests that begin, and the statements of one that goes on.
LEMMA BeginsReserved ==
    ASSUME PInv, JInv', NEW s \in Sessions, doc' = doc, holder' = holder,
           NEW op, NEW d, NEW seen, NEW j, Begin(s, op, d, seen, j),
           op = "post" => seen = doc[d]
    PROVE  PInv'
  <1> DEFINE m == [op |-> op, doc |-> d, step |-> "found", seen |-> seen, journal |-> j]
  <1>1. session \in [Sessions -> Requests] /\ session' \in [Sessions -> Requests]
    BY DEF PInv, JInv, IInv, TypeOK, Requests
  <1>2. session' = [session EXCEPT ![s] = m] /\ session'[s] = m
    BY <1>1 DEF Begin
  <1>3. m \in Requests
    BY <1>1, <1>2
  <1>4. Reserved(s)'
    BY <1>2 DEF Reserved
  <1> HIDE DEF m
  <1> QED  BY <1>2, <1>3, <1>4, OneReserved

LEMMA BeginningsReserved ==
    ASSUME PInv, JInv', NEW s \in Sessions,
           \/ \E p \in Payments : CheckPayment(s, p)
           \/ \E d \in Docs : FindDraft(s, d)
           \/ \E d \in Docs : FindPosted(s, d)
           \/ \E j \in DOMAIN ledger : FindJournal(s, j)
    PROVE  PInv'
  <1>1. CASE \E p \in Payments : CheckPayment(s, p)
    BY <1>1, BeginsReserved DEF CheckPayment
  <1>2. CASE \E d \in Docs : FindDraft(s, d)
    BY <1>2, BeginsReserved DEF FindDraft
  <1>3. CASE \E d \in Docs : FindPosted(s, d)
    BY <1>3, BeginsReserved DEF FindPosted
  <1>4. CASE \E j \in DOMAIN ledger : FindJournal(s, j)
    BY <1>4, BeginsReserved DEF FindJournal
  <1> QED  BY <1>1, <1>2, <1>3, <1>4

\* A statement after the measuring keeps the invoices locked.
LEMMA GoesOnReserved ==
    ASSUME PInv, JInv', NEW s \in Sessions,
           NEW st \in {"found", "locked", "numbered", "frozen", "written"},
           session' = [session EXCEPT ![s].step = st], doc' = doc,
           \A t \in Sessions, i \in Sales : holder[i] = t => holder'[i] = t,
           \/ session[s].op # "post" \/ session[s].doc \notin Payments \/ st = "found"
           \/ session[s].step # "found"
           \/ /\ Fits(session[s].seen)
              /\ \A i \in Settles(s) : holder[i] = s
    PROVE  PInv'
  <1> DEFINE m == [session[s] EXCEPT !.step = st]
  <1>1. /\ session \in [Sessions -> Requests] /\ doc \in [Docs -> Document]
        /\ session[s].seen \in Document /\ Reserved(s)
    BY DEF PInv, JInv, IInv, TypeOK, Requests
  <1>2. /\ m \in Requests /\ m.step = st /\ m.op = session[s].op /\ m.doc = session[s].doc
        /\ m.seen = session[s].seen
    BY <1>1 DEF Requests
  <1>3. session' = [session EXCEPT ![s] = m] /\ session'[s] = m
    BY <1>1
  <1> HIDE DEF m
  <1>4. /\ Settles(s)' = Settles(s) /\ \A i \in Sales : Settled(i)' = Settled(i)
        /\ \A i \in Settles(s) : i \in Sales /\ session[s].seen.taken[i] > 0
    BY <1>2, <1>3 DEF Settles, Settled, Taken
  <1>5. ASSUME session[s].op = "post", session[s].doc \in Payments, st # "found",
               NEW i \in Settles(s)
        PROVE  /\ holder[i] = s /\ doc[i].status = "posted"
               /\ session[s].seen.taken[i] + Settled(i) <= doc[i].amount
    <2>1. CASE session[s].step # "found"
      BY <1>1, <1>5, <2>1 DEF Reserved
    <2>2. CASE Fits(session[s].seen) /\ holder[i] = s
      BY <1>1, <1>4, <2>2, FitsCovers
    <2> QED  BY <1>5, <2>1, <2>2
  <1>6. Reserved(s)'
    BY <1>1, <1>2, <1>3, <1>4, <1>5 DEF Reserved
  <1> QED  BY <1>2, <1>3, <1>6, OneReserved

LEMMA StatementsReserved ==
    ASSUME PInv, JInv', NEW s \in Sessions,
           \/ SaveHeader(s) \/ Measure(s) \/ TakeNumber(s) \/ Freeze(s) \/ WriteJournal(s)
           \/ \E i \in Sales : LockInvoice(s, i)
    PROVE  PInv'
  <1>0. /\ IInv /\ session \in [Sessions -> Requests] /\ Shape(s)
        /\ session[s].doc \in Docs \cup {Nil} /\ "journal" \in Docs \cup Series
        /\ holder \in [Docs \cup Series -> Sessions \cup {Nil}]
    BY DEF PInv, JInv, IInv, TypeOK, RequestOK, Requests, Series
  <1>1. ASSUME NEW rows \in SUBSET (Docs \cup Series), Free(rows, s), Hold(rows, s)
        PROVE  \A t \in Sessions, i \in Sales : holder[i] = t => holder'[i] = t
    BY <1>0, <1>1, HoldTakes DEF Docs
  <1>2. ASSUME SaveHeader(s) PROVE PInv'
    <2>1. /\ session[s].doc \in Docs /\ doc' = doc /\ session[s].op # "post"
          /\ Free({session[s].doc}, s) /\ Hold({session[s].doc}, s)
          /\ session' = [session EXCEPT ![s].step = "frozen"]
      BY <1>0, <1>2 DEF SaveHeader, Goto, Shape
    <2> QED  BY <1>1, <2>1, GoesOnReserved
  <1>3. ASSUME Measure(s) PROVE PInv'
    <2>1. /\ doc' = doc /\ holder' = holder /\ Fits(session[s].seen)
          /\ \A i \in Settles(s) : holder[i] = s
          /\ session' = [session EXCEPT ![s].step = "locked"]
      BY <1>3 DEF Measure, Goto
    <2> QED  BY <2>1, GoesOnReserved
  <1>4. ASSUME TakeNumber(s) PROVE PInv'
    <2> DEFINE r == SeriesOf(session[s].doc)
    <2>1. /\ r \in Series /\ doc' = doc /\ Free({r}, s) /\ Hold({r}, s)
          /\ session[s].doc \notin Payments \/ session[s].step # "found"
          /\ session' = [session EXCEPT ![s].step = "numbered"]
      BY <1>4 DEF TakeNumber, Goto, SeriesOf, Series
    <2> HIDE DEF r
    <2> QED  BY <1>1, <2>1, GoesOnReserved
  <1>5. ASSUME Freeze(s) PROVE PInv'
    <2>1. /\ session[s].doc \in Docs /\ doc' = doc
          /\ Free({session[s].doc}, s) /\ Hold({session[s].doc}, s)
          /\ session[s].op # "post" \/ session[s].step # "found"
          /\ session' = [session EXCEPT ![s].step = "frozen"]
      BY <1>0, <1>5 DEF Freeze, Goto, Shape
    <2> QED  BY <1>1, <2>1, GoesOnReserved
  <1>6. ASSUME WriteJournal(s) PROVE PInv'
    <2>1. /\ doc' = doc /\ session' = [session EXCEPT ![s].step = "written"]
          /\ session[s].op # "post" \/ session[s].step # "found"
          /\ holder' = holder \/ (Free({"journal"}, s) /\ Hold({"journal"}, s))
      BY <1>6 DEF WriteJournal, Goto
    <2>2. \A t \in Sessions, i \in Sales : holder[i] = t => holder'[i] = t
      BY <1>0, <1>1, <2>1
    <2> QED  BY <2>1, <2>2, GoesOnReserved
  <1>7. ASSUME NEW i \in Sales, LockInvoice(s, i) PROVE PInv'
    <2>1. /\ i \in Docs /\ doc' = doc /\ session' = session
          /\ Free({i}, s) /\ Hold({i}, s) /\ session[s].step = "found"
      BY <1>7 DEF LockInvoice, Free, Docs, Collecting
    <2>2. session' = [session EXCEPT ![s].step = "found"]
      BY <1>0, <2>1 DEF Requests
    <2> QED  BY <1>1, <2>1, <2>2, GoesOnReserved
  <1> QED  BY <1>2, <1>3, <1>4, <1>5, <1>6, <1>7

\* A request that ends with nothing written.
LEMMA AbortReserved ==
    ASSUME PInv, JInv', NEW s \in Sessions, Abort(s)
    PROVE  PInv'
  <1>1. /\ IInv /\ Finish(s) /\ doc' = doc /\ session \in [Sessions -> Requests]
    BY DEF Abort, PInv, JInv, IInv, TypeOK, Requests
  <1>2. /\ session' = [session EXCEPT ![s] = Idle] /\ Idle \in Requests
        /\ \A t \in Sessions \ {s}, r \in Docs \cup Series : holder'[r] = t <=> holder[r] = t
    BY <1>1, FinishGives
  <1>3. session'[s] = Idle
    BY <1>1, <1>2
  <1>4. Reserved(s)'
    BY <1>3 DEF Reserved, Idle
  <1>5. \A t \in Sessions \ {s}, i \in Sales : holder[i] = t => holder'[i] = t
    BY <1>2 DEF Docs
  <1> QED  BY <1>1, <1>2, <1>4, <1>5, OneReserved

-----------------------------------------------------------------------------
\* A document that changes while nobody else holds it.
LEMMA OneDocument ==
    ASSUME PInv, JInv', NEW d \in Docs, NEW t \in Sessions,
           session'[t] = session[t],
           \A c \in Docs : c # d => doc'[c] = doc[c],
           holder[d] # t,
           \A i \in Sales : holder[i] = t => holder'[i] = t,
           doc[d].status # "none" => doc'[d].taken = doc[d].taken,
           \A i \in Sales : holder[i] = t => Settled(i)' <= Settled(i)
    PROVE  Reserved(t)'
  <1>1. doc' \in [Docs -> Document] /\ Knows(t)
    BY DEF PInv, JInv, IInv, TypeOK
  <1>2. \A i \in Sales : holder[i] = t => doc'[i] = doc[i]
    BY DEF Docs
  <1>3. session[t].op = "post" /\ session[t].doc \in Payments =>
            doc'[session[t].doc].taken = doc[session[t].doc].taken
    BY <1>1 DEF Knows, Docs
  <1> QED  BY <1>1, <1>2, <1>3, ReservedStill

\* What the invoices are owed after a step in which no payment posts.
LEMMA CoveredStill ==
    ASSUME PInv, JInv', NEW i \in Sales,
           doc'[i].amount = doc[i].amount \/ doc[i].status = "none",
           doc'[i].status \in {"posted", "voided"} =>
               doc[i].status \in {"draft", "posted", "voided"},
           doc[i].status \in {"posted", "voided"} => doc'[i].status \in {"posted", "voided"},
           \A p \in Payments : doc'[p].status = "posted" =>
               doc[p].status = "posted" /\ doc'[p].taken = doc[p].taken
    PROVE  Covered(i)' /\ Settled(i)' <= Settled(i)
  <1>1. /\ doc \in [Docs -> Document] /\ doc' \in [Docs -> Document] /\ Covered(i)
    BY DEF PInv, JInv, IInv, TypeOK
  <1>2. Settled(i)' <= Settled(i) /\ Settled(i) \in Nat /\ Settled(i)' \in Nat
    BY <1>1, SettledFalls, SettledNat, SettledNatOf DEF Settled, Taken
  <1>3. doc'[i].amount \in Nat /\ doc[i].amount \in Nat
    BY <1>1 DEF Docs, Document
  <1>4. doc[i].status \notin {"posted", "voided"} => Settled(i) = 0
    <2> SUFFICES ASSUME doc[i].status \notin {"posted", "voided"} PROVE Settled(i) = 0
      OBVIOUS
    <2> DEFINE f == [p \in Payments |-> doc[p].taken[i]]
               S == {p \in Payments : doc[p].status = "posted"}
    <2>1. IsFiniteSet(S) /\ \A x \in S : f[x] = 0
      BY <1>1, SettledNat, FS_Subset DEF Covered
    <2>2. SumOf(f, S) = 0
      <3> HIDE DEF f, S
      <3> QED  BY <2>1, SumZero
    <2> QED  BY <2>2 DEF Settled, Taken
  <1>5. Covered(i)'
    <2>1. CASE doc'[i].status \in {"posted", "voided"}
      BY <1>1, <1>2, <1>3, <1>4, <2>1 DEF Covered
    <2>2. CASE doc'[i].status \notin {"posted", "voided"}
      BY <1>1, <2>2 DEF Covered
    <2> QED  BY <2>1, <2>2
  <1> QED  BY <1>2, <1>5

LEMMA DraftReserved ==
    ASSUME NoResaving, PInv, JInv', NEW d \in Docs,
           (d \in Sales \cup Notes /\ SaveInvoice(d)) \/ DeleteDraft(d)
    PROVE  PInv'
  <1>1. /\ holder' = holder /\ session' = session /\ holder[d] = Nil
        /\ doc \in [Docs -> Document] /\ doc' \in [Docs -> Document]
    BY DEF SaveInvoice, DeleteDraft, PInv, JInv, IInv, TypeOK
  <1>2. /\ \A c \in Docs : c # d => doc'[c] = doc[c]
        /\ \/ doc[d].status = "none" /\ doc'[d].status = "draft"
           \/ /\ doc[d].status = "draft" /\ doc'[d].status = "deleted"
              /\ doc'[d].amount = doc[d].amount /\ doc'[d].taken = doc[d].taken
    BY <1>1 DEF SaveInvoice, DeleteDraft, NoResaving, Document
  <1>3. ASSUME NEW i \in Sales PROVE Covered(i)' /\ Settled(i)' <= Settled(i)
    BY <1>2, CoveredStill DEF Docs
  <1>4. ASSUME NEW t \in Sessions PROVE Reserved(t)'
    BY <1>1, <1>2, <1>3, OneDocument, ReceivablesAssumption
  <1> QED  BY <1>3, <1>4 DEF PInv

\* A payment saved for the first time takes nothing yet.
LEMMA SaveAllocationsReserved ==
    ASSUME PInv, JInv', NEW s \in Sessions, SaveAllocations(s)
    PROVE  PInv'
  <1> DEFINE d == session[s].doc
  <1>1. /\ session[s].op = "save" /\ session[s].step = "frozen" /\ Finish(s)
        /\ doc' = [doc EXCEPT ![d] = session[s].seen] /\ JInv /\ IInv
        /\ doc \in [Docs -> Document] /\ session \in [Sessions -> Requests]
        /\ RequestOK(s)
    BY DEF SaveAllocations, PInv, JInv, IInv, TypeOK, Requests
  <1>2. /\ d \in Docs /\ d \in Payments /\ doc[d].status = "none" /\ session[s].seen.status = "draft"
        /\ holder[d] = s
    BY <1>1, SavesAlone DEF RequestOK, HoldsDoc
  <1>3. /\ \A c \in Docs : c # d => doc'[c] = doc[c]
        /\ doc'[d].status = "draft"
    BY <1>1, <1>2
  <1>4. /\ session' = [session EXCEPT ![s] = Idle]
        /\ \A t \in Sessions \ {s}, r \in Docs \cup Series : holder'[r] = t <=> holder[r] = t
    BY <1>1, FinishGives
  <1> HIDE DEF d
  <1>5. ASSUME NEW i \in Sales PROVE Covered(i)' /\ Settled(i)' <= Settled(i)
    BY <1>2, <1>3, CoveredStill DEF Docs
  <1>6. ASSUME NEW t \in Sessions PROVE Reserved(t)'
    <2>1. CASE t = s
      <3>1. session'[s] = Idle
        BY <1>1, <1>4
      <3> QED  BY <2>1, <3>1 DEF Reserved, Idle
    <2>2. CASE t # s
      <3>1. session'[t] = session[t] /\ \A i \in Sales : holder[i] = t => holder'[i] = t
        BY <1>1, <1>4, <2>2 DEF Docs
      <3> QED  BY <1>2, <1>3, <1>5, <2>2, <3>1, OneDocument
    <2> QED  BY <2>1, <2>2
  <1> QED  BY <1>5, <1>6 DEF PInv

\* The commit of a payment takes what was reserved for it, off invoices nobody
\* else can hold.
LEMMA PaymentPosts ==
    ASSUME PInv, JInv', NEW s \in Sessions, session[s].op = "post", session[s].step = "written",
           NEW p \in Payments, p = session[s].doc, doc[p].status = "draft",
           doc' = [doc EXCEPT ![p].status = "posted"], NEW i \in Sales
    PROVE  Covered(i)' /\ (holder[i] # s => Settled(i)' = Settled(i))
  <1>1. /\ doc \in [Docs -> Document] /\ Reserved(s) /\ Covered(i) /\ p \in Docs /\ i # p
    BY ReceivablesAssumption DEF PInv, JInv, IInv, TypeOK, Docs
  <1>2. /\ Settled(i)' = Settled(i) + doc[p].taken[i] /\ Settled(i) \in Nat
        /\ doc[p].taken[i] \in Nat
    BY <1>1, SettledGrows, SettledNat
  <1>3. doc'[i] = doc[i] /\ \A q \in Payments : doc'[q].taken = doc[q].taken
                                               /\ (q # p => doc'[q].status = doc[q].status)
    BY <1>1 DEF Docs, Document
  <1>4. CASE doc[p].taken[i] = 0
    <2>1. Settled(i)' = Settled(i)
      BY <1>2, <1>4
    <2> QED  BY <1>1, <1>3, <1>4, <2>1 DEF Covered
  <1>5. CASE doc[p].taken[i] > 0
    <2>1. i \in Settles(s) /\ session[s].seen.taken[i] = doc[p].taken[i]
      BY <1>1, <1>5 DEF Reserved, Settles
    <2>2. /\ holder[i] = s /\ doc[i].status = "posted"
          /\ doc[p].taken[i] + Settled(i) <= doc[i].amount
      BY <1>1, <2>1 DEF Reserved
    <2>3. doc[i].amount \in Nat
      BY <1>1 DEF Docs, Document
    <2>4. Settled(i)' <= doc'[i].amount
      BY <1>2, <1>3, <2>2, <2>3
    <2> QED  BY <1>3, <2>2, <2>4 DEF Covered
  <1> QED  BY <1>2, <1>4, <1>5

LEMMA CommitReserved ==
    ASSUME PInv, JInv', NEW s \in Sessions, Commit(s)
    PROVE  PInv'
  <1>1. /\ JInv /\ IInv /\ Finish(s) /\ session[s].step = "written" /\ Shape(s) /\ HoldsDoc(s)
        /\ doc \in [Docs -> Document] /\ session \in [Sessions -> Requests]
    BY DEF Commit, PInv, JInv, IInv, TypeOK, RequestOK, Requests
  <1>2. /\ session' = [session EXCEPT ![s] = Idle]
        /\ \A t \in Sessions \ {s}, r \in Docs \cup Series : holder'[r] = t <=> holder[r] = t
    BY <1>1, FinishGives
  <1>3. Reserved(s)'
    <2>1. session'[s] = Idle
      BY <1>1, <1>2
    <2> QED  BY <2>1 DEF Reserved, Idle
  <1>4. ASSUME NEW t \in Sessions, t # s
        PROVE  session'[t] = session[t] /\ \A i \in Sales : holder[i] = t => holder'[i] = t
    BY <1>1, <1>2, <1>4 DEF Docs
  <1>5. CASE doc' = doc
    <2>1. ASSUME NEW i \in Sales PROVE Covered(i)' /\ Settled(i)' <= Settled(i)
      <3>1. doc[i].status # "none" \/ doc[i].status = "none"
        OBVIOUS
      <3> QED  BY <1>5, CoveredStill, SettledFalls
    <2>2. ASSUME NEW t \in Sessions, t # s PROVE Reserved(t)'
      BY <1>1, <1>4, <1>5, <2>1, <2>2, ReservedStill
    <2> QED  BY <1>3, <2>1, <2>2 DEF PInv
  <1>6. ASSUME NEW d \in Docs, NEW st \in {"posted", "voided"},
               holder[d] = s, doc[d].status = IF st = "posted" THEN "draft" ELSE "posted",
               \A c \in Docs : c # d => doc'[c] = doc[c],
               doc'[d] = [doc[d] EXCEPT !.status = st],
               doc' = [doc EXCEPT ![d] = doc'[d]],
               \A i \in Sales : Covered(i)' /\ (holder[i] # s => Settled(i)' <= Settled(i))
        PROVE  PInv'
    <2>1. ASSUME NEW t \in Sessions, t # s PROVE Reserved(t)'
      <3>1. doc'[d].taken = doc[d].taken
        BY <1>1, <1>6 DEF Document
      <3>2. \A i \in Sales : holder[i] = t => Settled(i)' <= Settled(i)
        BY <1>6, <2>1
      <3> QED  BY <1>4, <1>6, <2>1, <3>1, <3>2, OneDocument
    <2> QED  BY <1>3, <1>6, <2>1 DEF PInv
  <1>7. CASE doc' # doc
    <2>1. PICK d \in Docs, st \in {"posted", "voided"} :
              /\ holder[d] = s
              /\ doc[d].status = IF st = "posted" THEN "draft" ELSE "posted"
              /\ \A c \in Docs : c # d => doc'[c] = doc[c]
              /\ doc'[d] = [doc[d] EXCEPT !.status = st]
              /\ doc' = [doc EXCEPT ![d] = doc'[d]]
      BY <1>1, <1>7, CommitDocs
    <2>2. /\ doc'[d].status = st /\ doc'[d].taken = doc[d].taken /\ doc'[d].amount = doc[d].amount
      BY <1>1, <2>1 DEF Document
    <2>3. CASE d \in Payments /\ st = "posted"
      <3>1. session[s].op = "post" /\ d = session[s].doc
        <4>1. doc' # doc /\ session[s].op \in {"post", "void"}
          BY <1>1, <1>7 DEF Commit, Shape, Requests
        <4>2. session[s].doc \in Docs
          BY <1>1, <4>1 DEF Shape
        <4>3. doc'[session[s].doc] # doc[session[s].doc]
          BY <1>1, <2>1, <4>1, <4>2 DEF Commit, HoldsDoc, ExpectedStatus, Document
        <4>4. d = session[s].doc
          BY <2>1, <4>2, <4>3
        <4> QED  BY <1>1, <2>1, <2>3, <4>1, <4>4 DEF HoldsDoc, ExpectedStatus
      <3>2. doc' = [doc EXCEPT ![d].status = "posted"]
        BY <1>1, <2>1, <2>3
      <3>3. doc[d].status = "draft" /\ \A i \in Sales : Settled(i) \in Nat
        BY <1>1, <2>1, <2>3, SettledNat
      <3>4. \A i \in Sales : Covered(i)' /\ (holder[i] # s => Settled(i)' <= Settled(i))
        <4> SUFFICES ASSUME NEW i \in Sales
                     PROVE  Covered(i)' /\ (holder[i] # s => Settled(i)' <= Settled(i))
          OBVIOUS
        <4>1. Covered(i)' /\ (holder[i] # s => Settled(i)' = Settled(i))
          BY <1>1, <2>3, <3>1, <3>2, <3>3, PaymentPosts
        <4>2. Settled(i) \in Nat
          BY <3>3
        <4> HIDE DEF Settled
        <4> QED  BY <4>1, <4>2
      <3> QED  BY <1>6, <2>1, <3>4
    <2>4. CASE d \notin Payments \/ st = "voided"
      <3>1. \A q \in Payments : doc'[q].status = "posted" =>
               doc[q].status = "posted" /\ doc'[q].taken = doc[q].taken
        BY <2>1, <2>2, <2>4 DEF Docs
      <3>2. \A i \in Sales : /\ doc'[i].amount = doc[i].amount
                             /\ doc'[i].status \in {"posted", "voided"} =>
                                    doc[i].status \in {"draft", "posted", "voided"}
                             /\ doc[i].status \in {"posted", "voided"} =>
                                    doc'[i].status \in {"posted", "voided"}
        BY <2>1, <2>2 DEF Docs
      <3>3. \A i \in Sales : Covered(i)' /\ Settled(i)' <= Settled(i)
        BY <3>1, <3>2, CoveredStill
      <3> QED  BY <1>6, <2>1, <3>3
    <2> QED  BY <2>3, <2>4
  <1> QED  BY <1>5, <1>7

LEMMA InitPInv == Init => PInv
  <1> SUFFICES ASSUME Init PROVE PInv
    OBVIOUS
  <1>1. JInv
    BY InitJInv
  <1>2. \A i \in Sales : Covered(i)
    BY DEF Init, Blank, Covered, Docs
  <1>3. \A s \in Sessions : Reserved(s)
    BY DEF Init, Idle, Reserved
  <1> QED  BY <1>1, <1>2, <1>3 DEF PInv

LEMMA StepPInv ==
    ASSUME NoResaving
    PROVE  PInv /\ [Next]_vars => PInv'
  <1> SUFFICES ASSUME PInv, [Next]_vars PROVE PInv'
    OBVIOUS
  <1>0. JInv'
    BY StepJInv DEF PInv
  <1>1. ASSUME NEW d \in Docs, (d \in Sales \cup Notes /\ SaveInvoice(d)) \/ DeleteDraft(d)
        PROVE  PInv'
    BY <1>0, <1>1, DraftReserved
  <1>2. ASSUME NEW s \in Sessions,
               \/ \E p \in Payments : CheckPayment(s, p)
               \/ \E d \in Docs : FindDraft(s, d)
               \/ \E d \in Docs : FindPosted(s, d)
               \/ \E j \in DOMAIN ledger : FindJournal(s, j)
        PROVE  PInv'
    BY <1>0, <1>2, BeginningsReserved
  <1>3. ASSUME NEW s \in Sessions,
               \/ SaveHeader(s) \/ Measure(s) \/ TakeNumber(s) \/ Freeze(s) \/ WriteJournal(s)
               \/ \E i \in Sales : LockInvoice(s, i)
        PROVE  PInv'
    BY <1>0, <1>3, StatementsReserved
  <1>4. ASSUME NEW s \in Sessions, SaveAllocations(s) \/ Commit(s) \/ Abort(s) PROVE PInv'
    BY <1>0, <1>4, SaveAllocationsReserved, CommitReserved, AbortReserved
  <1>5. CASE UNCHANGED vars
    <2>1. doc' = doc /\ holder' = holder /\ session' = session
      BY <1>5 DEF vars
    <2>2. \A i \in Sales : Settled(i)' = Settled(i)
      BY <2>1 DEF Settled, Taken
    <2> QED  BY <1>0, <2>1, <2>2 DEF PInv, Covered, Reserved, Settles
  <1>6. Sales \cup Notes \subseteq Docs
    BY DEF Docs
  <1> QED  BY <1>1, <1>2, <1>3, <1>4, <1>5, <1>6 DEF Next

\* Where drafts are saved once, payments never take more off a posted invoice
\* than it comes to, however many are posted at once (payment::post, "this is the
\* enforcement").
THEOREM NeverPaidTwice ==
    ASSUME NoResaving
    PROVE  Spec => []NeverOverSettled
  <1>1. PInv => NeverOverSettled
    BY DEF PInv, Covered, Settled, NeverOverSettled
  <1>2. PInv /\ [Next]_vars => PInv'
    BY StepPInv
  <1> QED  BY InitPInv, <1>1, <1>2, PTL DEF Spec

-----------------------------------------------------------------------------
(***************************************************************************)
(* The order of the locks.  A request's step says which rows it may hold:  *)
(* the invoices it settles while it posts a payment, its own series from   *)
(* the number on, its document from the freeze on, and the journals' last. *)
(***************************************************************************)
MayHold(s, r) ==
    LET q == session[s]
    IN  \/ q.op = "post" /\ q.doc \in Payments /\ q.step # "start" /\ r \in Settles(s)
        \/ q.op = "post" /\ q.step \in {"numbered", "frozen", "written"} /\ r = SeriesOf(q.doc)
        \/ q.op \in {"save", "post", "void"} /\ q.step \in {"frozen", "written"} /\ r = q.doc
        \/ q.step = "written" /\ r = "journal"

Orderly == \A r \in Docs \cup Series : \A s \in Sessions : holder[r] = s => MayHold(s, r)

OInv == IInv /\ Orderly

\* Whoever a step does not concern may hold what it held, if it is given nothing.
LEMMA OrderlyStep ==
    ASSUME OInv, NEW s \in Sessions,
           \A t \in Sessions \ {s} : session'[t] = session[t],
           \A t \in Sessions \ {s}, r \in Docs \cup Series : holder'[r] = t => holder[r] = t,
           \A r \in Docs \cup Series : holder'[r] = s => MayHold(s, r)'
    PROVE  Orderly'
  <1> SUFFICES ASSUME NEW r \in Docs \cup Series, NEW t \in Sessions, holder'[r] = t
               PROVE  MayHold(t, r)'
    BY DEF Orderly
  <1>1. CASE t = s
    BY <1>1
  <1>2. CASE t # s
    <2>1. MayHold(t, r) /\ session'[t] = session[t]
      BY <1>2 DEF OInv, Orderly
    <2> QED  BY <2>1 DEF MayHold, Settles
  <1> QED  BY <1>1, <1>2

\* The first three ways of holding a row outlast every later statement.
LEMMA NextStatement ==
    ASSUME OInv, NEW s \in Sessions,
           NEW st \in {"locked", "numbered", "frozen", "written"},
           session' = [session EXCEPT ![s].step = st],
           session[s].step = "numbered" => st \in {"frozen", "written"},
           session[s].step \in {"frozen", "written"} => st = "written",
           NEW rows \in SUBSET (Docs \cup Series),
           Hold(rows, s) \/ (rows = {} /\ holder' = holder),
           \A r \in rows : MayHold(s, r)'
    PROVE  Orderly'
  <1>1. session \in [Sessions -> Requests] /\ holder \in [Docs \cup Series -> Sessions \cup {Nil}]
    BY DEF OInv, IInv, TypeOK, Requests
  <1>2. /\ session'[s].op = session[s].op /\ session'[s].doc = session[s].doc
        /\ session'[s].seen = session[s].seen /\ session'[s].step = st
        /\ \A t \in Sessions \ {s} : session'[t] = session[t]
    BY <1>1 DEF Requests
  <1>3. \A r \in Docs \cup Series : holder'[r] = IF r \in rows THEN s ELSE holder[r]
    BY <1>1 DEF Hold
  <1>4. ASSUME NEW r \in Docs \cup Series, holder'[r] = s PROVE MayHold(s, r)'
    <2>1. CASE r \in rows
      BY <2>1
    <2>2. CASE r \notin rows
      <3>1. MayHold(s, r)
        BY <1>3, <1>4, <2>2 DEF OInv, Orderly
      <3>2. Settles(s)' = Settles(s)
        BY <1>2 DEF Settles
      <3> QED  BY <1>2, <3>1, <3>2 DEF MayHold
    <2> QED  BY <2>1, <2>2
  <1>5. \A t \in Sessions \ {s}, r \in Docs \cup Series : holder'[r] = t => holder[r] = t
    BY <1>3
  <1> QED  BY <1>2, <1>4, <1>5, OrderlyStep

\* A request that has not begun holds nothing.
LEMMA IdleHoldsNothing ==
    ASSUME OInv, NEW s \in Sessions, session[s].op = "idle", NEW r \in Docs \cup Series
    PROVE  holder[r] # s
  <1>1. session[s].step = "start"
    BY DEF OInv, IInv, RequestOK, Shape
  <1> QED  BY <1>1 DEF OInv, Orderly, MayHold

LEMMA StatementsOrderly ==
    ASSUME OInv, NEW s \in Sessions,
           \/ SaveHeader(s) \/ Measure(s) \/ TakeNumber(s) \/ Freeze(s) \/ WriteJournal(s)
           \/ \E i \in Sales : LockInvoice(s, i)
    PROVE  Orderly'
  <1>1. /\ session \in [Sessions -> Requests] /\ holder \in [Docs \cup Series -> Sessions \cup {Nil}]
        /\ Shape(s) /\ Sales \subseteq Docs /\ "journal" \in Series
        /\ \A d \in Docs : SeriesOf(d) \in Series
    BY DEF OInv, IInv, TypeOK, Requests, RequestOK, Docs, Series, SeriesOf
  <1>2. CASE SaveHeader(s)
    <2>1. /\ session' = [session EXCEPT ![s].step = "frozen"] /\ session[s].op = "save"
          /\ session[s].step = "found" /\ Hold({session[s].doc}, s) /\ session[s].doc \in Docs
      BY <1>1, <1>2 DEF SaveHeader, Goto, Shape
    <2>2. MayHold(s, session[s].doc)'
      BY <1>1, <2>1 DEF MayHold, Requests
    <2>3. session[s].doc = session'[s].doc
      BY <1>1, <2>1 DEF Requests
    <2>4. \A r \in {session[s].doc} : MayHold(s, r)'
      BY <1>1, <2>1, <2>3 DEF MayHold, Requests
    <2>5. {session[s].doc} \in SUBSET (Docs \cup Series)
      BY <2>1
    <2> HIDE DEF Docs
    <2> QED  BY <2>1, <2>4, <2>5, NextStatement
  <1>3. CASE Measure(s)
    <2>1. /\ session' = [session EXCEPT ![s].step = "locked"] /\ session[s].step = "found"
          /\ holder' = holder
      BY <1>3 DEF Measure, Goto, Collecting
    <2>2. {} \in SUBSET (Docs \cup Series) /\ \A r \in {} : MayHold(s, r)'
      OBVIOUS
    <2> QED  BY <2>1, <2>2, NextStatement
  <1>4. CASE TakeNumber(s)
    <2> DEFINE rows == {SeriesOf(session[s].doc)}
    <2>1. /\ session' = [session EXCEPT ![s].step = "numbered"] /\ session[s].op = "post"
          /\ session[s].step \in {"found", "locked"} /\ Hold(rows, s)
      BY <1>4 DEF TakeNumber, Goto
    <2>2. rows \in SUBSET (Docs \cup Series)
      BY <1>1, <2>1 DEF Shape
    <2>3. /\ session'[s].doc = session[s].doc /\ session'[s].op = "post"
          /\ session'[s].step = "numbered"
      BY <1>1, <2>1 DEF Requests
    <2>4. \A r \in rows : MayHold(s, r)'
      BY <2>3 DEF MayHold, SeriesOf
    <2> HIDE DEF rows
    <2> QED  BY <2>1, <2>2, <2>4, NextStatement
  <1>5. CASE Freeze(s)
    <2> DEFINE rows == {session[s].doc}
    <2>1. /\ session' = [session EXCEPT ![s].step = "frozen"] /\ session[s].op \in {"post", "void"}
          /\ session[s].step \in {"found", "numbered"} /\ Hold(rows, s)
      BY <1>5 DEF Freeze, Goto
    <2>2. rows \in SUBSET (Docs \cup Series)
      BY <1>1, <2>1 DEF Shape
    <2>3. /\ session'[s].doc = session[s].doc /\ session'[s].op = session[s].op
          /\ session'[s].step = "frozen"
      BY <1>1, <2>1 DEF Requests
    <2>4. \A r \in rows : MayHold(s, r)'
      BY <2>1, <2>3 DEF MayHold
    <2> HIDE DEF rows
    <2> QED  BY <2>1, <2>2, <2>4, NextStatement
  <1>6. CASE WriteJournal(s)
    <2>1. /\ session' = [session EXCEPT ![s].step = "written"]
          /\ holder' = holder \/ Hold({"journal"}, s)
      BY <1>6 DEF WriteJournal, Goto
    <2>2. session'[s].step = "written"
      BY <1>1, <2>1 DEF Requests
    <2>3. MayHold(s, "journal")'
      BY <2>2 DEF MayHold
    <2>4. {"journal"} \in SUBSET (Docs \cup Series) /\ {} \in SUBSET (Docs \cup Series)
      BY <1>1
    <2>5. CASE holder' = holder
      BY <2>1, <2>4, <2>5, NextStatement
    <2>6. CASE Hold({"journal"}, s)
      <3>1. \A r \in {"journal"} : MayHold(s, r)'
        BY <2>3
      <3> QED  BY <2>1, <2>4, <2>6, <3>1, NextStatement
    <2> QED  BY <2>1, <2>5, <2>6
  <1>7. ASSUME NEW i \in Sales, LockInvoice(s, i) PROVE Orderly'
    <2>1. /\ session' = session /\ Hold({i}, s) /\ i \in Settles(s)
          /\ session[s].op = "post" /\ session[s].doc \in Payments /\ session[s].step = "found"
      BY <1>7 DEF LockInvoice, Collecting
    <2>2. \A r \in Docs \cup Series : holder'[r] = IF r \in {i} THEN s ELSE holder[r]
      BY <1>1, <2>1 DEF Hold
    <2>3. MayHold(s, i)'
      BY <2>1 DEF MayHold, Settles
    <2>4. ASSUME NEW r \in Docs \cup Series, holder'[r] = s PROVE MayHold(s, r)'
      <3>1. CASE r = i
        BY <2>3, <3>1
      <3>2. CASE r # i
        <4>1. MayHold(s, r)
          BY <2>2, <2>4, <3>2 DEF OInv, Orderly
        <4> QED  BY <2>1, <4>1 DEF MayHold, Settles
      <3> QED  BY <3>1, <3>2
    <2> QED  BY <2>1, <2>2, <2>4, OrderlyStep
  <1> QED  BY <1>2, <1>3, <1>4, <1>5, <1>6, <1>7

LEMMA StepOInv == OInv /\ [Next]_vars => OInv'
  <1> SUFFICES ASSUME OInv, [Next]_vars PROVE OInv'
    OBVIOUS
  <1>0. IInv'
    BY StepIInv DEF OInv
  <1> SUFFICES Orderly'
    BY <1>0 DEF OInv
  <1>1. /\ session \in [Sessions -> Requests]
        /\ holder \in [Docs \cup Series -> Sessions \cup {Nil}]
    BY DEF OInv, IInv, TypeOK, Requests
  <1>2. ASSUME holder' = holder, session' = session PROVE Orderly'
    BY <1>2 DEF OInv, Orderly, MayHold, Settles
  <1>3. CASE \E d \in Docs : (d \in Sales \cup Notes /\ SaveInvoice(d)) \/ DeleteDraft(d)
    <2>1. holder' = holder /\ session' = session
      BY <1>3 DEF SaveInvoice, DeleteDraft
    <2> QED  BY <1>2, <2>1
  <1>4. ASSUME NEW s \in Sessions,
               \/ \E p \in Payments : CheckPayment(s, p)
               \/ \E d \in Docs : FindDraft(s, d)
               \/ \E d \in Docs : FindPosted(s, d)
               \/ \E j \in DOMAIN ledger : FindJournal(s, j)
        PROVE  Orderly'
    <2>1. session[s].op = "idle" /\ holder' = holder
      BY <1>4 DEF CheckPayment, FindDraft, FindPosted, FindJournal, Offered
    <2>2. \A t \in Sessions \ {s} : session'[t] = session[t]
      BY <1>1, <1>4 DEF CheckPayment, FindDraft, FindPosted, FindJournal, Begin
    <2>3. \A r \in Docs \cup Series : holder'[r] # s
      BY <2>1, IdleHoldsNothing
    <2> QED  BY <2>1, <2>2, <2>3, OrderlyStep
  <1>5. ASSUME NEW s \in Sessions,
               \/ SaveHeader(s) \/ Measure(s) \/ TakeNumber(s) \/ Freeze(s) \/ WriteJournal(s)
               \/ \E i \in Sales : LockInvoice(s, i)
        PROVE  Orderly'
    BY <1>5, StatementsOrderly
  <1>6. ASSUME NEW s \in Sessions, SaveAllocations(s) \/ Commit(s) \/ Abort(s) PROVE Orderly'
    <2>1. Finish(s)
      BY <1>6 DEF SaveAllocations, Commit, Abort
    <2>2. /\ \A t \in Sessions \ {s} : session'[t] = session[t]
          /\ \A r \in Docs \cup Series : holder'[r] = IF holder[r] = s THEN Nil ELSE holder[r]
      BY <1>1, <2>1 DEF Finish
    <2>3. \A r \in Docs \cup Series : holder'[r] # s
      BY <2>2, ReceivablesAssumption
    <2>4. \A t \in Sessions \ {s}, r \in Docs \cup Series : holder'[r] = t => holder[r] = t
      BY <2>2, ReceivablesAssumption
    <2> QED  BY <2>2, <2>3, <2>4, OrderlyStep
  <1>7. CASE UNCHANGED vars
    <2>1. holder' = holder /\ session' = session
      BY <1>7 DEF vars
    <2> QED  BY <1>2, <2>1
  <1>8. Sales \cup Notes \subseteq Docs
    BY DEF Docs
  <1> QED  BY <1>3, <1>4, <1>5, <1>6, <1>7, <1>8 DEF Next

LEMMA InitOInv == Init => OInv
  <1> SUFFICES ASSUME Init PROVE OInv
    OBVIOUS
  <1>1. IInv
    BY InitIInv
  <1>2. Orderly
    BY ReceivablesAssumption DEF Init, Orderly
  <1> QED  BY <1>1, <1>2 DEF OInv

\* A request that waits for one of a set that waits on itself is posting and has
\* not frozen, or is about to withdraw: whoever has the journals' series commits.
LEMMA WaitersAreEarly ==
    ASSUME OInv, NEW S \in SUBSET {x \in Sessions : session[x].op \in {"post", "void", "reverse"}},
           \A x \in S : \E y \in S : WaitsFor(x, y),
           NEW s \in S
    PROVE  /\ session[s].step # "written" /\ session[s].step # "frozen"
           /\ session[s].op \in {"post", "void"} /\ session[s].doc \in Docs
           /\ \/ Collecting(s) /\ Wants(s) \subseteq Settles(s)
              \/ session[s].op = "post" /\ session[s].step \in {"found", "locked"}
                   /\ ~Collecting(s) /\ Wants(s) = {SeriesOf(session[s].doc)}
              \/ session[s].step \in {"found", "numbered"} /\ ~Collecting(s)
                   /\ (session[s].step = "numbered" => session[s].op = "post")
                   /\ Wants(s) = {session[s].doc}
  <1> DEFINE op == session[s].op  step == session[s].step  d == session[s].doc
  <1>1. /\ session[s] \in Requests /\ Shape(s) /\ op \in {"post", "void", "reverse"}
        /\ s \in Sessions
    BY DEF OInv, IInv, TypeOK, Requests, RequestOK
  <1>2. PICK t \in S : WaitsFor(s, t)
    OBVIOUS
  <1>3. PICK r \in Wants(s) : holder[r] = t
    BY <1>2 DEF WaitsFor
  <1>4. r # "journal"
    <2> SUFFICES ASSUME r = "journal" PROVE FALSE
      OBVIOUS
    <2>1. session[t].step = "written" /\ t \in Sessions
      BY <1>3 DEF OInv, IInv, RequestOK, HoldsJournal
    <2>2. Wants(t) = {}
      BY <2>1 DEF Wants
    <2>3. PICK u \in S : WaitsFor(t, u)
      OBVIOUS
    <2> QED  BY <2>2, <2>3 DEF WaitsFor
  <1>5. \/ <<op, step>> = <<"post", "found">>
        \/ <<op, step>> = <<"post", "locked">>
        \/ <<op, step>> = <<"post", "numbered">>
        \/ <<op, step>> = <<"void", "found">>
    <2> SUFFICES ASSUME <<op, step>> # <<"post", "found">>, <<op, step>> # <<"post", "locked">>,
                        <<op, step>> # <<"post", "numbered">>, <<op, step>> # <<"void", "found">>
                 PROVE  FALSE
      OBVIOUS
    <2>1. CASE step = "written"
      BY <1>3, <2>1 DEF Wants
    <2>2. CASE step # "written"
      <3>1. Wants(s) = IF Silent(s) THEN {} ELSE {"journal"}
        BY <1>1, <2>2 DEF Wants
      <3> QED  BY <1>3, <1>4, <3>1
    <2> QED  BY <2>1, <2>2
  <1>6. d \in Docs
    BY <1>1, <1>5 DEF Shape
  <1>7. CASE <<op, step>> = <<"post", "found">>
    <2>1. Wants(s) = IF Collecting(s) THEN {i \in Settles(s) : holder[i] # s} ELSE {SeriesOf(d)}
      BY <1>7 DEF Wants
    <2> QED  BY <1>6, <1>7, <2>1
  <1>8. CASE <<op, step>> = <<"post", "locked">>
    <2>1. Wants(s) = {SeriesOf(d)} /\ ~Collecting(s)
      BY <1>8 DEF Wants, Collecting
    <2> QED  BY <1>6, <1>8, <2>1
  <1>9. CASE <<op, step>> = <<"post", "numbered">> \/ <<op, step>> = <<"void", "found">>
    <2>1. Wants(s) = {d} /\ ~Collecting(s)
      BY <1>9 DEF Wants, Collecting
    <2> QED  BY <1>6, <1>9, <2>1
  <1> QED  BY <1>5, <1>7, <1>8, <1>9

\* Requests take rows of documents and of series in one order, for any number of
\* requests: whatever waits on itself is two payments collecting their invoices
\* at once, the one loop lock_invoices leaves to Postgres.
THEOREM OnlyCollectorsLoop ==
    ASSUME IsFiniteSet(Sessions)
    PROVE  Spec => []LocksInOrder
  <1>1. OInv => LocksInOrder
    <2> SUFFICES ASSUME OInv,
                        NEW S \in SUBSET {x \in Sessions : session[x].op \in {"post", "void", "reverse"}},
                        S # {}, \A x \in S : \E y \in S : WaitsFor(x, y)
                 PROVE  Cardinality({x \in S : Collecting(x)}) >= 2
      BY DEF LocksInOrder
    <2>0. Docs \cap Series = {} /\ Sales \subseteq Docs /\ Payments \subseteq Docs
      BY ReceivablesAssumption DEF Docs
    <2>1. /\ \A d \in Docs : SeriesOf(d) \in Series \ {"journal"}
          /\ \A d \in Payments : SeriesOf(d) = "payment"
          /\ \A d \in Sales : SeriesOf(d) = "invoice"
      BY ReceivablesAssumption DEF SeriesOf, Series
    <2>2. ASSUME NEW t \in S, NEW r \in Docs, holder[r] = t
          PROVE  r \in Sales /\ session[t].op = "post" /\ session[t].doc \in Payments
      <3>1. MayHold(t, r)
        BY <2>2 DEF OInv, Orderly
      <3>2. session[t].step # "written" /\ session[t].step # "frozen" /\ session[t].doc \in Docs
        BY WaitersAreEarly
      <3>3. r # SeriesOf(session[t].doc)
        BY <2>0, <2>1, <3>2
      <3> QED  BY <3>1, <3>2, <3>3 DEF MayHold, Settles
    <2>3. ASSUME NEW t \in S, NEW r \in Series \ {"journal"}, holder[r] = t
          PROVE  session[t].step = "numbered" /\ r = SeriesOf(session[t].doc)
      <3>1. MayHold(t, r)
        BY <2>3 DEF OInv, Orderly
      <3>2. session[t].step # "written" /\ session[t].step # "frozen" /\ session[t].doc \in Docs
        BY WaitersAreEarly
      <3>3. r \notin Sales
        BY <2>0
      <3> QED  BY <3>1, <3>2, <3>3 DEF MayHold, Settles
    <2>4. ASSUME NEW t \in S, session[t].step = "numbered"
          PROVE  session[t].doc \in Sales /\ \E u \in S : session[u].doc \in Payments
      <3>1. PICK u \in S : WaitsFor(t, u)
        OBVIOUS
      <3>2. Wants(t) = {session[t].doc} /\ session[t].doc \in Docs
        BY <2>4, WaitersAreEarly DEF Collecting
      <3>3. holder[session[t].doc] = u
        BY <3>1, <3>2 DEF WaitsFor
      <3> QED  BY <2>2, <3>2, <3>3
    <2>5. ASSUME NEW t \in S, session[t].doc \in Payments, session[t].op = "post"
          PROVE  Collecting(t)
      <3> SUFFICES ASSUME ~Collecting(t) PROVE FALSE
        OBVIOUS
      <3>1. session[t].step # "numbered"
        BY <2>0, <2>4, <2>5, ReceivablesAssumption
      <3>2. session[t].step # "found"
        BY <2>5 DEF Collecting
      <3>3. Wants(t) = {SeriesOf(session[t].doc)}
        BY <2>5, <3>1, <3>2, WaitersAreEarly
      <3>4. PICK u \in S : WaitsFor(t, u)
        OBVIOUS
      <3>5. holder["payment"] = u /\ "payment" \in Series \ {"journal"}
        BY <2>1, <2>5, <3>3, <3>4 DEF WaitsFor, Series
      <3>6. session[u].step = "numbered" /\ SeriesOf(session[u].doc) = "payment"
        BY <2>3, <3>5
      <3> QED  BY <2>1, <2>4, <3>6
    <2>6. ASSUME NEW t \in S, NEW u \in S, NEW r \in Docs, holder[r] = u
          PROVE  Collecting(u)
      BY <2>2, <2>5, <2>6
    <2>7. ASSUME NEW t \in S, Wants(t) \subseteq Docs
          PROVE  \E u \in S : u # t /\ Collecting(u)
      <3>1. PICK u \in S : WaitsFor(t, u)
        OBVIOUS
      <3>2. PICK r \in Wants(t) : t # u /\ holder[r] = u
        BY <3>1 DEF WaitsFor
      <3> QED  BY <2>6, <2>7, <3>2
    <2>8. \E c \in S : Collecting(c)
      <3>1. PICK s \in S : TRUE
        OBVIOUS
      <3>2. CASE Wants(s) \subseteq Docs
        BY <2>7, <3>2
      <3>3. CASE ~(Wants(s) \subseteq Docs)
        <4>1. session[s].doc \in Docs /\ Wants(s) = {SeriesOf(session[s].doc)}
          BY <2>0, <3>3, WaitersAreEarly DEF Settles
        <4>2. PICK u \in S : WaitsFor(s, u)
          OBVIOUS
        <4>3. holder[SeriesOf(session[s].doc)] = u
          BY <4>1, <4>2 DEF WaitsFor
        <4>4. session[u].step = "numbered"
          BY <2>1, <2>3, <4>1, <4>3
        <4>5. Wants(u) \subseteq Docs
          <5>1. Wants(u) = {session[u].doc} /\ session[u].doc \in Docs
            BY <4>4, WaitersAreEarly DEF Collecting
          <5> QED  BY <5>1
        <4> QED  BY <2>7, <4>5
      <3> QED  BY <3>2, <3>3
    <2>9. PICK c \in S : Collecting(c)
      BY <2>8
    <2>10. PICK u \in S : u # c /\ Collecting(u)
      <3>1. Wants(c) \subseteq Docs
        BY <2>0, <2>9, WaitersAreEarly DEF Settles
      <3> QED  BY <2>7, <3>1
    <2> DEFINE C == {x \in S : Collecting(x)}
    <2>11. /\ IsFiniteSet(C) /\ IsFiniteSet(C \ {c}) /\ c \in C /\ u \in C \ {c}
           /\ Cardinality(C) \in Nat /\ Cardinality(C \ {c}) = Cardinality(C) - 1
      <3>1. C \subseteq Sessions /\ c \in C /\ u \in C \ {c}
        BY <2>9, <2>10
      <3> HIDE DEF C
      <3> QED  BY <3>1, FS_Subset, FS_RemoveElement, FS_CardinalityType
    <2>12. Cardinality(C \ {c}) \in Nat \ {0}
      <3> HIDE DEF C
      <3> QED  BY <2>11, FS_CardinalityType, FS_EmptySet
    <2> HIDE DEF C
    <2>13. Cardinality(C) >= 2
      BY <2>11, <2>12
    <2> QED  BY <2>13 DEF C
  <1> QED  BY <1>1, InitOInv, StepOInv, PTL DEF Spec
=============================================================================
