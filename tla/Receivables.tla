---------------------------- MODULE Receivables ----------------------------
(***************************************************************************)
(* Sales invoices, credit notes and customer payments, from draft to       *)
(* posted to voided, and the journal each of them writes.                  *)
(*                                                                         *)
(* A request is a session.  It reads what it needs from the pool, opens a  *)
(* transaction, takes row locks in statement order and commits; its writes *)
(* are its own until then, and every row it writes is locked, so a commit  *)
(* is one step.  Between two statements of one session any other session   *)
(* may run (READ COMMITTED), in particular between the read of a draft and *)
(* the UPDATE ... WHERE status = 'draft' that freezes it.                  *)
(***************************************************************************)
EXTENDS Integers, Sequences, FiniteSets, Sums

CONSTANTS
    Sales,        \* sales invoices
    Notes,        \* credit notes
    Payments,     \* customer payments
    Sessions,     \* requests that may run at once
    Totals,       \* the amounts a document may come to
    Ops,          \* the operations an instance offers
    MaxJournals,  \* bound: no request starts once so many journals are written
    Nil           \* no session, no document

Docs     == Sales \cup Notes \cup Payments
AllOps   == {"save", "resave", "delete", "post", "void", "reverse"}
Series   == {"invoice", "credit_note", "payment", "journal"}

ASSUME ReceivablesAssumption ==
    /\ Sales \cap Notes = {} /\ Sales \cap Payments = {} /\ Notes \cap Payments = {}
    /\ Docs \cap Series = {}
    /\ IsFiniteSet(Docs)
    /\ Totals \subseteq Nat
    /\ Ops \subseteq AllOps
    /\ MaxJournals \in Nat
    /\ Nil \notin Sessions \cup Docs

VARIABLES
    doc,      \* the committed documents
    ledger,   \* the committed journals, in posting order
    holder,   \* who holds each document's row and each number series' row
    session   \* where each request has got to

vars == <<doc, ledger, holder, session>>

-----------------------------------------------------------------------------
\* Documents.  taken is what a credit note or a payment takes off each invoice:
\* the whole note off the invoice it credits, a payment's allocations.
Nothing == [i \in Sales |-> 0]
Blank   == [status |-> "none", amount |-> 0, taken |-> Nothing]

Allocated(c) == SumOf(c.taken, Sales)

\* What a form may hold for each kind of document.
Contents(d) ==
    IF d \in Sales THEN
        {[amount |-> a, taken |-> Nothing] : a \in Totals}
    ELSE IF d \in Notes THEN
        {[amount |-> a, taken |-> [Nothing EXCEPT ![i] = a]] :
            a \in Totals, i \in {x \in Sales : doc[x].status \in {"posted", "voided"}}}
    ELSE
        {c \in [amount : Totals \ {0}, taken : [Sales -> Totals \cup {0}]] :
            Allocated(c) <= c.amount}

\* settled_on: what is left on an invoice, counting only what has posted.
Taken(i, kinds) ==
    SumOf([d \in kinds |-> doc[d].taken[i]], {d \in kinds : doc[d].status = "posted"})
Outstanding(i) == doc[i].amount - Taken(i, Notes \cup Payments)

\* validate and over_settled: every allocation is to a posted invoice with that
\* much left on it.
Fits(c) ==
    \A i \in Sales : c.taken[i] > 0 =>
        doc[i].status = "posted" /\ c.taken[i] <= Outstanding(i)

\* Journals.
OriginalOf(d)   == {j \in DOMAIN ledger : ledger[j].doc = d}
ReversalsOf(j)  == {k \in DOMAIN ledger : ledger[k].reverses = j}
\* Mutant: a reversal is the same entry with its sign turned.
EntrySigned(d, a, j) ==
    [doc |-> d, amount |-> IF j = 0 THEN a ELSE 0 - a, reverses |-> j]

Entry(d, a, j)  == [doc |-> d, amount |-> a, reverses |-> j]

-----------------------------------------------------------------------------
\* Sessions.  seen is the document as the request read it, journal the journal
\* a withdrawal is going to reverse (0 for none).
Idle == [op |-> "idle", doc |-> Nil, step |-> "start", seen |-> Blank, journal |-> 0]

Begin(s, op, d, seen, j) ==
    session' = [session EXCEPT
        ![s] = [op |-> op, doc |-> d, step |-> "found", seen |-> seen, journal |-> j]]

Goto(s, step) == session' = [session EXCEPT ![s].step = step]

Free(rows, s) == \A r \in rows : holder[r] \in {Nil, s}
Hold(rows, s) == holder' = [r \in DOMAIN holder |-> IF r \in rows THEN s ELSE holder[r]]

\* The end of a transaction, and of the request.
Finish(s) ==
    /\ holder' = [r \in DOMAIN holder |-> IF holder[r] = s THEN Nil ELSE holder[r]]
    /\ session' = [session EXCEPT ![s] = Idle]

\* Mutant: payments are numbered from the journals' series.
SeriesOfShared(d) ==
    IF d \in Sales THEN "invoice" ELSE IF d \in Notes THEN "credit_note" ELSE "journal"

SeriesOf(d) == IF d \in Sales THEN "invoice" ELSE IF d \in Notes THEN "credit_note" ELSE "payment"
Settles(s)  == {i \in Sales : session[s].seen.taken[i] > 0}

Init ==
    /\ doc = [d \in Docs |-> Blank]
    /\ ledger = <<>>
    /\ holder = [r \in Docs \cup Series |-> Nil]
    /\ session = [s \in Sessions |-> Idle]

Offered(s, op) ==
    /\ op \in Ops
    /\ session[s].op = "idle"
    /\ Len(ledger) < MaxJournals

-----------------------------------------------------------------------------
\* Drafts.

\* Mutant: the UPDATE of a save forgets WHERE status = 'draft'.
SaveInvoiceAnyway(d) ==
    /\ "save" \in Ops
    /\ holder[d] = Nil
    /\ \E c \in Contents(d) :
         doc' = [doc EXCEPT ![d].amount = c.amount, ![d].taken = c.taken,
                            ![d].status = IF @ = "none" THEN "draft" ELSE @]
    /\ UNCHANGED <<ledger, holder, session>>

\* invoice::save_draft: one UPDATE ... WHERE status = 'draft' and its lines (or
\* an INSERT), with no lock but its own row's.
SaveInvoice(d) ==
    /\ \/ "save" \in Ops /\ doc[d].status = "none"
       \/ "resave" \in Ops /\ doc[d].status = "draft"
    /\ holder[d] = Nil
    /\ \E c \in Contents(d) :
         doc' = [doc EXCEPT ![d] = [status |-> "draft", amount |-> c.amount, taken |-> c.taken]]
    /\ UNCHANGED <<ledger, holder, session>>

\* payment::save, up to its transaction: the form is checked against what is
\* left on each invoice.  A new payment is nobody else's yet.
CheckPayment(s, p) ==
    /\ \/ /\ Offered(s, "save")
          /\ doc[p].status = "none"
          /\ \A t \in Sessions : session[t].doc # p
       \/ Offered(s, "resave") /\ doc[p].status = "draft"
    /\ \E c \in Contents(p) :
         /\ Fits(c)
         /\ Begin(s, "save", p, [status |-> "draft", amount |-> c.amount, taken |-> c.taken], 0)
    /\ UNCHANGED <<doc, ledger, holder>>

\* payment::save: the header, WHERE status = 'draft'.
SaveHeader(s) ==
    /\ session[s].op = "save"
    /\ session[s].step = "found"
    /\ Free({session[s].doc}, s)
    /\ doc[session[s].doc].status \in {"none", "draft"}
    /\ Hold({session[s].doc}, s)
    /\ Goto(s, "frozen")
    /\ UNCHANGED <<doc, ledger>>

\* payment::save: the allocations and the commit.  The foreign key of an
\* allocation wants a share of the invoice's row, which only the FOR UPDATE of a
\* posting payment withholds.
WithheldFrom(s) ==
    {i \in Settles(s) : /\ holder[i] \notin {Nil, s}
                        /\ session[holder[i]].doc \in Payments}

SaveAllocations(s) ==
    /\ session[s].op = "save"
    /\ session[s].step = "frozen"
    /\ WithheldFrom(s) = {}
    /\ doc' = [doc EXCEPT ![session[s].doc] = session[s].seen]
    /\ Finish(s)
    /\ UNCHANGED ledger

\* Mutant: the DELETE forgets its WHERE.
DeleteAny(d) ==
    /\ "delete" \in Ops
    /\ doc[d].status # "none"
    /\ holder[d] = Nil
    /\ doc' = [doc EXCEPT ![d].status = "deleted"]
    /\ UNCHANGED <<ledger, holder, session>>

\* invoice::delete and payment::delete: DELETE ... WHERE status = 'draft'.
DeleteDraft(d) ==
    /\ "delete" \in Ops
    /\ doc[d].status = "draft"
    /\ holder[d] = Nil
    /\ doc' = [doc EXCEPT ![d].status = "deleted"]
    /\ UNCHANGED <<ledger, holder, session>>

-----------------------------------------------------------------------------
\* Posting.

\* invoice::post and payment::post, before the transaction: the draft is read,
\* and a payment's allocations are weighed once for the message.
FindDraft(s, d) ==
    /\ Offered(s, "post")
    /\ doc[d].status = "draft"
    /\ d \in Payments => Fits(doc[d])
    /\ Begin(s, "post", d, doc[d], 0)
    /\ UNCHANGED <<doc, ledger, holder>>

\* payment::post has its invoices' rows still to lock.
Collecting(s) ==
    /\ session[s].op = "post"
    /\ session[s].doc \in Payments
    /\ session[s].step = "found"

\* lock_invoices: SELECT ... FOR UPDATE names no order, so the rows are locked
\* one after the other in any.
LockInvoice(s, i) ==
    /\ Collecting(s)
    /\ i \in Settles(s)
    /\ holder[i] = Nil
    /\ Hold({i}, s)
    /\ UNCHANGED <<doc, ledger, session>>

\* Mutant: validate's answer is believed once the locks are held.
MeasureNothing(s) ==
    /\ Collecting(s)
    /\ \A i \in Settles(s) : holder[i] = s
    /\ Goto(s, "locked")
    /\ UNCHANGED <<doc, ledger, holder>>

\* over_settled: the same arithmetic on a snapshot taken after the locks were
\* granted, for the allocations the request read.  When they no longer fit the
\* request is refused (Abort).
Measure(s) ==
    /\ Collecting(s)
    /\ \A i \in Settles(s) : holder[i] = s
    /\ Fits(session[s].seen)
    /\ Goto(s, "locked")
    /\ UNCHANGED <<doc, ledger, holder>>

\* The document's number: its series' row is held from here to the end.
TakeNumber(s) ==
    /\ session[s].op = "post"
    /\ session[s].step = IF session[s].doc \in Payments THEN "locked" ELSE "found"
    /\ Free({SeriesOf(session[s].doc)}, s)
    /\ Hold({SeriesOf(session[s].doc)}, s)
    /\ Goto(s, "numbered")
    /\ UNCHANGED <<doc, ledger>>

\* store::post, WHERE status = 'draft', and store::void, WHERE status = 'posted'.
\* A row that is no longer so ends the request (Abort).
ExpectedStatus(op) == IF op = "post" THEN "draft" ELSE "posted"

\* Mutant: the UPDATE of a post or a void forgets its WHERE.
FreezeAnyway(s) ==
    /\ \/ session[s].op = "post" /\ session[s].step = "numbered"
       \/ session[s].op = "void" /\ session[s].step = "found"
    /\ Free({session[s].doc}, s)
    /\ Hold({session[s].doc}, s)
    /\ Goto(s, "frozen")
    /\ UNCHANGED <<doc, ledger>>

Freeze(s) ==
    /\ \/ session[s].op = "post" /\ session[s].step = "numbered"
       \/ session[s].op = "void" /\ session[s].step = "found"
    /\ Free({session[s].doc}, s)
    /\ doc[session[s].doc].status = ExpectedStatus(session[s].op)
    /\ Hold({session[s].doc}, s)
    /\ Goto(s, "frozen")
    /\ UNCHANGED <<doc, ledger>>

\* A document at no charge posts no journal, and there is none to reverse.
Silent(s) ==
    \/ session[s].op = "post" /\ session[s].seen.amount = 0
    \/ session[s].op = "void" /\ session[s].journal = 0

\* Mutant: no unique index on reverses_id.
WriteJournalUnindexed(s) ==
    /\ \/ session[s].op \in {"post", "void"} /\ session[s].step = "frozen"
       \/ session[s].op = "reverse" /\ session[s].step = "found"
    /\ IF Silent(s)
       THEN UNCHANGED holder
       ELSE Free({"journal"}, s) /\ Hold({"journal"}, s)
    /\ Goto(s, "written")
    /\ UNCHANGED <<doc, ledger>>

\* journal::write: a number of the journals' series and the INSERT, which the
\* unique index on reverses_id refuses when the journal is already reversed.
WriteJournal(s) ==
    /\ \/ session[s].op \in {"post", "void"} /\ session[s].step = "frozen"
       \/ session[s].op = "reverse" /\ session[s].step = "found"
    /\ IF Silent(s)
       THEN UNCHANGED holder
       ELSE /\ Free({"journal"}, s)
            /\ session[s].journal # 0 => ReversalsOf(session[s].journal) = {}
            /\ Hold({"journal"}, s)
    /\ Goto(s, "written")
    /\ UNCHANGED <<doc, ledger>>

\* The commit: the status and the journal together.  The posted document keeps
\* what its row holds; the journal says what the request read.
Commit(s) ==
    LET d == session[s].doc
        j == session[s].journal
    IN  /\ session[s].step = "written"
        /\ doc' = CASE session[s].op = "post" -> [doc EXCEPT ![d].status = "posted"]
                    [] session[s].op = "void" -> [doc EXCEPT ![d].status = "voided"]
                    [] OTHER                  -> doc
        /\ ledger' = IF holder["journal"] # s THEN ledger
                     ELSE IF j = 0 THEN Append(ledger, Entry(d, session[s].seen.amount, 0))
                     ELSE Append(ledger, Entry(Nil, ledger[j].amount, j))
        /\ Finish(s)

\* A refusal (a status that moved, an over-settlement, a closed period), a
\* failed statement, a lost connection, or Postgres breaking a lock cycle: the
\* transaction rolls back and nothing of it remains.
Abort(s) ==
    /\ session[s].op # "idle"
    /\ Finish(s)
    /\ UNCHANGED <<doc, ledger>>

-----------------------------------------------------------------------------
\* Withdrawing.

\* invoice::void and payment::void, before the transaction: the posted document
\* and the journal it raised, which must not be reversed already.
FindPosted(s, d) ==
    /\ Offered(s, "void")
    /\ doc[d].status = "posted"
    /\ \/ OriginalOf(d) = {} /\ Begin(s, "void", d, doc[d], 0)
       \/ \E j \in OriginalOf(d) :
            /\ \A k \in OriginalOf(d) : k <= j
            /\ ReversalsOf(j) = {}
            /\ Begin(s, "void", d, doc[d], j)
    /\ UNCHANGED <<doc, ledger, holder>>

\* journal::reverse: somebody reverses a journal by hand.
FindJournal(s, j) ==
    /\ Offered(s, "reverse")
    /\ ReversalsOf(j) = {}
    /\ Begin(s, "reverse", Nil, Blank, j)
    /\ UNCHANGED <<doc, ledger, holder>>

Next ==
    \/ \E d \in Sales \cup Notes : SaveInvoice(d)
    \/ \E d \in Docs : DeleteDraft(d)
    \/ \E s \in Sessions :
         \/ \E p \in Payments : CheckPayment(s, p)
         \/ SaveHeader(s)
         \/ SaveAllocations(s)
         \/ \E d \in Docs : FindDraft(s, d)
         \/ \E i \in Sales : LockInvoice(s, i)
         \/ Measure(s)
         \/ TakeNumber(s)
         \/ Freeze(s)
         \/ WriteJournal(s)
         \/ Commit(s)
         \/ Abort(s)
         \/ \E d \in Docs : FindPosted(s, d)
         \/ \E j \in DOMAIN ledger : FindJournal(s, j)

Spec == Init /\ [][Next]_vars
-----------------------------------------------------------------------------
Statuses == {"none", "draft", "posted", "voided", "deleted"}
Document == [status : Statuses, amount : Nat, taken : [Sales -> Nat]]
Journal  == [doc : Docs \cup {Nil}, amount : Nat, reverses : Nat]

\* Every variable holds a value of its shape, and a journal only ever reverses
\* one that was written before it.
TypeOK ==
    /\ doc \in [Docs -> Document]
    /\ ledger \in Seq(Journal)
    /\ \A j \in DOMAIN ledger : ledger[j].reverses < j
    /\ holder \in [Docs \cup Series -> Sessions \cup {Nil}]
    /\ session \in [Sessions ->
          [op : {"idle", "save", "post", "void", "reverse"}, doc : Docs \cup {Nil},
           step : {"start", "found", "locked", "numbered", "frozen", "written"},
           seen : Document, journal : Nat]]

\* The number, the freeze and the journal commit together or none of them do
\* (services/books/invoice.rs, header): a posted document that comes to
\* something has exactly one journal of its own, a draft has none, and a
\* withdrawn document's journal is reversed.
AccountedFor ==
    \A d \in Docs :
        /\ doc[d].status \in {"none", "draft", "deleted"} => OriginalOf(d) = {}
        /\ doc[d].status \in {"posted", "voided"} =>
              Cardinality(OriginalOf(d)) = IF doc[d].amount = 0 THEN 0 ELSE 1
        /\ doc[d].status = "voided" =>
              \A j \in OriginalOf(d) : ReversalsOf(j) # {}

\* A journal is reversed once: by its document's withdrawal or by hand, whoever
\* comes first, and by an entry of the same amount.
ReversedOnce ==
    \A j \in DOMAIN ledger :
        /\ Cardinality(ReversalsOf(j)) <= 1
        /\ \A k \in ReversalsOf(j) : ledger[k].amount = ledger[j].amount

\* The journal a document raised is for what the document says (the document "as
\* it will be the moment this commits", post_journal).
JournalMatches ==
    \A d \in Docs : \A j \in OriginalOf(d) : ledger[j].amount = doc[d].amount

\* Two payments against one invoice never settle it twice, however their
\* requests interleave (payment::post, "this is the enforcement").
NeverOverSettled ==
    \A i \in Sales : doc[i].status = "posted" => Taken(i, Payments) <= doc[i].amount

\* What is left on an invoice after credit notes and payments is never negative
\* (app-books Settlement::outstanding).
OutstandingNotNegative ==
    \A i \in Sales : doc[i].status = "posted" => Outstanding(i) >= 0

\* What a step leaves of the documents that have posted.
KeepsPosted ==
    \A d \in Docs : doc[d].status \in {"posted", "voided"} =>
        /\ doc'[d].amount = doc[d].amount
        /\ doc'[d].taken = doc[d].taken
        /\ \/ doc'[d].status = doc[d].status
           \/ doc[d].status = "posted" /\ doc'[d].status = "voided"

\* A posted document is frozen: it keeps its content for ever and only ever
\* becomes voided, even when a save or a post was under way when it posted.
PostedIsFrozen == [][KeepsPosted]_vars

\* The rows a request's next statement will wait for.
Wants(s) ==
    LET op == session[s].op  step == session[s].step  d == session[s].doc
    IN  CASE op = "idle" \/ step = "written"                   -> {}
          [] <<op, step>> = <<"save", "found">>                -> {d}
          [] <<op, step>> = <<"save", "frozen">>               -> WithheldFrom(s)
          [] <<op, step>> = <<"post", "found">>                ->
                IF Collecting(s) THEN {i \in Settles(s) : holder[i] # s} ELSE {SeriesOf(d)}
          [] <<op, step>> = <<"post", "locked">>               -> {SeriesOf(d)}
          [] <<op, step>> = <<"post", "numbered">>             -> {d}
          [] <<op, step>> = <<"void", "found">>                -> {d}
          [] OTHER -> IF Silent(s) THEN {} ELSE {"journal"}

WaitsFor(s, t) == s # t /\ \E r \in Wants(s) : holder[r] = t

\* Posts, withdrawals and reversals take the rows of documents and series in one
\* order (the two sequences "always in this order"): a set of them that waits on
\* itself can only be payments that lock the same invoices in different orders.
LocksInOrder ==
    \A S \in SUBSET {s \in Sessions : session[s].op \in {"post", "void", "reverse"}} :
        S # {} /\ (\A s \in S : \E t \in S : WaitsFor(s, t))
        => Cardinality({s \in S : Collecting(s)}) >= 2
=============================================================================
