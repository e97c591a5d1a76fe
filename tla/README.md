# Evrykit, in TLA+

TLA+ models of the parts of Evrykit (the `phonix-*` and `app-*` crates) where
several requests or workers write the same rows at once, or where one piece of
work is several transactions: document numbers, receivables, the stock ledger,
the documents that move goods, uploads, report exports and the outbox. They are
translated from the Rust source and its SQL,
model-checked with TLC on small instances, and proved about with TLAPS for every
size. `PROJECT.json` maps every definition to the lines it
stands for.

Paths below are relative to the repository; `services/`, `db/` and the `app-*`
names abbreviate `crates/phonix-services/src/`, `crates/phonix-db/src/` and
`crates/app-*/src/`.

## 1. The system

Evrykit is a multi-tenant ERP: one Axum/Leptos process, one Postgres database
per tenant, Redis and RabbitMQ beside it. A request handler calls a service
(`phonix-services`), which checks a permission, reads what it needs **from the
pool**, opens a transaction, writes through `phonix-db`, and commits. All
transactions run at READ COMMITTED; what serialises requests is row locks
(`UPDATE`, `SELECT ... FOR UPDATE`), unique indexes and `WHERE status = ...`
guards on the writing statement. Apps talk to each other through ports
(`phonix-ports`): Inventory posts journals through `Ledger`, Books tells
Inventory what was billed through `Deliveries`. A port call opens its own
connection and commits by itself.

| Component | State it keeps | Operations | What is hard about it | What makes it right |
|---|---|---|---|---|
| Document numbering (`db/numbering.rs`, `services/numbering.rs`) | one row per series: counter, period key, mask, reset period, start | install, allocate, edit settings | reset period read in one statement and used in another; queue on one row; rollback returns a number; settings checked then written | no gap, no repeat, settings and counter never undo each other |
| Invoices and credit notes (`services/books/invoice.rs`) | document, lines, status, number | save, delete, post, void | draft read before the transaction, frozen inside it; two number series per post | a posted document is frozen and has one journal that says what it says |
| Payments (`services/books/payment.rs`) | payment, allocations | save, delete, post, void | two payments against one invoice; locks over several invoices in no order | an invoice is never settled twice |
| Journals (`services/books/journal.rs`) | journals, lines, `reverses_id` | post, reverse | void and manual reversal at once | reversed at most once |
| Periods (`services/books/period.rs`) | open or closed | close, reopen | a post that read the period before it closed | nothing dated inside a closed period is posted |
| Stock ledger (`services/inventory/stock.rs`) | quants, valuation layers, item cost, moves | `apply` | check and write are two statements; a row that does not exist cannot be locked; layers seen before they are locked; ledger commits separately | never below nothing; quantity and value conserved |
| Receipts and deliveries (`services/inventory/receipt.rs`, `delivery.rs`) | documents whose lines each name a move | save, save again, post, cancel, delete | one transaction per line for the move, another for writing it back; two posts at once; lines rewritten between two tries or under a post; an order in any state | each line moves once; the order's progress is what moved; nothing is invoiced that did not leave |
| Transfers (`services/inventory/transfer.rs`) | lines with what left and what arrived | save, despatch, receive in part-loads, cancel, delete | the same, twice over; the loser of a claim goes on | nothing leaves twice, nothing arrives that did not leave |
| Purchase orders, sales orders (`purchase.rs`, `sales_order.rs`) | state, number, progress of the lines | save, save again, send, confirm, cancel, close, delete | the state is read first and written later by id alone, with a table constraint as the only guard; lines are replaced with the progress that was read before | a confirmation stands; one number; an order everything arrived against closes |
| Suppliers' bills (`bill.rs`) | claims on receipt lines, journal | save, match, post, cancel, delete | match outside the transaction; journal after it | no line billed twice over; one journal |
| Adjustments, landed cost, requisitions, consolidation | documents over moves; charges spread over layers; demand | post, spread, convert | line-by-line posting again; second writer of the item's cost | as above |
| Outbox, relay, consumers (`db/outbox.rs`, `phonix-server/src/jobs.rs`, `phonix-messaging`) | events, `published_at`; the queue | enqueue, drain, consume, retry | two relays, crash between publish and mark, outage of the broker | at least once; bounded retries |
| Uploads (`db/files.rs`, `services/files/`, `phonix-storage`) | rows with a lease; objects in quarantine or bucket | receive, claim, verify, promote, undo, sweep, delete | no transaction spans row and object; slow worker against a reclaimed row | rows and bytes agree, bytes are not lost, one outcome |
| Report exports (`db/report_exports.rs`, `services/report/exports.rs`) | requests with a claim; files they name | raise, claim, render, answer | three writes, a crash between any two; the file may be deleted | everybody is answered, once, with a file that is there |
| Identity (`services/identity/`) | sessions, one-time tokens, invitations, MFA | issue, redeem, revoke | supersede against redeem | a secret works once |
| Tenancy (`db/tenancy/`) | catalogue, databases, installed apps | provision, install, open pool | provisioning that fails half-way | a workspace is whole or absent |
| Rate limits, cache | counters and keys in Redis | hit, invalidate | windows | limit holds per window |
| HR, inventory master data, tax, money, web, desk, Global Connect, configuration | forms, pure arithmetic, rendering | | nothing that interleaves | unit tests |

`PROJECT.json` lists each component with its status, and under `hazards` what is
hard to test, at its line, with the property that covers it or the reason none
does yet.

## 2. Modules

| Module | What it is |
|---|---|
| `Numbering` | one series row and everybody who writes it |
| `MCNumbering` | dates, masks and edits of the instances |
| `NumberingProofs` | theorems about `Numbering` |
| `Receivables` | invoices, credit notes, payments and their journals |
| `MCReceivables` | instances of it |
| `ReceivablesProofs` | theorems about `Receivables` |
| `StockBook` | abstract: a move takes a quantity here and puts it there, at once |
| `StockLedger` | `inventory::stock::apply`, statement by statement |
| `MCStockLedger` | its symmetry |
| `StockLedgerProofs` | theorems about `StockLedger`, among them that it implements `StockBook` |
| `Transfers` | a stock transfer: despatch and receipt, line by line |
| `Purchasing`, `PurchasingProofs` | a purchase order and the receipts against it; theorems |
| `Billing` | suppliers' bills against receipt lines, and their journals |
| `Selling`, `SellingProofs` | a sales order, its deliveries, and the invoices that bill them through the `Deliveries` port; theorems |
| `MCGoods` | the four components above, composed for the model checker |
| `GoodsProofs` | theorems about `Transfers`, `Billing` and the composition |
| `Uploads` | uploads: row, lease, bytes, verifier, sweeper, deletion |
| `Exports` | report exports |
| `Announcements` | abstract: what commits is announced, and every announcement arrives |
| `Outbox` | outbox, relays, broker, consumers; it implements `Announcements` |
| `MCBackground` | uploads, exports and events, composed for the model checker |
| `BackgroundProofs` | theorems about `Uploads`, `Exports`, `Outbox` and the composition |
| `Sums`, `SumsProofs` | the sum of a function over a finite set (`sum(..)` in the SQL), and what adding, removing or changing an element does to it |

One convention runs through all of them. A request is a record with the
statement it has reached and what it remembers of earlier reads. An action is
one statement, or several that nothing can come between. What a transaction has
written is kept with the request until `Commit`, and every row it has written is
in `holder` (or `lock`), so that a commit is one step; a read by anybody else
sees the committed state. Each model has an action that ends a transaction early
(`Rollback`, `Abort`, `Fail`) which may fire after any statement: it stands for a
refusal further down, a unique violation, the victim Postgres picks in a
deadlock, and a lost connection. Operators marked *Mutant* are bugs the code
might have had; each is used to show that a property notices it.

### Numbering

`row` is the committed row, `pending` the row as its holder sees it, `save[w]`
what a document save remembers between the two statements of
`numbering::allocate`: `ReadReset` is `current_reset_period` (a SELECT without a
lock), `Allocate` the UPDATE that waits for the row, `Refuse` its answer when the
series was switched off in between. `Commit` and `Rollback` end the document's
transaction, whatever the document. `CheckEdit` and `WriteEdit` are the two
halves of `save_settings`. Installing a sequence is `ON CONFLICT DO NOTHING`.
Numbers are compared as what `Pattern::render` prints: literal, date parts,
counter. Digits that run together (`1` + `11` against `11` + `1`) are not told
apart.

`run` is a history variable: it counts how often the counter was set to
`start_at` instead of incremented, so "the same run" means "no reset between".

### Receivables

`doc` holds the committed documents, `ledger` the journals, `holder` the lock of
every document's and every series' row. A post is `FindDraft` (the pool read),
for a payment `LockInvoice` for each invoice in any order and `Measure` (the
check under the locks), then `TakeNumber`, `Freeze` (the UPDATE that requires a
draft), `WriteJournal` (the journals' own number and row) and `Commit`. A void
is `FindPosted`, `Freeze`, `WriteJournal`, `Commit`; `FindJournal` starts a
reversal by hand. Saving a payment takes three steps, saving an invoice one.
Amounts are whole numbers; what a document is made of is its total and what it
takes off each invoice.

### StockLedger

One variant, its quants by location, its layers, its item's cost. `Request` is
the part of `apply` that reads on the pool; `CostReceipt`, `CostTransfer` and
`LookAtLayers`/`LockLayers` are the three branches of `cost`; `LockSource`,
`WriteSource`, `LockTarget`, `WriteTarget` are `shift`; then `Settle`, `Post`,
`Commit`. Two details of Postgres carry the model. `SELECT ... FOR UPDATE` on a
row that does not exist locks nothing, so two moves may both be about to insert;
the unique index makes the second wait and then fail (`WriteAt`). And a
`FOR UPDATE` that waited looks at the row again, but not at rows that appeared
since its snapshot, so a layer emptied meanwhile drops out and one opened
meanwhile does not come in (`LockLayers`).

A quantity of 0 stands for a row that does not exist. `created_at` is the time
the transaction began, so the age of a layer is the number its move was given in
`Open`. Layers are locked in one step: everybody takes them oldest first, so
nobody holds some and waits for another who does the same the other way round.
The average cost is abstracted to the set of receipts blended into it, which is
what a lost update loses; `reserved` is always 0 because nothing in the code
calls `reserve`.

### Transfers, Purchasing, Selling

The three share one shape, because the code does. A request (`clerk[c]`) works
from the document it read first: `load` is what it still has to move. For every
line the move commits (`Move`, `Leave`, `Arrive`: one call of `stock::apply`,
which `StockLedger` opens up), and a second transaction writes it down
(`RecordMove`, `RecordDespatch`, `RecordArrival`); `now` names the line between
the two. Nothing is locked meanwhile. `stock`, `gone`, `out` and `in` are what
the moves did to the shelves, so that a property can compare them with what the
documents say. Saving a document deletes its lines and inserts them again with
new ids: `edition` tells the two apart, and a record for a line of an old edition
updates no row.

`Refused` ends a request where the code may refuse (a move below nothing, a
closed period, a missing series); `Stops` ends it anywhere, counted by
`MaxStops`. The history variable `slips` notes what happened behind a request's
back: another request overlapped (`raced`), the document was rewritten
(`changed`), a move committed and was not written down (`lost`), and so on. A
property that needs quiet says which slips it excludes; everything else it must
survive, in particular a post that is refused half-way and tried again.

*Transfers*: `Claim` is the transaction that numbers the document and marks it in
transit; whoever loses it rolls back and goes on to `Look` all the same, which
is the run `TransferTwice`.

*Purchasing*: `Intend` reads the order and `SetState` writes it, by id alone, with
the table's check `Allows` between them. `Intend` is the first half of saving an
order again too: `OrderSave` replaces the lines, with what had arrived on them
when they were read, and what arrived since is lost with the line (`astray`); it is
refused while a receipt names a line of the order (`Referenced`, the RESTRICT of
`receipt_lines.order_line_id`), and so is `OrderDelete`. `ReceiptSave` and
`BeginPost` ask nothing of the order's state, because `receipt::save` and `post`
do not: only the form that is offered first (`against_order`) looks at it. A
receipt may therefore be saved, and even posted, against an order that is still a
draft. `Settle` is `close_if_complete`; a receipt that gets there before the order is
confirmed closes nothing (`early`).

*Selling*: `AskNumber` and `Issue` are the two halves of issuing; `BeginOrderSave`
and `OrderSave` those of saving an order again, as above. `DeliverySave` writes a new
draft or rewrites an old one, whatever state its order is in; its line gets a new
id, so a post under way records its movement on a line that is gone (`Written`
leaves the delivery alone), and marks done what it then finds. `crossed` is the
history of that. `Freeze`, `MarkInvoiced` and `CommitInvoice` are the invoice's
transaction, the port's transaction inside it, and the commit that may still fail
after the port's; an invoice claims a line by its id (`names`), and a claim on a
line that was replaced is refused. A delivery has one line and the order one line.
Voiding an invoice does not take its mark off the delivery, in the code as in the
model.

### Billing

`Match` is `assess` with the read of what the lines have been billed for, and
the override a person may give; `Post` the transaction that advances them;
`Book` and `Note` the journal and its note, each a transaction of its own after
it. A death or a refusal between them leaves a posted bill without a journal,
and nothing tries again (`unbooked`).

### Uploads

`row` is `file_uploads`, `bytes` the places that hold the object. A worker
(poll loop or fast path) claims rows under a lease (`Claim`: `claim_batch` and
`claim_one`), takes them one after another, and walks through `verify`: `Begin`,
`Stat`, `Inspect`, `Promote`, `CommitStored`, with `CommitFails` and `Undo`, or
`Refuse` and `CommitRejected`; `Release` and `GiveUp` are what `run` makes of an
error. `Moves` is the local disk's promotion: a rename, or between filesystems a
copy that may leave the original. `Lapse` is a lease that runs out under a live
holder, `LapseOfTheDead` one whose holder is gone. The sweeper and a person's
deletion share `RemoveBytes` and `RemoveRow`; they differ in what they read and
in what a storage error does. `disturbed` is history: whether a file was
overtaken, removed, left in two places, or had a commit whose answer was lost.

Three things the model shows that no test does. A process that dies between the
promotion and the commit leaves the bytes in the bucket and the row `verifying`;
the retry finds nothing in quarantine and answers `failed`, so the bytes are kept
and never reached (`verify.rs:10-26` describes the order as safe, which it is for
rows that say stored). A process that dies between the deletion of a refused file
and its row leaves a row that waits for bytes that are gone. The claim has no cap on
attempts: only `run` looks at them, so a worker that dies every time is retried
for ever.

### Exports

`request` is `report_exports`, `stored` the object and row of the file. One
attempt is `ClaimExport`, `CheckGrant` (the permission of now, not of when it was
asked), `Render`, `WriteObject`, `InsertFile`, `MarkReady`, and `MarkFailed` from
any of them. The file's row is a plain insert, so a second attempt after the first
inserted it fails; `DeleteFile` removes the object before the row, and the
reference of a ready export keeps the row. The object's key contains today's date
in UTC, so an attempt after midnight leaves a second object; the model keeps one.

### Outbox and Announcements

An event is `open` while its transaction is, then `waiting` or `undone`.
`ClaimUnpublished` reads the oldest unpublished rows; the statement's locks end
with it, so two relays may hold the same rows, although the comment on it says
otherwise. `Publish` waits for the broker's confirmation and `MarkPublished`
follows; `PublishFails` covers an error with and without the message having
arrived. A consumer is handed a message (`Deliver`), decides (`Handle`) and
answers (`Answer`); a message comes back when the consumer dies, its answer is
lost or the broker goes down, and the broker counts that. `Announces` is the
refinement: with `announced` = the committed rows and `arrived` = what reached
the broker at least once, `Outbox` implements `Announcements`, liveness included.
Left out: `auto_ack` queues and messages no queue is bound for (the broker
confirms and drops them).

### MCGoods and MCBackground

The components composed in one of these share no row, so `work` picks at the
start which of them a behaviour is about; the others keep their initial state.
`MCGoods` instantiates `Purchasing` and `Selling` three times each: several receipts
of an order of one line (`receipts`), one receipt of two lines that is changed
while requests die (`changes`), one whose order is saved again (`resaves`); a sales
order and its delivery from the beginning, the order saved again, a request that
dies (`sales`), a delivery of a confirmed order that is saved again, posted and invoiced
(`rewrites`, from `BegunInit`), and several invoices of a delivery that has gone
(`invoices`, from `DeliveredInit`). The properties checked are the modules' own,
under the same names, each required where its module is at work. Assumptions of each evaluate `Sensible`
and `FinitelyMany`, what the proofs take of the constants. `Received`, what
arrived of each receipt line, is a constant of `Billing` and of `MCGoods`; the
configurations give it `AsBilled`, a line of which everything can be billed.

## 3. Runs

Passing runs (2 workers, all distinct states explored):

| Run | Instance | States | Shows |
|---|---|---|---|
| `NumberingCore` | 2 saves, 2 dates in 2 years, 4 edits, 3 documents | 172 k | `GapFree`, `NothingBurned`, `NoLostUpdate`, `EveryoneAnswered` |
| `ReceivablesCore` | 2 requests, 2 invoices, 1 credit note, 2 payments, totals 0 and 1, 2 journals | 372 k | `AccountedFor`, `ReversedOnce`, `NeverOverSettled`, `PostedIsFrozen`, `LocksInOrder` |
| `BackgroundCore` | 1 upload, 2 verifiers, 2 attempts, a crash and a lapse; or 1 export, 2 writers, a death and a timeout; or 2 events, 2 relays, a consumer, 2 tries, a fault | 324 k | `StoredHasBytes`, `KeptSomewhere`, `ToldAsItIs`, `FinishedStays`, `EverySettled`; `ReadyHasFile`, `AnswerStands`, `EveryAnswered`; `NothingLost`, `Announces` |
| `GoodsCore` | 2 clerks, quantities up to 2, 2 lines or 2 documents, 2 savings, 1 request that dies | 1.3 M | `TransitAsRecorded`, `DoneMeansArrived`; `ReceivedAsMoved`, `PostedMovedOnce`, `OrderCloses`, `ConfirmedStays`; `BilledAsPosted`, `PostedIsBooked`; `DeliveredAsGone`, `InvoicedAsPosted`, `OneNumber` |
| `StockCore` | FIFO, shelf, lorry, vendor, 2 moves at once, 4 in all, 2 prices | 1.4 M | `OwnedNeverNegative`, `LayersInStep`, `StockAccountAgrees`, and `StockBook` as an abstraction |

Why the bounds are enough. Every property relates at most two requests that race
for one row, so two are enough for each race to occur. *Numbering*: three
documents give a run of two and a reset, or a reset and its undoing;
the edits change mask, period, start and activity and can put the first settings
back. *Receivables*: total 0 is the document that posts no journal; two invoices
are needed for payments to lock crosswise, two payments for an invoice to be
settled twice; `MaxJournals` = 2 stops new requests once two journals are
committed, which still allows two posts and a void begun together, or a post, its
void and a reversal by hand racing. In this run drafts are not saved again
once they exist (`NoResave`): with that operation `NeverOverSettled` is false, and
so is that a journal says what its document says, which is what two of the runs
below show. That second statement (`JournalMatches`) is checked only there: where
an amount is written once it cannot fail. *Stock*: four moves are a
receipt at each price, and an issue and a transfer that compete for them.

*Goods*: two clerks are a race for each claim, read and record; quantity 2 on one
line is a receipt in two parts or two receipts, and a bill or invoice that fits
once and not twice; two lines are needed for a post that stops between them; two
savings are a document rewritten under a request; one death is enough to lose a
record, because a second one loses nothing new of the same line. The instances of
`Purchasing` and `Selling` each leave out what another one has (`MaxEdits`,
`MaxResaves`, `MaxStops`), because all of it at once is out of reach: an order saved
again while documents come is `resaves` and `sales`, a document saved again under a
post `changes` and `rewrites`, a death `changes`, `sales` and `invoices`. `MaxResaves` bounds when a saving of the order may begin, so two may
still be under way at once.

Some properties leave out what the code does not guard against, and name it.
`OrderCloses` leaves out a receipt posted before its order was confirmed (`early`),
the second part of `InvoicedAsPosted` a delivery saved under its post (`crossed`);
for both the statement without the exclusion is kept (`EveryOrderCloses`,
`InvoicedHasLeft`), and a configuration below shows it fail. `ReceivedAsMoved` and
`DeliveredAsGone` leave out a movement never written down (`lost`) and a line that was
replaced (`astray`), and survive everything else. `ConfirmedStays` is what the check
of the order's table achieves for whoever read the order before it was confirmed;
what the check forbids besides is the run `OrderCancelled`.

*Background*:
one file is enough, since the rows and objects of two files never meet: a worker
takes its batch one row after another, so a second file only makes a row wait in
`queued`, which one file can do too; two attempts are a retry and the giving up after it; one lapse and two workers are a
worker overtaken. Two events are needed for an order among them, two relays for a
row published twice, one fault for a message lost or doubled, two tries for a
redelivery and a dead letter.

Deadlock is checked for `Numbering`. `Receivables` and `StockLedger` stop by
construction at `MaxJournals` and `MaxMoves`, so their configurations turn it off;
waiting in a circle is covered by `LocksInOrder` instead. The documents of
`MCGoods` end (done, cancelled, deleted) and so does the work of `MCBackground`
(everything stored, answered, acknowledged), and nothing in them waits for a lock;
their configurations turn it off too.

Fairness (`Numbering!Fairness`): a transaction that holds the row ends (weak
fairness of `Commit` or `Rollback`: handlers have no unbounded wait inside and a
dropped connection rolls back), and a request queued on the row is served
eventually (strong fairness: Postgres queues lock waiters, so one is not passed
over for ever). Nothing is assumed of new requests or edits. The safety runs
need none.

Fairness of the background work is weak throughout. *Uploads and exports*: a
worker goes on with what it claimed, the poll loops
(`verifier_loop`, `exporter_loop`) claim again every interval for as long as the
process lives, and the time of a lease whose holder is gone passes. No lapse
under a live holder, no crash, no sweep and no deletion is assumed to happen, nor
not to: they are bounded, so that a worker which dies for ever is not a
counterexample, though it would be one in the code, where only `run` counts
attempts. *Outbox*: the relay loop passes again every interval, and an outage of
the broker ends. Of consumers nothing is assumed: the server spawns none, and a
consumer task that ends with its stream is not started again. So `Announces` ends
at the broker, where the outbox's own promise does.

### Where code and words differ

| Run | Claim | What happens |
|---|---|---|
| `NumberingBackdated` | "so no two documents get the same number" (`db/numbering.rs:11-12`) | the counter starts over whenever the document's period is not the row's, in either direction. 31 December takes 1, 1 January takes 1 of the new year, a third document dated 31 December is given 1 again. The documents' unique index refuses it and rolls the counter back, so the old period is closed to that series for good. |
| `ReceivablesStaleInvoice` | "The document as it will be the moment this commits" (`services/books/invoice.rs:510-512`) | a draft saved again between the post's read and its freeze is posted with the new lines and journalled with the old. |
| `ReceivablesStalePayment` | "The check above is the message; this is the enforcement" (`services/books/payment.rs:257`) | the check under the locks measures the allocations that were read; the ones that post may have been replaced since. |
| `StockOrphan` | "One transaction covers the move, both quants, the valuation layers and the journal" (`services/inventory/stock.rs:14-16`) | the ledger commits the journal first; if the move's own commit fails the journal stands alone. |
| `TransferTwice` | "two people pressing Despatch at once cannot both start moving the same pallets" (`services/inventory/transfer.rs:223-225`) | the one who loses the claim rolls back and goes on; both look at the lines before either has moved one, and both move it. |
| `OrderCancelled` | "Stop an order. A confirmed one is cancelled and kept, because it was sent." (`services/inventory/purchase.rs:308`) | the check of the table that ties the number to the states `confirmed` and `done` (`migrations/apps/inventory/0005_procurement.sql:134-136`) refuses the UPDATE, every time: a confirmed order cannot be cancelled. |
| `StockAverageLayers` | "`remaining` ... is kept accurate under all three methods" (ADR 0006, 957-958) | an issue that read the layers before a receipt committed, and locked the shelf after, spends no layer. |

Eight further configurations exhibit related statements that do not hold. They
are kept to be run by hand:

| Configuration | Property | Statement |
|---|---|---|
| `NumberingAprilYear` | `NeverCollides` | `config/numbering/books.toml:62-63`, with a calendar-year mask and a financial year that opens in April: two financial years print one calendar year |
| `NumberingStaleReset` | `KeyMatchesRow` | `db/numbering.rs:223-224`: the reset period may change between the read and the UPDATE |
| `NumberingStaleEdit` | `ReshapesMovePast` | `services/numbering.rs:185-186`: documents numbered between the check and the write |
| `ReceivablesLateCredit` | `OutstandingNotNegative` | `app-books/invoice.rs:194`: a credit note posted against an invoice already paid |
| `StockAverageCost` | `AverageCoversStock` | two receipts blend the same earlier cost and the later write forgets the earlier receipt (holds with one session) |
| `OrderReceivedEarly` | `EveryOrderCloses` | `services/inventory/receipt.rs:373`: "An order everything has arrived against closes itself"; a receipt posted before the order is confirmed finds nothing to close, and nobody looks again |
| `DeliveryRewritten` | `InvoicedHasLeft` | a delivery's post moves 1, a save makes the line 2 between its read and its move, the post marks it done, and 2 are invoiced |
| `ExportDeleted` (module `Exports`) | `ReadyCanBeRead` | `migrations/apps/core/0025_report_exports.sql:31-32`: the deletion of a file removes the object before the reference refuses the row's, so the export stays ready and its download fails |

## 4. Theorems

TLAPS proves every invariant and every action property that the passing runs
check, for every value of the constants. Two kinds of hypothesis remain, and each
is one the code gives:

- *Finiteness.* A sum is over a finite set, so theorems about sums ask that what
  is summed over is finite: `IsFiniteSet(Docs)` (`ReceivablesAssumption`),
  `IsFiniteSet(Owned)`, `FinitelyMany` of `Purchasing`, `Billing` and `Selling`.
  `OnlyCollectorsLoop` counts requests and asks it of `Sessions`. Tables and
  processes are finite.
- *A condition the statement needs.* Where a statement is false of the code in
  general, and one of the runs of section 3 shows it, the theorem says where it is
  true: `NoResaving` (drafts are saved once) for two theorems about receivables,
  `Method = "fifo"` for two about the ledger of stock, a series that never resets
  for `NeverTwice`.

**Sums.** The provers know no induction. `SumsProofs` does it by hand: if a
statement failed for some subset of a finite set it would fail for one of least
size (`SmallestException`, from the well-foundedness of `<` on `Nat`), and taking
one element out of that gives a smaller one. From this come the lemmas the other
modules cite: a sum does not depend on the order (`SumRemove`, `SumAdd`), changes
by what one element changes (`SumChange`), and by none where the functions agree
(`SumSame`); `SumNat`, `SumInt`, `SumZero`, `SumSubset`, `SumSupport`, `SumLess`.

**`NumberingProofs`** (any writers, dates, masks, edits; `NilAssumption`,
`NoRowAssumption`):

- `TypeCorrect`, `NoGaps` (`GapFree`), `RollbackReturns` (`NothingBurned`).
  `GapFree` and `NothingBurned` say nothing of the row a holder is about to commit,
  so neither is inductive. `IInv` adds
  `LockDiscipline` (the row is held by exactly the save that has a number, and
  `pending` is one step of the counter on from the committed row) and `Ordered` (of
  any two documents the later is in a later run, or further along in the same
  one). `Ordered` is about all pairs, not only neighbours, so a commit only has to
  compare its document with the last one, and no counter of a run repeats.
- `NothingLost` (`NoLostUpdate`). `SettingsHeld` says that a save that holds the
  row carries the committed settings in `pending`, which is true because an edit
  waits for the same row; so a commit of a save moves only the counter's columns,
  and an edit only the others.
- `NeverTwice`. For a series that never resets, starts at its shipped settings
  and whose edits keep the mask, no number in hand is a number already
  committed. This is the condition under which the header of `numbering.rs` is
  right; `NumberingBackdated` is a series outside it.

**`ReceivablesProofs`** (any documents, requests and amounts):

- `TypeCorrect`, `NoSecondReversal` (`ReversedOnce`), `PostedStays`
  (`PostedIsFrozen`). A request decides on one read and writes later, so `IInv` says
  what the row locks make of the time between: a request past its guarded UPDATE
  holds the document's row and the status it asked for is still there (`HoldsDoc`);
  one that holds the journals' series has written its journal, and what that
  reverses has no reversal yet (`HoldsJournal`). `Bystander` shows that a step of
  one request keeps this for every other. These need no condition: they hold with
  drafts saved again too.
- `EachIsAccountedFor` (`AccountedFor`), where drafts are saved once: with `resave` a
  draft may come to nothing, or to something, after a post has read it
  (`ReceivablesStaleInvoice` is the same race). `JInv` adds `Knows`: a save under way is for a
  payment no other request names, a post has read the amount the draft still has,
  a void the journal the document still has, and from `WriteJournal` on the
  journals' series is held exactly when there is a journal to commit. `Moves`
  lists what may become of a document in one step; a request that takes no part
  in the step keeps what it knows because of that list (`KnowsStill`).
- `NeverPaidTwice` (`NeverOverSettled`), under the same condition
  (`ReceivablesStalePayment` is the run without it). `PInv` adds `Covered`, what is
  posted against an invoice is no more than the invoice, and `Reserved`: from the
  measurement on a payment's post holds each of its invoices and what it is about to
  post fits what they have left. Nobody else can post against an invoice that is
  held, so `Reserved` survives until the commit, which turns it into `Covered`.
- `OnlyCollectorsLoop` (`LocksInOrder`), with drafts saved again or not. `MayHold`
  says by its step which rows a request may hold: its invoices while it posts a
  payment, its own series from the number on, its document from the freeze on, the
  journals' series last. So whoever waits in a circle has not frozen yet
  (`WaitersAreEarly`), and following the circle from any member one comes to a
  payment that waits for an invoice held by another one: two different collectors.

**`StockLedgerProofs`** (any locations, quantities, prices, sessions;
`StockAssumption`):

- `NeverBelowNothing` (`OwnedNeverNegative`). The floor is checked when the source
  quant is locked and written at the commit, so `IInv` says what the number in
  between is worth: where the move holds the row, `left` differs from the committed
  quantity by what the move carries, and where it holds none (the row did not
  exist) it starts from nothing. `SourceOK` and `TargetOK` are these two
  statements; `Bystander` shows that a step of one move keeps them for every
  other, which is where the locks matter.
- `ImplementsBook` (`BookSpec`). From the same invariant: a `Commit` changes exactly
  the two ends of the move by its quantity, which is one `StockBook!Carry`; every
  other step leaves `quant` alone.
- `TypeCorrect`, under any costing method. `LInv` adds to `IInv` what holds of
  layers: `Apart` (no layer is locked by two moves), `Ages` and `AgeOK` (a move under
  way has a number of its own and has not happened), `TakesOK` (it spends what is
  there, of layers it holds), and of money: `WorthOK` (what it is worth is what it
  pays for the layers it takes) and `JournalOK` (its number is on a journal exactly
  when it has posted one, and for that worth).
- `LayersKeepStep` (`LayersInStep`) and `AccountAgrees` (`StockAccountAgrees`), under
  FIFO. `SpentIsAll` is `consume_fifo`: of layers that cover a quantity, oldest first
  takes that quantity in all (`TakenDownTo` follows it layer by layer); `PriceIsPaid`
  is its value. A commit then takes from the layers what it takes off the owned
  locations (`LayersLeft`, `OwnedHolds`), and moves the accounts by what it moves the
  cost of the layers (`AccountMoves`, `CostMoves`). A move that fails after `Post`
  leaves a journal whose number no move that happened will ever have (`Ages`), which
  is why the account property survives what `StockOrphan` shows. Under the other
  methods `LayersInStep` is false (`StockAverageLayers`).

The other modules are instantiated by the `MC` modules, so what their theorems
ask of the constants is a definition, `Sensible`, that the theorems assume and
`MCGoods` and `MCBackground` evaluate.

**`PurchasingProofs`** (any lines, receipts, requests, editions):

- `TypeCorrect`; `EachLineOnce` (`PostedMovedOnce`). Between two tries the receipt's
  lines remember what moved, and during one the request does: `InStep` says that
  without slips what is on the shelf is what the receipt's lines have recorded,
  plus the one move not yet written down, and `TrueCopy` that a request's `load` is
  exactly the rest.
- `StaysCommitted` (`ConfirmedStays`), from `NumberedWhenConfirmed`: the table's
  check, kept by every write, turns away whoever read the order before.
- `CountsWhatCame` (`ReceivedAsMoved`). The property looks only at lines that nobody
  has in hand; `Counted` holds always: what the order counts plus what the requests
  have in hand (a sum over requests) is what is on the shelves (a sum over receipts).
  Two posts at once and a rewritten receipt move too much, and the order counts it.
  Replacing the lines is where it needs more: a save writes back what it read
  before, which is true only of nothing, and `Arrived` says that while nothing has
  moved nothing was counted or read.
- `ClosesWhenAllCame` (`OrderCloses`). A receipt may be posted before the order is
  confirmed, so `Closing` is about more than confirmed orders. `Owing`: the order is
  confirmed and complete, or goods came and it has no number yet. While it is owing
  and nothing slipped, somebody is between the last movement and the end of
  `close_if_complete`, or a receipt that moved is not posted. Whoever gets to `Settle`
  before the confirmation leaves the slip `early`, which the property names; whoever
  gets there after it reads the order complete, because `received` only grows.

**`SellingProofs`** (any deliveries, invoices, requests):

- `TypeCorrect`; `KeepsItsNumber` (`OneNumber`), from `Unissued` (a draft has no
  number) and `OneAsks` (unless two asked at once, whoever is about to issue knows the
  number the order has).
- `CountsWhatWent` (`DeliveredAsGone`). `Tallied` is `Counted` of `PurchasingProofs`,
  of what is `Aboard`; `OnTruck` and `Departed` are what a save of the order needs,
  and `Untouched` what a first save does.
- `InvoicedAsClaimed` (`InvoicedAsPosted`). The invoice's transaction and the port's
  commit apart, so between the two an invoice has been marked on the delivery and is
  still a draft. `Counted` sums over `Charged`: the invoices that posted and the ones
  whose request is between the two. `OneHolds` (one request has the invoice's row) and
  `Copied` (it claims what the invoice says) make `MarkInvoiced` add one invoice to
  that sum and `CommitInvoice` none. `Story` is the delivery's side: only a posted one
  is invoiced, for no more than it says; and while no saving crossed a post, whoever
  posts it moves what it says, so what says that it moved, or is posted, has left.

**`GoodsProofs`**:

- Of `Transfers` (any lines, sizes and clerks; `TransfersAssumption`):
  `TransferTypeCorrect`, `ShelvesAgree` (`TransitAsRecorded`), `NothingOnTheRoad`
  (`DoneMeansArrived`). `TransferInv` says of each line and each request what the
  request's remainder is worth (`RequestInv`): what a despatch still has to move has
  not gone, what a receipt still has to move is on the road. `OneEach` is what "nobody
  raced" makes of the requests. `EndsAlone` is why `DoneMeansArrived` excludes a
  despatch that crosses a close: `Complete` is read before it is written.
- Of `Billing` (any bills, lines, requests): `BillingTypeCorrect`; `OneJournalEach`
  (`PostedIsBooked`), from `Booked`: at most one request books a bill, and while it
  does the bill is posted and names no journal; `BilledIsClaimed` (`BilledAsPosted`),
  from `Counted` (what a line has been billed for is a sum over posted bills, because
  `Matched` says a request posts the lines the bill has) and `Within` (while nobody
  raced, overrode or changed, the one request past its match claims no more than is
  left).
- Of the composition `MCGoods`, at any size: `AllTyped`, `TransfersSound`,
  `ReceiptsSound`, `BillsSound`, `SalesSound`, `OrdersStand`. A behaviour of the
  composition is one of each part, or one where that part stutters; the six
  instances of `Purchasing` and `Selling` use those modules' invariants directly,
  through `OrdersInv`. `SalesSound` needs that `BegunInit` and `DeliveredInit` satisfy
  the invariant of `Selling`, though they are not among its initial states
  (`BegunHolds`, `DeliveredHolds`).

**`BackgroundProofs`**:

- Of `Uploads` (any files, workers, batches, crashes and lapses;
  `UploadsAssumption`): `TypeCorrect`, `BytesBehindRows` (`StoredHasBytes`),
  `BytesSurvive` (`KeptSomewhere`), `EventsAgree` (`ToldAsItIs`), `FinishedForGood`
  (`FinishedStays`). Nothing a file's safety rests on involves another file, so
  the invariant is `FileInv(f)` for each, and every step is either about `f` or
  leaves it `Untouched`. `Alone` is what the lease does: at most one worker has
  the file, its row waits, and the events told are what the row says. `Placed` is
  what holds even when the lease does not: the bytes are in one place, whoever is
  past the promotion is the only one and the bytes are in the bucket, because
  promoting needs them in quarantine. `StoredHasBytes` follows from `Placed` and
  the other three from `Alone`, `Kept` and `Recorded`.
- Of `Exports` (any requests and workers): `ExportsTypeCorrect`; `ReadyNamesFile`
  (`ReadyHasFile`), from `Referenced`: an export that names a file has its row, and a
  ready one names one; `AnsweredOnce` (`AnswerStands`), from `OneWorker`: an export
  nobody overtook has at most one worker, and only while it says running.
- Of `Outbox` (any events, relays, consumers, faults): `OutboxTypeCorrect`;
  `NothingIsLost` (`NothingLost`), from `NotLost`, which also says it of the row a
  relay has published and not yet marked; `StepsAsPromised`: every step maps to one of
  `Announcements` or to a stutter, which is the safety half of the refinement the run
  checks. It needs `OnlyCommitted`: what a relay holds or the broker has was committed.
- Of the composition `MCBackground`: `AllTyped`, `UploadsSound`, `ExportsReady`,
  `EventsKept`, `AnswersFinal`.

Only model-checked: the liveness properties `EveryoneAnswered`, `EverySettled`,
`EveryAnswered` and the liveness half of `Announces`, because TLAPS reasons about
neither `ENABLED` nor fairness. The runs that expect a violation are counterexamples
and have nothing to prove.

## 5. What is left out

Of the modelled components: pricing, tax, currency conversion and rounding;
permissions and audit rows; lots, removal strategies other than age (they change
which layer is older, the same for everybody), categories on manual valuation
(they post no journal) and a workspace with no ledger; landed cost; the number
scopes of a branch or till (each is a row of its own). Documents of goods carry
quantities only; a receipt's or a delivery's line is for the order's line of the same
number; each transfer line is a variant of its own, so the floor of the shelf is
`StockLedger`'s. What an upload is inspected for is one verdict, the same on every
try. Storage is the local disk's; queues are the quorum queues the topology
declares.

Met on the way and not a property here: a cancelled sales order, or one that was
never issued, is still delivered by a draft delivery that names it; a delivery
stays marked invoiced when its invoice is voided; `purge_published` and
`processed_events` are used by nothing, so published rows accumulate and
consumers have no record of what they handled.

Of the rest of the system: stock adjustments (`adjustment.rs`) post like receipts;
requisitions, consolidation and landed cost, accounting periods, identity, tenancy and rate
limits are in the plan or in `PROJECT.json` with the reason; human resources,
master data, tax arithmetic, the web interface and configuration are forms and
pure functions with unit tests, where nothing interleaves.

## 6. Plan

In this order:

1. **Periods**: `close` against a post that has read the period, an abstract
   ledger where nothing lands in a closed period, and the connection pool that a
   nested port call draws on a second time.
2. **Landed cost and average cost**: a second writer of layers and of the item's cost
   in `StockLedger`.
3. **Requisitions and consolidation**: demand gathered into purchase orders, over
   `Purchasing`.
4. **Identity**: one-time tokens, invitations and sessions; supersede against
   redeem.
5. **Tenancy**: provisioning that fails half-way, installed apps.
6. Theorems about what these add, in the same way: the condition under which
   `NeverPaidTwice` and `EachIsAccountedFor` hold could be made weaker than "drafts
   are saved once" (no draft is saved while a request that read it is under way).
