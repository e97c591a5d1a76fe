----------------------------- MODULE Numbering -----------------------------
(***************************************************************************)
(* One row of core.number_sequences and everybody who writes to it.        *)
(*                                                                         *)
(* A document save takes its number inside its own transaction:            *)
(* numbering::allocate reads the row's reset period, works out the period  *)
(* key of the document's date, and then runs one UPDATE that moves the     *)
(* counter.  Postgres holds the row from that UPDATE to the end of the     *)
(* transaction, so the new version of the row (pending) is the holder's    *)
(* alone until it commits, and a rollback drops it.  The settings screen   *)
(* finds the row, weighs the edit against the counter it found, and        *)
(* updates the row in a second statement.  Statements of different         *)
(* connections interleave freely (READ COMMITTED).                         *)
(***************************************************************************)
EXTENDS Integers, Sequences

CONSTANTS
    Writers,      \* document saves that may be in flight at once
    Dates,        \* the dates documents carry: [year, month, day] records
    FiscalMonth,  \* organization_profile.fiscal_year_start_month
    Shipped,      \* what config/numbering/<app>.toml declares: a member of Settings
    Edits,        \* what an administrator submits: a subset of Settings
    MaxIssued,    \* bound: no save starts once so many documents are committed
    Nil           \* no row, no holder, no edit in flight

ResetPeriods == {"never", "daily", "monthly", "yearly", "fiscal_year"}

\* The columns a settings screen may change.  A mask is its literal text and
\* the set of date parts it prints; the counter's digits are always printed.
\* (Literals that spell out digits another mask prints are not told apart: the
\* masks of an instance are chosen so that their literals cannot run together.)
IsSettings(s) ==
    /\ s.reset \in ResetPeriods
    /\ s.start \in Nat \ {0}
    /\ s.active \in BOOLEAN

ASSUME NilAssumption ==
    /\ Nil \notin Writers
    /\ \A s \in Edits \cup {Shipped} : IsSettings(s)
    /\ MaxIssued \in Nat

VARIABLES
    row,      \* the committed row, Nil before the app is installed
    lock,     \* the writer whose transaction holds the row, or Nil
    pending,  \* the row as the holder's transaction sees it
    pc,       \* where each document save has got to
    save,     \* what each document save remembers
    edit,     \* the settings edit that was checked and not yet written, or Nil
    issued    \* the committed documents, in the order of their allocation

vars == <<row, lock, pending, pc, save, edit, issued>>

-----------------------------------------------------------------------------
\* The pure part: which period a date is in, and what a number prints.

\* The financial year a date falls in, named by the year it opens.
FiscalYear(on) == IF on.month >= FiscalMonth THEN on.year ELSE on.year - 1

\* ResetPeriod::key_for.  Keys of different reset periods never compare equal.
KeyFor(reset, on) ==
    [reset |-> reset,
     at    |-> CASE reset = "never"       -> <<>>
                 [] reset = "daily"       -> <<on.year, on.month, on.day>>
                 [] reset = "monthly"     -> <<on.year, on.month>>
                 [] reset = "yearly"      -> <<on.year>>
                 [] reset = "fiscal_year" -> <<FiscalYear(on)>>]

\* The key a fresh row carries: the column's default '', which is Never's key.
FreshKey == [reset |-> "never", at |-> <<>>]

\* One date part of a mask, as it prints on this date.
Printed(part, on) ==
    CASE part = "YYYY" -> on.year
      [] part = "YY"   -> on.year % 100
      [] part = "MM"   -> on.month
      [] part = "DD"   -> on.day
      [] part = "FY"   -> FiscalYear(on)

\* Pattern::render.  Two numbers are the same text exactly when the literal,
\* the printed parts and the counter agree.
Render(mask, on, counter) ==
    [literal |-> mask.literal,
     parts   |-> [part \in mask.parts |-> Printed(part, on)],
     counter |-> counter]

-----------------------------------------------------------------------------
\* Mutant: the column's default counts as one number short of none.
FreshRowShort == [reset |-> Shipped.reset, mask |-> Shipped.mask,
                  start |-> Shipped.start, active |-> Shipped.active,
                  key |-> FreshKey, counter |-> Shipped.start - 2, run |-> 0]

\* A row of the table.  run is a history variable: it counts how often the
\* counter was set to start_at rather than incremented, so documents with the
\* same run were numbered by one unbroken stretch of the counter.
FreshRow == [reset |-> Shipped.reset, mask |-> Shipped.mask,
             start |-> Shipped.start, active |-> Shipped.active,
             key |-> FreshKey, counter |-> 0, run |-> 0]

\* What the single UPDATE ... RETURNING of allocate does to the row.
Continues(r, key) == r.key = key /\ r.counter >= r.start

Advance(r, key) ==
    [r EXCEPT !.counter = IF Continues(r, key) THEN r.counter + 1 ELSE r.start,
              !.run     = IF Continues(r, key) THEN r.run ELSE r.run + 1,
              !.key     = key]

\* What numbering::update writes: the settings, never the counter or the key.
Resettled(r, s) ==
    [r EXCEPT !.reset = s.reset, !.mask = s.mask,
              !.start = s.start, !.active = s.active]

Reshapes(r, s) == r.mask # s.mask \/ r.reset # s.reset

\* The judgement save_settings makes before it writes.
WouldReissue(r, s) ==
    /\ Reshapes(r, s)
    /\ r.counter > 0
    /\ s.start <= r.counter

\* What the row and a document are.
Masks    == {s.mask : s \in Edits \cup {Shipped}}
Keys     == {KeyFor(reset, on) : reset \in ResetPeriods, on \in Dates} \cup {FreshKey}
Rows     == [reset : ResetPeriods, mask : Masks, start : Nat \ {0},
             active : BOOLEAN, key : Keys, counter : Nat, run : Nat]
Document == [run : Nat, counter : Nat, mask : Masks, on : Dates]

ASSUME NoRowAssumption == Nil \notin Rows

\* The number a document carries.
Number(doc) == Render(doc.mask, doc.on, doc.counter)

-----------------------------------------------------------------------------
\* A document save before it has read the row.
NoSave == [on |-> Nil, key |-> FreshKey]

Init ==
    /\ row = Nil
    /\ lock = Nil
    /\ pending = Nil
    /\ pc = [w \in Writers |-> "idle"]
    /\ save = [w \in Writers |-> NoSave]
    /\ edit = Nil
    /\ issued = <<>>

\* install_defaults: INSERT ... ON CONFLICT DO NOTHING.  Running the installer
\* again leaves an existing row as it is.
Install ==
    /\ row' = IF row = Nil THEN FreshRow ELSE row
    /\ UNCHANGED <<lock, pending, pc, save, edit, issued>>

\* The plain SELECT of current_reset_period: no lock, the committed row.  A
\* missing or switched-off row refuses the document and nothing changes.
ReadReset(w, on) ==
    /\ pc[w] = "idle"
    /\ Len(issued) < MaxIssued
    /\ row # Nil
    /\ row.active
    /\ save' = [save EXCEPT ![w] = [on |-> on, key |-> KeyFor(row.reset, on)]]
    /\ pc' = [pc EXCEPT ![w] = "keyed"]
    /\ UNCHANGED <<row, lock, pending, edit, issued>>

\* The UPDATE: waits for the holder, then sees the row as it stands.
Allocate(w) ==
    /\ pc[w] = "keyed"
    /\ lock = Nil
    /\ row.active
    /\ lock' = w
    /\ pending' = Advance(row, save[w].key)
    /\ pc' = [pc EXCEPT ![w] = "numbered"]
    /\ UNCHANGED <<row, save, edit, issued>>

\* The UPDATE matched no row: the series was switched off in between, and the
\* document is refused with UnusableSequence.
Refuse(w) ==
    /\ pc[w] = "keyed"
    /\ lock = Nil
    /\ ~row.active
    /\ pc' = [pc EXCEPT ![w] = "idle"]
    /\ save' = [save EXCEPT ![w] = NoSave]
    /\ UNCHANGED <<row, lock, pending, edit, issued>>

\* The document the holder is about to commit.
Draft(w) == [run |-> pending.run, counter |-> pending.counter,
             mask |-> pending.mask, on |-> save[w].on]

\* Mutant: the number is worked out without being written to the row.
CommitForgetful(w) ==
    /\ pc[w] = "numbered"
    /\ \A i \in DOMAIN issued : Number(issued[i]) # Number(Draft(w))
    /\ issued' = Append(issued, Draft(w))
    /\ lock' = Nil
    /\ pending' = Nil
    /\ pc' = [pc EXCEPT ![w] = "idle"]
    /\ save' = [save EXCEPT ![w] = NoSave]
    /\ UNCHANGED <<row, edit>>

\* The document and its number commit together, unless the unique index on the
\* documents' own table already holds the number.
Commit(w) ==
    /\ pc[w] = "numbered"
    /\ \A i \in DOMAIN issued : Number(issued[i]) # Number(Draft(w))
    /\ row' = pending
    /\ issued' = Append(issued, Draft(w))
    /\ lock' = Nil
    /\ pending' = Nil
    /\ pc' = [pc EXCEPT ![w] = "idle"]
    /\ save' = [save EXCEPT ![w] = NoSave]
    /\ UNCHANGED edit

\* Mutant: the number is allocated on a pool, so a failed save burns it.
RollbackBurning(w) ==
    /\ pc[w] = "numbered"
    /\ row' = pending
    /\ lock' = Nil
    /\ pending' = Nil
    /\ pc' = [pc EXCEPT ![w] = "idle"]
    /\ save' = [save EXCEPT ![w] = NoSave]
    /\ UNCHANGED <<edit, issued>>

\* Mutant: a failed save never ends its transaction.
RollbackForgotten(w) ==
    /\ pc[w] = "numbered"
    /\ pc' = [pc EXCEPT ![w] = "idle"]
    /\ save' = [save EXCEPT ![w] = NoSave]
    /\ UNCHANGED <<row, lock, pending, edit, issued>>

\* The save failed after the number was taken (a unique index refused it, a
\* later statement failed) or the connection was lost: the holder's version of
\* the row goes with the transaction.
Rollback(w) ==
    /\ pc[w] = "numbered"
    /\ lock' = Nil
    /\ pending' = Nil
    /\ pc' = [pc EXCEPT ![w] = "idle"]
    /\ save' = [save EXCEPT ![w] = NoSave]
    /\ UNCHANGED <<row, edit, issued>>

\* save_settings, first half: find the row and weigh the edit.  A refused edit
\* (no row, or WouldReissue) changes nothing.
CheckEdit(s) ==
    /\ edit = Nil
    /\ row # Nil
    /\ ~WouldReissue(row, s)
    /\ edit' = s
    /\ UNCHANGED <<row, lock, pending, pc, save, issued>>

\* Mutant: the settings are written past the holder of the row.
WriteEditAtOnce ==
    /\ edit # Nil
    /\ row' = Resettled(row, edit)
    /\ edit' = Nil
    /\ UNCHANGED <<lock, pending, pc, save, issued>>

\* save_settings, second half: one UPDATE, which waits for a holder.
WriteEdit ==
    /\ edit # Nil
    /\ lock = Nil
    /\ row' = Resettled(row, edit)
    /\ edit' = Nil
    /\ UNCHANGED <<lock, pending, pc, save, issued>>

Next ==
    \/ Install
    \/ \E w \in Writers :
         \/ \E on \in Dates : ReadReset(w, on)
         \/ Allocate(w)
         \/ Refuse(w)
         \/ Commit(w)
         \/ Rollback(w)
    \/ \E s \in Edits : CheckEdit(s)
    \/ WriteEdit

Spec == Init /\ [][Next]_vars

\* A transaction that holds the row ends (it commits, fails, or its connection
\* is dropped), and the row lock is granted in the order it was asked for, so
\* nobody who keeps asking is passed over for ever.
Fairness ==
    \A w \in Writers :
        /\ WF_vars(Commit(w) \/ Rollback(w))
        /\ SF_vars(Allocate(w) \/ Refuse(w))

FairSpec == Spec /\ Fairness
-----------------------------------------------------------------------------
\* Every variable holds a value of its shape; a save past its read has a date,
\* and only past the read.
TypeOK ==
    /\ row \in Rows \cup {Nil}
    /\ lock \in Writers \cup {Nil}
    /\ pending \in Rows \cup {Nil}
    /\ pc \in [Writers -> {"idle", "keyed", "numbered"}]
    /\ save \in [Writers -> [on : Dates \cup {Nil}, key : Keys]]
    /\ edit \in Edits \cup {Nil}
    /\ issued \in Seq(Document)

\* A failed save leaves no gap: two documents numbered one after the other from
\* one run of the counter carry consecutive counters, whatever was rolled back
\* between them, and runs are never gone back to (numbering.rs, "a rollback
\* returns the number rather than burning it").
GapFree ==
    \A i \in 1 .. Len(issued) - 1 :
        \/ /\ issued[i + 1].run = issued[i].run
           /\ issued[i + 1].counter = issued[i].counter + 1
        \/ issued[i + 1].run = issued[i].run + 1

\* The committed counter is the last committed document's: no number is taken
\* from the row without a document that carries it, and none is carried by a
\* document the row does not know of.
NothingBurned ==
    IF issued = <<>>
    THEN row # Nil => row.counter = 0
    ELSE /\ row # Nil
         /\ row.run = issued[Len(issued)].run
         /\ row.counter = issued[Len(issued)].counter

\* The number a save has in hand is one no committed document carries
\* (numbering.rs, "so no two documents get the same number").
NeverCollides ==
    \A w \in Writers : pc[w] = "numbered" =>
        \A i \in DOMAIN issued : Number(issued[i]) # Number(Draft(w))

\* The period a document was numbered in is a period of the kind the row is
\* set to: the reset period cannot change between the SELECT that reads it and
\* the UPDATE that uses it (current_reset_period's comment).
KeyMatchesRow ==
    \A w \in Writers : pc[w] = "numbered" => pending.key.reset = pending.reset

\* What a step may do to a row that is there: move its counter or its period with
\* a document that commits, change its settings with an edit that is written.
EachItsOwn ==
    row # Nil =>
        /\ row'.counter # row.counter \/ row'.key # row.key
           => Len(issued') = Len(issued) + 1
        /\ Reshapes(row, row') \/ row'.start # row.start \/ row'.active # row.active
           => edit # Nil /\ edit' = Nil

\* Neither kind of writer undoes the other's: the counter and the period move
\* only with a document that commits, and the settings only when an edit is
\* written, so a save that was numbered before an edit cannot put back the
\* settings it read, nor an edit the counter (SequenceUpdate: "not the counter
\* and not the period key").
NoLostUpdate == [][EachItsOwn]_vars

\* A sequence that has issued is only reshaped with start_at raised past the
\* last counter handed out (save_settings, "So this refuses a format change").
ReshapesMovePast ==
    [][ row # Nil /\ Reshapes(row, row') /\ row.counter > 0
        => row'.start > row.counter ]_vars

\* A document that asked for its number gets it or is refused: the queue on the
\* row always drains.
EveryoneAnswered ==
    \A w \in Writers : pc[w] = "keyed" ~> pc[w] # "keyed"
=============================================================================
