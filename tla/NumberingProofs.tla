-------------------------- MODULE NumberingProofs --------------------------
(***************************************************************************)
(* What holds of a number sequence for every set of writers, dates, masks  *)
(* and settings: its types, the row lock's discipline, no gap and no       *)
(* repetition inside a run of the counter, and, for a series that never    *)
(* resets and keeps its mask, that no number is ever handed out twice.     *)
(***************************************************************************)
EXTENDS Numbering, TLAPS

\* KeyFor gives one of the keys.
LEMMA KeyTyped ==
    ASSUME NEW reset \in ResetPeriods, NEW on \in Dates
    PROVE  KeyFor(reset, on) \in Keys
  BY DEF Keys

\* What the allocating UPDATE makes of a row is a row: one further along, in
\* the same run or in the next.
LEMMA Advances ==
    ASSUME NEW r \in Rows, NEW key \in Keys
    PROVE  /\ Advance(r, key) \in Rows
           /\ Advance(r, key).key = key
           /\ Advance(r, key).counter > 0
           /\ \/ /\ Advance(r, key).run = r.run
                 /\ Advance(r, key).counter = r.counter + 1
              \/ Advance(r, key).run = r.run + 1
  <1>1. /\ r.counter \in Nat /\ r.run \in Nat /\ r.start \in Nat \ {0}
    BY DEF Rows
  <1>4. \A c, n \in Nat : [r EXCEPT !.counter = c, !.run = n, !.key = key] \in Rows
    BY DEF Rows
  <1>2. CASE Continues(r, key)
    <2>1. Advance(r, key) = [r EXCEPT !.counter = r.counter + 1, !.run = r.run, !.key = key]
      BY <1>2 DEF Advance
    <2>2. Advance(r, key) \in Rows
      <3>1. r.counter + 1 \in Nat /\ r.run \in Nat
        BY <1>1
      <3>2. [r EXCEPT !.counter = r.counter + 1, !.run = r.run, !.key = key] \in Rows
        BY <1>4, <3>1
      <3> QED  BY <2>1, <3>2, Zenon
    <2>3. /\ Advance(r, key).key = key
          /\ Advance(r, key).counter = r.counter + 1
          /\ Advance(r, key).run = r.run
      BY <2>1 DEF Rows
    <2> QED  BY <1>1, <2>2, <2>3
  <1>3. CASE ~Continues(r, key)
    <2>1. Advance(r, key) = [r EXCEPT !.counter = r.start, !.run = r.run + 1, !.key = key]
      BY <1>3 DEF Advance
    <2>2. Advance(r, key) \in Rows
      <3>1. r.start \in Nat /\ r.run + 1 \in Nat
        BY <1>1
      <3>2. [r EXCEPT !.counter = r.start, !.run = r.run + 1, !.key = key] \in Rows
        BY <1>4, <3>1
      <3> QED  BY <2>1, <3>2, Zenon
    <2>3. /\ Advance(r, key).key = key
          /\ Advance(r, key).counter = r.start
          /\ Advance(r, key).run = r.run + 1
      BY <2>1 DEF Rows
    <2> QED  BY <1>1, <2>2, <2>3
  <1> QED  BY <1>2, <1>3

\* A settings write makes a row of a row and leaves counter and run alone.
LEMMA Resettles ==
    ASSUME NEW r \in Rows, NEW s \in Edits
    PROVE  /\ Resettled(r, s) \in Rows
           /\ Resettled(r, s).counter = r.counter
           /\ Resettled(r, s).run = r.run
           /\ Resettled(r, s).key = r.key
  <1>1. s.reset \in ResetPeriods /\ s.start \in Nat \ {0} /\ s.active \in BOOLEAN
    BY NilAssumption DEF IsSettings
  <1>2. s.mask \in Masks
    BY DEF Masks
  <1> QED  BY <1>1, <1>2 DEF Resettled, Rows

\* The row an installer makes is one that has issued nothing.
LEMMA Fresh == FreshRow \in Rows /\ FreshRow.counter = 0 /\ FreshRow.run = 0
  <1>1. /\ Shipped.reset \in ResetPeriods
        /\ Shipped.start \in Nat \ {0}
        /\ Shipped.active \in BOOLEAN
    BY NilAssumption DEF IsSettings
  <1>2. Shipped.mask \in Masks /\ FreshKey \in Keys
    BY DEF Masks, Keys
  <1> QED  BY <1>1, <1>2 DEF FreshRow, Rows

-----------------------------------------------------------------------------
\* The lock discipline: a save is numbered exactly while it holds the row, what
\* it sees is the committed row advanced once, and a save past its read has a
\* row to come back to.
LockDiscipline ==
    /\ \A w \in Writers : pc[w] = "numbered" <=> lock = w
    /\ \A w \in Writers : pc[w] # "idle" => row # Nil /\ save[w].on \in Dates
    /\ edit # Nil => row # Nil
    /\ \A w \in Writers : pc[w] = "numbered" =>
          /\ pending \in Rows
          /\ pending.counter > 0
          /\ \/ /\ pending.run = row.run
                /\ pending.counter = row.counter + 1
             \/ pending.run = row.run + 1

\* Earlier in the order the counter gives: a run before, or further back in it.
Earlier(d, e) == d.run < e.run \/ (d.run = e.run /\ d.counter < e.counter)

\* The documents are in that order.
Ordered ==
    \A i, j \in DOMAIN issued : i < j => Earlier(issued[i], issued[j])

IInv == TypeOK /\ LockDiscipline /\ NothingBurned /\ GapFree /\ Ordered

\* IInv holds initially.
LEMMA InitIInv == Init => IInv
  <1> SUFFICES ASSUME Init PROVE IInv
    OBVIOUS
  <1>1. NoSave \in [on : Dates \cup {Nil}, key : Keys]
    BY DEF NoSave, Keys
  <1>2. TypeOK
    BY <1>1 DEF Init, TypeOK
  <1>3. LockDiscipline
    BY NilAssumption DEF Init, LockDiscipline
  <1>4. NothingBurned /\ GapFree /\ Ordered
    BY DEF Init, NothingBurned, GapFree, Ordered
  <1> QED  BY <1>2, <1>3, <1>4 DEF IInv

-----------------------------------------------------------------------------
\* A step that leaves the documents, the counter and the run alone keeps the
\* statements about them.
LEMMA CounterAtRest ==
    ASSUME IInv, UNCHANGED issued,
           row # Nil => row' # Nil /\ row'.counter = row.counter /\ row'.run = row.run,
           row = Nil /\ row' # Nil => row'.counter = 0
    PROVE  NothingBurned' /\ GapFree' /\ Ordered'
  BY DEF IInv, NothingBurned, GapFree, Ordered, Earlier

\* A committed document extends the order by one.
LEMMA CommitKeepsOrder ==
    ASSUME IInv, NEW w \in Writers, Commit(w)
    PROVE  TypeOK' /\ NothingBurned' /\ GapFree' /\ Ordered'
  <1> DEFINE d == Draft(w)
  <1> USE DEF IInv
  <1>1. pending \in Rows /\ row \in Rows /\ save[w].on \in Dates
    BY DEF Commit, LockDiscipline, TypeOK
  <1>2. d \in Document /\ d.run = pending.run /\ d.counter = pending.counter
    BY <1>1 DEF Draft, Document, Rows
  <1>3. issued \in Seq(Document) /\ issued' = Append(issued, d)
    BY DEF TypeOK, Commit
  <1>4. /\ Len(issued') = Len(issued) + 1
        /\ Len(issued) \in Nat
        /\ issued' \in Seq(Document)
        /\ issued'[Len(issued) + 1] = d
        /\ \A i \in 1 .. Len(issued) : issued'[i] = issued[i]
        /\ DOMAIN issued = 1 .. Len(issued)
        /\ DOMAIN issued' = 1 .. Len(issued) + 1
        /\ \A i \in 1 .. Len(issued) : issued[i] \in Document
    BY <1>2, <1>3
  <1>5. NoSave \in [on : Dates \cup {Nil}, key : Keys]
    BY DEF NoSave, Keys
  <1>6. TypeOK'
    BY <1>1, <1>4, <1>5 DEF Commit, TypeOK
  <1>7. NothingBurned'
    <2>1. issued' # <<>>
      BY <1>4
    <2>2. row' = pending /\ pending # Nil
      BY <1>1, NoRowAssumption DEF Commit
    <2> QED  BY <2>1, <2>2, <1>2, <1>4 DEF NothingBurned
  <1>8. issued # <<>> =>
          \/ d.run = issued[Len(issued)].run /\ d.counter = issued[Len(issued)].counter + 1
          \/ d.run = issued[Len(issued)].run + 1
    BY <1>1, <1>2 DEF NothingBurned, LockDiscipline, Commit
  <1>9. GapFree'
    <2> SUFFICES ASSUME NEW i \in 1 .. Len(issued)
                 PROVE  \/ /\ issued'[i + 1].run = issued'[i].run
                           /\ issued'[i + 1].counter = issued'[i].counter + 1
                        \/ issued'[i + 1].run = issued'[i].run + 1
      BY <1>4 DEF GapFree
    <2>1. CASE i = Len(issued)
      BY <2>1, <1>4, <1>8
    <2>2. CASE i < Len(issued)
      BY <2>2, <1>4 DEF GapFree
    <2>3. i = Len(issued) \/ i < Len(issued)
      <3>1. Len(issued) \in Nat
        BY <1>4
      <3> QED  BY <3>1
    <2> QED  BY <2>1, <2>2, <2>3
  <1>10. Ordered'
    <2> SUFFICES ASSUME NEW i \in 1 .. Len(issued) + 1,
                        NEW j \in 1 .. Len(issued) + 1, i < j
                 PROVE  Earlier(issued'[i], issued'[j])
      BY <1>4 DEF Ordered
    <2>1. CASE j <= Len(issued)
      BY <2>1, <1>4 DEF Ordered
    <2>2. CASE j = Len(issued) + 1
      <3>1. i \in 1 .. Len(issued) /\ issued # <<>>
        BY <2>2, <1>4
      <3>2. issued[i] = issued[Len(issued)] \/ Earlier(issued[i], issued[Len(issued)])
        BY <3>1, <1>4 DEF Ordered
      <3>3. /\ issued[i].run \in Nat /\ issued[i].counter \in Nat
            /\ issued[Len(issued)].run \in Nat /\ issued[Len(issued)].counter \in Nat
            /\ d.run \in Nat /\ d.counter \in Nat
        BY <3>1, <1>2, <1>4 DEF Document
      <3> QED  BY <2>2, <3>1, <3>2, <3>3, <1>4, <1>8 DEF Earlier
    <2> QED  BY <1>4, <2>1, <2>2
  <1> QED  BY <1>6, <1>7, <1>9, <1>10

\* Every step keeps IInv.
LEMMA StepIInv == IInv /\ [Next]_vars => IInv'
  <1> SUFFICES ASSUME IInv, [Next]_vars PROVE IInv'
    OBVIOUS
  <1>0. NoSave \in [on : Dates \cup {Nil}, key : Keys] /\ NoSave.on = Nil
    BY DEF NoSave, Keys
  <1> USE DEF IInv
  <1>1. CASE Install
    <2>1. TypeOK' /\ LockDiscipline'
      BY <1>1, Fresh, NilAssumption, NoRowAssumption DEF Install, TypeOK, LockDiscipline
    <2>2. NothingBurned' /\ GapFree' /\ Ordered'
      BY <1>1, Fresh, NoRowAssumption, CounterAtRest DEF Install, TypeOK
    <2> QED  BY <2>1, <2>2
  <1>2. ASSUME NEW w \in Writers, NEW on \in Dates, ReadReset(w, on)
        PROVE  IInv'
    <2>1. row \in Rows
      BY <1>2 DEF ReadReset, TypeOK
    <2>2. KeyFor(row.reset, on) \in Keys
      BY <2>1, KeyTyped DEF Rows
    <2>3. TypeOK'
      BY <1>2, <2>2 DEF ReadReset, TypeOK
    <2>4. LockDiscipline'
      BY <1>2 DEF ReadReset, TypeOK, LockDiscipline
    <2>5. NothingBurned' /\ GapFree' /\ Ordered'
      BY <1>2, CounterAtRest DEF ReadReset
    <2> QED  BY <2>3, <2>4, <2>5
  <1>3. ASSUME NEW w \in Writers, Allocate(w)
        PROVE  IInv'
    <2>1. row \in Rows /\ row # Nil
      BY <1>3 DEF Allocate, TypeOK, LockDiscipline
    <2>2. save[w].key \in Keys
      BY DEF TypeOK
    <2>3. TypeOK'
      BY <1>3, <2>1, <2>2, Advances DEF Allocate, TypeOK
    <2>4. LockDiscipline'
      <3>1. \A u \in Writers : (pc'[u] = "numbered" <=> lock' = u)
        BY <1>3, NilAssumption DEF Allocate, TypeOK, LockDiscipline
      <3>2. \A u \in Writers : pc'[u] # "idle" => row' # Nil /\ save'[u].on \in Dates
        BY <1>3 DEF Allocate, TypeOK, LockDiscipline
      <3>3. /\ pending' \in Rows
            /\ pending'.counter > 0
            /\ \/ /\ pending'.run = row'.run
                  /\ pending'.counter = row'.counter + 1
               \/ pending'.run = row'.run + 1
        <4>1. pending' = Advance(row, save[w].key) /\ row' = row
          BY <1>3 DEF Allocate
        <4> QED  BY <4>1, <2>1, <2>2, Advances
      <3> QED  BY <1>3, <3>1, <3>2, <3>3 DEF Allocate, LockDiscipline
    <2>5. NothingBurned' /\ GapFree' /\ Ordered'
      BY <1>3, CounterAtRest DEF Allocate
    <2> QED  BY <2>3, <2>4, <2>5
  <1>4. ASSUME NEW w \in Writers, Refuse(w)
        PROVE  IInv'
    <2>1. TypeOK'
      BY <1>4, <1>0 DEF Refuse, TypeOK
    <2>2. LockDiscipline'
      BY <1>4, NilAssumption DEF Refuse, TypeOK, LockDiscipline
    <2>3. NothingBurned' /\ GapFree' /\ Ordered'
      BY <1>4, CounterAtRest DEF Refuse
    <2> QED  BY <2>1, <2>2, <2>3
  <1>5. ASSUME NEW w \in Writers, Commit(w)
        PROVE  IInv'
    <2>1. TypeOK' /\ NothingBurned' /\ GapFree' /\ Ordered'
      BY <1>5, CommitKeepsOrder
    <2>2. pending # Nil /\ lock = w
      BY <1>5, NilAssumption, NoRowAssumption DEF Commit, LockDiscipline, TypeOK
    <2>3. \A u \in Writers : pc'[u] # "numbered" /\ lock' # u
      BY <1>5, <2>2, NilAssumption DEF Commit, TypeOK, LockDiscipline
    <2>4. LockDiscipline'
      <3>1. row' # Nil
        BY <1>5, NoRowAssumption DEF Commit, LockDiscipline
      <3> QED  BY <1>5, <2>3, <3>1 DEF Commit, TypeOK, LockDiscipline
    <2> QED  BY <2>1, <2>4
  <1>6. ASSUME NEW w \in Writers, Rollback(w)
        PROVE  IInv'
    <2>1. TypeOK'
      BY <1>6, <1>0 DEF Rollback, TypeOK
    <2>2. LockDiscipline'
      BY <1>6, NilAssumption DEF Rollback, TypeOK, LockDiscipline
    <2>3. NothingBurned' /\ GapFree' /\ Ordered'
      BY <1>6, CounterAtRest DEF Rollback
    <2> QED  BY <2>1, <2>2, <2>3
  <1>7. ASSUME NEW s \in Edits, CheckEdit(s)
        PROVE  IInv'
    <2>1. TypeOK' /\ LockDiscipline'
      BY <1>7 DEF CheckEdit, TypeOK, LockDiscipline
    <2>2. NothingBurned' /\ GapFree' /\ Ordered'
      BY <1>7, CounterAtRest DEF CheckEdit
    <2> QED  BY <2>1, <2>2
  <1>8. CASE WriteEdit
    <2>1. row \in Rows /\ edit \in Edits
      BY <1>8 DEF WriteEdit, TypeOK, LockDiscipline
    <2>2. /\ row' \in Rows
          /\ row'.counter = row.counter
          /\ row'.run = row.run
      BY <1>8, <2>1, Resettles DEF WriteEdit
    <2>3. \A w \in Writers : pc[w] # "numbered" /\ lock # w
      BY <1>8, NilAssumption DEF WriteEdit, LockDiscipline
    <2>4. TypeOK' /\ LockDiscipline'
      BY <1>8, <2>2, <2>3, NoRowAssumption DEF WriteEdit, TypeOK, LockDiscipline
    <2>5. NothingBurned' /\ GapFree' /\ Ordered'
      BY <1>8, <2>1, <2>2, NoRowAssumption, CounterAtRest DEF WriteEdit
    <2> QED  BY <2>4, <2>5
  <1>9. CASE UNCHANGED vars
    <2>1. TypeOK' /\ LockDiscipline'
      BY <1>9 DEF vars, TypeOK, LockDiscipline
    <2>2. NothingBurned' /\ GapFree' /\ Ordered'
      BY <1>9, CounterAtRest DEF vars
    <2> QED  BY <2>1, <2>2
  <1> QED  BY <1>1, <1>2, <1>3, <1>4, <1>5, <1>6, <1>7, <1>8, <1>9 DEF Next

-----------------------------------------------------------------------------
\* The strengthened invariant holds in every behaviour.
LEMMA InvariantHolds == Spec => []IInv
  BY InitIInv, StepIInv, PTL DEF Spec

\* Every variable always holds a value of its shape, for every set of writers,
\* dates and edits (the columns of core.number_sequences and what allocate and
\* save_settings remember between their statements).
THEOREM TypeCorrect == Spec => []TypeOK
  <1>1. IInv => TypeOK
    BY DEF IInv
  <1> QED  BY InvariantHolds, <1>1, PTL

\* No run of the counter ever has a gap, whoever fails between the UPDATE and
\* the commit.
THEOREM NoGaps == Spec => []GapFree
  <1>1. IInv => GapFree
    BY DEF IInv
  <1> QED  BY InvariantHolds, <1>1, PTL

\* A rollback returns the number: the committed counter is the one the last
\* committed document carries, and no other.
THEOREM RollbackReturns == Spec => []NothingBurned
  <1>1. IInv => NothingBurned
    BY DEF IInv
  <1> QED  BY InvariantHolds, <1>1, PTL

-----------------------------------------------------------------------------
\* While a save holds the row no edit gets in: it sees the settings the
\* committed row has.
SettingsHeld ==
    \A w \in Writers : pc[w] = "numbered" =>
        /\ ~Reshapes(row, pending)
        /\ pending.start = row.start
        /\ pending.active = row.active

\* The UPDATE of an allocation keeps the settings.
LEMMA AdvanceKeepsSettings ==
    ASSUME NEW r \in Rows, NEW key \in Keys
    PROVE  /\ ~Reshapes(r, Advance(r, key))
           /\ Advance(r, key).start = r.start
           /\ Advance(r, key).active = r.active
  <1>1. \A c, n : LET a == [r EXCEPT !.counter = c, !.run = n, !.key = key]
                 IN  a.mask = r.mask /\ a.reset = r.reset /\ a.start = r.start
                     /\ a.active = r.active
    BY DEF Rows
  <1> QED  BY <1>1 DEF Advance, Reshapes

\* SettingsHeld is kept by every step: only an allocation brings a pending row
\* about, and whatever writes the committed row needs it free or gives it up.
LEMMA StepSettingsHeld ==
    ASSUME IInv, SettingsHeld, [Next]_vars
    PROVE  SettingsHeld'
  <1> USE DEF SettingsHeld
  <1>1. CASE Install
    <2>1. row = Nil => \A w \in Writers : pc[w] # "numbered"
      BY DEF IInv, LockDiscipline
    <2> QED  BY <1>1, <2>1 DEF Install
  <1>2. ASSUME NEW w \in Writers, NEW on \in Dates, ReadReset(w, on)
        PROVE  SettingsHeld'
    BY <1>2 DEF ReadReset, IInv, TypeOK
  <1>3. ASSUME NEW w \in Writers, Allocate(w)
        PROVE  SettingsHeld'
    <2>1. row \in Rows /\ save[w].key \in Keys
      BY <1>3 DEF Allocate, IInv, TypeOK, LockDiscipline
    <2>2. pending' = Advance(row, save[w].key) /\ row' = row
      BY <1>3 DEF Allocate
    <2> QED  BY <2>1, <2>2, AdvanceKeepsSettings
  <1>4. ASSUME NEW w \in Writers, Refuse(w)
        PROVE  SettingsHeld'
    BY <1>4 DEF Refuse, IInv, TypeOK
  <1>5. ASSUME NEW w \in Writers, Commit(w) \/ Rollback(w)
        PROVE  SettingsHeld'
    <2>1. \A u \in Writers : pc'[u] # "numbered"
      BY <1>5 DEF Commit, Rollback, IInv, TypeOK, LockDiscipline
    <2> QED  BY <2>1
  <1>6. ASSUME NEW s \in Edits, CheckEdit(s)
        PROVE  SettingsHeld'
    BY <1>6 DEF CheckEdit
  <1>7. CASE WriteEdit
    <2>1. \A w \in Writers : pc'[w] # "numbered"
      BY <1>7, NilAssumption DEF WriteEdit, IInv, LockDiscipline
    <2> QED  BY <2>1
  <1>8. CASE UNCHANGED vars
    BY <1>8 DEF vars
  <1> QED  BY <1>1, <1>2, <1>3, <1>4, <1>5, <1>6, <1>7, <1>8 DEF Next

\* A step from such a state touches only what is its own to write.
LEMMA StepEachItsOwn ==
    ASSUME IInv, SettingsHeld, [Next]_vars
    PROVE  [EachItsOwn]_vars
  <1> SUFFICES ASSUME row # Nil, Next
               PROVE  EachItsOwn
    BY DEF EachItsOwn
  <1>0. row \in Rows
    BY DEF IInv, TypeOK
  <1>1. CASE UNCHANGED row
    BY <1>1 DEF EachItsOwn, Reshapes
  <1>2. ASSUME NEW w \in Writers, Commit(w)
        PROVE  EachItsOwn
    <2>1. row' = pending /\ Len(issued') = Len(issued) + 1
      BY <1>2 DEF Commit, IInv, TypeOK
    <2>2. ~Reshapes(row, pending) /\ pending.start = row.start /\ pending.active = row.active
      BY <1>2 DEF Commit, SettingsHeld
    <2> QED  BY <2>1, <2>2 DEF EachItsOwn
  <1>3. CASE WriteEdit
    <2>1. edit \in Edits
      BY <1>3 DEF WriteEdit, IInv, TypeOK
    <2>2. row'.counter = row.counter /\ row'.key = row.key
      BY <1>0, <1>3, <2>1, Resettles DEF WriteEdit
    <2>3. edit # Nil /\ edit' = Nil
      BY <1>3 DEF WriteEdit
    <2> QED  BY <2>2, <2>3 DEF EachItsOwn
  <1>4. \/ UNCHANGED row
        \/ \E w \in Writers : Commit(w)
        \/ WriteEdit
    BY DEF Next, Install, ReadReset, Allocate, Refuse, Rollback, CheckEdit
  <1> QED  BY <1>1, <1>2, <1>3, <1>4

\* A document's save and a settings edit never undo one another, for any number
\* of saves, though the edit is checked and written in two statements and the
\* save reads and updates in two more.
THEOREM NothingLost == Spec => NoLostUpdate
  <1>1. Init => SettingsHeld
    BY DEF Init, SettingsHeld
  <1>2. IInv /\ SettingsHeld /\ [Next]_vars => SettingsHeld'
    BY StepSettingsHeld
  <1>3. IInv /\ SettingsHeld /\ [Next]_vars => [EachItsOwn]_vars
    BY StepEachItsOwn
  <1> QED  BY InvariantHolds, <1>1, <1>2, <1>3, PTL DEF Spec, NoLostUpdate

-----------------------------------------------------------------------------
\* The series that never starts again: hr.toml's and the items', as long as an
\* administrator changes only where it starts and whether it is in use.
Unbroken ==
    \A s \in Edits \cup {Shipped} : s.reset = "never" /\ s.mask = Shipped.mask

\* On such a series every key is the fresh row's, so the counter only rises:
\* every document is behind the row, and the number in hand is ahead of it.
Rising ==
    /\ row # Nil => row.key = FreshKey /\ row.reset = "never"
    /\ \A w \in Writers : pc[w] # "idle" => save[w].key = FreshKey
    /\ \A w \in Writers : pc[w] = "numbered" =>
          /\ pending.key = FreshKey
          /\ pending.reset = "never"
          /\ pending.counter > row.counter
    /\ \A i \in DOMAIN issued : issued[i].counter <= row.counter

\* While the key stays the same the UPDATE moves the counter up.
LEMMA AdvanceRises ==
    ASSUME NEW r \in Rows, r.key = FreshKey
    PROVE  /\ Advance(r, FreshKey).counter > r.counter
           /\ Advance(r, FreshKey).key = FreshKey
           /\ Advance(r, FreshKey).reset = r.reset
  <1>1. r.counter \in Nat /\ r.start \in Nat
    BY DEF Rows
  <1>2. CASE r.counter >= r.start
    <2>1. Advance(r, FreshKey) =
            [r EXCEPT !.counter = r.counter + 1, !.run = r.run, !.key = FreshKey]
      BY <1>2 DEF Advance, Continues
    <2> QED  BY <1>1, <2>1 DEF Rows
  <1>3. CASE r.counter < r.start
    <2>1. ~ Continues(r, FreshKey)
      BY <1>1, <1>3 DEF Continues
    <2>2. Advance(r, FreshKey) =
            [r EXCEPT !.counter = r.start, !.run = r.run + 1, !.key = FreshKey]
      BY <2>1 DEF Advance
    <2> QED  BY <1>1, <1>3, <2>2 DEF Rows
  <1> QED  BY <1>1, <1>2, <1>3

\* Rising is kept by every step of an unbroken series.
LEMMA StepRising ==
    ASSUME Unbroken, IInv, Rising, [Next]_vars
    PROVE  Rising'
  <1> USE DEF Rising
  <1>1. CASE Install
    <2>1. FreshRow.key = FreshKey /\ FreshRow.reset = "never"
      BY DEF FreshRow, Unbroken
    <2>2. row = Nil => issued = <<>>
      BY DEF IInv, NothingBurned
    <2>3. CASE row = Nil
      BY <1>1, <2>1, <2>2, <2>3 DEF Install, IInv, LockDiscipline
    <2>4. CASE row # Nil
      BY <1>1, <2>4 DEF Install
    <2> QED  BY <2>3, <2>4
  <1>2. ASSUME NEW w \in Writers, NEW on \in Dates, ReadReset(w, on)
        PROVE  Rising'
    <2>1. KeyFor(row.reset, on) = FreshKey
      BY <1>2 DEF ReadReset, KeyFor, FreshKey
    <2> QED  BY <1>2, <2>1 DEF ReadReset, IInv, TypeOK
  <1>3. ASSUME NEW w \in Writers, Allocate(w)
        PROVE  Rising'
    <2>1. row \in Rows /\ row.key = FreshKey /\ save[w].key = FreshKey
      BY <1>3 DEF Allocate, IInv, TypeOK, LockDiscipline
    <2>2. \A u \in Writers : pc[u] # "numbered"
      BY <1>3, NilAssumption DEF Allocate, IInv, LockDiscipline
    <2>3. /\ pending'.key = FreshKey
          /\ pending'.reset = "never"
          /\ pending'.counter > row.counter
      BY <1>3, <2>1, NoRowAssumption, AdvanceRises DEF Allocate
    <2> QED  BY <1>3, <2>1, <2>3 DEF Allocate, IInv, TypeOK
  <1>4. ASSUME NEW w \in Writers, Refuse(w)
        PROVE  Rising'
    BY <1>4 DEF Refuse, IInv, TypeOK
  <1>5. ASSUME NEW w \in Writers, Commit(w)
        PROVE  Rising'
    <2>1. /\ pending \in Rows /\ pending.counter > row.counter
          /\ pending.key = FreshKey /\ pending.reset = "never"
          /\ row \in Rows
      BY <1>5 DEF Commit, IInv, LockDiscipline, TypeOK
    <2>2. Draft(w).counter = pending.counter
      BY DEF Draft
    <2>3. /\ issued \in Seq(Document)
          /\ issued' = Append(issued, Draft(w))
          /\ row' = pending
      BY <1>5 DEF Commit, IInv, TypeOK
    <2>4. \A i \in DOMAIN issued' : issued'[i].counter <= row'.counter
      <3> SUFFICES ASSUME NEW i \in DOMAIN issued'
                   PROVE  issued'[i].counter <= pending.counter
        BY <2>3
      <3>1. CASE i = Len(issued) + 1
        BY <2>1, <2>2, <2>3, <3>1 DEF Rows
      <3>2. CASE i \in 1 .. Len(issued)
        <4>1. issued'[i] = issued[i] /\ issued[i] \in Document
          BY <2>3, <3>2
        <4>2. issued[i].counter <= row.counter
          BY <2>3, <3>2
        <4> QED  BY <2>1, <4>1, <4>2 DEF Rows, Document
      <3>3. DOMAIN issued' = 1 .. Len(issued) + 1 /\ Len(issued) \in Nat
        BY <2>3
      <3> QED  BY <3>1, <3>2, <3>3
    <2>5. \A u \in Writers : pc'[u] # "numbered"
      BY <1>5 DEF Commit, IInv, TypeOK, LockDiscipline
    <2> QED  BY <1>5, <2>1, <2>4, <2>5 DEF Commit, IInv, TypeOK
  <1>6. ASSUME NEW w \in Writers, Rollback(w)
        PROVE  Rising'
    <2>1. \A u \in Writers : pc'[u] # "numbered"
      BY <1>6 DEF Rollback, IInv, TypeOK, LockDiscipline
    <2> QED  BY <1>6, <2>1 DEF Rollback, IInv, TypeOK
  <1>7. ASSUME NEW s \in Edits, CheckEdit(s)
        PROVE  Rising'
    BY <1>7 DEF CheckEdit
  <1>8. CASE WriteEdit
    <2>1. row \in Rows /\ edit \in Edits
      BY <1>8 DEF WriteEdit, IInv, TypeOK, LockDiscipline
    <2>2. edit.reset = "never"
      BY <2>1 DEF Unbroken
    <2>3. row'.key = row.key /\ row'.counter = row.counter /\ row'.reset = "never"
      BY <1>8, <2>1, <2>2 DEF WriteEdit, Resettled, Rows
    <2>4. row.key = FreshKey
      BY <2>1, NoRowAssumption
    <2> QED  BY <1>8, <2>3, <2>4 DEF WriteEdit, IInv, LockDiscipline
  <1>9. CASE UNCHANGED vars
    BY <1>9 DEF vars
  <1> QED  BY <1>1, <1>2, <1>3, <1>4, <1>5, <1>6, <1>7, <1>8, <1>9 DEF Next

\* On an unbroken series no save is ever handed a number that a committed
\* document carries, whatever the writers, their dates and the edits of
\* start_at and is_active: the guarantee numbering.rs opens with.
THEOREM NeverTwice ==
    ASSUME Unbroken
    PROVE  Spec => []NeverCollides
  <1>1. Init => Rising
    BY DEF Init, Rising
  <1>2. IInv /\ Rising /\ [Next]_vars => Rising'
    BY StepRising
  <1>3. IInv /\ Rising => NeverCollides
    <2> SUFFICES ASSUME IInv, Rising, NEW w \in Writers, pc[w] = "numbered",
                        NEW i \in DOMAIN issued
                 PROVE  Number(issued[i]) # Number(Draft(w))
      BY DEF NeverCollides
    <2>1. /\ pending \in Rows /\ row \in Rows /\ issued[i] \in Document
      BY DEF IInv, LockDiscipline, TypeOK
    <2>2. issued[i].counter <= row.counter /\ row.counter < pending.counter
      BY DEF Rising
    <2>3. issued[i].counter # pending.counter
      BY <2>1, <2>2 DEF Rows, Document
    <2>4. /\ Number(issued[i]).counter = issued[i].counter
          /\ Number(Draft(w)).counter = pending.counter
      BY DEF Number, Render, Draft
    <2> QED  BY <2>3, <2>4
  <1> QED  BY InvariantHolds, <1>1, <1>2, <1>3, PTL DEF Spec
=============================================================================
