------------------------- MODULE StockLedgerProofs -------------------------
(***************************************************************************)
(* What holds of StockLedger for any locations, quantities, sessions and   *)
(* costing method: no location of the workspace's own goes below nothing,  *)
(* and concurrent moves implement StockBook, one whole move at a time.     *)
(* Under FIFO, also that what the layers have left is what the locations   *)
(* hold, and that the stock accounts come to what the layers cost.         *)
(*                                                                         *)
(* None of it is inductive.  A commit writes what the move computed at its *)
(* two locks, so the first invariant says what those numbers are worth in  *)
(* between: as long as a move holds a row, what it is to write there       *)
(* differs from the committed quantity by exactly what it carries; and     *)
(* where it holds none, it is to insert a row that starts from nothing.    *)
(* The second says the same of the layers it has locked, of what it is     *)
(* worth and of its journal.                                               *)
(***************************************************************************)
EXTENDS StockLedger, SumsProofs

States == {"idle", "read", "layers", "costed", "taken", "source", "put", "shifted",
           "settled", "posted"}

\* The states of a move that has fixed what it leaves at its source...
HasTaken == {"taken", "source", "put", "shifted", "settled", "posted"}
\* ...has written it, under a lock...
HasLeft  == HasTaken \ {"taken"}
\* ...has fixed what arrives at its target, and has written that.
HasPut     == {"put", "shifted", "settled", "posted"}
HasArrived == HasPut \ {"put"}

Moves == [at : States, id : Int, from : Locations \cup {Nil}, to : Locations \cup {Nil},
          qty : Int, left : Int, arrived : Int]

\* What a move under way carries is a move check() let through.
Sound(s) ==
    session[s].at # "idle" =>
        /\ session[s].from \in Locations
        /\ session[s].to \in Locations
        /\ session[s].from # session[s].to
        /\ session[s].qty \in Quantities

\* What is to be written at the source.
SourceOK(s) ==
    session[s].at \in HasTaken =>
        /\ session[s].from \in Owned => session[s].left >= 0
        /\ session[s].at \in HasLeft => holder[session[s].from] = s
        /\ session[s].left =
             (IF holder[session[s].from] = s THEN quant[session[s].from] ELSE 0) - session[s].qty

\* What is to be written at the target.
TargetOK(s) ==
    session[s].at \in HasPut =>
        /\ session[s].at \in HasArrived => holder[session[s].to] = s
        /\ session[s].arrived =
             (IF holder[session[s].to] = s THEN quant[session[s].to] ELSE 0) + session[s].qty

Typed ==
    /\ quant \in [Locations -> Int]
    /\ holder \in [Locations \cup {Item} -> Sessions \cup {Nil}]
    /\ session \in [Sessions -> Moves]
    /\ begun \in Int

IInv ==
    /\ Typed
    /\ OwnedNeverNegative
    /\ \A s \in Sessions : Sound(s) /\ SourceOK(s) /\ TargetOK(s)

-----------------------------------------------------------------------------
\* A session that takes no part in a step keeps what is said of it, as long as
\* the step leaves its locks and the rows under them alone.
LEMMA Bystander ==
    ASSUME NEW t \in Sessions, IInv,
           session'[t] = session[t],
           \A r \in Locations : holder'[r] = t <=> holder[r] = t,
           \A r \in Locations : holder[r] = t => quant'[r] = quant[r]
    PROVE  Sound(t)' /\ SourceOK(t)' /\ TargetOK(t)'
  <1>1. Sound(t) /\ SourceOK(t) /\ TargetOK(t)
    BY DEF IInv
  <1>2. Sound(t)'
    BY <1>1 DEF Sound
  <1>3. CASE session[t].at = "idle"
    BY <1>2, <1>3 DEF SourceOK, TargetOK, HasTaken, HasPut
  <1>4. CASE session[t].at # "idle"
    <2>1. session[t].from \in Locations /\ session[t].to \in Locations
      BY <1>1, <1>4 DEF Sound
    <2>2. SourceOK(t)'
      BY <1>1, <2>1 DEF SourceOK
    <2>3. TargetOK(t)'
      BY <1>1, <2>1 DEF TargetOK
    <2> QED  BY <1>2, <2>2, <2>3
  <1> QED  BY <1>3, <1>4

\* One move advances: what it says of itself must be shown of it alone.
LEMMA OneMove ==
    ASSUME IInv, NEW s \in Sessions, NEW m \in Moves,
           holder' \in [Locations \cup {Item} -> Sessions \cup {Nil}],
           session' = [session EXCEPT ![s] = m],
           quant' = quant, begun' \in Int,
           \A t \in Sessions \ {s}, r \in Locations : holder'[r] = t <=> holder[r] = t,
           Sound(s)', SourceOK(s)', TargetOK(s)'
    PROVE  IInv'
  <1>1. Typed'
    BY DEF IInv, Typed
  <1>2. OwnedNeverNegative'
    BY DEF IInv, OwnedNeverNegative
  <1>3. ASSUME NEW t \in Sessions PROVE Sound(t)' /\ SourceOK(t)' /\ TargetOK(t)'
    <2>1. CASE t = s
      BY <2>1
    <2>2. CASE t # s
      <3>1. session'[t] = session[t]
        BY <2>2 DEF IInv, Typed
      <3> QED  BY <2>2, <3>1, Bystander
    <2> QED  BY <2>1, <2>2
  <1> QED  BY <1>1, <1>2, <1>3 DEF IInv

\* Nothing has moved and nothing is held.
THEOREM InitIInv == Init => IInv
  <1> SUFFICES ASSUME Init PROVE IInv
    OBVIOUS
  <1>1. Idle \in Moves /\ Idle.at = "idle"
    BY DEF Idle, Moves, States
  <1>2. Typed
    BY <1>1 DEF Init, Typed
  <1>3. OwnedNeverNegative
    BY DEF Init, OwnedNeverNegative, Locations
  <1>4. ASSUME NEW s \in Sessions PROVE Sound(s) /\ SourceOK(s) /\ TargetOK(s)
    <2>1. session[s].at = "idle"
      BY <1>1 DEF Init
    <2> QED  BY <2>1 DEF Sound, SourceOK, TargetOK, HasTaken, HasPut
  <1> QED  BY <1>2, <1>3, <1>4 DEF IInv

\* A checked request, whatever it read.
LEMMA RequestIInv ==
    ASSUME IInv, NEW s \in Sessions, NEW f \in Locations, NEW t \in Locations,
           NEW q \in Quantities, NEW p \in Prices, Request(s, f, t, q, p)
    PROVE  IInv'
  <1> DEFINE m == [at |-> "read", id |-> 0, from |-> f, to |-> t, qty |-> q,
                   left |-> 0, arrived |-> 0]
  <1>1. m \in Moves
    BY StockAssumption DEF Moves, States
  <1>2. session' = [session EXCEPT ![s] = m] /\ f # t
    BY DEF Request
  <1>3. holder' = holder /\ quant' = quant /\ begun' = begun
    BY DEF Request, stock
  <1>4. session'[s] = m
    BY <1>2 DEF IInv, Typed
  <1>5. Sound(s)' /\ SourceOK(s)' /\ TargetOK(s)'
    BY <1>2, <1>4 DEF Sound, SourceOK, TargetOK, HasTaken, HasPut
  <1> HIDE DEF m
  <1> QED  BY <1>1, <1>2, <1>3, <1>5, OneMove DEF IInv, Typed

\* A move that has taken nothing yet goes on to another such state.
LEMMA QuietIInv ==
    ASSUME IInv, NEW s \in Sessions, session[s].at \in {"read", "layers"},
           NEW a \in {"layers", "costed"}, NEW n \in Int,
           session' = [session EXCEPT ![s] = [session[s] EXCEPT !.at = a, !.id = n]],
           holder' = holder, quant' = quant, begun' \in Int
    PROVE  IInv'
  <1> DEFINE m == [session[s] EXCEPT !.at = a, !.id = n]
  <1>1. session[s] \in Moves
    BY DEF IInv, Typed
  <1>2. /\ m \in Moves /\ m.at = a /\ m.from = session[s].from
        /\ m.to = session[s].to /\ m.qty = session[s].qty
    BY <1>1 DEF Moves, States
  <1>3. session'[s] = m
    BY DEF IInv, Typed
  <1> HIDE DEF m
  <1>4. Sound(s)
    BY DEF IInv
  <1>5. Sound(s)' /\ SourceOK(s)' /\ TargetOK(s)'
    BY <1>2, <1>3, <1>4 DEF Sound, SourceOK, TargetOK, HasTaken, HasPut
  <1>6. session' = [session EXCEPT ![s] = m]
    BY DEF m
  <1> QED  BY <1>2, <1>5, <1>6, OneMove DEF IInv, Typed

\* The costing of a move touches no quantity.
LEMMA CostIInv ==
    ASSUME IInv, NEW s \in Sessions,
           CostReceipt(s) \/ CostTransfer(s) \/ LookAtLayers(s) \/ LockLayers(s)
    PROVE  IInv'
  <1>1. session[s] \in Moves
    BY DEF IInv, Typed
  <1>2. CASE CostReceipt(s) \/ CostTransfer(s) \/ LookAtLayers(s)
    <2>1. PICK a \in {"layers", "costed"} : Open(s, a)
      BY <1>2 DEF CostReceipt, CostTransfer, LookAtLayers
    <2>2. session' = [session EXCEPT ![s] = [session[s] EXCEPT !.at = a, !.id = begun + 1]]
      BY <2>1, <1>1 DEF Open, IInv, Typed, Moves
    <2>3. /\ session[s].at = "read" /\ holder' = holder /\ quant' = quant
          /\ begun + 1 \in Int /\ begun' \in Int
      BY <2>1 DEF Open, stock, IInv, Typed
    <2> HIDE DEF IInv
    <2> QED  BY <2>2, <2>3, QuietIInv
  <1>3. CASE LockLayers(s)
    <2>1. /\ session[s].at = "layers" /\ Goto(s, "costed")
          /\ holder' = holder /\ quant' = quant /\ begun' = begun
      BY <1>3 DEF LockLayers, Spend, stock
    <2>2. session' = [session EXCEPT ![s] = [session[s] EXCEPT !.at = "costed", !.id = session[s].id]]
      BY <2>1, <1>1 DEF Goto, IInv, Typed, Moves
    <2> QED  BY <2>1, <2>2, <1>1, QuietIInv DEF IInv, Typed, Moves
  <1> QED  BY <1>2, <1>3

-----------------------------------------------------------------------------
\* A lock leaves every other move's rows as they were, and what the session
\* that asked for it will write is worked out from the row it holds, or from
\* nothing.
LEMMA LockHolds ==
    ASSUME IInv, NEW s \in Sessions, NEW l \in Locations, NEW m \in Moves,
           Lock(s, l, m)
    PROVE  /\ session' = [session EXCEPT ![s] = m] /\ quant' = quant /\ begun' = begun
           /\ holder' \in [Locations \cup {Item} -> Sessions \cup {Nil}]
           /\ \A t \in Sessions \ {s}, r \in Locations : holder'[r] = t <=> holder[r] = t
           /\ \A r \in Locations : holder[r] = s => holder'[r] = s
           /\ quant[l] = IF holder'[l] = s THEN quant[l] ELSE 0
  <1>1. CASE quant[l] # 0 /\ RowFree(l, s) /\ holder' = [holder EXCEPT ![l] = s]
    BY <1>1, StockAssumption DEF Lock, RowFree, IInv, Typed, stock
  <1>2. CASE quant[l] = 0 /\ UNCHANGED holder
    BY <1>2 DEF Lock, IInv, Typed, stock
  <1> QED  BY <1>1, <1>2 DEF Lock

\* Taking from the source: the floor is checked on the row that was locked.
LEMMA LockSourceIInv ==
    ASSUME IInv, NEW s \in Sessions, LockSource(s)
    PROVE  IInv'
  <1> DEFINE left == quant[session[s].from] - session[s].qty
             m == [session[s] EXCEPT !.at = "taken", !.left = left]
  <1>1. /\ session[s] \in Moves /\ session[s].at = "costed" /\ Sound(s)
        /\ session[s].from \in Owned => quant[session[s].from] >= session[s].qty
        /\ Lock(s, session[s].from, m)
    BY DEF LockSource, IInv, Typed
  <1>2. session[s].from \in Locations /\ session[s].qty \in Int /\ quant[session[s].from] \in Int
    BY <1>1 DEF Sound, Moves, IInv, Typed
  <1>a. left \in Int
    BY <1>2
  <1>3. /\ m \in Moves /\ m.at = "taken" /\ m.from = session[s].from
        /\ m.to = session[s].to /\ m.qty = session[s].qty /\ m.left = left
    <2> HIDE DEF left
    <2> QED  BY <1>1, <1>a DEF Moves, States
  <1>4. session[s].from \in Owned => left >= 0
    BY <1>1, <1>2
  <1> HIDE DEF m
  <1>5. /\ session' = [session EXCEPT ![s] = m] /\ quant' = quant /\ begun' = begun
        /\ holder' \in [Locations \cup {Item} -> Sessions \cup {Nil}]
        /\ \A t \in Sessions \ {s}, r \in Locations : holder'[r] = t <=> holder[r] = t
        /\ quant[session[s].from] = IF holder'[session[s].from] = s THEN quant[session[s].from] ELSE 0
    BY <1>1, <1>2, <1>3, LockHolds, Zenon
  <1>6. session'[s] = m
    BY <1>5 DEF IInv, Typed
  <1>7. Sound(s)'
    BY <1>1, <1>3, <1>6 DEF Sound
  <1>8. SourceOK(s)'
    BY <1>3, <1>4, <1>5, <1>6 DEF SourceOK, HasTaken, HasLeft
  <1>9. TargetOK(s)'
    BY <1>3, <1>6 DEF TargetOK, HasPut
  <1>b. begun' \in Int
    BY <1>5 DEF IInv, Typed
  <1> QED  BY <1>3, <1>5, <1>7, <1>8, <1>9, <1>b, OneMove

\* Putting at the target, a different row.
LEMMA LockTargetIInv ==
    ASSUME IInv, NEW s \in Sessions, LockTarget(s)
    PROVE  IInv'
  <1> DEFINE arrived == quant[session[s].to] + session[s].qty
             m == [session[s] EXCEPT !.at = "put", !.arrived = arrived]
  <1>1. /\ session[s] \in Moves /\ session[s].at = "source" /\ Sound(s) /\ SourceOK(s)
        /\ Lock(s, session[s].to, m)
    BY DEF LockTarget, IInv, Typed
  <1>2. /\ session[s].from \in Locations
        /\ session[s].to \in Locations /\ session[s].qty \in Int /\ quant[session[s].to] \in Int
    BY <1>1 DEF Sound, Moves, IInv, Typed
  <1>a. arrived \in Int
    BY <1>2
  <1>3. /\ m \in Moves /\ m.at = "put" /\ m.from = session[s].from
        /\ m.to = session[s].to /\ m.qty = session[s].qty
        /\ m.left = session[s].left /\ m.arrived = arrived
    <2> HIDE DEF arrived
    <2> QED  BY <1>1, <1>a DEF Moves, States
  <1> HIDE DEF m
  <1>5. /\ session' = [session EXCEPT ![s] = m] /\ quant' = quant /\ begun' = begun
        /\ holder' \in [Locations \cup {Item} -> Sessions \cup {Nil}]
        /\ \A t \in Sessions \ {s}, r \in Locations : holder'[r] = t <=> holder[r] = t
        /\ \A r \in Locations : holder[r] = s => holder'[r] = s
        /\ quant[session[s].to] = IF holder'[session[s].to] = s THEN quant[session[s].to] ELSE 0
    BY <1>1, <1>2, <1>3, LockHolds, Zenon
  <1>6. session'[s] = m
    BY <1>5 DEF IInv, Typed
  <1>7. Sound(s)'
    BY <1>1, <1>3, <1>6 DEF Sound
  <1>8. SourceOK(s)'
    BY <1>1, <1>2, <1>3, <1>5, <1>6 DEF SourceOK, HasTaken, HasLeft
  <1>9. TargetOK(s)'
    BY <1>3, <1>5, <1>6 DEF TargetOK, HasPut, HasArrived
  <1>b. begun' \in Int
    BY <1>5 DEF IInv, Typed
  <1> QED  BY <1>3, <1>5, <1>7, <1>8, <1>9, <1>b, OneMove

\* A write: the row is held from here on, and what is written there is still
\* off or on top of the committed quantity.
LEMMA WriteIInv ==
    ASSUME IInv, NEW s \in Sessions, WriteSource(s) \/ WriteTarget(s)
    PROVE  IInv'
  <1>1. PICK l \in {session[s].from, session[s].to}, a \in {"source", "shifted"} :
          /\ WriteAt(s, l, a)
          /\ \/ a = "source" /\ session[s].at = "taken" /\ l = session[s].from
             \/ a = "shifted" /\ session[s].at = "put" /\ l = session[s].to
    BY DEF WriteSource, WriteTarget
  <1> DEFINE m == [session[s] EXCEPT !.at = a]
  <1>2. session[s] \in Moves /\ Sound(s) /\ SourceOK(s) /\ TargetOK(s)
    BY DEF IInv, Typed
  <1>3. /\ session[s].from \in Locations /\ session[s].to \in Locations
        /\ session[s].from # session[s].to /\ l \in Locations
    BY <1>1, <1>2 DEF Sound
  <1>4. /\ m \in Moves /\ m.at = a /\ m.from = session[s].from /\ m.to = session[s].to
        /\ m.qty = session[s].qty /\ m.left = session[s].left /\ m.arrived = session[s].arrived
    BY <1>1, <1>2 DEF Moves, States
  <1>5. session' = [session EXCEPT ![s] = m]
    BY <1>1, <1>2 DEF WriteAt, Goto, Moves, IInv, Typed
  <1> HIDE DEF m
  <1>6. /\ quant' = quant /\ begun' = begun /\ holder' = [holder EXCEPT ![l] = s]
        /\ holder[l] \in {Nil, s} /\ (holder[l] # s => quant[l] = 0)
    BY <1>1 DEF WriteAt, RowFree, stock
  <1>7. /\ holder' \in [Locations \cup {Item} -> Sessions \cup {Nil}]
        /\ \A t \in Sessions \ {s}, r \in Locations : holder'[r] = t <=> holder[r] = t
        /\ \A r \in Locations : r # l => holder'[r] = holder[r]
        /\ holder'[l] = s
        /\ begun' \in Int /\ session'[s] = m
    BY <1>3, <1>5, <1>6, StockAssumption DEF IInv, Typed
  <1>8. Sound(s)'
    BY <1>1, <1>2, <1>4, <1>7 DEF Sound
  <1>9. SourceOK(s)'
    BY <1>1, <1>2, <1>3, <1>4, <1>6, <1>7 DEF SourceOK, HasTaken, HasLeft
  <1>10. TargetOK(s)'
    BY <1>1, <1>2, <1>3, <1>4, <1>6, <1>7 DEF TargetOK, HasPut, HasArrived
  <1> QED  BY <1>4, <1>5, <1>6, <1>7, <1>8, <1>9, <1>10, OneMove

\* Settling and posting: the only row that may be locked is the item's.
LEMMA SettleIInv ==
    ASSUME IInv, NEW s \in Sessions, Settle(s) \/ Post(s)
    PROVE  IInv'
  <1>1. PICK a \in {"settled", "posted"} :
          /\ Goto(s, a) /\ session[s].at \in {"shifted", "settled"}
          /\ quant' = quant /\ begun' = begun
          /\ holder' = holder \/ (RowFree(Item, s) /\ holder' = [holder EXCEPT ![Item] = s])
    BY DEF Settle, Post, stock
  <1> DEFINE m == [session[s] EXCEPT !.at = a]
  <1>2. session[s] \in Moves /\ Sound(s) /\ SourceOK(s) /\ TargetOK(s)
    BY DEF IInv, Typed
  <1>3. session[s].from \in Locations /\ session[s].to \in Locations
    BY <1>1, <1>2 DEF Sound
  <1>4. /\ m \in Moves /\ m.at = a /\ m.from = session[s].from /\ m.to = session[s].to
        /\ m.qty = session[s].qty /\ m.left = session[s].left /\ m.arrived = session[s].arrived
    BY <1>1, <1>2 DEF Moves, States
  <1>5. session' = [session EXCEPT ![s] = m]
    BY <1>1, <1>2 DEF Goto, Moves, IInv, Typed
  <1> HIDE DEF m
  <1>6. /\ holder' \in [Locations \cup {Item} -> Sessions \cup {Nil}]
        /\ \A r \in Locations : holder'[r] = holder[r]
        /\ begun' \in Int /\ session'[s] = m
    BY <1>1, <1>5, StockAssumption DEF IInv, Typed
  <1>7. Sound(s)'
    BY <1>1, <1>2, <1>4, <1>6 DEF Sound
  <1>8. SourceOK(s)'
    BY <1>1, <1>2, <1>3, <1>4, <1>6 DEF SourceOK, HasTaken, HasLeft
  <1>9. TargetOK(s)'
    BY <1>1, <1>2, <1>3, <1>4, <1>6 DEF TargetOK, HasPut, HasArrived
  <1> QED  BY <1>1, <1>4, <1>5, <1>6, <1>7, <1>8, <1>9, OneMove

-----------------------------------------------------------------------------
\* What a commit writes: exactly what the move carries, off one row and onto
\* the other, both of them its own.
LEMMA CommitCarries ==
    ASSUME IInv, NEW s \in Sessions, Commit(s)
    PROVE  /\ session[s].from \in Locations /\ session[s].to \in Locations
           /\ session[s].from # session[s].to /\ session[s].qty \in Quantities
           /\ holder[session[s].from] = s /\ holder[session[s].to] = s
           /\ session[s].from \in Owned => quant[session[s].from] >= session[s].qty
           /\ session[s].left = quant[session[s].from] - session[s].qty
           /\ session[s].arrived = quant[session[s].to] + session[s].qty
           /\ quant' = [quant EXCEPT ![session[s].from] = session[s].left,
                                    ![session[s].to] = session[s].arrived]
           /\ quant' \in [Locations -> Int]
  <1>1. session[s] \in Moves /\ Sound(s) /\ SourceOK(s) /\ TargetOK(s) /\ session[s].at = "posted"
    BY DEF IInv, Typed, Commit
  <1>2. /\ session[s].from \in Locations /\ session[s].to \in Locations
        /\ session[s].from # session[s].to /\ session[s].qty \in Quantities
    BY <1>1 DEF Sound
  <1>3. /\ session[s].qty \in Int /\ session[s].left \in Int /\ session[s].arrived \in Int
        /\ quant[session[s].from] \in Int /\ quant[session[s].to] \in Int
    BY <1>1, <1>2 DEF Moves, IInv, Typed
  <1>4. /\ holder[session[s].from] = s
        /\ session[s].from \in Owned => session[s].left >= 0
        /\ session[s].left = quant[session[s].from] - session[s].qty
    BY <1>1 DEF SourceOK, HasTaken, HasLeft
  <1>5. /\ holder[session[s].to] = s
        /\ session[s].arrived = quant[session[s].to] + session[s].qty
    BY <1>1 DEF TargetOK, HasPut, HasArrived
  <1>6. quant' = [quant EXCEPT ![session[s].from] = session[s].left,
                             ![session[s].to] = session[s].arrived]
    BY DEF Commit
  <1>7. session[s].from \in Owned => quant[session[s].from] >= session[s].qty
    BY <1>3, <1>4
  <1>8. quant' \in [Locations -> Int]
    BY <1>3, <1>6 DEF IInv, Typed
  <1> QED  BY <1>2, <1>4, <1>5, <1>6, <1>7, <1>8

\* The end of a transaction, either way: the session is idle and holds nothing,
\* and the rows of every other session are as they were.
LEMMA ReleaseIInv ==
    ASSUME IInv, NEW s \in Sessions, Release(s), begun' = begun,
           quant' \in [Locations -> Int],
           \A l \in Owned : quant'[l] >= 0,
           \A r \in Locations : holder[r] # s => quant'[r] = quant[r]
    PROVE  IInv'
  <1>1. Idle \in Moves /\ Idle.at = "idle"
    BY DEF Idle, Moves, States
  <1>2. /\ session' = [session EXCEPT ![s] = Idle]
        /\ holder' = [r \in DOMAIN holder |-> IF holder[r] = s THEN Nil ELSE holder[r]]
    BY DEF Release
  <1>3. /\ session'[s] = Idle
        /\ \A t \in Sessions \ {s} : session'[t] = session[t]
        /\ \A t \in Sessions \ {s}, r \in Locations : holder'[r] = t <=> holder[r] = t
    BY <1>2, StockAssumption DEF IInv, Typed
  <1>4. Typed'
    BY <1>1, <1>2 DEF IInv, Typed
  <1>5. OwnedNeverNegative'
    BY DEF OwnedNeverNegative
  <1>6. ASSUME NEW t \in Sessions PROVE Sound(t)' /\ SourceOK(t)' /\ TargetOK(t)'
    <2>1. CASE t = s
      BY <1>1, <1>3, <2>1 DEF Sound, SourceOK, TargetOK, HasTaken, HasPut
    <2>2. CASE t # s
      <3>1. \A r \in Locations : holder[r] = t => quant'[r] = quant[r]
        BY <2>2
      <3> QED  BY <1>3, <2>2, <3>1, Bystander
    <2> QED  BY <2>1, <2>2
  <1> QED  BY <1>4, <1>5, <1>6 DEF IInv

LEMMA CommitIInv ==
    ASSUME IInv, NEW s \in Sessions, Commit(s)
    PROVE  IInv'
  <1>1. Release(s) /\ begun' = begun
    BY DEF Commit
  <1>2. quant' \in [Locations -> Int]
    BY CommitCarries
  <1>3. \A r \in Locations : holder[r] # s => quant'[r] = quant[r]
    BY CommitCarries DEF IInv, Typed
  <1>4. ASSUME NEW l \in Owned PROVE quant'[l] >= 0
    <2>1. l \in Locations /\ quant[l] \in Int /\ quant[l] >= 0
      BY DEF Locations, IInv, Typed, OwnedNeverNegative
    <2>2. session[s].qty \in Nat
      BY CommitCarries, StockAssumption
    <2>3. CASE l = session[s].from
      BY <2>1, <2>2, <2>3, CommitCarries DEF IInv, Typed
    <2>4. CASE l = session[s].to
      BY <2>1, <2>2, <2>4, CommitCarries DEF IInv, Typed
    <2>5. CASE l # session[s].from /\ l # session[s].to
      BY <2>1, <2>5, CommitCarries DEF IInv, Typed
    <2> QED  BY <2>3, <2>4, <2>5
  <1> QED  BY <1>1, <1>2, <1>3, <1>4, ReleaseIInv

LEMMA FailIInv ==
    ASSUME IInv, NEW s \in Sessions, Fail(s)
    PROVE  IInv'
  <1>1. Release(s) /\ begun' = begun /\ quant' = quant
    BY DEF Fail, stock
  <1> QED  BY <1>1, ReleaseIInv DEF IInv, Typed, OwnedNeverNegative

\* Every step of every session keeps the invariant.
THEOREM StepIInv == IInv /\ [Next]_vars => IInv'
  <1> SUFFICES ASSUME IInv, [Next]_vars PROVE IInv'
    OBVIOUS
  <1>1. CASE UNCHANGED vars
    BY <1>1 DEF vars, stock, IInv, Typed, OwnedNeverNegative, Sound, SourceOK, TargetOK
  <1>2. ASSUME NEW s \in Sessions, Step(s) PROVE IInv'
    <2>1. CASE \E f, t \in Locations, q \in Quantities, p \in Prices : Request(s, f, t, q, p)
      BY <2>1, RequestIInv
    <2>2. CASE CostReceipt(s) \/ CostTransfer(s) \/ LookAtLayers(s) \/ LockLayers(s)
      BY <2>2, CostIInv
    <2>3. CASE LockSource(s)
      BY <2>3, LockSourceIInv
    <2>4. CASE WriteSource(s) \/ WriteTarget(s)
      BY <2>4, WriteIInv
    <2>5. CASE LockTarget(s)
      BY <2>5, LockTargetIInv
    <2>6. CASE Settle(s) \/ Post(s)
      BY <2>6, SettleIInv
    <2>7. CASE Commit(s)
      BY <2>7, CommitIInv
    <2>8. CASE Fail(s)
      BY <2>8, FailIInv
    <2> QED  BY <1>2, <2>1, <2>2, <2>3, <2>4, <2>5, <2>6, <2>7, <2>8 DEF Step
  <1> QED  BY <1>1, <1>2 DEF Next

THEOREM InvariantHolds == Spec => []IInv
  BY InitIInv, StepIInv, PTL DEF Spec

\* No interleaving of moves takes a location of ours below nothing: the floor
\* quant::take checks under the source's lock still stands when the move commits.
THEOREM NeverBelowNothing == Spec => []OwnedNeverNegative
  <1>1. IInv => OwnedNeverNegative
    BY DEF IInv
  <1> QED  BY <1>1, InvariantHolds, PTL

\* A step of the ledger is a whole move of the book, or changes no quantity.
LEMMA StepCarries == IInv /\ [Next]_vars => [Book!Next]_quant
  <1> SUFFICES ASSUME IInv, [Next]_vars, quant' # quant PROVE Book!Next
    OBVIOUS
  <1>1. PICK s \in Sessions : Step(s)
    BY DEF vars, stock, Next
  <1>2. Commit(s)
    BY <1>1 DEF Step, Request, CostReceipt, CostTransfer, LookAtLayers, LockLayers, Spend, Open,
         LockSource, Lock, WriteSource, LockTarget, WriteTarget, WriteAt, Settle, Post, Fail, stock
  <1> DEFINE f == session[s].from  t == session[s].to  n == session[s].qty
  <1>3. /\ f \in Locations /\ t \in Locations /\ f # t /\ n \in Quantities
        /\ f \in Owned => quant[f] >= n
        /\ quant' = [quant EXCEPT ![f] = quant[f] - n, ![t] = quant[t] + n]
    BY <1>2, CommitCarries
  <1> HIDE DEF f, t, n
  <1>4. quant' = [quant EXCEPT ![f] = @ - n, ![t] = @ + n]
    BY <1>3 DEF IInv, Typed
  <1>5. Book!Carry(f, t, n)
    BY <1>3, <1>4 DEF Book!Carry
  <1> QED  BY <1>3, <1>5 DEF Book!Next

\* The stock ledger implements the book: whatever the locks, the inserts and the
\* rollbacks, the committed quantities change by one whole move at a time.
THEOREM ImplementsBook == Spec => BookSpec
  <1>1. Init => Book!Init
    BY DEF Init, Book!Init
  <1> QED  BY <1>1, StepCarries, InvariantHolds, PTL DEF Spec, BookSpec, Book!Spec
-----------------------------------------------------------------------------
(***************************************************************************)
(* The layers and the stock account.  What the invariant says beside IInv: *)
(* a move's number is its own and names no layer before it commits, what   *)
(* it spends of a layer is there to spend and in rows nobody else holds,   *)
(* what it is worth is what it spends, and the journals that bear its      *)
(* number are the one it posted.                                           *)
(***************************************************************************)
Spending  == HasTaken \cup {"costed"}
Opened(s) == session[s].at \notin {"idle", "read"}

Costings == [price : Nat, seen : SUBSET Ids, open : SUBSET Ids, rows : SUBSET Ids,
             takes : [Ids -> Nat], worth : Nat, blend : SUBSET Ids]

LedgerTyped ==
    /\ layers \in [Ids -> [qty : Nat, left : Nat, price : Nat]]
    /\ \A i \in Ids : layers[i].left <= layers[i].qty
    /\ cost \in SUBSET Ids /\ moved \in SUBSET Ids
    /\ journals \in SUBSET [move : Ids, value : Int] /\ IsFiniteSet(journals)
    /\ begun \in 0..MaxMoves
    /\ costing \in [Sessions -> Costings]

\* A lock belongs to a move that is under way.
Held == \A r \in Locations \cup {Item} : holder[r] # Nil => session[holder[r]].at # "idle"

\* No layer is held twice.
Apart == \A s, t \in Sessions : s # t => costing[s].rows \cap costing[t].rows = {}

\* No two moves under way have one number, and nothing has a number no move has had.
Ages ==
    /\ \A s, t \in Sessions :
         Opened(s) /\ Opened(t) /\ session[s].id = session[t].id => s = t
    /\ \A i \in Ids : i > begun => layers[i] = NoLayer /\ i \notin moved
    /\ \A j \in journals : j.move <= begun

\* A move under way has a number, and has not happened.
AgeOK(s) ==
    Opened(s) =>
        /\ session[s].id \in 1..begun
        /\ session[s].id \notin moved
        /\ layers[session[s].id] = NoLayer

\* It spends what is there, of rows it holds, and only an issue spends.
TakesOK(s) ==
    /\ \A i \in Ids : costing[s].takes[i] <= layers[i].left
    /\ \A i \in Ids : i \notin costing[s].rows => costing[s].takes[i] = 0
    /\ session[s].at \notin Spending \/ ~ValueOut(s) => costing[s].rows = {}
    /\ session[s].at = "layers" => ValueOut(s)

\* What it spends of each layer, at that layer's price.
Paid(s) == [i \in Ids |-> costing[s].takes[i] * layers[i].price]

WorthOK(s) ==
    session[s].at \in Spending =>
        /\ ValueIn(s) => costing[s].worth = session[s].qty * costing[s].price
        /\ ValueOut(s) /\ Method = "fifo" =>
             /\ SumOf(costing[s].takes, Ids) = session[s].qty
             /\ costing[s].worth = SumOf(Paid(s), Ids)

\* What its journal adds to the stock accounts.
Net(s) == IF ValueIn(s) THEN costing[s].worth
          ELSE IF ValueOut(s) THEN 0 - costing[s].worth ELSE 0

JournalsOf(i) == {j \in journals : j.move = i}

JournalOK(s) ==
    Opened(s) =>
        JournalsOf(session[s].id) =
            IF session[s].at = "posted" /\ Posts(s)
            THEN {[move |-> session[s].id, value |-> Net(s)]} ELSE {}

BooksOK(s) == AgeOK(s) /\ TakesOK(s) /\ WorthOK(s) /\ JournalOK(s)

LInv ==
    /\ IInv
    /\ LedgerTyped
    /\ Held
    /\ Apart
    /\ Ages
    /\ \A s \in Sessions : BooksOK(s)

-----------------------------------------------------------------------------
\* The layers are finitely many.
LEMMA FewLayers == IsFiniteSet(Ids) /\ Ids \in SUBSET Nat
  BY StockAssumption, FS_Interval DEF Ids

\* The lesser and the greater of two numbers.
LEMMA LesserOfTwo ==
    ASSUME NEW a \in Int, NEW b \in Int
    PROVE  Min({a, b}) = IF a <= b THEN a ELSE b
  <1> DEFINE m == IF a <= b THEN a ELSE b
  <1>1. m \in {a, b} /\ \A y \in {a, b} : m <= y
    OBVIOUS
  <1>2. \A x \in {a, b} : (\A y \in {a, b} : x <= y) => x = m
    OBVIOUS
  <1> QED  BY <1>1, <1>2 DEF Min

LEMMA GreaterOfTwo ==
    ASSUME NEW a \in Int, NEW b \in Int
    PROVE  Max({a, b}) = IF a >= b THEN a ELSE b
  <1> DEFINE m == IF a >= b THEN a ELSE b
  <1>1. m \in {a, b} /\ \A y \in {a, b} : m >= y
    OBVIOUS
  <1>2. \A x \in {a, b} : (\A y \in {a, b} : x >= y) => x = m
    OBVIOUS
  <1> QED  BY <1>1, <1>2 DEF Max

\* What an issue takes from a layer, spelled out.
LEMMA TakenMeans ==
    ASSUME LedgerTyped, NEW S \in SUBSET Ids, NEW q \in Nat, NEW i \in Ids
    PROVE  LET older == SumOf(Left, {j \in S : j < i})
               rest  == IF q <= older THEN 0 ELSE q - older
           IN  /\ older \in Nat
               /\ Taken(S, q, i) = IF layers[i].left <= rest THEN layers[i].left ELSE rest
               /\ Taken(S, q, i) \in Nat
               /\ Taken(S, q, i) <= layers[i].left
  <1> DEFINE older == SumOf(Left, {j \in S : j < i})
             rest  == IF q <= older THEN 0 ELSE q - older
  <1>1. \A j \in Ids : Left[j] \in Nat /\ layers[j].left \in Nat
    BY DEF Left, LedgerTyped
  <1>2. older \in Nat
    <2>1. IsFiniteSet({j \in S : j < i})
      BY FewLayers, FS_Subset
    <2>2. \A j \in {j \in S : j < i} : Left[j] \in Nat
      BY <1>1
    <2> QED  BY <2>1, <2>2, SumNat
  <1>3. Taken(S, q, i) = Min({layers[i].left, Max({q - older, 0})})
    BY DEF Taken
  <1> HIDE DEF older
  <1>4. Max({q - older, 0}) = rest
    BY <1>2, GreaterOfTwo
  <1>5. Min({layers[i].left, rest}) = IF layers[i].left <= rest THEN layers[i].left ELSE rest
    BY <1>1, <1>2, LesserOfTwo
  <1>6. Taken(S, q, i) = IF layers[i].left <= rest THEN layers[i].left ELSE rest
    BY <1>3, <1>4, <1>5
  <1>7. Taken(S, q, i) \in Nat /\ Taken(S, q, i) <= layers[i].left
    BY <1>1, <1>2, <1>6
  <1> QED  BY <1>2, <1>6, <1>7 DEF older

\* Down to any layer, an issue has taken all there was, or all it wanted.
LEMMA TakenDownTo ==
    ASSUME LedgerTyped, NEW S \in SUBSET Ids, NEW q \in Nat, NEW n \in Nat
    PROVE  LET upTo == {j \in S : j <= n}
               have == SumOf(Left, upTo)
           IN  /\ have \in Nat
               /\ SumOf([i \in Ids |-> Taken(S, q, i)], upTo) = IF q <= have THEN q ELSE have
  <1> DEFINE taken == [i \in Ids |-> Taken(S, q, i)]
             upTo(k) == {j \in S : j <= k}
             have(k) == SumOf(Left, upTo(k))
             Good(k) == SumOf(taken, upTo(k)) = IF q <= have(k) THEN q ELSE have(k)
             Bad == {k \in Nat : ~Good(k)}
  <1>0. \A j \in S : j \in Nat /\ 1 <= j
    BY StockAssumption DEF Ids
  <1>1. \A j \in Ids : Left[j] \in Nat /\ Left[j] = layers[j].left
    BY DEF Left, LedgerTyped
  <1>2. \A j \in Ids : taken[j] = Taken(S, q, j) /\ taken[j] \in Nat
    BY TakenMeans
  <1>3. ASSUME NEW k \in Nat PROVE IsFiniteSet(upTo(k)) /\ have(k) \in Nat
    <2>1. IsFiniteSet(upTo(k)) /\ upTo(k) \in SUBSET Ids
      BY FewLayers, FS_Subset
    <2>2. \A j \in upTo(k) : Left[j] \in Nat
      BY <1>1
    <2> HIDE DEF upTo
    <2> QED  BY <2>1, <2>2, SumNat
  <1>4. Good(0)
    <2>1. upTo(0) = {}
      BY <1>0
    <2> QED  BY <2>1, SumEmpty
  <1>5. ASSUME NEW k \in Nat, Good(k) PROVE Good(k + 1)
    <2>1. CASE k + 1 \notin S
      <3>1. upTo(k + 1) = upTo(k)
        <4>1. \A j \in S : j <= k + 1 <=> j <= k
          BY <1>0, <2>1
        <4> QED  BY <4>1
      <3> QED  BY <1>5, <3>1
    <2>2. CASE k + 1 \in S
      <3> DEFINE i == k + 1
      <3>1. upTo(i) = upTo(k) \cup {i} /\ i \notin upTo(k) /\ i \in Ids
        <4>1. \A j \in S : j <= k + 1 <=> j <= k \/ j = k + 1
          BY <1>0
        <4> QED  BY <2>2, <4>1
      <3>2. {j \in S : j < i} = upTo(k)
        <4>1. \A j \in S : j < k + 1 <=> j <= k
          BY <1>0
        <4> QED  BY <4>1
      <3>3. IsFiniteSet(upTo(k)) /\ have(k) \in Nat
        BY <1>3
      <3>4. taken[i] = IF layers[i].left <= (IF q <= have(k) THEN 0 ELSE q - have(k))
                       THEN layers[i].left ELSE IF q <= have(k) THEN 0 ELSE q - have(k)
        BY <1>2, <3>1, <3>2, TakenMeans
      <3>5. \A j \in upTo(k) \cup {i} : Left[j] \in Int /\ taken[j] \in Int
        BY <1>1, <1>2, <3>1
      <3> HIDE DEF taken, upTo, i
      <3>6. SumOf(taken, upTo(k) \cup {i}) = taken[i] + SumOf(taken, upTo(k))
        BY <3>1, <3>3, <3>5, SumAdd
      <3>7. SumOf(Left, upTo(k) \cup {i}) = Left[i] + SumOf(Left, upTo(k))
        BY <3>1, <3>3, <3>5, SumAdd
      <3>8. layers[i].left \in Nat /\ Left[i] = layers[i].left
        BY <1>1, <3>1
      <3>9. Good(i)
        BY <1>5, <3>1, <3>3, <3>4, <3>6, <3>7, <3>8
      <3> QED  BY <3>9 DEF i
    <2> QED  BY <2>1, <2>2
  <1>6. Bad = {}
    <2> SUFFICES ASSUME Bad # {} PROVE FALSE
      OBVIOUS
    <2>1. PICK k \in Bad : \A y \in Bad : k <= y
      <3>1. Bad \in SUBSET Nat
        OBVIOUS
      <3> HIDE DEF Bad
      <3> QED  BY <3>1, LeastNumber
    <2>2. k # 0 /\ k \in Nat /\ ~Good(k)
      <3> HIDE DEF Good
      <3> QED  BY <1>4
    <2> HIDE DEF Good
    <2>3. k - 1 \in Nat /\ k - 1 \notin Bad /\ (k - 1) + 1 = k
      BY <2>1, <2>2
    <2>4. Good(k - 1)
      BY <2>3
    <2>5. Good((k - 1) + 1)
      BY <1>5, <2>3, <2>4
    <2> QED  BY <2>2, <2>3, <2>5
  <1>7. Good(n)
    <2> HIDE DEF Good
    <2> QED  BY <1>6
  <1> QED  BY <1>3, <1>7

\* Where the layers it locked cover an issue it takes of them what it carries,
\* no more of any than is left, and of the others nothing.
LEMMA SpentIsAll ==
    ASSUME LedgerTyped, NEW S \in SUBSET Ids, NEW q \in Nat
    PROVE  /\ Spent(S, q) \in [Ids -> Nat]
           /\ \A i \in Ids : Spent(S, q)[i] <= layers[i].left
           /\ \A i \in Ids \ S : Spent(S, q)[i] = 0
           /\ Covered(S, q) => SumOf(Spent(S, q), Ids) = q
  <1> DEFINE e == Spent(S, q)
  <1>1. \A i \in Ids : e[i] = IF i \in S /\ Covered(S, q) THEN Taken(S, q, i) ELSE 0
    BY DEF Spent
  <1>2. \A i \in Ids : layers[i].left \in Nat
    BY DEF LedgerTyped
  <1>3. \A i \in Ids : Taken(S, q, i) \in Nat /\ Taken(S, q, i) <= layers[i].left
    BY TakenMeans
  <1>4. ASSUME NEW i \in Ids PROVE e[i] \in Nat /\ e[i] <= layers[i].left
    <2> HIDE DEF e
    <2> QED  BY <1>1, <1>2, <1>3
  <1>5. e \in [Ids -> Nat]
    <2>1. e = [i \in Ids |-> e[i]]
      BY DEF Spent
    <2> HIDE DEF e
    <2> QED  BY <1>4, <2>1
  <1>6. ASSUME Covered(S, q) PROVE SumOf(e, Ids) = q
    <2> DEFINE taken == [i \in Ids |-> Taken(S, q, i)]
    <2>1. S = {j \in S : j <= MaxMoves} /\ MaxMoves \in Nat
      <3>1. \A j \in S : j <= MaxMoves
        BY StockAssumption DEF Ids
      <3> QED  BY <3>1, StockAssumption
    <2>2. SumOf(Left, S) \in Nat /\ SumOf(taken, S) = IF q <= SumOf(Left, S) THEN q ELSE SumOf(Left, S)
      <3> HIDE DEF taken
      <3>1. SumOf(Left, {j \in S : j <= MaxMoves}) \in Nat
        BY <2>1, TakenDownTo
      <3>2. SumOf(taken, {j \in S : j <= MaxMoves})
              = IF q <= SumOf(Left, {j \in S : j <= MaxMoves}) THEN q
                ELSE SumOf(Left, {j \in S : j <= MaxMoves})
        BY <2>1, TakenDownTo DEF taken
      <3> QED  BY <2>1, <3>1, <3>2
    <2>3. SumOf(taken, S) = q
      BY <1>6, <2>2 DEF Covered
    <2>4. \A i \in S : e[i] = taken[i]
      BY <1>1, <1>6
    <2>5. IsFiniteSet(S) /\ IsFiniteSet(Ids)
      BY FewLayers, FS_Subset
    <2>6. \A i \in Ids : e[i] \in Int
      BY <1>4
    <2>7. \A i \in Ids \ S : e[i] = 0
      BY <1>1
    <2> HIDE DEF e, taken
    <2>8. SumOf(e, Ids) = SumOf(e, S)
      BY <2>5, <2>6, <2>7, SumSupport
    <2>9. SumOf(e, S) = SumOf(taken, S)
      BY <2>4, <2>5, SumSame
    <2> QED  BY <2>3, <2>8, <2>9
  <1>7. \A i \in Ids \ S : e[i] = 0
    BY <1>1
  <1> QED  BY <1>4, <1>5, <1>6, <1>7

-----------------------------------------------------------------------------
\* A move that takes no part in a step keeps what is said of it, as long as the
\* step leaves the layers it spends of and its number alone.
LEMMA BooksOfOthers ==
    ASSUME LInv, LedgerTyped', NEW t \in Sessions,
           session'[t] = session[t], costing'[t] = costing[t], begun' >= begun,
           \A i \in Ids : costing[t].takes[i] # 0 => layers'[i] = layers[i],
           Opened(t) => /\ layers'[session[t].id] = layers[session[t].id]
                        /\ session[t].id \notin moved'
                        /\ JournalsOf(session[t].id)' = JournalsOf(session[t].id)
    PROVE  BooksOK(t)'
  <1>1. AgeOK(t) /\ TakesOK(t) /\ WorthOK(t) /\ JournalOK(t)
    BY DEF LInv, BooksOK
  <1>2. /\ Opened(t)' = Opened(t) /\ ValueIn(t)' = ValueIn(t) /\ ValueOut(t)' = ValueOut(t)
        /\ Posts(t)' = Posts(t) /\ Net(t)' = Net(t)
    BY DEF Opened, ValueIn, ValueOut, Posts, Net
  <1>3. /\ costing[t] \in Costings /\ begun \in Int /\ begun' \in Int
        /\ \A i \in Ids : costing[t].takes[i] \in Nat
    BY DEF LInv, LedgerTyped, Costings
  <1>4. AgeOK(t)'
    BY <1>1, <1>2, <1>3 DEF AgeOK
  <1>5. TakesOK(t)'
    <2>1. \A i \in Ids : costing'[t].takes[i] <= layers'[i].left
      <3> SUFFICES ASSUME NEW i \in Ids PROVE costing[t].takes[i] <= layers'[i].left
        OBVIOUS
      <3>1. CASE costing[t].takes[i] = 0
        BY <3>1 DEF LedgerTyped
      <3>2. CASE costing[t].takes[i] # 0
        BY <1>1, <3>2 DEF TakesOK
      <3> QED  BY <3>1, <3>2
    <2> QED  BY <1>1, <1>2, <2>1 DEF TakesOK
  <1>6. Paid(t)' = Paid(t)
    <2>1. ASSUME NEW i \in Ids
          PROVE  costing'[t].takes[i] * layers'[i].price = costing[t].takes[i] * layers[i].price
      <3>1. CASE costing[t].takes[i] = 0
        BY <3>1 DEF LInv, LedgerTyped
      <3>2. CASE costing[t].takes[i] # 0
        BY <3>2
      <3> QED  BY <3>1, <3>2
    <2> QED  BY <2>1 DEF Paid
  <1>7. WorthOK(t)'
    BY <1>1, <1>2, <1>6 DEF WorthOK
  <1>8. JournalOK(t)'
    BY <1>1, <1>2 DEF JournalOK
  <1> QED  BY <1>4, <1>5, <1>7, <1>8 DEF BooksOK

\* A step that commits no quantity and changes no layer: what its move then
\* says of itself must be shown of it alone.
LEMMA OwnBooks ==
    ASSUME LInv, IInv', LedgerTyped', NEW s \in Sessions, NEW m, NEW c,
           session' = [session EXCEPT ![s] = m],
           costing' = [costing EXCEPT ![s] = c],
           layers' = layers, moved' = moved, begun' >= begun,
           \A j \in journals' \ journals : Opened(s) /\ j.move = session[s].id,
           journals \subseteq journals',
           \A r \in Locations \cup {Item} :
              \/ holder'[r] \in {holder[r], s} /\ m.at # "idle"
              \/ holder'[r] \in {holder[r], Nil} /\ holder'[r] # s,
           \A t \in Sessions \ {s} : c.rows \cap costing[t].rows = {},
           Opened(s)' => \A t \in Sessions \ {s} : Opened(t) => session[t].id # m.id,
           BooksOK(s)'
    PROVE  LInv'
  <1>1. /\ session'[s] = m /\ costing'[s] = c
        /\ \A t \in Sessions \ {s} : session'[t] = session[t] /\ costing'[t] = costing[t]
    BY DEF LInv, IInv, Typed, LedgerTyped
  <1>2. \A t \in Sessions \ {s} : Opened(t)' = Opened(t)
    BY <1>1 DEF Opened
  <1>3. Held'
    <2> SUFFICES ASSUME NEW r \in Locations \cup {Item}, holder'[r] # Nil
                 PROVE  session'[holder'[r]].at # "idle"
      BY DEF Held
    <2>1. holder'[r] \in Sessions /\ holder[r] \in Sessions \cup {Nil}
      BY DEF LInv, IInv, Typed
    <2>2. CASE holder'[r] = s
      BY <1>1, <2>2
    <2>3. CASE holder'[r] # s
      BY <1>1, <2>1, <2>3 DEF LInv, Held
    <2> QED  BY <2>2, <2>3
  <1>4. Apart'
    <2> SUFFICES ASSUME NEW t \in Sessions, NEW u \in Sessions, t # u
                 PROVE  costing'[t].rows \cap costing'[u].rows = {}
      BY DEF Apart
    <2>1. CASE t = s
      BY <1>1, <2>1
    <2>2. CASE u = s
      BY <1>1, <2>2
    <2>3. CASE t # s /\ u # s
      BY <1>1, <2>3 DEF LInv, Apart
    <2> QED  BY <2>1, <2>2, <2>3
  <1>5. begun \in Int /\ begun' \in Int /\ moved \in SUBSET Ids
    BY DEF LInv, LedgerTyped
  <1>6. Ages'
    <2>1. ASSUME NEW t \in Sessions, NEW u \in Sessions,
                 Opened(t)', Opened(u)', session'[t].id = session'[u].id
          PROVE  t = u
      <3>1. CASE t = s
        BY <1>1, <1>2, <2>1, <3>1
      <3>2. CASE u = s
        BY <1>1, <1>2, <2>1, <3>2
      <3>3. CASE t # s /\ u # s
        BY <1>1, <1>2, <2>1, <3>3 DEF LInv, Ages
      <3> QED  BY <3>1, <3>2, <3>3
    <2>2. ASSUME NEW i \in Ids, i > begun' PROVE layers'[i] = NoLayer /\ i \notin moved'
      <3>1. i > begun
        BY <1>5, <2>2, FewLayers
      <3> QED  BY <3>1 DEF LInv, Ages
    <2>3. ASSUME NEW j \in journals' PROVE j.move <= begun'
      <3>1. CASE j \in journals
        <4>1. j.move <= begun /\ j.move \in Int
          <5>1. j \in [move : Ids, value : Int]
            BY <3>1 DEF LInv, LedgerTyped
          <5>2. j.move \in Ids /\ j.move <= begun
            BY <3>1, <5>1 DEF LInv, Ages
          <5> QED  BY <5>2 DEF Ids
        <4> QED  BY <1>5, <4>1
      <3>2. CASE j \notin journals
        <4>1. Opened(s) /\ j.move = session[s].id
          BY <3>2
        <4>2. session[s].id \in 1..begun
          BY <4>1 DEF LInv, BooksOK, AgeOK
        <4> QED  BY <1>5, <4>1, <4>2
      <3> QED  BY <3>1, <3>2
    <2> QED  BY <2>1, <2>2, <2>3 DEF Ages
  <1>7. ASSUME NEW t \in Sessions PROVE BooksOK(t)'
    <2>1. CASE t = s
      BY <2>1
    <2>2. CASE t # s
      <3>1. session'[t] = session[t] /\ costing'[t] = costing[t]
        BY <1>1, <2>2
      <3>2. ASSUME Opened(t)
            PROVE  /\ session[t].id \notin moved'
                   /\ JournalsOf(session[t].id)' = JournalsOf(session[t].id)
        <4>1. session[t].id \notin moved
          BY <3>2 DEF LInv, BooksOK, AgeOK
        <4>2. Opened(s) => session[t].id # session[s].id
          BY <2>2, <3>2 DEF LInv, Ages
        <4>3. \A j \in journals' : j.move = session[t].id => j \in journals
          BY <4>2
        <4> QED  BY <3>1, <4>1, <4>3 DEF JournalsOf
      <3> QED  BY <3>1, <3>2, BooksOfOthers
    <2> QED  BY <2>1, <2>2
  <1> QED  BY <1>3, <1>4, <1>6, <1>7 DEF LInv

-----------------------------------------------------------------------------
\* A move that is locking, writing or settling is worth what it was.
LEMMA QuietBooks ==
    ASSUME LInv, IInv', NEW s \in Sessions, NEW a \in Spending \ {"posted"},
           NEW x \in Int, NEW y \in Int,
           session[s].at \in Spending \ {"posted"},
           session' = [session EXCEPT ![s] = [session[s] EXCEPT !.at = a, !.left = x, !.arrived = y]],
           \A r \in Locations \cup {Item} : holder'[r] \in {holder[r], s},
           UNCHANGED <<layers, cost, moved, journals, begun, costing>>
    PROVE  LInv'
  <1> DEFINE m == [session[s] EXCEPT !.at = a, !.left = x, !.arrived = y]
             c == costing[s]
  <1>1. session[s] \in Moves /\ costing \in [Sessions -> Costings] /\ session \in [Sessions -> Moves]
    BY DEF LInv, IInv, Typed, LedgerTyped
  <1>2. /\ m.at = a /\ m.id = session[s].id /\ m.from = session[s].from
        /\ m.to = session[s].to /\ m.qty = session[s].qty
    BY <1>1 DEF Moves
  <1>3. session' = [session EXCEPT ![s] = m] /\ costing' = [costing EXCEPT ![s] = c]
    BY <1>1
  <1> HIDE DEF m
  <1>4. session'[s] = m /\ costing'[s] = c
    BY <1>1, <1>3
  <1>5. LedgerTyped'
    BY DEF LInv, LedgerTyped
  <1>6. /\ Opened(s) /\ Opened(s)' /\ m.at \in Spending /\ m.at \notin {"posted", "layers", "idle"}
        /\ session[s].at # "posted"
    BY <1>2, <1>4 DEF Opened, Spending, HasTaken
  <1>7. ValueIn(s)' = ValueIn(s) /\ ValueOut(s)' = ValueOut(s) /\ Paid(s)' = Paid(s)
    BY <1>2, <1>4 DEF ValueIn, ValueOut, Paid
  <1>8. BooksOK(s)
    BY DEF LInv
  <1>9. AgeOK(s)' /\ TakesOK(s)' /\ WorthOK(s)' /\ JournalOK(s)'
    <2>1. AgeOK(s)'
      BY <1>2, <1>4, <1>6, <1>8 DEF BooksOK, AgeOK
    <2>2. TakesOK(s)'
      BY <1>4, <1>6, <1>7, <1>8 DEF BooksOK, TakesOK
    <2>3. WorthOK(s)'
      BY <1>2, <1>4, <1>6, <1>7, <1>8 DEF BooksOK, WorthOK
    <2>4. JournalOK(s)'
      BY <1>2, <1>4, <1>6, <1>8 DEF BooksOK, JournalOK, JournalsOf
    <2> QED  BY <2>1, <2>2, <2>3, <2>4
  <1>10. /\ \A t \in Sessions \ {s} : c.rows \cap costing[t].rows = {}
         /\ \A t \in Sessions \ {s} : Opened(t) => session[t].id # m.id
         /\ begun' >= begun
    BY <1>2, <1>6 DEF LInv, Apart, Ages, LedgerTyped
  <1>11. BooksOK(s)'
    BY <1>9 DEF BooksOK
  <1>12. \A r \in Locations \cup {Item} : holder'[r] \in {holder[r], s} /\ m.at # "idle"
    BY <1>6
  <1> HIDE DEF c
  <1>13. layers' = layers /\ moved' = moved /\ journals' = journals
    OBVIOUS
  <1> QED  BY <1>3, <1>5, <1>10, <1>11, <1>12, <1>13, OwnBooks

LEMMA ShiftBooks ==
    ASSUME LInv, IInv', NEW s \in Sessions,
           LockSource(s) \/ WriteSource(s) \/ LockTarget(s) \/ WriteTarget(s) \/ Settle(s)
    PROVE  LInv'
  <1>1. /\ session[s] \in Moves /\ session \in [Sessions -> Moves] /\ Sound(s)
        /\ quant \in [Locations -> Int] /\ holder \in [Locations \cup {Item} -> Sessions \cup {Nil}]
        /\ \A q \in Quantities : q \in Int
    BY StockAssumption DEF LInv, IInv, Typed
  <1>2. session[s].at \in Spending \ {"posted"} /\ session[s].at # "idle"
    BY DEF Spending, HasTaken, LockSource, WriteSource, LockTarget, WriteTarget, Settle
  <1>3. /\ session[s].from \in Locations /\ session[s].to \in Locations
        /\ session[s].qty \in Int /\ session[s].left \in Int /\ session[s].arrived \in Int
        /\ quant[session[s].from] \in Int /\ quant[session[s].to] \in Int
    BY <1>1, <1>2 DEF Sound, Moves
  <1>4. PICK a \in Spending \ {"posted"}, x \in Int, y \in Int :
          session' = [session EXCEPT ![s] = [session[s] EXCEPT !.at = a, !.left = x, !.arrived = y]]
    <2>1. CASE LockSource(s)
      <3>1. session' = [session EXCEPT ![s] = [session[s] EXCEPT !.at = "taken",
                !.left = quant[session[s].from] - session[s].qty, !.arrived = session[s].arrived]]
        BY <1>1, <2>1 DEF LockSource, Lock, Moves
      <3>2. "taken" \in Spending \ {"posted"} /\ quant[session[s].from] - session[s].qty \in Int
        BY <1>3 DEF Spending, HasTaken
      <3> QED  BY <1>3, <3>1, <3>2
    <2>2. CASE LockTarget(s)
      <3>1. session' = [session EXCEPT ![s] = [session[s] EXCEPT !.at = "put",
                !.left = session[s].left, !.arrived = quant[session[s].to] + session[s].qty]]
        BY <1>1, <2>2 DEF LockTarget, Lock, Moves
      <3>2. "put" \in Spending \ {"posted"} /\ quant[session[s].to] + session[s].qty \in Int
        BY <1>3 DEF Spending, HasTaken
      <3> QED  BY <1>3, <3>1, <3>2
    <2>3. CASE WriteSource(s) \/ WriteTarget(s) \/ Settle(s)
      <3>1. PICK a \in {"source", "shifted", "settled"} : Goto(s, a)
        BY <2>3 DEF WriteSource, WriteTarget, WriteAt, Settle
      <3>2. session' = [session EXCEPT ![s] = [session[s] EXCEPT !.at = a,
                !.left = session[s].left, !.arrived = session[s].arrived]]
        BY <1>1, <3>1 DEF Goto, Moves
      <3>3. a \in Spending \ {"posted"}
        BY DEF Spending, HasTaken
      <3> QED  BY <1>3, <3>2, <3>3
    <2> QED  BY <2>1, <2>2, <2>3
  <1>5. \A r \in Locations \cup {Item} : holder'[r] \in {holder[r], s}
    BY <1>1 DEF LockSource, WriteSource, LockTarget, WriteTarget, Settle, Lock, WriteAt
  <1>6. UNCHANGED <<layers, cost, moved, journals, begun, costing>>
    BY DEF LockSource, WriteSource, LockTarget, WriteTarget, Settle, Lock, WriteAt, stock
  <1> QED  BY <1>2, <1>4, <1>5, <1>6, QuietBooks

\* A request has spent nothing and has no number yet.
LEMMA RequestBooks ==
    ASSUME LInv, IInv', NEW s \in Sessions, NEW f \in Locations, NEW t \in Locations,
           NEW q \in Quantities, NEW p \in Prices, Request(s, f, t, q, p)
    PROVE  LInv'
  <1> DEFINE m == [at |-> "read", id |-> 0, from |-> f, to |-> t, qty |-> q,
                   left |-> 0, arrived |-> 0]
             c == [costing[s] EXCEPT !.price = p, !.seen = cost]
  <1>1. /\ costing[s] \in Costings /\ costing \in [Sessions -> Costings]
        /\ session \in [Sessions -> Moves] /\ cost \in SUBSET Ids /\ p \in Nat
    BY StockAssumption DEF LInv, IInv, Typed, LedgerTyped
  <1>2. session' = [session EXCEPT ![s] = m] /\ session'[s] = m /\ m.at = "read"
    BY <1>1 DEF Request
  <1>3. /\ costing' = [costing EXCEPT ![s] = c] /\ costing'[s] = c /\ c \in Costings
        /\ c.takes = costing[s].takes /\ c.rows = costing[s].rows
    BY <1>1 DEF Request, Costings
  <1>4. /\ layers' = layers /\ cost' = cost /\ moved' = moved /\ journals' = journals
        /\ begun' = begun /\ holder' = holder /\ session[s].at = "idle"
    BY DEF Request, stock
  <1> HIDE DEF m, c
  <1>5. LedgerTyped'
    BY <1>3, <1>4 DEF LInv, LedgerTyped
  <1>6. ~Opened(s)' /\ session'[s].at \notin Spending /\ m.at # "idle" /\ session[s].at \notin Spending
    BY <1>2, <1>4 DEF Opened, Spending, HasTaken
  <1>7. costing[s].rows = {}
    BY <1>6 DEF LInv, BooksOK, TakesOK
  <1>8. BooksOK(s)'
    <2>1. TakesOK(s)'
      BY <1>2, <1>3, <1>4, <1>7 DEF LInv, BooksOK, TakesOK
    <2> QED  BY <1>6, <2>1 DEF BooksOK, AgeOK, WorthOK, JournalOK
  <1>9. \A t1 \in Sessions \ {s} : c.rows \cap costing[t1].rows = {}
    BY <1>3, <1>7
  <1>10. begun' >= begun
    BY <1>4 DEF LInv, LedgerTyped
  <1> QED  BY <1>2, <1>3, <1>4, <1>5, <1>6, <1>8, <1>9, <1>10, OwnBooks

\* The transaction opens under the next number, which nothing has had.
LEMMA OpenBooks ==
    ASSUME LInv, IInv', NEW s \in Sessions, NEW a \in {"layers", "costed"}, Open(s, a),
           NEW c \in Costings, costing' = [costing EXCEPT ![s] = c],
           c.takes = costing[s].takes, c.rows = costing[s].rows,
           IF a = "layers" THEN ValueOut(s)
           ELSE ~ValueOut(s) /\ (ValueIn(s) => c.worth = session[s].qty * c.price)
    PROVE  LInv'
  <1> DEFINE m == [session[s] EXCEPT !.at = a, !.id = begun + 1]
  <1>1. /\ session[s] \in Moves /\ costing \in [Sessions -> Costings]
        /\ session \in [Sessions -> Moves] /\ begun \in 0..MaxMoves
    BY DEF LInv, IInv, Typed, LedgerTyped
  <1>2. /\ m.at = a /\ m.id = begun + 1 /\ m.from = session[s].from
        /\ m.to = session[s].to /\ m.qty = session[s].qty
    BY <1>1 DEF Moves
  <1>3. /\ session' = [session EXCEPT ![s] = m] /\ session'[s] = m
        /\ session[s].at = "read" /\ begun < MaxMoves /\ begun' = begun + 1
        /\ journals' = journals /\ holder' = holder
        /\ layers' = layers /\ cost' = cost /\ moved' = moved
    BY <1>1 DEF Open, stock, Moves
  <1> HIDE DEF m
  <1>4. costing'[s] = c
    BY <1>1
  <1>5. begun + 1 \in Ids /\ begun' \in 0..MaxMoves /\ begun' >= begun /\ begun + 1 \in 1..begun'
    BY <1>1, <1>3, StockAssumption DEF Ids
  <1>6. LedgerTyped'
    BY <1>3, <1>5 DEF LInv, LedgerTyped
  <1>7. session[s].at \notin Spending /\ m.at # "idle" /\ session'[s].at # "posted" /\ session'[s].at # "read"
    BY <1>2, <1>3 DEF Spending, HasTaken
  <1>8. costing[s].rows = {}
    BY <1>7 DEF LInv, BooksOK, TakesOK
  <1>9. ValueIn(s)' = ValueIn(s) /\ ValueOut(s)' = ValueOut(s)
    BY <1>2, <1>3 DEF ValueIn, ValueOut
  <1>10. /\ layers[begun + 1] = NoLayer /\ begun + 1 \notin moved
         /\ \A j \in journals : j.move # begun + 1
    <2>1. begun + 1 > begun
      BY <1>1
    <2>2. \A j \in journals : j.move <= begun /\ j.move \in Int
      <3> SUFFICES ASSUME NEW j \in journals PROVE j.move <= begun /\ j.move \in Int
        OBVIOUS
      <3>1. j \in [move : Ids, value : Int]
        BY DEF LInv, LedgerTyped
      <3>2. j.move \in Ids /\ j.move <= begun
        BY <3>1 DEF LInv, Ages
      <3> QED  BY <3>2 DEF Ids
    <2> QED  BY <1>1, <1>5, <2>1, <2>2 DEF LInv, Ages
  <1>11. BooksOK(s)'
    <2>1. AgeOK(s)'
      BY <1>2, <1>3, <1>5, <1>10 DEF AgeOK
    <2>2. TakesOK(s)'
      <3>1. session'[s].at = "layers" => ValueOut(s)'
        BY <1>2, <1>3, <1>9
      <3> QED  BY <1>3, <1>4, <1>8, <3>1 DEF LInv, BooksOK, TakesOK
    <2>3. WorthOK(s)'
      <3>1. a = "layers" => session'[s].at \notin Spending
        BY <1>2, <1>3 DEF Spending, HasTaken
      <3> QED  BY <1>2, <1>3, <1>4, <1>9, <3>1 DEF WorthOK
    <2>4. JournalOK(s)'
      BY <1>2, <1>3, <1>7, <1>10 DEF JournalOK, JournalsOf
    <2> QED  BY <2>1, <2>2, <2>3, <2>4 DEF BooksOK
  <1>12. \A t \in Sessions \ {s} : c.rows \cap costing[t].rows = {}
    BY <1>8
  <1>13. \A t \in Sessions \ {s} : Opened(t) => session[t].id # m.id
    <2> SUFFICES ASSUME NEW t \in Sessions, Opened(t) PROVE session[t].id # m.id
      OBVIOUS
    <2>1. session[t].id \in 1..begun
      BY DEF LInv, BooksOK, AgeOK
    <2> QED  BY <1>1, <1>2, <2>1
  <1> QED  BY <1>3, <1>5, <1>6, <1>7, <1>11, <1>12, <1>13, OwnBooks

\* A receipt and a transfer are costed as they open, an issue looks for layers.
LEMMA CostBooks ==
    ASSUME LInv, IInv', NEW s \in Sessions, CostReceipt(s) \/ CostTransfer(s) \/ LookAtLayers(s)
    PROVE  LInv'
  <1>1. /\ costing[s] \in Costings /\ costing \in [Sessions -> Costings]
        /\ begun \in 0..MaxMoves /\ Sound(s)
    BY DEF LInv, IInv, LedgerTyped
  <1>2. session[s].at = "read" /\ begun < MaxMoves
    BY DEF CostReceipt, CostTransfer, LookAtLayers, Open
  <1>3. session[s].qty \in Nat /\ StandingValue(s) = session[s].qty * costing[s].price
    BY <1>1, <1>2, StockAssumption DEF Sound, StandingValue
  <1>4. StandingValue(s) \in Nat
    BY <1>1, <1>3 DEF Costings
  <1>5. begun + 1 \in Ids
    BY <1>1, <1>2, StockAssumption DEF Ids
  <1>6. CASE CostReceipt(s)
    <2> DEFINE b == IF Method = "average" THEN Blended(OnHand, costing[s].seen, begun + 1) ELSE {}
               c == [costing[s] EXCEPT !.worth = StandingValue(s), !.blend = b]
    <2>1. b \in SUBSET Ids
      BY <1>1, <1>5 DEF Blended, Costings
    <2>2. ValueIn(s) /\ ~ValueOut(s) /\ Open(s, "costed")
      BY <1>6 DEF CostReceipt, ValueIn, ValueOut
    <2>3. costing' = [costing EXCEPT ![s].worth = StandingValue(s), ![s].blend = b]
      BY <1>6 DEF CostReceipt
    <2> HIDE DEF b
    <2>4. costing' = [costing EXCEPT ![s] = c]
      BY <1>1, <2>3 DEF Costings
    <2>5. /\ c \in Costings /\ c.takes = costing[s].takes /\ c.rows = costing[s].rows
          /\ c.worth = StandingValue(s) /\ c.price = costing[s].price
      BY <1>1, <1>4, <2>1 DEF Costings
    <2> HIDE DEF c
    <2> QED  BY <1>3, <2>2, <2>4, <2>5, OpenBooks
  <1>7. CASE CostTransfer(s)
    <2> DEFINE c == [costing[s] EXCEPT !.worth = StandingValue(s)]
    <2>1. ~ValueIn(s) /\ ~ValueOut(s) /\ Open(s, "costed")
      BY <1>7 DEF CostTransfer
    <2>2. costing' = [costing EXCEPT ![s] = c]
      BY <1>1, <1>7 DEF CostTransfer, Costings
    <2>3. c \in Costings /\ c.takes = costing[s].takes /\ c.rows = costing[s].rows
      BY <1>1, <1>4 DEF Costings
    <2> HIDE DEF c
    <2> QED  BY <2>1, <2>2, <2>3, OpenBooks
  <1>8. CASE LookAtLayers(s)
    <2> DEFINE c == [costing[s] EXCEPT !.open = OpenLayers]
    <2>1. ValueOut(s) /\ Open(s, "layers")
      BY <1>8 DEF LookAtLayers
    <2>2. costing' = [costing EXCEPT ![s] = c]
      BY <1>1, <1>8 DEF LookAtLayers, Costings
    <2>3. c \in Costings /\ c.takes = costing[s].takes /\ c.rows = costing[s].rows
      BY <1>1 DEF Costings, OpenLayers
    <2> HIDE DEF c
    <2> QED  BY <2>1, <2>2, <2>3, OpenBooks
  <1> QED  BY <1>6, <1>7, <1>8

\* The price of what an issue takes, summed over the layers it locked or over all.
LEMMA PriceIsPaid ==
    ASSUME LedgerTyped, NEW S \in SUBSET Ids, NEW q \in Nat
    PROVE  /\ PriceOf(S, q) \in Nat
           /\ PriceOf(S, q) = SumOf([i \in Ids |-> Spent(S, q)[i] * layers[i].price], Ids)
  <1> DEFINE e == Spent(S, q)
             all == [i \in Ids |-> e[i] * layers[i].price]
             some == [i \in S |-> e[i] * layers[i].price]
  <1>1. /\ \A i \in Ids : e[i] \in Nat /\ layers[i].price \in Nat
        /\ \A i \in Ids \ S : e[i] = 0
    BY SpentIsAll DEF LedgerTyped
  <1> HIDE DEF e
  <1>2. \A i \in Ids : all[i] \in Nat
    BY <1>1
  <1>3. \A i \in Ids \ S : all[i] = 0
    BY <1>1
  <1>4. \A i \in S : some[i] = all[i]
    OBVIOUS
  <1>5. IsFiniteSet(S) /\ IsFiniteSet(Ids)
    BY FewLayers, FS_Subset
  <1>6. PriceOf(S, q) = SumOf(some, S)
    BY DEF PriceOf, e
  <1> HIDE DEF all, some
  <1>7. SumOf(some, S) = SumOf(all, S)
    BY <1>4, <1>5, SumSame
  <1>8. SumOf(all, Ids) = SumOf(all, S)
    <2>1. \A i \in Ids : all[i] \in Int
      BY <1>2
    <2> QED  BY <1>3, <1>5, <2>1, SumSupport
  <1>9. SumOf(all, Ids) \in Nat
    BY <1>2, <1>5, SumNat
  <1> QED  BY <1>6, <1>7, <1>8, <1>9 DEF all, e

\* The issue locks the layers nobody else holds, and spends what it carries of them.
LEMMA LockLayersBooks ==
    ASSUME LInv, IInv', NEW s \in Sessions, LockLayers(s)
    PROVE  LInv'
  <1> DEFINE S == costing[s].open \cap OpenLayers
             q == session[s].qty
             w == IF Method = "fifo" THEN PriceOf(S, q) ELSE StandingValue(s)
             m == [session[s] EXCEPT !.at = "costed"]
             c == [costing[s] EXCEPT !.rows = S, !.takes = Spent(S, q), !.worth = w]
  <1>1. /\ session[s] \in Moves /\ costing[s] \in Costings /\ costing \in [Sessions -> Costings]
        /\ session \in [Sessions -> Moves] /\ Sound(s) /\ BooksOK(s) /\ LedgerTyped
    BY DEF LInv, IInv, Typed, LedgerTyped
  <1>2. /\ session[s].at = "layers" /\ LayersFree(costing[s].open, s) /\ Goto(s, "costed")
        /\ Method = "fifo" => Covered(S, q)
        /\ costing' = [costing EXCEPT ![s].rows = S, ![s].takes = Spent(S, q), ![s].worth = w]
        /\ layers' = layers /\ cost' = cost /\ moved' = moved
        /\ journals' = journals /\ begun' = begun /\ holder' = holder
    BY DEF LockLayers, Spend, stock
  <1>3. S \in SUBSET Ids /\ q \in Nat
    BY <1>1, <1>2, StockAssumption DEF OpenLayers, Sound
  <1>4. w \in Nat
    <2>1. StandingValue(s) \in Nat
      BY <1>1, <1>3 DEF StandingValue, Costings
    <2> HIDE DEF S, q
    <2> QED  BY <1>1, <1>3, <2>1, PriceIsPaid
  <1>5. /\ Spent(S, q) \in [Ids -> Nat]
        /\ \A i \in Ids : Spent(S, q)[i] <= layers[i].left
        /\ \A i \in Ids \ S : Spent(S, q)[i] = 0
        /\ Covered(S, q) => SumOf(Spent(S, q), Ids) = q
    <2> HIDE DEF S, q
    <2> QED  BY <1>1, <1>3, SpentIsAll
  <1>6. Method = "fifo" => w = SumOf([i \in Ids |-> Spent(S, q)[i] * layers[i].price], Ids)
    <2> HIDE DEF S, q
    <2> QED  BY <1>1, <1>3, PriceIsPaid
  <1>7. \A t \in Sessions \ {s} : S \cap costing[t].rows = {}
    BY <1>2 DEF LayersFree
  <1> HIDE DEF w, S
  <1>8. /\ session' = [session EXCEPT ![s] = m] /\ session'[s] = m
        /\ m.at = "costed" /\ m.id = session[s].id /\ m.from = session[s].from
        /\ m.to = session[s].to /\ m.qty = session[s].qty
    BY <1>1, <1>2 DEF Goto, Moves
  <1>9. /\ costing' = [costing EXCEPT ![s] = c] /\ costing'[s] = c /\ c \in Costings
        /\ c.rows = S /\ c.takes = Spent(S, q) /\ c.worth = w
    <2> HIDE DEF q
    <2> QED  BY <1>1, <1>2, <1>3, <1>4, <1>5 DEF Costings
  <1> HIDE DEF m, c
  <1>10. LedgerTyped'
    BY <1>2, <1>9 DEF LInv, LedgerTyped
  <1>11. /\ Opened(s) /\ Opened(s)' /\ m.at # "idle" /\ session'[s].at # "posted"
         /\ session[s].at # "posted" /\ session'[s].at # "layers" /\ session'[s].at \in Spending
    BY <1>2, <1>8 DEF Opened, Spending
  <1>12. ValueOut(s) /\ ValueOut(s)' /\ ~ValueIn(s)'
    <2>1. ValueOut(s)
      BY <1>1, <1>2 DEF BooksOK, TakesOK
    <2> QED  BY <1>8, <2>1 DEF ValueOut, ValueIn
  <1>13. BooksOK(s)'
    <2>1. AgeOK(s)'
      BY <1>1, <1>2, <1>8, <1>11 DEF BooksOK, AgeOK
    <2>2. TakesOK(s)'
      BY <1>2, <1>5, <1>9, <1>11, <1>12 DEF TakesOK
    <2>3. WorthOK(s)'
      <3>1. Method = "fifo" => SumOf(c.takes, Ids) = session'[s].qty
        BY <1>2, <1>5, <1>8, <1>9
      <3>2. Paid(s)' = [i \in Ids |-> Spent(S, q)[i] * layers[i].price]
        BY <1>2, <1>9 DEF Paid
      <3> QED  BY <1>6, <1>9, <1>12, <3>1, <3>2 DEF WorthOK
    <2>4. JournalOK(s)'
      BY <1>1, <1>2, <1>8, <1>11 DEF BooksOK, JournalOK, JournalsOf
    <2> QED  BY <2>1, <2>2, <2>3, <2>4 DEF BooksOK
  <1>14. \A t \in Sessions \ {s} : c.rows \cap costing[t].rows = {}
    BY <1>7, <1>9
  <1>15. \A t \in Sessions \ {s} : Opened(t) => session[t].id # m.id
    BY <1>8, <1>11 DEF LInv, Ages
  <1>16. begun' >= begun
    BY <1>2 DEF LInv, LedgerTyped
  <1>17. /\ layers' = layers /\ moved' = moved /\ journals' = journals
         /\ \A r \in Locations \cup {Item} : holder'[r] \in {holder[r], s} /\ m.at # "idle"
    BY <1>2, <1>11
  <1>18. session' = [session EXCEPT ![s] = m] /\ costing' = [costing EXCEPT ![s] = c]
    BY <1>8, <1>9
  <1> QED  BY <1>10, <1>13, <1>14, <1>15, <1>16, <1>17, <1>18, OwnBooks

\* The journal is the only one to bear the move's number.
LEMMA PostBooks ==
    ASSUME LInv, IInv', NEW s \in Sessions, Post(s)
    PROVE  LInv'
  <1> DEFINE new == [move |-> session[s].id, value |-> Net(s)]
             m == [session[s] EXCEPT !.at = "posted"]
             c == costing[s]
  <1>1. /\ session[s] \in Moves /\ costing[s] \in Costings /\ costing \in [Sessions -> Costings]
        /\ session \in [Sessions -> Moves] /\ BooksOK(s)
    BY DEF LInv, IInv, Typed, LedgerTyped
  <1>2. /\ session[s].at = "settled" /\ Goto(s, "posted")
        /\ journals' = IF Posts(s) THEN journals \cup {new} ELSE journals
        /\ layers' = layers /\ cost' = cost /\ moved' = moved
        /\ begun' = begun /\ holder' = holder /\ costing' = costing
    BY DEF Post, Net, stock
  <1>3. /\ session' = [session EXCEPT ![s] = m] /\ session'[s] = m
        /\ m.at = "posted" /\ m.id = session[s].id /\ m.from = session[s].from
        /\ m.to = session[s].to /\ m.qty = session[s].qty
    BY <1>1, <1>2 DEF Goto, Moves
  <1>4. costing' = [costing EXCEPT ![s] = c] /\ costing'[s] = c
    BY <1>1, <1>2
  <1> HIDE DEF m, c
  <1>5. /\ Opened(s) /\ Opened(s)' /\ m.at # "idle"
        /\ session'[s].at \in Spending /\ session[s].at \in Spending /\ session[s].at # "posted"
    BY <1>2, <1>3 DEF Opened, Spending, HasTaken
  <1>6. new \in [move : Ids, value : Int]
    <2>1. session[s].id \in 1..begun /\ begun \in 0..MaxMoves /\ costing[s].worth \in Int
      BY <1>1, <1>5 DEF BooksOK, AgeOK, Costings, LInv, LedgerTyped
    <2>2. session[s].id \in Ids
      BY <2>1, StockAssumption DEF Ids
    <2>3. Net(s) \in Int
      BY <2>1 DEF Net
    <2> QED  BY <2>2, <2>3
  <1>7. new.move = session[s].id
    OBVIOUS
  <1> HIDE DEF new
  <1>8. LedgerTyped'
    <2>1. journals' \in SUBSET [move : Ids, value : Int] /\ IsFiniteSet(journals')
      BY <1>2, <1>6, FS_AddElement DEF LInv, LedgerTyped
    <2> QED  BY <1>2, <2>1 DEF LInv, LedgerTyped
  <1>9. /\ ValueIn(s)' = ValueIn(s) /\ ValueOut(s)' = ValueOut(s) /\ Paid(s)' = Paid(s)
        /\ Posts(s)' = Posts(s) /\ Net(s)' = Net(s)
    BY <1>2, <1>3 DEF ValueIn, ValueOut, Paid, Posts, Net
  <1>10. BooksOK(s)'
    <2>1. AgeOK(s)'
      BY <1>1, <1>2, <1>3, <1>5 DEF BooksOK, AgeOK
    <2>2. TakesOK(s)'
      BY <1>1, <1>2, <1>3, <1>5, <1>9 DEF BooksOK, TakesOK
    <2>3. WorthOK(s)'
      BY <1>1, <1>2, <1>3, <1>5, <1>9 DEF BooksOK, WorthOK
    <2>4. JournalOK(s)'
      <3>1. JournalsOf(session[s].id) = {}
        BY <1>1, <1>5 DEF BooksOK, JournalOK
      <3>2. JournalsOf(session[s].id)' = IF Posts(s) THEN {new} ELSE {}
        BY <1>2, <1>3, <1>7, <3>1 DEF JournalsOf
      <3> QED  BY <1>3, <1>9, <3>2 DEF JournalOK, new
    <2> QED  BY <2>1, <2>2, <2>3, <2>4 DEF BooksOK
  <1>11. /\ \A t \in Sessions \ {s} : c.rows \cap costing[t].rows = {}
         /\ \A t \in Sessions \ {s} : Opened(t) => session[t].id # m.id
         /\ begun' >= begun
    BY <1>2, <1>3, <1>5 DEF LInv, Apart, Ages, LedgerTyped, c
  <1>12. \A j \in journals' \ journals : Opened(s) /\ j.move = session[s].id
    BY <1>2, <1>5, <1>7
  <1>13. journals \subseteq journals'
    BY <1>2
  <1>14. /\ layers' = layers /\ moved' = moved
         /\ \A r \in Locations \cup {Item} : holder'[r] \in {holder[r], s} /\ m.at # "idle"
    BY <1>2, <1>5
  <1>15. session' = [session EXCEPT ![s] = m] /\ costing' = [costing EXCEPT ![s] = c]
    BY <1>3, <1>4
  <1> QED  BY <1>8, <1>10, <1>11, <1>12, <1>13, <1>14, <1>15, OwnBooks

\* A move rolled back spends nothing and holds nothing.  The journal it may have
\* posted stays, and bears a number nobody will have again.
LEMMA FailBooks ==
    ASSUME LInv, IInv', NEW s \in Sessions, Fail(s)
    PROVE  LInv'
  <1>1. /\ session' = [session EXCEPT ![s] = Idle] /\ costing' = [costing EXCEPT ![s] = Uncosted]
        /\ holder' = [r \in DOMAIN holder |-> IF holder[r] = s THEN Nil ELSE holder[r]]
        /\ layers' = layers /\ cost' = cost /\ moved' = moved
        /\ journals' = journals /\ begun' = begun
    BY DEF Fail, Release, stock
  <1>2. /\ session'[s] = Idle /\ costing'[s] = Uncosted
        /\ costing \in [Sessions -> Costings]
    BY <1>1 DEF LInv, IInv, Typed, LedgerTyped
  <1>3. Uncosted \in Costings /\ Uncosted.rows = {} /\ Idle.at = "idle"
        /\ \A i \in Ids : Uncosted.takes[i] = 0
    BY DEF Uncosted, Costings, Idle
  <1>4. LedgerTyped'
    BY <1>1, <1>3 DEF LInv, LedgerTyped
  <1>5. ~Opened(s)' /\ session'[s].at \notin Spending /\ session'[s].at # "layers"
    BY <1>2, <1>3 DEF Opened, Spending, HasTaken
  <1>6. BooksOK(s)'
    <2>1. TakesOK(s)'
      <3>1. \A i \in Ids : layers[i].left \in Nat
        BY DEF LInv, LedgerTyped
      <3> QED  BY <1>1, <1>2, <1>3, <1>5, <3>1 DEF TakesOK
    <2> QED  BY <1>5, <2>1 DEF BooksOK, AgeOK, WorthOK, JournalOK
  <1>7. \A r \in Locations \cup {Item} : holder'[r] \in {holder[r], Nil} /\ holder'[r] # s
    BY <1>1, StockAssumption DEF LInv, IInv, Typed
  <1>8. begun' >= begun
    BY <1>1 DEF LInv, LedgerTyped
  <1>9. \A t \in Sessions \ {s} : Uncosted.rows \cap costing[t].rows = {}
    BY <1>3
  <1> QED  BY <1>1, <1>4, <1>5, <1>6, <1>7, <1>8, <1>9, OwnBooks

-----------------------------------------------------------------------------
\* What a commit does to the layers: a receipt opens its own and spends nothing,
\* an issue leaves of each what it did not take, and a transfer changes none.
LEMMA CommitLayers ==
    ASSUME LInv, NEW s \in Sessions, Commit(s)
    PROVE  /\ session[s].id \in Ids /\ session[s].id \notin moved /\ layers[session[s].id] = NoLayer
           /\ layers' \in [Ids -> [qty : Nat, left : Nat, price : Nat]]
           /\ \A i \in Ids : layers'[i].left <= layers'[i].qty
           /\ \A i \in Ids : costing[s].takes[i] = 0 /\ (i = session[s].id => ~ValueIn(s))
                               => layers'[i] = layers[i]
           /\ \A i \in Ids : ~ValueIn(s) \/ i # session[s].id =>
                /\ layers'[i].left = layers[i].left - costing[s].takes[i]
                /\ layers'[i].price = layers[i].price
           /\ ~ValueOut(s) => \A i \in Ids : costing[s].takes[i] = 0
           /\ ValueIn(s) => layers'[session[s].id] =
                [qty |-> session[s].qty, left |-> session[s].qty, price |-> costing[s].price]
  <1> DEFINE id == session[s].id
             takes == costing[s].takes
  <1>1. /\ session[s].at = "posted" /\ layers' = Settled(s)
        /\ BooksOK(s) /\ costing[s] \in Costings
    BY DEF LInv, LedgerTyped, Commit
  <1>2. id \in Ids /\ id \notin moved /\ layers[id] = NoLayer
    <2>1. id \in 1..begun /\ begun \in 0..MaxMoves /\ id \notin moved /\ layers[id] = NoLayer
      BY <1>1 DEF Opened, BooksOK, AgeOK, LInv, LedgerTyped
    <2> QED  BY <2>1, StockAssumption DEF Ids
  <1>3. takes \in [Ids -> Nat] /\ costing[s].price \in Nat
    BY <1>1 DEF Costings
  <1>4. session[s].qty \in Nat
    <2>1. Sound(s) /\ Quantities \subseteq Nat
      BY StockAssumption DEF LInv, IInv
    <2> QED  BY <1>1, <2>1 DEF Sound
  <1>5. \A i \in Ids : /\ layers[i] \in [qty : Nat, left : Nat, price : Nat]
                       /\ layers[i].left <= layers[i].qty
                       /\ takes[i] <= layers[i].left
    BY <1>1 DEF LInv, LedgerTyped, BooksOK, TakesOK
  <1>6. ~ValueOut(s) => \A i \in Ids : takes[i] = 0
    BY <1>1 DEF BooksOK, TakesOK
  <1>7. layers' = [i \in Ids |->
          IF i = id /\ ValueIn(s)
          THEN [qty |-> session[s].qty, left |-> session[s].qty, price |-> costing[s].price]
          ELSE [layers[i] EXCEPT !.left = @ - takes[i]]]
    BY <1>1 DEF Settled
  <1> HIDE DEF id, takes
  <1>8. ASSUME NEW i \in Ids, ~ValueIn(s) \/ i # id
        PROVE  /\ layers'[i] = [layers[i] EXCEPT !.left = @ - takes[i]]
               /\ layers'[i] \in [qty : Nat, left : Nat, price : Nat]
               /\ layers'[i].left = layers[i].left - takes[i]
               /\ layers'[i].price = layers[i].price /\ layers'[i].qty = layers[i].qty
               /\ takes[i] = 0 => layers'[i] = layers[i]
    <2>1. layers'[i] = [layers[i] EXCEPT !.left = layers[i].left - takes[i]]
      BY <1>7, <1>8
    <2>2. /\ layers[i] \in [qty : Nat, left : Nat, price : Nat]
          /\ layers[i].left - takes[i] \in Nat
          /\ takes[i] = 0 => layers[i].left - takes[i] = layers[i].left
      BY <1>3, <1>5
    <2> QED  BY <2>1, <2>2
  <1>9. ASSUME ValueIn(s)
        PROVE  layers'[id] = [qty |-> session[s].qty, left |-> session[s].qty, price |-> costing[s].price]
    BY <1>2, <1>7, <1>9
  <1>10. ASSUME NEW i \in Ids
         PROVE  /\ layers'[i] \in [qty : Nat, left : Nat, price : Nat]
                /\ layers'[i].left <= layers'[i].qty
    <2>1. CASE ValueIn(s) /\ i = id
      BY <1>3, <1>4, <1>9, <2>1
    <2>2. CASE ~ValueIn(s) \/ i # id
      <3>1. /\ layers'[i] \in [qty : Nat, left : Nat, price : Nat]
            /\ layers'[i].left = layers[i].left - takes[i] /\ layers'[i].qty = layers[i].qty
        BY <1>8, <2>2
      <3>2. layers[i].left \in Nat /\ layers[i].qty \in Nat /\ takes[i] \in Nat
        BY <1>3, <1>5
      <3> QED  BY <1>5, <3>1, <3>2
    <2> QED  BY <2>1, <2>2
  <1>11. layers' \in [Ids -> [qty : Nat, left : Nat, price : Nat]]
    <2>1. layers' = [i \in Ids |-> layers'[i]]
      BY <1>7
    <2> QED  BY <1>10, <2>1
  <1>12. \A i \in Ids : ~ValueIn(s) \/ i # id =>
           /\ layers'[i].left = layers[i].left - takes[i]
           /\ layers'[i].price = layers[i].price
           /\ takes[i] = 0 => layers'[i] = layers[i]
    BY <1>8
  <1> QED  BY <1>2, <1>6, <1>9, <1>10, <1>11, <1>12 DEF id, takes

LEMMA CommitBooks ==
    ASSUME LInv, IInv', NEW s \in Sessions, Commit(s)
    PROVE  LInv'
  <1>1. /\ session' = [session EXCEPT ![s] = Idle] /\ costing' = [costing EXCEPT ![s] = Uncosted]
        /\ holder' = [r \in DOMAIN holder |-> IF holder[r] = s THEN Nil ELSE holder[r]]
        /\ cost' = (IF costing[s].blend = {} THEN cost ELSE costing[s].blend)
        /\ moved' = moved \cup {session[s].id}
        /\ journals' = journals /\ begun' = begun /\ session[s].at = "posted"
    BY DEF Commit, Release
  <1>2. /\ session'[s] = Idle /\ costing'[s] = Uncosted
        /\ costing \in [Sessions -> Costings]
        /\ \A t \in Sessions \ {s} : session'[t] = session[t] /\ costing'[t] = costing[t]
    BY <1>1 DEF LInv, IInv, Typed, LedgerTyped
  <1>3. Uncosted \in Costings /\ Uncosted.rows = {} /\ Idle.at = "idle"
        /\ \A i \in Ids : Uncosted.takes[i] = 0
    BY DEF Uncosted, Costings, Idle
  <1>4. /\ session[s].id \in Ids /\ session[s].id \notin moved /\ layers[session[s].id] = NoLayer
        /\ layers' \in [Ids -> [qty : Nat, left : Nat, price : Nat]]
        /\ \A i \in Ids : layers'[i].left <= layers'[i].qty
        /\ \A i \in Ids : costing[s].takes[i] = 0 /\ (i = session[s].id => ~ValueIn(s))
                            => layers'[i] = layers[i]
    BY CommitLayers
  <1>5. LedgerTyped'
    <2>1. cost' \in SUBSET Ids /\ moved' \in SUBSET Ids
      BY <1>1, <1>2, <1>4 DEF LInv, LedgerTyped, Costings
    <2>2. costing' \in [Sessions -> Costings]
      BY <1>1, <1>2, <1>3
    <2> QED  BY <1>1, <1>4, <2>1, <2>2 DEF LInv, LedgerTyped
  <1>6. Opened(s) /\ session[s].at \in Spending
    BY <1>1 DEF Opened, Spending, HasTaken
  <1>7. /\ ~Opened(s)' /\ session'[s].at \notin Spending /\ session'[s].at # "layers"
        /\ \A t \in Sessions \ {s} : Opened(t)' = Opened(t)
    BY <1>2, <1>3 DEF Opened, Spending, HasTaken
  <1>8. BooksOK(s)'
    <2>1. TakesOK(s)'
      <3>1. \A i \in Ids : layers'[i].left \in Nat
        BY <1>4
      <3> QED  BY <1>2, <1>3, <1>7, <3>1 DEF TakesOK
    <2> QED  BY <1>7, <2>1 DEF BooksOK, AgeOK, WorthOK, JournalOK
  <1>9. ASSUME NEW t \in Sessions \ {s} PROVE BooksOK(t)'
    <2>1. session'[t] = session[t] /\ costing'[t] = costing[t] /\ begun' >= begun
      BY <1>1, <1>2 DEF LInv, LedgerTyped
    <2>2. BooksOK(s) /\ BooksOK(t) /\ costing[s] \in Costings /\ costing[t] \in Costings
      BY <1>2 DEF LInv
    <2>3. ASSUME NEW i \in Ids, costing[t].takes[i] # 0 PROVE layers'[i] = layers[i]
      <3>1. i \in costing[t].rows
        BY <2>2, <2>3 DEF BooksOK, TakesOK
      <3>2. i \notin costing[s].rows
        BY <3>1 DEF LInv, Apart
      <3>3. costing[s].takes[i] = 0
        BY <2>2, <3>2 DEF BooksOK, TakesOK
      <3>4. i # session[s].id
        <4>1. costing[t].takes[i] \in Nat /\ costing[t].takes[i] <= layers[i].left
          BY <2>2 DEF BooksOK, TakesOK, Costings
        <4>2. layers[i].left # 0
          BY <2>3, <4>1
        <4> QED  BY <1>4, <4>2 DEF NoLayer
      <3> QED  BY <1>4, <3>3, <3>4
    <2>4. ASSUME Opened(t)
          PROVE  /\ layers'[session[t].id] = layers[session[t].id]
                 /\ session[t].id \notin moved'
                 /\ JournalsOf(session[t].id)' = JournalsOf(session[t].id)
      <3> DEFINE i == session[t].id
      <3>1. i # session[s].id
        BY <1>6, <2>4 DEF LInv, Ages
      <3>2. i \in 1..begun /\ i \notin moved /\ layers[i] = NoLayer
        BY <2>2, <2>4 DEF BooksOK, AgeOK
      <3>3. i \in Ids
        <4>1. begun \in 0..MaxMoves
          BY DEF LInv, LedgerTyped
        <4> QED  BY <3>2, <4>1, StockAssumption DEF Ids
      <3>4. costing[s].takes[i] = 0
        <4>1. costing[s].takes[i] \in Nat /\ costing[s].takes[i] <= layers[i].left
          BY <2>2, <3>3 DEF BooksOK, TakesOK, Costings
        <4> QED  BY <3>2, <4>1 DEF NoLayer
      <3>5. JournalsOf(i)' = JournalsOf(i)
        BY <1>1, <2>1 DEF JournalsOf
      <3> QED  BY <1>1, <1>4, <3>1, <3>2, <3>3, <3>4, <3>5
    <2> QED  BY <1>5, <2>1, <2>3, <2>4, BooksOfOthers
  <1>10. Held'
    <2> SUFFICES ASSUME NEW r \in Locations \cup {Item}, holder'[r] # Nil
                 PROVE  session'[holder'[r]].at # "idle"
      BY DEF Held
    <2>1. holder[r] # s /\ holder'[r] = holder[r] /\ holder[r] \in Sessions
      BY <1>1 DEF LInv, IInv, Typed
    <2> QED  BY <1>2, <2>1 DEF LInv, Held
  <1>11. Apart'
    <2> SUFFICES ASSUME NEW t \in Sessions, NEW u \in Sessions, t # u
                 PROVE  costing'[t].rows \cap costing'[u].rows = {}
      BY DEF Apart
    <2>1. CASE t = s \/ u = s
      BY <1>2, <1>3, <2>1
    <2>2. CASE t # s /\ u # s
      BY <1>2, <2>2 DEF LInv, Apart
    <2> QED  BY <2>1, <2>2
  <1>12. Ages'
    <2>1. ASSUME NEW t \in Sessions, NEW u \in Sessions,
                 Opened(t)', Opened(u)', session'[t].id = session'[u].id
          PROVE  t = u
      <3>1. t # s /\ u # s
        BY <1>7, <2>1
      <3> QED  BY <1>2, <1>7, <2>1, <3>1 DEF LInv, Ages
    <2>2. ASSUME NEW i \in Ids, i > begun' PROVE layers'[i] = NoLayer /\ i \notin moved'
      <3>1. layers[i] = NoLayer /\ i \notin moved
        BY <1>1, <2>2 DEF LInv, Ages
      <3>2. BooksOK(s) /\ begun \in Int /\ costing[s] \in Costings
        BY <1>2 DEF LInv, LedgerTyped
      <3>3. i # session[s].id
        <4>1. session[s].id \in 1..begun
          BY <1>6, <3>2 DEF BooksOK, AgeOK
        <4> QED  BY <1>1, <2>2, <3>2, <4>1
      <3>4. costing[s].takes[i] = 0
        <4>1. costing[s].takes[i] \in Nat /\ costing[s].takes[i] <= layers[i].left
          BY <3>2 DEF BooksOK, TakesOK, Costings
        <4> QED  BY <3>1, <4>1 DEF NoLayer
      <3> QED  BY <1>1, <1>4, <3>1, <3>3, <3>4
    <2> QED  BY <1>1, <2>1, <2>2 DEF Ages, LInv
  <1>13. \A t \in Sessions : BooksOK(t)'
    BY <1>8, <1>9
  <1> QED  BY <1>5, <1>10, <1>11, <1>12, <1>13 DEF LInv

\* Nothing has moved, nothing is held and nothing is posted.
LEMMA InitLInv == Init => LInv
  <1> SUFFICES ASSUME Init PROVE LInv
    OBVIOUS
  <1>1. IInv
    BY InitIInv
  <1>2. /\ NoLayer \in [qty : Nat, left : Nat, price : Nat] /\ NoLayer.left = 0 /\ NoLayer.qty = 0
        /\ Uncosted \in Costings /\ Uncosted.rows = {} /\ Idle.at = "idle"
        /\ \A i \in Ids : Uncosted.takes[i] = 0
    BY DEF NoLayer, Uncosted, Costings, Idle
  <1>3. LedgerTyped
    BY <1>2, StockAssumption, FS_EmptySet DEF Init, LedgerTyped
  <1>4. Held
    BY DEF Init, Held
  <1>5. Apart
    BY <1>2 DEF Init, Apart
  <1>6. \A s \in Sessions : session[s].at = "idle" /\ costing[s] = Uncosted
    BY <1>2 DEF Init
  <1>7. Ages
    BY <1>6 DEF Init, Ages, Opened
  <1>8. ASSUME NEW s \in Sessions PROVE BooksOK(s)
    <2>1. ~Opened(s) /\ session[s].at \notin Spending /\ session[s].at # "layers"
      BY <1>6 DEF Opened, Spending, HasTaken
    <2>2. \A i \in Ids : layers[i].left = 0
      BY <1>2 DEF Init
    <2>3. TakesOK(s)
      BY <1>2, <1>6, <2>1, <2>2 DEF TakesOK
    <2> QED  BY <2>1, <2>3 DEF BooksOK, AgeOK, WorthOK, JournalOK
  <1> QED  BY <1>1, <1>3, <1>4, <1>5, <1>7, <1>8 DEF LInv

LEMMA StepLInv == LInv /\ [Next]_vars => LInv'
  <1> SUFFICES ASSUME LInv, [Next]_vars PROVE LInv'
    OBVIOUS
  <1>0. IInv'
    BY StepIInv DEF LInv
  <1>1. CASE UNCHANGED vars
    BY <1>0, <1>1 DEF vars, stock, LInv, LedgerTyped, Held, Apart, Ages, BooksOK, AgeOK, TakesOK,
         WorthOK, JournalOK, JournalsOf, Opened, Net, Paid, Posts, ValueIn, ValueOut
  <1>2. ASSUME NEW s \in Sessions, Step(s) PROVE LInv'
    <2>1. CASE \E f, t \in Locations, q \in Quantities, p \in Prices : Request(s, f, t, q, p)
      BY <1>0, <2>1, RequestBooks
    <2>2. CASE CostReceipt(s) \/ CostTransfer(s) \/ LookAtLayers(s)
      BY <1>0, <2>2, CostBooks
    <2>3. CASE LockLayers(s)
      BY <1>0, <2>3, LockLayersBooks
    <2>4. CASE LockSource(s) \/ WriteSource(s) \/ LockTarget(s) \/ WriteTarget(s) \/ Settle(s)
      BY <1>0, <2>4, ShiftBooks
    <2>5. CASE Post(s)
      BY <1>0, <2>5, PostBooks
    <2>6. CASE Commit(s)
      BY <1>0, <2>6, CommitBooks
    <2>7. CASE Fail(s)
      BY <1>0, <2>7, FailBooks
    <2> QED  BY <1>2, <2>1, <2>2, <2>3, <2>4, <2>5, <2>6, <2>7 DEF Step
  <1> QED  BY <1>1, <1>2 DEF Next

THEOREM BooksHold == Spec => []LInv
  BY InitLInv, StepLInv, PTL DEF Spec

\* Every variable holds what its rows can hold, under any costing method: no
\* layer is spent below nothing, every lock belongs to a move under way and no
\* layer is held twice.
THEOREM TypeCorrect == Spec => []TypeOK
  <1>1. LInv => TypeOK
    <2> SUFFICES ASSUME LInv PROVE TypeOK
      OBVIOUS
    <2>1. \A i \in Ids : layers[i] \in [qty : Nat, left : 0..layers[i].qty, price : Nat]
      BY DEF LInv, LedgerTyped
    <2>2. \A j \in journals : j.move \in Ids /\ j.value \in Int
      BY DEF LInv, LedgerTyped
    <2>3. \A r \in DOMAIN holder : holder[r] # Nil => session[holder[r]].at # "idle"
      BY DEF LInv, IInv, Typed, Held
    <2>4. \A s \in Sessions : LayersFree(costing[s].rows, s)
      BY DEF LInv, Apart, LayersFree
    <2> QED  BY <2>1, <2>2, <2>3, <2>4 DEF LInv, IInv, Typed, LedgerTyped, TypeOK
  <1> QED  BY <1>1, BooksHold, PTL

-----------------------------------------------------------------------------
\* Only a commit changes a quantity, a layer or what has happened, and only a
\* posting adds a journal, of a move that has not.
LEMMA OnlyCommits ==
    ASSUME LInv, [Next]_vars
    PROVE  \/ \E s \in Sessions : Commit(s)
           \/ /\ UNCHANGED <<quant, layers, moved>>
              /\ journals \subseteq journals'
              /\ \A j \in journals' \ journals : j.move \notin moved
  <1>1. CASE UNCHANGED vars
    BY <1>1 DEF vars
  <1>2. ASSUME NEW s \in Sessions, Step(s), ~Commit(s)
        PROVE  /\ UNCHANGED <<quant, layers, moved>>
               /\ journals \subseteq journals'
               /\ \A j \in journals' \ journals : j.move \notin moved
    <2>1. CASE Post(s)
      <3>1. session[s].id \notin moved
        BY <2>1 DEF Post, LInv, BooksOK, AgeOK, Opened
      <3> QED  BY <2>1, <3>1 DEF Post, stock
    <2>2. CASE ~Post(s)
      BY <1>2, <2>2 DEF Step, Request, CostReceipt, CostTransfer, LookAtLayers, LockLayers, Spend,
         Open, LockSource, Lock, WriteSource, LockTarget, WriteTarget, WriteAt, Settle, Fail, stock
    <2> QED  BY <2>1, <2>2
  <1> QED  BY <1>1, <1>2 DEF Next

\* What all the layers have left rises by what a receipt brings and falls by what
\* an issue takes.
LEMMA LayersLeft ==
    ASSUME LInv, Method = "fifo", NEW s \in Sessions, Commit(s)
    PROVE  /\ SumOf(Left, Ids) \in Int
           /\ SumOf(Left', Ids) = SumOf(Left, Ids) + (IF ValueIn(s) THEN session[s].qty ELSE 0)
                                                   - (IF ValueOut(s) THEN session[s].qty ELSE 0)
  <1> DEFINE f == Left
             e == Left'
             takes == costing[s].takes
             id == session[s].id
  <1>1. /\ id \in Ids /\ layers[id] = NoLayer /\ IsFiniteSet(Ids)
        /\ \A i \in Ids : f[i] = layers[i].left /\ e[i] = layers'[i].left
    BY CommitLayers, FewLayers DEF Left
  <1>2. \A i \in Ids : f[i] \in Int /\ e[i] \in Int
    <2>1. /\ layers \in [Ids -> [qty : Nat, left : Nat, price : Nat]]
          /\ layers' \in [Ids -> [qty : Nat, left : Nat, price : Nat]]
      BY CommitLayers DEF LInv, LedgerTyped
    <2> HIDE DEF f, e
    <2> QED  BY <1>1, <2>1
  <1>3. /\ BooksOK(s) /\ session[s].at = "posted" /\ session[s].qty \in Int
        /\ \A i \in Ids : takes[i] \in Int
    <2>1. Sound(s) /\ BooksOK(s) /\ session[s].at = "posted" /\ costing[s] \in Costings
      BY DEF LInv, IInv, LedgerTyped, Commit
    <2>2. session[s].qty \in Int
      <3>1. \A n \in Quantities : n \in Int
        BY StockAssumption
      <3> QED  BY <2>1, <3>1 DEF Sound
    <2>3. \A i \in Ids : takes[i] \in Int
      BY <2>1 DEF Costings
    <2> QED  BY <2>1, <2>2, <2>3
  <1>4. SumOf(f, Ids) \in Int
    <2> HIDE DEF f
    <2> QED  BY <1>1, <1>2, SumInt
  <1>5. CASE ValueIn(s)
    <2>1. ~ValueOut(s)
      BY <1>5 DEF ValueIn, ValueOut
    <2>2. /\ \A i \in Ids \ {id} : e[i] = f[i]
          /\ e[id] = session[s].qty /\ f[id] = 0
      <3>1. \A i \in Ids : i # id => layers'[i] = layers[i]
        BY <2>1, CommitLayers
      <3>2. layers'[id].left = session[s].qty
        <4>1. layers'[id] = [qty |-> session[s].qty, left |-> session[s].qty, price |-> costing[s].price]
          BY <1>5, CommitLayers
        <4> HIDE DEF id
        <4> QED  BY <4>1
      <3>3. layers[id].left = 0
        BY <1>1 DEF NoLayer
      <3> HIDE DEF f, e
      <3> QED  BY <1>1, <3>1, <3>2, <3>3
    <2> HIDE DEF f, e, id
    <2>3. SumOf(e, Ids) = SumOf(f, Ids) + e[id] - f[id]
      BY <1>1, <1>2, <2>2, SumChange
    <2>4. SumOf(e, Ids) = SumOf(f, Ids) + session[s].qty - 0
      BY <1>3, <1>4, <2>2, <2>3
    <2> QED  BY <1>5, <2>1, <2>4, <1>4, <1>3 DEF f, e
  <1>6. CASE ~ValueIn(s)
    <2>1. \A i \in Ids : e[i] = f[i] - takes[i]
      <3>1. \A i \in Ids : layers'[i].left = layers[i].left - takes[i]
        BY <1>6, CommitLayers
      <3> HIDE DEF f, e, takes
      <3> QED  BY <1>1, <3>1
    <2> HIDE DEF f, e, takes
    <2>2. SumOf(e, Ids) = SumOf(f, Ids) - SumOf(takes, Ids)
      BY <1>1, <1>2, <1>3, <2>1, SumLess
    <2>3. SumOf(takes, Ids) = IF ValueOut(s) THEN session[s].qty ELSE 0
      <3>1. CASE ValueOut(s)
        BY <1>3, <3>1 DEF BooksOK, WorthOK, Spending, HasTaken, takes
      <3>2. CASE ~ValueOut(s)
        <4>1. \A i \in Ids : takes[i] = 0
          BY <3>2, CommitLayers DEF takes
        <4> QED  BY <1>1, <3>2, <4>1, SumZero
      <3> QED  BY <3>1, <3>2
    <2>4. SumOf(e, Ids) = SumOf(f, Ids) + 0 - (IF ValueOut(s) THEN session[s].qty ELSE 0)
      BY <1>3, <1>4, <2>2, <2>3
    <2> QED  BY <1>4, <1>6, <2>4 DEF f, e
  <1> QED  BY <1>4, <1>5, <1>6

\* What our own locations hold changes by the same.
LEMMA OwnedHolds ==
    ASSUME LInv, IsFiniteSet(Owned), NEW s \in Sessions, Commit(s)
    PROVE  /\ SumOf(quant, Owned) \in Int
           /\ SumOf(quant', Owned) = SumOf(quant, Owned) + (IF ValueIn(s) THEN session[s].qty ELSE 0)
                                                       - (IF ValueOut(s) THEN session[s].qty ELSE 0)
  <1> DEFINE a == session[s].from
             b == session[s].to
             q == session[s].qty
             mid == [quant EXCEPT ![a] = quant[a] - q]
  <1>1. /\ a \in Locations /\ b \in Locations /\ a # b /\ q \in Int
        /\ quant' = [quant EXCEPT ![a] = quant[a] - q, ![b] = quant[b] + q]
        /\ quant \in [Locations -> Int] /\ quant' \in [Locations -> Int]
    <2>1. IInv /\ quant \in [Locations -> Int]
      BY DEF LInv, IInv, Typed
    <2>2. /\ a \in Locations /\ b \in Locations /\ a # b /\ q \in Quantities
          /\ session[s].left = quant[a] - q /\ session[s].arrived = quant[b] + q
          /\ quant' = [quant EXCEPT ![a] = session[s].left, ![b] = session[s].arrived]
          /\ quant' \in [Locations -> Int]
      BY <2>1, CommitCarries
    <2>3. q \in Int
      <3>1. \A n \in Quantities : n \in Int
        BY StockAssumption
      <3> QED  BY <2>2, <3>1
    <2> QED  BY <2>1, <2>2, <2>3
  <1>2. Owned \in SUBSET Locations
    BY DEF Locations
  <1>3. /\ mid \in [Locations -> Int] /\ mid[a] = quant[a] - q /\ quant'[b] = mid[b] + q
        /\ \A l \in Locations \ {a} : mid[l] = quant[l]
        /\ \A l \in Locations \ {b} : quant'[l] = mid[l]
    <2> HIDE DEF a, b, q
    <2> QED  BY <1>1
  <1> HIDE DEF a, b, q, mid
  <1>4. /\ SumOf(quant, Owned) \in Int /\ SumOf(mid, Owned) \in Int
        /\ \A l \in Owned : quant[l] \in Int /\ mid[l] \in Int /\ quant'[l] \in Int
    <2>1. \A l \in Owned : quant[l] \in Int /\ mid[l] \in Int /\ quant'[l] \in Int
      BY <1>1, <1>2, <1>3
    <2>2. SumOf(quant, Owned) \in Int
      BY <2>1, SumInt
    <2>3. SumOf(mid, Owned) \in Int
      BY <2>1, SumInt
    <2> QED  BY <2>1, <2>2, <2>3
  <1>5. SumOf(mid, Owned) = SumOf(quant, Owned) - (IF a \in Owned THEN q ELSE 0)
    <2>1. CASE a \in Owned
      <3>1. \A l \in Owned \ {a} : mid[l] = quant[l]
        BY <1>2, <1>3
      <3>2. SumOf(mid, Owned) = SumOf(quant, Owned) + mid[a] - quant[a]
        BY <1>4, <2>1, <3>1, SumChange
      <3>3. quant[a] \in Int
        BY <1>1
      <3> QED  BY <1>1, <1>3, <1>4, <2>1, <3>2, <3>3
    <2>2. CASE a \notin Owned
      <3>1. \A l \in Owned : mid[l] = quant[l]
        BY <1>2, <1>3, <2>2
      <3>2. SumOf(mid, Owned) = SumOf(quant, Owned)
        BY <3>1, SumSame
      <3> QED  BY <1>4, <2>2, <3>2
    <2> QED  BY <2>1, <2>2
  <1>6. SumOf(quant', Owned) = SumOf(mid, Owned) + (IF b \in Owned THEN q ELSE 0)
    <2>1. CASE b \in Owned
      <3>1. \A l \in Owned \ {b} : quant'[l] = mid[l]
        BY <1>2, <1>3
      <3>2. SumOf(quant', Owned) = SumOf(mid, Owned) + quant'[b] - mid[b]
        BY <1>4, <2>1, <3>1, SumChange
      <3>3. mid[b] \in Int
        BY <1>4, <2>1
      <3> QED  BY <1>1, <1>3, <1>4, <2>1, <3>2, <3>3
    <2>2. CASE b \notin Owned
      <3>1. \A l \in Owned : quant'[l] = mid[l]
        BY <1>2, <1>3, <2>2
      <3>2. SumOf(quant', Owned) = SumOf(mid, Owned)
        BY <3>1, SumSame
      <3> QED  BY <1>4, <2>2, <3>2
    <2> QED  BY <2>1, <2>2
  <1>7. /\ ValueIn(s) <=> a \notin Owned /\ b \in Owned
        /\ ValueOut(s) <=> a \in Owned /\ b \notin Owned
    BY DEF ValueIn, ValueOut, a, b
  <1>8. q = session[s].qty
    BY DEF q
  <1> QED  BY <1>1, <1>4, <1>5, <1>6, <1>7, <1>8

\* Under FIFO, and any number of locations that is finite, what the layers have
\* left is what our own locations hold: consume_fifo takes of the locked layers
\* exactly what shift takes off the shelf, whatever runs between the two.
THEOREM LayersKeepStep ==
    ASSUME Method = "fifo", IsFiniteSet(Owned)
    PROVE  Spec => []LayersInStep
  <1>1. Init => LayersInStep
    <2> SUFFICES ASSUME Init PROVE LayersInStep
      OBVIOUS
    <2>1. \A i \in Ids : Left[i] = 0
      BY DEF Init, Left, NoLayer
    <2>2. \A l \in Owned : quant[l] = 0
      BY DEF Init, Locations
    <2>3. SumOf(Left, Ids) = 0
      BY <2>1, FewLayers, SumZero
    <2>4. SumOf(quant, Owned) = 0
      BY <2>2, SumZero
    <2> QED  BY <2>3, <2>4 DEF LayersInStep
  <1>2. LInv /\ LayersInStep /\ [Next]_vars => LayersInStep'
    <2> SUFFICES ASSUME LInv, LayersInStep, [Next]_vars PROVE LayersInStep'
      OBVIOUS
    <2>1. CASE \E s \in Sessions : Commit(s)
      <3>1. PICK s \in Sessions : Commit(s)
        BY <2>1
      <3>2. SumOf(Left', Ids) = SumOf(quant', Owned)
        BY <3>1, LayersLeft, OwnedHolds DEF LayersInStep
      <3> QED  BY <3>2 DEF LayersInStep
    <2>2. CASE UNCHANGED <<quant, layers, moved>>
      BY <2>2 DEF LayersInStep, Left
    <2> QED  BY <2>1, <2>2, OnlyCommits
  <1> QED  BY <1>1, <1>2, BooksHold, PTL DEF Spec

-----------------------------------------------------------------------------
\* What the journals of the moves that have happened add to the stock accounts,
\* and what the layers cost.
Posted == SumOf([j \in journals |-> j.value], {j \in journals : j.move \in moved})
Stored == SumOf([i \in Ids |-> layers[i].left * layers[i].price], Ids)

\* A move posts nothing only where it is worth nothing to the stock accounts.
LEMMA PostsOrNothing ==
    ASSUME LInv, NEW s \in Sessions, ~Posts(s)
    PROVE  Net(s) = 0
  <1>1. costing[s].worth \in Nat
    BY DEF LInv, LedgerTyped, Costings
  <1>2. CASE ValueIn(s)
    <2>1. costing[s].worth = 0
      BY <1>1, <1>2 DEF Posts, ValueIn, Owned
    <2> QED  BY <1>2, <2>1 DEF Net
  <1>3. CASE ~ValueIn(s) /\ ValueOut(s)
    <2>1. costing[s].worth = 0
      BY <1>1, <1>3 DEF Posts, ValueOut, Owned
    <2> QED  BY <1>3, <2>1 DEF Net
  <1>4. CASE ~ValueIn(s) /\ ~ValueOut(s)
    BY <1>4 DEF Net
  <1> QED  BY <1>2, <1>3, <1>4

\* A commit makes its own journal count, and no other.
LEMMA AccountMoves ==
    ASSUME LInv, NEW s \in Sessions, Commit(s)
    PROVE  Posted \in Int /\ Posted' = Posted + Net(s)
  <1> DEFINE f == [j \in journals |-> j.value]
             S == {j \in journals : j.move \in moved}
             new == [move |-> session[s].id, value |-> Net(s)]
  <1>1. /\ journals' = journals /\ moved' = moved \cup {session[s].id}
        /\ session[s].at = "posted" /\ session[s].id \notin moved
    BY CommitLayers DEF Commit
  <1>2. IsFiniteSet(S) /\ \A j \in journals : f[j] = j.value /\ j.value \in Int
    BY FS_Subset DEF LInv, LedgerTyped
  <1>3. JournalsOf(session[s].id) = IF Posts(s) THEN {new} ELSE {}
    BY <1>1 DEF LInv, BooksOK, JournalOK, Opened
  <1>4. {j \in journals' : j.move \in moved'} = S \cup JournalsOf(session[s].id)
    BY <1>1 DEF JournalsOf
  <1>5. Posted = SumOf(f, S) /\ Posted' = SumOf(f, S \cup JournalsOf(session[s].id))
    BY <1>1, <1>4 DEF Posted
  <1>6. SumOf(f, S) \in Int
    <2>1. \A j \in S : f[j] \in Int
      BY <1>2
    <2> HIDE DEF f, S
    <2> QED  BY <1>2, <2>1, SumInt
  <1>7. CASE Posts(s)
    <2>1. new \in journals /\ new \notin S /\ new.value = Net(s)
      BY <1>1, <1>3, <1>7 DEF JournalsOf
    <2>2. f[new] = Net(s) /\ \A j \in S \cup {new} : f[j] \in Int
      BY <1>2, <2>1
    <2> HIDE DEF f, S, new
    <2>3. SumOf(f, S \cup {new}) = f[new] + SumOf(f, S)
      BY <1>2, <2>1, <2>2, SumAdd
    <2>4. Net(s) \in Int
      BY <2>2
    <2> QED  BY <1>3, <1>5, <1>6, <1>7, <2>2, <2>3, <2>4
  <1>8. CASE ~Posts(s)
    <2>1. Net(s) = 0
      BY <1>8, PostsOrNothing
    <2>2. S \cup JournalsOf(session[s].id) = S
      BY <1>3, <1>8
    <2>3. SumOf(f, S \cup JournalsOf(session[s].id)) = SumOf(f, S)
      BY <2>2
    <2> HIDE DEF f, S
    <2>4. Posted' = Posted /\ Posted \in Int
      BY <1>5, <1>6, <2>3
    <2> QED  BY <2>1, <2>4
  <1> QED  BY <1>5, <1>6, <1>7, <1>8

\* Under FIFO a commit changes what the layers cost by as much: a receipt at its
\* own price, an issue at the prices of the layers it spends.
LEMMA CostMoves ==
    ASSUME LInv, Method = "fifo", NEW s \in Sessions, Commit(s)
    PROVE  Stored' = Stored + Net(s)
  <1> DEFINE f == [i \in Ids |-> layers[i].left * layers[i].price]
             e == [i \in Ids |-> layers'[i].left * layers'[i].price]
             id == session[s].id
  <1>1. Stored = SumOf(f, Ids) /\ Stored' = SumOf(e, Ids) /\ IsFiniteSet(Ids)
    BY FewLayers DEF Stored
  <1>2. /\ \A i \in Ids : f[i] = layers[i].left * layers[i].price
        /\ \A i \in Ids : e[i] = layers'[i].left * layers'[i].price
    OBVIOUS
  <1>3. /\ id \in Ids /\ layers[id] = NoLayer
        /\ layers \in [Ids -> [qty : Nat, left : Nat, price : Nat]]
        /\ layers' \in [Ids -> [qty : Nat, left : Nat, price : Nat]]
        /\ costing[s] \in Costings /\ BooksOK(s)
        /\ session[s].at = "posted" /\ session[s].at \in Spending
    BY CommitLayers DEF LInv, LedgerTyped, Commit, Spending, HasTaken
  <1> HIDE DEF f, e, id
  <1>4. \A i \in Ids : f[i] \in Int /\ e[i] \in Int
    BY <1>2, <1>3
  <1>5. SumOf(f, Ids) \in Int
    BY <1>1, <1>4, SumInt
  <1>6. costing[s].worth \in Int
    BY <1>3 DEF Costings
  <1>7. CASE ValueIn(s)
    <2>1. ~ValueOut(s)
      BY <1>7 DEF ValueIn, ValueOut
    <2>2. \A i \in Ids \ {id} : layers'[i] = layers[i]
      BY <2>1, CommitLayers DEF id
    <2>3. layers'[id] = [qty |-> session[s].qty, left |-> session[s].qty, price |-> costing[s].price]
      BY <1>7, CommitLayers DEF id
    <2>4. \A i \in Ids \ {id} : e[i] = f[i]
      BY <1>2, <2>2
    <2>5. e[id] = session[s].qty * costing[s].price
      <3>1. layers'[id].left = session[s].qty /\ layers'[id].price = costing[s].price
        BY <2>3
      <3> QED  BY <1>2, <1>3, <3>1
    <2>6. f[id] = 0
      BY <1>2, <1>3 DEF NoLayer
    <2>7. SumOf(e, Ids) = SumOf(f, Ids) + e[id] - f[id]
      BY <1>1, <1>3, <1>4, <2>4, SumChange
    <2>8. e[id] = costing[s].worth
      BY <1>3, <1>7, <2>5 DEF BooksOK, WorthOK
    <2>9. SumOf(e, Ids) = SumOf(f, Ids) + costing[s].worth
      BY <1>5, <1>6, <2>6, <2>7, <2>8
    <2> QED  BY <1>1, <1>7, <2>9 DEF Net
  <1>8. CASE ~ValueIn(s)
    <2> DEFINE g == Paid(s)
    <2>1. \A i \in Ids : g[i] = costing[s].takes[i] * layers[i].price
      BY DEF Paid
    <2> HIDE DEF g
    <2>2. ASSUME NEW i \in Ids PROVE g[i] \in Int /\ e[i] = f[i] - g[i]
      <3>1. /\ layers'[i].left = layers[i].left - costing[s].takes[i]
            /\ layers'[i].price = layers[i].price
        BY <1>8, CommitLayers
      <3>2. layers[i].left \in Int /\ layers[i].price \in Int /\ costing[s].takes[i] \in Int
        BY <1>3 DEF Costings
      <3>3. \A x, y, z \in Int : (x - y) * z = x * z - y * z
        OBVIOUS
      <3> QED  BY <1>2, <2>1, <3>1, <3>2, <3>3
    <2>3. SumOf(e, Ids) = SumOf(f, Ids) - SumOf(g, Ids)
      BY <1>1, <1>4, <2>2, SumLess
    <2>4. SumOf(g, Ids) = IF ValueOut(s) THEN costing[s].worth ELSE 0
      <3>1. CASE ValueOut(s)
        BY <1>3, <3>1 DEF BooksOK, WorthOK, g
      <3>2. CASE ~ValueOut(s)
        <4>1. \A i \in Ids : g[i] = 0
          <5>1. \A i \in Ids : costing[s].takes[i] = 0
            BY <3>2, CommitLayers
          <5> QED  BY <1>3, <2>1, <5>1
        <4> QED  BY <1>1, <3>2, <4>1, SumZero
      <3> QED  BY <3>1, <3>2
    <2>5. SumOf(e, Ids) = SumOf(f, Ids) + (IF ValueOut(s) THEN 0 - costing[s].worth ELSE 0)
      BY <1>5, <1>6, <2>3, <2>4
    <2> QED  BY <1>1, <1>8, <2>5 DEF Net
  <1> QED  BY <1>7, <1>8

\* Under FIFO the stock accounts, as the journals of the moves that happened
\* leave them, come to what the open layers cost.  A rolled-back move's journal
\* stays in the ledger, but under a number no committed move has.
THEOREM AccountAgrees ==
    ASSUME Method = "fifo"
    PROVE  Spec => []StockAccountAgrees
  <1>0. StockAccountAgrees <=> Posted = Stored
    BY DEF StockAccountAgrees, Posted, Stored
  <1>1. Init => StockAccountAgrees
    <2> SUFFICES ASSUME Init PROVE Posted = Stored
      BY <1>0
    <2> DEFINE f == [i \in Ids |-> layers[i].left * layers[i].price]
               v == [j \in journals |-> j.value]
    <2>1. \A i \in Ids : f[i] = 0
      BY DEF Init, NoLayer
    <2>2. {j \in journals : j.move \in moved} = {}
      BY DEF Init
    <2> HIDE DEF f, v
    <2>3. SumOf(f, Ids) = 0
      BY <2>1, FewLayers, SumZero
    <2>4. SumOf(v, {}) = 0
      BY SumEmpty
    <2> QED  BY <2>2, <2>3, <2>4 DEF Posted, Stored, f, v
  <1>2. LInv /\ StockAccountAgrees /\ [Next]_vars => StockAccountAgrees'
    <2> SUFFICES ASSUME LInv, StockAccountAgrees, [Next]_vars PROVE Posted' = Stored'
      BY DEF StockAccountAgrees, Posted, Stored
    <2>0. Posted = Stored
      BY <1>0
    <2>1. CASE \E s \in Sessions : Commit(s)
      <3>1. PICK s \in Sessions : Commit(s)
        BY <2>1
      <3> QED  BY <2>0, <3>1, AccountMoves, CostMoves
    <2>2. CASE /\ UNCHANGED <<quant, layers, moved>>
               /\ journals \subseteq journals'
               /\ \A j \in journals' \ journals : j.move \notin moved
      <3> DEFINE S == {j \in journals : j.move \in moved}
                 f == [j \in journals |-> j.value]
                 e == [j \in journals' |-> j.value]
      <3>1. {j \in journals' : j.move \in moved'} = S
        BY <2>2
      <3>2. IsFiniteSet(S) /\ \A j \in S : e[j] = f[j]
        BY <2>2, FS_Subset DEF LInv, LedgerTyped
      <3>3. SumOf(e, S) = SumOf(f, S)
        <4> HIDE DEF S, f, e
        <4> QED  BY <3>2, SumSame
      <3>4. Posted' = SumOf(e, S) /\ Posted = SumOf(f, S)
        BY <3>1 DEF Posted
      <3>5. Stored' = Stored
        BY <2>2 DEF Stored
      <3> QED  BY <2>0, <3>3, <3>4, <3>5
    <2> QED  BY <2>1, <2>2, OnlyCommits
  <1> QED  BY <1>1, <1>2, BooksHold, PTL DEF Spec
=============================================================================
