-------------------------- MODULE BackgroundProofs --------------------------
(***************************************************************************)
(* What holds of the work behind the requests, for any number of files,    *)
(* workers, exports, events, relays and consumers and for any number of    *)
(* failures: first of uploads, then of report exports (E!), then of the    *)
(* outbox (O!), and at the end of the three put together.                  *)
(***************************************************************************)
EXTENDS MCBackground, TLAPS

---------------------------------------------------------------------------
(* Uploads.                                                                *)

\* What the steps make of a row is a row.
LEMMA RowTyped ==
    ASSUME NEW r \in Rows, NEW s \in NoRow \cup Waiting \cup Finished, NEW l \in Leases,
           NEW q \in BOOLEAN, NEW p \in BOOLEAN
    PROVE  /\ [r EXCEPT !.status = s, !.lease = l] \in Rows
           /\ [r EXCEPT !.status = s, !.lease = l, !.attempts = r.attempts + 1] \in Rows
           /\ [r EXCEPT !.status = s, !.lease = l, !.quarantined = q, !.placed = p] \in Rows
           /\ [r EXCEPT !.lease = l] \in Rows
  <1>1. r.attempts + 1 \in Nat
    BY DEF Rows
  <1>2. [r EXCEPT !.status = s, !.lease = l] \in Rows
    BY DEF Rows
  <1>3. [r EXCEPT !.status = s, !.lease = l, !.attempts = r.attempts + 1] \in Rows
    BY <1>1 DEF Rows
  <1>4. [r EXCEPT !.status = s, !.lease = l, !.quarantined = q, !.placed = p] \in Rows
    BY DEF Rows
  <1>5. [r EXCEPT !.lease = l] \in Rows
    BY DEF Rows
  <1> QED  BY <1>2, <1>3, <1>4, <1>5

\* A row without anything is a row.
LEMMA EmptyTyped ==
    ASSUME NEW s \in NoRow \cup Waiting \cup Finished
    PROVE  Empty(s) \in Rows /\ [Empty(s) EXCEPT !.quarantined = TRUE] \in Rows
  BY DEF Empty, Rows, Leases

\* The names of the steps a worker goes to.
LEMMA StepNames ==
    {"free", "queued", "stat", "read", "promote", "commit", "undo",
     "refuse", "reject", "requeue", "giveup"} \subseteq Steps
  BY DEF Steps

\* What a worker's step concerns: one file of its own, which it may let go.
Goes(w, f) ==
    /\ at[w][f] # "free"
    /\ \E to \in Steps : at' = [at EXCEPT ![w][f] = to]
    /\ copy' \in {copy, [copy EXCEPT ![w][f] = NoCopy]}

LEMMA VerifyGoes ==
    ASSUME NEW w \in Workers, NEW f \in Files, Verify(w, f)
    PROVE  Goes(w, f) /\ UNCHANGED <<verdict, removal, crashes, lapses>>
  <1> USE StepNames DEF Goes, Go, LetGo
  <1>1. CASE Begin(w, f) \/ Stat(w, f) \/ Inspect(w, f)
    BY <1>1 DEF Begin, Stat, Inspect, After
  <1>2. CASE Promote(w, f)
    BY <1>2 DEF Promote
  <1>3. CASE CommitStored(w, f) \/ CommitRejected(w, f)
    BY <1>3 DEF CommitStored, CommitRejected
  <1>4. CASE CommitFails(w, f) \/ RejectFails(w, f) \/ Undo(w, f) \/ Refuse(w, f)
    BY <1>4 DEF CommitFails, RejectFails, Undo, Refuse
  <1>5. CASE Release(w, f) \/ GiveUp(w, f)
    BY <1>5 DEF Release, GiveUp, Settle
  <1> QED  BY <1>1, <1>2, <1>3, <1>4, <1>5 DEF Verify

\* What a worker's step writes, it writes of its file.
Writes(f) ==
    /\ row' = row \/ \E r \in Rows : row' = [row EXCEPT ![f] = r]
    /\ bytes' = bytes \/ \E b \in SUBSET Places : bytes' = [bytes EXCEPT ![f] = b]
    /\ told' = told \/ \E t \in [stored: Nat, rejected: Nat] : told' = [told EXCEPT ![f] = t]
    /\ disturbed' = disturbed \/ \E d \in {"doubled", "unsure"} : disturbed' = Disturb({f}, d)

\* Marking a row writes a row and counts one event.
LEMMA MarkedWrites ==
    ASSUME TypeOK, NEW f \in Files, NEW s \in {"stored", "rejected"}, Marked(f, s)
    PROVE  /\ \E r \in Rows : row' = [row EXCEPT ![f] = r]
           /\ \E t \in [stored: Nat, rejected: Nat] : told' = [told EXCEPT ![f] = t]
  <1>0. row[f] \in Rows /\ told[f] \in [stored: Nat, rejected: Nat]
    BY DEF TypeOK
  <1>1. \E r \in Rows : row' = [row EXCEPT ![f] = r]
    <2> DEFINE p == row[f].placed \/ s = "stored"
               r == [row[f] EXCEPT !.status = s, !.lease = "none", !.quarantined = FALSE, !.placed = p]
    <2>1. p \in BOOLEAN /\ s \in NoRow \cup Waiting \cup Finished /\ "none" \in Leases
      BY DEF Finished, Leases
    <2>2. r \in Rows
      BY <1>0, <2>1, RowTyped
    <2>3. MarkedRow(row[f], s) \in Rows
      BY <1>0, <2>2 DEF MarkedRow
    <2>4. row' = [row EXCEPT ![f] = MarkedRow(row[f], s)]
      BY DEF Marked
    <2> QED  BY <2>3, <2>4
  <1>2. \E t \in [stored: Nat, rejected: Nat] : told' = [told EXCEPT ![f] = t]
    <2>1. [told[f] EXCEPT !.stored = @ + 1] \in [stored: Nat, rejected: Nat]
      BY <1>0
    <2>2. [told[f] EXCEPT !.rejected = @ + 1] \in [stored: Nat, rejected: Nat]
      BY <1>0
    <2>3. \/ told' = [told EXCEPT ![f] = [told[f] EXCEPT !.stored = @ + 1]]
          \/ told' = [told EXCEPT ![f] = [told[f] EXCEPT !.rejected = @ + 1]]
      BY DEF Marked
    <2> QED  BY <2>1, <2>2, <2>3
  <1> QED  BY <1>1, <1>2

LEMMA VerifyWrites ==
    ASSUME TypeOK, NEW w \in Workers, NEW f \in Files, Verify(w, f)
    PROVE  Writes(f)
  <1>0. row[f] \in Rows /\ bytes[f] \in SUBSET Places
    BY DEF TypeOK
  <1>m. ASSUME NEW from \in Places, NEW to \in Places, Moves(f, from, to)
        PROVE  /\ \E b \in SUBSET Places : bytes' = [bytes EXCEPT ![f] = b]
               /\ disturbed' = disturbed \/ disturbed' = Disturb({f}, "doubled")
    BY <1>0, <1>m DEF Moves, TypeOK
  <1>s. ASSUME NEW s \in NoRow \cup Waiting \cup Finished, Settle(w, f, s)
        PROVE  /\ \E r \in Rows : row' = [row EXCEPT ![f] = r]
               /\ UNCHANGED <<bytes, told, disturbed>>
    <2>1. [row[f] EXCEPT !.status = s, !.lease = "none"] \in Rows
      BY <1>0, RowTyped DEF Leases
    <2>2. row' = [row EXCEPT ![f] = IF row[f].status \in NoRow THEN row[f]
                                    ELSE [row[f] EXCEPT !.status = s, !.lease = "none"]]
      BY <1>s DEF Settle, TypeOK
    <2> QED  BY <1>0, <1>s, <2>1, <2>2 DEF Settle
  <1>1. CASE Begin(w, f) \/ Stat(w, f) \/ Inspect(w, f)
    BY <1>1 DEF Begin, Stat, Inspect, Writes
  <1>2. CASE Promote(w, f)
    <2>1. \/ UNCHANGED <<bytes, disturbed>>
          \/ Moves(f, "quarantine", "bucket")
      BY <1>2 DEF Promote
    <2>2. "quarantine" \in Places /\ "bucket" \in Places
      BY DEF Places
    <2>3. UNCHANGED <<row, told>>
      BY <1>2 DEF Promote
    <2> QED  BY <1>m, <2>1, <2>2, <2>3 DEF Writes
  <1>3. CASE Undo(w, f)
    <2>1. \/ UNCHANGED <<bytes, disturbed>>
          \/ Moves(f, "bucket", "quarantine")
      BY <1>3 DEF Undo
    <2>2. "quarantine" \in Places /\ "bucket" \in Places
      BY DEF Places
    <2>3. UNCHANGED <<row, told>>
      BY <1>3 DEF Undo
    <2> QED  BY <1>m, <2>1, <2>2, <2>3 DEF Writes
  <1>4. CASE CommitStored(w, f) \/ CommitRejected(w, f)
    BY <1>4, MarkedWrites DEF CommitStored, CommitRejected, Writes
  <1>5. CASE CommitFails(w, f) \/ RejectFails(w, f)
    BY <1>5, MarkedWrites DEF CommitFails, RejectFails, Writes
  <1>6. CASE Refuse(w, f)
    <2>1. PICK left \in SUBSET (bytes[f] \cap {"quarantine"}) :
            bytes' = [bytes EXCEPT ![f] = (bytes[f] \ {"quarantine"}) \cup left]
      BY <1>6 DEF Refuse
    <2>2. (bytes[f] \ {"quarantine"}) \cup left \in SUBSET Places
      BY <1>0
    <2> QED  BY <1>6, <2>1, <2>2 DEF Refuse, Writes
  <1>7. CASE Release(w, f)
    BY <1>7, <1>s DEF Release, Writes, Waiting
  <1>8. CASE GiveUp(w, f)
    BY <1>8, <1>s DEF GiveUp, Writes, Finished
  <1> QED  BY <1>1, <1>2, <1>3, <1>4, <1>5, <1>6, <1>7, <1>8 DEF Verify

\* What a step leaves of a file it is not about.
Untouched(f) ==
    /\ row'[f] = row[f] /\ bytes'[f] = bytes[f] /\ verdict'[f] = verdict[f]
    /\ told'[f] = told[f] /\ removal'[f] = removal[f] /\ disturbed'[f] = disturbed[f]
    /\ \A v \in Workers : at'[v][f] = at[v][f]

\* What a worker's step leaves of the others.
Alongside(w, f) == \A v \in Workers : v # w => at'[v][f] = at[v][f]

LEMMA GoLocal ==
    ASSUME TypeOK, NEW w \in Workers, NEW f \in Files, NEW to, Go(w, f, to)
    PROVE  at'[w][f] = to /\ Alongside(w, f)
  <1>1. at \in [Workers -> [Files -> Steps]]
    BY DEF TypeOK
  <1> QED  BY <1>1 DEF Go, Alongside

LEMMA DisturbLocal ==
    ASSUME TypeOK, NEW S, NEW by \in Disturbances, disturbed' = Disturb(S, by)
    PROVE  /\ disturbed' \in [Files -> SUBSET Disturbances]
           /\ \A f \in Files : disturbed'[f] = IF f \in S THEN disturbed[f] \cup {by} ELSE disturbed[f]
  <1>1. disturbed \in [Files -> SUBSET Disturbances]
    BY DEF TypeOK
  <1> QED  BY <1>1 DEF Disturb

\* A worker's step on one file leaves every other alone.
LEMMA VerifyElsewhere ==
    ASSUME TypeOK, NEW w \in Workers, NEW g \in Files, NEW f \in Files, f # g, Verify(w, g)
    PROVE  Untouched(f)
  <1>1. Goes(w, g) /\ UNCHANGED <<verdict, removal>>
    BY VerifyGoes
  <1>2. Writes(g)
    BY VerifyWrites
  <1>3. \A v \in Workers : at'[v][f] = at[v][f]
    BY <1>1 DEF Goes, TypeOK
  <1>4. row'[f] = row[f] /\ bytes'[f] = bytes[f] /\ told'[f] = told[f]
    BY <1>2 DEF Writes, TypeOK
  <1>5. disturbed'[f] = disturbed[f]
    <2>1. disturbed' = disturbed \/ disturbed' = Disturb({g}, "doubled") \/ disturbed' = Disturb({g}, "unsure")
      BY <1>2 DEF Writes
    <2>2. ASSUME NEW d \in {"doubled", "unsure"}, disturbed' = Disturb({g}, d)
          PROVE  disturbed'[f] = disturbed[f]
      <3>1. d \in Disturbances
        BY DEF Disturbances
      <3> QED  BY <2>2, <3>1, DisturbLocal
    <2> QED  BY <2>1, <2>2
  <1> QED  BY <1>1, <1>3, <1>4, <1>5 DEF Untouched

---------------------------------------------------------------------------
(* The invariant, one file at a time.                                      *)

\* Whoever works on a file works on a recorded one, a lease is held on a row
\* that is being verified, and a removal is known to the history.
Recorded(f) ==
    /\ \A w \in Workers : at[w][f] # "free" => row[f].status # "new"
    /\ row[f].lease = "held" => row[f].status = "verifying"
    /\ removal[f].by # "nobody" => "removed" \in disturbed[f]
    /\ removal[f].bytesGone => removal[f].by # "nobody"

\* A file is refused only on what inspecting it says.
Judged(f) ==
    \A w \in Workers : at[w][f] \in {"refuse", "reject"} => verdict[f] = "refused"

Kept(f) ==
    (verdict[f] = "accepted" /\ row[f].status \notin NoRow /\ "removed" \notin disturbed[f])
        => bytes[f] # {}

Says(status) == [stored   |-> IF status = "stored" THEN 1 ELSE 0,
                 rejected |-> IF status = "rejected" THEN 1 ELSE 0]

\* The lease keeps everybody out but one, who works on a row that waits.
Alone(f) ==
    disturbed[f] \subseteq {"doubled"} =>
        /\ \A v, w \in Workers : at[v][f] # "free" /\ at[w][f] # "free" => v = w
        /\ \A w \in Workers : at[w][f] # "free" => row[f].status = "verifying"
        /\ told[f] = Says(row[f].status)

\* Even of workers that overtook each other one alone finds the bytes to
\* move, and between the move and its outcome they are in the bucket.
Placed(f) ==
    disturbed[f] \subseteq {"overtaken"} =>
        /\ bytes[f] # Places
        /\ \A w \in Workers : at[w][f] \in {"commit", "undo"} =>
               bytes[f] = {"bucket"} /\ row[f].status # "stored"
        /\ \A v, w \in Workers : at[v][f] \in {"commit", "undo"} /\ at[w][f] \in {"commit", "undo"}
               => v = w
        /\ row[f].status = "stored" => "bucket" \in bytes[f]

FileInv(f) == Recorded(f) /\ Judged(f) /\ Kept(f) /\ Alone(f) /\ Placed(f)

\* A step that is not about f keeps what holds of it.
LEMMA StaysAsItWas ==
    ASSUME NEW f \in Files, FileInv(f), Untouched(f)
    PROVE  FileInv(f)' /\ disturbed[f] \subseteq disturbed'[f]
  <1> USE DEF Untouched
  <1>1. Recorded(f)' /\ Judged(f)' /\ Kept(f)'
    BY DEF FileInv, Recorded, Judged, Kept
  <1>2. Alone(f)'
    BY DEF FileInv, Alone
  <1>3. Placed(f)'
    BY DEF FileInv, Placed
  <1> QED  BY <1>1, <1>2, <1>3 DEF FileInv

\* A worker on the file, one step of it.
LEMMA VerifyFile ==
    ASSUME TypeOK, NEW w \in Workers, NEW f \in Files, FileInv(f), Verify(w, f)
    PROVE  FileInv(f)' /\ disturbed[f] \subseteq disturbed'[f]
  <1> DEFINE Goal == FileInv(f)' /\ disturbed[f] \subseteq disturbed'[f]
             Same == row'[f] = row[f] /\ bytes'[f] = bytes[f] /\ told'[f] = told[f]
                       /\ disturbed'[f] = disturbed[f]
  <1>0. /\ row[f] \in Rows /\ bytes[f] \subseteq Places
        /\ told[f] \in [stored: Nat, rejected: Nat]
        /\ verdict[f] \in Verdicts /\ disturbed[f] \subseteq Disturbances
        /\ \A v \in Workers : at[v][f] \in Steps
    BY DEF TypeOK
  <1>1. verdict'[f] = verdict[f] /\ removal'[f] = removal[f] /\ at[w][f] # "free"
    BY VerifyGoes DEF Goes
  <1>2. Recorded(f) /\ Judged(f) /\ Kept(f) /\ Alone(f) /\ Placed(f)
    BY DEF FileInv
  \* Going on without writing anything.
  <1>a. ASSUME NEW to \in Steps \ {"commit"}, Go(w, f, to), Same,
               to \in {"refuse", "reject"} => verdict[f] = "refused",
               to = "undo" => at[w][f] = "commit"
        PROVE  Goal
    <2>1. at'[w][f] = to /\ Alongside(w, f)
      BY <1>a, GoLocal
    <2>2. Recorded(f)' /\ Judged(f)' /\ Kept(f)'
      BY <1>1, <1>2, <1>a, <2>1 DEF Recorded, Judged, Kept, Alongside
    <2>3. Alone(f)'
      BY <1>1, <1>2, <1>a, <2>1 DEF Alone, Alongside
    <2>4. Placed(f)'
      BY <1>1, <1>2, <1>a, <2>1 DEF Placed, Alongside
    <2> QED  BY <2>2, <2>3, <2>4, <1>a DEF FileInv
  \* Letting the file go, its row now of status s if there is one.
  <1>b. ASSUME NEW s \in Waiting \cup Finished, at'[w][f] = "free", Alongside(w, f),
               row'[f].status = IF row[f].status \in NoRow THEN row[f].status ELSE s,
               row'[f].lease = IF row[f].status \in NoRow THEN row[f].lease ELSE "none",
               bytes'[f] = bytes[f], disturbed'[f] = disturbed[f],
               s = "stored" => at[w][f] = "commit",
               told[f] = Says("verifying") => told'[f] = Says(s)
        PROVE  Goal
    <2>1. s \notin NoRow
      BY DEF NoRow, Waiting, Finished
    <2>2. Recorded(f)'
      BY <1>1, <1>2, <1>b, <2>1 DEF Recorded, Alongside, NoRow
    <2>3. Judged(f)' /\ Kept(f)'
      BY <1>1, <1>2, <1>b, <2>1 DEF Judged, Kept, Alongside, NoRow
    <2>4. Alone(f)'
      BY <1>1, <1>2, <1>b, <2>1 DEF Alone, Alongside, NoRow
    <2>5. Placed(f)'
      BY <1>1, <1>2, <1>b, <2>1 DEF Placed, Alongside, NoRow
    <2> QED  BY <2>2, <2>3, <2>4, <2>5, <1>b DEF FileInv
  \* The bytes move, or come to be in both places.
  <1>c. ASSUME NEW from \in Places, NEW to \in Places, from # to, Moves(f, from, to),
               NEW step \in {"commit", "requeue"}, Go(w, f, step),
               UNCHANGED <<row, told>>, from \in bytes[f],
               from = "bucket" => step = "requeue" /\ at[w][f] = "undo"
        PROVE  Goal
    <2>1. at'[w][f] = step /\ Alongside(w, f)
      BY <1>c, GoLocal
    <2>2. bytes'[f] \in {(bytes[f] \ {from}) \cup {to}, bytes[f] \cup {to}}
      BY <1>c DEF Moves, TypeOK
    <2>3. \/ disturbed'[f] = disturbed[f] /\ bytes'[f] = (bytes[f] \ {from}) \cup {to}
          \/ disturbed'[f] = disturbed[f] \cup {"doubled"}
      <3>1. CASE UNCHANGED disturbed
        BY <1>c, <3>1 DEF Moves, TypeOK, Disturb
      <3>2. CASE disturbed' = Disturb({f}, "doubled")
        BY <3>2, DisturbLocal DEF Disturbances
      <3> QED  BY <1>c, <3>1, <3>2 DEF Moves
    <2>4. Recorded(f)' /\ Judged(f)' /\ Kept(f)'
      BY <1>1, <1>2, <1>c, <2>1, <2>2, <2>3 DEF Recorded, Judged, Kept, Alongside
    <2>5. Alone(f)'
      BY <1>1, <1>2, <1>c, <2>1, <2>3 DEF Alone, Alongside
    <2>6. Placed(f)'
      <3>1. CASE disturbed'[f] = disturbed[f] \cup {"doubled"}
        BY <3>1 DEF Placed
      <3>2. CASE disturbed'[f] = disturbed[f] /\ bytes'[f] = (bytes[f] \ {from}) \cup {to}
        <4>1. CASE from = "quarantine"
          <5>1. disturbed[f] \subseteq {"overtaken"} => bytes[f] = {"quarantine"}
            BY <1>0, <1>2, <1>c, <4>1 DEF Placed, Places
          <5> QED  BY <1>1, <1>2, <1>c, <2>1, <3>2, <4>1, <5>1 DEF Placed, Alongside, Places
        <4>2. CASE from = "bucket"
          BY <1>1, <1>2, <1>c, <2>1, <3>2, <4>2 DEF Placed, Alongside, Places
        <4> QED  BY <4>1, <4>2 DEF Places
      <3> QED  BY <2>3, <3>1, <3>2
    <2> QED  BY <2>3, <2>4, <2>5, <2>6 DEF FileInv
  \* A commit whose answer was lost.
  <1>d. ASSUME NEW s \in {"stored", "rejected"}, NEW to \in {"undo", "requeue"},
               Marked(f, s), Go(w, f, to), disturbed' = Disturb({f}, "unsure"),
               bytes'[f] = bytes[f]
        PROVE  Goal
    <2>1. at'[w][f] = to /\ Alongside(w, f)
      BY <1>d, GoLocal
    <2>2. disturbed'[f] = disturbed[f] \cup {"unsure"}
      BY <1>d, DisturbLocal DEF Disturbances
    <2>3. row'[f] = MarkedRow(row[f], s)
      BY <1>d DEF Marked, TypeOK
    <2>4. /\ row'[f].status = IF row[f].status \in NoRow THEN row[f].status ELSE s
          /\ row'[f].lease = IF row[f].status \in NoRow THEN row[f].lease ELSE "none"
      BY <1>0, <2>3 DEF MarkedRow, Rows
    <2>5. Recorded(f)' /\ Judged(f)' /\ Kept(f)'
      BY <1>1, <1>2, <1>d, <2>1, <2>2, <2>4 DEF Recorded, Judged, Kept, Alongside, NoRow
    <2>6. Alone(f)' /\ Placed(f)'
      BY <2>2 DEF Alone, Placed
    <2> QED  BY <2>2, <2>5, <2>6 DEF FileInv
  \* Now every step is one of these.
  <1>3. CASE Begin(w, f) \/ Stat(w, f) \/ Inspect(w, f)
    <2>1. Same
      BY <1>3 DEF Begin, Stat, Inspect
    <2>2. PICK to \in Steps \ {"commit", "undo", "reject"} :
            Go(w, f, to) /\ (to = "refuse" => verdict[f] = "refused")
      <3>1. ASSUME NEW place, NEW next, After(w, f, place, next)
            PROVE  \E to \in {next, "giveup", "requeue"} : Go(w, f, to)
        BY <3>1, Zenon DEF After
      <3>2. CASE Begin(w, f)
        BY <3>2 DEF Begin, Steps
      <3>3. CASE Stat(w, f)
        <4>1. \E to \in {"read", "giveup", "requeue"} : Go(w, f, to)
          BY <3>1, <3>3, Zenon DEF Stat
        <4> QED  BY <4>1 DEF Steps
      <3>4. CASE Inspect(w, f)
        <4>1. \E to \in {IF verdict[f] = "accepted" THEN "promote" ELSE "refuse",
                         "giveup", "requeue"} : Go(w, f, to)
          BY <3>1, <3>4, Zenon DEF Inspect
        <4> QED  BY <1>0, <4>1 DEF Steps, Verdicts
      <3> QED  BY <1>3, <3>2, <3>3, <3>4
    <2> QED  BY <1>a, <2>1, <2>2
  <1>4. CASE Promote(w, f)
    <2>1. CASE UNCHANGED <<bytes, disturbed>>
      <3>1. Same
        BY <1>4, <2>1 DEF Promote
      <3>2. CASE Go(w, f, "giveup") \/ Go(w, f, "requeue")
        BY <1>a, <3>1, <3>2 DEF Steps
      <3>3. CASE /\ "quarantine" \in bytes[f]
                 /\ Moves(f, "quarantine", "bucket")
                 /\ Go(w, f, "commit") \/ Go(w, f, "requeue")
        BY <1>4, <1>c, <3>3 DEF Promote, Places
      <3> QED  BY <1>4, <3>2, <3>3 DEF Promote
    <2>2. CASE ~UNCHANGED <<bytes, disturbed>>
      BY <1>4, <1>c, <2>2 DEF Promote, Places
    <2> QED  BY <2>1, <2>2
  <1>5. CASE Undo(w, f)
    <2>1. CASE "bucket" \in bytes[f] /\ Moves(f, "bucket", "quarantine")
      BY <1>5, <1>c, <2>1 DEF Undo, Places
    <2>2. CASE UNCHANGED <<bytes, disturbed>>
      BY <1>5, <1>a, <2>2 DEF Undo, Steps
    <2> QED  BY <1>5, <2>1, <2>2 DEF Undo
  <1>6. CASE CommitStored(w, f)
    <2>1. at'[w][f] = "free" /\ Alongside(w, f)
      BY <1>6, GoLocal DEF CommitStored, LetGo
    <2>2. row'[f] = MarkedRow(row[f], "stored")
      BY <1>6 DEF CommitStored, Marked, TypeOK
    <2>3. /\ row'[f].status = IF row[f].status \in NoRow THEN row[f].status ELSE "stored"
          /\ row'[f].lease = IF row[f].status \in NoRow THEN row[f].lease ELSE "none"
      BY <1>0, <2>2 DEF MarkedRow, Rows
    <2>4. told[f] = Says("verifying") => told'[f] = Says("stored")
      BY <1>6 DEF CommitStored, Marked, Says, TypeOK
    <2>5. bytes'[f] = bytes[f] /\ disturbed'[f] = disturbed[f] /\ at[w][f] = "commit"
      BY <1>6 DEF CommitStored
    <2> QED  BY <1>b, <2>1, <2>3, <2>4, <2>5 DEF Finished
  <1>7. CASE CommitRejected(w, f)
    <2>1. at'[w][f] = "free" /\ Alongside(w, f)
      BY <1>7, GoLocal DEF CommitRejected, LetGo
    <2>2. row'[f] = MarkedRow(row[f], "rejected")
      BY <1>7 DEF CommitRejected, Marked, TypeOK
    <2>3. /\ row'[f].status = IF row[f].status \in NoRow THEN row[f].status ELSE "rejected"
          /\ row'[f].lease = IF row[f].status \in NoRow THEN row[f].lease ELSE "none"
      BY <1>0, <2>2 DEF MarkedRow, Rows
    <2>4. told[f] = Says("verifying") => told'[f] = Says("rejected")
      BY <1>7 DEF CommitRejected, Marked, Says, TypeOK
    <2>5. bytes'[f] = bytes[f] /\ disturbed'[f] = disturbed[f]
      BY <1>7 DEF CommitRejected
    <2> QED  BY <1>b, <2>1, <2>3, <2>4, <2>5 DEF Finished
  <1>8. CASE CommitFails(w, f)
    <2>1. CASE UNCHANGED <<row, told, disturbed>>
      BY <1>8, <1>a, <2>1 DEF CommitFails, Steps
    <2>2. CASE Marked(f, "stored") /\ disturbed' = Disturb({f}, "unsure")
      BY <1>8, <1>d, <2>2 DEF CommitFails
    <2> QED  BY <1>8, <2>1, <2>2 DEF CommitFails
  <1>9. CASE RejectFails(w, f)
    <2>1. CASE UNCHANGED <<row, told, disturbed>>
      BY <1>9, <1>a, <2>1 DEF RejectFails, Steps
    <2>2. CASE Marked(f, "rejected") /\ disturbed' = Disturb({f}, "unsure")
      BY <1>9, <1>d, <2>2 DEF RejectFails
    <2> QED  BY <1>9, <2>1, <2>2 DEF RejectFails
  <1>10. CASE Refuse(w, f)
    <2>1. at'[w][f] = "reject" /\ Alongside(w, f) /\ verdict[f] = "refused"
      BY <1>2, <1>10, GoLocal DEF Refuse, Judged
    <2>2. bytes'[f] \subseteq bytes[f] /\ ("bucket" \in bytes[f] => "bucket" \in bytes'[f])
      BY <1>0, <1>10 DEF Refuse, TypeOK
    <2>3. row'[f] = row[f] /\ told'[f] = told[f] /\ disturbed'[f] = disturbed[f]
      BY <1>10 DEF Refuse
    <2>4. Recorded(f)' /\ Judged(f)' /\ Kept(f)'
      BY <1>1, <1>2, <2>1, <2>3 DEF Recorded, Judged, Kept, Alongside
    <2>5. Alone(f)'
      BY <1>1, <1>2, <2>1, <2>3 DEF Alone, Alongside
    <2>6. Placed(f)'
      BY <1>0, <1>1, <1>2, <2>1, <2>2, <2>3 DEF Placed, Alongside, Places
    <2> QED  BY <2>3, <2>4, <2>5, <2>6 DEF FileInv
  <1>11. CASE Release(w, f) \/ GiveUp(w, f)
    <2>1. PICK s \in {"received", "failed"} : Settle(w, f, s)
      BY <1>11 DEF Release, GiveUp
    <2>2. at'[w][f] = "free" /\ Alongside(w, f)
      BY <2>1, GoLocal DEF Settle, LetGo
    <2>3. row'[f] = IF row[f].status \in NoRow THEN row[f]
                    ELSE [row[f] EXCEPT !.status = s, !.lease = "none"]
      BY <2>1 DEF Settle, TypeOK
    <2>4. /\ row'[f].status = IF row[f].status \in NoRow THEN row[f].status ELSE s
          /\ row'[f].lease = IF row[f].status \in NoRow THEN row[f].lease ELSE "none"
      BY <1>0, <2>3 DEF Rows
    <2>5. told[f] = Says("verifying") => told'[f] = Says(s)
      BY <2>1 DEF Settle, Says
    <2>6. bytes'[f] = bytes[f] /\ disturbed'[f] = disturbed[f]
      BY <2>1 DEF Settle
    <2> QED  BY <1>b, <2>1, <2>2, <2>4, <2>5, <2>6 DEF Finished, Waiting
  <1> QED  BY <1>3, <1>4, <1>5, <1>6, <1>7, <1>8, <1>9, <1>10, <1>11 DEF Verify

---------------------------------------------------------------------------
(* Every other step, first on the file and then beside it.                 *)

\* The steps that concern one file and none of its workers.
Handles(f) == \/ Receive(f) \/ Record(f) \/ Discard(f) \/ Lapse(f) \/ LapseOfTheDead(f)
              \/ SweepReads(f) \/ DeleteReads(f) \/ RemoveBytes(f) \/ RemoveRow(f)

LEMMA HandlesFile ==
    ASSUME TypeOK, NEW f \in Files, FileInv(f), Handles(f)
    PROVE  FileInv(f)' /\ disturbed[f] \subseteq disturbed'[f]
  <1> DEFINE Goal == FileInv(f)' /\ disturbed[f] \subseteq disturbed'[f]
  <1>0. /\ row[f] \in Rows /\ bytes[f] \subseteq Places /\ removal[f] \in Removals
        /\ disturbed[f] \subseteq Disturbances
    BY DEF TypeOK
  <1>1. UNCHANGED <<verdict, told, at>>
    BY DEF Handles, Receive, Record, Discard, Lapse, LapseOfTheDead, SweepReads, DeleteReads,
           RemoveBytes, RemoveRow
  <1>2. Recorded(f) /\ Judged(f) /\ Kept(f) /\ Alone(f) /\ Placed(f)
    BY DEF FileInv
  <1>3. Judged(f)'
    BY <1>1, <1>2 DEF Judged
  \* Before there is a row nobody works on the file.
  <1>4. CASE Receive(f) \/ Record(f) \/ Discard(f)
    <2>1. /\ row[f].status = "new" /\ \A w \in Workers : at[w][f] = "free"
          /\ UNCHANGED <<removal, disturbed>>
      BY <1>2, <1>4 DEF Receive, Record, Discard, Recorded
    <2>2. /\ row'[f].status \in {"new", "received", "gone"}
          /\ row'[f].status # "gone" => bytes'[f] \in {bytes[f], {"quarantine"}}
          /\ row'[f].status = "received" => bytes'[f] # {}
          /\ bytes'[f] \subseteq bytes[f] \/ bytes'[f] = {"quarantine"}
          /\ row'[f].lease = "held" => row'[f] = row[f]
      <3>1. CASE Receive(f)
        BY <1>0, <3>1 DEF Receive, TypeOK, Rows
      <3>2. CASE Record(f)
        <4>1. row'[f].status = "received" /\ row'[f].lease = "none" /\ bytes'[f] = bytes[f]
          BY <3>2 DEF Record, Empty, TypeOK
        <4> QED  BY <3>2, <4>1 DEF Record
      <3>3. CASE Discard(f)
        <4>1. row'[f].status = "gone" /\ row'[f].lease = "none" /\ bytes'[f] \subseteq bytes[f]
          BY <3>3 DEF Discard, Empty, TypeOK
        <4> QED  BY <4>1
      <3> QED  BY <1>4, <3>1, <3>2, <3>3
    <2>3. Recorded(f)' /\ Kept(f)'
      BY <1>1, <1>2, <2>1, <2>2 DEF Recorded, Kept, NoRow
    <2>4. Alone(f)'
      BY <1>1, <1>2, <2>1, <2>2 DEF Alone, Says
    <2>5. Placed(f)'
      BY <1>0, <1>1, <1>2, <2>1, <2>2 DEF Placed, Places
    <2> QED  BY <1>3, <2>1, <2>3, <2>4, <2>5 DEF FileInv
  <1>5. CASE Lapse(f) \/ LapseOfTheDead(f)
    <2>1. row[f].lease = "held" /\ row' = [row EXCEPT ![f].lease = "lapsed"]
          /\ UNCHANGED <<bytes, removal, disturbed>>
      BY <1>5 DEF Lapse, LapseOfTheDead
    <2>2. row'[f].status = row[f].status /\ row'[f].lease = "lapsed"
      BY <1>0, <2>1 DEF TypeOK, Rows
    <2>3. Recorded(f)' /\ Kept(f)'
      BY <1>1, <1>2, <2>1, <2>2 DEF Recorded, Kept
    <2>4. Alone(f)' /\ Placed(f)'
      BY <1>1, <1>2, <2>1, <2>2 DEF Alone, Placed
    <2> QED  BY <1>3, <2>1, <2>3, <2>4 DEF FileInv
  <1>6. CASE SweepReads(f) \/ DeleteReads(f)
    <2>1. disturbed' = Disturb({f}, "removed") /\ UNCHANGED <<row, bytes>>
      BY <1>6 DEF SweepReads, DeleteReads
    <2>2. disturbed'[f] = disturbed[f] \cup {"removed"}
      BY <2>1, DisturbLocal DEF Disturbances
    <2>3. ~removal'[f].bytesGone
      BY <1>6 DEF SweepReads, DeleteReads, TypeOK
    <2>4. Recorded(f)'
      BY <1>1, <1>2, <2>1, <2>2, <2>3 DEF Recorded
    <2>5. Kept(f)' /\ Alone(f)' /\ Placed(f)'
      BY <2>2 DEF Kept, Alone, Placed
    <2> QED  BY <1>3, <2>2, <2>4, <2>5 DEF FileInv
  <1>7. CASE RemoveBytes(f) \/ RemoveRow(f)
    <2>1. "removed" \in disturbed[f] /\ UNCHANGED disturbed
      BY <1>2, <1>7 DEF RemoveBytes, RemoveRow, Recorded
    <2>2. row'[f] = row[f] \/ row'[f] = Empty("gone")
      BY <1>7 DEF RemoveBytes, RemoveRow, TypeOK
    <2>3. removal'[f].bytesGone => removal'[f].by # "nobody"
      BY <1>0, <1>7 DEF RemoveBytes, RemoveRow, NoRemoval, Removals, TypeOK
    <2>4. Recorded(f)'
      BY <1>1, <1>2, <2>1, <2>2, <2>3 DEF Recorded, Empty
    <2>5. Kept(f)' /\ Alone(f)' /\ Placed(f)'
      BY <2>1 DEF Kept, Alone, Placed
    <2> QED  BY <1>3, <2>1, <2>4, <2>5 DEF FileInv
  <1> QED  BY <1>4, <1>5, <1>6, <1>7 DEF Handles

LEMMA HandlesElsewhere ==
    ASSUME TypeOK, NEW g \in Files, NEW f \in Files, f # g, Handles(g)
    PROVE  Untouched(f)
  <1>1. UNCHANGED <<verdict, told, at>>
    BY DEF Handles, Receive, Record, Discard, Lapse, LapseOfTheDead, SweepReads, DeleteReads,
           RemoveBytes, RemoveRow
  <1>2. row'[f] = row[f] /\ bytes'[f] = bytes[f] /\ removal'[f] = removal[f]
    BY DEF Handles, Receive, Record, Discard, Lapse, LapseOfTheDead, SweepReads, DeleteReads,
           RemoveBytes, RemoveRow, TypeOK
  <1>3. CASE SweepReads(g) \/ DeleteReads(g)
    <2>1. disturbed' = Disturb({g}, "removed")
      BY <1>3 DEF SweepReads, DeleteReads
    <2>2. disturbed'[f] = disturbed[f]
      <3>1. "removed" \in Disturbances
        BY DEF Disturbances
      <3> QED  BY <2>1, <3>1, DisturbLocal
    <2> QED  BY <1>1, <1>2, <2>2 DEF Untouched
  <1>4. CASE ~(SweepReads(g) \/ DeleteReads(g))
    <2>1. UNCHANGED disturbed
      BY <1>4 DEF Handles, Receive, Record, Discard, Lapse, LapseOfTheDead, RemoveBytes, RemoveRow
    <2> QED  BY <1>1, <1>2, <2>1 DEF Untouched
  <1> QED  BY <1>3, <1>4

LEMMA ClaimFile ==
    ASSUME TypeOK, NEW w \in Workers, NEW S \in SUBSET Files, NEW f \in Files, FileInv(f), Claim(w, S)
    PROVE  FileInv(f)' /\ disturbed[f] \subseteq disturbed'[f]
  <1>0. row[f] \in Rows /\ at \in [Workers -> [Files -> Steps]]
    BY DEF TypeOK
  <1>1. UNCHANGED <<bytes, verdict, told, removal>> /\ at[w][f] = "free"
    BY DEF Claim, Idle
  <1>2. Recorded(f) /\ Judged(f) /\ Kept(f) /\ Alone(f) /\ Placed(f)
    BY DEF FileInv
  <1>3. at'[w][f] = (IF f \in S THEN "queued" ELSE "free") /\ Alongside(w, f)
    BY <1>0 DEF Claim, Alongside
  <1>4. disturbed'[f] = IF f \in S /\ InHand(f) THEN disturbed[f] \cup {"overtaken"} ELSE disturbed[f]
    <2>1. "overtaken" \in Disturbances /\ disturbed' = Disturb({g \in S : InHand(g)}, "overtaken")
      BY DEF Claim, Disturbances
    <2>2. disturbed'[f] = IF f \in {g \in S : InHand(g)} THEN disturbed[f] \cup {"overtaken"}
                          ELSE disturbed[f]
      BY <2>1, DisturbLocal
    <2> QED  BY <2>2
  <1>5. CASE f \notin S
    <2>1. row'[f] = row[f]
      BY <1>5 DEF Claim
    <2>2. \A v \in Workers : at'[v][f] = at[v][f]
      BY <1>1, <1>3, <1>5 DEF Alongside
    <2> QED  BY <1>1, <1>4, <1>5, <2>1, <2>2, StaysAsItWas DEF Untouched
  <1>6. CASE f \in S
    <2>1. /\ row'[f].status = "verifying"
          /\ row[f].status \in Waiting
      BY <1>0, <1>6 DEF Claim, Outstanding, Rows, Waiting
    <2>2. Recorded(f)' /\ Judged(f)' /\ Kept(f)'
      BY <1>1, <1>2, <1>3, <1>4, <1>6, <2>1 DEF Recorded, Judged, Kept, Alongside, NoRow, Waiting
    <2>3. Alone(f)'
      <3>1. CASE InHand(f)
        BY <1>4, <1>6, <3>1 DEF Alone
      <3>2. CASE ~InHand(f)
        <4>1. \A v \in Workers : at'[v][f] # "free" => v = w
          BY <1>3, <3>2 DEF InHand, Alongside
        <4>2. Says(row[f].status) = Says("verifying")
          BY <2>1 DEF Says, Waiting
        <4> QED  BY <1>1, <1>2, <1>4, <1>6, <2>1, <3>2, <4>1, <4>2 DEF Alone
      <3> QED  BY <3>1, <3>2
    <2>4. Placed(f)'
      BY <1>1, <1>2, <1>3, <1>4, <1>6, <2>1 DEF Placed, Alongside
    <2> QED  BY <1>4, <2>2, <2>3, <2>4 DEF FileInv
  <1> QED  BY <1>5, <1>6

LEMMA CrashFile ==
    ASSUME TypeOK, NEW w \in Workers, NEW f \in Files, FileInv(f), Crash(w)
    PROVE  FileInv(f)' /\ disturbed[f] \subseteq disturbed'[f]
  <1>1. UNCHANGED <<row, bytes, verdict, told, removal, disturbed>>
    BY DEF Crash
  <1>2. \A v \in Workers : at'[v][f] \in {at[v][f], "free"}
    BY DEF Crash, TypeOK
  <1>3. Recorded(f) /\ Judged(f) /\ Kept(f) /\ Alone(f) /\ Placed(f)
    BY DEF FileInv
  <1>4. Recorded(f)' /\ Judged(f)' /\ Kept(f)'
    BY <1>1, <1>2, <1>3 DEF Recorded, Judged, Kept
  <1>5. Alone(f)'
    BY <1>1, <1>2, <1>3 DEF Alone
  <1>6. Placed(f)'
    BY <1>1, <1>2, <1>3 DEF Placed
  <1> QED  BY <1>1, <1>4, <1>5, <1>6 DEF FileInv

LEMMA NextFile ==
    ASSUME TypeOK, NEW f \in Files, FileInv(f), [Next]_vars
    PROVE  FileInv(f)' /\ disturbed[f] \subseteq disturbed'[f]
  <1>1. CASE UNCHANGED vars
    BY <1>1, StaysAsItWas DEF vars, Untouched
  <1>2. ASSUME NEW g \in Files, Handles(g)
        PROVE  FileInv(f)' /\ disturbed[f] \subseteq disturbed'[f]
    BY <1>2, HandlesFile, HandlesElsewhere, StaysAsItWas
  <1>3. ASSUME NEW w \in Workers, NEW g \in Files, Verify(w, g)
        PROVE  FileInv(f)' /\ disturbed[f] \subseteq disturbed'[f]
    BY <1>3, VerifyFile, VerifyElsewhere, StaysAsItWas
  <1>4. ASSUME NEW w \in Workers, NEW S \in SUBSET Files, Claim(w, S)
        PROVE  FileInv(f)' /\ disturbed[f] \subseteq disturbed'[f]
    BY <1>4, ClaimFile
  <1>5. ASSUME NEW w \in Workers, Crash(w)
        PROVE  FileInv(f)' /\ disturbed[f] \subseteq disturbed'[f]
    BY <1>5, CrashFile
  <1> QED  BY <1>1, <1>2, <1>3, <1>4, <1>5 DEF Next, Handles

---------------------------------------------------------------------------
(* Types, and the theorems.                                                *)

\* What handles a file writes rows, places, removals and history.
LEMMA HandlesTyped ==
    ASSUME TypeOK, NEW f \in Files, Handles(f)
    PROVE  /\ row' \in [Files -> Rows] /\ bytes' \in [Files -> SUBSET Places]
           /\ removal' \in [Files -> Removals] /\ disturbed' \in [Files -> SUBSET Disturbances]
           /\ lapses' \in 0 .. MaxLapses
           /\ UNCHANGED <<verdict, told, at, copy, crashes>>
  <1>0. /\ row \in [Files -> Rows] /\ row[f] \in Rows
        /\ bytes \in [Files -> SUBSET Places] /\ bytes[f] \in SUBSET Places
        /\ removal \in [Files -> Removals] /\ removal[f] \in Removals
        /\ disturbed \in [Files -> SUBSET Disturbances]
    BY DEF TypeOK
  <1>1. /\ UNCHANGED <<verdict, told, at, copy, crashes>>
        /\ lapses' \in 0 .. MaxLapses
    <2>1. UNCHANGED <<verdict, told, at, copy, crashes>>
      BY DEF Handles, Receive, Record, Discard, Lapse, LapseOfTheDead, SweepReads, DeleteReads,
             RemoveBytes, RemoveRow
    <2>2. \/ lapses' = lapses
          \/ lapses < MaxLapses /\ lapses' = lapses + 1
      <3>1. CASE Lapse(f)
        BY <3>1 DEF Lapse
      <3>2. CASE ~Lapse(f)
        <4>1. lapses' = lapses
          BY <3>2 DEF Handles, Receive, Record, Discard, LapseOfTheDead, SweepReads, DeleteReads,
                 RemoveBytes, RemoveRow
        <4> QED  BY <4>1
      <3> QED  BY <3>1, <3>2
    <2>3. lapses \in 0 .. MaxLapses /\ MaxLapses \in Nat
      BY UploadsAssumption DEF TypeOK
    <2> QED  BY <2>1, <2>2, <2>3
  <1>2. row' \in [Files -> Rows]
    <2>1. /\ Empty("gone") \in Rows
          /\ [Empty("received") EXCEPT !.quarantined = TRUE] \in Rows
      BY EmptyTyped DEF NoRow, Waiting
    <2>2. [row[f] EXCEPT !.lease = "lapsed"] \in Rows
      <3>1. "lapsed" \in Leases /\ row[f].status \in NoRow \cup Waiting \cup Finished
        BY <1>0 DEF Leases, Rows
      <3> QED  BY <1>0, <3>1, RowTyped
    <2>3. row' \in {row, [row EXCEPT ![f] = Empty("gone")],
                    [row EXCEPT ![f] = [Empty("received") EXCEPT !.quarantined = TRUE]],
                    [row EXCEPT ![f] = [row[f] EXCEPT !.lease = "lapsed"]]}
      BY DEF Handles, Receive, Record, Discard, Lapse, LapseOfTheDead, SweepReads, DeleteReads,
             RemoveBytes, RemoveRow
    <2> QED  BY <1>0, <2>1, <2>2, <2>3
  <1>3. bytes' \in [Files -> SUBSET Places]
    <2>1. bytes' = bytes \/ \E b \in SUBSET Places : bytes' = [bytes EXCEPT ![f] = b]
      <3>1. {"quarantine"} \in SUBSET Places
        BY DEF Places
      <3>2. CASE RemoveBytes(f)
        BY <1>0, <3>2 DEF RemoveBytes
      <3>3. CASE Discard(f)
        BY <1>0, <3>3 DEF Discard
      <3>4. CASE ~(RemoveBytes(f) \/ Discard(f))
        BY <3>1, <3>4 DEF Handles, Receive, Record, Lapse, LapseOfTheDead, SweepReads, DeleteReads,
             RemoveRow
      <3> QED  BY <3>2, <3>3, <3>4
    <2> QED  BY <1>0, <2>1
  <1>4. removal' \in [Files -> Removals]
    <2>1. NoRemoval \in Removals /\ [removal[f] EXCEPT !.bytesGone = TRUE] \in Removals
      BY <1>0 DEF NoRemoval, Removals
    <2>2. CASE SweepReads(f)
      <3>1. [by |-> "sweeper", aims |-> {"quarantine"}, bytesGone |-> FALSE] \in Removals
        BY DEF Removals, Places
      <3> QED  BY <1>0, <2>2, <3>1 DEF SweepReads
    <2>3. CASE DeleteReads(f)
      <3> DEFINE aims == IF row[f].placed THEN {"bucket"}
                         ELSE IF row[f].quarantined THEN {"quarantine"} ELSE {}
      <3>1. [by |-> "person", aims |-> aims, bytesGone |-> FALSE] \in Removals
        BY DEF Removals, Places
      <3> QED  BY <1>0, <2>3, <3>1 DEF DeleteReads
    <2>4. CASE RemoveBytes(f)
      <3>1. removal' \in {[removal EXCEPT ![f] = [removal[f] EXCEPT !.bytesGone = TRUE]],
                          [removal EXCEPT ![f] = NoRemoval]}
        BY <1>0, <2>4 DEF RemoveBytes
      <3> QED  BY <1>0, <2>1, <3>1
    <2>5. CASE RemoveRow(f)
      BY <1>0, <2>1, <2>5 DEF RemoveRow
    <2>6. CASE ~(SweepReads(f) \/ DeleteReads(f) \/ RemoveBytes(f) \/ RemoveRow(f))
      <3>1. UNCHANGED removal
        BY <2>6 DEF Handles, Receive, Record, Discard, Lapse, LapseOfTheDead
      <3> QED  BY <1>0, <3>1
    <2> QED  BY <2>2, <2>3, <2>4, <2>5, <2>6
  <1>5. disturbed' \in [Files -> SUBSET Disturbances]
    <2>1. disturbed' = disturbed \/ disturbed' = Disturb({f}, "removed")
      BY DEF Handles, Receive, Record, Discard, Lapse, LapseOfTheDead, SweepReads, DeleteReads,
             RemoveBytes, RemoveRow
    <2>2. "removed" \in Disturbances
      BY DEF Disturbances
    <2> QED  BY <1>0, <2>1, <2>2, DisturbLocal
  <1> QED  BY <1>1, <1>2, <1>3, <1>4, <1>5

LEMMA InitTypeOK == Init => TypeOK
  <1> SUFFICES ASSUME Init PROVE TypeOK
    OBVIOUS
  <1>1. Empty("new") \in Rows
    BY EmptyTyped DEF NoRow
  <1>2. NoCopy \in Copies /\ NoRemoval \in Removals
    BY DEF NoCopy, Copies, NoRemoval, Removals
  <1>3. "free" \in Steps
    BY DEF Steps
  <1> QED  BY <1>1, <1>2, <1>3, UploadsAssumption DEF Init, TypeOK

LEMMA NextTypeOK == TypeOK /\ [Next]_vars => TypeOK'
  <1> SUFFICES ASSUME TypeOK, [Next]_vars PROVE TypeOK'
    OBVIOUS
  <1>0. /\ row \in [Files -> Rows] /\ bytes \in [Files -> SUBSET Places]
        /\ verdict \in [Files -> Verdicts] /\ told \in [Files -> [stored: Nat, rejected: Nat]]
        /\ at \in [Workers -> [Files -> Steps]] /\ copy \in [Workers -> [Files -> Copies]]
        /\ removal \in [Files -> Removals] /\ disturbed \in [Files -> SUBSET Disturbances]
        /\ crashes \in 0 .. MaxCrashes /\ lapses \in 0 .. MaxLapses
        /\ MaxCrashes \in Nat
    BY UploadsAssumption DEF TypeOK
  <1>c. NoCopy \in Copies
    BY DEF NoCopy, Copies
  <1>1. CASE UNCHANGED vars
    BY <1>0, <1>1 DEF vars, TypeOK
  <1>2. ASSUME NEW f \in Files, Handles(f) PROVE TypeOK'
    BY <1>0, <1>2, HandlesTyped DEF TypeOK
  <1>3. ASSUME NEW w \in Workers, NEW f \in Files, Verify(w, f) PROVE TypeOK'
    <2>1. Goes(w, f) /\ UNCHANGED <<verdict, removal, crashes, lapses>>
      BY <1>3, VerifyGoes
    <2>2. Writes(f)
      BY <1>3, VerifyWrites
    <2>3. at' \in [Workers -> [Files -> Steps]]
      <3>1. PICK to \in Steps : at' = [at EXCEPT ![w][f] = to]
        BY <2>1 DEF Goes
      <3>2. [at[w] EXCEPT ![f] = to] \in [Files -> Steps]
        BY <1>0
      <3> QED  BY <1>0, <3>1, <3>2
    <2>4. copy' \in [Workers -> [Files -> Copies]]
      <3>1. [copy[w] EXCEPT ![f] = NoCopy] \in [Files -> Copies]
        BY <1>0, <1>c
      <3>2. copy' = copy \/ copy' = [copy EXCEPT ![w][f] = NoCopy]
        BY <2>1 DEF Goes
      <3> QED  BY <1>0, <3>1, <3>2
    <2>5. row' \in [Files -> Rows] /\ bytes' \in [Files -> SUBSET Places]
      <3>1. row' = row \/ \E r \in Rows : row' = [row EXCEPT ![f] = r]
        BY <2>2 DEF Writes
      <3>2. bytes' = bytes \/ \E b \in SUBSET Places : bytes' = [bytes EXCEPT ![f] = b]
        BY <2>2 DEF Writes
      <3>3. row' \in [Files -> Rows]
        BY <1>0, <3>1
      <3>4. bytes' \in [Files -> SUBSET Places]
        BY <1>0, <3>2
      <3> QED  BY <3>3, <3>4
    <2>6. told' \in [Files -> [stored: Nat, rejected: Nat]]
      BY <1>0, <2>2 DEF Writes
    <2>7. disturbed' \in [Files -> SUBSET Disturbances]
      <3>1. PICK d \in {"doubled", "unsure"} : disturbed' = disturbed \/ disturbed' = Disturb({f}, d)
        BY <2>2 DEF Writes
      <3>2. d \in Disturbances
        BY DEF Disturbances
      <3> QED  BY <1>0, <3>1, <3>2, DisturbLocal
    <2> QED  BY <1>0, <2>1, <2>3, <2>4, <2>5, <2>6, <2>7 DEF TypeOK
  <1>4. ASSUME NEW w \in Workers, NEW S \in SUBSET Files, Claim(w, S) PROVE TypeOK'
    <2>1. row' \in [Files -> Rows]
      <3>1. ASSUME NEW f \in Files
            PROVE  [row[f] EXCEPT !.status = "verifying", !.lease = "held", !.attempts = row[f].attempts + 1] \in Rows
        <4>1. row[f] \in Rows /\ "verifying" \in NoRow \cup Waiting \cup Finished /\ "held" \in Leases
          BY <1>0 DEF Waiting, Leases
        <4> QED  BY <4>1, RowTyped
      <3> QED  BY <1>0, <1>4, <3>1 DEF Claim
    <2>2. at' \in [Workers -> [Files -> Steps]]
      <3>1. [f \in Files |-> IF f \in S THEN "queued" ELSE "free"] \in [Files -> Steps]
        BY DEF Steps
      <3> QED  BY <1>0, <1>4, <3>1 DEF Claim
    <2>3. copy' \in [Workers -> [Files -> Copies]]
      <3>1. ASSUME NEW f \in Files
            PROVE  [attempts |-> row[f].attempts + 1, quarantined |-> row[f].quarantined] \in Copies
        BY <1>0 DEF Rows, Copies
      <3>2. [f \in Files |-> IF f \in S
                             THEN [attempts |-> row[f].attempts + 1, quarantined |-> row[f].quarantined]
                             ELSE NoCopy] \in [Files -> Copies]
        BY <1>c, <3>1
      <3> QED  BY <1>0, <1>4, <3>2 DEF Claim
    <2>4. disturbed' \in [Files -> SUBSET Disturbances]
      <3>1. "overtaken" \in Disturbances
        BY DEF Disturbances
      <3> QED  BY <1>4, <3>1, DisturbLocal DEF Claim
    <2>5. UNCHANGED <<bytes, verdict, told, removal, crashes, lapses>>
      BY <1>4 DEF Claim
    <2> QED  BY <1>0, <2>1, <2>2, <2>3, <2>4, <2>5 DEF TypeOK
  <1>5. ASSUME NEW w \in Workers, Crash(w) PROVE TypeOK'
    <2>1. at' \in [Workers -> [Files -> Steps]]
      BY <1>0, <1>5 DEF Crash, Steps
    <2>2. copy' \in [Workers -> [Files -> Copies]]
      BY <1>0, <1>c, <1>5 DEF Crash
    <2>3. crashes' \in 0 .. MaxCrashes
      BY <1>0, <1>5 DEF Crash
    <2>4. UNCHANGED <<row, bytes, verdict, told, removal, disturbed, lapses>>
      BY <1>5 DEF Crash
    <2> QED  BY <1>0, <2>1, <2>2, <2>3, <2>4 DEF TypeOK
  <1> QED  BY <1>1, <1>2, <1>3, <1>4, <1>5 DEF Next, Handles

IInv == TypeOK /\ \A f \in Files : FileInv(f)

LEMMA InitIInv == Init => IInv
  <1> SUFFICES ASSUME Init PROVE IInv
    OBVIOUS
  <1>1. ASSUME NEW f \in Files PROVE FileInv(f)
    BY DEF Init, FileInv, Recorded, Judged, Kept, Alone, Placed, Says, Empty, NoRemoval, NoRow, Places
  <1> QED  BY <1>1, InitTypeOK DEF IInv

LEMMA NextIInv == IInv /\ [Next]_vars => IInv'
  <1> SUFFICES ASSUME IInv, [Next]_vars PROVE IInv'
    OBVIOUS
  <1>1. TypeOK'
    BY NextTypeOK DEF IInv
  <1>2. ASSUME NEW f \in Files PROVE FileInv(f)'
    BY NextFile DEF IInv
  <1> QED  BY <1>1, <1>2 DEF IInv

LEMMA Invariance == Spec => []IInv
  BY InitIInv, NextIInv, PTL DEF Spec

\* TypeOK: uploads keep their shape, however many workers and files there are.
THEOREM TypeCorrect == Spec => []TypeOK
  <1>1. IInv => TypeOK
    BY DEF IInv
  <1> QED  BY <1>1, Invariance, PTL

\* StoredHasBytes: behind a stored row is its object, even when workers whose
\* lease ran out went on beside the ones that took over.
THEOREM BytesBehindRows == Spec => []StoredHasBytes
  <1>1. IInv => StoredHasBytes
    BY DEF IInv, FileInv, Placed, StoredHasBytes
  <1> QED  BY <1>1, Invariance, PTL

\* KeptSomewhere: no retry, lapse, crash or failed move loses the bytes of a
\* file that is acceptable and that nobody removes.
THEOREM BytesSurvive == Spec => []KeptSomewhere
  <1>1. IInv => KeptSomewhere
    BY DEF IInv, FileInv, Kept, KeptSomewhere
  <1> QED  BY <1>1, Invariance, PTL

\* ToldAsItIs: the events about a file say what its row says, once, while its
\* leases hold, nobody removes it and every commit answers.
THEOREM EventsAgree == Spec => []ToldAsItIs
  <1>1. IInv => ToldAsItIs
    BY DEF IInv, FileInv, Alone, Says, ToldAsItIs
  <1> QED  BY <1>1, Invariance, PTL

\* A finished row waits for nobody: no worker has it, no lease is on it and no
\* claim takes it.
LEMMA FinishedUntaken ==
    ASSUME IInv, [Next]_vars, NEW f \in Files, row[f].status \in Finished,
           disturbed'[f] \subseteq {"doubled"}
    PROVE  row'[f] = row[f]
  <1>1. TypeOK /\ FileInv(f) /\ disturbed[f] \subseteq disturbed'[f]
    BY NextFile DEF IInv
  <1>2. /\ \A w \in Workers : at[w][f] = "free"
        /\ row[f].lease # "held" /\ row[f].status \notin {"new", "received", "verifying"}
        /\ ~removal[f].bytesGone
    <2>1. row[f].status \notin {"new", "received", "verifying"}
      BY DEF Finished
    <2> QED  BY <1>1, <2>1 DEF FileInv, Alone, Recorded
  <1>3. ASSUME NEW g \in Files, Handles(g) PROVE row'[f] = row[f]
    <2>1. CASE g # f
      BY <1>1, <1>3, <2>1, HandlesElsewhere DEF Untouched
    <2>2. CASE g = f
      BY <1>2, <1>3, <2>2 DEF Handles, Receive, Record, Discard, Lapse, LapseOfTheDead,
           SweepReads, DeleteReads, RemoveBytes, RemoveRow
    <2> QED  BY <2>1, <2>2
  <1>4. ASSUME NEW w \in Workers, NEW g \in Files, Verify(w, g) PROVE row'[f] = row[f]
    <2>1. CASE g # f
      BY <1>1, <1>4, <2>1, VerifyElsewhere DEF Untouched
    <2>2. CASE g = f
      BY <1>1, <1>2, <1>4, <2>2, VerifyGoes DEF Goes
    <2> QED  BY <2>1, <2>2
  <1>5. ASSUME NEW w \in Workers, NEW S \in SUBSET Files, Claim(w, S) PROVE row'[f] = row[f]
    BY <1>2, <1>5 DEF Claim, Outstanding
  <1> QED  BY <1>3, <1>4, <1>5 DEF Next, Handles, Crash, vars

\* FinishedStays: nobody takes a finished upload up again or answers it
\* differently, as long as no lease ran out under its holder, nobody removes it
\* and every commit answers.
THEOREM FinishedForGood == Spec => FinishedStays
  <1>1. IInv /\ [Next]_vars =>
          [\A f \in Files :
             row[f].status \in Finished /\ disturbed'[f] \subseteq {"doubled"} => row'[f] = row[f]]_vars
    BY FinishedUntaken
  <1> QED  BY <1>1, Invariance, PTL DEF Spec, FinishedStays

---------------------------------------------------------------------------
(* Report exports.                                                         *)

\* An answer names a file that is recorded, and a recorded reference keeps it;
\* a worker about to answer that it is ready has inserted it, or it is deleted
\* and the answer refused.
Referenced ==
    \A r \in Requests : /\ request[r].file => stored[r].row
                        /\ request[r].state = "ready" => request[r].file

\* Unless it was claimed from under a worker, an export has one worker at most,
\* while it says running; and none before it is claimed or once it is answered.
OneWorker ==
    \A r \in Requests \ overtaken :
        /\ \A v, w \in Exporters : doing[v][r] # "free" /\ doing[w][r] # "free" => v = w
        /\ \A w \in Exporters : doing[w][r] # "free" => request[r].state = "running"

ExportsInv == E!TypeOK /\ Referenced /\ OneWorker

\* The invariant holds initially.
LEMMA InitExportsInv == E!Init => ExportsInv
  BY DEF E!Init, ExportsInv, E!TypeOK, Referenced, OneWorker, E!States, E!Stages, E!Rows, E!StoredFiles

\* A worker's step keeps what is said of workers.
LEMMA StageTyped ==
    ASSUME doing \in [Exporters -> [Requests -> E!Stages]],
           NEW w \in Exporters, NEW r \in Requests, NEW from, NEW to \in E!Stages,
           E!Step(w, r, from, to)
    PROVE  doing' \in [Exporters -> [Requests -> E!Stages]]
  BY DEF E!Step

\* A row with another state, claim or file is a row.
LEMMA RequestTyped ==
    ASSUME request \in [Requests -> E!Rows], NEW r \in Requests
    PROVE  /\ \A s \in E!States : [request EXCEPT ![r].state = s] \in [Requests -> E!Rows]
           /\ \A c \in {"none", "held", "lapsed"} :
                [request EXCEPT ![r].claim = c] \in [Requests -> E!Rows]
           /\ \A s \in E!States, c \in {"none", "held", "lapsed"} :
                [request EXCEPT ![r] = [request[r] EXCEPT !.state = s, !.claim = c]]
                  \in [Requests -> E!Rows]
           /\ \A s \in E!States, f \in BOOLEAN :
                [request EXCEPT ![r] = [request[r] EXCEPT !.state = s, !.file = f]]
                  \in [Requests -> E!Rows]
  BY DEF E!Rows

\* A step is taken by a worker that has the export, and gives it to nobody.
LEMMA OnlyWorkers ==
    ASSUME doing \in [Exporters -> [Requests -> E!Stages]],
           NEW w \in Exporters, NEW r \in Requests, NEW from, NEW to,
           E!Step(w, r, from, to), from # "free"
    PROVE  /\ doing[w][r] # "free"
           /\ doing'[w][r] = to
           /\ \A v \in Exporters, q \in Requests : doing'[v][q] # "free" => doing[v][q] # "free"
  BY DEF E!Step

\* Every step keeps the types.
LEMMA NextExportsTypeOK == E!TypeOK /\ [E!Next]_E!vars => E!TypeOK'
  <1> SUFFICES ASSUME E!TypeOK, [E!Next]_E!vars PROVE E!TypeOK'
    OBVIOUS
  <1>0. E!States = {"none", "requested", "running", "ready", "failed"}
    BY DEF E!States
  <1> USE DEF E!TypeOK
  <1>1. ASSUME NEW r \in Requests, E!Raise(r) PROVE E!TypeOK'
    BY <1>0, <1>1, RequestTyped DEF E!Raise
  <1>2. ASSUME NEW r \in Requests, E!Withdraw(r) PROVE E!TypeOK'
    BY <1>2 DEF E!Withdraw
  <1>3. ASSUME NEW r \in Requests, E!Timeout(r) PROVE E!TypeOK'
    <2>1. request' \in [Requests -> E!Rows]
      BY <1>3, RequestTyped DEF E!Timeout
    <2>2. timeouts' \in Nat
      BY <1>3 DEF E!Timeout
    <2> QED  BY <1>3, <2>1, <2>2 DEF E!Timeout
  <1>4. ASSUME NEW r \in Requests, E!DeleteFile(r) PROVE E!TypeOK'
    <2>1. request[r].file \in BOOLEAN
      BY DEF E!Rows
    <2>2. stored' \in [Requests -> E!StoredFiles]
      BY <1>4, <2>1 DEF E!DeleteFile, E!StoredFiles
    <2> QED  BY <1>4, <2>2 DEF E!DeleteFile
  <1>5. ASSUME NEW w \in Exporters, NEW r \in Requests, E!ClaimExport(w, r) PROVE E!TypeOK'
    <2>1. request' \in [Requests -> E!Rows]
      BY <1>0, <1>5, RequestTyped DEF E!ClaimExport
    <2>2. doing' \in [Exporters -> [Requests -> E!Stages]]
      BY <1>5 DEF E!ClaimExport, E!Stages
    <2>3. overtaken' \in SUBSET Requests
      BY <1>5 DEF E!ClaimExport
    <2> QED  BY <1>5, <2>1, <2>2, <2>3 DEF E!ClaimExport
  <1>6. ASSUME NEW w \in Exporters, NEW r \in Requests, E!Write(w, r) PROVE E!TypeOK'
    <2>0. /\ \E from, to \in E!Stages : E!Step(w, r, from, to)
          /\ doing' \in [Exporters -> [Requests -> E!Stages]]
      <3>1. \E from, to \in E!Stages : E!Step(w, r, from, to)
        BY <1>6 DEF E!Write, E!CheckGrant, E!Render, E!WriteObject, E!InsertFile, E!MarkReady, E!MarkFailed, E!Stages
      <3> QED  BY <3>1, StageTyped
    <2>1. CASE E!CheckGrant(w, r) \/ E!Render(w, r)
      BY <2>0, <2>1 DEF E!CheckGrant, E!Render
    <2>3. CASE E!WriteObject(w, r)
      <3>1. [stored EXCEPT ![r].object = TRUE] \in [Requests -> E!StoredFiles]
        BY DEF E!StoredFiles
      <3> QED  BY <2>0, <2>3, <3>1 DEF E!WriteObject
    <2>4. CASE E!InsertFile(w, r)
      <3>1. [stored EXCEPT ![r].row = TRUE] \in [Requests -> E!StoredFiles]
        BY DEF E!StoredFiles
      <3> QED  BY <2>0, <2>4, <3>1 DEF E!InsertFile
    <2>5. CASE E!MarkReady(w, r)
      <3>1. request' \in [Requests -> E!Rows]
        <4>1. [request EXCEPT ![r] = [request[r] EXCEPT !.state = "ready", !.file = TRUE]]
                \in [Requests -> E!Rows]
          BY <1>0, RequestTyped
        <4> QED  BY <2>5, <4>1 DEF E!MarkReady
      <3> QED  BY <2>0, <2>5, <3>1 DEF E!MarkReady
    <2>6. CASE E!MarkFailed(w, r)
      <3>1. request' \in [Requests -> E!Rows]
        <4>1. [request EXCEPT ![r].state = "failed"] \in [Requests -> E!Rows]
          BY <1>0, RequestTyped
        <4> QED  BY <2>6, <4>1 DEF E!MarkFailed
      <3>2. deaths' \in Nat
        BY <2>6 DEF E!MarkFailed
      <3> QED  BY <2>0, <2>6, <3>1, <3>2 DEF E!MarkFailed
    <2> QED  BY <1>6, <2>1, <2>3, <2>4, <2>5, <2>6 DEF E!Write
  <1>7. ASSUME NEW w \in Exporters, E!Die(w) PROVE E!TypeOK'
    <2>1. doing' \in [Exporters -> [Requests -> E!Stages]]
      BY <1>7 DEF E!Die, E!Stages
    <2> QED  BY <1>7, <2>1 DEF E!Die
  <1>8. CASE UNCHANGED E!vars
    BY <1>8 DEF E!vars
  <1> QED  BY <1>1, <1>2, <1>3, <1>4, <1>5, <1>6, <1>7, <1>8 DEF E!Next

\* No step leaves a ready export without its file.
LEMMA NextReferenced == E!TypeOK /\ Referenced /\ [E!Next]_E!vars => Referenced'
  <1> SUFFICES ASSUME E!TypeOK, Referenced, [E!Next]_E!vars PROVE Referenced'
    OBVIOUS
  <1> USE DEF E!TypeOK, Referenced, E!Rows, E!StoredFiles
  <1>1. ASSUME NEW r \in Requests, E!Raise(r) PROVE Referenced'
    BY <1>1 DEF E!Raise
  <1>2. ASSUME NEW r \in Requests, E!Withdraw(r) PROVE Referenced'
    BY <1>2 DEF E!Withdraw
  <1>3. ASSUME NEW r \in Requests, E!Timeout(r) PROVE Referenced'
    BY <1>3 DEF E!Timeout
  <1>4. ASSUME NEW r \in Requests, E!DeleteFile(r) PROVE Referenced'
    BY <1>4 DEF E!DeleteFile
  <1>5. ASSUME NEW w \in Exporters, NEW r \in Requests, E!ClaimExport(w, r) PROVE Referenced'
    BY <1>5 DEF E!ClaimExport
  <1>6. ASSUME NEW w \in Exporters, NEW r \in Requests, E!Write(w, r) PROVE Referenced'
    <2>1. CASE E!CheckGrant(w, r) \/ E!Render(w, r)
      BY <2>1 DEF E!CheckGrant, E!Render
    <2>3. CASE E!WriteObject(w, r)
      <3>1. UNCHANGED request
        BY <2>3 DEF E!WriteObject
      <3>2. \A q \in Requests : stored'[q].row = stored[q].row
        BY <2>3 DEF E!WriteObject
      <3> QED  BY <3>1, <3>2
    <2>4. CASE E!InsertFile(w, r)
      BY <2>4 DEF E!InsertFile
    <2>5. CASE E!MarkReady(w, r)
      BY <2>5 DEF E!MarkReady
    <2>6. CASE E!MarkFailed(w, r)
      <3>1. UNCHANGED stored
        BY <2>6 DEF E!MarkFailed
      <3>2. \A q \in Requests : /\ request'[q].file = request[q].file
                                /\ request'[q].state \in {"failed", request[q].state}
        BY <2>6 DEF E!MarkFailed
      <3> QED  BY <3>1, <3>2
    <2> QED  BY <1>6, <2>1, <2>3, <2>4, <2>5, <2>6 DEF E!Write
  <1>7. ASSUME NEW w \in Exporters, E!Die(w) PROVE Referenced'
    BY <1>7 DEF E!Die
  <1>8. CASE UNCHANGED E!vars
    BY <1>8 DEF E!vars
  <1> QED  BY <1>1, <1>2, <1>3, <1>4, <1>5, <1>6, <1>7, <1>8 DEF E!Next

\* A worker that takes an export somebody still works on overtakes it; any
\* other finds it with nobody, and it is let go with the answer.
LEMMA NextOneWorker == E!TypeOK /\ OneWorker /\ [E!Next]_E!vars => OneWorker'
  <1> SUFFICES ASSUME E!TypeOK, OneWorker, [E!Next]_E!vars PROVE OneWorker'
    OBVIOUS
  <1> USE DEF E!TypeOK, OneWorker
  <1>1. ASSUME NEW r \in Requests, E!Raise(r) PROVE OneWorker'
    BY <1>1 DEF E!Raise
  <1>2. ASSUME NEW r \in Requests, E!Withdraw(r) PROVE OneWorker'
    BY <1>2 DEF E!Withdraw
  <1>3. ASSUME NEW r \in Requests, E!Timeout(r) PROVE OneWorker'
    BY <1>3 DEF E!Timeout
  <1>4. ASSUME NEW r \in Requests, E!DeleteFile(r) PROVE OneWorker'
    BY <1>4 DEF E!DeleteFile
  <1>5. ASSUME NEW w \in Exporters, NEW r \in Requests, E!ClaimExport(w, r) PROVE OneWorker'
    BY <1>5 DEF E!ClaimExport, E!Worked, E!Unemployed
  <1>6. ASSUME NEW w \in Exporters, NEW r \in Requests, E!Write(w, r) PROVE OneWorker'
    <2>0. /\ doing[w][r] # "free"
          /\ \A v \in Exporters, q \in Requests : doing'[v][q] # "free" => doing[v][q] # "free"
      BY <1>6, OnlyWorkers DEF E!Write, E!CheckGrant, E!Render, E!WriteObject, E!InsertFile,
                               E!MarkReady, E!MarkFailed
    <2>1. UNCHANGED overtaken
      BY <1>6 DEF E!Write, E!CheckGrant, E!Render, E!WriteObject, E!InsertFile, E!MarkReady, E!MarkFailed
    <2>2. CASE UNCHANGED request
      BY <2>0, <2>1, <2>2
    <2>3. CASE /\ \A q \in Requests \ {r} : request'[q] = request[q]
               /\ doing'[w][r] = "free"
      BY <2>0, <2>1, <2>3
    <2>4. \/ UNCHANGED request
          \/ /\ \A q \in Requests \ {r} : request'[q] = request[q]
             /\ E!Step(w, r, "ready", "free") \/ E!Step(w, r, "fail", "free")
      BY <1>6 DEF E!Write, E!CheckGrant, E!Render, E!WriteObject, E!InsertFile, E!MarkReady, E!MarkFailed
    <2> QED  BY <2>2, <2>3, <2>4, OnlyWorkers
  <1>7. ASSUME NEW w \in Exporters, E!Die(w) PROVE OneWorker'
    BY <1>7 DEF E!Die
  <1>8. CASE UNCHANGED E!vars
    BY <1>8 DEF E!vars
  <1> QED  BY <1>1, <1>2, <1>3, <1>4, <1>5, <1>6, <1>7, <1>8 DEF E!Next

\* The invariant is inductive.
LEMMA NextExportsInv == ExportsInv /\ [E!Next]_E!vars => ExportsInv'
  BY NextExportsTypeOK, NextReferenced, NextOneWorker DEF ExportsInv

LEMMA ExportsInvariance == E!Spec => []ExportsInv
  <1>1. E!Init => ExportsInv
    BY InitExportsInv
  <1>2. ExportsInv /\ [E!Next]_E!vars => ExportsInv'
    BY NextExportsInv
  <1> QED  BY <1>1, <1>2, PTL DEF E!Spec

\* TypeOK: exports, their files and their workers keep their shape.
THEOREM ExportsTypeCorrect == E!Spec => []E!TypeOK
  BY ExportsInvariance, PTL DEF ExportsInv

\* ReadyHasFile: whatever deletes, dies or times out, an export that says it is
\* ready names a file that is recorded.
THEOREM ReadyNamesFile == E!Spec => []E!ReadyHasFile
  <1>1. ExportsInv => E!ReadyHasFile
    BY DEF ExportsInv, Referenced, E!ReadyHasFile
  <1> QED  BY <1>1, ExportsInvariance, PTL

\* One step leaves an answer as it is.
LEMMA StepAnswers ==
    ASSUME ExportsInv, [E!Next]_E!vars, NEW q \in Requests,
           request[q].state \in E!Answered, q \notin overtaken'
    PROVE  request'[q] = request[q]
  <1> USE DEF ExportsInv, E!TypeOK, OneWorker, E!Answered
  <1>0. overtaken \subseteq overtaken'
    BY DEF E!Next, E!vars, E!Raise, E!Withdraw, E!Timeout, E!DeleteFile, E!ClaimExport, E!Die, E!Write, E!CheckGrant,
           E!Render, E!WriteObject, E!InsertFile, E!MarkReady, E!MarkFailed
  <1>1. \A w \in Exporters : doing[w][q] = "free"
    BY <1>0
  <1>2. ASSUME NEW r \in Requests, E!Raise(r) \/ E!Timeout(r) PROVE request'[q] = request[q]
    BY <1>2 DEF E!Raise, E!Timeout
  <1>3. ASSUME NEW r \in Requests, E!Withdraw(r) \/ E!DeleteFile(r) PROVE request'[q] = request[q]
    BY <1>3 DEF E!Withdraw, E!DeleteFile
  <1>4. ASSUME NEW w \in Exporters, NEW r \in Requests, E!ClaimExport(w, r)
        PROVE request'[q] = request[q]
    BY <1>4 DEF E!ClaimExport
  <1>5. ASSUME NEW w \in Exporters, NEW r \in Requests, E!Write(w, r)
        PROVE request'[q] = request[q]
    <2>1. r # q
      BY <1>1, <1>5 DEF E!Write, E!CheckGrant, E!Render, E!WriteObject, E!InsertFile, E!MarkReady, E!MarkFailed, E!Step
    <2> QED  BY <1>5, <2>1 DEF E!Write, E!CheckGrant, E!Render, E!WriteObject, E!InsertFile, E!MarkReady, E!MarkFailed
  <1>6. ASSUME NEW w \in Exporters, E!Die(w) PROVE request'[q] = request[q]
    BY <1>6 DEF E!Die
  <1>7. CASE UNCHANGED E!vars
    BY <1>7 DEF E!vars
  <1> QED  BY <1>2, <1>3, <1>4, <1>5, <1>6, <1>7 DEF E!Next

\* AnswerStands: an export no worker was overtaken on is answered once, for any
\* number of workers, although the answer is written by id alone.
THEOREM AnsweredOnce == E!Spec => E!AnswerStands
  <1>1. ExportsInv /\ [E!Next]_E!vars =>
           [\A r \in Requests :
              request[r].state \in E!Answered /\ r \notin overtaken' => request'[r] = request[r]]_E!vars
    BY StepAnswers
  <1> QED  BY <1>1, ExportsInvariance, PTL DEF E!Spec, E!AnswerStands

---------------------------------------------------------------------------
(* The outbox.                                                             *)

\* A message is something, and carries an event.
LEMMA Carries ==
    ASSUME O!Sensible, NEW m \in O!Messages
    PROVE  m # O!Nobody /\ m.event \in O!Events
  BY DEF O!Sensible, O!Messages, O!Nobody, O!None, O!Events

\* What the broker takes back is a message about the same event.
LEMMA ReturnTyped ==
    ASSUME NEW m \in O!Messages
    PROVE  O!Returned(m) \in O!Messages /\ O!Returned(m).event = m.event
  BY DEF O!Messages, O!Returned

\* A consumer that has an answer has the message it answers, and what it accepts
\* has been done.
AnswersHeld ==
    \A c \in Consumers :
        /\ answer[c] # "none" => held[c] # O!Nobody
        /\ answer[c] = "ack" => held[c].event \in done

OutboxTyped == O!TypeOK /\ AnswersHeld

LEMMA InitOutboxTyped == O!Init => OutboxTyped
  BY DEF O!Init, OutboxTyped, O!TypeOK, AnswersHeld

\* The relay's side keeps its shape, and what arrives is a message.
LEMMA NextRelayTyped ==
    ASSUME O!Sensible, OutboxTyped, [O!Next]_O!vars
    PROVE  /\ outbox' \in [O!Events -> {"open", "undone", "waiting", "published"}]
           /\ pass' \in [Relays -> SUBSET O!Events]
           /\ marking' \in [Relays -> O!Events \cup {O!None}]
           /\ sent' \in [O!Events -> Nat]
           /\ faults' \in Nat
  <1> DEFINE Shaped == /\ outbox' \in [O!Events -> {"open", "undone", "waiting", "published"}]
                       /\ pass' \in [Relays -> SUBSET O!Events]
                       /\ marking' \in [Relays -> O!Events \cup {O!None}]
                       /\ sent' \in [O!Events -> Nat]
                       /\ faults' \in Nat
  <1>0. /\ outbox \in [O!Events -> {"open", "undone", "waiting", "published"}]
        /\ pass \in [Relays -> SUBSET O!Events]
        /\ marking \in [Relays -> O!Events \cup {O!None}]
        /\ sent \in [O!Events -> Nat]
        /\ faults \in Nat
    BY DEF OutboxTyped, O!TypeOK
  <1>f. O!Fault => faults' \in Nat
    BY <1>0 DEF O!Fault
  <1>1. ASSUME NEW e \in O!Events, O!Enqueue(e) PROVE Shaped
    BY <1>0, <1>1 DEF O!Enqueue
  <1>2. ASSUME NEW r \in Relays, O!ClaimUnpublished(r) PROVE Shaped
    <2>1. pass' \in [Relays -> SUBSET O!Events]
      BY <1>0, <1>2 DEF O!ClaimUnpublished, O!Unpublished
    <2> QED  BY <1>0, <1>2, <2>1 DEF O!ClaimUnpublished
  <1>3. ASSUME NEW r \in Relays, O!MarkPublished(r) PROVE Shaped
    BY <1>0, <1>3 DEF O!MarkPublished
  <1>4. ASSUME NEW r \in Relays, NEW e \in O!Events, O!Publish(r, e) PROVE Shaped
    <2>1. sent' \in [O!Events -> Nat]
      BY <1>0, <1>4 DEF O!Publish, O!Arrives
    <2>2. pass' \in [Relays -> SUBSET O!Events] /\ marking' \in [Relays -> O!Events \cup {O!None}]
      BY <1>0, <1>4 DEF O!Publish
    <2> QED  BY <1>0, <1>4, <2>1, <2>2 DEF O!Publish
  <1>5. ASSUME NEW r \in Relays, NEW e \in O!Events, O!PublishFails(r, e) PROVE Shaped
    <2>1. sent' \in [O!Events -> Nat]
      BY <1>0, <1>5 DEF O!PublishFails, O!Arrives
    <2>2. faults' \in Nat
      BY <1>0, <1>5, <1>f DEF O!PublishFails
    <2>3. pass' \in [Relays -> SUBSET O!Events]
      BY <1>0, <1>5 DEF O!PublishFails
    <2> QED  BY <1>0, <1>5, <2>1, <2>2, <2>3 DEF O!PublishFails
  <1>6. ASSUME NEW r \in Relays, O!RelayStops(r) PROVE Shaped
    <2>1. pass' \in [Relays -> SUBSET O!Events] /\ marking' \in [Relays -> O!Events \cup {O!None}]
      BY <1>0, <1>6 DEF O!RelayStops
    <2> QED  BY <1>0, <1>6, <1>f, <2>1 DEF O!RelayStops
  <1>7. ASSUME NEW c \in Consumers,
               O!Handle(c) \/ O!Answer(c) \/ O!ConsumerStops(c) \/ \E m \in queue : O!Deliver(c, m)
        PROVE  Shaped
    BY <1>0, <1>7, <1>f DEF O!Handle, O!Answer, O!ConsumerStops, O!Deliver
  <1>8. ASSUME O!BrokerStops \/ O!BrokerReturns PROVE Shaped
    BY <1>0, <1>8, <1>f DEF O!BrokerStops, O!BrokerReturns
  <1>9. ASSUME UNCHANGED O!vars PROVE Shaped
    BY <1>0, <1>9 DEF O!vars
  <1> HIDE DEF Shaped
  <1>10. Shaped
    BY <1>1, <1>2, <1>3, <1>4, <1>5, <1>6, <1>7, <1>8, <1>9 DEF O!Next, O!Relay
  <1> QED  BY <1>10 DEF Shaped

\* The broker's side keeps its shape.
BrokerInv == /\ queue \in SUBSET O!Messages
             /\ held \in [Consumers -> O!Messages \cup {O!Nobody}]
             /\ answer \in [Consumers -> {"none", "ack", "reject", "requeue"}]
             /\ done \in SUBSET O!Events
             /\ up \in BOOLEAN
             /\ AnswersHeld

LEMMA NextBrokerTyped ==
    ASSUME O!Sensible, OutboxTyped, [O!Next]_O!vars
    PROVE  BrokerInv'
  <1>0. BrokerInv /\ sent \in [O!Events -> Nat]
    BY DEF OutboxTyped, O!TypeOK, BrokerInv
  <1> USE DEF BrokerInv, AnswersHeld
  <1>1. ASSUME NEW e \in O!Events, O!Arrives(e) PROVE queue' \in SUBSET O!Messages
    BY <1>0, <1>1 DEF O!Arrives, O!Messages
  <1>2. CASE UNCHANGED <<queue, held, answer, done, up>>
    BY <1>0, <1>2
  <1>3. ASSUME NEW r \in Relays, NEW e \in O!Events, O!Publish(r, e) PROVE BrokerInv'
    BY <1>0, <1>1, <1>3 DEF O!Publish
  <1>4. ASSUME NEW r \in Relays, NEW e \in O!Events, O!PublishFails(r, e) PROVE BrokerInv'
    <2>1. queue' \in SUBSET O!Messages
      BY <1>0, <1>1, <1>4 DEF O!PublishFails
    <2> QED  BY <1>0, <1>4, <2>1 DEF O!PublishFails
  <1>5. ASSUME NEW c \in Consumers, NEW m \in queue, O!Deliver(c, m) PROVE BrokerInv'
    <2>1. /\ m \in O!Messages /\ m # O!Nobody /\ answer[c] = "none"
          /\ held' = [held EXCEPT ![c] = m] /\ queue' = queue \ {m}
          /\ UNCHANGED <<answer, done, up>>
      BY <1>0, <1>5, Carries DEF O!Deliver
    <2>2. held' \in [Consumers -> O!Messages \cup {O!Nobody}]
      BY <1>0, <2>1
    <2>3. \A d \in Consumers \ {c} : held'[d] = held[d]
      BY <1>0, <2>1
    <2> QED  BY <1>0, <2>1, <2>2, <2>3
  <1>6. ASSUME NEW c \in Consumers, O!Handle(c) PROVE BrokerInv'
    <2>1. held[c] # O!Nobody /\ held[c] \in O!Messages /\ held[c].event \in O!Events
      BY <1>0, <1>6, Carries DEF O!Handle
    <2>2. PICK a \in {"ack", "reject", "requeue"} :
             /\ answer' = [answer EXCEPT ![c] = a]
             /\ done' = done \cup {held[c].event} \/ (a # "ack" /\ UNCHANGED done)
             /\ UNCHANGED <<queue, held, up>>
      BY <1>6 DEF O!Handle
    <2>3. /\ answer' \in [Consumers -> {"none", "ack", "reject", "requeue"}]
          /\ done' \in SUBSET O!Events /\ done \subseteq done'
      BY <1>0, <2>1, <2>2
    <2>4. \A d \in Consumers \ {c} : answer'[d] = answer[d]
      BY <1>0, <2>2
    <2>5. answer'[c] = a
      BY <1>0, <2>2
    <2> QED  BY <1>0, <2>1, <2>2, <2>3, <2>4, <2>5
  <1>7. ASSUME NEW c \in Consumers, O!Release(c)
        PROVE  /\ held' \in [Consumers -> O!Messages \cup {O!Nobody}]
               /\ answer' \in [Consumers -> {"none", "ack", "reject", "requeue"}]
               /\ answer'[c] = "none"
               /\ \A d \in Consumers \ {c} : held'[d] = held[d] /\ answer'[d] = answer[d]
    BY <1>0, <1>7 DEF O!Release
  <1>8. ASSUME NEW c \in Consumers, O!Answer(c) PROVE BrokerInv'
    <2>1. held[c] \in O!Messages /\ held[c].event \in O!Events /\ O!Returned(held[c]) \in O!Messages
      BY <1>0, <1>8, Carries, ReturnTyped DEF O!Answer
    <2>2. done' \in SUBSET O!Events /\ done \subseteq done' /\ queue' \in SUBSET O!Messages
      BY <1>0, <1>8, <2>1 DEF O!Answer
    <2>3. O!Release(c) /\ UNCHANGED up
      BY <1>8 DEF O!Answer
    <2> QED  BY <1>0, <1>7, <2>2, <2>3
  <1>9. ASSUME NEW c \in Consumers, O!ConsumerStops(c) PROVE BrokerInv'
    <2>1. O!Returned(held[c]) \in O!Messages
      BY <1>0, <1>9, ReturnTyped DEF O!ConsumerStops
    <2>2. O!Release(c) /\ UNCHANGED <<up, done>> /\ queue' = queue \cup {O!Returned(held[c])}
      BY <1>9 DEF O!ConsumerStops
    <2> QED  BY <1>0, <1>7, <2>1, <2>2
  <1>10. CASE O!BrokerStops
    <2>1. \A d \in Consumers : held[d] # O!Nobody => O!Returned(held[d]) \in O!Messages
      BY <1>0, ReturnTyped
    <2>2. queue' \in SUBSET O!Messages
      BY <1>0, <1>10, <2>1 DEF O!BrokerStops
    <2> QED  BY <1>0, <1>10, <2>2 DEF O!BrokerStops
  <1>11. CASE O!BrokerReturns
    BY <1>0, <1>11 DEF O!BrokerReturns
  <1>12. ASSUME NEW e \in O!Events, O!Enqueue(e) PROVE BrokerInv'
    BY <1>2, <1>12 DEF O!Enqueue
  <1>13. ASSUME NEW r \in Relays, O!ClaimUnpublished(r) \/ O!MarkPublished(r) \/ O!RelayStops(r)
         PROVE  BrokerInv'
    BY <1>2, <1>13 DEF O!ClaimUnpublished, O!MarkPublished, O!RelayStops
  <1>14. CASE UNCHANGED O!vars
    BY <1>2, <1>14 DEF O!vars
  <1> HIDE DEF BrokerInv, AnswersHeld
  <1> QED  BY <1>3, <1>4, <1>5, <1>6, <1>8, <1>9, <1>10, <1>11, <1>12, <1>13, <1>14 DEF O!Next, O!Relay

LEMMA NextOutboxTyped == O!Sensible /\ OutboxTyped /\ [O!Next]_O!vars => OutboxTyped'
  BY NextRelayTyped, NextBrokerTyped DEF OutboxTyped, O!TypeOK, BrokerInv

-----------------------------------------------------------------------------
\* Where an event is that the broker has had.
Located(e) == e \in O!Queued \cup O!InHand \cup done

\* What a relay has published and not yet marked has reached the broker.
NotLost ==
    /\ \A e \in O!Events : outbox[e] = "published" => Located(e)
    /\ \A r \in Relays, e \in O!Events : marking[r] = e => Located(e)

\* A message in the queue, with a consumer, or of an event that is done.
LEMMA WhereItIs ==
    ASSUME NEW e
    PROVE  Located(e) <=> \/ \E m \in queue : m.event = e
                          \/ \E c \in Consumers : held[c] # O!Nobody /\ held[c].event = e
                          \/ e \in done
  BY DEF Located, O!Queued, O!InHand

\* Nothing that happens to the broker or its consumers loses an event.
LEMMA StaysLocated ==
    ASSUME O!Sensible, OutboxTyped, [O!Next]_O!vars, NEW e \in O!Events, Located(e)
    PROVE  Located(e)'
  <1>0. BrokerInv /\ Located(e)
    BY DEF OutboxTyped, O!TypeOK, BrokerInv
  <1>w. Located(e)' <=> \/ \E m \in queue' : m.event = e
                        \/ \E c \in Consumers : held'[c] # O!Nobody /\ held'[c].event = e
                        \/ e \in done'
    BY DEF Located, O!Queued, O!InHand
  <1>1. CASE queue \subseteq queue' /\ done \subseteq done' /\ UNCHANGED held
    BY <1>0, <1>1, <1>w, WhereItIs
  <1>2. ASSUME NEW r \in Relays, NEW d \in O!Events, O!Publish(r, d) \/ O!PublishFails(r, d)
        PROVE  Located(e)'
    BY <1>1, <1>2 DEF O!Publish, O!PublishFails, O!Arrives
  <1>3. ASSUME NEW c \in Consumers, NEW m \in queue, O!Deliver(c, m) PROVE Located(e)'
    <2>1. /\ held[c] = O!Nobody /\ m # O!Nobody
          /\ queue' = queue \ {m} /\ held' = [held EXCEPT ![c] = m] /\ UNCHANGED done
      BY <1>0, <1>3, Carries DEF O!Deliver, BrokerInv
    <2>2. held'[c] = m /\ \A d \in Consumers \ {c} : held'[d] = held[d]
      BY <1>0, <2>1 DEF BrokerInv
    <2> QED  BY <1>0, <1>w, <2>1, <2>2, WhereItIs
  <1>4. ASSUME NEW c \in Consumers, O!Handle(c) PROVE Located(e)'
    BY <1>1, <1>4 DEF O!Handle
  <1>5. ASSUME NEW c \in Consumers, O!Answer(c) PROVE Located(e)'
    <2>1. /\ held[c] \in O!Messages /\ O!Returned(held[c]).event = held[c].event
          /\ O!Returned(held[c]) \in O!Messages
      BY <1>0, <1>5, ReturnTyped DEF O!Answer, BrokerInv, AnswersHeld
    <2>2. \A d \in Consumers \ {c} : held'[d] = held[d]
      BY <1>0, <1>5 DEF O!Answer, O!Release, BrokerInv
    <2>3. queue \subseteq queue' /\ done \subseteq done'
      BY <1>5 DEF O!Answer
    <2>4. held[c].event \in done' \/ \E m \in queue' : m.event = held[c].event
      BY <1>0, <1>5, <2>1 DEF O!Answer, BrokerInv, AnswersHeld
    <2> QED  BY <1>0, <1>w, <2>2, <2>3, <2>4, WhereItIs
  <1>6. ASSUME NEW c \in Consumers, O!ConsumerStops(c) PROVE Located(e)'
    <2>1. /\ held[c] \in O!Messages /\ O!Returned(held[c]).event = held[c].event
      BY <1>0, <1>6, ReturnTyped DEF O!ConsumerStops, BrokerInv
    <2>2. \A d \in Consumers \ {c} : held'[d] = held[d]
      BY <1>0, <1>6 DEF O!ConsumerStops, O!Release, BrokerInv
    <2>3. queue' = queue \cup {O!Returned(held[c])} /\ UNCHANGED done
      BY <1>6 DEF O!ConsumerStops
    <2> QED  BY <1>0, <1>w, <2>1, <2>2, <2>3, WhereItIs
  <1>7. CASE O!BrokerStops
    <2>1. /\ queue' = queue \cup {O!Returned(held[c]) : c \in {d \in Consumers : held[d] # O!Nobody}}
          /\ UNCHANGED done
      BY <1>7 DEF O!BrokerStops
    <2>2. \A c \in Consumers : held[c] # O!Nobody =>
            O!Returned(held[c]) \in queue' /\ O!Returned(held[c]).event = held[c].event
      BY <1>0, <2>1, ReturnTyped DEF BrokerInv
    <2> QED  BY <1>0, <1>w, <2>1, <2>2, WhereItIs
  <1>8. CASE O!BrokerReturns
    BY <1>1, <1>8 DEF O!BrokerReturns
  <1>9. ASSUME NEW d \in O!Events, O!Enqueue(d) PROVE Located(e)'
    BY <1>1, <1>9 DEF O!Enqueue
  <1>10. ASSUME NEW r \in Relays, O!ClaimUnpublished(r) \/ O!MarkPublished(r) \/ O!RelayStops(r)
         PROVE  Located(e)'
    BY <1>1, <1>10 DEF O!ClaimUnpublished, O!MarkPublished, O!RelayStops
  <1>11. CASE UNCHANGED O!vars
    BY <1>1, <1>11 DEF O!vars
  <1> QED  BY <1>2, <1>3, <1>4, <1>5, <1>6, <1>7, <1>8, <1>9, <1>10, <1>11 DEF O!Next, O!Relay

\* A row is marked only behind its message.
LEMMA NextNotLost ==
    ASSUME O!Sensible, OutboxTyped, NotLost, [O!Next]_O!vars
    PROVE  NotLost'
  <1>0. /\ outbox \in [O!Events -> {"open", "undone", "waiting", "published"}]
        /\ marking \in [Relays -> O!Events \cup {O!None}]
        /\ O!None \notin O!Events
    BY DEF OutboxTyped, O!TypeOK, O!Sensible, O!None, O!Events
  <1>1. \A e \in O!Events : Located(e) => Located(e)'
    BY StaysLocated
  <1>2. ASSUME \A e \in O!Events : outbox'[e] = "published" => outbox[e] = "published" \/ Located(e),
               \A r \in Relays, e \in O!Events : marking'[r] = e => marking[r] = e
        PROVE  NotLost'
    BY <1>0, <1>1, <1>2 DEF NotLost
  <1>3. ASSUME NEW e \in O!Events, O!Enqueue(e) PROVE NotLost'
    BY <1>0, <1>2, <1>3 DEF O!Enqueue
  <1>4. ASSUME NEW r \in Relays, O!MarkPublished(r) PROVE NotLost'
    <2>1. marking[r] \in O!Events /\ Located(marking[r])
      BY <1>0, <1>4 DEF O!MarkPublished, NotLost
    <2> QED  BY <1>0, <1>2, <1>4, <2>1 DEF O!MarkPublished
  <1>5. ASSUME NEW r \in Relays, NEW e \in O!Events, O!Publish(r, e) PROVE NotLost'
    <2>1. [event |-> e, copy |-> sent[e] + 1, returns |-> 0] \in queue'
      BY <1>5 DEF O!Publish, O!Arrives
    <2>2. Located(e)'
      BY <2>1 DEF Located, O!Queued
    <2>3. UNCHANGED outbox /\ marking' = [marking EXCEPT ![r] = e]
      BY <1>5 DEF O!Publish
    <2>4. \A d \in O!Events : outbox'[d] = "published" => Located(d)'
      BY <1>1, <2>3 DEF NotLost
    <2>5. \A q \in Relays, d \in O!Events : marking'[q] = d => d = e \/ marking[q] = d
      BY <1>0, <2>3
    <2>6. \A q \in Relays, d \in O!Events : marking'[q] = d => Located(d)'
      BY <1>1, <2>2, <2>5 DEF NotLost
    <2> QED  BY <2>4, <2>6 DEF NotLost
  <1>6. ASSUME NEW r \in Relays, O!RelayStops(r) PROVE NotLost'
    BY <1>0, <1>2, <1>6 DEF O!RelayStops
  <1>7. ASSUME UNCHANGED <<outbox, marking>> PROVE NotLost'
    BY <1>0, <1>2, <1>7
  <1>8. ASSUME NEW r \in Relays, NEW e \in O!Events, O!ClaimUnpublished(r) \/ O!PublishFails(r, e)
        PROVE  NotLost'
    BY <1>7, <1>8 DEF O!ClaimUnpublished, O!PublishFails
  <1>9. ASSUME NEW r \in Relays, O!ClaimUnpublished(r) PROVE NotLost'
    BY <1>7, <1>9 DEF O!ClaimUnpublished
  <1>10. ASSUME NEW c \in Consumers,
                O!Handle(c) \/ O!Answer(c) \/ O!ConsumerStops(c) \/ \E m \in queue : O!Deliver(c, m)
         PROVE  NotLost'
    BY <1>7, <1>10 DEF O!Handle, O!Answer, O!ConsumerStops, O!Deliver
  <1>11. ASSUME O!BrokerStops \/ O!BrokerReturns \/ UNCHANGED O!vars PROVE NotLost'
    BY <1>7, <1>11 DEF O!BrokerStops, O!BrokerReturns, O!vars
  <1> QED  BY <1>3, <1>4, <1>5, <1>6, <1>8, <1>9, <1>10, <1>11 DEF O!Next, O!Relay

-----------------------------------------------------------------------------
\* What relays hold, and what the broker has had, was committed.
Committed == {e \in O!Events : outbox[e] \in {"waiting", "published"}}

OnlyCommitted ==
    /\ \A r \in Relays : pass[r] \subseteq Committed /\ marking[r] \in Committed \cup {O!None}
    /\ \A e \in O!Events : sent[e] > 0 => e \in Committed

\* A step commits an event, or sends a committed one, or neither.
LEMMA NextCommitted ==
    ASSUME OutboxTyped, OnlyCommitted, [O!Next]_O!vars
    PROVE  /\ OnlyCommitted'
           /\ \/ UNCHANGED <<Committed, sent>>
              \/ /\ UNCHANGED sent
                 /\ \E e \in O!Events \ Committed : Committed' = Committed \cup {e}
              \/ /\ UNCHANGED Committed
                 /\ \E e \in Committed : sent' = [sent EXCEPT ![e] = @ + 1]
  <1> DEFINE Goal ==
           /\ OnlyCommitted'
           /\ \/ UNCHANGED <<Committed, sent>>
              \/ /\ UNCHANGED sent
                 /\ \E e \in O!Events \ Committed : Committed' = Committed \cup {e}
              \/ /\ UNCHANGED Committed
                 /\ \E e \in Committed : sent' = [sent EXCEPT ![e] = @ + 1]
  <1>0. /\ outbox \in [O!Events -> {"open", "undone", "waiting", "published"}]
        /\ marking \in [Relays -> O!Events \cup {O!None}]
        /\ pass \in [Relays -> SUBSET O!Events]
        /\ sent \in [O!Events -> Nat]
    BY DEF OutboxTyped, O!TypeOK
  <1>1. ASSUME NEW e \in O!Events, O!Enqueue(e) PROVE Goal
    <2>1. PICK how \in {"waiting", "undone"} : outbox' = [outbox EXCEPT ![e] = how]
      BY <1>1 DEF O!Enqueue
    <2>2. e \notin Committed /\ UNCHANGED <<sent, pass, marking>>
      BY <1>1 DEF O!Enqueue, Committed
    <2>3. Committed' = IF how = "waiting" THEN Committed \cup {e} ELSE Committed
      BY <1>0, <2>1, <2>2 DEF Committed
    <2> QED  BY <2>2, <2>3 DEF OnlyCommitted
  <1>2. ASSUME NEW r \in Relays, O!ClaimUnpublished(r) PROVE Goal
    <2>1. UNCHANGED <<outbox, sent, marking>> /\ UNCHANGED Committed
      BY <1>2 DEF O!ClaimUnpublished, Committed
    <2>2. O!Unpublished \subseteq Committed
      BY DEF O!Unpublished, Committed
    <2>3. \A q \in Relays : pass'[q] \subseteq pass[q] \cup O!Unpublished
      BY <1>0, <1>2 DEF O!ClaimUnpublished
    <2> QED  BY <2>1, <2>2, <2>3 DEF OnlyCommitted
  <1>3. ASSUME NEW r \in Relays, O!MarkPublished(r) PROVE Goal
    <2>1. UNCHANGED <<pass, sent>> /\ marking[r] \in Committed
          /\ outbox' = [outbox EXCEPT ![marking[r]] = "published"]
          /\ marking' = [marking EXCEPT ![r] = O!None]
      BY <1>3 DEF O!MarkPublished, OnlyCommitted
    <2>2. UNCHANGED Committed
      BY <1>0, <2>1 DEF Committed
    <2> QED  BY <1>0, <2>1, <2>2 DEF OnlyCommitted
  <1>4. ASSUME NEW r \in Relays, NEW e \in O!Events, O!Publish(r, e) \/ O!PublishFails(r, e) PROVE Goal
    <2>1. e \in Committed /\ UNCHANGED outbox /\ UNCHANGED Committed
      BY <1>4 DEF O!Publish, O!PublishFails, O!Turn, OnlyCommitted, Committed
    <2>2. \A q \in Relays : pass'[q] \subseteq pass[q] /\ marking'[q] \in {marking[q], e}
      BY <1>0, <1>4 DEF O!Publish, O!PublishFails
    <2>3. UNCHANGED sent \/ sent' = [sent EXCEPT ![e] = @ + 1]
      BY <1>4 DEF O!Publish, O!PublishFails, O!Arrives
    <2>4. OnlyCommitted'
      BY <1>0, <2>1, <2>2, <2>3 DEF OnlyCommitted
    <2> QED  BY <2>1, <2>3, <2>4
  <1>5. ASSUME NEW r \in Relays, O!RelayStops(r) PROVE Goal
    <2>1. UNCHANGED <<outbox, sent>> /\ UNCHANGED Committed
      BY <1>5 DEF O!RelayStops, Committed
    <2>2. \A q \in Relays : pass'[q] \subseteq pass[q] /\ marking'[q] \in {marking[q], O!None}
      BY <1>0, <1>5 DEF O!RelayStops
    <2> QED  BY <2>1, <2>2 DEF OnlyCommitted
  <1>6. ASSUME UNCHANGED <<outbox, pass, marking, sent>> PROVE Goal
    BY <1>6 DEF OnlyCommitted, Committed
  <1>7. ASSUME NEW c \in Consumers,
               O!Handle(c) \/ O!Answer(c) \/ O!ConsumerStops(c) \/ \E m \in queue : O!Deliver(c, m)
        PROVE  Goal
    BY <1>6, <1>7 DEF O!Handle, O!Answer, O!ConsumerStops, O!Deliver
  <1>8. ASSUME O!BrokerStops \/ O!BrokerReturns \/ UNCHANGED O!vars PROVE Goal
    BY <1>6, <1>8 DEF O!BrokerStops, O!BrokerReturns, O!vars
  <1> HIDE DEF Goal
  <1>9. Goal
    BY <1>1, <1>2, <1>3, <1>4, <1>5, <1>7, <1>8 DEF O!Next, O!Relay
  <1> QED  BY <1>9 DEF Goal

-----------------------------------------------------------------------------
OutboxInv == OutboxTyped /\ NotLost /\ OnlyCommitted

LEMMA InitOutboxInv == O!Sensible /\ O!Init => OutboxInv
  <1> SUFFICES ASSUME O!Sensible, O!Init PROVE OutboxInv
    OBVIOUS
  <1>1. OutboxTyped
    BY InitOutboxTyped
  <1>2. NotLost /\ OnlyCommitted
    BY DEF O!Init, NotLost, OnlyCommitted, O!Sensible, O!None, O!Events
  <1> QED  BY <1>1, <1>2 DEF OutboxInv

LEMMA NextOutboxInv == O!Sensible /\ OutboxInv /\ [O!Next]_O!vars => OutboxInv'
  BY NextOutboxTyped, NextNotLost, NextCommitted DEF OutboxInv

LEMMA OutboxInvariance ==
    ASSUME O!Sensible
    PROVE  O!Spec => []OutboxInv
  <1>1. O!Init => OutboxInv
    BY InitOutboxInv
  <1>2. OutboxInv /\ [O!Next]_O!vars => OutboxInv'
    BY NextOutboxInv
  <1> QED  BY <1>1, <1>2, PTL DEF O!Spec

\* TypeOK: rows, passes, messages and answers keep their shape.
THEOREM OutboxTypeCorrect ==
    ASSUME O!Sensible
    PROVE  O!Spec => []O!TypeOK
  <1>1. OutboxInv => O!TypeOK
    BY DEF OutboxInv, OutboxTyped
  <1> QED  BY <1>1, OutboxInvariance, PTL

\* NothingLost: an event marked published is in the queue, with a consumer, or
\* done with, for any number of relays and consumers and any number of crashes,
\* lost answers and outages.
THEOREM NothingIsLost ==
    ASSUME O!Sensible
    PROVE  O!Spec => []O!NothingLost
  <1>1. OutboxInv => O!NothingLost
    BY DEF OutboxInv, NotLost, Located, O!NothingLost
  <1> QED  BY <1>1, OutboxInvariance, PTL

\* One step of the outbox is a step of the promise, or none of its business.
LEMMA StepPromised ==
    ASSUME OutboxInv, [O!Next]_O!vars
    PROVE  [O!Promise!Next]_<<{e \in O!Events : outbox[e] \in {"waiting", "published"}},
                            {e \in O!Events : sent[e] > 0}>>
  <1> DEFINE arrived == {e \in O!Events : sent[e] > 0}
  <1>0. sent \in [O!Events -> Nat] /\ arrived \subseteq Committed
    BY DEF OutboxInv, OutboxTyped, O!TypeOK, OnlyCommitted
  <1>1. CASE UNCHANGED <<Committed, sent>>
    BY <1>1 DEF Committed
  <1>2. CASE UNCHANGED sent /\ \E e \in O!Events \ Committed : Committed' = Committed \cup {e}
    BY <1>2 DEF Committed, O!Promise!Next, O!Promise!Announce
  <1>3. CASE UNCHANGED Committed /\ \E e \in Committed : sent' = [sent EXCEPT ![e] = @ + 1]
    <2>1. PICK e \in Committed : sent' = [sent EXCEPT ![e] = @ + 1]
      BY <1>3
    <2>2. e \in O!Events
      BY DEF Committed
    <2>3. arrived' = arrived \cup {e}
      BY <1>0, <2>1, <2>2
    <2> QED  BY <1>3, <2>2, <2>3 DEF Committed, O!Promise!Next, O!Promise!Arrive
  <1> QED  BY <1>1, <1>2, <1>3, NextCommitted DEF OutboxInv

\* The safety half of Announces: the outbox never tells of what was not
\* committed, and takes nothing back.  That what was committed arrives is left
\* to the model checker.
THEOREM StepsAsPromised ==
    ASSUME O!Sensible
    PROVE  O!Spec => /\ O!Promise!Init
                     /\ [][O!Promise!Next]_<<{e \in O!Events : outbox[e] \in {"waiting", "published"}},
                                           {e \in O!Events : sent[e] > 0}>>
  <1>1. O!Init => O!Promise!Init
    BY DEF O!Init, O!Promise!Init
  <1>2. OutboxInv /\ [O!Next]_O!vars =>
          [O!Promise!Next]_<<{e \in O!Events : outbox[e] \in {"waiting", "published"}},
                           {e \in O!Events : sent[e] > 0}>>
    BY StepPromised
  <1> QED  BY <1>1, <1>2, OutboxInvariance, PTL DEF O!Spec
---------------------------------------------------------------------------
(* The three put together, as the model checker looks at them.             *)

\* A behaviour of the whole is one of each of its parts: a step of one kind of
\* work leaves the other two as they are.
LEMMA EachPartRuns == MCSpec => Spec /\ E!Spec /\ O!Spec
  <1>1. MCInit => Init /\ E!Init /\ O!Init
    BY DEF MCInit
  <1>2. [MCNext]_<<vars, exportVars, outboxVars, work>> =>
          [Next]_vars /\ [E!Next]_E!vars /\ [O!Next]_O!vars
    <2>1. exportVars = E!vars /\ outboxVars = O!vars
      BY DEF exportVars, outboxVars, E!vars, O!vars
    <2>2. exportVars' = E!vars' /\ outboxVars' = O!vars'
      BY DEF exportVars, outboxVars, E!vars, O!vars
    <2> QED  BY <2>1, <2>2 DEF MCNext
  <1> QED  BY <1>1, <1>2, PTL DEF MCSpec, Spec, E!Spec, O!Spec

\* TypesOK: whichever work is done, all three keep their shape.
THEOREM AllTyped == MCSpec => []TypesOK
  <1>1. TypeOK /\ E!TypeOK /\ O!TypeOK => TypesOK
    BY DEF TypesOK
  <1>2. O!Spec => []O!TypeOK
    BY EventsSensible, OutboxTypeCorrect
  <1> QED  BY <1>1, <1>2, EachPartRuns, TypeCorrect, ExportsTypeCorrect, PTL

\* The bytes of uploads, among the other work (StoredHasBytes, KeptSomewhere),
\* and what is told of them (ToldAsItIs).
THEOREM UploadsSound == MCSpec => [](StoredHasBytes /\ KeptSomewhere /\ ToldAsItIs)
  BY EachPartRuns, BytesBehindRows, BytesSurvive, EventsAgree, PTL

\* ReadyHasFile: an export that says it is ready names a recorded file.
THEOREM ExportsReady == MCSpec => []ReadyHasFile
  <1>1. E!ReadyHasFile => ReadyHasFile
    BY DEF ReadyHasFile
  <1> QED  BY <1>1, EachPartRuns, ReadyNamesFile, PTL

\* NothingLost: no event the relay marked published is lost.
THEOREM EventsKept == MCSpec => []NothingLost
  <1>1. O!NothingLost => NothingLost
    BY DEF NothingLost
  <1>2. O!Spec => []O!NothingLost
    BY EventsSensible, NothingIsLost
  <1> QED  BY <1>1, <1>2, EachPartRuns, PTL

\* FinishedStays and AnswerStands: what was answered about an upload or an
\* export is not answered again.
THEOREM AnswersFinal == MCSpec => FinishedStays /\ AnswerStands
  BY EachPartRuns, FinishedForGood, AnsweredOnce, PTL DEF AnswerStands
=============================================================================
