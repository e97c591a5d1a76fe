------------------------------ MODULE Uploads ------------------------------
(***************************************************************************)
(* An upload is a row of file_uploads and an object in storage, and no     *)
(* transaction spans the two.  The request writes the bytes to quarantine, *)
(* records the row and dispatches a worker; the verifier polls for rows    *)
(* nobody finished; the sweeper removes rows that waited too long; a       *)
(* person may delete a file at any moment.                                 *)
(*                                                                         *)
(* A worker claims rows under a lease (claimed_at), works from the copies  *)
(* the claim returned, one row after another, and writes each outcome back *)
(* by id alone.                                                            *)
(***************************************************************************)
EXTENDS Naturals, FiniteSets

CONSTANTS Files,       \* the uploads
          Workers,     \* the tasks that verify: poll loops and fast paths
          MaxAttempts, \* storage.jobs.max_attempts
          Batch,       \* storage.jobs.concurrency: rows one poll may claim
          MaxCrashes,  \* bound: how often a worker dies in the middle
          MaxLapses    \* bound: how often a lease runs out

ASSUME UploadsAssumption ==
    /\ IsFiniteSet(Files)
    /\ MaxAttempts \in Nat \ {0}
    /\ Batch \in Nat \ {0}
    /\ MaxCrashes \in Nat
    /\ MaxLapses \in Nat

VARIABLES row,       \* file_uploads
          bytes,     \* the places that hold the bytes of a file
          verdict,   \* what inspecting the bytes says, the same every time
          told,      \* the events committed to the outbox, by kind
          at,        \* how far a worker is with a row it claimed
          copy,      \* what the claim returned of that row
          removal,   \* the removal of a file under way, if any
          disturbed, \* history: what befell a file behind a worker's back
          crashes, lapses

vars == <<row, bytes, verdict, told, at, copy, removal, disturbed, crashes, lapses>>

Waiting  == {"received", "verifying"}
Finished == {"stored", "rejected", "failed"}
NoRow    == {"new", "gone"}
Leases   == {"none", "held", "lapsed"}
Places   == {"quarantine", "bucket"}
Steps    == {"free", "queued", "stat", "read", "promote", "commit", "undo",
             "refuse", "reject", "requeue", "giveup"}
Verdicts == {"accepted", "refused"}
\* Its lease ran out under a holder and another worker has it; somebody set
\* out to remove it; a commit's answer was lost; both places hold its bytes.
Disturbances == {"overtaken", "removed", "unsure", "doubled"}

\* quarantined and placed: whether quarantine_key and storage_key are set.
\* Both keys are functions of the row, so which key it is is no choice.
Rows == [status: NoRow \cup Waiting \cup Finished, lease: Leases,
         attempts: Nat, quarantined: BOOLEAN, placed: BOOLEAN]
Empty(status) == [status |-> status, lease |-> "none", attempts |-> 0,
                  quarantined |-> FALSE, placed |-> FALSE]

Copies == [attempts: Nat, quarantined: BOOLEAN]
NoCopy == [attempts |-> 0, quarantined |-> FALSE]

\* A removal: who removes, and the place its copy of the row names.
Removals  == [by: {"nobody", "sweeper", "person"}, aims: SUBSET Places, bytesGone: BOOLEAN]
NoRemoval == [by |-> "nobody", aims |-> {}, bytesGone |-> FALSE]

TypeOK ==
    /\ row \in [Files -> Rows]
    /\ bytes \in [Files -> SUBSET Places]
    /\ verdict \in [Files -> Verdicts]
    /\ told \in [Files -> [stored: Nat, rejected: Nat]]
    /\ at \in [Workers -> [Files -> Steps]]
    /\ copy \in [Workers -> [Files -> Copies]]
    /\ removal \in [Files -> Removals]
    /\ disturbed \in [Files -> SUBSET Disturbances]
    /\ crashes \in 0 .. MaxCrashes
    /\ lapses \in 0 .. MaxLapses

Init ==
    /\ row = [f \in Files |-> Empty("new")]
    /\ bytes = [f \in Files |-> {}]
    /\ verdict \in [Files -> Verdicts]
    /\ told = [f \in Files |-> [stored |-> 0, rejected |-> 0]]
    /\ at = [w \in Workers |-> [f \in Files |-> "free"]]
    /\ copy = [w \in Workers |-> [f \in Files |-> NoCopy]]
    /\ removal = [f \in Files |-> NoRemoval]
    /\ disturbed = [f \in Files |-> {}]
    /\ crashes = 0
    /\ lapses = 0

---------------------------------------------------------------------------
(* The request.                                                            *)

\* The bytes are written to quarantine before there is a row.
Receive(f) ==
    /\ row[f].status = "new"
    /\ bytes[f] = {}
    /\ bytes' = [bytes EXCEPT ![f] = {"quarantine"}]
    /\ UNCHANGED <<row, verdict, told, at, copy, removal, disturbed, crashes, lapses>>

Record(f) ==
    /\ row[f].status = "new"
    /\ bytes[f] # {}
    /\ row' = [row EXCEPT ![f] = [Empty("received") EXCEPT !.quarantined = TRUE]]
    /\ UNCHANGED <<bytes, verdict, told, at, copy, removal, disturbed, crashes, lapses>>

\* The insert fails: the bytes are discarded, or are left behind when that
\* fails too.
Discard(f) ==
    /\ row[f].status = "new"
    /\ bytes[f] # {}
    /\ row' = [row EXCEPT ![f] = Empty("gone")]
    /\ \E left \in SUBSET bytes[f] : bytes' = [bytes EXCEPT ![f] = left]
    /\ UNCHANGED <<verdict, told, at, copy, removal, disturbed, crashes, lapses>>

---------------------------------------------------------------------------
(* Claims.                                                                 *)

OutstandingOnce(f) == row[f].status = "received"
OutstandingFailed(f) ==
    \/ row[f].status \in {"received", "failed"}
    \/ row[f].status = "verifying" /\ row[f].lease # "held"

Outstanding(f) ==
    \/ row[f].status = "received"
    \/ row[f].status = "verifying" /\ row[f].lease # "held"

Idle(w)        == \A f \in Files : at[w][f] = "free"
InHand(f)      == \E w \in Workers : at[w][f] # "free"
Disturb(S, by) == [f \in Files |-> IF f \in S THEN disturbed[f] \cup {by} ELSE disturbed[f]]

\* claim_batch and claim_one: one statement marks the rows and returns them.
Claim(w, S) ==
    /\ Idle(w)
    /\ S # {} /\ Cardinality(S) <= Batch
    /\ \A f \in S : Outstanding(f)
    /\ row' = [f \in Files |->
                IF f \in S
                THEN [row[f] EXCEPT !.status = "verifying", !.lease = "held",
                                    !.attempts = @ + 1]
                ELSE row[f]]
    /\ at' = [at EXCEPT ![w] = [f \in Files |-> IF f \in S THEN "queued" ELSE "free"]]
    /\ copy' = [copy EXCEPT ![w] =
                 [f \in Files |-> IF f \in S
                                  THEN [attempts |-> row[f].attempts + 1,
                                        quarantined |-> row[f].quarantined]
                                  ELSE NoCopy]]
    /\ disturbed' = Disturb({f \in S : InHand(f)}, "overtaken")
    /\ UNCHANGED <<bytes, verdict, told, removal, crashes, lapses>>

\* claim_timeout_secs pass, whether or not the holder is still at work.
Lapse(f) ==
    /\ row[f].lease = "held"
    /\ lapses < MaxLapses
    /\ lapses' = lapses + 1
    /\ row' = [row EXCEPT ![f].lease = "lapsed"]
    /\ UNCHANGED <<bytes, verdict, told, at, copy, removal, disturbed, crashes>>

\* The holder is gone, so its lease is bound to run out.
LapseOfTheDead(f) ==
    /\ row[f].lease = "held"
    /\ ~InHand(f)
    /\ row' = [row EXCEPT ![f].lease = "lapsed"]
    /\ UNCHANGED <<bytes, verdict, told, at, copy, removal, disturbed, crashes, lapses>>

Crash(w) ==
    /\ ~Idle(w)
    /\ crashes < MaxCrashes
    /\ crashes' = crashes + 1
    /\ at' = [at EXCEPT ![w] = [f \in Files |-> "free"]]
    /\ copy' = [copy EXCEPT ![w] = [f \in Files |-> NoCopy]]
    /\ UNCHANGED <<row, bytes, verdict, told, removal, disturbed, lapses>>

---------------------------------------------------------------------------
(* verify, and run around it.                                              *)

Go(w, f, step) == at' = [at EXCEPT ![w][f] = step]
LetGo(w, f)    == /\ Go(w, f, "free")
                  /\ copy' = [copy EXCEPT ![w][f] = NoCopy]

\* A missing object is final, any other storage error is worth a retry.
After(w, f, place, next) ==
    \/ place \in bytes[f] /\ Go(w, f, next)
    \/ place \notin bytes[f] /\ Go(w, f, "giveup")
    \/ Go(w, f, "requeue")

\* The next row of the batch; a copy without a quarantine key goes nowhere.
Begin(w, f) ==
    /\ at[w][f] = "queued"
    /\ \A g \in Files : at[w][g] \in {"free", "queued"}
    /\ Go(w, f, IF copy[w][f].quarantined THEN "stat" ELSE "giveup")
    /\ UNCHANGED <<row, bytes, verdict, told, copy, removal, disturbed, crashes, lapses>>

Stat(w, f) ==
    /\ at[w][f] = "stat"
    /\ After(w, f, "quarantine", "read")
    /\ UNCHANGED <<row, bytes, verdict, told, copy, removal, disturbed, crashes, lapses>>

InspectRowFirst(w, f) ==
    /\ at[w][f] = "read"
    /\ After(w, f, "quarantine", IF verdict[f] = "accepted" THEN "commit" ELSE "refuse")
    /\ UNCHANGED <<row, bytes, verdict, told, copy, removal, disturbed, crashes, lapses>>

\* read_head, inspect and digest.
Inspect(w, f) ==
    /\ at[w][f] = "read"
    /\ After(w, f, "quarantine", IF verdict[f] = "accepted" THEN "promote" ELSE "refuse")
    /\ UNCHANGED <<row, bytes, verdict, told, copy, removal, disturbed, crashes, lapses>>

\* A rename; between filesystems a copy, whose original may stay behind; and a
\* stat of the target that may fail after the bytes have moved.
Moves(f, from, to) ==
    \/ /\ bytes' = [bytes EXCEPT ![f] = (@ \ {from}) \cup {to}]
       /\ UNCHANGED disturbed
    \/ /\ bytes' = [bytes EXCEPT ![f] = @ \cup {to}]
       /\ disturbed' = Disturb({f}, "doubled")

Promote(w, f) ==
    /\ at[w][f] = "promote"
    /\ \/ /\ "quarantine" \in bytes[f]
          /\ Moves(f, "quarantine", "bucket")
          /\ Go(w, f, "commit") \/ Go(w, f, "requeue")
       \/ /\ "quarantine" \notin bytes[f]
          /\ Go(w, f, "giveup")
          /\ UNCHANGED <<bytes, disturbed>>
       \/ Go(w, f, "requeue") /\ UNCHANGED <<bytes, disturbed>>
    /\ UNCHANGED <<row, verdict, told, copy, removal, crashes, lapses>>

\* mark_stored and mark_rejected write by id and nothing else: a row that is
\* gone is left alone without a word.  The event is in the transaction.
MarkedRow(r, status) ==
    IF r.status \in NoRow THEN r
    ELSE [r EXCEPT !.status = status, !.lease = "none", !.quarantined = FALSE,
                   !.placed = @ \/ status = "stored"]

Marked(f, status) ==
    /\ row' = [row EXCEPT ![f] = MarkedRow(row[f], status)]
    /\ told' = IF status = "stored" THEN [told EXCEPT ![f].stored = @ + 1]
                                    ELSE [told EXCEPT ![f].rejected = @ + 1]

CommitStored(w, f) ==
    /\ at[w][f] = "commit"
    /\ Marked(f, "stored")
    /\ LetGo(w, f)
    /\ UNCHANGED <<bytes, verdict, removal, disturbed, crashes, lapses>>

CommitFailsTold(w, f) ==
    /\ at[w][f] = "commit"
    /\ Go(w, f, "undo")
    /\ told' = [told EXCEPT ![f].stored = @ + 1]
    /\ UNCHANGED <<row, bytes, verdict, copy, removal, disturbed, crashes, lapses>>

\* The transaction fails; or it commits and the answer is lost.
CommitFails(w, f) ==
    /\ at[w][f] = "commit"
    /\ Go(w, f, "undo")
    /\ \/ UNCHANGED <<row, told, disturbed>>
       \/ Marked(f, "stored") /\ disturbed' = Disturb({f}, "unsure")
    /\ UNCHANGED <<bytes, verdict, copy, removal, crashes, lapses>>

UndoByRemoving(w, f) ==
    /\ at[w][f] = "undo"
    /\ bytes' = [bytes EXCEPT ![f] = @ \ {"bucket"}]
    /\ Go(w, f, "requeue")
    /\ UNCHANGED <<row, verdict, told, copy, removal, disturbed, crashes, lapses>>

\* The object goes back to quarantine, if it can.
Undo(w, f) ==
    /\ at[w][f] = "undo"
    /\ \/ "bucket" \in bytes[f] /\ Moves(f, "bucket", "quarantine")
       \/ UNCHANGED <<bytes, disturbed>>
    /\ Go(w, f, "requeue")
    /\ UNCHANGED <<row, verdict, told, copy, removal, crashes, lapses>>

\* A refused file is not kept; failing to remove it is only logged.
Refuse(w, f) ==
    /\ at[w][f] = "refuse"
    /\ \E left \in SUBSET (bytes[f] \cap {"quarantine"}) :
         bytes' = [bytes EXCEPT ![f] = (@ \ {"quarantine"}) \cup left]
    /\ Go(w, f, "reject")
    /\ UNCHANGED <<row, verdict, told, copy, removal, disturbed, crashes, lapses>>

CommitRejected(w, f) ==
    /\ at[w][f] = "reject"
    /\ Marked(f, "rejected")
    /\ LetGo(w, f)
    /\ UNCHANGED <<bytes, verdict, removal, disturbed, crashes, lapses>>

RejectFails(w, f) ==
    /\ at[w][f] = "reject"
    /\ Go(w, f, "requeue")
    /\ \/ UNCHANGED <<row, told, disturbed>>
       \/ Marked(f, "rejected") /\ disturbed' = Disturb({f}, "unsure")
    /\ UNCHANGED <<bytes, verdict, copy, removal, crashes, lapses>>

Settle(w, f, status) ==
    /\ row' = [row EXCEPT ![f] = IF @.status \in NoRow THEN @
                                 ELSE [@ EXCEPT !.status = status, !.lease = "none"]]
    /\ LetGo(w, f)
    /\ UNCHANGED <<bytes, verdict, told, removal, disturbed, crashes, lapses>>

\* run: a retryable error puts the row back while attempts are left.
Release(w, f) ==
    /\ at[w][f] = "requeue"
    /\ copy[w][f].attempts < MaxAttempts
    /\ Settle(w, f, "received")

GiveUp(w, f) ==
    /\ \/ at[w][f] = "giveup"
       \/ at[w][f] = "requeue" /\ copy[w][f].attempts >= MaxAttempts
    /\ Settle(w, f, "failed")

---------------------------------------------------------------------------
(* Removals: sweep and delete_file, the bytes first and then the row.      *)

\* The sweeper's read: any age is possible, the process may have been down.
SweepReads(f) ==
    /\ removal[f].by = "nobody"
    /\ row[f].quarantined
    /\ row[f].status \in Waiting \cup {"failed"}
    /\ removal' = [removal EXCEPT ![f] =
                     [by |-> "sweeper", aims |-> {"quarantine"}, bytesGone |-> FALSE]]
    /\ disturbed' = Disturb({f}, "removed")
    /\ UNCHANGED <<row, bytes, verdict, told, at, copy, crashes, lapses>>

DeleteReads(f) ==
    /\ removal[f].by = "nobody"
    /\ row[f].status \notin NoRow
    /\ removal' = [removal EXCEPT ![f] =
                     [by |-> "person",
                      aims |-> IF row[f].placed THEN {"bucket"}
                               ELSE IF row[f].quarantined THEN {"quarantine"} ELSE {},
                      bytesGone |-> FALSE]]
    /\ disturbed' = Disturb({f}, "removed")
    /\ UNCHANGED <<row, bytes, verdict, told, at, copy, crashes, lapses>>

\* A storage error stops the sweeper, not the person's deletion.
RemoveBytes(f) ==
    /\ removal[f].by # "nobody" /\ ~removal[f].bytesGone
    /\ \/ /\ bytes' = [bytes EXCEPT ![f] = @ \ removal[f].aims]
          /\ removal' = [removal EXCEPT ![f].bytesGone = TRUE]
       \/ /\ removal' = [removal EXCEPT ![f] =
                           IF @.by = "sweeper" THEN NoRemoval ELSE [@ EXCEPT !.bytesGone = TRUE]]
          /\ UNCHANGED bytes
    /\ UNCHANGED <<row, verdict, told, at, copy, disturbed, crashes, lapses>>

\* By id, whatever the row has become; or never, when the process stops here.
RemoveRow(f) ==
    /\ removal[f].bytesGone
    /\ removal' = [removal EXCEPT ![f] = NoRemoval]
    /\ row' = [row EXCEPT ![f] = Empty("gone")] \/ UNCHANGED row
    /\ UNCHANGED <<bytes, verdict, told, at, copy, disturbed, crashes, lapses>>

---------------------------------------------------------------------------
Verify(w, f) ==
    \/ Begin(w, f) \/ Stat(w, f) \/ Inspect(w, f) \/ Promote(w, f)
    \/ CommitStored(w, f) \/ CommitFails(w, f) \/ Undo(w, f)
    \/ Refuse(w, f) \/ CommitRejected(w, f) \/ RejectFails(w, f)
    \/ Release(w, f) \/ GiveUp(w, f)

Next ==
    \/ \E f \in Files : \/ Receive(f) \/ Record(f) \/ Discard(f)
                        \/ Lapse(f) \/ LapseOfTheDead(f)
                        \/ SweepReads(f) \/ DeleteReads(f)
                        \/ RemoveBytes(f) \/ RemoveRow(f)
    \/ \E w \in Workers : \/ \E S \in SUBSET Files : Claim(w, S)
                          \/ \E f \in Files : Verify(w, f)
                          \/ Crash(w)

\* The loops run as long as the process does: a claimed row is worked on, the
\* verifier polls every poll_interval_secs, and time passes.
Fairness ==
    /\ \A w \in Workers :
         /\ \A f \in Files : WF_vars(Verify(w, f))
         /\ WF_vars(\E S \in SUBSET Files : Claim(w, S))
    /\ \A f \in Files : WF_vars(LapseOfTheDead(f))

Spec == Init /\ [][Next]_vars /\ Fairness

---------------------------------------------------------------------------
(* A row never points at bytes that are not there (verify.rs:10): behind a *)
(* stored row is its object, even when a slow worker was overtaken; only a *)
(* removal under way, a commit whose answer was lost, or a copy that left  *)
(* its original behind may break it.                                       *)
StoredHasBytes ==
    \A f \in Files :
        row[f].status = "stored" /\ disturbed[f] \subseteq {"overtaken"}
            => "bucket" \in bytes[f]

(* The bytes of an acceptable file survive every retry, lapse and crash:   *)
(* as long as nobody removes the file they are in one place or the other.  *)
KeptSomewhere ==
    \A f \in Files :
        /\ verdict[f] = "accepted"
        /\ row[f].status \notin NoRow
        /\ "removed" \notin disturbed[f]
        => bytes[f] # {}

(* There is no state in which the file is stored and nobody was told, or   *)
(* told and not stored (verify.rs:16), nor one in which it is told twice:  *)
(* so long as no lease ran out under its holder, nobody removed the file   *)
(* and no commit's answer was lost.                                        *)
ToldAsItIs ==
    \A f \in Files :
        disturbed[f] \subseteq {"doubled"} =>
            told[f] = [stored   |-> IF row[f].status = "stored" THEN 1 ELSE 0,
                       rejected |-> IF row[f].status = "rejected" THEN 1 ELSE 0]

(* A finished upload is not taken up again or answered differently: the    *)
(* outcome is written by id alone (files.rs:323), so this rests on the     *)
(* lease, and on nothing else, to keep a second worker out.                *)
FinishedStays ==
    [][\A f \in Files :
         row[f].status \in Finished /\ disturbed'[f] \subseteq {"doubled"} => row'[f] = row[f]]_vars

(* No upload waits for ever, whatever its workers ran into.                *)
EverySettled ==
    \A f \in Files : <>[](row[f].status \notin Waiting)
=============================================================================
