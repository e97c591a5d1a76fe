--------------------------- MODULE MCBackground ---------------------------
(***************************************************************************)
(* The work done behind the requests: uploads to verify, exports to write, *)
(* events to send on.  The three share no row and wait for nothing of each *)
(* other's, so a behaviour of this instance has one kind of work in it,    *)
(* chosen at the start, and the other two stay as they began.              *)
(***************************************************************************)
EXTENDS Uploads

CONSTANTS Requests, Exporters, MaxDeaths, MaxTimeouts,
          LastEvent, Relays, Consumers, RelayBatch, MaxTries, MaxFaults

VARIABLES request, stored, allowed, doing, overtaken, deaths, timeouts,
          outbox, pass, marking, queue, held, answer, sent, done, up, faults,
          work

exportVars == <<request, stored, allowed, doing, overtaken, deaths, timeouts>>
outboxVars == <<outbox, pass, marking, queue, held, answer, sent, done, up, faults>>

E == INSTANCE Exports
O == INSTANCE Outbox

\* What the proofs about the outbox take of its constants.
ASSUME EventsSensible == O!Sensible

MCInit ==
    /\ Init /\ E!Init /\ O!Init
    /\ work \in {"uploads", "exports", "events"}
    /\ work # "uploads" => \A f \in Files : verdict[f] = "accepted"

MCNext ==
    /\ UNCHANGED work
    /\ \/ work = "uploads" /\ Next /\ UNCHANGED <<exportVars, outboxVars>>
       \/ work = "exports" /\ E!Next /\ UNCHANGED <<vars, outboxVars>>
       \/ work = "events" /\ O!Next /\ UNCHANGED <<vars, exportVars>>

MCSpec ==
    /\ MCInit /\ [][MCNext]_<<vars, exportVars, outboxVars, work>>
    /\ Fairness /\ E!Fairness /\ O!Fairness

\* The properties of the modules, under names of their own.
TypesOK       == TypeOK /\ E!TypeOK /\ O!TypeOK
ReadyHasFile  == E!ReadyHasFile
AnswerStands  == E!AnswerStands
EveryAnswered == E!EveryAnswered
NothingLost   == O!NothingLost
Announces     == O!Announces
=============================================================================
