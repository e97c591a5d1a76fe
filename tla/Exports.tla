------------------------------ MODULE Exports ------------------------------
(***************************************************************************)
(* A report export: a row of report_exports that a worker claims, renders  *)
(* as the person who asked, and answers with a file it stores under the    *)
(* request's own id.  The object, the row of the file and the answer are   *)
(* three writes, and the file's row is a plain insert: a second attempt    *)
(* after the first has inserted it is an error, and that error is the      *)
(* answer.                                                                 *)
(***************************************************************************)
EXTENDS Naturals, FiniteSets

CONSTANTS Requests,    \* the exports asked for
          Exporters,   \* the tasks that write: the dispatch and poll loops
          MaxDeaths,   \* bound: how often a worker dies in the middle
          MaxTimeouts  \* bound: how often a claim runs out under its holder

VARIABLES request,     \* report_exports, by id
          stored,      \* what storage and file_uploads hold for an export
          allowed,     \* may whoever asked still run the report
          doing,       \* how far a worker is with an export
          overtaken,   \* history: exports claimed from under a live worker
          deaths, timeouts

vars == <<request, stored, allowed, doing, overtaken, deaths, timeouts>>

States   == {"none", "requested", "running", "ready", "failed"}
Open     == {"requested", "running"}
Answered == {"ready", "failed"}
Stages   == {"free", "check", "render", "object", "insert", "ready", "fail"}

\* file: whether file_id is set.
Rows  == [state: States, claim: {"none", "held", "lapsed"}, file: BOOLEAN]
StoredFiles == [object: BOOLEAN, row: BOOLEAN]

TypeOK ==
    /\ request \in [Requests -> Rows]
    /\ stored \in [Requests -> StoredFiles]
    /\ allowed \in [Requests -> BOOLEAN]
    /\ doing \in [Exporters -> [Requests -> Stages]]
    /\ overtaken \in SUBSET Requests
    /\ deaths \in Nat
    /\ timeouts \in Nat

Init ==
    /\ request = [r \in Requests |-> [state |-> "none", claim |-> "none", file |-> FALSE]]
    /\ stored = [r \in Requests |-> [object |-> FALSE, row |-> FALSE]]
    /\ allowed = [r \in Requests |-> TRUE]
    /\ doing = [w \in Exporters |-> [r \in Requests |-> "free"]]
    /\ overtaken = {}
    /\ deaths = 0
    /\ timeouts = 0

Unemployed(w) == \A r \in Requests : doing[w][r] = "free"
Worked(r)     == \E w \in Exporters : doing[w][r] # "free"

Raise(r) ==
    /\ request[r].state = "none"
    /\ allowed[r]
    /\ request' = [request EXCEPT ![r].state = "requested"]
    /\ UNCHANGED <<stored, allowed, doing, overtaken, deaths, timeouts>>

\* The account is deleted, suspended, or loses the report's permission.
Withdraw(r) ==
    /\ allowed[r]
    /\ allowed' = [allowed EXCEPT ![r] = FALSE]
    /\ UNCHANGED <<request, stored, doing, overtaken, deaths, timeouts>>

ClaimExportAgain(w, r) ==
    /\ Unemployed(w)
    /\ request[r].state \notin {"none", "ready"}
    /\ request[r].claim # "held" \/ request[r].state = "failed"
    /\ request' = [request EXCEPT ![r] = [@ EXCEPT !.state = "running", !.claim = "held"]]
    /\ doing' = [doing EXCEPT ![w][r] = "check"]
    /\ overtaken' = IF Worked(r) THEN overtaken \cup {r} ELSE overtaken
    /\ UNCHANGED <<stored, allowed, deaths, timeouts>>

\* claim_one and claim_batch, whose rows are then written one by one.
ClaimExport(w, r) ==
    /\ Unemployed(w)
    /\ \/ request[r].state = "requested"
       \/ request[r].state = "running" /\ request[r].claim = "lapsed"
    /\ request' = [request EXCEPT ![r] = [@ EXCEPT !.state = "running", !.claim = "held"]]
    /\ doing' = [doing EXCEPT ![w][r] = "check"]
    /\ overtaken' = IF Worked(r) THEN overtaken \cup {r} ELSE overtaken
    /\ UNCHANGED <<stored, allowed, deaths, timeouts>>

\* A claim runs out on time: of a dead worker always, of a live one if slow.
Timeout(r) ==
    /\ request[r].state = "running"
    /\ request[r].claim = "held"
    /\ \/ ~Worked(r) /\ UNCHANGED timeouts
       \/ Worked(r) /\ timeouts < MaxTimeouts /\ timeouts' = timeouts + 1
    /\ request' = [request EXCEPT ![r].claim = "lapsed"]
    /\ UNCHANGED <<stored, allowed, doing, overtaken, deaths>>

Die(w) ==
    /\ ~Unemployed(w)
    /\ deaths < MaxDeaths
    /\ deaths' = deaths + 1
    /\ doing' = [doing EXCEPT ![w] = [r \in Requests |-> "free"]]
    /\ UNCHANGED <<request, stored, allowed, overtaken, timeouts>>

\* A step of render_and_store: on to the next one, or to writing the failure.
Step(w, r, from, to) ==
    /\ doing[w][r] = from
    /\ doing' = [doing EXCEPT ![w][r] = to]

\* The person is read and their permission checked now, not when they asked.
CheckGrant(w, r) ==
    /\ Step(w, r, "check", IF allowed[r] THEN "render" ELSE "fail")
    /\ UNCHANGED <<request, stored, allowed, overtaken, deaths, timeouts>>

RenderSilently(w, r) ==
    /\ Step(w, r, "render", "object") \/ Step(w, r, "render", "free")
    /\ UNCHANGED <<request, stored, allowed, overtaken, deaths, timeouts>>

Render(w, r) ==
    /\ Step(w, r, "render", "object") \/ Step(w, r, "render", "fail")
    /\ UNCHANGED <<request, stored, allowed, overtaken, deaths, timeouts>>

WriteObject(w, r) ==
    /\ \/ Step(w, r, "object", "insert") /\ stored' = [stored EXCEPT ![r].object = TRUE]
       \/ Step(w, r, "object", "fail") /\ UNCHANGED stored
    /\ UNCHANGED <<request, allowed, overtaken, deaths, timeouts>>

\* record_generated: the id is the primary key, and a conflict is an error.
InsertFile(w, r) ==
    /\ \/ /\ ~stored[r].row
          /\ Step(w, r, "insert", "ready")
          /\ stored' = [stored EXCEPT ![r].row = TRUE]
       \/ Step(w, r, "insert", "fail") /\ UNCHANGED stored
    /\ UNCHANGED <<request, allowed, overtaken, deaths, timeouts>>

\* mark_ready, in a statement of its own; when it fails, as it must when the
\* file has been deleted meanwhile, the export has failed.
MarkReady(w, r) ==
    /\ \/ /\ stored[r].row
          /\ Step(w, r, "ready", "free")
          /\ request' = [request EXCEPT ![r] = [@ EXCEPT !.state = "ready", !.file = TRUE]]
       \/ Step(w, r, "ready", "fail") /\ UNCHANGED request
    /\ UNCHANGED <<stored, allowed, overtaken, deaths, timeouts>>

\* mark_failed by id; when even that fails the row goes on saying running.
MarkFailed(w, r) ==
    /\ Step(w, r, "fail", "free")
    /\ \/ request' = [request EXCEPT ![r].state = "failed"] /\ UNCHANGED deaths
       \/ deaths < MaxDeaths /\ deaths' = deaths + 1 /\ UNCHANGED request
    /\ UNCHANGED <<stored, allowed, overtaken, timeouts>>

DeleteFileAnyway(r) ==
    /\ stored[r].row
    /\ stored' = [stored EXCEPT ![r] = [object |-> FALSE, row |-> FALSE]]
    /\ UNCHANGED <<request, allowed, doing, overtaken, deaths, timeouts>>

\* delete_file: the object first and then the row, whose deletion the
\* reference of an export that was ready refuses (ON DELETE RESTRICT).
DeleteFile(r) ==
    /\ stored[r].row
    /\ stored' = [stored EXCEPT ![r] = [object |-> FALSE, row |-> request[r].file]]
    /\ UNCHANGED <<request, allowed, doing, overtaken, deaths, timeouts>>

Write(w, r) ==
    \/ CheckGrant(w, r) \/ Render(w, r) \/ WriteObject(w, r)
    \/ InsertFile(w, r) \/ MarkReady(w, r) \/ MarkFailed(w, r)

Next ==
    \/ \E r \in Requests : Raise(r) \/ Withdraw(r) \/ Timeout(r) \/ DeleteFile(r)
    \/ \E w \in Exporters : \/ \E r \in Requests : ClaimExport(w, r) \/ Write(w, r)
                            \/ Die(w)

Fairness ==
    /\ \A w \in Exporters :
         /\ \A r \in Requests : WF_vars(Write(w, r))
         /\ WF_vars(\E r \in Requests : ClaimExport(w, r))
    /\ \A r \in Requests : WF_vars(~Worked(r) /\ Timeout(r))

Spec == Init /\ [][Next]_vars /\ Fairness

---------------------------------------------------------------------------
(* An export said to be ready names a file that is recorded: the answer is *)
(* given after the insert, and no deletion gets past the reference.        *)
ReadyHasFile ==
    \A r \in Requests : request[r].state = "ready" => request[r].file /\ stored[r].row

(* What a person was answered stays the answer: it is written by id alone  *)
(* (report_exports.rs:184), so an export is answered once only because it  *)
(* is claimed once, as long as no claim runs out under a worker.           *)
AnswerStands ==
    [][\A r \in Requests :
         request[r].state \in Answered /\ r \notin overtaken' => request'[r] = request[r]]_vars

(* Whoever waits on an export is answered, ready or failed: a worker that  *)
(* let an error out would leave the request running for ever (jobs.rs:296).*)
EveryAnswered ==
    \A r \in Requests : <>[](request[r].state \notin Open)

(* A row offering a download that fails is worse than a delete that        *)
(* refuses (0025_report_exports.sql:31): an export that is ready can be    *)
(* downloaded.                                                             *)
ReadyCanBeRead ==
    \A r \in Requests : request[r].state = "ready" => stored[r].object
=============================================================================
