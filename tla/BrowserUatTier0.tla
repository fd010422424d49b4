--------------------------- MODULE BrowserUatTier0 ---------------------------
(***************************************************************************)
(* On-demand real-browser checks: the requests that create an execution,    *)
(* the tasks that dispatch it to the provider and poll it, the ingestion of *)
(* what the provider's jobs found, the script that ingests what a person's  *)
(* own run found, and the evidence a report shows.                          *)
(*                                                                         *)
(* Tasks are acknowledged late: a message whose worker dies is delivered    *)
(* again, so an execution can be polled by several chains of messages.      *)
(***************************************************************************)
EXTENDS Integers

CONSTANTS
    Executions,    \* (analysis run, idempotency key); there is one lane
    RunOf,         \* its analysis run
    SiteOf,        \* the website of an analysis run
    Jobs,          \* the jobs of a provider run, one page each
    Requests, Workers,
    Manual,        \* the requests made by ingest_manual_tier0_result.py
    MaxPolls,      \* MAX_POLL_ATTEMPTS
    MaxErrors,     \* bound on the calls that raise
    MaxCrashes     \* bound on the deaths of workers

Runs == {RunOf[e] : e \in Executions}
Site(e) == SiteOf[RunOf[e]]

ASSUME Tier0Assumption ==
    /\ Executions = DOMAIN RunOf
    /\ Runs \subseteq DOMAIN SiteOf
    /\ MaxPolls \in Nat \ {0} /\ MaxErrors \in Nat /\ MaxCrashes \in Nat
    /\ Manual \subseteq Requests
    /\ "none" \notin Requests \cup Jobs

InFlight == {"pending", "running"}
Usable   == {"completed", "partial"}
Statuses == {"absent", "unavailable"} \cup InFlight \cup Usable

-----------------------------------------------------------------------------
VARIABLES
    status,      \* browser_uat_tier0_executions.status
    later,       \* pairs of executions, the first with the later completed_at
    viewports,   \* how often the viewport rows of a job's page are stored; 0: no page
    lock,        \* the request that holds the lock of a website row
    rpc, wanted, \* where each request is, and the execution it asks for
    result,      \* the job result a run of the script brings
    finds,       \* what its transaction found of the result's page
    dispatches,  \* dispatch messages in the broker
    polls,       \* poll messages in the broker, by attempt
    started,     \* runs the provider was asked for
    provider,    \* the state of the provider's run
    missed,      \* the jobs whose result once did not come
    pc, msg,     \* where each worker is, and the message it works on
    todo,        \* the job results it has yet to ingest
    page,        \* the one its open transaction writes
    sees,        \* what the transaction found of its page
    verdict,     \* the status it is about to write
    errors, crashes

table    == <<status, later, viewports>>
script   == <<result, finds>>
requests == <<lock, rpc, wanted, result, finds>>
broker   == <<dispatches, polls>>
remote   == <<started, provider, missed>>
ingestion == <<todo, page, sees>>
workers  == <<pc, msg, ingestion, verdict>>
bounds   == <<errors, crashes>>
vars     == <<table, requests, broker, remote, workers, bounds>>

Attempts == 1..(MaxPolls + 1)
Messages == [task : {"dispatch"}, of : Executions, attempt : {0}]
               \cup [task : {"poll"}, of : Executions, attempt : Attempts]
NoMessage == [task |-> "none"]

\* What a transaction finds of the page it writes: no such page, its viewport rows,
\* or that another transaction has replaced the rows it came to delete.
Found == {"nopage", "rows", "norows"}

Phases == {"idle", "claim", "trigger", "schedule", "read", "poll", "again",
           "ingest", "write", "finalize", "ack"}

TypeOK ==
    /\ status \in [Executions -> Statuses]
    /\ later \subseteq Executions \X Executions
    /\ viewports \in [Executions -> [Jobs -> Nat]]
    /\ lock \in [{SiteOf[u] : u \in Runs} -> Requests \cup {"none"}]
    /\ rpc \in [Requests -> {"new", "check", "insert", "enqueue", "ingest", "write", "finish",
                            "closed"}]
    /\ wanted \in [Requests -> Executions]
    /\ result \in [Requests -> Jobs \cup {"none"}]
    /\ \A r \in Requests : rpc[r] \in {"write", "finish"} => result[r] \in Jobs
    /\ finds \in [Requests -> Found]
    /\ dispatches \in [Executions -> Nat]
    /\ polls \in [Executions -> [Attempts -> Nat]]
    /\ started \in [Executions -> Nat]
    /\ provider \in [Executions -> {"none", "active", "success", "failure"}]
    /\ missed \in [Executions -> SUBSET Jobs]
    /\ pc \in [Workers -> Phases]
    /\ msg \in [Workers -> Messages \cup {NoMessage}]
    /\ \A w \in Workers : pc[w] # "idle" => msg[w] \in Messages
    /\ todo \in [Workers -> SUBSET Jobs]
    /\ page \in [Workers -> Jobs \cup {"none"}]
    /\ \A w \in Workers : pc[w] = "write" => page[w] \in Jobs
    /\ sees \in [Workers -> Found]
    /\ verdict \in [Workers -> Usable \cup {"unavailable"}]
    /\ errors \in 0..MaxErrors
    /\ crashes \in 0..MaxCrashes

\* The script is given a key of its own, by default from the time of day, and may be
\* given it again; a route's client chooses another.
OwnKeys == {f \in [Requests -> Executions] :
               \A r \in Manual, q \in Requests \ Manual : f[q] # f[r]}

Init ==
    /\ status = [e \in Executions |-> "absent"]
    /\ later = {}
    /\ viewports = [e \in Executions |-> [j \in Jobs |-> 0]]
    /\ lock = [s \in {SiteOf[u] : u \in Runs} |-> "none"]
    /\ rpc = [r \in Requests |-> "new"]
    /\ wanted \in OwnKeys
    /\ result = [r \in Requests |-> "none"]
    /\ finds = [r \in Requests |-> "nopage"]
    /\ dispatches = [e \in Executions |-> 0]
    /\ polls = [e \in Executions |-> [n \in Attempts |-> 0]]
    /\ started = [e \in Executions |-> 0]
    /\ provider = [e \in Executions |-> "none"]
    /\ missed = [e \in Executions |-> {}]
    /\ pc = [w \in Workers |-> "idle"]
    /\ msg = [w \in Workers |-> NoMessage]
    /\ todo = [w \in Workers |-> {}]
    /\ page = [w \in Workers |-> "none"]
    /\ sees = [w \in Workers |-> "nopage"]
    /\ verdict = [w \in Workers |-> "unavailable"]
    /\ errors = 0 /\ crashes = 0

-----------------------------------------------------------------------------
(* The requests.                                                           *)

RGoto(r, p) == rpc' = [rpc EXCEPT ![r] = p]

\* create_browser_uat_tier0_execution locks the website row first.
ReadWebsite(r) ==                                                   \* mutant
    /\ rpc[r] = "new"
    /\ RGoto(r, "check")
    /\ UNCHANGED <<table, lock, wanted, script, broker, remote, workers, bounds>>
LockWebsite(r) ==
    /\ rpc[r] = "new"
    /\ lock[Site(wanted[r])] = "none"
    /\ lock' = [lock EXCEPT ![Site(wanted[r])] = r]
    /\ RGoto(r, "check")
    /\ UNCHANGED <<table, wanted, script, broker, remote, workers, bounds>>

Unlock(r) == lock' = [lock EXCEPT ![Site(wanted[r])] = "none"]

\* An execution that exists is returned, and one in flight on the website refuses
\* another.
Admitted(e) ==
    /\ status[e] = "absent"
    /\ \A f \in Executions : Site(f) = Site(e) => status[f] \notin InFlight

\* The route leaves an execution that exists to the request that created it; the
\* script goes on with it, as with one it created.
Reused(r) == r \in Manual /\ status[wanted[r]] # "absent"

CheckInFlight(r) ==
    /\ rpc[r] = "check"
    /\ IF Admitted(wanted[r])
       THEN RGoto(r, "insert") /\ UNCHANGED lock
       ELSE RGoto(r, IF Reused(r) THEN "ingest" ELSE "closed") /\ Unlock(r)
    /\ UNCHANGED <<table, wanted, script, broker, remote, workers, bounds>>

\* The row is inserted, and the lock goes with the transaction.
InsertExecution(r) ==
    /\ rpc[r] = "insert"
    /\ status' = [status EXCEPT ![wanted[r]] = "pending"]
    /\ Unlock(r)
    /\ RGoto(r, IF r \in Manual THEN "ingest" ELSE "enqueue")
    /\ UNCHANGED <<later, viewports, wanted, script, broker, remote, workers, bounds>>

EnqueueDispatch(r) ==
    /\ rpc[r] = "enqueue"
    /\ \/ /\ dispatches' = [dispatches EXCEPT ![wanted[r]] = @ + 1]
          /\ UNCHANGED errors
       \/ /\ errors < MaxErrors          \* the broker is unreachable
          /\ errors' = errors + 1
          /\ UNCHANGED dispatches
    /\ RGoto(r, "closed")
    /\ UNCHANGED <<table, lock, wanted, script, polls, remote, workers, crashes>>

\* completed_at is now.
Finished(e) == later' = {p \in later : p[2] # e} \cup ({e} \X (Executions \ {e}))

-----------------------------------------------------------------------------
(* The ingestion of a job result: one transaction, which looks the page up,  *)
(* deletes the viewport rows it has and inserts those of the result.         *)

FoundOf(e, j) == IF viewports[e][j] = 0 THEN "nopage" ELSE "rows"

\* Two transactions on one page: the unique constraint refuses a second insert of
\* the page; a delete that waited for the other's finds the rows it saw deleted,
\* and not those inserted since.  The same result leaves the page's own row as it is, so
\* that nothing makes a transaction wait before its delete.
Refused(found, n) == found = "nopage" /\ n > 0
Accumulated(found, n) == n + 1                                      \* mutant
Replaced(found, n) == IF found = "rows" THEN 1 ELSE n + 1
Outrun(found) == IF found = "rows" THEN "norows" ELSE found

\* ingest_manual_tier0_result: an execution of the script's is never dispatched; the
\* one job result a person has is ingested, then the execution is finalized, both
\* again for an execution that is reused.
IngestManual(r) ==
    /\ rpc[r] = "ingest"
    /\ \E j \in Jobs : /\ result' = [result EXCEPT ![r] = j]
                       /\ finds' = [finds EXCEPT ![r] = FoundOf(wanted[r], j)]
    /\ RGoto(r, "write")
    /\ UNCHANGED <<table, lock, wanted, broker, remote, workers, bounds>>

CommitManual(r) ==
    LET e == wanted[r]
        j == result[r]
    IN  /\ rpc[r] = "write"
        /\ IF Refused(finds[r], viewports[e][j])
           THEN RGoto(r, "closed") /\ UNCHANGED <<viewports, missed, finds>>
           ELSE /\ viewports' = [viewports EXCEPT ![e][j] = Replaced(finds[r], @)]
                /\ missed' = [missed EXCEPT ![e] = @ \cup (Jobs \ {j})]
                /\ finds' = [q \in Requests |->
                       IF q = r THEN "nopage"
                       ELSE IF rpc[q] = "write" /\ wanted[q] = e /\ result[q] = j
                            THEN Outrun(finds[q]) ELSE finds[q]]
                /\ RGoto(r, "finish")
        /\ UNCHANGED <<status, later, lock, wanted, result, broker, started, provider, workers,
                       bounds>>

FinalizeManual(r) ==
    /\ rpc[r] = "finish"
    /\ \E s \in Usable : status' = [status EXCEPT ![wanted[r]] = s]
    /\ Finished(wanted[r])
    /\ RGoto(r, "closed")
    /\ UNCHANGED <<viewports, lock, wanted, script, broker, remote, workers, bounds>>

\* The script raises or is interrupted.
ManualFails(r) ==
    /\ rpc[r] \in {"ingest", "write", "finish"}
    /\ errors < MaxErrors
    /\ errors' = errors + 1
    /\ RGoto(r, "closed")
    /\ UNCHANGED <<table, lock, wanted, script, broker, remote, workers, crashes>>

-----------------------------------------------------------------------------
(* The tasks.                                                              *)

Goto(w, p) == pc' = [pc EXCEPT ![w] = p]
Of(w) == msg[w].of

TakeDispatch(w, e) ==
    /\ pc[w] = "idle"
    /\ dispatches[e] > 0
    /\ dispatches' = [dispatches EXCEPT ![e] = @ - 1]
    /\ msg' = [msg EXCEPT ![w] = [task |-> "dispatch", of |-> e, attempt |-> 0]]
    /\ Goto(w, "claim")
    /\ UNCHANGED <<table, requests, polls, remote, ingestion, verdict, bounds>>

TakePoll(w, e, n) ==
    /\ pc[w] = "idle"
    /\ polls[e][n] > 0
    /\ polls' = [polls EXCEPT ![e][n] = @ - 1]
    /\ msg' = [msg EXCEPT ![w] = [task |-> "poll", of |-> e, attempt |-> n]]
    /\ Goto(w, "read")
    /\ UNCHANGED <<table, requests, dispatches, remote, ingestion, verdict, bounds>>

\* dispatch_browser_uat_tier0: the row is locked, and only a pending one is claimed.
ClaimableUnlessEnded(e) == status[e] \in InFlight                   \* mutant
Claimable(e) == status[e] = "pending"

ClaimExecution(w) ==
    /\ pc[w] = "claim"
    /\ IF Claimable(Of(w))
       THEN status' = [status EXCEPT ![Of(w)] = "running"] /\ Goto(w, "trigger")
       ELSE Goto(w, "ack") /\ UNCHANGED status
    /\ UNCHANGED <<later, viewports, requests, broker, remote, msg, ingestion, verdict, bounds>>

Unavailable(w) == verdict' = [verdict EXCEPT ![w] = "unavailable"] /\ Goto(w, "finalize")

\* The provider is asked for a run; a failure of the call may come after it began.
Trigger(w) ==
    /\ pc[w] = "trigger"
    /\ \/ /\ started' = [started EXCEPT ![Of(w)] = @ + 1]
          /\ provider' = [provider EXCEPT ![Of(w)] = "active"]
          /\ UNCHANGED missed
       \/ UNCHANGED remote
    /\ \/ Goto(w, "schedule") /\ started' # started /\ UNCHANGED verdict
       \/ Unavailable(w)
    /\ UNCHANGED <<table, requests, broker, msg, ingestion, bounds>>

SchedulePoll(w) ==
    /\ pc[w] = "schedule"
    /\ polls' = [polls EXCEPT ![Of(w)][1] = @ + 1]
    /\ Goto(w, "ack")
    /\ UNCHANGED <<table, requests, dispatches, remote, msg, ingestion, verdict, bounds>>

\* poll_browser_uat_tier0 reads the row without a lock.
ReadExecution(w) ==
    /\ pc[w] = "read"
    /\ IF status[Of(w)] \in InFlight
       THEN IF msg[w].attempt > MaxPolls
            THEN Unavailable(w)
            ELSE Goto(w, "poll") /\ UNCHANGED verdict
       ELSE Goto(w, "ack") /\ UNCHANGED verdict
    /\ UNCHANGED <<table, requests, broker, remote, msg, ingestion, bounds>>

\* The provider answers that its run is not over, or is not found; that it is,
\* with the results of its jobs, or of those whose artifacts load; or not at all.
Poll(w) ==
    /\ pc[w] = "poll"
    /\ \/ Goto(w, "again") /\ UNCHANGED <<todo, verdict, missed>>
       \/ Unavailable(w) /\ UNCHANGED <<todo, missed>>
       \/ /\ provider[Of(w)] \in {"success", "failure"}
          /\ \E loaded \in SUBSET Jobs :
                /\ todo' = [todo EXCEPT ![w] = loaded]
                /\ missed' = [missed EXCEPT ![Of(w)] = @ \cup (Jobs \ loaded)]
          /\ verdict' = [verdict EXCEPT
                ![w] = IF provider[Of(w)] = "success" THEN "completed" ELSE "partial"]
          /\ Goto(w, "ingest")
    /\ UNCHANGED <<table, requests, broker, started, provider, msg, page, sees, bounds>>

SameAttempt(n) == n                                                 \* mutant
NextAttempt(n) == n + 1

PollAgain(w) ==
    /\ pc[w] = "again"
    /\ polls' = [polls EXCEPT ![Of(w)][NextAttempt(msg[w].attempt)] = @ + 1]
    /\ Goto(w, "ack")
    /\ UNCHANGED <<table, requests, dispatches, remote, msg, ingestion, verdict, bounds>>

\* One transaction for each job result.
IngestJob(w, j) ==
    /\ pc[w] = "ingest"
    /\ j \in todo[w]
    /\ page' = [page EXCEPT ![w] = j]
    /\ sees' = [sees EXCEPT ![w] = FoundOf(Of(w), j)]
    /\ Goto(w, "write")
    /\ UNCHANGED <<table, requests, broker, remote, msg, todo, verdict, bounds>>

CommitJob(w) ==
    LET e == Of(w)
        j == page[w]
    IN  /\ pc[w] = "write"
        /\ IF Refused(sees[w], viewports[e][j])
           THEN Goto(w, "ack") /\ UNCHANGED <<viewports, todo, sees>>
           ELSE /\ viewports' = [viewports EXCEPT ![e][j] = Replaced(sees[w], @)]
                /\ todo' = [todo EXCEPT ![w] = @ \ {j}]
                /\ sees' = [v \in Workers |->
                       IF v = w THEN "nopage"
                       ELSE IF pc[v] = "write" /\ Of(v) = e /\ page[v] = j
                            THEN Outrun(sees[v]) ELSE sees[v]]
                /\ Goto(w, "ingest")
        /\ page' = [page EXCEPT ![w] = "none"]
        /\ UNCHANGED <<status, later, requests, broker, remote, msg, verdict, bounds>>

\* _finalize writes the verdict over any status.
AnyTime(w) == TRUE                                                  \* mutant
Ingested(w) == todo[w] = {}
FinalizeExecution(w) ==
    /\ \/ pc[w] = "finalize"
       \/ pc[w] = "ingest" /\ Ingested(w)
    /\ status' = [status EXCEPT ![Of(w)] = verdict[w]]
    /\ Finished(Of(w))
    /\ Goto(w, "ack")
    /\ UNCHANGED <<viewports, requests, broker, remote, msg, ingestion, verdict, bounds>>

\* The task is over, or its process: its locals and its open transaction are gone.
LeaveInPlace(w) ==                                                  \* mutant
    /\ UNCHANGED pc
    /\ msg' = [msg EXCEPT ![w] = NoMessage]
    /\ todo' = [todo EXCEPT ![w] = {}]
    /\ page' = [page EXCEPT ![w] = "none"]
    /\ sees' = [sees EXCEPT ![w] = "nopage"]
    /\ verdict' = [verdict EXCEPT ![w] = "unavailable"]
Leave(w) ==
    /\ Goto(w, "idle")
    /\ msg' = [msg EXCEPT ![w] = NoMessage]
    /\ todo' = [todo EXCEPT ![w] = {}]
    /\ page' = [page EXCEPT ![w] = "none"]
    /\ sees' = [sees EXCEPT ![w] = "nopage"]
    /\ verdict' = [verdict EXCEPT ![w] = "unavailable"]

Acknowledge(w) ==
    /\ pc[w] = "ack"
    /\ Leave(w)
    /\ UNCHANGED <<table, requests, broker, remote, bounds>>

-----------------------------------------------------------------------------
(* The surroundings.                                                       *)

\* The provider's run ends.
ProviderEnds(e) ==
    /\ provider[e] = "active"
    /\ \E c \in {"success", "failure"} : provider' = [provider EXCEPT ![e] = c]
    /\ UNCHANGED <<table, requests, broker, started, missed, workers, bounds>>

\* A call raises what the task does not handle: a read that times out, an answer
\* that does not parse, the broker, the database.  The message is acknowledged.
TaskFails(w) ==
    /\ pc[w] \in {"trigger", "schedule", "poll", "again", "ingest", "write", "finalize"}
    /\ errors < MaxErrors
    /\ errors' = errors + 1
    /\ Goto(w, "ack")
    /\ UNCHANGED <<table, requests, broker, remote, msg, ingestion, verdict, crashes>>

\* A worker dies: its message is delivered again, or was acknowledged for it.
Crash(w) ==
    /\ pc[w] # "idle"
    /\ crashes < MaxCrashes
    /\ crashes' = crashes + 1
    /\ \/ UNCHANGED broker
       \/ /\ msg[w].task = "dispatch"
          /\ dispatches' = [dispatches EXCEPT ![Of(w)] = @ + 1]
          /\ UNCHANGED polls
       \/ /\ msg[w].task = "poll"
          /\ polls' = [polls EXCEPT ![Of(w)][msg[w].attempt] = @ + 1]
          /\ UNCHANGED dispatches
    /\ Leave(w)
    /\ UNCHANGED <<table, requests, remote, errors>>

-----------------------------------------------------------------------------
RequestStep(r) ==
    \/ LockWebsite(r) \/ CheckInFlight(r) \/ InsertExecution(r) \/ EnqueueDispatch(r)
    \/ IngestManual(r) \/ CommitManual(r) \/ FinalizeManual(r)

WorkerStep(w) ==
    \/ \E e \in Executions : TakeDispatch(w, e) \/ \E n \in Attempts : TakePoll(w, e, n)
    \/ ClaimExecution(w)
    \/ Trigger(w)
    \/ SchedulePoll(w)
    \/ ReadExecution(w)
    \/ Poll(w)
    \/ PollAgain(w)
    \/ \E j \in Jobs : IngestJob(w, j)
    \/ CommitJob(w)
    \/ FinalizeExecution(w)
    \/ Acknowledge(w)

Next ==
    \/ \E r \in Requests : RequestStep(r) \/ ManualFails(r)
    \/ \E w \in Workers : WorkerStep(w) \/ TaskFails(w) \/ Crash(w)
    \/ \E e \in Executions : ProviderEnds(e)

Spec == Init /\ [][Next]_vars

\* A worker takes messages and gets on with its task, and a request that began is
\* carried out.  The provider's run need not end.
FairSpec ==
    /\ Spec
    /\ \A r \in Requests : WF_vars(rpc[r] # "new" /\ RequestStep(r))
    /\ \A w \in Workers : WF_vars(WorkerStep(w))

-----------------------------------------------------------------------------
(* Properties.                                                             *)

\* "at most one in-flight (pending/running) Tier 0 execution per WEBSITE at a
\* time", whichever analysis runs and keys the requests name.
OneInFlight ==
    \A e, f \in Executions :
        Site(e) = Site(f) /\ {status[e], status[f]} \subseteq InFlight => e = f

\* "A redelivered/duplicate dispatch must not re-trigger the run.": the provider is
\* asked for at most one run of an execution, whatever is delivered again.
TriggeredOnce == \A e \in Executions : started[e] <= 1

\* An execution that ended with evidence has the results of every job of its run
\* stored, but those whose result did not come: it ends after the ingestion, so
\* that a worker that dies in between leaves it to be polled again.
EvidenceStored ==
    \A e \in Executions, j \in Jobs :
        status[e] \in Usable => viewports[e][j] > 0 \/ j \in missed[e]

\* "replace rather than accumulate duplicates": the viewport rows of a page appear
\* twice only where two workers died, as a death makes a second chain of polls ingest
\* the same run, or where the script was run three times with one key and result.
Thrice(e, j) ==
    \E p, q, r \in Manual :
        /\ p # q /\ q # r /\ p # r
        /\ \A s \in {p, q, r} : wanted[s] = e /\ result[s] = j
StoredOnce ==
    \A e \in Executions, j \in Jobs : viewports[e][j] > 1 => crashes > 1 \/ Thrice(e, j)

\* Not kept, and checked by no run: the rows are replaced whoever overlaps.  Two runs
\* of the script that both find what a first one stored leave them twice.
AlwaysReplaced == \A e \in Executions, j \in Jobs : viewports[e][j] <= 1

\* _merged_usable_page_results: a job of an analysis run is shown from the usable
\* execution with it that finished last.
UsableOf(u) == {e \in Executions : RunOf[e] = u /\ status[e] \in Usable}
ShownOfLatest(u, e, j) ==                                           \* mutant
    viewports[e][j] > 0 /\ \A f \in UsableOf(u) : <<f, e>> \notin later
ShownFrom(u, e, j) ==
    viewports[e][j] > 0 /\ \A f \in UsableOf(u) : viewports[f][j] > 0 => <<f, e>> \notin later
Shown(u) == {j \in Jobs : \E e \in UsableOf(u) : ShownFrom(u, e, j)}

\* "Real, separate Tier 0 lanes must accumulate, not replace each other": a later
\* execution of the analysis run never takes away evidence a report showed, unless
\* a death made two chains of polls, whose verdicts overwrite each other.
EvidenceKept ==
    [][crashes' = 0 => \A u \in Runs : Shown(u) \subseteq Shown(u)']_vars

\* "bounded so a stuck/never-completing GitHub Actions run cannot poll forever":
\* an execution in flight ends, and with it the refusal of others, unless a call
\* raised or a worker died.
InFlightEnds ==
    \A e \in Executions :
        status[e] \in InFlight ~> status[e] \notin InFlight \/ errors > 0 \/ crashes > 0
=============================================================================
