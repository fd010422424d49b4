---------------------------- MODULE AgentWorkflow ----------------------------
(***************************************************************************)
(* DeterministicWorkflowOrchestrator: one execution of a workflow graph,    *)
(* its agent_runs rows, the deliveries of the Celery task that orchestrate  *)
(* it, the thread of each agent, and the API requests that cancel, resume   *)
(* or retry it.                                                             *)
(*                                                                         *)
(* A thread cannot be killed: one whose future timed out goes on working    *)
(* and writes its row after the orchestrator has moved on.  The execution   *)
(* is one without a journey, so agent_workflow_ready is not set.            *)
(***************************************************************************)
EXTENDS Integers, FiniteSets

CONSTANTS
    Agents,          \* the nodes of the workflow
    Requires,        \* node.depends_on
    Prefers,         \* node.optional_dependencies
    MaxAttempts,     \* retry_policy.max_attempts
    MaxConcurrency,  \* structured_input.max_concurrency
    Deliveries,      \* deliveries of the task, each run once by a worker
    Requests,        \* API requests
    MaxTimeouts,     \* bound on the futures that time out
    MaxErrors,       \* bound on the database and broker calls that raise
    MaxCrashes       \* bound on the deaths of workers

ASSUME WorkflowAssumption ==
    /\ Requires \in [Agents -> SUBSET Agents]
    /\ Prefers \in [Agents -> SUBSET Agents]
    /\ MaxAttempts \in Nat \ {0}
    /\ MaxConcurrency \in Nat \ {0}
    /\ MaxTimeouts \in Nat /\ MaxErrors \in Nat /\ MaxCrashes \in Nat
    \* the registry refuses a workflow with a cycle
    /\ \A S \in SUBSET Agents :
          S # Agents => \E a \in Agents \ S : Requires[a] \cup Prefers[a] \subseteq S

Attempts == 1..MaxAttempts

\* The status of an agent_runs row; a failed run whose failures are transient is
\* told from one that may not be retried.
Results   == {"completed", "partial", "failed", "transient", "unavailable"}
RunStates == Results \cup {"absent", "running", "cancelled"}
Outcomes  == {"completed", "partial", "failed", "unavailable"}
Statuses  == Outcomes \cup {"pending", "running", "cancelled"}

-----------------------------------------------------------------------------
VARIABLES
    status,    \* agent_executions.status
    runs,      \* agent_runs: the status of each attempt of each agent
    msgs,      \* execute messages in the broker
    pc,        \* where each delivery is
    scheduled, \* the agents of the batches it has behind it
    waits,     \* the agents whose futures it waits for
    mark,      \* the agent_runs row it is about to mark failed
    outcome,   \* the status it is about to write
    thread,    \* the thread of each delivery for each agent
    row,       \* the attempt that thread works on
    rpc,       \* where each request is
    timeouts, errors, crashes

execution == <<status, runs>>
deliveries == <<pc, scheduled, waits, mark, outcome>>
threads    == <<thread, row>>
bounds     == <<timeouts, errors, crashes>>
vars       == <<execution, msgs, deliveries, threads, rpc, bounds>>

NoMark == [agent |-> "none", attempt |-> 0, as |-> "none"]
Marks  == [agent : Agents, attempt : Attempts, as : {"failed", "transient"}]

Phases  == {"new", "partition", "collect", "mark", "finalize", "over"}
Threads == {"none", "queued", "insert", "running", "again", "done", "error"}

TypeOK ==
    /\ status \in Statuses
    /\ runs \in [Agents -> [Attempts -> RunStates]]
    /\ msgs \in Nat
    /\ pc \in [Deliveries -> Phases]
    /\ scheduled \in [Deliveries -> SUBSET Agents]
    /\ waits \in [Deliveries -> SUBSET Agents]
    /\ mark \in [Deliveries -> Marks \cup {NoMark}]
    /\ outcome \in [Deliveries -> Outcomes \cup {"none"}]
    /\ thread \in [Deliveries -> [Agents -> Threads]]
    /\ row \in [Deliveries -> [Agents -> Attempts]]
    /\ rpc \in [Requests -> {"new", "cancel", "pend", "enqueue", "closed"}]
    /\ timeouts \in 0..MaxTimeouts
    /\ errors \in 0..MaxErrors
    /\ crashes \in 0..MaxCrashes
    \* a delivery about to write has what it writes
    /\ \A d \in Deliveries :
          /\ pc[d] = "mark" => mark[d] \in Marks
          /\ pc[d] = "finalize" => outcome[d] \in Outcomes

\* The execution was created and its message sent.
Init ==
    /\ status = "pending"
    /\ runs = [a \in Agents |-> [n \in Attempts |-> "absent"]]
    /\ msgs = 1
    /\ pc = [d \in Deliveries |-> "new"]
    /\ scheduled = [d \in Deliveries |-> {}]
    /\ waits = [d \in Deliveries |-> {}]
    /\ mark = [d \in Deliveries |-> NoMark]
    /\ outcome = [d \in Deliveries |-> "none"]
    /\ thread = [d \in Deliveries |-> [a \in Agents |-> "none"]]
    /\ row = [d \in Deliveries |-> [a \in Agents |-> 1]]
    /\ rpc = [r \in Requests |-> "new"]
    /\ timeouts = 0 /\ errors = 0 /\ crashes = 0

-----------------------------------------------------------------------------
(* The rows.                                                               *)

Rows(a) == {n \in Attempts : runs[a][n] # "absent"}
Last(a) == IF Rows(a) = {} THEN 0
           ELSE CHOOSE n \in Rows(a) : \A i \in Rows(a) : i <= n

\* latest_agent_runs
Latest(a) == IF Rows(a) = {} THEN "absent" ELSE runs[a][Last(a)]

OutcomeOfFailures ==                                               \* mutant
    IF {Latest(a) : a \in Agents} \cap {"failed", "transient"} = {} THEN "completed" ELSE "failed"

\* _finalize_execution: the outcome the latest runs add up to.
Outcome ==
    LET latest == {Latest(a) : a \in Agents}
        fails  == latest \cap {"failed", "transient"}
    IN  IF "completed" \in latest /\ fails \cup (latest \cap {"partial", "unavailable"}) = {}
        THEN "completed"
        ELSE IF latest \cap {"completed", "partial"} # {} THEN "partial"
        ELSE IF fails # {} THEN "failed"
        ELSE "unavailable"

WriteRun(a, n, s) == runs' = [runs EXCEPT ![a][n] = s]
SetThread(d, a, t) == thread' = [thread EXCEPT ![d][a] = t]
Goto(d, p) == pc' = [pc EXCEPT ![d] = p]

-----------------------------------------------------------------------------
(* The orchestrator.                                                       *)

\* execution_batches: the agents all of whose dependencies are in earlier batches.
Batch(d) == {a \in Agents \ scheduled[d] : Requires[a] \cup Prefers[a] \subseteq scheduled[d]}

\* The locked entry of execute: only a pending execution is entered.
Enterable == status = "pending"

Execute(d) ==
    /\ pc[d] = "new"
    /\ msgs > 0
    /\ msgs' = msgs - 1
    /\ status' = IF Enterable THEN "running" ELSE status
    /\ Goto(d, IF Enterable THEN "partition" ELSE "over")
    /\ UNCHANGED <<runs, scheduled, waits, mark, outcome, threads, rpc, bounds>>

\* The agents of the batch that are not completed yet, and those of them whose
\* required agents left no usable result.
Open(d) == {a \in Batch(d) : Latest(a) # "completed"}
BlockedByFailure(d) == {a \in Open(d) :                              \* mutant
                           Requires[a] # {} /\ \A b \in Requires[a] : Latest(b) = "failed"}
Blocked(d) == {a \in Open(d) :
                  /\ Requires[a] # {}
                  /\ \A b \in Requires[a] : Latest(b) \notin {"completed", "partial"}}

\* _partition_batch: blocked agents without a run are recorded unavailable, the
\* others get a future each.
PartitionBatch(d) ==
    LET runnable == Open(d) \ Blocked(d)
    IN  /\ pc[d] = "partition"
        /\ scheduled[d] # Agents
        /\ status # "cancelled"
        /\ runs' = [a \in Agents |-> IF a \in Blocked(d) /\ Rows(a) = {}
                                     THEN [runs[a] EXCEPT ![1] = "unavailable"]
                                     ELSE runs[a]]
        /\ waits' = [waits EXCEPT ![d] = runnable]
        /\ thread' = [thread EXCEPT ![d] =
                         [a \in Agents |-> IF a \in runnable THEN "queued" ELSE @[a]]]
        /\ Goto(d, "collect")
        /\ UNCHANGED <<status, msgs, scheduled, mark, outcome, row, rpc, bounds>>

\* Before a batch, and before the outcome, a cancelled execution is left as it is.
StopCancelled(d) ==
    /\ pc[d] = "partition"
    /\ status = "cancelled"
    /\ Goto(d, "over")
    /\ UNCHANGED <<execution, msgs, scheduled, waits, mark, outcome, threads, rpc, bounds>>

CollectResult(d, a) ==
    /\ pc[d] = "collect"
    /\ a \in waits[d]
    /\ thread[d][a] = "done"
    /\ waits' = [waits EXCEPT ![d] = @ \ {a}]
    /\ UNCHANGED <<execution, msgs, pc, scheduled, mark, outcome, threads, rpc, bounds>>

\* _mark_agent_timeout and _mark_agent_unexpected_failure: the latest run is read,
\* recorded unavailable when there is none, and to be marked when it is running.
MarkExisting(d, a, s) ==                                            \* mutant
    \/ /\ Latest(a) = "running"
       /\ mark' = [mark EXCEPT ![d] = [agent |-> a, attempt |-> Last(a), as |-> s]]
       /\ Goto(d, "mark")
       /\ UNCHANGED <<runs, waits>>
    \/ /\ Latest(a) # "running"
       /\ waits' = [waits EXCEPT ![d] = @ \ {a}]
       /\ UNCHANGED <<runs, pc, mark>>
MarkRunningOnly(d, a, s) ==                                         \* mutant
    /\ Latest(a) = "running"
    /\ mark' = [mark EXCEPT ![d] = [agent |-> a, attempt |-> Last(a), as |-> s]]
    /\ Goto(d, "mark")
    /\ UNCHANGED <<runs, waits>>
MarkLatest(d, a, s) ==
    \/ /\ Rows(a) = {}
       /\ WriteRun(a, 1, "unavailable")
       /\ waits' = [waits EXCEPT ![d] = @ \ {a}]
       /\ UNCHANGED <<pc, mark>>
    \/ /\ Latest(a) = "running"
       /\ mark' = [mark EXCEPT ![d] = [agent |-> a, attempt |-> Last(a), as |-> s]]
       /\ Goto(d, "mark")
       /\ UNCHANGED <<runs, waits>>
    \/ /\ Rows(a) # {} /\ Latest(a) # "running"
       /\ waits' = [waits EXCEPT ![d] = @ \ {a}]
       /\ UNCHANGED <<runs, pc, mark>>

\* A future exceeds the agent's timeout, or the soft time limit of the task
\* interrupts the wait; its thread is dropped only if it has not started.
TimeOut(d, a) ==
    /\ pc[d] = "collect"
    /\ a \in waits[d]
    /\ thread[d][a] \notin {"done", "error"}
    /\ timeouts < MaxTimeouts
    /\ timeouts' = timeouts + 1
    /\ \E s \in {"transient", "failed"} : MarkLatest(d, a, s)
    /\ IF thread[d][a] = "queued" THEN SetThread(d, a, "none") ELSE UNCHANGED thread
    /\ UNCHANGED <<status, msgs, scheduled, outcome, row, rpc, errors, crashes>>

CollectError(d, a) ==
    /\ pc[d] = "collect"
    /\ a \in waits[d]
    /\ thread[d][a] = "error"
    /\ MarkLatest(d, a, "failed")
    /\ UNCHANGED <<status, msgs, scheduled, outcome, threads, rpc, bounds>>

\* The mark is written over whatever the row has become.
MarkRun(d) ==
    /\ pc[d] = "mark"
    /\ WriteRun(mark[d].agent, mark[d].attempt, mark[d].as)
    /\ waits' = [waits EXCEPT ![d] = @ \ {mark[d].agent}]
    /\ mark' = [mark EXCEPT ![d] = NoMark]
    /\ Goto(d, "collect")
    /\ UNCHANGED <<status, msgs, scheduled, outcome, threads, rpc, bounds>>

\* The pool is shut down without waiting, and the outcomes of the batch recorded.
RecordBatch(d) ==
    /\ pc[d] = "collect"
    /\ waits[d] = {}
    /\ scheduled' = [scheduled EXCEPT ![d] = @ \cup Batch(d)]
    /\ Goto(d, "partition")
    /\ UNCHANGED <<execution, msgs, waits, mark, outcome, threads, rpc, bounds>>

\* After the last batch the execution and its runs are read ...
ReadOutcome(d) ==
    /\ pc[d] = "partition"
    /\ scheduled[d] = Agents
    /\ status # "cancelled"
    /\ outcome' = [outcome EXCEPT ![d] = Outcome]
    /\ Goto(d, "finalize")
    /\ UNCHANGED <<execution, msgs, scheduled, waits, mark, threads, rpc, bounds>>

\* ... and the outcome is written.
FinalizeExecution(d) ==
    /\ pc[d] = "finalize"
    /\ status' = outcome[d]
    /\ outcome' = [outcome EXCEPT ![d] = "none"]
    /\ Goto(d, "over")
    /\ UNCHANGED <<runs, msgs, scheduled, waits, mark, threads, rpc, bounds>>

\* A database call raises, as when two writers of the event sequence collide: the
\* pool is left to itself and a running execution is finalized as it stands.
OrchestratorFails(d) ==
    /\ pc[d] \in {"partition", "collect", "mark", "finalize"}
    /\ errors < MaxErrors
    /\ errors' = errors + 1
    /\ mark' = [mark EXCEPT ![d] = NoMark]
    /\ IF status = "running" /\ pc[d] # "finalize"
       THEN Goto(d, "finalize") /\ outcome' = [outcome EXCEPT ![d] = Outcome]
       ELSE Goto(d, "over") /\ outcome' = [outcome EXCEPT ![d] = "none"]
    /\ UNCHANGED <<execution, msgs, scheduled, waits, threads, rpc, timeouts, crashes>>

-----------------------------------------------------------------------------
(* The threads.                                                            *)

Working == {"insert", "running", "again"}

\* The pool of the batch has min(max_concurrency, runnable) threads.
CapacityOffByOne(d) ==                                              \* mutant
    Cardinality({a \in Batch(d) : thread[d][a] \in Working}) <= MaxConcurrency
Capacity(d) == Cardinality({a \in Batch(d) : thread[d][a] \in Working}) < MaxConcurrency

\* _execute_agent_once up to the insert: a cancelled execution, a completed agent
\* and an exhausted one are left alone; otherwise the next attempt is chosen.
SameAttempt(a) == Last(a)                                           \* mutant
AttemptFromOne(a) == (IF Rows(a) = {} THEN 1 ELSE Last(a)) + 1      \* mutant
NextAttempt(a) == Last(a) + 1

ReadRuns(d, a) ==
    /\ \/ thread[d][a] = "again"
       \/ thread[d][a] = "queued" /\ Capacity(d)
    /\ \/ /\ status = "cancelled"
          /\ IF Rows(a) = {} THEN WriteRun(a, 1, "cancelled") ELSE UNCHANGED runs
          /\ SetThread(d, a, "done")
          /\ UNCHANGED row
       \/ /\ status # "cancelled"
          /\ Latest(a) = "completed" \/ NextAttempt(a) > MaxAttempts
          /\ SetThread(d, a, "done")
          /\ UNCHANGED <<runs, row>>
       \/ /\ status # "cancelled"
          /\ Latest(a) # "completed" /\ NextAttempt(a) <= MaxAttempts
          /\ row' = [row EXCEPT ![d][a] = NextAttempt(a)]
          /\ SetThread(d, a, "insert")
          /\ UNCHANGED runs
    /\ UNCHANGED <<status, msgs, deliveries, rpc, bounds>>

\* The row is inserted; the unique constraint on (execution, agent, attempt)
\* refuses a second one and the thread raises.
InsertUnchecked(d, a) ==                                            \* mutant
    /\ thread[d][a] = "insert"
    /\ WriteRun(a, row[d][a], "running")
    /\ SetThread(d, a, "running")
    /\ UNCHANGED <<status, msgs, deliveries, row, rpc, bounds>>
InsertRun(d, a) ==
    /\ thread[d][a] = "insert"
    /\ IF runs[a][row[d][a]] = "absent"
       THEN WriteRun(a, row[d][a], "running") /\ SetThread(d, a, "running")
       ELSE SetThread(d, a, "error") /\ UNCHANGED runs
    /\ UNCHANGED <<status, msgs, deliveries, row, rpc, bounds>>

\* The tools ran and the run gets its result, over whatever its row has become;
\* a transient failure is tried again.
RetryInPlace(d, a, s) ==                                            \* mutant
    /\ thread[d][a] = "running"
    /\ WriteRun(a, row[d][a], s)
    /\ SetThread(d, a, IF s = "transient" THEN "running" ELSE "done")
    /\ UNCHANGED <<status, msgs, deliveries, row, rpc, bounds>>
FinishRun(d, a, s) ==
    /\ thread[d][a] = "running"
    /\ WriteRun(a, row[d][a], s)
    /\ SetThread(d, a, IF s = "transient" /\ row[d][a] < MaxAttempts THEN "again" ELSE "done")
    /\ UNCHANGED <<status, msgs, deliveries, row, rpc, bounds>>

\* Before each tool the execution is read again.
LeaveOnCancel(d, a) ==                                              \* mutant
    /\ thread[d][a] = "running"
    /\ status = "cancelled"
    /\ SetThread(d, a, "done")
    /\ UNCHANGED <<execution, msgs, deliveries, row, rpc, bounds>>
ObserveCancel(d, a) ==
    /\ thread[d][a] = "running"
    /\ status = "cancelled"
    /\ WriteRun(a, row[d][a], "cancelled")
    /\ SetThread(d, a, "done")
    /\ UNCHANGED <<status, msgs, deliveries, row, rpc, bounds>>

-----------------------------------------------------------------------------
(* The API requests: each reads the execution, and writes it in a later step. *)

RGoto(r, p) == rpc' = [rpc EXCEPT ![r] = p]

\* validate_agent_retry: refused for a completed execution, an agent without
\* attempts left and a run without transient failures (a partial run may have some).
Retryable(a, n) ==
    /\ status # "completed"
    /\ Last(a) < MaxAttempts
    /\ runs[a][n] \in {"transient", "partial"}

\* prepare_resume: refused for a completed or an active execution.
Resumable == status \notin {"completed", "pending", "running"}

Fetch(r) ==
    /\ rpc[r] = "new"
    /\ \/ status \notin {"completed", "cancelled"} /\ RGoto(r, "cancel")
       \/ Resumable /\ RGoto(r, "pend")
       \/ (\E a \in Agents, n \in Attempts : Retryable(a, n)) /\ RGoto(r, "pend")
    /\ UNCHANGED <<execution, msgs, deliveries, threads, bounds>>

\* cancel_execution
CancelExecution(r) ==
    /\ rpc[r] = "cancel"
    /\ status' = "cancelled"
    /\ RGoto(r, "closed")
    /\ UNCHANGED <<runs, msgs, deliveries, threads, bounds>>

\* prepare_resume and validate_agent_retry put the execution back to pending.
Reopen(r) ==
    /\ rpc[r] = "pend"
    /\ status' = "pending"
    /\ RGoto(r, "enqueue")
    /\ UNCHANGED <<runs, msgs, deliveries, threads, bounds>>

Enqueue(r) ==
    /\ rpc[r] = "enqueue"
    /\ \/ msgs' = msgs + 1 /\ UNCHANGED <<status, errors>>
       \/ /\ errors < MaxErrors     \* the broker is unreachable
          /\ errors' = errors + 1
          /\ status' = "failed"
          /\ UNCHANGED msgs
    /\ RGoto(r, "closed")
    /\ UNCHANGED <<runs, deliveries, threads, timeouts, crashes>>

\* A worker process dies with the threads of its pools; its message is delivered
\* again, or was acknowledged.
Crash(d) ==
    /\ pc[d] \notin {"new", "over"} \/ \E a \in Agents : thread[d][a] \in Working
    /\ crashes < MaxCrashes
    /\ crashes' = crashes + 1
    /\ Goto(d, "over")
    /\ waits' = [waits EXCEPT ![d] = {}]
    /\ mark' = [mark EXCEPT ![d] = NoMark]
    /\ outcome' = [outcome EXCEPT ![d] = "none"]
    /\ thread' = [thread EXCEPT ![d] = [a \in Agents |-> "none"]]
    /\ msgs' = msgs \/ msgs' = msgs + 1
    /\ UNCHANGED <<execution, scheduled, row, rpc, timeouts, errors>>

-----------------------------------------------------------------------------
Orchestrate(d) ==
    \/ Execute(d)
    \/ PartitionBatch(d)
    \/ StopCancelled(d)
    \/ \E a \in Agents : CollectResult(d, a) \/ CollectError(d, a)
    \/ MarkRun(d)
    \/ RecordBatch(d)
    \/ ReadOutcome(d)
    \/ FinalizeExecution(d)

ThreadStep(d, a) ==
    \/ ReadRuns(d, a)
    \/ InsertRun(d, a)
    \/ \E s \in Results : FinishRun(d, a, s)
    \/ ObserveCancel(d, a)

RequestStep(r) == Fetch(r) \/ CancelExecution(r) \/ Reopen(r) \/ Enqueue(r)

Fault(d) == OrchestratorFails(d) \/ Crash(d) \/ \E a \in Agents : TimeOut(d, a)

Next ==
    \/ \E d \in Deliveries : Orchestrate(d) \/ Fault(d)
    \/ \E d \in Deliveries, a \in Agents : ThreadStep(d, a)
    \/ \E r \in Requests : RequestStep(r)

Spec == Init /\ [][Next]_vars

\* A worker gets on with its task, a future that has neither ended nor timed out
\* does one of them, and the threads need not end at all.
FairSpec ==
    /\ Spec
    /\ \A d \in Deliveries : WF_vars(Orchestrate(d))
    /\ \A d \in Deliveries, a \in Agents : WF_vars(TimeOut(d, a))

-----------------------------------------------------------------------------
(* Properties.                                                             *)

\* Thread t of delivery d works on attempt n of agent a.
WorksOn(d, a, n) == thread[d][a] = "running" /\ row[d][a] = n

\* Two threads never work on the same agent run, whatever deliveries overlap: the
\* second insert of an attempt is refused by the unique constraint, and a thread
\* works only on the row it inserted.
OneWriter ==
    \A c, d \in Deliveries, a \in Agents, n \in Attempts :
        WorksOn(c, a, n) /\ WorksOn(d, a, n) => c = d

\* A run is left running only by the death of its worker: without one, every row
\* that says running has a live thread that will write it.
RunningIsWorked ==
    crashes = 0 =>
        \A a \in Agents, n \in Attempts :
            runs[a][n] = "running" => \E d \in Deliveries : WorksOn(d, a, n)

\* No agent has a run before each agent it depends on, required or optional, has
\* one: batches, blocked agents, cancellations, timeouts and errors all leave a
\* row behind, so the missing evidence is always explicit.
DependenciesRecorded ==
    \A a \in Agents : Rows(a) # {} =>
        \A b \in Requires[a] \cup Prefers[a] : Rows(b) # {}

\* The attempts of an agent are numbered without a gap, so the latest run is the
\* one counted against the retry limit.
AttemptsContiguous ==
    \A a \in Agents : Rows(a) = 1..Last(a)

\* While no future has timed out, the pools of one orchestrator keep to the stored
\* concurrency limit: a batch gets its pool only after the threads of the batch
\* before have ended.
ConcurrencyLimit ==
    timeouts = 0 =>
        \A d \in Deliveries :
            Cardinality({a \in Agents : thread[d][a] \in Working}) <= MaxConcurrency

\* "... records preserve immutable history": while no future has timed out, a run
\* that has ended is never written again, not by a retry, a redelivery or a resume.
RunsAreImmutable ==
    [][timeouts' = 0 =>
          \A a \in Agents, n \in Attempts :
              runs[a][n] \notin {"absent", "running"} => runs'[a][n] = runs[a][n]]_vars

\* Where nothing went wrong and no run was cancelled, an execution that completed
\* has every agent completed: none was skipped or is running.  The outcome counts
\* neither the runs that are running nor those that were cancelled, so a timeout,
\* an error, a crash or a cancelled run that is resumed may leave one behind.
CompletedIsWhole ==
    /\ timeouts = 0 /\ errors = 0 /\ crashes = 0
    /\ status = "completed"
    /\ \A a \in Agents, n \in Attempts : runs[a][n] # "cancelled"
    => \A a \in Agents : Latest(a) = "completed"

\* A run starts only on a usable result of one of the agents it requires.
StartsOnEvidence ==
    [][\A a \in Agents, n \in Attempts :
          runs[a][n] = "absent" /\ runs'[a][n] = "running" /\ Requires[a] # {}
             => \E b \in Requires[a], i \in Attempts :
                    runs[b][i] \in {"completed", "partial"}]_vars

\* A running execution reaches a terminal status although threads may hang, unless
\* a worker died with it.
WorkflowEnds == status = "running" ~> status \notin {"pending", "running"} \/ crashes > 0

-----------------------------------------------------------------------------
(* Statements of the repository's documents that the code does not keep.    *)

\* "already completed runs remain preserved": violated by the mark of a future
\* that timed out, written over the result its thread committed in between.
CompletedRunsKept ==
    [][\A a \in Agents, n \in Attempts :
          runs[a][n] = "completed" => runs'[a][n] = "completed"]_vars

\* "Completed workflow executions are immutable.": nothing writes a run of an
\* execution that completed.
CompletedIsFrozen == [][status = "completed" => runs' = runs]_vars
=============================================================================
