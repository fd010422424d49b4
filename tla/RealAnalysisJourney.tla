------------------------- MODULE RealAnalysisJourney -------------------------
(***************************************************************************)
(* One real-website analysis: the agent_executions row of the execution,   *)
(* the Celery messages that drive its five stages, the worker processes    *)
(* that run them, and the API requests that start, resume and cancel it.   *)
(*                                                                         *)
(* The row is shared by all of them.  `_claim_stage` and `_begin_journey`  *)
(* read and write it under SELECT ... FOR UPDATE and are one step each;    *)
(* every other handler reads it in one step, keeps the copy (snap) and     *)
(* writes it back in a later step, replacing the whole structured_output   *)
(* document.                                                               *)
(***************************************************************************)
EXTENDS Integers, FiniteSets

CONSTANTS
    Workers,          \* Celery worker slots
    Requests,         \* API requests, each serving one operation
    Starter,          \* the request that created the execution
    MaxAttempt,       \* bound on the attempts that resume opens
    MaxRedeliveries,  \* bound on broker redeliveries of an unacknowledged task
    MaxCrashes        \* bound on the deaths of worker and API processes

ASSUME JourneyAssumption ==
    /\ Starter \in Requests
    /\ MaxAttempt \in Nat \ {0}
    /\ MaxRedeliveries \in Nat
    /\ MaxCrashes \in Nat

-----------------------------------------------------------------------------
(* The stages and their chain.                                             *)

Stages == {"website_discovery", "page_analysis", "primary_page_analysis",
           "browser_compatibility", "multi_agent_analysis"}

\* The task whose success publishes each stage; "journey" is the task that
\* replaces itself by the chain.
Successor == [journey               |-> "website_discovery",
              website_discovery     |-> "page_analysis",
              page_analysis         |-> "primary_page_analysis",
              primary_page_analysis |-> "browser_compatibility",
              browser_compatibility |-> "multi_agent_analysis",
              multi_agent_analysis  |-> "none"]

\* The stages whose completion is entered in completed_stage_ids.
Recorded == {"website_discovery", "page_analysis", "browser_compatibility"}

Attempts == 1..MaxAttempt
Tasks    == Stages \cup {"journey"}
Messages == Tasks \X Attempts    \* a task id carries the attempt that issued it

Active   == {"pending", "running"}
Terminal == {"completed", "partial", "failed", "cancelled", "unavailable"}
Statuses == Active \cup Terminal

\* structured_output: the stage claims, journey_status, completed_stage_ids,
\* whether primary_analysis_status is set, and agent_workflow_ready.
Output == [owner   : [Stages -> 0..MaxAttempt],
           journey : {"unset", "queued", "running", "failed", "ended"},
           done    : SUBSET Recorded,
           primary : BOOLEAN,
           ready   : BOOLEAN]

EmptyOutput == [owner   |-> [s \in Stages |-> 0],
                journey |-> "unset",
                done    |-> {},
                primary |-> FALSE,
                ready   |-> FALSE]

\* provider_version_metadata: the attempt of the journey task id and of the
\* stage task ids it lists (0 when it lists none).
TaskIds   == [journey : 0..MaxAttempt, stages : 0..MaxAttempt]
NoTaskIds == [journey |-> 0, stages |-> 0]

\* What a worker holds of the row between a read and the write that follows.
Copy == [status : Statuses, out : Output]

\* What a request holds of it.
RequestCopy == [status  : Statuses,
                attempt : Attempts,
                out     : Output,
                ids     : TaskIds,
                stale   : BOOLEAN]

NoJob == [task |-> "journey", gen |-> 1, epoch |-> 1]
NoCopy == [status |-> "pending", out |-> EmptyOutput]
NoRequestCopy == [status |-> "pending", attempt |-> 1, out |-> EmptyOutput,
                  ids |-> NoTaskIds, stale |-> FALSE]

-----------------------------------------------------------------------------
VARIABLES
    status,      \* agent_executions.status
    attempt,     \* agent_executions.attempt
    out,         \* agent_executions.structured_output
    ids,         \* agent_executions.provider_version_metadata
    agentRuns,   \* an agent_runs row of the execution exists
    silent,      \* 900 seconds passed since journey_updated_at
    queue,       \* copies of each message in the broker
    revoked,     \* messages the workers were told to discard
    pc,          \* where each worker is in its task
    job,         \* its task, the message's attempt, the attempt it claimed
    copy,        \* the row as it last read it
    rpc,         \* where each request is
    rcopy,       \* the row as it last read it
    redeliveries, crashes,
    claimed,     \* history: every <<stage, attempt>> claimed so far
    lost         \* history: claims erased by a write of an older document

row      == <<status, attempt, out, ids, agentRuns, silent>>
broker   == <<queue, revoked>>
workers  == <<pc, job, copy>>
requests == <<rpc, rcopy>>
faults   == <<redeliveries, crashes>>
history  == <<claimed, lost>>
vars     == <<row, broker, workers, requests, faults, history>>

\* The worker phases in which a delivery owns its stage and acts for it.
Owning == {"begin", "beginWrite", "work", "reportWrite", "finishWrite",
           "failWrite", "execute", "agents", "finalizeWrite"}
Phases == Owning \cup {"idle", "publish", "forward"}
RPhases == {"new", "cancel", "resume", "enqueue", "dispatch", "closed"}

TypeOK ==
    /\ status \in Statuses
    /\ attempt \in Attempts
    /\ out \in Output
    /\ ids \in TaskIds
    /\ agentRuns \in BOOLEAN
    /\ silent \in BOOLEAN
    /\ queue \in [Messages -> Nat]
    /\ revoked \subseteq Messages
    /\ pc \in [Workers -> Phases]
    /\ job \in [Workers -> [task : Tasks, gen : Attempts, epoch : Attempts]]
    /\ copy \in [Workers -> Copy]
    /\ rpc \in [Requests -> RPhases]
    /\ rcopy \in [Requests -> RequestCopy]
    /\ redeliveries \in 0..MaxRedeliveries
    /\ crashes \in 0..MaxCrashes
    /\ claimed \subseteq Stages \X Attempts
    /\ lost \subseteq Stages \X Attempts

RowCopy == [status |-> status, out |-> out]

\* The request that created the execution has committed the row and is about
\* to enqueue the journey.
Init ==
    /\ status = "pending"
    /\ attempt = 1
    /\ out = EmptyOutput
    /\ ids = NoTaskIds
    /\ agentRuns = FALSE
    /\ silent = FALSE
    /\ queue = [m \in Messages |-> 0]
    /\ revoked = {}
    /\ pc = [w \in Workers |-> "idle"]
    /\ job = [w \in Workers |-> NoJob]
    /\ copy = [w \in Workers |-> NoCopy]
    /\ rpc = [r \in Requests |-> IF r = Starter THEN "enqueue" ELSE "new"]
    /\ rcopy = [r \in Requests |-> NoRequestCopy]
    /\ redeliveries = 0
    /\ crashes = 0
    /\ claimed = {}
    /\ lost = {}

-----------------------------------------------------------------------------
(* Writing the row.                                                        *)

\* The claims a write of document o erases from the row.
Erased(o) == {c \in Stages \X Attempts :
                 o.owner[c[1]] < c[2] /\ c[2] <= out.owner[c[1]]}

\* UPDATE agent_executions SET structured_output = o
Persist(o) ==
    /\ out' = o
    /\ lost' = lost \cup Erased(o)

Goto(w, p) == pc' = [pc EXCEPT ![w] = p]
Rest(w) == Goto(w, "idle") /\ job' = [job EXCEPT ![w] = NoJob]
DropCopy(w) == copy' = [copy EXCEPT ![w] = NoCopy]

\* A message leaves the broker, or enters it.
Take(m) == queue' = [queue EXCEPT ![m] = @ - 1]
Send(m) == queue' = [queue EXCEPT ![m] = @ + 1]

Message(w) == <<job[w].task, job[w].gen>>

\* An unlocked read: the worker keeps the row it saw and goes on to write it.
ReadRow(w, p) ==
    /\ copy' = [copy EXCEPT ![w] = RowCopy]
    /\ Goto(w, p)
    /\ UNCHANGED <<status, attempt, out, ids, silent, broker, job, requests,
                   faults, history>>

-----------------------------------------------------------------------------
(* The journey task.                                                       *)

\* A terminal execution is left alone, and so is a journey already running.
AlreadyBegun == status = "running" /\ out.journey = "running"
StartableWhenEnded == ~AlreadyBegun                                \* mutant
Startable == status \notin Terminal /\ ~AlreadyBegun

\* _begin_journey, under the row lock.  Nothing is published yet.
BeginJourney(w, a) ==
    LET m == <<"journey", a>>
    IN  /\ pc[w] = "idle"
        /\ queue[m] > 0
        /\ Take(m)
        /\ IF Startable
           THEN /\ out' = [out EXCEPT
                       !.journey = "running",
                       !.done = IF attempt > 1 THEN @ \ {"browser_compatibility"} ELSE @,
                       !.ready = IF attempt > 1 THEN FALSE ELSE @]
                /\ status' = "running"
                /\ ids' = [ids EXCEPT !.stages = attempt]
                /\ silent' = FALSE
                /\ Goto(w, "publish")
                \* the stage task ids carry the attempt of the row, not of m
                /\ job' = [job EXCEPT ![w] = [task |-> "journey", gen |-> a,
                                              epoch |-> attempt]]
           ELSE UNCHANGED <<out, status, ids, silent, pc, job>>
        /\ UNCHANGED <<attempt, agentRuns, revoked, copy, requests, faults, history>>

\* self.replace(chain) sends the first stage; the journey task is acknowledged.
PublishChain(w) ==
    /\ pc[w] = "publish"
    /\ Send(<<Successor["journey"], job[w].epoch>>)
    /\ Rest(w)
    /\ UNCHANGED <<row, revoked, copy, requests, faults, history>>

-----------------------------------------------------------------------------
(* The stage tasks.                                                        *)

\* The stage is owned for the row's attempt, or for a later one.
OwnedOffByOne(s) == out.owner[s] > attempt                          \* mutant
OwnedByAnyAttempt(s) == out.owner[s] > 0                            \* mutant
Owned(s) == out.owner[s] >= attempt

\* An ignored delivery is acknowledged and its chain cleared.
IgnoreAndForward(w, s, a) ==                                        \* mutant
    /\ Goto(w, "forward")
    /\ job' = [job EXCEPT ![w] = [task |-> s, gen |-> a, epoch |-> a]]
Ignore(w, s, a) == UNCHANGED <<pc, job>>

\* _enter_stage and _claim_stage: a terminal execution is skipped and the chain
\* advances; a stage already owned for the row's attempt is ignored and the
\* chain stops here; otherwise this delivery becomes the owner.
ClaimStage(w, s, a) ==
    /\ pc[w] = "idle"
    /\ queue[<<s, a>>] > 0
    /\ Take(<<s, a>>)
    /\ \/ /\ status \in Terminal
          /\ Goto(w, "forward")
          /\ job' = [job EXCEPT ![w] = [task |-> s, gen |-> a, epoch |-> a]]
          /\ UNCHANGED <<out, claimed>>
       \/ /\ status \notin Terminal
          /\ Owned(s)
          /\ Ignore(w, s, a)
          /\ UNCHANGED <<out, claimed>>
       \/ /\ status \notin Terminal
          /\ ~Owned(s)
          /\ out' = [out EXCEPT !.owner[s] = attempt]
          /\ claimed' = claimed \cup {<<s, attempt>>}
          /\ Goto(w, "begin")
          /\ job' = [job EXCEPT ![w] = [task |-> s, gen |-> a, epoch |-> attempt]]
    /\ UNCHANGED <<status, attempt, ids, agentRuns, silent, revoked, copy,
                   requests, faults, lost>>

\* A worker that was told to revoke the task discards it.
DiscardRevoked(m) ==
    /\ m \in revoked
    /\ queue[m] > 0
    /\ Take(m)
    /\ UNCHANGED <<row, revoked, workers, requests, faults, history>>

\* The write half of _update_journey_stage: o is made from the copy read before.
UpdateJourneyStage(w, o) ==
    IF copy[w].status \in Terminal
    THEN UNCHANGED <<status, out, silent, lost>>
    ELSE /\ Persist([o EXCEPT !.journey = "running"])
         /\ status' = IF copy[w].status = "pending" THEN "running" ELSE status
         /\ silent' = FALSE

WriteFrame(w) ==
    /\ DropCopy(w)
    /\ UNCHANGED <<attempt, ids, agentRuns, broker, requests, faults, claimed>>

\* The stage announces itself; the agent stage also sets agent_workflow_ready.
ReadAtBegin(w) ==
    /\ pc[w] = "begin"
    /\ ReadRow(w, "beginWrite")
    /\ UNCHANGED agentRuns

BeginStage(w) ==
    LET last == job[w].task = "multi_agent_analysis"
    IN  /\ pc[w] = "beginWrite"
        /\ UpdateJourneyStage(w, [copy[w].out EXCEPT !.ready = @ \/ last])
        /\ Goto(w, IF last THEN "execute" ELSE "work")
        /\ WriteFrame(w) /\ UNCHANGED job

\* Attempts after the first keep a terminal primary analysis when its pages are
\* usable.
SkipRetainedPrimary(w) ==
    /\ pc[w] = "begin"
    /\ job[w].task = "primary_page_analysis"
    /\ attempt > 1
    /\ out.primary
    /\ ReadRow(w, "finishWrite")
    /\ UNCHANGED agentRuns

\* The side effects of a stage end and the row is read for the outcome: they
\* succeeded, or raised where the stage lets an exception mark it failed (the
\* browser stage swallows its own).
StageWork(w) ==
    /\ pc[w] = "work"
    /\ \/ ReadRow(w, "finishWrite")
       \/ job[w].task # "browser_compatibility" /\ ReadRow(w, "failWrite")
    /\ UNCHANGED agentRuns

\* The row is read to report browser observations or to store their artifact.
ObserveBrowser(w) ==
    /\ pc[w] = "work"
    /\ job[w].task = "browser_compatibility"
    /\ ReadRow(w, "reportWrite")
    /\ UNCHANGED agentRuns

ReportProgress(w) ==
    /\ pc[w] = "reportWrite"
    /\ UpdateJourneyStage(w, copy[w].out)
    /\ Goto(w, "work")
    /\ WriteFrame(w) /\ UNCHANGED job

\* The artifact is stored with the document; the journey's progress is not.
StoreArtifact(w) ==
    /\ pc[w] = "reportWrite"
    /\ IF copy[w].status \in Terminal THEN UNCHANGED <<out, lost>>
                                      ELSE Persist(copy[w].out)
    /\ Goto(w, "work")
    /\ WriteFrame(w) /\ UNCHANGED <<status, silent, job>>

\* The stages entered as completed once task s is.
OnlyTheLast(done, s)   == {s} \cap Recorded                         \* mutant
EveryStage(done, s)    == done \cup {s}                             \* mutant
WithCompleted(done, s) == done \cup ({s} \cap Recorded)

FinishStage(w) ==
    /\ pc[w] = "finishWrite"
    /\ UpdateJourneyStage(w, [copy[w].out EXCEPT
           !.done = WithCompleted(@, job[w].task),
           !.primary = @ \/ job[w].task = "primary_page_analysis"])
    /\ Goto(w, "forward")
    /\ WriteFrame(w) /\ UNCHANGED job

\* The write half of _mark_stage_failed; the task raises and the chain stops.
MarkStageFailed(w) ==
    /\ pc[w] = "failWrite"
    /\ IF copy[w].status \in Terminal
       THEN UNCHANGED <<status, out, silent, lost>>
       ELSE /\ Persist([copy[w].out EXCEPT !.journey = "failed"])
            /\ status' = "failed"
            /\ silent' = FALSE
    /\ Rest(w)
    /\ WriteFrame(w)

\* The task returned: the next stage of the chain is sent and this one acked.
ForwardChain(w) ==
    LET next == Successor[job[w].task]
    IN  /\ pc[w] = "forward"
        /\ IF next = "none" THEN UNCHANGED queue
                            ELSE Send(<<next, job[w].gen>>)
        /\ Rest(w)
        /\ UNCHANGED <<row, revoked, copy, requests, faults, history>>

-----------------------------------------------------------------------------
(* The agent workflow, seen from the row.                                  *)

\* A running execution is entered only by the journey's handover, once.
RefusedUnlessPending == status # "pending"                          \* mutant
Refused == \/ status \in Terminal
           \/ status = "running" /\ (~out.ready \/ agentRuns)

\* The locked entry of DeterministicWorkflowOrchestrator.execute.
ExecuteWorkflow(w) ==
    /\ pc[w] = "execute"
    /\ status' = IF Refused THEN status ELSE "running"
    /\ Goto(w, IF Refused THEN "forward" ELSE "agents")
    /\ UNCHANGED <<attempt, out, ids, agentRuns, silent, broker, job, copy,
                   requests, faults, history>>

\* The batches run, unless the execution is found cancelled, and the row is
\* read for the outcome; an error in them finalizes a running execution and
\* marks the stage failed otherwise.
RunAgents(w) ==
    /\ pc[w] = "agents"
    /\ \/ /\ status = "cancelled"
          /\ Goto(w, "forward")
          /\ UNCHANGED <<row, broker, job, copy, requests, faults, history>>
       \/ /\ status # "cancelled"
          /\ agentRuns' = TRUE
          /\ ReadRow(w, "finalizeWrite")
       \/ /\ agentRuns' \in {agentRuns, TRUE}
          /\ ReadRow(w, IF status = "running" THEN "finalizeWrite" ELSE "failWrite")

\* _finalize_execution: the outcome of the agents.
FinalizeExecution(w) ==
    /\ pc[w] = "finalizeWrite"
    /\ status' \in {"completed", "partial", "failed", "unavailable"}
    /\ Persist([copy[w].out EXCEPT !.journey = "ended"])
    /\ silent' = FALSE
    /\ Goto(w, "forward")
    /\ WriteFrame(w) /\ UNCHANGED job

-----------------------------------------------------------------------------
(* The API requests.                                                       *)

RGoto(r, p) == rpc' = [rpc EXCEPT ![r] = p]
Close(r) == RGoto(r, "closed") /\ rcopy' = [rcopy EXCEPT ![r] = NoRequestCopy]

\* The request reads a row whose status and attempt are st and a.
Fetch(r, st, a) == rcopy' = [rcopy EXCEPT ![r] =
                      [status |-> st, attempt |-> a, out |-> out, ids |-> ids,
                       stale |-> silent /\ st \in Active]]

\* The route reads the row to cancel or to resume it.
FetchExecution(r) ==
    /\ rpc[r] = "new"
    /\ \/ RGoto(r, "cancel")
       \/ RGoto(r, "resume")
    /\ Fetch(r, status, attempt)
    /\ UNCHANGED <<row, broker, workers, faults, history>>

\* cancel_execution and the revocation of the recorded task ids.
CancelExecution(r) ==
    /\ rpc[r] = "cancel"
    /\ IF rcopy[r].status = "completed"
       THEN UNCHANGED <<status, revoked>>
       ELSE /\ status' = IF rcopy[r].status = "cancelled" THEN status ELSE "cancelled"
            \* the ids are read again when the row was written
            /\ LET seen == IF rcopy[r].status = "cancelled" THEN rcopy[r].ids ELSE ids
               IN  revoked' = revoked \cup
                     {m \in Messages : \/ m = <<"journey", seen.journey>>
                                       \/ m[1] \in Stages /\ m[2] = seen.stages}
    /\ Close(r)
    /\ UNCHANGED <<attempt, out, ids, agentRuns, silent, queue, workers, faults,
                   history>>

\* resume marks an execution it saw stale as failed, and reads it again.
MarkStalled(r) ==
    /\ rpc[r] = "resume"
    /\ rcopy[r].stale
    /\ status' = "failed"
    /\ Fetch(r, "failed", attempt)
    /\ UNCHANGED <<attempt, out, ids, agentRuns, silent, broker, workers, rpc,
                   faults, history>>

\* prepare_resume: refused for a completed or an active execution.
PrepareResume(r) ==
    /\ rpc[r] = "resume"
    /\ ~rcopy[r].stale
    /\ IF rcopy[r].status \in Active \cup {"completed"}
       THEN Close(r) /\ UNCHANGED <<status, attempt>>
       ELSE /\ rcopy[r].attempt < MaxAttempt
            /\ attempt' = rcopy[r].attempt + 1
            /\ status' = "pending"
            /\ RGoto(r, "enqueue")
            /\ Fetch(r, "pending", rcopy[r].attempt + 1)
    /\ UNCHANGED <<out, ids, agentRuns, silent, broker, workers, faults, history>>

EnqueueJourney(r) ==
    /\ rpc[r] = "enqueue"
    /\ Send(<<"journey", rcopy[r].attempt>>)
    /\ RGoto(r, "dispatch")
    /\ UNCHANGED <<row, revoked, workers, rcopy, faults, history>>

\* The broker is unreachable: the request marks the execution failed.
EnqueueFails(r) ==
    /\ rpc[r] = "enqueue"
    /\ crashes < MaxCrashes
    /\ crashes' = crashes + 1
    /\ status' = "failed"
    /\ Close(r)
    /\ UNCHANGED <<attempt, out, ids, agentRuns, silent, broker, workers,
                   redeliveries, history>>

\* record_dispatch, written from the copy taken before the journey was enqueued.
RecordDispatch(r) ==
    /\ rpc[r] = "dispatch"
    /\ Persist([rcopy[r].out EXCEPT !.journey = "queued"])
    /\ ids' = [rcopy[r].ids EXCEPT !.journey = rcopy[r].attempt]
    /\ silent' = FALSE
    /\ Close(r)
    /\ UNCHANGED <<status, attempt, agentRuns, broker, workers, faults, claimed>>

-----------------------------------------------------------------------------
(* Time and faults.                                                        *)

\* 900 seconds pass without a write of journey_updated_at.  Only a request that
\* is still to read the row can tell.
FallSilent ==
    /\ ~silent
    /\ \E r \in Requests : rpc[r] = "new"
    /\ status \in Active
    /\ silent' = TRUE
    /\ UNCHANGED <<status, attempt, out, ids, agentRuns, broker, workers,
                   requests, faults, history>>

\* The broker hands out a message again while its worker is still busy with it.
Redeliver(w) ==
    /\ pc[w] # "idle"
    /\ redeliveries < MaxRedeliveries
    /\ redeliveries' = redeliveries + 1
    /\ Send(Message(w))
    /\ UNCHANGED <<row, revoked, workers, requests, crashes, history>>

\* A worker dies; its message is redelivered, or was acknowledged on its loss.
WorkerCrash(w) ==
    /\ pc[w] # "idle"
    /\ crashes < MaxCrashes
    /\ crashes' = crashes + 1
    /\ Rest(w)
    /\ DropCopy(w)
    /\ UNCHANGED queue \/ Send(Message(w))
    /\ UNCHANGED <<row, revoked, requests, redeliveries, history>>

\* An API process dies between two of its commits.
RequestCrash(r) ==
    /\ rpc[r] \notin {"new", "closed"}
    /\ crashes < MaxCrashes
    /\ crashes' = crashes + 1
    /\ Close(r)
    /\ UNCHANGED <<row, broker, workers, redeliveries, history>>

-----------------------------------------------------------------------------
WorkerStep(w) ==
    \/ \E a \in Attempts : BeginJourney(w, a)
    \/ PublishChain(w)
    \/ \E s \in Stages, a \in Attempts : ClaimStage(w, s, a)
    \/ ReadAtBegin(w)
    \/ BeginStage(w)
    \/ SkipRetainedPrimary(w)
    \/ StageWork(w)
    \/ ObserveBrowser(w)
    \/ ReportProgress(w)
    \/ StoreArtifact(w)
    \/ FinishStage(w)
    \/ MarkStageFailed(w)
    \/ ForwardChain(w)
    \/ ExecuteWorkflow(w)
    \/ RunAgents(w)
    \/ FinalizeExecution(w)

RequestStep(r) ==
    \/ FetchExecution(r)
    \/ CancelExecution(r)
    \/ MarkStalled(r)
    \/ PrepareResume(r)
    \/ EnqueueJourney(r)
    \/ RecordDispatch(r)

Fault ==
    \/ \E m \in Messages : DiscardRevoked(m)
    \/ FallSilent
    \/ \E w \in Workers : Redeliver(w) \/ WorkerCrash(w)
    \/ \E r \in Requests : EnqueueFails(r) \/ RequestCrash(r)

Next ==
    \/ \E w \in Workers : WorkerStep(w)
    \/ \E r \in Requests : RequestStep(r)
    \/ Fault

Spec == Init /\ [][Next]_vars

\* A worker with a task, or with a message to take, gets on with it, and so
\* does a request that has begun.  A browser run has finitely many pages to
\* observe, so its work ends.
FairSpec ==
    /\ Spec
    /\ \A w \in Workers : WF_vars(WorkerStep(w)) /\ SF_vars(StageWork(w))
    /\ \A r \in Requests : WF_vars(rpc[r] # "new" /\ RequestStep(r))
-----------------------------------------------------------------------------
(* Properties.                                                             *)

Delivering(w) == pc[w] \in Owning
Claim(w) == <<job[w].task, job[w].epoch>>

\* For one (execution, attempt, stage) at most one delivery is active, as long
\* as no write of an older document erased the claim: _claim_stage refuses
\* every other delivery, whatever the broker hands out and whoever crashes.
ExclusiveStage ==
    \A v, w \in Workers :
        Delivering(v) /\ Delivering(w) /\ Claim(v) = Claim(w) /\ Claim(w) \notin lost
            => v = w

\* A stage of an attempt whose claim is still recorded is never run again by
\* _claim_stage, not even after the delivery that claimed it has died.
NeverClaimedAgain ==
    [][\A w \in Workers : pc[w] = "idle" /\ pc'[w] = "begin"
          => Claim(w)' \notin claimed \ lost]_vars

\* The chain of the first attempt is strict: one task of the run acts at a time,
\* unless a claim was erased.  An ignored duplicate does not advance the chain.
StrictChain ==
    attempt = 1 /\ lost = {} => Cardinality({w \in Workers : Delivering(w)}) <= 1

\* The first attempt ends completed or partial only after every recorded stage.
WholeJourney ==
    attempt = 1 /\ status \in {"completed", "partial"} /\ lost = {} => out.done = Recorded

\* In its first attempt a terminal execution stays terminal: nothing but a resume,
\* which opens another attempt, takes it back.
NoRevival ==
    [][attempt = 1 /\ status \in Terminal /\ status' \in Active => attempt' > attempt]_vars

\* A stage once recorded as completed stays recorded until an attempt after the
\* first reopens the browser stage, although every handler of every task writes
\* the whole document from its own copy.
RecordedIsKept ==
    [][lost' = {} /\ attempt = 1 => out.done \subseteq out'.done]_vars

\* Without a crash, a dispatched journey reaches a terminal status.
JourneyEnds == <>(status \in Terminal \/ lost # {} \/ crashes > 0)

\* Nothing is left that would act for the execution.
NothingLeft ==
    /\ \A m \in Messages : queue[m] = 0
    /\ \A w \in Workers : pc[w] = "idle"
    /\ \A r \in Requests : rpc[r] \in {"new", "closed"}

\* What may stop a chain by itself: a death, a second delivery, a request beside
\* the one that opened each attempt, or a claim erased by an older document.
Disturbed ==
    \/ crashes > 0
    \/ redeliveries > 0
    \/ Cardinality({r \in Requests : rpc[r] # "new"}) > attempt
    \/ lost # {}

\* A resumed execution whose agents never ran is left active with nobody at work.
Stranded == attempt > 1 /\ status \in Active /\ ~agentRuns /\ NothingLeft

\* The chains of two attempts act side by side, and a delivery of either may claim
\* a stage for the new one: whichever does carries the chain on.  So a resumed
\* execution whose agents never ran is stranded in one place only: the last
\* stage was claimed and its handover to the agents undone.
StrandedAtHandover ==
    Stranded /\ ~Disturbed => out.owner["multi_agent_analysis"] > 0 /\ ~out.ready

-----------------------------------------------------------------------------
(* Statements of the repository's comments, documents and tests that the     *)
(* code does not keep.                                                       *)

\* "for one (execution_id, attempt, stage) at most one active delivery may
\* perform side effects": the claim of _claim_stage is erased when
\* record_dispatch writes back the document it read before the enqueue.
OneActiveDelivery ==
    \A v, w \in Workers :
        Delivering(v) /\ Delivering(w) /\ Claim(v) = Claim(w) => v = w

\* "at most one task per run is active": a resumed execution runs beside the
\* attempt it was thought to replace.
OneTaskPerRun == Cardinality({w \in Workers : Delivering(w)}) <= 1

\* "Completed workflow executions are immutable.": cancel_execution and the
\* stale check write a status decided on a copy read earlier.
CompletedIsImmutable == [][status = "completed" => status' = "completed"]_vars

\* "A safe retry can continue from retained evidence.": an attempt opened by
\* resume reaches a terminal status.  Over retained agent runs the entry of
\* execute refuses the handover and the execution stays running.
RetainedResumeEnds == (attempt > 1 /\ agentRuns) ~> (status \in Terminal \/ lost # {})

\* The same with no agent runs to retain.  A delivery of the attempt before claims
\* the last stage for the new one and sets agent_workflow_ready; another task, or
\* record_dispatch, writes back a document it read before; the entry of execute
\* refuses, and the new chain ends at the stage that is owned.
FreshResumeGoesOn == Stranded => Disturbed

\* "Cancellation prevents new work": a cancelled execution is active again only
\* after another resume.  A task of the attempt before, which read the row while
\* it was pending, writes running over the cancellation.
CancelledStaysCancelled ==
    [][status = "cancelled" => status' \in Terminal \/ attempt' > attempt]_vars
=============================================================================
