------------------------- MODULE AgentWorkflowProofs -------------------------
(***************************************************************************)
(* Proofs about AgentWorkflow, for any graph, any number of deliveries,     *)
(* requests, timeouts, errors and crashes: types, one writer for a row, no  *)
(* row left running without a crash, attempts without gaps, dependencies    *)
(* recorded first, and the limit of a pool; and, while orchestrators follow *)
(* one another, ended runs that stay, starts on evidence and completions    *)
(* that are whole.                                                          *)
(***************************************************************************)
EXTENDS AgentWorkflow, FiniteSetTheorems, WellFoundedInduction, TLAPS

Deps(a) == Requires[a] \cup Prefers[a]

-----------------------------------------------------------------------------
(* The latest row.                                                         *)

LEMMA MaxExists ==
    ASSUME NEW N \in Nat, NEW T \in SUBSET (1..N), T # {}
    PROVE  \E x \in T : \A y \in T : y <= x
<1> DEFINE D == {N - t : t \in T}
           R == OpToRel(<, Nat)
<1>1. D \subseteq Nat /\ D # {}
  <2>1. \A t \in T : N - t \in Nat
    OBVIOUS
  <2>2. PICK t \in T : TRUE
    OBVIOUS
  <2> QED
    BY <2>1, <2>2
<1>2. IsWellFoundedOn(R, Nat)
  BY NatLessThanWellFounded
<1>3. PICK m \in D : \A e \in D : ~ (<<e, m>> \in R)
  <2> HIDE DEF D, R
  <2> QED BY <1>1, <1>2, WFMin
<1>4. \A e \in D : ~ (e < m)
  BY <1>1, <1>3 DEF OpToRel
<1>5. PICK x \in T : m = N - x
  OBVIOUS
<1>6. \A y \in T : y <= x
  <2> SUFFICES ASSUME NEW y \in T PROVE y <= x
    OBVIOUS
  <2>1. N - y \in D /\ ~ (N - y < N - x)
    BY <1>4, <1>5
  <2> HIDE DEF D
  <2> QED
    BY <2>1
<1> QED
  BY <1>6

LEMMA LastRow ==
    ASSUME TypeOK, NEW a \in Agents
    PROVE  /\ Rows(a) \subseteq Attempts
           /\ Rows(a) = {} => Last(a) = 0
           /\ Rows(a) # {} => /\ Last(a) \in Rows(a)
                              /\ \A i \in Rows(a) : i <= Last(a)
           /\ Last(a) \in 0..MaxAttempts
           /\ Latest(a) \in RunStates
           /\ Latest(a) = "running" => runs[a][Last(a)] = "running" /\ Last(a) \in Attempts
           /\ Latest(a) # "absent" => Rows(a) # {}
<1>1. MaxAttempts \in Nat
  BY WorkflowAssumption
<1>2. Rows(a) \subseteq 1..MaxAttempts
  BY DEF Rows, Attempts
<1>3. Rows(a) # {} => \E n \in Rows(a) : \A i \in Rows(a) : i <= n
  BY <1>1, <1>2, MaxExists
<1>4. Rows(a) # {} => Last(a) \in Rows(a) /\ \A i \in Rows(a) : i <= Last(a)
  BY <1>3 DEF Last
<1>5. Rows(a) = {} => Last(a) = 0
  BY DEF Last
<1>6. Last(a) \in 0..MaxAttempts
  BY <1>1, <1>2, <1>4, <1>5
<1>7. Latest(a) \in RunStates /\ (Rows(a) # {} => Latest(a) = runs[a][Last(a)])
  BY <1>2, <1>4 DEF Latest, TypeOK, RunStates, Attempts
<1>8. Rows(a) = {} => Latest(a) = "absent"
  BY DEF Latest
<1> QED
  BY <1>2, <1>4, <1>5, <1>6, <1>7, <1>8 DEF Attempts

LEMMA OutcomeType == Outcome \in Outcomes
BY DEF Outcome, Outcomes

-----------------------------------------------------------------------------
(* Types.                                                                  *)

LEMMA TypeInit == Init => TypeOK
BY WorkflowAssumption
   DEF Init, TypeOK, Statuses, Outcomes, RunStates, Results, Attempts, Phases, Threads, NoMark

\* One write of agent_runs, and one step of a thread.
LEMMA RunWritten ==
    ASSUME TypeOK, NEW a \in Agents, NEW n \in Attempts, NEW s \in RunStates, WriteRun(a, n, s)
    PROVE  /\ runs' \in [Agents -> [Attempts -> RunStates]]
           /\ \A b \in Agents, i \in Attempts :
                 runs'[b][i] = IF b = a /\ i = n THEN s ELSE runs[b][i]
<1> DEFINE f == [runs[a] EXCEPT ![n] = s]
<1>1. f \in [Attempts -> RunStates] /\ \A i \in Attempts : f[i] = IF i = n THEN s ELSE runs[a][i]
  BY DEF TypeOK
<1>2. runs' = [runs EXCEPT ![a] = f]
  BY DEF WriteRun
<1> HIDE DEF f
<1> QED
  BY <1>1, <1>2 DEF TypeOK

LEMMA ThreadStepped ==
    ASSUME TypeOK, NEW d \in Deliveries, NEW a \in Agents, NEW t \in Threads, SetThread(d, a, t)
    PROVE  /\ thread' \in [Deliveries -> [Agents -> Threads]]
           /\ \A e \in Deliveries, b \in Agents :
                 thread'[e][b] = IF e = d /\ b = a THEN t ELSE thread[e][b]
<1> DEFINE f == [thread[d] EXCEPT ![a] = t]
<1>1. f \in [Agents -> Threads] /\ \A b \in Agents : f[b] = IF b = a THEN t ELSE thread[d][b]
  BY DEF TypeOK
<1>2. thread' = [thread EXCEPT ![d] = f]
  BY DEF SetThread
<1> HIDE DEF f
<1> QED
  BY <1>1, <1>2 DEF TypeOK

LEMMA RowChosen ==
    ASSUME TypeOK, NEW d \in Deliveries, NEW a \in Agents, NEW n \in Attempts,
           row' = [row EXCEPT ![d][a] = n]
    PROVE  /\ row' \in [Deliveries -> [Agents -> Attempts]]
           /\ \A e \in Deliveries, b \in Agents :
                 row'[e][b] = IF e = d /\ b = a THEN n ELSE row[e][b]
<1> DEFINE f == [row[d] EXCEPT ![a] = n]
<1>1. f \in [Agents -> Attempts] /\ \A b \in Agents : f[b] = IF b = a THEN n ELSE row[d][b]
  BY DEF TypeOK
<1>2. row' = [row EXCEPT ![d] = f]
  OBVIOUS
<1> HIDE DEF f
<1> QED
  BY <1>1, <1>2 DEF TypeOK

LEMMA StateNames ==
    /\ 1 \in Attempts
    /\ {"running", "unavailable", "cancelled"} \subseteq RunStates
    /\ Results \subseteq RunStates
    /\ {"none", "queued", "insert", "running", "again", "done", "error"} \subseteq Threads
BY WorkflowAssumption DEF Attempts, RunStates, Results, Threads

LEMMA MarkTypes ==
    ASSUME TypeOK, NEW d \in Deliveries, NEW a \in Agents, NEW s \in {"transient", "failed"},
           MarkLatest(d, a, s)
    PROVE  /\ runs' \in [Agents -> [Attempts -> RunStates]]
           /\ waits' \in [Deliveries -> SUBSET Agents]
           /\ mark' \in [Deliveries -> Marks \cup {NoMark}]
           /\ pc' \in [Deliveries -> Phases]
           /\ \A e \in Deliveries :
                 /\ pc'[e] = "mark" => mark'[e] \in Marks
                 /\ pc'[e] = "finalize" => pc[e] = "finalize"
<1>1. 1 \in Attempts
  BY WorkflowAssumption DEF Attempts
<1>2. CASE Rows(a) = {} /\ WriteRun(a, 1, "unavailable") /\ UNCHANGED <<pc, mark>>
           /\ waits' = [waits EXCEPT ![d] = @ \ {a}]
  BY <1>2, RunWritten, StateNames DEF TypeOK
<1>3. CASE /\ Latest(a) = "running" /\ Goto(d, "mark") /\ UNCHANGED <<runs, waits>>
           /\ mark' = [mark EXCEPT ![d] = [agent |-> a, attempt |-> Last(a), as |-> s]]
  <2>1. [agent |-> a, attempt |-> Last(a), as |-> s] \in Marks
    BY <1>3, LastRow DEF Marks
  <2> QED
    BY <1>3, <2>1 DEF TypeOK, Goto, Phases
<1>4. CASE /\ Rows(a) # {} /\ Latest(a) # "running" /\ UNCHANGED <<runs, pc, mark>>
           /\ waits' = [waits EXCEPT ![d] = @ \ {a}]
  BY <1>4 DEF TypeOK
<1> QED
  BY <1>2, <1>3, <1>4 DEF MarkLatest

LEMMA TypeInductive == TypeOK /\ [Next]_vars => TypeOK'
<1> SUFFICES ASSUME TypeOK, [Next]_vars PROVE TypeOK'
  OBVIOUS
<1> USE DEF execution, deliveries, threads, bounds
<1>1. CASE UNCHANGED vars
  BY <1>1 DEF TypeOK, vars
<1>2. ASSUME NEW d \in Deliveries, Orchestrate(d) PROVE TypeOK'
  <2>1. CASE Execute(d)
    BY <2>1 DEF TypeOK, Execute, Goto, Phases, Statuses
  <2>2. CASE PartitionBatch(d)
    <3>1. 1 \in Attempts
      BY WorkflowAssumption DEF Attempts
    <3>2. runs' \in [Agents -> [Attempts -> RunStates]]
      BY <2>2, <3>1 DEF TypeOK, PartitionBatch, RunStates, Results
    <3>3. waits' \in [Deliveries -> SUBSET Agents]
      BY <2>2 DEF TypeOK, PartitionBatch, Open, Batch
    <3>4. thread' \in [Deliveries -> [Agents -> Threads]]
      BY <2>2 DEF TypeOK, PartitionBatch, Threads
    <3> QED
      BY <2>2, <3>2, <3>3, <3>4 DEF TypeOK, PartitionBatch, Goto, Phases
  <2>3. CASE StopCancelled(d)
    BY <2>3 DEF TypeOK, StopCancelled, Goto, Phases
  <2>4. ASSUME NEW a \in Agents, CollectResult(d, a) PROVE TypeOK'
    BY <2>4 DEF TypeOK, CollectResult
  <2>5. ASSUME NEW a \in Agents, CollectError(d, a) PROVE TypeOK'
    BY <2>5, MarkTypes DEF TypeOK, CollectError
  <2>6. CASE MarkRun(d)
    <3>1. mark[d] \in Marks
      BY <2>6 DEF TypeOK, MarkRun
    <3>2. /\ mark[d].agent \in Agents /\ mark[d].attempt \in Attempts
          /\ mark[d].as \in RunStates
      BY <3>1 DEF Marks, RunStates, Results
    <3>3. runs' \in [Agents -> [Attempts -> RunStates]]
      BY <2>6, <3>2, RunWritten DEF MarkRun
    <3> QED
      BY <2>6, <3>3 DEF TypeOK, MarkRun, Goto, Phases
  <2>7. CASE RecordBatch(d)
    BY <2>7 DEF TypeOK, RecordBatch, Batch, Goto, Phases
  <2>8. CASE ReadOutcome(d)
    BY <2>8, OutcomeType DEF TypeOK, ReadOutcome, Goto, Phases
  <2>9. CASE FinalizeExecution(d)
    BY <2>9 DEF TypeOK, FinalizeExecution, Goto, Phases, Statuses
  <2> QED
    BY <1>2, <2>1, <2>2, <2>3, <2>4, <2>5, <2>6, <2>7, <2>8, <2>9 DEF Orchestrate
<1>3. ASSUME NEW d \in Deliveries, Fault(d) PROVE TypeOK'
  <2>1. CASE OrchestratorFails(d)
    <3>1. /\ errors' \in 0..MaxErrors
          /\ mark' = [mark EXCEPT ![d] = NoMark]
          /\ UNCHANGED <<execution, msgs, scheduled, waits, threads, rpc, timeouts, crashes>>
      BY <2>1, WorkflowAssumption DEF TypeOK, OrchestratorFails
    <3>2. CASE /\ pc' = [pc EXCEPT ![d] = "finalize"]
               /\ outcome' = [outcome EXCEPT ![d] = Outcome]
      BY <3>1, <3>2, OutcomeType DEF TypeOK, Phases
    <3>3. CASE /\ pc' = [pc EXCEPT ![d] = "over"]
               /\ outcome' = [outcome EXCEPT ![d] = "none"]
      BY <3>1, <3>3 DEF TypeOK, Phases
    <3> QED
      BY <2>1, <3>2, <3>3 DEF OrchestratorFails, Goto
  <2>2. CASE Crash(d)
    BY <2>2, WorkflowAssumption DEF TypeOK, Crash, Goto, Phases, Threads
  <2>3. ASSUME NEW a \in Agents, TimeOut(d, a) PROVE TypeOK'
    <3>1. thread' \in [Deliveries -> [Agents -> Threads]]
      BY <2>3, ThreadStepped, StateNames DEF TypeOK, TimeOut
    <3>2. timeouts' \in 0..MaxTimeouts
      BY <2>3, WorkflowAssumption DEF TypeOK, TimeOut
    <3> QED
      BY <2>3, <3>1, <3>2, MarkTypes DEF TypeOK, TimeOut
  <2> QED
    BY <1>3, <2>1, <2>2, <2>3 DEF Fault
<1>4. ASSUME NEW d \in Deliveries, NEW a \in Agents, ThreadStep(d, a) PROVE TypeOK'
  <2>1. CASE ReadRuns(d, a)
    <3>1. NextAttempt(a) <= MaxAttempts => NextAttempt(a) \in Attempts
      BY LastRow, WorkflowAssumption DEF Attempts, NextAttempt
    <3>2. runs' \in [Agents -> [Attempts -> RunStates]]
      BY <2>1, RunWritten, StateNames DEF TypeOK, ReadRuns
    <3>3. thread' \in [Deliveries -> [Agents -> Threads]]
      BY <2>1, ThreadStepped, StateNames DEF ReadRuns
    <3>4. row' \in [Deliveries -> [Agents -> Attempts]]
      BY <2>1, <3>1, RowChosen DEF TypeOK, ReadRuns
    <3> QED
      BY <2>1, <3>2, <3>3, <3>4 DEF TypeOK, ReadRuns
  <2>2. CASE InsertRun(d, a)
    <3>1. runs' \in [Agents -> [Attempts -> RunStates]]
      BY <2>2, RunWritten, StateNames DEF TypeOK, InsertRun
    <3>2. thread' \in [Deliveries -> [Agents -> Threads]]
      BY <2>2, ThreadStepped, StateNames DEF InsertRun
    <3> QED
      BY <2>2, <3>1, <3>2 DEF TypeOK, InsertRun
  <2>3. ASSUME NEW s \in Results, FinishRun(d, a, s) PROVE TypeOK'
    <3>1. runs' \in [Agents -> [Attempts -> RunStates]]
      BY <2>3, RunWritten, StateNames DEF TypeOK, FinishRun
    <3>2. thread' \in [Deliveries -> [Agents -> Threads]]
      BY <2>3, ThreadStepped, StateNames DEF FinishRun
    <3> QED
      BY <2>3, <3>1, <3>2 DEF TypeOK, FinishRun
  <2>4. CASE ObserveCancel(d, a)
    <3>1. runs' \in [Agents -> [Attempts -> RunStates]]
      BY <2>4, RunWritten, StateNames DEF TypeOK, ObserveCancel
    <3>2. thread' \in [Deliveries -> [Agents -> Threads]]
      BY <2>4, ThreadStepped, StateNames DEF ObserveCancel
    <3> QED
      BY <2>4, <3>1, <3>2 DEF TypeOK, ObserveCancel
  <2> QED
    BY <1>4, <2>1, <2>2, <2>3, <2>4 DEF ThreadStep
<1>5. ASSUME NEW r \in Requests, RequestStep(r) PROVE TypeOK'
  <2>1. CASE Fetch(r)
    BY <2>1 DEF TypeOK, Fetch, RGoto
  <2>2. CASE CancelExecution(r)
    BY <2>2 DEF TypeOK, CancelExecution, RGoto, Statuses
  <2>3. CASE Reopen(r)
    BY <2>3 DEF TypeOK, Reopen, RGoto, Statuses
  <2>4. CASE Enqueue(r)
    BY <2>4, WorkflowAssumption DEF TypeOK, Enqueue, RGoto, Statuses, Outcomes
  <2> QED
    BY <1>5, <2>1, <2>2, <2>3, <2>4 DEF RequestStep
<1> QED
  BY <1>1, <1>2, <1>3, <1>4, <1>5 DEF Next

\* Every variable keeps its type, and a delivery about to write a mark or an
\* outcome holds one.
THEOREM TypeCorrect == Spec => []TypeOK
BY TypeInit, TypeInductive, PTL DEF Spec

-----------------------------------------------------------------------------
(* A delivery starts the thread of an agent once, in the agent's batch.     *)

FreshThread ==
    \A d \in Deliveries :
        /\ pc[d] \in {"new", "partition"} =>
              \A a \in Agents \ scheduled[d] : thread[d][a] = "none"
        /\ pc[d] \in {"collect", "mark"} =>
              \A a \in Agents \ (scheduled[d] \cup Batch(d)) : thread[d][a] = "none"

\* A step that starts no thread keeps each delivery in its batch.
LEMMA FreshKept ==
    ASSUME TypeOK, FreshThread,
           \A d \in Deliveries, a \in Agents : thread[d][a] = "none" => thread'[d][a] = "none",
           scheduled' = scheduled,
           \A d \in Deliveries :
              \/ pc'[d] = pc[d]
              \/ pc'[d] \in {"finalize", "over"}
              \/ {pc[d], pc'[d]} \subseteq {"new", "partition"}
              \/ {pc[d], pc'[d]} \subseteq {"collect", "mark"}
    PROVE  FreshThread'
BY DEF FreshThread, Batch

LEMMA FreshInductive ==
    ASSUME TypeOK, FreshThread, [Next]_vars
    PROVE  FreshThread'
<1> USE DEF execution, deliveries, threads, bounds
<1>1. CASE UNCHANGED vars
  BY <1>1, FreshKept DEF vars
<1>2. ASSUME NEW d \in Deliveries, Orchestrate(d) PROVE FreshThread'
  <2>1. CASE Execute(d) \/ StopCancelled(d) \/ ReadOutcome(d) \/ FinalizeExecution(d)
    BY <2>1, FreshKept
       DEF Execute, StopCancelled, ReadOutcome, FinalizeExecution, Goto, TypeOK
  <2>2. CASE PartitionBatch(d)
    <3>1. \A e \in Deliveries, a \in Agents :
             thread'[e][a] = IF e = d /\ a \in Open(d) \ Blocked(d) THEN "queued" ELSE thread[e][a]
      BY <2>2 DEF PartitionBatch, TypeOK
    <3>2. /\ scheduled' = scheduled
          /\ \A e \in Deliveries : pc'[e] = IF e = d THEN "collect" ELSE pc[e]
          /\ pc[d] = "partition"
      BY <2>2 DEF PartitionBatch, Goto, TypeOK
    <3> QED
      BY <3>1, <3>2 DEF FreshThread, Batch, Open
  <2>3. CASE MarkRun(d) \/ \E a \in Agents : CollectResult(d, a)
    BY <2>3, FreshKept DEF MarkRun, CollectResult, Goto, TypeOK
  <2>4. ASSUME NEW a \in Agents, CollectError(d, a) PROVE FreshThread'
    BY <2>4, FreshKept DEF CollectError, MarkLatest, Goto, TypeOK
  <2>5. CASE RecordBatch(d)
    BY <2>5 DEF RecordBatch, FreshThread, Batch, Goto, TypeOK
  <2> QED
    BY <1>2, <2>1, <2>2, <2>3, <2>4, <2>5 DEF Orchestrate
<1>3. ASSUME NEW d \in Deliveries, Fault(d) PROVE FreshThread'
  <2>1. CASE OrchestratorFails(d)
    BY <2>1, FreshKept DEF OrchestratorFails, Goto, TypeOK
  <2>2. CASE Crash(d)
    BY <2>2, FreshKept DEF Crash, Goto, TypeOK
  <2>3. ASSUME NEW a \in Agents, TimeOut(d, a) PROVE FreshThread'
    <3>1. \A e \in Deliveries, b \in Agents : thread'[e][b] \in {thread[e][b], "none"}
      BY <2>3, ThreadStepped, StateNames DEF TimeOut
    <3> QED
      BY <2>3, <3>1, FreshKept DEF TimeOut, MarkLatest, Goto, TypeOK
  <2> QED
    BY <1>3, <2>1, <2>2, <2>3 DEF Fault
<1>4. ASSUME NEW d \in Deliveries, NEW a \in Agents, ThreadStep(d, a) PROVE FreshThread'
  <2>1. thread[d][a] # "none" /\ \E t \in Threads : SetThread(d, a, t)
    BY <1>4, StateNames DEF ThreadStep, ReadRuns, InsertRun, FinishRun, ObserveCancel
  <2>2. \A e \in Deliveries, b \in Agents : thread[e][b] = "none" => thread'[e][b] = "none"
    BY <2>1, ThreadStepped
  <2> QED
    BY <1>4, <2>2, FreshKept DEF ThreadStep, ReadRuns, InsertRun, FinishRun, ObserveCancel
<1>5. ASSUME NEW r \in Requests, RequestStep(r) PROVE FreshThread'
  BY <1>5, FreshKept DEF RequestStep, Fetch, CancelExecution, Reopen, Enqueue
<1> QED
  BY <1>1, <1>2, <1>3, <1>4, <1>5 DEF Next

-----------------------------------------------------------------------------
(* The rows and the threads that write them.                               *)

Written(a, n) == runs[a][n] # "absent"

\* The attempts written are the first ones; a thread about to insert has every
\* earlier attempt behind it; the row of a working thread, and one about to be
\* marked, exist.
Gapless == \A a \in Agents, n \in Attempts :
              Written(a, n) => \A i \in Attempts : i < n => Written(a, i)
InsertNext == \A d \in Deliveries, a \in Agents : thread[d][a] = "insert" =>
                 \A i \in Attempts : i < row[d][a] => Written(a, i)
WorkedRow == \A d \in Deliveries, a \in Agents :
                thread[d][a] = "running" => Written(a, row[d][a])
MarkedRow == \A d \in Deliveries :
                pc[d] = "mark" => Written(mark[d].agent, mark[d].attempt)

RowsInv == TypeOK /\ Gapless /\ InsertNext /\ WorkedRow /\ MarkedRow
                  /\ OneWriter /\ RunningIsWorked

\* What every step does to the rows ...
RowsGrow ==
    \A a \in Agents, n \in Attempts :
        /\ Written(a, n) => Written(a, n)'
        /\ ~Written(a, n) /\ Written(a, n)' => \A i \in Attempts : i < n => Written(a, i)

\* ... and to the threads.
Starts(d, a) == thread[d][a] # "running" /\ thread'[d][a] = "running"
ThreadsMove ==
    /\ \A d \in Deliveries, a \in Agents : thread'[d][a] = "insert" =>
          \/ thread[d][a] = "insert" /\ row'[d][a] = row[d][a]
          \/ \A i \in Attempts : i < row'[d][a] => Written(a, i)
    /\ \A d \in Deliveries, a \in Agents : thread'[d][a] = "running" =>
          /\ row'[d][a] = row[d][a]
          /\ Starts(d, a) => ~Written(a, row[d][a]) /\ Written(a, row[d][a])'
    /\ \A c, d \in Deliveries, a \in Agents : Starts(c, a) /\ Starts(d, a) => c = d
    /\ \A a \in Agents, n \in Attempts : runs'[a][n] = "running" =>
          \/ crashes' # 0
          \/ \E d \in Deliveries : WorksOn(d, a, n)'
          \/ /\ runs[a][n] = "running"
             /\ crashes = 0
             /\ \A d \in Deliveries : WorksOn(d, a, n) => WorksOn(d, a, n)'
MarksMove ==
    \A d \in Deliveries : pc'[d] = "mark" =>
        \/ pc[d] = "mark" /\ mark'[d] = mark[d]
        \/ Written(mark'[d].agent, mark'[d].attempt)

LEMMA RowsStep ==
    ASSUME RowsInv, TypeOK', RowsGrow, ThreadsMove, MarksMove
    PROVE  RowsInv'
<1>1. Gapless'
  BY DEF RowsInv, Gapless, RowsGrow
<1>2. InsertNext'
  BY DEF RowsInv, InsertNext, RowsGrow, ThreadsMove
<1>3. WorkedRow'
  BY DEF RowsInv, WorkedRow, RowsGrow, ThreadsMove, TypeOK, Starts
<1>4. MarkedRow'
  <2> SUFFICES ASSUME NEW d \in Deliveries, pc'[d] = "mark"
               PROVE  Written(mark[d].agent, mark[d].attempt)'
    BY DEF MarkedRow
  <2>1. mark'[d].agent \in Agents /\ mark'[d].attempt \in Attempts
    BY DEF TypeOK, Marks
  <2> QED
    BY <2>1 DEF RowsInv, MarkedRow, RowsGrow, MarksMove, Written
<1>5. OneWriter'
  BY DEF RowsInv, OneWriter, WorkedRow, WorksOn, ThreadsMove, Starts
<1>6. RunningIsWorked'
  BY DEF RowsInv, RunningIsWorked, ThreadsMove
<1> QED
  BY <1>1, <1>2, <1>3, <1>4, <1>5, <1>6 DEF RowsInv

\* A row that is only rewritten, or the first row of an agent.
LEMMA OneRow ==
    ASSUME TypeOK, NEW a \in Agents, NEW n \in Attempts, NEW s \in RunStates \ {"absent"},
           WriteRun(a, n, s),
           Written(a, n) \/ \A i \in Attempts : i < n => Written(a, i)
    PROVE  RowsGrow
BY RunWritten DEF RowsGrow, Written

\* A step that touches no row and no thread.
LEMMA QuietStep ==
    ASSUME TypeOK, UNCHANGED <<runs, thread, row, crashes>>
    PROVE  RowsGrow /\ ThreadsMove
BY DEF RowsGrow, ThreadsMove, Written, Starts, WorksOn

\* A step that touches no thread, and writes no row that is running.
LEMMA RecordStep ==
    ASSUME TypeOK, UNCHANGED <<thread, row, crashes>>,
           \A a \in Agents, n \in Attempts :
              runs'[a][n] = "running" => runs[a][n] = "running"
    PROVE  ThreadsMove
BY DEF ThreadsMove, Starts, WorksOn

LEMMA NothingWritten ==
    ASSUME NEW a \in Agents, Rows(a) = {}
    PROVE  \A n \in Attempts : ~Written(a, n)
BY DEF Rows, Written

LEMMA MarkLatestRows ==
    ASSUME TypeOK, NEW d \in Deliveries, NEW a \in Agents, NEW s \in {"transient", "failed"},
           MarkLatest(d, a, s)
    PROVE  /\ RowsGrow
           /\ MarksMove
           /\ \A b \in Agents, n \in Attempts : runs'[b][n] = "running" => runs[b][n] = "running"
           /\ a \notin waits'[d] => \E n \in Attempts : Written(a, n)'
           /\ waits' \in {waits, [waits EXCEPT ![d] = @ \ {a}]}
           /\ pc' \in {pc, [pc EXCEPT ![d] = "mark"]}
<1>1. CASE Rows(a) = {} /\ WriteRun(a, 1, "unavailable") /\ UNCHANGED <<pc, mark>>
           /\ waits' = [waits EXCEPT ![d] = @ \ {a}]
  <2>1. "unavailable" \in RunStates \ {"absent"} /\ 1 \in Attempts
    BY StateNames
  <2>2. \A i \in Attempts : ~ (i < 1)
    BY DEF Attempts
  <2>3. RowsGrow
    BY <1>1, <2>1, <2>2, OneRow
  <2>4. Written(a, 1)'
    BY <1>1, <2>1, RunWritten DEF Written
  <2>5. \A b \in Agents, n \in Attempts : runs'[b][n] = "running" => runs[b][n] = "running"
    BY <1>1, <2>1, RunWritten
  <2> QED
    BY <1>1, <2>1, <2>3, <2>4, <2>5 DEF MarksMove
<1>2. CASE /\ Latest(a) = "running" /\ Goto(d, "mark") /\ UNCHANGED <<runs, waits>>
           /\ mark' = [mark EXCEPT ![d] = [agent |-> a, attempt |-> Last(a), as |-> s]]
  <2>1. Written(a, Last(a)) /\ Last(a) \in Attempts
    BY <1>2, LastRow DEF Written
  <2>2. RowsGrow
    BY <1>2 DEF RowsGrow, Written
  <2>3. MarksMove
    BY <1>2, <2>1 DEF MarksMove, TypeOK, Goto, Written
  <2> QED
    BY <1>2, <2>1, <2>2, <2>3 DEF Goto, Written
<1>3. CASE /\ Rows(a) # {} /\ Latest(a) # "running" /\ UNCHANGED <<runs, pc, mark>>
           /\ waits' = [waits EXCEPT ![d] = @ \ {a}]
  BY <1>3 DEF RowsGrow, MarksMove, Written, Rows
<1> QED
  BY <1>1, <1>2, <1>3 DEF MarkLatest

LEMMA OrchestrateRows ==
    ASSUME RowsInv, FreshThread, NEW d \in Deliveries, Orchestrate(d)
    PROVE  RowsGrow /\ ThreadsMove /\ MarksMove
<1> USE DEF execution, deliveries, threads, bounds
<1>0. TypeOK
  BY DEF RowsInv
<1>1. CASE Execute(d)
  BY <1>0, <1>1, QuietStep DEF Execute, Goto, MarksMove, TypeOK
<1>2. CASE PartitionBatch(d)
  <2>1. \A a \in Agents, n \in Attempts :
           runs'[a][n] = IF a \in Blocked(d) /\ Rows(a) = {} /\ n = 1
                         THEN "unavailable" ELSE runs[a][n]
    BY <1>0, <1>2, StateNames DEF PartitionBatch, TypeOK
  <2>2. RowsGrow
    BY <2>1, NothingWritten DEF RowsGrow, Written, Attempts
  <2>3. \A c \in Deliveries, a \in Agents :
           thread'[c][a] # thread[c][a] => thread[c][a] = "none" /\ thread'[c][a] = "queued"
    BY <1>0, <1>2 DEF PartitionBatch, TypeOK, FreshThread, Open, Batch
  <2>4. ThreadsMove
    BY <1>2, <2>1, <2>3 DEF ThreadsMove, PartitionBatch, WorksOn, Starts
  <2> QED
    BY <1>0, <1>2, <2>2, <2>4 DEF PartitionBatch, Goto, TypeOK, MarksMove
<1>3. CASE StopCancelled(d) \/ ReadOutcome(d) \/ FinalizeExecution(d) \/ RecordBatch(d)
  BY <1>0, <1>3, QuietStep
     DEF StopCancelled, ReadOutcome, FinalizeExecution, RecordBatch, Goto, MarksMove, TypeOK
<1>4. ASSUME NEW a \in Agents, CollectResult(d, a)
      PROVE  RowsGrow /\ ThreadsMove /\ MarksMove
  BY <1>0, <1>4, QuietStep DEF CollectResult, MarksMove
<1>5. ASSUME NEW a \in Agents, CollectError(d, a)
      PROVE  RowsGrow /\ ThreadsMove /\ MarksMove
  BY <1>0, <1>5, MarkLatestRows, RecordStep DEF CollectError
<1>6. CASE MarkRun(d)
  <2>1. mark[d] \in Marks /\ Written(mark[d].agent, mark[d].attempt)
    BY <1>0, <1>6 DEF MarkRun, TypeOK, RowsInv, MarkedRow
  <2>2. /\ mark[d].agent \in Agents /\ mark[d].attempt \in Attempts
        /\ mark[d].as \in RunStates \ {"absent", "running"}
    BY <2>1 DEF Marks, RunStates, Results
  <2>3. RowsGrow
    BY <1>0, <1>6, <2>1, <2>2, OneRow DEF MarkRun
  <2>4. \A a \in Agents, n \in Attempts : runs'[a][n] = "running" => runs[a][n] = "running"
    BY <1>0, <1>6, <2>2, RunWritten DEF MarkRun
  <2> QED
    BY <1>0, <1>6, <2>3, <2>4, RecordStep DEF MarkRun, Goto, MarksMove, TypeOK
<1> QED
  BY <1>1, <1>2, <1>3, <1>4, <1>5, <1>6 DEF Orchestrate

LEMMA FaultRows ==
    ASSUME RowsInv, NEW d \in Deliveries, Fault(d)
    PROVE  RowsGrow /\ ThreadsMove /\ MarksMove
<1> USE DEF execution, deliveries, threads, bounds
<1>0. TypeOK
  BY DEF RowsInv
<1>1. CASE OrchestratorFails(d)
  BY <1>0, <1>1, QuietStep DEF OrchestratorFails, Goto, MarksMove, TypeOK
<1>2. CASE Crash(d)
  <2>1. \A e \in Deliveries, a \in Agents : thread'[e][a] \in {thread[e][a], "none"}
    BY <1>0, <1>2 DEF Crash, TypeOK
  <2>2. crashes' # 0
    BY <1>0, <1>2, WorkflowAssumption DEF Crash, TypeOK
  <2>3. RowsGrow /\ ThreadsMove
    BY <1>2, <2>1, <2>2 DEF Crash, RowsGrow, ThreadsMove, Written, Starts
  <2> QED
    BY <1>0, <1>2, <2>3 DEF Crash, Goto, MarksMove, TypeOK
<1>3. ASSUME NEW a \in Agents, TimeOut(d, a)
      PROVE  RowsGrow /\ ThreadsMove /\ MarksMove
  <2>1. /\ RowsGrow /\ MarksMove
        /\ \A b \in Agents, n \in Attempts : runs'[b][n] = "running" => runs[b][n] = "running"
    BY <1>0, <1>3, MarkLatestRows DEF TimeOut
  <2>2. \A e \in Deliveries, b \in Agents :
           thread'[e][b] # thread[e][b] => thread[e][b] = "queued" /\ thread'[e][b] = "none"
    BY <1>0, <1>3, ThreadStepped, StateNames DEF TimeOut
  <2>3. ThreadsMove
    BY <1>3, <2>1, <2>2 DEF TimeOut, ThreadsMove, Starts, WorksOn
  <2> QED
    BY <2>1, <2>3
<1> QED
  BY <1>1, <1>2, <1>3 DEF Fault

\* A working thread that ends its row.
LEMMA EndsRow ==
    ASSUME RowsInv, NEW d \in Deliveries, NEW a \in Agents, NEW s \in RunStates \ {"absent", "running"},
           NEW t \in {"again", "done"},
           thread[d][a] = "running", WriteRun(a, row[d][a], s), SetThread(d, a, t),
           UNCHANGED <<deliveries, row, bounds>>
    PROVE  RowsGrow /\ ThreadsMove /\ MarksMove
<1> DEFINE n == row[d][a]
<1>0. TypeOK /\ n \in Attempts /\ t \in Threads
  BY DEF RowsInv, TypeOK, Threads
<1>1. Written(a, n)
  BY DEF RowsInv, WorkedRow
<1>2. RowsGrow
  BY <1>0, <1>1, OneRow
<1>3. \A b \in Agents, i \in Attempts :
         runs'[b][i] = IF b = a /\ i = n THEN s ELSE runs[b][i]
  BY <1>0, RunWritten
<1>4. \A e \in Deliveries, b \in Agents :
         thread'[e][b] = IF e = d /\ b = a THEN t ELSE thread[e][b]
  BY <1>0, ThreadStepped
<1>5. ThreadsMove
  BY <1>3, <1>4 DEF ThreadsMove, Starts, WorksOn, bounds
<1> QED
  BY <1>2, <1>5 DEF MarksMove, deliveries

LEMMA ThreadRows ==
    ASSUME RowsInv, NEW d \in Deliveries, NEW a \in Agents, ThreadStep(d, a)
    PROVE  RowsGrow /\ ThreadsMove /\ MarksMove
<1> USE DEF execution, deliveries, threads, bounds
<1>0. TypeOK
  BY DEF RowsInv
<1>1. CASE ReadRuns(d, a)
  <2>1. MarksMove
    BY <1>1 DEF ReadRuns, MarksMove
  <2>2. CASE /\ SetThread(d, a, "done") /\ UNCHANGED row
             /\ IF Rows(a) = {} THEN WriteRun(a, 1, "cancelled") ELSE UNCHANGED runs
    <3>1. RowsGrow /\ \A b \in Agents, n \in Attempts :
                         runs'[b][n] = "running" => runs[b][n] = "running"
      <4>1. CASE Rows(a) = {} /\ WriteRun(a, 1, "cancelled")
        <5>1. \A i \in Attempts : ~ (i < 1)
          BY DEF Attempts
        <5>2. "cancelled" \in RunStates \ {"absent"}
          BY StateNames
        <5> QED
          BY <1>0, <4>1, <5>1, <5>2, OneRow, RunWritten, StateNames
      <4>2. CASE UNCHANGED runs
        BY <4>2 DEF RowsGrow, Written
      <4> QED
        BY <2>2, <4>1, <4>2
    <3>2. \A e \in Deliveries, b \in Agents :
             thread'[e][b] = IF e = d /\ b = a THEN "done" ELSE thread[e][b]
      BY <1>0, <2>2, ThreadStepped, StateNames
    <3>3. thread[d][a] # "running"
      BY <1>1 DEF ReadRuns
    <3>4. ThreadsMove
      BY <1>1, <2>2, <3>1, <3>2, <3>3 DEF ReadRuns, ThreadsMove, Starts, WorksOn
    <3> QED
      BY <2>1, <3>1, <3>4
  <2>3. CASE /\ SetThread(d, a, "done") /\ UNCHANGED <<runs, row>>
    <3>1. \A e \in Deliveries, b \in Agents :
             thread'[e][b] = IF e = d /\ b = a THEN "done" ELSE thread[e][b]
      BY <1>0, <2>3, ThreadStepped, StateNames
    <3>2. thread[d][a] # "running"
      BY <1>1 DEF ReadRuns
    <3> QED
      BY <1>1, <2>1, <2>3, <3>1, <3>2
         DEF ReadRuns, RowsGrow, ThreadsMove, Starts, WorksOn, Written
  <2>4. CASE /\ NextAttempt(a) <= MaxAttempts /\ SetThread(d, a, "insert") /\ UNCHANGED runs
             /\ row' = [row EXCEPT ![d][a] = NextAttempt(a)]
    <3>1. NextAttempt(a) \in Attempts /\ Last(a) \in 0..MaxAttempts
      BY <1>0, <2>4, LastRow, WorkflowAssumption DEF Attempts, NextAttempt
    <3>2. /\ \A e \in Deliveries, b \in Agents :
                thread'[e][b] = IF e = d /\ b = a THEN "insert" ELSE thread[e][b]
          /\ \A e \in Deliveries, b \in Agents :
                row'[e][b] = IF e = d /\ b = a THEN NextAttempt(a) ELSE row[e][b]
      <4>1. \A e \in Deliveries, b \in Agents :
                thread'[e][b] = IF e = d /\ b = a THEN "insert" ELSE thread[e][b]
        BY <1>0, <2>4, ThreadStepped, StateNames
      <4>2. \A e \in Deliveries, b \in Agents :
                row'[e][b] = IF e = d /\ b = a THEN NextAttempt(a) ELSE row[e][b]
        BY <1>0, <2>4, <3>1, RowChosen
      <4> QED
        BY <4>1, <4>2
    <3>3. \A i \in Attempts : i < NextAttempt(a) => Written(a, i)
      <4> SUFFICES ASSUME NEW i \in Attempts, i < NextAttempt(a) PROVE Written(a, i)
        OBVIOUS
      <4>1. i <= Last(a) /\ Last(a) \in Attempts
        BY <3>1, WorkflowAssumption DEF NextAttempt, Attempts
      <4>2. Written(a, Last(a))
        BY <1>0, <4>1, LastRow DEF Rows, Written, Attempts
      <4> QED
        BY <4>1, <4>2 DEF RowsInv, Gapless, Attempts
    <3>4. thread[d][a] # "running"
      BY <1>1 DEF ReadRuns
    <3> QED
      BY <1>1, <2>1, <2>4, <3>2, <3>3, <3>4
         DEF ReadRuns, RowsGrow, ThreadsMove, Starts, WorksOn, Written
  <2> QED
    BY <1>1, <2>2, <2>3, <2>4 DEF ReadRuns
<1>2. CASE InsertRun(d, a)
  <2> DEFINE n == row[d][a]
  <2>1. n \in Attempts
    BY <1>0 DEF TypeOK
  <2>2. CASE /\ runs[a][n] = "absent"
             /\ WriteRun(a, n, "running") /\ SetThread(d, a, "running")
    <3>1. RowsGrow
      BY <1>0, <1>2, <2>1, <2>2, OneRow, StateNames DEF InsertRun, RowsInv, InsertNext
    <3>2. \A b \in Agents, i \in Attempts :
             runs'[b][i] = IF b = a /\ i = n THEN "running" ELSE runs[b][i]
      BY <1>0, <2>1, <2>2, RunWritten, StateNames
    <3>3. \A e \in Deliveries, b \in Agents :
             thread'[e][b] = IF e = d /\ b = a THEN "running" ELSE thread[e][b]
      BY <1>0, <2>2, ThreadStepped, StateNames
    <3>4. ThreadsMove
      BY <1>2, <2>1, <2>2, <3>2, <3>3
         DEF InsertRun, ThreadsMove, Starts, WorksOn, Written
    <3> QED
      BY <1>2, <3>1, <3>4 DEF InsertRun, MarksMove
  <2>3. CASE SetThread(d, a, "error") /\ UNCHANGED runs
    <3>1. \A e \in Deliveries, b \in Agents :
             thread'[e][b] = IF e = d /\ b = a THEN "error" ELSE thread[e][b]
      BY <1>0, <2>3, ThreadStepped, StateNames
    <3> QED
      BY <1>2, <2>3, <3>1
         DEF InsertRun, RowsGrow, ThreadsMove, MarksMove, Starts, WorksOn, Written
  <2> QED
    BY <1>2, <2>2, <2>3 DEF InsertRun
<1>3. ASSUME NEW s \in Results, FinishRun(d, a, s)
      PROVE  RowsGrow /\ ThreadsMove /\ MarksMove
  BY <1>3, EndsRow DEF FinishRun, Results, RunStates
<1>4. CASE ObserveCancel(d, a)
  BY <1>4, EndsRow DEF ObserveCancel, RunStates
<1> QED
  BY <1>1, <1>2, <1>3, <1>4 DEF ThreadStep

LEMMA RowsInductive == RowsInv /\ FreshThread /\ [Next]_vars => RowsInv'
<1> SUFFICES ASSUME RowsInv, FreshThread, [Next]_vars PROVE RowsInv'
  OBVIOUS
<1>1. TypeOK /\ TypeOK'
  BY TypeInductive DEF RowsInv
<1>2. CASE UNCHANGED vars
  BY <1>1, <1>2, RowsStep, QuietStep
     DEF vars, execution, threads, bounds, deliveries, MarksMove
<1>3. ASSUME NEW r \in Requests, RequestStep(r) PROVE RowsInv'
  <2>1. UNCHANGED <<runs, thread, row, crashes, pc, mark>>
    BY <1>3 DEF RequestStep, Fetch, CancelExecution, Reopen, Enqueue,
                execution, threads, bounds, deliveries
  <2> QED
    BY <1>1, <2>1, RowsStep, QuietStep DEF MarksMove
<1> QED
  BY <1>1, <1>2, <1>3, RowsStep, OrchestrateRows, FaultRows, ThreadRows DEF Next

LEMMA RowsInit == Init => RowsInv /\ FreshThread
BY TypeInit
   DEF Init, RowsInv, FreshThread, Gapless, InsertNext, WorkedRow, MarkedRow, OneWriter,
       RunningIsWorked, WorksOn, Written

LEMMA RowsAlways == Spec => [](RowsInv /\ FreshThread)
<1>1. RowsInv /\ FreshThread /\ [Next]_vars => (RowsInv /\ FreshThread)'
  BY RowsInductive, FreshInductive DEF RowsInv
<1> QED
  BY <1>1, RowsInit, PTL DEF Spec

\* A row has one writing thread, for any overlap of deliveries.
THEOREM SingleWriter == Spec => []OneWriter
<1>1. RowsInv => OneWriter
  BY DEF RowsInv
<1> QED
  BY <1>1, RowsAlways, PTL

\* Without a crash no row is left running.
THEOREM NothingAbandoned == Spec => []RunningIsWorked
<1>1. RowsInv => RunningIsWorked
  BY DEF RowsInv
<1> QED
  BY <1>1, RowsAlways, PTL

\* The attempts of an agent have no gap.
THEOREM NoGaps == Spec => []AttemptsContiguous
<1>1. RowsInv => AttemptsContiguous
  <2> SUFFICES ASSUME RowsInv, NEW a \in Agents PROVE Rows(a) = 1..Last(a)
    BY DEF AttemptsContiguous
  <2>1. TypeOK /\ Gapless
    BY DEF RowsInv
  <2>2. CASE Rows(a) = {}
    BY <2>1, <2>2, LastRow
  <2>3. CASE Rows(a) # {}
    <3>1. Last(a) \in Attempts /\ Written(a, Last(a)) /\ \A i \in Rows(a) : i <= Last(a)
      BY <2>1, <2>3, LastRow DEF Rows, Written
    <3>2. \A i \in 1..Last(a) : i \in Rows(a)
      BY <2>1, <3>1, WorkflowAssumption DEF Gapless, Rows, Written, Attempts
    <3>3. Rows(a) \subseteq 1..Last(a)
      BY <2>1, <3>1, LastRow, WorkflowAssumption DEF Attempts
    <3> QED
      BY <3>2, <3>3
  <2> QED
    BY <2>2, <2>3
<1> QED
  BY <1>1, RowsAlways, PTL

-----------------------------------------------------------------------------
(* The rows of the agents a delivery has behind it.                         *)

Has(a) == \E n \in Attempts : Written(a, n)
DepsHave(a) == \A b \in Deps(a) : Has(b)

\* The batches behind a delivery, and what its own batch no longer waits for,
\* have rows; a thread has its dependencies behind it, and a row when it is done.
Behind == \A d \in Deliveries : pc[d] \in {"new", "partition", "collect", "mark"} =>
             \A a \in scheduled[d] : Has(a)
Within == \A d \in Deliveries : pc[d] \in {"collect", "mark"} =>
             /\ waits[d] \subseteq Batch(d)
             /\ \A a \in Batch(d) \ waits[d] : Has(a)
ThreadDeps == \A d \in Deliveries, a \in Agents : thread[d][a] # "none" => DepsHave(a)
DoneHas == \A d \in Deliveries, a \in Agents : thread[d][a] = "done" => Has(a)
RowDeps == \A a \in Agents : Has(a) => DepsHave(a)

DepsInv == Behind /\ Within /\ ThreadDeps /\ DoneHas /\ RowDeps

\* What a step does to the rows and the threads.
DepsMove ==
    /\ \A a \in Agents : Has(a)' => Has(a) \/ DepsHave(a)
    /\ \A d \in Deliveries, a \in Agents : thread'[d][a] # "none" =>
          thread[d][a] # "none" \/ DepsHave(a)
    /\ \A d \in Deliveries, a \in Agents : thread'[d][a] = "done" =>
          thread[d][a] = "done" \/ Has(a)'

LEMMA DepsTypes == \A a \in Agents : Deps(a) \subseteq Agents
BY WorkflowAssumption DEF Deps

LEMMA HasGrows ==
    ASSUME RowsGrow, NEW a \in Agents, Has(a)
    PROVE  Has(a)'
BY DEF RowsGrow, Has

LEMMA HasRows ==
    ASSUME TypeOK, NEW a \in Agents
    PROVE  Has(a) <=> Rows(a) # {}
BY DEF Has, Rows, Written

LEMMA DepsStep ==
    ASSUME DepsInv, RowsGrow, DepsMove, Behind', Within'
    PROVE  DepsInv'
<1>1. \A a \in Agents : DepsHave(a) => DepsHave(a)'
  BY HasGrows, DepsTypes DEF DepsHave, Deps
<1>2. ThreadDeps'
  BY <1>1 DEF DepsInv, DepsMove, ThreadDeps
<1>3. DoneHas'
  BY HasGrows DEF DepsInv, DepsMove, DoneHas
<1>4. RowDeps'
  BY <1>1 DEF DepsInv, DepsMove, RowDeps
<1> QED
  BY <1>2, <1>3, <1>4 DEF DepsInv

\* A delivery that stays in its batch, or leaves its loop.
LEMMA BatchKept ==
    ASSUME TypeOK, DepsInv, RowsGrow, scheduled' = scheduled,
           \A d \in Deliveries :
              \/ pc'[d] \in {"finalize", "over"}
              \/ /\ {pc[d], pc'[d]} \subseteq {"new", "partition"}
                 /\ waits'[d] = waits[d]
              \/ /\ {pc[d], pc'[d]} \subseteq {"collect", "mark"}
                 /\ waits'[d] \subseteq waits[d]
                 /\ \A a \in waits[d] \ waits'[d] : Has(a)'
              \/ /\ pc'[d] = pc[d]
                 /\ waits'[d] = waits[d]
    PROVE  Behind' /\ Within'
<1>1. \A d \in Deliveries : scheduled[d] \subseteq Agents /\ Batch(d) \subseteq Agents
  BY DEF TypeOK, Batch
<1>2. \A d \in Deliveries : Batch(d)' = Batch(d)
  BY DEF Batch
<1>3. Behind'
  BY <1>1, HasGrows DEF DepsInv, Behind
<1>4. Within'
  BY <1>1, <1>2, HasGrows DEF DepsInv, Within
<1> QED
  BY <1>3, <1>4

\* One agent's row is written.
LEMMA RowAdded ==
    ASSUME TypeOK, NEW a \in Agents, NEW n \in Attempts, NEW s \in RunStates,
           WriteRun(a, n, s), Has(a) \/ DepsHave(a)
    PROVE  \A b \in Agents : Has(b)' => Has(b) \/ DepsHave(b)
BY RunWritten DEF Has, Written

\* The agent whose mark is made is in the batch of the delivery.
LEMMA MarkLatestDeps ==
    ASSUME RowsInv, DepsInv, NEW d \in Deliveries, NEW a \in waits[d],
           NEW s \in {"transient", "failed"}, MarkLatest(d, a, s), pc[d] = "collect",
           scheduled' = scheduled
    PROVE  /\ Behind' /\ Within'
           /\ \A b \in Agents : Has(b)' => Has(b) \/ DepsHave(b)
<1>0. TypeOK /\ a \in Agents /\ a \in Batch(d) /\ 1 \in Attempts
  BY StateNames DEF RowsInv, TypeOK, DepsInv, Within
<1>1. /\ RowsGrow
      /\ a \notin waits'[d] => Has(a)'
      /\ waits' \in {waits, [waits EXCEPT ![d] = @ \ {a}]}
      /\ pc' \in {pc, [pc EXCEPT ![d] = "mark"]}
  BY <1>0, MarkLatestRows DEF Has
<1>2. \A e \in Deliveries :
         \/ pc'[e] = pc[e] /\ waits'[e] = waits[e]
         \/ /\ {pc[e], pc'[e]} \subseteq {"collect", "mark"}
            /\ waits'[e] \subseteq waits[e]
            /\ \A b \in waits[e] \ waits'[e] : Has(b)'
  BY <1>0, <1>1 DEF TypeOK
<1>3. Behind' /\ Within'
  BY <1>0, <1>1, <1>2, BatchKept
<1>4. DepsHave(a)
  BY <1>0 DEF DepsInv, Behind, Batch, DepsHave, Deps
<1>5. runs' = runs \/ WriteRun(a, 1, "unavailable")
  BY DEF MarkLatest
<1> QED
  BY <1>0, <1>3, <1>4, <1>5, RowAdded, StateNames DEF Has, Written

LEMMA OrchestrateDeps ==
    ASSUME RowsInv, FreshThread, DepsInv, NEW d \in Deliveries, Orchestrate(d)
    PROVE  Behind' /\ Within' /\ DepsMove
<1> USE DEF execution, deliveries, threads, bounds
<1>0. TypeOK /\ RowsGrow
  BY OrchestrateRows DEF RowsInv
<1>1. CASE Execute(d) \/ StopCancelled(d) \/ ReadOutcome(d) \/ FinalizeExecution(d)
  <2>1. UNCHANGED <<runs, thread, scheduled, waits>>
    BY <1>1 DEF Execute, StopCancelled, ReadOutcome, FinalizeExecution
  <2>2. Behind' /\ Within'
    BY <1>0, <1>1, <2>1, BatchKept
       DEF Execute, StopCancelled, ReadOutcome, FinalizeExecution, Goto, TypeOK
  <2> QED
    BY <2>1, <2>2 DEF DepsMove, Has, Written
<1>2. CASE PartitionBatch(d)
  <2> DEFINE runnable == Open(d) \ Blocked(d)
  <2>1. /\ pc[d] = "partition" /\ UNCHANGED scheduled
        /\ \A e \in Deliveries : pc'[e] = IF e = d THEN "collect" ELSE pc[e]
        /\ \A e \in Deliveries : waits'[e] = IF e = d THEN runnable ELSE waits[e]
        /\ \A e \in Deliveries, a \in Agents :
              thread'[e][a] = IF e = d /\ a \in runnable THEN "queued" ELSE thread[e][a]
    BY <1>0, <1>2 DEF PartitionBatch, Goto, TypeOK
  <2>2. \A a \in Agents, n \in Attempts :
           runs'[a][n] = IF a \in Blocked(d) /\ Rows(a) = {} /\ n = 1
                         THEN "unavailable" ELSE runs[a][n]
    BY <1>0, <1>2, StateNames DEF PartitionBatch, TypeOK
  <2>3. \A a \in Batch(d) : DepsHave(a)
    BY <2>1 DEF DepsInv, Behind, Batch, DepsHave, Deps
  <2>4. \A a \in Agents : Has(a)' => Has(a) \/ a \in Blocked(d)
    BY <2>2 DEF Has, Written
  <2>5. DepsMove
    BY <2>1, <2>3, <2>4 DEF DepsMove, Blocked, Open
  <2>6. \A a \in Batch(d) \ runnable : Has(a)'
    <3> SUFFICES ASSUME NEW a \in Batch(d) \ runnable PROVE Has(a)'
      OBVIOUS
    <3>1. a \in Agents /\ 1 \in Attempts
      BY StateNames DEF Batch
    <3>2. CASE a \notin Open(d)
      <4>1. Rows(a) # {}
        BY <1>0, <3>1, <3>2, LastRow DEF Open
      <4> QED
        BY <1>0, <3>1, <4>1, HasRows, HasGrows
    <3>3. CASE a \in Blocked(d)
      <4>1. Rows(a) = {} => Written(a, 1)'
        BY <2>2, <3>1, <3>3 DEF Written
      <4> QED
        BY <1>0, <3>1, <4>1, HasRows, HasGrows DEF Has
    <3> QED
      BY <3>2, <3>3
  <2>7. \A e \in Deliveries : scheduled[e] \subseteq Agents /\ Batch(e) \subseteq Agents
                              /\ Batch(e)' = Batch(e)
    BY <1>0, <2>1 DEF TypeOK, Batch
  <2>8. Behind'
    BY <1>0, <2>1, <2>7, HasGrows DEF DepsInv, Behind
  <2>9. Within'
    <3> SUFFICES ASSUME NEW e \in Deliveries, pc'[e] \in {"collect", "mark"}
                 PROVE  /\ waits'[e] \subseteq Batch(e)'
                        /\ \A a \in Batch(e)' \ waits'[e] : Has(a)'
      BY DEF Within
    <3>1. CASE e = d
      BY <2>1, <2>6, <2>7, <3>1 DEF Open
    <3>2. CASE e # d
      BY <1>0, <2>1, <2>7, <3>2, HasGrows DEF DepsInv, Within
    <3> QED
      BY <3>1, <3>2
  <2> QED
    BY <2>5, <2>8, <2>9
<1>3. ASSUME NEW a \in Agents, CollectResult(d, a)
      PROVE  Behind' /\ Within' /\ DepsMove
  <2>1. Has(a)'
    BY <1>0, <1>3, HasGrows DEF CollectResult, DepsInv, DoneHas
  <2>2. \A e \in Deliveries : waits'[e] = IF e = d THEN waits[e] \ {a} ELSE waits[e]
    BY <1>0, <1>3 DEF CollectResult, TypeOK
  <2>3. Behind' /\ Within'
    BY <1>0, <1>3, <2>1, <2>2, BatchKept DEF CollectResult
  <2> QED
    BY <1>3, <2>3 DEF CollectResult, DepsMove, Has, Written
<1>4. ASSUME NEW a \in Agents, CollectError(d, a)
      PROVE  Behind' /\ Within' /\ DepsMove
  <2>1. Behind' /\ Within' /\ \A b \in Agents : Has(b)' => Has(b) \/ DepsHave(b)
    BY <1>4, MarkLatestDeps DEF CollectError
  <2> QED
    BY <1>4, <2>1 DEF CollectError, DepsMove
<1>5. CASE MarkRun(d)
  <2>1. mark[d] \in Marks /\ Written(mark[d].agent, mark[d].attempt)
    BY <1>0, <1>5 DEF MarkRun, TypeOK, RowsInv, MarkedRow
  <2>2. PICK a \in Agents, n \in Attempts, s \in RunStates :
             a = mark[d].agent /\ n = mark[d].attempt /\ s = mark[d].as
    BY <2>1 DEF Marks, RunStates, Results
  <2>3. Has(a) /\ Has(a)'
    BY <1>0, <2>1, <2>2, HasGrows DEF Has
  <2>4. \A b \in Agents : Has(b)' => Has(b) \/ DepsHave(b)
    BY <1>0, <1>5, <2>2, <2>3, RowAdded DEF MarkRun
  <2>5. \A e \in Deliveries :
           /\ waits'[e] = IF e = d THEN waits[e] \ {a} ELSE waits[e]
           /\ pc'[e] = IF e = d THEN "collect" ELSE pc[e]
    BY <1>0, <1>5, <2>2 DEF MarkRun, Goto, TypeOK
  <2>6. pc[d] = "mark" /\ scheduled' = scheduled
    BY <1>5 DEF MarkRun
  <2>7. \A e \in Deliveries :
           \/ pc'[e] = pc[e] /\ waits'[e] = waits[e]
           \/ /\ {pc[e], pc'[e]} \subseteq {"collect", "mark"}
              /\ waits'[e] \subseteq waits[e]
              /\ \A b \in waits[e] \ waits'[e] : Has(b)'
    BY <2>3, <2>5, <2>6 DEF Has, Written
  <2>8. Behind' /\ Within'
    BY <1>0, <2>6, <2>7, BatchKept
  <2> QED
    BY <1>5, <2>4, <2>8 DEF MarkRun, DepsMove
<1>6. CASE RecordBatch(d)
  <2>1. /\ pc[d] = "collect" /\ waits[d] = {} /\ UNCHANGED <<runs, waits, thread>>
        /\ \A e \in Deliveries :
              /\ pc'[e] = IF e = d THEN "partition" ELSE pc[e]
              /\ scheduled'[e] = IF e = d THEN scheduled[e] \cup Batch(e) ELSE scheduled[e]
    BY <1>0, <1>6 DEF RecordBatch, Goto, TypeOK
  <2>2. \A a \in Batch(d) : Has(a)
    BY <2>1 DEF DepsInv, Within
  <2>3. \A a : Has(a)' <=> Has(a)
    BY <2>1 DEF Has, Written
  <2>4. Behind'
    BY <2>1, <2>2, <2>3 DEF DepsInv, Behind
  <2>5. \A e \in Deliveries : e # d => Batch(e)' = Batch(e)
    BY <2>1 DEF Batch
  <2>6. Within'
    BY <2>1, <2>3, <2>5 DEF DepsInv, Within
  <2> QED
    BY <2>1, <2>3, <2>4, <2>6 DEF DepsMove
<1> QED
  BY <1>1, <1>2, <1>3, <1>4, <1>5, <1>6 DEF Orchestrate

LEMMA FaultDeps ==
    ASSUME RowsInv, DepsInv, NEW d \in Deliveries, Fault(d)
    PROVE  Behind' /\ Within' /\ DepsMove
<1> USE DEF execution, deliveries, threads, bounds
<1>0. TypeOK /\ RowsGrow
  BY FaultRows DEF RowsInv
<1>1. CASE OrchestratorFails(d)
  <2>1. Behind' /\ Within'
    BY <1>0, <1>1, BatchKept DEF OrchestratorFails, Goto, TypeOK
  <2> QED
    BY <1>1, <2>1 DEF OrchestratorFails, DepsMove, Has, Written
<1>2. CASE Crash(d)
  <2>1. \A e \in Deliveries, a \in Agents : thread'[e][a] \in {thread[e][a], "none"}
    BY <1>0, <1>2 DEF Crash, TypeOK
  <2>2. Behind' /\ Within'
    BY <1>0, <1>2, BatchKept DEF Crash, Goto, TypeOK
  <2> QED
    BY <1>2, <2>1, <2>2 DEF Crash, DepsMove, Has, Written
<1>3. ASSUME NEW a \in Agents, TimeOut(d, a)
      PROVE  Behind' /\ Within' /\ DepsMove
  <2>1. Behind' /\ Within' /\ \A b \in Agents : Has(b)' => Has(b) \/ DepsHave(b)
    BY <1>3, MarkLatestDeps DEF TimeOut
  <2>2. \A e \in Deliveries, b \in Agents : thread'[e][b] \in {thread[e][b], "none"}
    BY <1>0, <1>3, ThreadStepped, StateNames DEF TimeOut
  <2> QED
    BY <2>1, <2>2 DEF DepsMove
<1> QED
  BY <1>1, <1>2, <1>3 DEF Fault

\* A thread that has not ended, and writes its row or moves on.
LEMMA ThreadDepsMove ==
    ASSUME TypeOK, DepsInv, NEW d \in Deliveries, NEW a \in Agents, NEW t \in Threads,
           thread[d][a] # "none", SetThread(d, a, t), t = "done" => Has(a)',
           \/ UNCHANGED runs
           \/ \E n \in Attempts, s \in RunStates : WriteRun(a, n, s)
    PROVE  DepsMove
<1>1. \A e \in Deliveries, b \in Agents :
         thread'[e][b] = IF e = d /\ b = a THEN t ELSE thread[e][b]
  BY ThreadStepped
<1>2. DepsHave(a)
  BY DEF DepsInv, ThreadDeps
<1>3. \A b \in Agents : Has(b)' => Has(b) \/ DepsHave(b)
  BY <1>2, RowAdded DEF Has, Written
<1> QED
  BY <1>1, <1>2, <1>3 DEF DepsMove

LEMMA ThreadDepsStep ==
    ASSUME RowsInv, DepsInv, NEW d \in Deliveries, NEW a \in Agents, ThreadStep(d, a)
    PROVE  Behind' /\ Within' /\ DepsMove
<1> USE DEF execution, deliveries, threads, bounds
<1>0. TypeOK /\ RowsGrow /\ row[d][a] \in Attempts
  BY ThreadRows DEF RowsInv, TypeOK
<1>1. Behind' /\ Within'
  <2>1. UNCHANGED <<pc, scheduled, waits>>
    BY DEF ThreadStep, ReadRuns, InsertRun, FinishRun, ObserveCancel
  <2> QED
    BY <1>0, <2>1, BatchKept
<1>2. thread[d][a] = "running" => Has(a)'
  BY <1>0, HasGrows DEF RowsInv, WorkedRow, Has
<1>3. CASE ReadRuns(d, a)
  <2>1. thread[d][a] # "none"
    BY <1>3 DEF ReadRuns
  <2>2. CASE Rows(a) = {} /\ WriteRun(a, 1, "cancelled") /\ SetThread(d, a, "done")
    <3>1. Written(a, 1)' /\ 1 \in Attempts
      BY <1>0, <2>2, RunWritten, StateNames DEF Written, RunStates
    <3> QED
      BY <1>0, <1>1, <2>1, <2>2, <3>1, ThreadDepsMove, StateNames DEF Has
  <2>3. CASE Rows(a) # {} /\ UNCHANGED runs /\ SetThread(d, a, "done")
    BY <1>0, <1>1, <2>1, <2>3, ThreadDepsMove, HasRows, HasGrows, StateNames
  <2>4. CASE UNCHANGED runs /\ SetThread(d, a, "insert")
    BY <1>0, <1>1, <2>1, <2>4, ThreadDepsMove, StateNames
  <2>5. Latest(a) = "completed" \/ NextAttempt(a) > MaxAttempts => Rows(a) # {}
    BY <1>0, LastRow, WorkflowAssumption DEF NextAttempt
  <2> QED
    BY <1>3, <2>2, <2>3, <2>4, <2>5 DEF ReadRuns
<1>4. CASE InsertRun(d, a)
  BY <1>0, <1>1, <1>4, ThreadDepsMove, StateNames DEF InsertRun
<1>5. ASSUME NEW s \in Results, FinishRun(d, a, s) PROVE DepsMove
  BY <1>0, <1>2, <1>5, ThreadDepsMove, StateNames DEF FinishRun
<1>6. CASE ObserveCancel(d, a)
  BY <1>0, <1>1, <1>2, <1>6, ThreadDepsMove, StateNames DEF ObserveCancel
<1> QED
  BY <1>1, <1>3, <1>4, <1>5, <1>6 DEF ThreadStep

LEMMA DepsInductive ==
    ASSUME RowsInv, FreshThread, DepsInv, [Next]_vars
    PROVE  DepsInv'
<1>0. TypeOK
  BY DEF RowsInv
<1>1. ASSUME UNCHANGED <<runs, thread, row, crashes, pc, scheduled, waits>> PROVE DepsInv'
  <2>1. RowsGrow
    BY <1>0, <1>1, QuietStep
  <2>2. Behind' /\ Within'
    BY <1>0, <1>1, <2>1, BatchKept
  <2>3. DepsMove
    BY <1>1 DEF DepsMove, Has, Written
  <2> QED
    BY <2>1, <2>2, <2>3, DepsStep
<1>2. CASE UNCHANGED vars
  BY <1>1, <1>2 DEF vars, execution, deliveries, threads, bounds
<1>3. ASSUME NEW r \in Requests, RequestStep(r) PROVE DepsInv'
  BY <1>1, <1>3 DEF RequestStep, Fetch, CancelExecution, Reopen, Enqueue,
                    execution, deliveries, threads, bounds
<1>4. ASSUME NEW d \in Deliveries, Orchestrate(d) PROVE DepsInv'
  BY <1>4, DepsStep, OrchestrateRows, OrchestrateDeps
<1>5. ASSUME NEW d \in Deliveries, Fault(d) PROVE DepsInv'
  BY <1>5, DepsStep, FaultRows, FaultDeps
<1>6. ASSUME NEW d \in Deliveries, NEW a \in Agents, ThreadStep(d, a) PROVE DepsInv'
  BY <1>6, DepsStep, ThreadRows, ThreadDepsStep
<1> QED
  BY <1>2, <1>3, <1>4, <1>5, <1>6 DEF Next

\* No agent has a run before each agent it depends on has one.
THEOREM EvidenceExplicit == Spec => []DependenciesRecorded
<1>1. Init => DepsInv
  BY DEF Init, DepsInv, Behind, Within, ThreadDeps, DoneHas, RowDeps, Has, Written
<1>2. RowsInv /\ FreshThread /\ DepsInv /\ [Next]_vars => DepsInv'
  BY DepsInductive
<1>3. RowsInv /\ DepsInv => DependenciesRecorded
  BY HasRows, DepsTypes DEF RowsInv, DepsInv, RowDeps, DepsHave, Deps, DependenciesRecorded
<1> QED
  BY <1>1, <1>2, <1>3, RowsAlways, PTL DEF Spec

-----------------------------------------------------------------------------
(* The pools, until a future times out.                                     *)

\* A thread that still has to act, and those at work.
Live == {"queued"} \cup Working
WorkingOf(d) == {a \in Agents : thread[d][a] \in Working}

\* The live threads of a delivery belong to its batch, and it waits for each of
\* them; none is left between two batches.
PoolOf(d) ==
    /\ \A a \in Agents : thread[d][a] \in Live => a \in Batch(d)
    /\ pc[d] \in {"collect", "mark"} => \A a \in Agents : thread[d][a] \in Live => a \in waits[d]
    /\ pc[d] \in {"new", "partition"} => \A a \in Agents : thread[d][a] \notin Live
    /\ pc[d] = "mark" => thread[d][mark[d].agent] = "error"

LimitOf(d) == IsFiniteSet(WorkingOf(d)) /\ Cardinality(WorkingOf(d)) <= MaxConcurrency

PoolInv == timeouts = 0 => \A d \in Deliveries : PoolOf(d) /\ LimitOf(d)

\* A step of a delivery that makes no thread live, and stops waiting only for
\* threads that are not.
PoolStays(d) ==
    /\ \A a \in Agents : thread'[d][a] \in Live => thread[d][a] \in Live
    /\ \A a \in Agents : thread'[d][a] \in Working => thread[d][a] \in Working
    /\ scheduled'[d] = scheduled[d]
    /\ \/ pc'[d] \in {"finalize", "over"}
       \/ {pc[d], pc'[d]} \subseteq {"new", "partition"}
       \/ /\ {pc[d], pc'[d]} \subseteq {"collect", "mark"}
          /\ \A a \in waits[d] \ waits'[d] : thread'[d][a] \notin Live
          /\ pc'[d] = "mark" => thread'[d][mark'[d].agent] = "error"

LEMMA FewerWorking ==
    ASSUME NEW d \in Deliveries, LimitOf(d), WorkingOf(d)' \subseteq WorkingOf(d)
    PROVE  LimitOf(d)'
<1>1. /\ IsFiniteSet(WorkingOf(d)')
      /\ Cardinality(WorkingOf(d)') <= Cardinality(WorkingOf(d))
      /\ Cardinality(WorkingOf(d)') \in Nat /\ Cardinality(WorkingOf(d)) \in Nat
  BY FS_Subset, FS_CardinalityType DEF LimitOf
<1>2. MaxConcurrency \in Nat
  BY WorkflowAssumption
<1> QED
  BY <1>1, <1>2 DEF LimitOf

LEMMA PoolKept ==
    ASSUME TypeOK, NEW d \in Deliveries, PoolOf(d), LimitOf(d), PoolStays(d)
    PROVE  PoolOf(d)' /\ LimitOf(d)'
<1>1. LimitOf(d)'
  BY FewerWorking DEF WorkingOf, PoolStays
<1>2. Batch(d)' = Batch(d)
  BY DEF PoolStays, Batch
<1> QED
  BY <1>1, <1>2 DEF PoolOf, PoolStays

\* A step that leaves one delivery's pool alone, or touches none.
LEMMA PoolUntouched ==
    ASSUME TypeOK, PoolInv, timeouts' = timeouts, NEW d \in Deliveries,
           \A e \in Deliveries : e # d => PoolStays(e),
           timeouts = 0 /\ PoolOf(d) /\ LimitOf(d) => PoolOf(d)' /\ LimitOf(d)'
    PROVE  PoolInv'
BY PoolKept DEF PoolInv

\* What is the same before and after keeps its pool.
LEMMA PoolSame ==
    ASSUME TypeOK, timeouts = 0, NEW d \in Deliveries, PoolOf(d),
           thread'[d] = thread[d], scheduled'[d] = scheduled[d], pc'[d] = pc[d],
           waits'[d] = waits[d], mark'[d] = mark[d]
    PROVE  PoolStays(d)
BY DEF PoolOf, PoolStays, TypeOK, Phases

\* A step of one delivery, its threads among them, is of no other.
OthersStay(d) ==
    \A e \in Deliveries : e # d =>
        /\ thread'[e] = thread[e] /\ scheduled'[e] = scheduled[e] /\ pc'[e] = pc[e]
        /\ waits'[e] = waits[e] /\ mark'[e] = mark[e]

LEMMA PoolStep ==
    ASSUME TypeOK, PoolInv, timeouts' = timeouts, NEW d \in Deliveries, OthersStay(d),
           timeouts = 0 /\ PoolOf(d) /\ LimitOf(d) => PoolStays(d) \/ (PoolOf(d)' /\ LimitOf(d)')
    PROVE  PoolInv'
<1>1. CASE timeouts # 0
  BY <1>1 DEF PoolInv
<1>2. CASE timeouts = 0
  <2>1. \A e \in Deliveries : e # d => PoolStays(e)
    BY <1>2, PoolSame DEF PoolInv, OthersStay
  <2> QED
    BY <1>2, <2>1, PoolUntouched, PoolKept
<1> QED
  BY <1>1, <1>2

LEMMA DeliveryStep ==
    ASSUME TypeOK, NEW d \in Deliveries,
           Orchestrate(d) \/ OrchestratorFails(d) \/ Crash(d)
    PROVE  OthersStay(d) /\ timeouts' = timeouts
<1> USE DEF execution, deliveries, threads, bounds
<1>1. CASE Execute(d) \/ StopCancelled(d) \/ ReadOutcome(d) \/ FinalizeExecution(d) \/ RecordBatch(d)
  BY <1>1 DEF Execute, StopCancelled, ReadOutcome, FinalizeExecution, RecordBatch, Goto, TypeOK,
              OthersStay
<1>2. CASE PartitionBatch(d)
  BY <1>2 DEF PartitionBatch, Goto, TypeOK, OthersStay
<1>3. CASE MarkRun(d) \/ \E a \in Agents : CollectResult(d, a)
  BY <1>3 DEF MarkRun, CollectResult, Goto, TypeOK, OthersStay
<1>4. CASE \E a \in Agents : CollectError(d, a)
  BY <1>4 DEF CollectError, MarkLatest, Goto, TypeOK, OthersStay
<1>5. CASE OrchestratorFails(d) \/ Crash(d)
  BY <1>5 DEF OrchestratorFails, Crash, Goto, TypeOK, OthersStay
<1> QED
  BY <1>1, <1>2, <1>3, <1>4, <1>5 DEF Orchestrate

LEMMA ThreadStepOf ==
    ASSUME TypeOK, NEW d \in Deliveries, NEW a \in Agents, ThreadStep(d, a)
    PROVE  /\ OthersStay(d) /\ timeouts' = timeouts
           /\ UNCHANGED deliveries
           /\ thread[d][a] \in Live
           /\ \A b \in Agents : b # a => thread'[d][b] = thread[d][b]
           /\ thread'[d][a] \in Threads \ {"none", "queued"}
           /\ \/ thread[d][a] \in Working
              \/ thread'[d][a] \notin Working
              \/ thread[d][a] = "queued" /\ Capacity(d)
<1>1. PICK t \in Threads \ {"none", "queued"} : SetThread(d, a, t)
  BY DEF ThreadStep, ReadRuns, InsertRun, FinishRun, ObserveCancel, Threads
<1>2. \A e \in Deliveries, b \in Agents : thread'[e][b] = IF e = d /\ b = a THEN t ELSE thread[e][b]
  BY <1>1, ThreadStepped
<1>3. /\ UNCHANGED deliveries /\ timeouts' = timeouts
      /\ thread[d][a] \in Live
      /\ thread[d][a] \in Working \/ (thread[d][a] = "queued" /\ Capacity(d))
  BY DEF ThreadStep, ReadRuns, InsertRun, FinishRun, ObserveCancel, Live, Working, bounds
<1>4. OthersStay(d)
  BY <1>1, <1>3 DEF OthersStay, SetThread, TypeOK, deliveries
<1> QED
  BY <1>1, <1>2, <1>3, <1>4

LEMMA OrchestratePool ==
    ASSUME TypeOK, FreshThread, PoolInv, NEW d \in Deliveries, Orchestrate(d)
    PROVE  PoolInv'
<1> USE DEF execution, deliveries, threads, bounds
<1> SUFFICES ASSUME timeouts = 0, PoolOf(d), LimitOf(d)
             PROVE  PoolStays(d) \/ (PoolOf(d)' /\ LimitOf(d)')
  BY DeliveryStep, PoolStep
<1>1. CASE Execute(d) \/ StopCancelled(d) \/ ReadOutcome(d) \/ FinalizeExecution(d)
  BY <1>1 DEF Execute, StopCancelled, ReadOutcome, FinalizeExecution, Goto, TypeOK, PoolStays
<1>2. CASE PartitionBatch(d)
  <2>1. /\ pc[d] = "partition" /\ pc'[d] = "collect" /\ scheduled'[d] = scheduled[d]
        /\ waits'[d] = Open(d) \ Blocked(d)
        /\ \A a \in Agents : thread'[d][a] = IF a \in Open(d) \ Blocked(d)
                                             THEN "queued" ELSE thread[d][a]
    BY <1>2 DEF PartitionBatch, Goto, TypeOK
  <2>2. Batch(d)' = Batch(d) /\ Open(d) \subseteq Batch(d)
    BY <2>1 DEF Batch, Open
  <2>3. PoolOf(d)'
    BY <2>1, <2>2 DEF PoolOf
  <2>4. WorkingOf(d)' \subseteq WorkingOf(d)
    BY <2>1 DEF WorkingOf, Working
  <2> QED
    BY <2>3, <2>4, FewerWorking
<1>3. ASSUME NEW a \in Agents, CollectResult(d, a) PROVE PoolStays(d)
  BY <1>3 DEF CollectResult, TypeOK, PoolOf, PoolStays, Live, Working
<1>4. ASSUME NEW a \in Agents, CollectError(d, a) PROVE PoolStays(d)
  <2>1. /\ pc[d] = "collect" /\ thread[d][a] = "error" /\ UNCHANGED <<thread, scheduled>>
        /\ pc'[d] \in {"collect", "mark"}
        /\ waits'[d] \in {waits[d], waits[d] \ {a}}
        /\ pc'[d] = "mark" => mark'[d].agent = a
    BY <1>4 DEF CollectError, MarkLatest, Goto, TypeOK
  <2> QED
    BY <2>1 DEF PoolStays, Live, Working
<1>5. CASE MarkRun(d)
  BY <1>5 DEF MarkRun, Goto, TypeOK, PoolOf, PoolStays, Live, Working
<1>6. CASE RecordBatch(d)
  <2>1. \A a \in Agents : thread[d][a] \notin Live
    BY <1>6 DEF RecordBatch, PoolOf
  <2>2. thread' = thread /\ pc'[d] = "partition"
    BY <1>6 DEF RecordBatch, Goto, TypeOK
  <2> QED
    BY <2>1, <2>2, FewerWorking DEF PoolOf, WorkingOf
<1> QED
  BY <1>1, <1>2, <1>3, <1>4, <1>5, <1>6 DEF Orchestrate

LEMMA FaultPool ==
    ASSUME TypeOK, PoolInv, NEW d \in Deliveries, Fault(d)
    PROVE  PoolInv'
<1>1. CASE OrchestratorFails(d)
  <2>1. PoolStays(d)
    BY <1>1 DEF OrchestratorFails, Goto, TypeOK, PoolStays, threads
  <2> QED
    BY <1>1, <2>1, DeliveryStep, PoolStep
<1>2. CASE Crash(d)
  <2>1. PoolStays(d)
    BY <1>2 DEF Crash, Goto, TypeOK, PoolStays, Live, Working
  <2> QED
    BY <1>2, <2>1, DeliveryStep, PoolStep
<1>3. CASE \E a \in Agents : TimeOut(d, a)
  BY <1>3, WorkflowAssumption DEF TimeOut, TypeOK, PoolInv
<1> QED
  BY <1>1, <1>2, <1>3 DEF Fault

LEMMA ThreadPool ==
    ASSUME TypeOK, PoolInv, NEW d \in Deliveries, NEW a \in Agents, ThreadStep(d, a)
    PROVE  PoolInv'
<1> SUFFICES ASSUME timeouts = 0, PoolOf(d), LimitOf(d)
             PROVE  PoolStays(d) \/ (PoolOf(d)' /\ LimitOf(d)')
  BY ThreadStepOf, PoolStep
<1>1. /\ UNCHANGED deliveries
      /\ thread[d][a] \in Live
      /\ \A b \in Agents : b # a => thread'[d][b] = thread[d][b]
  BY ThreadStepOf
<1>2. Batch(d)' = Batch(d)
  BY <1>1 DEF Batch, deliveries
<1>3. PoolOf(d)'
  <2>1. \A b \in Agents : thread'[d][b] \in Live => thread[d][b] \in Live
    BY <1>1
  <2>2. pc[d] = "mark" => mark[d].agent \in Agents /\ mark[d].agent # a
    BY <1>1 DEF TypeOK, Marks, PoolOf, Live, Working
  <2> QED
    BY <1>1, <1>2, <2>1, <2>2 DEF PoolOf, deliveries
<1>4. CASE thread[d][a] \in Working \/ thread'[d][a] \notin Working
  <2>1. WorkingOf(d)' \subseteq WorkingOf(d)
    BY <1>1, <1>4 DEF WorkingOf
  <2> QED
    BY <1>3, <2>1, FewerWorking
<1>5. CASE thread[d][a] = "queued" /\ Capacity(d) /\ thread'[d][a] \in Working
  <2>1. WorkingOf(d) = {b \in Batch(d) : thread[d][b] \in Working}
    BY DEF WorkingOf, PoolOf, Live, Batch
  <2>2. Cardinality(WorkingOf(d)) < MaxConcurrency /\ IsFiniteSet(WorkingOf(d))
    BY <1>5, <2>1 DEF Capacity, LimitOf
  <2>3. WorkingOf(d)' = WorkingOf(d) \cup {a} /\ a \notin WorkingOf(d)
    BY <1>1, <1>5 DEF WorkingOf, Working
  <2>4. /\ IsFiniteSet(WorkingOf(d)')
        /\ Cardinality(WorkingOf(d)') = Cardinality(WorkingOf(d)) + 1
    BY <2>2, <2>3, FS_AddElement
  <2>5. LimitOf(d)'
    BY <2>2, <2>4, FS_CardinalityType, WorkflowAssumption DEF LimitOf
  <2> QED
    BY <1>3, <2>5
<1> QED
  BY <1>4, <1>5, ThreadStepOf

LEMMA PoolInductive ==
    ASSUME TypeOK, FreshThread, PoolInv, [Next]_vars
    PROVE  PoolInv'
<1>1. ASSUME UNCHANGED <<deliveries, threads, timeouts>> PROVE PoolInv'
  BY <1>1 DEF PoolInv, PoolOf, LimitOf, WorkingOf, Batch, deliveries, threads
<1>2. ASSUME NEW r \in Requests, RequestStep(r) PROVE PoolInv'
  BY <1>1, <1>2 DEF RequestStep, Fetch, CancelExecution, Reopen, Enqueue, bounds
<1>3. CASE UNCHANGED vars
  BY <1>1, <1>3 DEF vars, bounds
<1> QED
  BY <1>2, <1>3, OrchestratePool, FaultPool, ThreadPool DEF Next

LEMMA PoolInit == Init => PoolInv
<1> SUFFICES ASSUME Init PROVE PoolInv
  OBVIOUS
<1>1. \A d \in Deliveries : PoolOf(d)
  BY DEF Init, PoolOf, Live, Working
<1>2. \A d \in Deliveries : WorkingOf(d) = {}
  BY DEF Init, WorkingOf, Working
<1>3. IsFiniteSet({}) /\ Cardinality({}) = 0
  BY FS_EmptySet
<1>4. ASSUME NEW d \in Deliveries PROVE LimitOf(d)
  <2>1. WorkingOf(d) = {}
    BY <1>2
  <2>2. IsFiniteSet(WorkingOf(d)) /\ Cardinality(WorkingOf(d)) = 0
    BY <1>3, <2>1
  <2>3. MaxConcurrency \in Nat
    BY WorkflowAssumption
  <2> QED
    BY <2>2, <2>3 DEF LimitOf
<1> QED
  BY <1>1, <1>4 DEF PoolInv

LEMMA PoolAlways == Spec => []PoolInv
<1>1. Init => PoolInv
  BY PoolInit
<1>2. RowsInv /\ FreshThread /\ PoolInv /\ [Next]_vars => PoolInv'
  BY PoolInductive DEF RowsInv
<1> QED
  BY <1>1, <1>2, RowsAlways, PTL DEF Spec

\* Until a future times out, the pools of an orchestrator keep to the concurrency
\* limit, for any number of overlapping orchestrators, batches and faults.
THEOREM LimitKept == Spec => []ConcurrencyLimit
<1>1. PoolInv => ConcurrencyLimit
  BY DEF PoolInv, LimitOf, WorkingOf, ConcurrencyLimit
<1> QED
  BY <1>1, PoolAlways, PTL

-----------------------------------------------------------------------------
(* Orchestrators one after the other: a delivery that is at work, with its   *)
(* loop or with a thread, is the only one.  One delivery alone is such, and  *)
(* so is a resume after all has ended; a retry of a running execution is not.*)

Active(d) == pc[d] \notin {"new", "over"} \/ \E a \in Agents : thread[d][a] \in Live
Sequential == \A c, d \in Deliveries : Active(c) /\ Active(d) => c = d

\* Until a future times out, no insert is refused, so nothing is marked; the row
\* of a thread is missing until it inserts it, and running until it ends it.
CleanOf(d) ==
    /\ pc[d] # "mark"
    /\ \A a \in Agents :
          /\ thread[d][a] # "error"
          /\ thread[d][a] = "insert" => runs[a][row[d][a]] = "absent"
          /\ thread[d][a] = "running" => runs[a][row[d][a]] = "running"
CleanInv == timeouts = 0 => \A d \in Deliveries : CleanOf(d)

EndedKept ==
    \A a \in Agents, n \in Attempts :
        runs[a][n] \notin {"absent", "running"} => runs'[a][n] = runs[a][n]

\* A step that writes no row, and may drop threads.
LEMMA CleanQuiet ==
    ASSUME TypeOK, CleanInv, timeouts' = timeouts, UNCHANGED <<runs, row>>,
           \A e \in Deliveries : pc'[e] = "mark" => pc[e] = "mark",
           \A e \in Deliveries, a \in Agents : thread'[e][a] \in {thread[e][a], "none", "queued"}
    PROVE  CleanInv' /\ EndedKept
BY DEF CleanInv, CleanOf, EndedKept

\* A step of the one active delivery.
LEMMA CleanStep ==
    ASSUME TypeOK, CleanInv, Sequential, timeouts = 0, NEW d \in Deliveries, Active(d),
           OthersStay(d), \A e \in Deliveries : e # d => row'[e] = row[e],
           CleanOf(d)'
    PROVE  CleanInv'
<1>1. ASSUME NEW e \in Deliveries, e # d PROVE CleanOf(e)'
  <2>1. /\ pc'[e] = pc[e] /\ thread'[e] = thread[e]
        /\ \A a \in Agents : thread[e][a] \notin {"insert", "running"}
    BY <1>1 DEF OthersStay, Sequential, Active, Live, Working
  <2> QED
    BY <2>1 DEF CleanInv, CleanOf
<1> QED
  BY <1>1 DEF CleanInv

LEMMA OrchestrateClean ==
    ASSUME TypeOK, FreshThread, CleanInv, Sequential, timeouts = 0,
           NEW d \in Deliveries, Orchestrate(d)
    PROVE  CleanInv' /\ EndedKept
<1> USE DEF execution, deliveries, threads, bounds
<1>1. CASE Execute(d) \/ StopCancelled(d) \/ ReadOutcome(d) \/ FinalizeExecution(d) \/ RecordBatch(d)
  BY <1>1, CleanQuiet
     DEF Execute, StopCancelled, ReadOutcome, FinalizeExecution, RecordBatch, Goto, TypeOK
<1>2. CASE PartitionBatch(d)
  <2>1. /\ pc[d] = "partition" /\ pc'[d] = "collect" /\ row' = row
        /\ \A a \in Agents : thread'[d][a] \in {thread[d][a], "queued"}
    BY <1>2 DEF PartitionBatch, Goto, TypeOK
  <2>2. \A a \in Agents, n \in Attempts :
           runs'[a][n] = IF a \in Blocked(d) /\ Rows(a) = {} /\ n = 1
                         THEN "unavailable" ELSE runs[a][n]
    BY <1>2, StateNames DEF PartitionBatch, TypeOK
  <2>3. EndedKept
    BY <2>2, NothingWritten DEF EndedKept, Written
  <2>4. \A a \in Blocked(d) : thread[d][a] = "none"
    BY <2>1 DEF FreshThread, Blocked, Open, Batch
  <2>5. \A a \in Agents : row[d][a] \in Attempts
    BY DEF TypeOK
  <2>6. CleanOf(d)'
    BY <2>1, <2>2, <2>4, <2>5 DEF CleanInv, CleanOf
  <2>7. OthersStay(d) /\ Active(d)
    BY <1>2, <2>1, DeliveryStep DEF Active
  <2> QED
    BY <2>1, <2>3, <2>6, <2>7, CleanStep
<1>3. ASSUME NEW a \in Agents, CollectResult(d, a) PROVE CleanInv' /\ EndedKept
  BY <1>3, CleanQuiet DEF CollectResult, TypeOK
<1>4. ASSUME NEW a \in Agents, CollectError(d, a) PROVE FALSE
  BY <1>4 DEF CollectError, CleanInv, CleanOf
<1>5. CASE MarkRun(d)
  BY <1>5 DEF MarkRun, CleanInv, CleanOf
<1> QED
  BY <1>1, <1>2, <1>3, <1>4, <1>5 DEF Orchestrate

LEMMA FaultClean ==
    ASSUME TypeOK, CleanInv, timeouts' = 0, NEW d \in Deliveries, Fault(d)
    PROVE  CleanInv' /\ EndedKept
<1> USE DEF execution, deliveries, threads, bounds
<1>1. CASE OrchestratorFails(d)
  BY <1>1, CleanQuiet DEF OrchestratorFails, Goto, TypeOK
<1>2. CASE Crash(d)
  BY <1>2, CleanQuiet DEF Crash, Goto, TypeOK
<1>3. CASE \E a \in Agents : TimeOut(d, a)
  BY <1>3, WorkflowAssumption DEF TimeOut, TypeOK
<1> QED
  BY <1>1, <1>2, <1>3 DEF Fault

\* The active thread moves on, and writes a row at most.
LEMMA ThreadClean ==
    ASSUME TypeOK, CleanInv, Sequential, timeouts = 0,
           NEW d \in Deliveries, NEW a \in Agents, ThreadStep(d, a)
    PROVE  CleanInv' /\ EndedKept
<1> USE DEF execution, deliveries, threads, bounds
<1>1. /\ OthersStay(d) /\ Active(d) /\ pc' = pc
      /\ \A b \in Agents : b # a => thread'[d][b] = thread[d][b]
  BY ThreadStepOf DEF Active
<1>2. /\ \A e \in Deliveries : e # d => row'[e] = row[e]
      /\ \A b \in Agents : b # a => row'[d][b] = row[d][b]
  BY DEF ThreadStep, ReadRuns, InsertRun, FinishRun, ObserveCancel, TypeOK
<1>3. row[d][a] \in Attempts /\ CleanOf(d)
  BY DEF TypeOK, CleanInv
<1>4. SUFFICES /\ \A b \in Agents : b # a => runs'[b] = runs[b]
               /\ \A n \in Attempts : runs[a][n] \notin {"absent", "running"}
                                        => runs'[a][n] = runs[a][n]
               /\ thread'[d][a] # "error"
               /\ thread'[d][a] = "insert" => runs'[a][row'[d][a]] = "absent"
               /\ thread'[d][a] = "running" => runs'[a][row'[d][a]] = "running"
  <2>1. EndedKept
    BY <1>4 DEF EndedKept
  <2>2. CleanOf(d)'
    BY <1>1, <1>2, <1>3, <1>4 DEF CleanOf
  <2> QED
    BY <1>1, <1>2, <2>1, <2>2, CleanStep
<1>5. CASE ReadRuns(d, a)
  <2>1. CASE /\ IF Rows(a) = {} THEN WriteRun(a, 1, "cancelled") ELSE UNCHANGED runs
             /\ SetThread(d, a, "done")
    <3>1. thread'[d][a] = "done"
      BY <2>1 DEF SetThread, TypeOK
    <3>2. CASE Rows(a) = {} /\ WriteRun(a, 1, "cancelled")
      <4>1. \A n \in Attempts : runs[a][n] = "absent"
        BY <3>2, NothingWritten DEF Written
      <4> QED
        BY <3>1, <3>2, <4>1 DEF WriteRun, TypeOK
    <3> QED
      BY <2>1, <3>1, <3>2
  <2>2. CASE UNCHANGED runs /\ SetThread(d, a, "done")
    BY <2>2 DEF SetThread, TypeOK
  <2>3. CASE /\ NextAttempt(a) <= MaxAttempts
             /\ row' = [row EXCEPT ![d][a] = NextAttempt(a)]
             /\ SetThread(d, a, "insert")
             /\ UNCHANGED runs
    <3>1. NextAttempt(a) \in Attempts /\ NextAttempt(a) \notin Rows(a)
      BY <2>3, LastRow, WorkflowAssumption DEF NextAttempt, Attempts
    <3>2. runs[a][NextAttempt(a)] = "absent"
      BY <3>1 DEF Rows
    <3>3. row'[d][a] = NextAttempt(a) /\ thread'[d][a] = "insert"
      BY <2>3 DEF SetThread, TypeOK
    <3> QED
      BY <2>3, <3>2, <3>3
  <2> QED
    BY <1>5, <2>1, <2>2, <2>3 DEF ReadRuns
<1>6. ASSUME thread[d][a] \in {"insert", "running"}, NEW s \in RunStates, WriteRun(a, row[d][a], s),
             NEW t \in Threads \ {"insert", "error"}, SetThread(d, a, t),
             t = "running" => s = "running", row' = row
      PROVE  /\ \A b \in Agents : b # a => runs'[b] = runs[b]
             /\ \A n \in Attempts : runs[a][n] \notin {"absent", "running"}
                                      => runs'[a][n] = runs[a][n]
             /\ thread'[d][a] # "error"
             /\ thread'[d][a] = "insert" => runs'[a][row'[d][a]] = "absent"
             /\ thread'[d][a] = "running" => runs'[a][row'[d][a]] = "running"
  <2>1. \A b \in Agents, i \in Attempts :
           runs'[b][i] = IF b = a /\ i = row[d][a] THEN s ELSE runs[b][i]
    BY <1>3, <1>6, RunWritten
  <2>2. \A b \in Agents : b # a => runs'[b] = runs[b]
    BY <1>6 DEF WriteRun, TypeOK
  <2>3. thread'[d][a] = t
    BY <1>6, ThreadStepped
  <2>4. runs[a][row[d][a]] \in {"absent", "running"}
    BY <1>3, <1>6 DEF CleanOf
  <2> QED
    BY <1>3, <1>6, <2>1, <2>2, <2>3, <2>4
<1>7. CASE InsertRun(d, a)
  <2>1. runs[a][row[d][a]] = "absent" /\ thread[d][a] = "insert"
    BY <1>3, <1>7 DEF CleanOf, InsertRun
  <2>2. WriteRun(a, row[d][a], "running") /\ SetThread(d, a, "running") /\ row' = row
    BY <1>7, <2>1 DEF InsertRun
  <2> QED
    BY <2>1, <2>2, <1>6, StateNames
<1>8. ASSUME NEW s \in Results, FinishRun(d, a, s)
      PROVE  /\ \A b \in Agents : b # a => runs'[b] = runs[b]
             /\ \A n \in Attempts : runs[a][n] \notin {"absent", "running"}
                                      => runs'[a][n] = runs[a][n]
             /\ thread'[d][a] # "error"
             /\ thread'[d][a] = "insert" => runs'[a][row'[d][a]] = "absent"
             /\ thread'[d][a] = "running" => runs'[a][row'[d][a]] = "running"
  <2>1. PICK t \in {"again", "done"} : SetThread(d, a, t)
    BY <1>8 DEF FinishRun
  <2>2. thread[d][a] = "running" /\ WriteRun(a, row[d][a], s) /\ row' = row
    BY <1>8 DEF FinishRun
  <2> QED
    BY <2>1, <2>2, <1>6, StateNames
<1>9. CASE ObserveCancel(d, a)
  <2>1. /\ thread[d][a] = "running" /\ WriteRun(a, row[d][a], "cancelled")
        /\ SetThread(d, a, "done") /\ row' = row
    BY <1>9 DEF ObserveCancel
  <2> QED
    BY <2>1, <1>6, StateNames
<1> QED
  BY <1>5, <1>7, <1>8, <1>9 DEF ThreadStep

LEMMA CleanInductive ==
    ASSUME TypeOK, FreshThread, CleanInv, Sequential, [Next]_vars
    PROVE  CleanInv' /\ (timeouts' = 0 => EndedKept)
<1>0. timeouts \in Nat /\ (timeouts' = timeouts \/ timeouts' = timeouts + 1)
  BY WorkflowAssumption DEF TypeOK, Next, Orchestrate, Fault, ThreadStep, RequestStep, Execute,
     PartitionBatch, StopCancelled, CollectResult, CollectError, MarkRun, RecordBatch, ReadOutcome,
     FinalizeExecution, OrchestratorFails, Crash, TimeOut, ReadRuns, InsertRun, FinishRun,
     ObserveCancel, Fetch, CancelExecution, Reopen, Enqueue, vars, bounds
<1>1. CASE timeouts' # 0
  BY <1>1 DEF CleanInv
<1>2. CASE timeouts' = 0
  <2>0. timeouts = 0
    BY <1>0, <1>2
  <2>1. ASSUME UNCHANGED <<runs, deliveries, threads>> PROVE CleanInv' /\ EndedKept
    BY <2>0, <1>2, <2>1, CleanQuiet DEF deliveries, threads
  <2>2. ASSUME NEW r \in Requests, RequestStep(r) PROVE CleanInv' /\ EndedKept
    BY <2>1, <2>2 DEF RequestStep, Fetch, CancelExecution, Reopen, Enqueue, execution
  <2>3. CASE UNCHANGED vars
    BY <2>1, <2>3 DEF vars, execution
  <2> QED
    BY <1>2, <2>0, <2>2, <2>3, OrchestrateClean, FaultClean, ThreadClean DEF Next
<1> QED
  BY <1>1, <1>2

\* While orchestrators follow one another and no future has timed out, a run that
\* has ended is never written again.
THEOREM EndedRunsStay == Spec /\ []Sequential => RunsAreImmutable
<1>1. Init => CleanInv
  BY DEF Init, CleanInv, CleanOf
<1>2. RowsInv /\ FreshThread /\ CleanInv /\ Sequential /\ [Next]_vars => CleanInv'
  BY CleanInductive DEF RowsInv
<1>3. RowsInv /\ FreshThread /\ CleanInv /\ Sequential /\ [Next]_vars =>
         [timeouts' = 0 =>
             \A a \in Agents, n \in Attempts :
                 runs[a][n] \notin {"absent", "running"} => runs'[a][n] = runs[a][n]]_vars
  BY CleanInductive DEF RowsInv, EndedKept
<1> QED
  BY <1>1, <1>2, <1>3, RowsAlways, PTL DEF Spec, RunsAreImmutable

-----------------------------------------------------------------------------
(* The evidence of the agents that run.                                     *)

Usable == {"completed", "partial"}

\* A thread of d for agent a has evidence in the batches that d has behind it.
Grounded(d, a) ==
    \/ Requires[a] = {}
    \/ \E b \in Requires[a] \cap scheduled[d], i \in Attempts : runs[b][i] \in Usable

\* A live thread is grounded; the row that a thread works on has no usable result
\* yet, and a row to be marked is of an agent that is waited for.
EvidInv ==
    /\ \A d \in Deliveries, a \in Agents : thread[d][a] \in Live => Grounded(d, a)
    /\ \A d \in Deliveries, a \in Agents :
          thread[d][a] = "running" => runs[a][row[d][a]] \notin Usable
    /\ \A d \in Deliveries : pc[d] = "mark" => mark[d].agent \in waits[d]

\* What a step of delivery d does to the evidence: only the mark of an agent it
\* waits for takes some away.
EvidMove(d) ==
    /\ \A a \in Agents, n \in Attempts : runs[a][n] \in Usable /\ runs'[a][n] \notin Usable
          => pc[d] = "mark" /\ a \in waits[d]
    /\ \A a \in Agents, n \in Attempts : runs[a][n] = "absent" /\ runs'[a][n] = "running"
          => \E e \in Deliveries : thread[e][a] = "insert"
    /\ \A e \in Deliveries, a \in Agents : thread'[e][a] \in Live =>
          thread[e][a] \in Live \/ (Active(e) /\ Grounded(e, a))
    /\ \A e \in Deliveries, a \in Agents :
          thread'[e][a] = "running" => runs'[a][row'[e][a]] \notin Usable
    /\ \A e \in Deliveries : pc'[e] = "mark" => mark'[e].agent \in waits'[e]
    /\ \A e \in Deliveries : scheduled[e] \subseteq scheduled'[e]

LEMMA EvidStep ==
    ASSUME TypeOK, DepsInv, EvidInv, Sequential, NEW d \in Deliveries, EvidMove(d)
    PROVE  EvidInv'
<1>1. ASSUME NEW e \in Deliveries, NEW a \in Agents, thread'[e][a] \in Live
      PROVE  Grounded(e, a)'
  <2>1. Active(e) /\ Grounded(e, a)
    BY <1>1 DEF EvidMove, EvidInv, Active
  <2>2. CASE Requires[a] # {}
    <3>1. PICK b \in Requires[a] \cap scheduled[e], i \in Attempts : runs[b][i] \in Usable
      BY <2>1, <2>2 DEF Grounded
    <3>2. b \in Agents /\ b \in scheduled'[e]
      BY <3>1 DEF TypeOK, EvidMove
    <3>3. runs'[b][i] \in Usable
      <4> SUFFICES ASSUME pc[d] = "mark", b \in waits[d] PROVE FALSE
        BY <3>1, <3>2 DEF EvidMove
      <4>1. d = e
        BY <2>1 DEF Sequential, Active
      <4>2. b \notin scheduled[d]
        BY DEF DepsInv, Within, Batch
      <4> QED
        BY <3>1, <4>1, <4>2
    <3> QED
      BY <3>1, <3>2, <3>3 DEF Grounded
  <2> QED
    BY <2>2 DEF Grounded
<1> QED
  BY <1>1 DEF EvidInv, EvidMove

\* A step that writes no row, and adds no thread or mark.
LEMMA EvidQuiet ==
    ASSUME TypeOK, EvidInv, UNCHANGED <<runs, row>>, NEW d \in Deliveries,
           \A e \in Deliveries : scheduled[e] \subseteq scheduled'[e],
           \A e \in Deliveries, a \in Agents : thread'[e][a] \in {thread[e][a], "none"},
           \A e \in Deliveries : pc'[e] = "mark" =>
               pc[e] = "mark" /\ mark'[e] = mark[e] /\ waits'[e] = waits[e]
    PROVE  EvidMove(d)
BY DEF EvidMove, EvidInv, Live, Working

\* The latest run of an agent that is waited for is marked, or recorded as missing.
LEMMA MarkLatestEvid ==
    ASSUME TypeOK, EvidInv, NEW d \in Deliveries, NEW a \in waits[d],
           NEW s \in {"transient", "failed"}, MarkLatest(d, a, s), pc[d] = "collect",
           UNCHANGED <<scheduled, row>>,
           \A e \in Deliveries, b \in Agents : thread'[e][b] \in {thread[e][b], "none"}
    PROVE  EvidMove(d)
<1>0. a \in Agents /\ 1 \in Attempts
  BY StateNames DEF TypeOK
<1>1. \A b \in Agents, n \in Attempts : runs'[b][n] \in {runs[b][n], "unavailable"}
                                        /\ (runs'[b][n] # runs[b][n] => runs[b][n] = "absent")
  <2>1. CASE UNCHANGED runs
    BY <2>1
  <2>2. CASE Rows(a) = {} /\ WriteRun(a, 1, "unavailable")
    BY <1>0, <2>2, RunWritten, NothingWritten, StateNames DEF Written
  <2> QED
    BY <2>1, <2>2 DEF MarkLatest
<1>2. \A e \in Deliveries : pc'[e] = "mark" => mark'[e].agent \in waits'[e]
  <2>1. CASE UNCHANGED <<pc, mark>> /\ waits' = [waits EXCEPT ![d] = @ \ {a}]
    BY <2>1 DEF EvidInv, TypeOK
  <2>2. CASE /\ mark' = [mark EXCEPT ![d] = [agent |-> a, attempt |-> Last(a), as |-> s]]
             /\ Goto(d, "mark")
             /\ UNCHANGED <<runs, waits>>
    BY <2>2 DEF EvidInv, TypeOK, Goto
  <2> QED
    BY <2>1, <2>2 DEF MarkLatest
<1>3. \A e \in Deliveries, b \in Agents : row[e][b] \in Attempts
  BY DEF TypeOK
<1>4. \A e \in Deliveries, b \in Agents :
         thread'[e][b] = "running" => runs'[b][row'[e][b]] \notin Usable
  BY <1>1, <1>3 DEF EvidInv, Usable
<1> QED
  BY <1>1, <1>2, <1>4 DEF EvidMove, Live, Working, Usable

LEMMA OrchestrateEvid ==
    ASSUME TypeOK, DepsInv, EvidInv, NEW d \in Deliveries, Orchestrate(d)
    PROVE  EvidMove(d)
<1> USE DEF execution, deliveries, threads, bounds
<1>1. CASE Execute(d) \/ StopCancelled(d) \/ ReadOutcome(d) \/ FinalizeExecution(d) \/ RecordBatch(d)
  <2>1. UNCHANGED <<runs, row, thread, mark, waits>>
    BY <1>1 DEF Execute, StopCancelled, ReadOutcome, FinalizeExecution, RecordBatch
  <2>2. \A e \in Deliveries : scheduled[e] \subseteq scheduled'[e]
    BY <1>1 DEF Execute, StopCancelled, ReadOutcome, FinalizeExecution, RecordBatch, TypeOK
  <2>3. \A e \in Deliveries : pc'[e] = "mark" => pc[e] = "mark"
    <3>1. \E p \in {"partition", "over", "finalize"} : Goto(d, p)
      BY <1>1 DEF Execute, StopCancelled, ReadOutcome, FinalizeExecution, RecordBatch
    <3> QED
      BY <3>1 DEF Goto, TypeOK
  <2> QED
    BY <2>1, <2>2, <2>3, EvidQuiet
<1>2. CASE PartitionBatch(d)
  <2>1. /\ pc[d] = "partition" /\ UNCHANGED <<row, scheduled, mark>>
        /\ \A e \in Deliveries : /\ pc'[e] = IF e = d THEN "collect" ELSE pc[e]
                                 /\ e # d => waits'[e] = waits[e]
        /\ \A e \in Deliveries, a \in Agents :
              thread'[e][a] = IF e = d /\ a \in Open(d) \ Blocked(d) THEN "queued" ELSE thread[e][a]
    BY <1>2 DEF PartitionBatch, Goto, TypeOK
  <2>2. \A a \in Agents, n \in Attempts :
           runs'[a][n] = IF a \in Blocked(d) /\ Rows(a) = {} /\ n = 1
                         THEN "unavailable" ELSE runs[a][n]
    BY <1>2, StateNames DEF PartitionBatch, TypeOK
  <2>3. ASSUME NEW a \in Open(d) \ Blocked(d) PROVE Grounded(d, a)
    <3>1. a \in Agents /\ Requires[a] \subseteq scheduled[d] /\ Requires[a] \subseteq Agents
      BY <2>3, WorkflowAssumption DEF Open, Batch
    <3>2. CASE Requires[a] # {}
      <4>1. PICK b \in Requires[a] : Latest(b) \in Usable
        BY <2>3, <3>2 DEF Blocked, Usable
      <4>2. Rows(b) # {} /\ Last(b) \in Attempts /\ Latest(b) = runs[b][Last(b)]
        BY <3>1, <4>1, LastRow DEF Usable, Latest
      <4> QED
        BY <3>1, <4>1, <4>2 DEF Grounded
    <3> QED
      BY <3>2 DEF Grounded
  <2>4. \A a \in Agents, n \in Attempts : runs[a][n] \in Usable => runs'[a][n] = runs[a][n]
    BY <2>2, NothingWritten DEF Written, Usable
  <2>5. \A e \in Deliveries, a \in Agents : row[e][a] \in Attempts
    BY DEF TypeOK
  <2>6. \A e \in Deliveries, a \in Agents :
           thread'[e][a] = "running" => runs'[a][row'[e][a]] \notin Usable
    BY <2>1, <2>2, <2>5 DEF EvidInv, Usable
  <2>7. \A e \in Deliveries : pc'[e] = "mark" => mark'[e].agent \in waits'[e]
    BY <2>1 DEF EvidInv
  <2>8. \A a \in Agents, n \in Attempts : runs'[a][n] = "running" => runs[a][n] = "running"
    BY <2>2
  <2> QED
    BY <2>1, <2>3, <2>4, <2>6, <2>7, <2>8 DEF EvidMove, Active
<1>3. ASSUME NEW a \in Agents, CollectResult(d, a) PROVE EvidMove(d)
  BY <1>3, EvidQuiet DEF CollectResult, TypeOK
<1>4. ASSUME NEW a \in Agents, CollectError(d, a) PROVE EvidMove(d)
  BY <1>4, MarkLatestEvid DEF CollectError
<1>5. CASE MarkRun(d)
  <2>1. PICK a \in Agents, n \in Attempts, s \in {"failed", "transient"} :
             a = mark[d].agent /\ n = mark[d].attempt /\ s = mark[d].as
    BY <1>5 DEF MarkRun, TypeOK, Marks
  <2>2. pc[d] = "mark" /\ a \in waits[d]
    BY <1>5, <2>1 DEF MarkRun, EvidInv
  <2>3. \A b \in Agents, i \in Attempts : runs'[b][i] = IF b = a /\ i = n THEN s ELSE runs[b][i]
    BY <1>5, <2>1, RunWritten, StateNames DEF MarkRun, Results
  <2>4. /\ UNCHANGED <<thread, row, scheduled>>
        /\ \A e \in Deliveries : pc'[e] = "mark" =>
              pc[e] = "mark" /\ mark'[e] = mark[e] /\ waits'[e] = waits[e]
    BY <1>5 DEF MarkRun, Goto, TypeOK
  <2>5. \A e \in Deliveries, b \in Agents : row[e][b] \in Attempts
    BY DEF TypeOK
  <2>6. \A e \in Deliveries, b \in Agents :
           thread'[e][b] = "running" => runs'[b][row'[e][b]] \notin Usable
    BY <2>3, <2>4, <2>5 DEF EvidInv, Usable
  <2> QED
    BY <2>2, <2>3, <2>4, <2>6 DEF EvidMove, EvidInv
<1> QED
  BY <1>1, <1>2, <1>3, <1>4, <1>5 DEF Orchestrate

LEMMA FaultEvid ==
    ASSUME TypeOK, EvidInv, NEW d \in Deliveries, Fault(d)
    PROVE  EvidMove(d)
<1> USE DEF execution, deliveries, threads, bounds
<1>1. CASE OrchestratorFails(d)
  BY <1>1, EvidQuiet DEF OrchestratorFails, Goto, TypeOK
<1>2. CASE Crash(d)
  BY <1>2, EvidQuiet DEF Crash, Goto, TypeOK
<1>3. ASSUME NEW a \in Agents, TimeOut(d, a) PROVE EvidMove(d)
  <2>1. \A e \in Deliveries, b \in Agents : thread'[e][b] \in {thread[e][b], "none"}
    BY <1>3, ThreadStepped, StateNames DEF TimeOut
  <2> QED
    BY <1>3, <2>1, MarkLatestEvid DEF TimeOut
<1> QED
  BY <1>1, <1>2, <1>3 DEF Fault

LEMMA ThreadEvid ==
    ASSUME RowsInv, EvidInv, NEW d \in Deliveries, NEW a \in Agents, ThreadStep(d, a)
    PROVE  EvidMove(d)
<1> USE DEF execution, deliveries, threads, bounds
<1>0. /\ TypeOK /\ row[d][a] \in Attempts
      /\ UNCHANGED <<pc, waits, mark, scheduled>>
      /\ thread[d][a] \in Live
      /\ \A e \in Deliveries, b \in Agents :
            e # d \/ b # a => thread'[e][b] = thread[e][b] /\ row'[e][b] = row[e][b]
  <2>1. TypeOK /\ row[d][a] \in Attempts
    BY DEF RowsInv, TypeOK
  <2>2. \A e \in Deliveries, b \in Agents : e # d \/ b # a => row'[e][b] = row[e][b]
    BY <2>1 DEF ThreadStep, ReadRuns, InsertRun, FinishRun, ObserveCancel, TypeOK
  <2> QED
    BY <2>1, <2>2, ThreadStepOf DEF OthersStay
\* What remains: the rows that lose or get a usable result, and the row of the thread.
<1>1. SUFFICES /\ \A b \in Agents, n \in Attempts : runs[b][n] \in Usable => runs'[b][n] \in Usable
               /\ \A b \in Agents, n \in Attempts : runs[b][n] = "absent" /\ runs'[b][n] = "running"
                     => b = a /\ thread[d][a] = "insert"
               /\ \A e \in Deliveries, b \in Agents :
                     thread'[e][b] = "running" => runs'[b][row'[e][b]] \notin Usable
  BY <1>0, <1>1 DEF EvidMove, EvidInv
<1>2. \A e \in Deliveries, b \in Agents : row[e][b] \in Attempts
  BY <1>0 DEF TypeOK
<1>3. ASSUME UNCHANGED runs, thread'[d][a] # "running"
      PROVE  /\ \A b \in Agents, n \in Attempts : runs[b][n] \in Usable => runs'[b][n] \in Usable
             /\ \A b \in Agents, n \in Attempts : runs[b][n] = "absent" /\ runs'[b][n] = "running"
                   => b = a /\ thread[d][a] = "insert"
             /\ \A e \in Deliveries, b \in Agents :
                   thread'[e][b] = "running" => runs'[b][row'[e][b]] \notin Usable
  BY <1>0, <1>3 DEF EvidInv
\* The thread writes row n, which is missing or its own.
<1>4. ASSUME NEW n \in Attempts, NEW s \in RunStates, WriteRun(a, n, s), runs[a][n] \notin Usable,
             s \in Usable => WorksOn(d, a, n) /\ thread'[d][a] # "running",
             s = "running" => thread[d][a] = "insert",
             thread'[d][a] = "running" => n = row'[d][a] /\ s = "running"
      PROVE  /\ \A b \in Agents, i \in Attempts : runs[b][i] \in Usable => runs'[b][i] \in Usable
             /\ \A b \in Agents, i \in Attempts : runs[b][i] = "absent" /\ runs'[b][i] = "running"
                   => b = a /\ thread[d][a] = "insert"
             /\ \A e \in Deliveries, b \in Agents :
                   thread'[e][b] = "running" => runs'[b][row'[e][b]] \notin Usable
  <2>1. \A b \in Agents, i \in Attempts : runs'[b][i] = IF b = a /\ i = n THEN s ELSE runs[b][i]
    BY <1>0, <1>4, RunWritten
  <2>2. ASSUME NEW e \in Deliveries, NEW b \in Agents, thread'[e][b] = "running"
        PROVE  runs'[b][row'[e][b]] \notin Usable
    <3>1. CASE e = d /\ b = a
      BY <1>4, <2>1, <2>2, <3>1 DEF Usable
    <3>2. CASE e # d \/ b # a
      <4>1. thread[e][b] = "running" /\ row'[e][b] = row[e][b] /\ row[e][b] \in Attempts
        BY <1>0, <1>2, <2>2, <3>2
      <4>2. b = a /\ row[e][b] = n => s \notin Usable
        BY <1>4, <3>2, <4>1 DEF RowsInv, OneWriter, WorksOn
      <4> QED
        BY <2>1, <4>1, <4>2 DEF EvidInv
    <3> QED
      BY <3>1, <3>2
  <2> QED
    BY <1>4, <2>1, <2>2
<1>5. CASE ReadRuns(d, a)
  <2>1. thread'[d][a] \in {"done", "insert"}
    BY <1>0, <1>5, ThreadStepped, StateNames DEF ReadRuns
  <2>2. CASE UNCHANGED runs
    BY <1>3, <2>1, <2>2
  <2>3. CASE Rows(a) = {} /\ WriteRun(a, 1, "cancelled")
    <3>1. 1 \in Attempts /\ "cancelled" \in RunStates /\ runs[a][1] = "absent"
      BY <2>3, StateNames, NothingWritten DEF Written
    <3> QED
      BY <1>4, <2>1, <2>3, <3>1 DEF Usable
  <2> QED
    BY <1>5, <2>2, <2>3 DEF ReadRuns
<1>6. CASE InsertRun(d, a)
  <2>1. CASE UNCHANGED runs /\ SetThread(d, a, "error")
    <3>1. thread'[d][a] = "error"
      BY <1>0, <2>1, ThreadStepped, StateNames
    <3> QED
      BY <1>3, <2>1, <3>1
  <2>2. CASE /\ runs[a][row[d][a]] = "absent" /\ WriteRun(a, row[d][a], "running")
             /\ SetThread(d, a, "running")
    BY <1>0, <1>4, <1>6, <2>2, StateNames DEF InsertRun, Usable
  <2> QED
    BY <1>6, <2>1, <2>2 DEF InsertRun
<1>7. ASSUME NEW s \in (Results \cup {"cancelled"}), thread[d][a] = "running",
             WriteRun(a, row[d][a], s), NEW t \in {"again", "done"}, SetThread(d, a, t)
      PROVE  /\ \A b \in Agents, n \in Attempts : runs[b][n] \in Usable => runs'[b][n] \in Usable
             /\ \A b \in Agents, n \in Attempts : runs[b][n] = "absent" /\ runs'[b][n] = "running"
                   => b = a /\ thread[d][a] = "insert"
             /\ \A e \in Deliveries, b \in Agents :
                   thread'[e][b] = "running" => runs'[b][row'[e][b]] \notin Usable
  <2>1. thread'[d][a] # "running"
    BY <1>0, <1>7, ThreadStepped, StateNames
  <2>2. s \in RunStates /\ s # "running" /\ runs[a][row[d][a]] \notin Usable
    BY <1>7, StateNames DEF Results, EvidInv
  <2>3. WorksOn(d, a, row[d][a])
    BY <1>7 DEF WorksOn
  <2> QED
    BY <1>0, <1>4, <1>7, <2>1, <2>2, <2>3
<1>8. ASSUME NEW s \in Results, FinishRun(d, a, s)
      PROVE  /\ thread[d][a] = "running" /\ WriteRun(a, row[d][a], s)
             /\ \E t \in {"again", "done"} : SetThread(d, a, t)
  BY <1>8 DEF FinishRun
<1>9. CASE ObserveCancel(d, a)
  BY <1>7, <1>9 DEF ObserveCancel
<1> QED
  BY <1>5, <1>6, <1>7, <1>8, <1>9 DEF ThreadStep

LEMMA EvidInductive ==
    ASSUME RowsInv, DepsInv, EvidInv, Sequential, [Next]_vars
    PROVE  /\ EvidInv'
           /\ \A a \in Agents, n \in Attempts : runs[a][n] = "absent" /\ runs'[a][n] = "running"
                 => \E d \in Deliveries : thread[d][a] = "insert"
<1>1. ASSUME NEW d \in Deliveries, EvidMove(d)
      PROVE  /\ EvidInv'
             /\ \A a \in Agents, n \in Attempts : runs[a][n] = "absent" /\ runs'[a][n] = "running"
                   => \E e \in Deliveries : thread[e][a] = "insert"
  BY <1>1, EvidStep DEF EvidMove, RowsInv
<1>2. ASSUME UNCHANGED <<runs, deliveries, threads>>
      PROVE  /\ EvidInv'
             /\ \A a \in Agents, n \in Attempts : ~(runs[a][n] = "absent" /\ runs'[a][n] = "running")
  BY <1>2 DEF EvidInv, Grounded, deliveries, threads
<1>3. ASSUME NEW r \in Requests, RequestStep(r) PROVE UNCHANGED <<runs, deliveries, threads>>
  BY <1>3 DEF RequestStep, Fetch, CancelExecution, Reopen, Enqueue, execution
<1>4. CASE UNCHANGED vars
  BY <1>2, <1>4 DEF vars, execution
<1>5. TypeOK
  BY DEF RowsInv
<1> QED
  BY <1>1, <1>2, <1>3, <1>4, <1>5, OrchestrateEvid, FaultEvid, ThreadEvid DEF Next

LEMMA DepsAlways == Spec => [](RowsInv /\ FreshThread /\ DepsInv)
<1>1. Init => DepsInv
  BY DEF Init, DepsInv, Behind, Within, ThreadDeps, DoneHas, RowDeps, Has, Written
<1>2. RowsInv /\ FreshThread /\ DepsInv /\ [Next]_vars => DepsInv'
  BY DepsInductive
<1> QED
  BY <1>1, <1>2, RowsAlways, PTL DEF Spec

\* While orchestrators follow one another, a run starts only on a usable result of
\* an agent it requires, whatever times out, raises, crashes or is cancelled.
THEOREM EvidenceFirst == Spec /\ []Sequential => StartsOnEvidence
<1>1. Init => EvidInv
  BY DEF Init, EvidInv, Live, Working
<1>2. RowsInv /\ DepsInv /\ EvidInv /\ Sequential /\ [Next]_vars => EvidInv'
  BY EvidInductive
<1>3. RowsInv /\ DepsInv /\ EvidInv /\ Sequential /\ [Next]_vars =>
         [\A a \in Agents, n \in Attempts :
             runs[a][n] = "absent" /\ runs'[a][n] = "running" /\ Requires[a] # {}
                => \E b \in Requires[a], i \in Attempts :
                       runs[b][i] \in {"completed", "partial"}]_vars
  BY EvidInductive DEF EvidInv, Grounded, Live, Working, Usable
<1> QED
  BY <1>1, <1>2, <1>3, DepsAlways, PTL DEF Spec, StartsOnEvidence

-----------------------------------------------------------------------------
(* What a completed execution stands for.                                   *)

Quiet == timeouts = 0 /\ errors = 0 /\ crashes = 0
NoneCancelled == \A a \in Agents, n \in Attempts : runs[a][n] # "cancelled"
AllCompleted == \A a \in Agents : Latest(a) = "completed"

\* Nothing is at work once the execution completed, and no thread once its outcome
\* was read: the rows the outcome was read from are the rows it stands for.
WholeInv == Quiet =>
    /\ status = "completed" => /\ \A d \in Deliveries : ~Active(d)
                               /\ NoneCancelled => AllCompleted
    /\ \A d \in Deliveries : pc[d] = "finalize" =>
          /\ \A a \in Agents : thread[d][a] \notin Live
          /\ outcome[d] = "completed" /\ NoneCancelled => AllCompleted

\* The latest runs read after the last batch have all ended.
LEMMA OutcomeWhole ==
    ASSUME RowsInv, DepsInv, PoolInv, Sequential, Quiet, NEW d \in Deliveries,
           pc[d] = "partition", scheduled[d] = Agents, Outcome = "completed", NoneCancelled
    PROVE  AllCompleted
<1> SUFFICES ASSUME NEW a \in Agents PROVE Latest(a) = "completed"
  BY DEF AllCompleted
<1>0. TypeOK /\ PoolOf(d) /\ crashes = 0
  BY DEF RowsInv, PoolInv, Quiet
<1>1. Has(a)
  BY DEF DepsInv, Behind
<1>2. Rows(a) # {} /\ Last(a) \in Attempts /\ Latest(a) = runs[a][Last(a)] /\ Last(a) \in Rows(a)
  BY <1>0, <1>1, HasRows, LastRow DEF Latest
<1>3. Latest(a) # "absent" /\ Latest(a) # "cancelled"
  BY <1>2 DEF Rows, NoneCancelled
<1>4. Latest(a) # "running"
  <2> SUFFICES ASSUME runs[a][Last(a)] = "running" PROVE FALSE
    BY <1>2
  <2>1. PICK e \in Deliveries : WorksOn(e, a, Last(a))
    BY <1>0, <1>2 DEF RowsInv, RunningIsWorked
  <2>2. e = d
    BY <2>1 DEF Sequential, Active, WorksOn, Live, Working
  <2> QED
    BY <1>0, <2>1, <2>2 DEF PoolOf, WorksOn, Live, Working
<1>5. Latest(a) \in Results
  BY <1>0, <1>3, <1>4, LastRow DEF RunStates
<1>6. Latest(a) \in {Latest(b) : b \in Agents}
  OBVIOUS
<1> QED
  BY <1>5, <1>6 DEF Results, Outcome

\* A step of the active delivery or of one of its threads, that writes rows.
LEMMA WholeActive ==
    ASSUME WholeInv, Sequential, NEW d \in Deliveries, Active(d), status' = status,
           \A e \in Deliveries : e # d => pc'[e] = pc[e],
           Quiet' => Quiet /\ pc'[d] # "finalize"
    PROVE  WholeInv'
BY DEF WholeInv, Sequential, Active

\* A step that writes no row and starts nothing.
LEMMA WholeQuiet ==
    ASSUME WholeInv, Quiet' => Quiet, UNCHANGED <<runs, deliveries, threads>>,
           status' = "completed" => status = "completed"
    PROVE  WholeInv'
<1>1. /\ \A d \in Deliveries : Active(d)' <=> Active(d)
      /\ NoneCancelled' <=> NoneCancelled
      /\ AllCompleted' <=> AllCompleted
  BY DEF Active, NoneCancelled, AllCompleted, Latest, Last, Rows, deliveries, threads
<1> QED
  BY <1>1 DEF WholeInv, deliveries, threads

LEMMA OrchestrateWhole ==
    ASSUME RowsInv, DepsInv, PoolInv, WholeInv, Sequential, Quiet,
           NEW d \in Deliveries, Orchestrate(d)
    PROVE  WholeInv'
<1> USE DEF execution, deliveries, threads, bounds
<1>0. TypeOK /\ PoolOf(d) /\ OthersStay(d)
  BY DeliveryStep DEF RowsInv, PoolInv, Quiet
<1>1. ASSUME UNCHANGED runs
      PROVE  (NoneCancelled' <=> NoneCancelled) /\ (AllCompleted' <=> AllCompleted)
  BY <1>1 DEF NoneCancelled, AllCompleted, Latest, Last, Rows
<1>2. CASE Execute(d)
  <2>1. /\ pc'[d] \in {"partition", "over"} /\ UNCHANGED <<runs, thread, outcome>>
        /\ status' = "completed" => status = "completed" /\ pc'[d] = "over"
    BY <1>0, <1>2 DEF Execute, Enterable, Goto, TypeOK
  <2>2. \A a \in Agents : thread[d][a] \notin Live
    BY <1>0, <1>2 DEF Execute, PoolOf
  <2>3. \A e \in Deliveries : e # d => (Active(e)' <=> Active(e)) /\ pc'[e] = pc[e]
    BY <1>0 DEF OthersStay, Active
  <2>4. status' = "completed" => ~Active(d)'
    BY <2>1, <2>2 DEF Active
  <2>5. \A e \in Deliveries : pc'[e] = "finalize" => pc[e] = "finalize"
    BY <2>1, <2>3
  <2> QED
    BY <1>1, <2>1, <2>3, <2>4, <2>5 DEF WholeInv, Quiet
<1>3. CASE PartitionBatch(d) \/ MarkRun(d) \/ RecordBatch(d)
  <2>1. Active(d) /\ status' = status /\ pc'[d] # "finalize"
    BY <1>0, <1>3 DEF PartitionBatch, MarkRun, RecordBatch, Goto, TypeOK, Active
  <2> QED
    BY <1>0, <2>1, WholeActive DEF OthersStay
<1>4. ASSUME NEW a \in Agents, CollectResult(d, a) \/ CollectError(d, a) PROVE WholeInv'
  <2>1. Active(d) /\ status' = status /\ pc'[d] # "finalize"
    BY <1>0, <1>4 DEF CollectResult, CollectError, MarkLatest, Goto, TypeOK, Active
  <2> QED
    BY <1>0, <2>1, WholeActive DEF OthersStay
<1>5. CASE StopCancelled(d)
  <2>1. Active(d) /\ status' = status /\ pc'[d] # "finalize"
    BY <1>0, <1>5 DEF StopCancelled, Goto, TypeOK, Active
  <2> QED
    BY <1>0, <2>1, WholeActive DEF OthersStay
<1>6. CASE ReadOutcome(d)
  <2>1. /\ pc[d] = "partition" /\ scheduled[d] = Agents /\ UNCHANGED <<status, runs, thread>>
        /\ outcome'[d] = Outcome /\ Active(d)
        /\ \A e \in Deliveries : e # d => pc'[e] = pc[e] /\ ~Active(e)
    BY <1>0, <1>6 DEF ReadOutcome, TypeOK, OthersStay, Active, Sequential
  <2>2. \A a \in Agents : thread[d][a] \notin Live
    BY <1>0, <2>1 DEF PoolOf
  <2>3. outcome'[d] = "completed" /\ NoneCancelled => AllCompleted
    BY <2>1, OutcomeWhole
  <2>4. \A e \in Deliveries : pc'[e] = "finalize" => e = d
    BY <2>1 DEF Active
  <2>5. status # "completed"
    BY <2>1 DEF WholeInv
  <2> QED
    BY <1>1, <2>1, <2>2, <2>3, <2>4, <2>5 DEF WholeInv
<1>7. CASE FinalizeExecution(d)
  <2>1. /\ pc[d] = "finalize" /\ pc'[d] = "over" /\ status' = outcome[d] /\ UNCHANGED <<runs, thread>>
        /\ Active(d)
        /\ \A e \in Deliveries : e # d => pc'[e] = pc[e] /\ ~Active(e)
    BY <1>0, <1>7 DEF FinalizeExecution, Goto, TypeOK, OthersStay, Active, Sequential
  <2>2. \A e \in Deliveries : ~Active(e)' /\ pc'[e] # "finalize"
    BY <2>1 DEF WholeInv, Active
  <2> QED
    BY <1>1, <2>1, <2>2 DEF WholeInv
<1> QED
  BY <1>2, <1>3, <1>4, <1>5, <1>6, <1>7 DEF Orchestrate

LEMMA QuietBefore ==
    ASSUME TypeOK, [Next]_vars, Quiet'
    PROVE  Quiet /\ \A d \in Deliveries : ~Fault(d)
<1> USE WorkflowAssumption DEF execution, deliveries, threads, bounds
<1>1. timeouts \in Nat /\ errors \in Nat /\ crashes \in Nat
  BY DEF TypeOK
<1>2. \A d \in Deliveries : ~Fault(d)
  BY <1>1 DEF Fault, OrchestratorFails, Crash, TimeOut, Quiet
<1>3. ASSUME NEW d \in Deliveries, Orchestrate(d) PROVE UNCHANGED bounds
  BY <1>3 DEF Orchestrate, Execute, PartitionBatch, StopCancelled, CollectResult, CollectError,
              MarkRun, RecordBatch, ReadOutcome, FinalizeExecution
<1>4. ASSUME NEW d \in Deliveries, NEW a \in Agents, ThreadStep(d, a) PROVE UNCHANGED bounds
  BY <1>4 DEF ThreadStep, ReadRuns, InsertRun, FinishRun, ObserveCancel
<1>5. ASSUME NEW r \in Requests, RequestStep(r)
      PROVE  UNCHANGED <<timeouts, crashes>> /\ errors' \in {errors, errors + 1}
  BY <1>5 DEF RequestStep, Fetch, CancelExecution, Reopen, Enqueue
<1>6. CASE UNCHANGED vars
  BY <1>6 DEF vars, Quiet, Fault, OrchestratorFails, Crash, TimeOut
<1> QED
  BY <1>1, <1>2, <1>3, <1>4, <1>5, <1>6 DEF Next, Quiet

LEMMA WholeInductive ==
    ASSUME RowsInv, DepsInv, PoolInv, WholeInv, Sequential, [Next]_vars
    PROVE  WholeInv'
<1>0. TypeOK
  BY DEF RowsInv
<1>1. CASE ~Quiet'
  BY <1>1 DEF WholeInv
<1>2. CASE Quiet'
  <2>0. Quiet /\ \A d \in Deliveries : ~Fault(d)
    BY <1>0, <1>2, QuietBefore
  <2>1. ASSUME NEW d \in Deliveries, Orchestrate(d) PROVE WholeInv'
    BY <2>0, <2>1, OrchestrateWhole
  <2>2. ASSUME NEW d \in Deliveries, NEW a \in Agents, ThreadStep(d, a) PROVE WholeInv'
    <3>1. thread[d][a] \in Live /\ pc' = pc /\ status' = status
      BY <1>0, <2>2, ThreadStepOf DEF deliveries, ThreadStep, ReadRuns, InsertRun, FinishRun, ObserveCancel
    <3>2. Active(d) /\ pc[d] # "finalize"
      BY <2>0, <3>1 DEF Active, WholeInv
    <3> QED
      BY <2>0, <3>1, <3>2, WholeActive
  <2>3. ASSUME NEW r \in Requests, RequestStep(r) PROVE WholeInv'
    <3>1. /\ UNCHANGED <<runs, deliveries, threads>>
          /\ status' \in {status, "cancelled", "pending", "failed"}
      BY <2>3 DEF RequestStep, Fetch, CancelExecution, Reopen, Enqueue, execution
    <3> QED
      BY <2>0, <3>1, WholeQuiet
  <2>4. CASE UNCHANGED vars
    BY <2>0, <2>4, WholeQuiet DEF vars, execution
  <2> QED
    BY <2>0, <2>1, <2>2, <2>3, <2>4 DEF Next
<1> QED
  BY <1>1, <1>2

\* While orchestrators follow one another and nothing goes wrong, an execution that
\* completed without a cancelled run has every agent completed.
THEOREM CompletionIsWhole == Spec /\ []Sequential => []CompletedIsWhole
<1>1. Init => WholeInv
  BY DEF Init, WholeInv
<1>2. RowsInv /\ DepsInv /\ PoolInv /\ WholeInv /\ Sequential /\ [Next]_vars => WholeInv'
  BY WholeInductive
<1>3. WholeInv => CompletedIsWhole
  BY DEF WholeInv, Quiet, NoneCancelled, AllCompleted, CompletedIsWhole
<1> QED
  BY <1>1, <1>2, <1>3, DepsAlways, PoolAlways, PTL DEF Spec
=========================
