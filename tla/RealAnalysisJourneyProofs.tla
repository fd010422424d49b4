---------------------- MODULE RealAnalysisJourneyProofs ----------------------
(***************************************************************************)
(* Proofs about RealAnalysisJourney, for any number of workers, requests,   *)
(* attempts, redeliveries and crashes: types, the exclusivity of stage      *)
(* ownership, and the first attempt: its chain is strict, its journey       *)
(* whole, its end final and its recorded stages kept.                       *)
(***************************************************************************)
EXTENDS RealAnalysisJourney, FiniteSetTheorems, TLAPS

Journeys == {"unset", "queued", "running", "failed", "ended"}

-----------------------------------------------------------------------------
(* The documents the handlers build.                                       *)

LEMMA InitialTypes ==
    /\ EmptyOutput \in Output
    /\ NoTaskIds \in TaskIds
    /\ NoJob \in [task : Tasks, gen : Attempts, epoch : Attempts]
    /\ NoCopy \in Copy
    /\ NoRequestCopy \in RequestCopy
    /\ "pending" \in Statuses
    /\ 1 \in Attempts
<1>1. 1 \in Attempts /\ 0 \in 0..MaxAttempt /\ "pending" \in Statuses
  BY JourneyAssumption DEF Attempts, Statuses, Active
<1>2. EmptyOutput \in Output
  BY <1>1 DEF EmptyOutput, Output
<1>3. NoTaskIds \in TaskIds
  BY <1>1 DEF NoTaskIds, TaskIds
<1>4. NoJob \in [task : Tasks, gen : Attempts, epoch : Attempts]
  BY <1>1 DEF NoJob, Tasks
<1>5. NoCopy \in Copy
  BY <1>1, <1>2 DEF NoCopy, Copy
<1>6. NoRequestCopy \in RequestCopy
  BY <1>1, <1>2, <1>3 DEF NoRequestCopy, RequestCopy
<1> QED
  BY <1>1, <1>2, <1>3, <1>4, <1>5, <1>6

LEMMA OutputUpdates ==
    ASSUME NEW o \in Output
    PROVE  /\ \A j \in Journeys : [o EXCEPT !.journey = j] \in Output
           /\ \A s \in Stages, a \in Attempts : [o EXCEPT !.owner[s] = a] \in Output
           /\ \A b \in BOOLEAN : [o EXCEPT !.ready = b] \in Output
           /\ \A D \in SUBSET Recorded, b \in BOOLEAN :
                 [o EXCEPT !.done = D, !.primary = b] \in Output
           /\ o.owner \in [Stages -> 0..MaxAttempt]
           /\ o.done \in SUBSET Recorded
           /\ o.primary \in BOOLEAN
           /\ o.ready \in BOOLEAN
<1>1. /\ o.owner \in [Stages -> 0..MaxAttempt]
      /\ o.done \in SUBSET Recorded
      /\ o.primary \in BOOLEAN
      /\ o.ready \in BOOLEAN
  BY DEF Output
<1>2. \A j \in Journeys : [o EXCEPT !.journey = j] \in Output
  BY DEF Output, Journeys
<1>3. \A s \in Stages, a \in Attempts : [o EXCEPT !.owner[s] = a] \in Output
  <2> SUFFICES ASSUME NEW s \in Stages, NEW a \in Attempts
               PROVE  [o EXCEPT !.owner[s] = a] \in Output
    OBVIOUS
  <2> DEFINE f == [o.owner EXCEPT ![s] = a]
  <2>1. f \in [Stages -> 0..MaxAttempt]
    BY <1>1, JourneyAssumption DEF Attempts
  <2> HIDE DEF f
  <2>2. [o EXCEPT !.owner = f] \in Output
    BY <2>1 DEF Output
  <2> QED
    BY <2>2 DEF f
<1>4. \A b \in BOOLEAN : [o EXCEPT !.ready = b] \in Output
  BY DEF Output
<1>5. \A D \in SUBSET Recorded, b \in BOOLEAN :
         [o EXCEPT !.done = D, !.primary = b] \in Output
  BY DEF Output
<1> QED
  BY <1>1, <1>2, <1>3, <1>4, <1>5

LEMMA OwnerType ==
    ASSUME NEW o \in Output, NEW s \in Stages
    PROVE  o.owner[s] \in Nat
<1>1. o.owner \in [Stages -> 0..MaxAttempt]
  BY DEF Output
<1> QED
  BY <1>1, JourneyAssumption

LEMMA TypeInit == Init => TypeOK
<1> SUFFICES ASSUME Init PROVE TypeOK
  OBVIOUS
<1>1. status \in Statuses /\ attempt \in Attempts /\ out \in Output /\ ids \in TaskIds
  BY InitialTypes DEF Init
<1>2. pc \in [Workers -> Phases] /\ rpc \in [Requests -> RPhases]
  BY DEF Init, Phases, RPhases
<1>3. /\ job \in [Workers -> [task : Tasks, gen : Attempts, epoch : Attempts]]
      /\ copy \in [Workers -> Copy]
      /\ rcopy \in [Requests -> RequestCopy]
  BY InitialTypes DEF Init
<1>4. queue \in [Messages -> Nat]
  BY DEF Init
<1>5. /\ redeliveries \in 0..MaxRedeliveries
      /\ crashes \in 0..MaxCrashes
  BY JourneyAssumption DEF Init
<1> QED
  BY <1>1, <1>2, <1>3, <1>4, <1>5 DEF Init, TypeOK
-----------------------------------------------------------------------------
(* Each step keeps the types.                                              *)

LEMMA CopyTypes ==
    ASSUME TypeOK, NEW w \in Workers
    PROVE  /\ copy[w] \in Copy /\ copy[w].out \in Output /\ copy[w].status \in Statuses
           /\ RowCopy \in Copy
           /\ job[w].task \in Tasks /\ job[w].gen \in Attempts /\ job[w].epoch \in Attempts
           /\ Message(w) \in Messages
BY DEF TypeOK, Copy, RowCopy, Message, Messages

LEMMA RequestCopyTypes ==
    ASSUME TypeOK, NEW r \in Requests
    PROVE  /\ rcopy[r].out \in Output /\ rcopy[r].ids \in TaskIds
           /\ rcopy[r].attempt \in Attempts
BY DEF TypeOK, RequestCopy

LEMMA PersistType ==
    ASSUME TypeOK, NEW o \in Output, Persist(o)
    PROVE  out' \in Output /\ lost' \subseteq Stages \X Attempts
BY DEF TypeOK, Persist, Erased

LEMMA UpdateType ==
    ASSUME TypeOK, NEW w \in Workers, NEW o \in Output, UpdateJourneyStage(w, o)
    PROVE  /\ status' \in Statuses /\ silent' \in BOOLEAN
           /\ out' \in Output /\ lost' \subseteq Stages \X Attempts
<1>1. CASE copy[w].status \in Terminal
  BY <1>1 DEF UpdateJourneyStage, TypeOK
<1>2. CASE copy[w].status \notin Terminal
  <2>1. [o EXCEPT !.journey = "running"] \in Output
    BY OutputUpdates DEF Journeys
  <2>2. Persist([o EXCEPT !.journey = "running"])
    BY <1>2 DEF UpdateJourneyStage
  <2>3. status' \in Statuses /\ silent' \in BOOLEAN
    BY <1>2 DEF UpdateJourneyStage, TypeOK, Statuses, Active
  <2> QED
    BY <2>1, <2>2, <2>3, PersistType
<1> QED
  BY <1>1, <1>2

LEMMA GotoType ==
    ASSUME TypeOK, NEW w \in Workers, NEW p \in Phases, Goto(w, p)
    PROVE  pc' \in [Workers -> Phases]
BY DEF TypeOK, Goto

LEMMA RestType ==
    ASSUME TypeOK, NEW w \in Workers, Rest(w)
    PROVE  /\ pc' \in [Workers -> Phases]
           /\ job' \in [Workers -> [task : Tasks, gen : Attempts, epoch : Attempts]]
BY InitialTypes DEF TypeOK, Rest, Goto, Phases

LEMMA DropCopyType ==
    ASSUME TypeOK, NEW w \in Workers, DropCopy(w)
    PROVE  copy' \in [Workers -> Copy]
BY InitialTypes DEF TypeOK, DropCopy

LEMMA QueueType ==
    ASSUME TypeOK, NEW m \in Messages, Send(m) \/ (Take(m) /\ queue[m] > 0)
    PROVE  queue' \in [Messages -> Nat]
BY DEF TypeOK, Send, Take

LEMMA ReadRowType ==
    ASSUME TypeOK, NEW w \in Workers, NEW p \in Phases, ReadRow(w, p), agentRuns' \in BOOLEAN
    PROVE  TypeOK'
<1>1. pc' \in [Workers -> Phases]
  BY GotoType DEF ReadRow
<1>2. copy' \in [Workers -> Copy]
  BY CopyTypes DEF ReadRow, TypeOK
<1> QED
  BY <1>1, <1>2 DEF ReadRow, TypeOK, broker, requests, faults, history

LEMMA WorkerStepType ==
    ASSUME TypeOK, NEW w \in Workers, WorkerStep(w)
    PROVE  TypeOK'
<1> USE DEF row, broker, workers, requests, faults, history
<1>1. ASSUME NEW a \in Attempts, BeginJourney(w, a) PROVE TypeOK'
  <2>1. <<"journey", a>> \in Messages
    BY DEF Messages, Tasks
  <2>2. queue' \in [Messages -> Nat]
    BY <1>1, <2>1, QueueType DEF BeginJourney
  <2>3. CASE Startable
    <3>1. pc' \in [Workers -> Phases]
      BY <1>1, <2>3, GotoType DEF BeginJourney, Phases
    <3>2. job' \in [Workers -> [task : Tasks, gen : Attempts, epoch : Attempts]]
      BY <1>1, <2>3 DEF BeginJourney, TypeOK, Tasks
    <3>3. ids' \in TaskIds
      BY <1>1, <2>3 DEF BeginJourney, TypeOK, TaskIds, Attempts
    <3>4. out' \in Output
      <4> DEFINE D == IF attempt > 1 THEN out.done \ {"browser_compatibility"} ELSE out.done
                 b == IF attempt > 1 THEN FALSE ELSE out.ready
      <4>1. D \in SUBSET Recorded /\ b \in BOOLEAN /\ out \in Output
        BY OutputUpdates DEF TypeOK
      <4>2. out' = [out EXCEPT !.journey = "running", !.done = D, !.ready = b]
        BY <1>1, <2>3 DEF BeginJourney
      <4> HIDE DEF D, b
      <4> QED
        BY <4>1, <4>2 DEF Output
    <3>5. status' \in Statuses /\ silent' \in BOOLEAN
      BY <1>1, <2>3 DEF BeginJourney, Statuses, Active
    <3> QED
      BY <1>1, <2>2, <3>1, <3>2, <3>3, <3>4, <3>5 DEF BeginJourney, TypeOK
  <2>4. CASE ~Startable
    BY <1>1, <2>2, <2>4 DEF BeginJourney, TypeOK
  <2> QED
    BY <2>3, <2>4
<1>2. CASE PublishChain(w)
  <2>1. <<Successor["journey"], job[w].epoch>> \in Messages
    BY CopyTypes DEF Messages, Tasks, Successor, Stages
  <2> QED
    BY <1>2, <2>1, QueueType, RestType DEF PublishChain, TypeOK
<1>3. ASSUME NEW s \in Stages, NEW a \in Attempts, ClaimStage(w, s, a) PROVE TypeOK'
  <2>1. <<s, a>> \in Messages
    BY DEF Messages, Tasks
  <2>2. queue' \in [Messages -> Nat]
    BY <1>3, <2>1, QueueType DEF ClaimStage
  <2>3. pc' \in [Workers -> Phases]
    BY <1>3, GotoType DEF ClaimStage, Ignore, Phases, Owning, TypeOK
  <2>4. job' \in [Workers -> [task : Tasks, gen : Attempts, epoch : Attempts]]
    BY <1>3 DEF ClaimStage, Ignore, TypeOK, Tasks
  <2>5. out' \in Output
    <3>1. [out EXCEPT !.owner[s] = attempt] \in Output
      BY OutputUpdates DEF TypeOK
    <3>2. out' = out \/ out' = [out EXCEPT !.owner[s] = attempt]
      BY <1>3 DEF ClaimStage
    <3> QED
      BY <3>1, <3>2 DEF TypeOK
  <2>6. claimed' \subseteq Stages \X Attempts
    BY <1>3 DEF ClaimStage, TypeOK
  <2> QED
    BY <1>3, <2>2, <2>3, <2>4, <2>5, <2>6 DEF ClaimStage, TypeOK
<1>4. CASE ReadAtBegin(w)
  BY <1>4, ReadRowType DEF ReadAtBegin, Phases, Owning, TypeOK
<1>5. CASE BeginStage(w)
  <2>1. [copy[w].out EXCEPT !.ready = @ \/ job[w].task = "multi_agent_analysis"] \in Output
    <3>1. (copy[w].out.ready \/ job[w].task = "multi_agent_analysis") \in BOOLEAN
      OBVIOUS
    <3> QED
      BY <3>1, CopyTypes, OutputUpdates
  <2>2. /\ status' \in Statuses /\ silent' \in BOOLEAN
        /\ out' \in Output /\ lost' \subseteq Stages \X Attempts
    BY <1>5, <2>1, UpdateType DEF BeginStage
  <2>3. pc' \in [Workers -> Phases]
    BY <1>5, GotoType DEF BeginStage, Phases, Owning
  <2> QED
    BY <1>5, <2>2, <2>3, DropCopyType DEF BeginStage, WriteFrame, TypeOK
<1>6. CASE SkipRetainedPrimary(w)
  BY <1>6, ReadRowType DEF SkipRetainedPrimary, Phases, Owning, TypeOK
<1>7. CASE StageWork(w)
  BY <1>7, ReadRowType DEF StageWork, Phases, Owning, TypeOK
<1>8. CASE ObserveBrowser(w)
  BY <1>8, ReadRowType DEF ObserveBrowser, Phases, Owning, TypeOK
<1>9. CASE ReportProgress(w)
  <2>1. /\ status' \in Statuses /\ silent' \in BOOLEAN
        /\ out' \in Output /\ lost' \subseteq Stages \X Attempts
    BY <1>9, CopyTypes, UpdateType DEF ReportProgress
  <2>2. pc' \in [Workers -> Phases]
    BY <1>9, GotoType DEF ReportProgress, Phases, Owning
  <2> QED
    BY <1>9, <2>1, <2>2, DropCopyType DEF ReportProgress, WriteFrame, TypeOK
<1>10. CASE FinishStage(w)
  <2>1. [copy[w].out EXCEPT !.done = WithCompleted(@, job[w].task),
                            !.primary = @ \/ job[w].task = "primary_page_analysis"] \in Output
    <3>1. /\ WithCompleted(copy[w].out.done, job[w].task) \in SUBSET Recorded
          /\ (copy[w].out.primary \/ job[w].task = "primary_page_analysis") \in BOOLEAN
      BY CopyTypes, OutputUpdates DEF WithCompleted
    <3> QED
      BY <3>1, CopyTypes, OutputUpdates
  <2>2. /\ status' \in Statuses /\ silent' \in BOOLEAN
        /\ out' \in Output /\ lost' \subseteq Stages \X Attempts
    BY <1>10, <2>1, UpdateType DEF FinishStage
  <2>3. pc' \in [Workers -> Phases]
    BY <1>10, GotoType DEF FinishStage, Phases
  <2> QED
    BY <1>10, <2>2, <2>3, DropCopyType DEF FinishStage, WriteFrame, TypeOK
<1>11. CASE MarkStageFailed(w)
  <2>1. [copy[w].out EXCEPT !.journey = "failed"] \in Output
    BY CopyTypes, OutputUpdates DEF Journeys
  <2>2. out' \in Output /\ lost' \subseteq Stages \X Attempts
    BY <1>11, <2>1, PersistType DEF MarkStageFailed, TypeOK
  <2>3. status' \in Statuses /\ silent' \in BOOLEAN
    BY <1>11 DEF MarkStageFailed, TypeOK, Statuses, Terminal
  <2> QED
    BY <1>11, <2>2, <2>3, RestType, DropCopyType DEF MarkStageFailed, WriteFrame, TypeOK
<1>12. CASE ForwardChain(w)
  <2>1. Successor[job[w].task] = "none" \/ <<Successor[job[w].task], job[w].gen>> \in Messages
    BY CopyTypes DEF Messages, Tasks, Successor, Stages
  <2>2. queue' \in [Messages -> Nat]
    BY <1>12, <2>1, QueueType DEF ForwardChain, TypeOK
  <2> QED
    BY <1>12, <2>2, RestType DEF ForwardChain, TypeOK
<1>13. CASE ExecuteWorkflow(w)
  <2>1. pc' \in [Workers -> Phases]
    BY <1>13, GotoType DEF ExecuteWorkflow, Phases, Owning
  <2> QED
    BY <1>13, <2>1 DEF ExecuteWorkflow, TypeOK, Statuses, Active
<1>14. CASE RunAgents(w)
  <2>1. CASE Goto(w, "forward") /\ UNCHANGED <<row, broker, job, copy, requests, faults, history>>
    <3>1. pc' \in [Workers -> Phases]
      BY <2>1, GotoType DEF Phases
    <3> QED
      BY <2>1, <3>1 DEF TypeOK
  <2>2. CASE agentRuns' \in BOOLEAN /\ \E p \in Phases : ReadRow(w, p)
    BY <2>2, ReadRowType
  <2> QED
    BY <1>14, <2>1, <2>2 DEF RunAgents, Phases, Owning, TypeOK
<1>15. CASE FinalizeExecution(w)
  <2>1. [copy[w].out EXCEPT !.journey = "ended"] \in Output
    BY CopyTypes, OutputUpdates DEF Journeys
  <2>2. out' \in Output /\ lost' \subseteq Stages \X Attempts
    BY <1>15, <2>1, PersistType DEF FinalizeExecution, TypeOK
  <2>3. status' \in Statuses /\ silent' \in BOOLEAN
    BY <1>15 DEF FinalizeExecution, TypeOK, Statuses, Terminal
  <2>4. pc' \in [Workers -> Phases]
    BY <1>15, GotoType DEF FinalizeExecution, Phases
  <2> QED
    BY <1>15, <2>2, <2>3, <2>4, DropCopyType DEF FinalizeExecution, WriteFrame, TypeOK
<1>16. CASE StoreArtifact(w)
  <2>1. out' \in Output /\ lost' \subseteq Stages \X Attempts
    BY <1>16, CopyTypes, PersistType DEF StoreArtifact, TypeOK
  <2>2. pc' \in [Workers -> Phases]
    BY <1>16, GotoType DEF StoreArtifact, Phases, Owning
  <2> QED
    BY <1>16, <2>1, <2>2, DropCopyType DEF StoreArtifact, WriteFrame, TypeOK
<1> QED
  BY <1>1, <1>2, <1>3, <1>4, <1>5, <1>6, <1>7, <1>8, <1>9, <1>10, <1>11, <1>12, <1>13,
     <1>14, <1>15, <1>16 DEF WorkerStep

LEMMA RequestStepType ==
    ASSUME TypeOK, NEW r \in Requests, RequestStep(r)
    PROVE  TypeOK'
<1> USE DEF row, broker, workers, requests, faults, history
<1>1. ASSUME RGoto(r, "cancel") \/ RGoto(r, "resume") \/ RGoto(r, "enqueue")
             \/ RGoto(r, "dispatch") \/ Close(r)
      PROVE  rpc' \in [Requests -> RPhases]
  BY <1>1 DEF RGoto, Close, RPhases, TypeOK
<1>2. ASSUME Close(r) PROVE rcopy' \in [Requests -> RequestCopy]
  BY <1>2, InitialTypes DEF Close, TypeOK
<1>3. ASSUME NEW st \in Statuses, NEW a \in Attempts, Fetch(r, st, a)
      PROVE  rcopy' \in [Requests -> RequestCopy]
  BY <1>3 DEF Fetch, TypeOK, RequestCopy
<1>4. CASE FetchExecution(r)
  BY <1>4, <1>1, <1>3 DEF FetchExecution, TypeOK
<1>5. CASE CancelExecution(r)
  <2>1. status' \in Statuses /\ revoked' \subseteq Messages
    BY <1>5 DEF CancelExecution, TypeOK, Statuses, Terminal
  <2> QED
    BY <1>5, <2>1, <1>1, <1>2 DEF CancelExecution, TypeOK
<1>6. CASE MarkStalled(r)
  <2>1. "failed" \in Statuses
    BY DEF Statuses, Terminal
  <2> QED
    BY <1>6, <2>1, <1>3 DEF MarkStalled, TypeOK
<1>7. CASE PrepareResume(r)
  <2>1. CASE Close(r) /\ UNCHANGED <<status, attempt>>
    BY <1>7, <2>1, <1>1, <1>2 DEF PrepareResume, TypeOK
  <2>2. CASE rcopy[r].attempt < MaxAttempt /\ Fetch(r, "pending", rcopy[r].attempt + 1)
    <3>1. rcopy[r].attempt + 1 \in Attempts
      BY <2>2, RequestCopyTypes, JourneyAssumption DEF Attempts
    <3>2. "pending" \in Statuses
      BY InitialTypes
    <3>3. rcopy' \in [Requests -> RequestCopy]
      BY <2>2, <3>1, <3>2, <1>3
    <3> QED
      BY <1>7, <2>2, <3>1, <3>2, <3>3, <1>1, <1>2 DEF PrepareResume, TypeOK
  <2> QED
    BY <1>7, <2>1, <2>2 DEF PrepareResume
<1>8. CASE EnqueueJourney(r)
  <2>1. <<"journey", rcopy[r].attempt>> \in Messages
    BY RequestCopyTypes DEF Messages, Tasks
  <2> QED
    BY <1>8, <2>1, <1>1, QueueType DEF EnqueueJourney, TypeOK
<1>9. CASE RecordDispatch(r)
  <2>1. [rcopy[r].out EXCEPT !.journey = "queued"] \in Output
    BY RequestCopyTypes, OutputUpdates DEF Journeys
  <2>2. out' \in Output /\ lost' \subseteq Stages \X Attempts
    BY <1>9, <2>1, PersistType DEF RecordDispatch
  <2>3. ids' \in TaskIds
    BY <1>9, RequestCopyTypes DEF RecordDispatch, TaskIds, Attempts
  <2> QED
    BY <1>9, <2>2, <2>3, <1>1, <1>2 DEF RecordDispatch, TypeOK
<1> QED
  BY <1>4, <1>5, <1>6, <1>7, <1>8, <1>9 DEF RequestStep

LEMMA FaultType ==
    ASSUME TypeOK, Fault
    PROVE  TypeOK'
<1> USE DEF row, broker, workers, requests, faults, history
<1>1. ASSUME crashes < MaxCrashes, crashes' = crashes + 1 PROVE crashes' \in 0..MaxCrashes
  BY <1>1, JourneyAssumption DEF TypeOK
<1>2. ASSUME NEW r \in Requests, Close(r)
      PROVE  rpc' \in [Requests -> RPhases] /\ rcopy' \in [Requests -> RequestCopy]
  BY <1>2, InitialTypes DEF RGoto, Close, RPhases, TypeOK
<1>3. ASSUME NEW m \in Messages, DiscardRevoked(m) PROVE TypeOK'
  BY <1>3, QueueType DEF DiscardRevoked, TypeOK
<1>4. CASE FallSilent
  BY <1>4 DEF FallSilent, TypeOK
<1>5. ASSUME NEW w \in Workers, Redeliver(w) PROVE TypeOK'
  <2>1. redeliveries' \in 0..MaxRedeliveries
    BY <1>5, JourneyAssumption DEF Redeliver, TypeOK
  <2> QED
    BY <1>5, <2>1, CopyTypes, QueueType DEF Redeliver, TypeOK
<1>6. ASSUME NEW w \in Workers, WorkerCrash(w) PROVE TypeOK'
  <2>1. queue' \in [Messages -> Nat]
    BY <1>6, CopyTypes, QueueType DEF WorkerCrash, TypeOK
  <2> QED
    BY <1>6, <2>1, <1>1, RestType, DropCopyType DEF WorkerCrash, TypeOK
<1>7. ASSUME NEW r \in Requests, EnqueueFails(r) PROVE TypeOK'
  <2>1. status' \in Statuses
    BY <1>7 DEF EnqueueFails, Statuses, Terminal
  <2> QED
    BY <1>7, <2>1, <1>1, <1>2 DEF EnqueueFails, TypeOK
<1>8. ASSUME NEW r \in Requests, RequestCrash(r) PROVE TypeOK'
  BY <1>8, <1>1, <1>2 DEF RequestCrash, TypeOK
<1> QED
  BY <1>3, <1>4, <1>5, <1>6, <1>7, <1>8 DEF Fault

LEMMA TypeInductive == TypeOK /\ [Next]_vars => TypeOK'
<1> SUFFICES ASSUME TypeOK, [Next]_vars PROVE TypeOK'
  OBVIOUS
<1>1. CASE UNCHANGED vars
  BY <1>1 DEF vars, row, broker, workers, requests, faults, history, TypeOK
<1>2. ASSUME NEW w \in Workers, WorkerStep(w) PROVE TypeOK'
  BY <1>2, WorkerStepType
<1>3. ASSUME NEW r \in Requests, RequestStep(r) PROVE TypeOK'
  BY <1>3, RequestStepType
<1>4. CASE Fault
  BY <1>4, FaultType
<1> QED
  BY <1>1, <1>2, <1>3, <1>4 DEF Next

\* Every variable keeps its type: claims and copies of the row name stages and
\* attempts that exist, and no message is taken that was not sent.
THEOREM TypeCorrect == Spec => []TypeOK
BY TypeInit, TypeInductive, PTL DEF Spec

-----------------------------------------------------------------------------
(* Ownership.  ExclusiveStage is not inductive: a claim is refused because *)
(* the row still records the claim of the delivery that is acting, so the   *)
(* invariant relates the deliveries, the claims made and the row.           *)

\* Whoever acts for a stage has claimed it.
ActingClaimed == \A w \in Workers : Delivering(w) => Claim(w) \in claimed

\* A claim that no older document erased is recorded in the row, for its
\* attempt or a later one.
ClaimsHeld == \A c \in claimed \ lost : out.owner[c[1]] >= c[2]

OwnershipInv == TypeOK /\ ActingClaimed /\ ClaimsHeld /\ ExclusiveStage

\* What every step but a new claim does: no delivery starts to act, and every
\* claim that the row still records was recorded before.
KeepsClaims ==
    /\ \A v \in Workers : Delivering(v)' => Delivering(v) /\ Claim(v)' = Claim(v)
    /\ claimed' = claimed
    /\ lost \subseteq lost'
    /\ \A c \in claimed \ lost' : out.owner[c[1]] >= c[2] => out'.owner[c[1]] >= c[2]

LEMMA KeepsOwnership ==
    ASSUME OwnershipInv, TypeOK', KeepsClaims
    PROVE  OwnershipInv'
<1>1. ActingClaimed'
  BY DEF OwnershipInv, ActingClaimed, KeepsClaims
<1>2. ClaimsHeld'
  BY DEF OwnershipInv, ClaimsHeld, KeepsClaims
<1>3. ExclusiveStage'
  BY DEF OwnershipInv, ExclusiveStage, KeepsClaims
<1> QED
  BY <1>1, <1>2, <1>3 DEF OwnershipInv

\* A write erases a claim or keeps it.
LEMMA PersistKeeps ==
    ASSUME TypeOK, NEW o \in Output, Persist(o)
    PROVE  /\ lost \subseteq lost'
           /\ \A c \in claimed \ lost' : out.owner[c[1]] >= c[2] => out'.owner[c[1]] >= c[2]
<1>1. lost \subseteq lost'
  BY DEF Persist
<1>2. ASSUME NEW c \in claimed \ lost', out.owner[c[1]] >= c[2] PROVE out'.owner[c[1]] >= c[2]
  <2>1. c \in Stages \X Attempts /\ c[1] \in Stages /\ c[2] \in Int
    BY <1>2 DEF TypeOK, Attempts
  <2>2. out.owner[c[1]] \in Int /\ o.owner[c[1]] \in Int
    BY <2>1, OwnerType DEF TypeOK
  <2>3. ~(o.owner[c[1]] < c[2] /\ c[2] <= out.owner[c[1]])
    BY <1>2, <2>1 DEF Persist, Erased
  <2> QED
    BY <1>2, <2>1, <2>2, <2>3 DEF Persist
<1> QED
  BY <1>1, <1>2

LEMMA UpdateKeeps ==
    ASSUME TypeOK, NEW w \in Workers, NEW o \in Output, UpdateJourneyStage(w, o)
    PROVE  /\ lost \subseteq lost'
           /\ \A c \in claimed \ lost' : out.owner[c[1]] >= c[2] => out'.owner[c[1]] >= c[2]
<1>1. [o EXCEPT !.journey = "running"] \in Output
  BY OutputUpdates DEF Journeys
<1> QED
  BY <1>1, PersistKeeps DEF UpdateJourneyStage

\* A worker that moves on from an owning phase, or out of all of them.
LEMMA MovesKeep ==
    ASSUME TypeOK, NEW w \in Workers, NEW p \in Phases,
           \/ /\ Goto(w, p)
              /\ p \in Owning => Delivering(w) /\ job' = job
              /\ \A v \in Workers \ {w} : job'[v] = job[v]
           \/ Rest(w)
    PROVE  \A v \in Workers : Delivering(v)' => Delivering(v) /\ Claim(v)' = Claim(v)
BY DEF TypeOK, Goto, Rest, Delivering, Claim, Owning

LEMMA ReadKeeps ==
    ASSUME TypeOK, NEW w \in Workers, NEW p \in Phases, ReadRow(w, p), Delivering(w)
    PROVE  KeepsClaims
BY MovesKeep DEF ReadRow, KeepsClaims, history

\* The step in which a delivery becomes the owner of stage s.
NewClaim(w, s) ==
    /\ ~Owned(s)
    /\ out' = [out EXCEPT !.owner[s] = attempt]
    /\ claimed' = claimed \cup {<<s, attempt>>}
    /\ lost' = lost
    /\ pc' = [pc EXCEPT ![w] = "begin"]
    /\ \E a \in Attempts :
          job' = [job EXCEPT ![w] = [task |-> s, gen |-> a, epoch |-> attempt]]

LEMMA WorkerStepClaims ==
    ASSUME TypeOK, NEW w \in Workers, WorkerStep(w)
    PROVE  KeepsClaims \/ \E s \in Stages : NewClaim(w, s)
<1> USE DEF history
<1>1. ASSUME NEW a \in Attempts, BeginJourney(w, a) PROVE KeepsClaims
  <2>1. out'.owner = out.owner
    BY <1>1 DEF BeginJourney, TypeOK, Output
  <2>2. CASE Startable
    BY <1>1, <2>1, <2>2, MovesKeep DEF BeginJourney, KeepsClaims, Phases, Owning, TypeOK
  <2>3. CASE ~Startable
    BY <1>1, <2>1, <2>3 DEF BeginJourney, KeepsClaims, Delivering, Claim
  <2> QED
    BY <2>2, <2>3
<1>2. CASE PublishChain(w)
  BY <1>2, MovesKeep DEF PublishChain, KeepsClaims, row, Phases
<1>3. ASSUME NEW s \in Stages, NEW a \in Attempts, ClaimStage(w, s, a)
      PROVE  KeepsClaims \/ NewClaim(w, s)
  <2>2. CASE ~Owned(s) /\ status \notin Terminal
    BY <1>3, <2>2 DEF ClaimStage, NewClaim, Goto
  <2>3. CASE status \in Terminal
    BY <1>3, <2>3, MovesKeep DEF ClaimStage, KeepsClaims, Phases, Owning, TypeOK
  <2>4. CASE status \notin Terminal /\ Owned(s)
    BY <1>3, <2>4 DEF ClaimStage, Ignore, KeepsClaims, Delivering, Claim
  <2> QED
    BY <2>2, <2>3, <2>4
<1>4. CASE ReadAtBegin(w)
  BY <1>4, ReadKeeps DEF ReadAtBegin, Phases, Owning, Delivering
<1>5. CASE BeginStage(w)
  <2>1. [copy[w].out EXCEPT !.ready = @ \/ job[w].task = "multi_agent_analysis"] \in Output
    <3>1. (copy[w].out.ready \/ job[w].task = "multi_agent_analysis") \in BOOLEAN
      OBVIOUS
    <3> QED
      BY <3>1, CopyTypes, OutputUpdates
  <2> QED
    BY <1>5, <2>1, UpdateKeeps, MovesKeep
       DEF BeginStage, WriteFrame, KeepsClaims, Phases, Owning, Delivering
<1>6. CASE SkipRetainedPrimary(w)
  BY <1>6, ReadKeeps DEF SkipRetainedPrimary, Phases, Owning, Delivering
<1>7. CASE StageWork(w)
  BY <1>7, ReadKeeps DEF StageWork, Phases, Owning, Delivering
<1>8. CASE ObserveBrowser(w)
  BY <1>8, ReadKeeps DEF ObserveBrowser, Phases, Owning, Delivering
<1>9. CASE ReportProgress(w)
  BY <1>9, CopyTypes, UpdateKeeps, MovesKeep
     DEF ReportProgress, WriteFrame, KeepsClaims, Phases, Owning, Delivering
<1>10. CASE FinishStage(w)
  <2>1. [copy[w].out EXCEPT !.done = WithCompleted(@, job[w].task),
                            !.primary = @ \/ job[w].task = "primary_page_analysis"] \in Output
    <3>1. /\ WithCompleted(copy[w].out.done, job[w].task) \in SUBSET Recorded
          /\ (copy[w].out.primary \/ job[w].task = "primary_page_analysis") \in BOOLEAN
      BY CopyTypes, OutputUpdates DEF WithCompleted
    <3> QED
      BY <3>1, CopyTypes, OutputUpdates
  <2> QED
    BY <1>10, <2>1, UpdateKeeps, MovesKeep
       DEF FinishStage, WriteFrame, KeepsClaims, Phases, Owning, Delivering
<1>11. CASE MarkStageFailed(w)
  <2>1. [copy[w].out EXCEPT !.journey = "failed"] \in Output
    BY CopyTypes, OutputUpdates DEF Journeys
  <2> QED
    BY <1>11, <2>1, PersistKeeps, MovesKeep
       DEF MarkStageFailed, WriteFrame, KeepsClaims, Phases
<1>12. CASE ForwardChain(w)
  BY <1>12, MovesKeep DEF ForwardChain, KeepsClaims, row, Phases
<1>13. CASE ExecuteWorkflow(w)
  BY <1>13, MovesKeep DEF ExecuteWorkflow, KeepsClaims, Phases, Owning, Delivering
<1>14. CASE RunAgents(w)
  <2>1. CASE Goto(w, "forward") /\ UNCHANGED <<row, broker, job, copy, requests, faults, history>>
    BY <2>1, MovesKeep DEF KeepsClaims, row, Phases, Owning
  <2>2. CASE \E p \in Phases : ReadRow(w, p)
    BY <1>14, <2>2, ReadKeeps DEF RunAgents, Delivering, Owning
  <2> QED
    BY <1>14, <2>1, <2>2 DEF RunAgents, Phases, Owning
<1>15. CASE FinalizeExecution(w)
  <2>1. [copy[w].out EXCEPT !.journey = "ended"] \in Output
    BY CopyTypes, OutputUpdates DEF Journeys
  <2> QED
    BY <1>15, <2>1, PersistKeeps, MovesKeep
       DEF FinalizeExecution, WriteFrame, KeepsClaims, Phases, Owning
<1>16. CASE StoreArtifact(w)
  BY <1>16, CopyTypes, PersistKeeps, MovesKeep
     DEF StoreArtifact, WriteFrame, KeepsClaims, Phases, Owning, Delivering
<1> QED
  BY <1>1, <1>2, <1>3, <1>4, <1>5, <1>6, <1>7, <1>8, <1>9, <1>10, <1>11, <1>12, <1>13,
     <1>14, <1>15, <1>16 DEF WorkerStep

LEMMA RequestStepClaims ==
    ASSUME TypeOK, NEW r \in Requests, RequestStep(r)
    PROVE  KeepsClaims
<1> USE DEF row, broker, workers, history
<1>1. CASE RecordDispatch(r)
  <2>1. [rcopy[r].out EXCEPT !.journey = "queued"] \in Output
    BY RequestCopyTypes, OutputUpdates DEF Journeys
  <2> QED
    BY <1>1, <2>1, PersistKeeps DEF RecordDispatch, KeepsClaims, Delivering, Claim
<1>2. CASE ~RecordDispatch(r)
  BY <1>2 DEF RequestStep, FetchExecution, CancelExecution, MarkStalled, PrepareResume,
              EnqueueJourney, KeepsClaims, Delivering, Claim
<1> QED
  BY <1>1, <1>2

LEMMA FaultClaims ==
    ASSUME TypeOK, Fault
    PROVE  KeepsClaims
<1> USE DEF row, broker, workers, history
<1>1. ASSUME NEW w \in Workers, WorkerCrash(w) PROVE KeepsClaims
  BY <1>1, MovesKeep DEF WorkerCrash, KeepsClaims, Phases
<1>2. ASSUME UNCHANGED <<out, workers, history>> PROVE KeepsClaims
  BY <1>2 DEF KeepsClaims, Delivering, Claim
<1> QED
  BY <1>1, <1>2 DEF Fault, DiscardRevoked, FallSilent, Redeliver, EnqueueFails, RequestCrash

\* A new claim is made when the row records none for the attempt, so no delivery
\* that acts holds it unless it was erased.
LEMMA NewClaimOwnership ==
    ASSUME OwnershipInv, TypeOK', NEW w \in Workers, NEW s \in Stages, NewClaim(w, s)
    PROVE  OwnershipInv' /\ <<s, attempt>> \notin claimed \ lost
<1> DEFINE new == <<s, attempt>>
<1>1. out \in Output /\ attempt \in Int /\ attempt \in Attempts
  BY DEF OwnershipInv, TypeOK, Attempts
<1>2. new \notin claimed \ lost
  <2>1. out.owner[s] \in Int /\ ~(out.owner[s] >= attempt)
    BY <1>1, OwnerType DEF NewClaim, Owned
  <2> QED
    BY <2>1 DEF OwnershipInv, ClaimsHeld
<1>3. /\ Claim(w)' = new /\ Delivering(w)'
      /\ \A v \in Workers \ {w} : /\ Delivering(v)' <=> Delivering(v)
                                  /\ Claim(v)' = Claim(v)
  <2>1. PICK a \in Attempts :
           job' = [job EXCEPT ![w] = [task |-> s, gen |-> a, epoch |-> attempt]]
    BY DEF NewClaim
  <2> QED
    BY <2>1 DEF NewClaim, OwnershipInv, TypeOK, Claim, Delivering, Owning
<1>4. ActingClaimed'
  BY <1>3 DEF NewClaim, OwnershipInv, ActingClaimed
<1>5. ClaimsHeld'
  <2> SUFFICES ASSUME NEW c \in (claimed \ lost)' PROVE out'.owner[c[1]] >= c[2]
    BY DEF ClaimsHeld
  <2>1. c \in Stages \X Attempts
    BY DEF TypeOK
  <2>2. out'.owner = [out.owner EXCEPT ![s] = attempt]
    BY <1>1 DEF NewClaim, Output
  <2>3. out.owner \in [Stages -> 0..MaxAttempt]
    BY <1>1, OutputUpdates
  <2>4. CASE c = new
    BY <2>2, <2>3, <2>4, <1>1
  <2>5. CASE c # new
    <3>1. out.owner[c[1]] >= c[2]
      BY <2>5 DEF NewClaim, OwnershipInv, ClaimsHeld
    <3>2. CASE c[1] # s
      BY <3>1, <3>2, <2>1, <2>2, <2>3
    <3>3. CASE c[1] = s
      <4>1. attempt > out.owner[s] /\ out.owner[s] >= c[2]
        BY <3>1, <3>3, <2>3, <1>1, JourneyAssumption DEF NewClaim, Owned
      <4> QED
        BY <4>1, <3>3, <2>1, <2>2, <2>3, <1>1, JourneyAssumption DEF Attempts
    <3> QED
      BY <3>2, <3>3
  <2> QED
    BY <2>4, <2>5
<1>6. ExclusiveStage'
  <2> SUFFICES ASSUME NEW u \in Workers, NEW v \in Workers, Delivering(u)', Delivering(v)',
                      Claim(u)' = Claim(v)', Claim(v)' \notin lost', u # v
               PROVE  FALSE
    BY DEF ExclusiveStage
  <2>1. CASE u # w /\ v # w
    BY <2>1, <1>3 DEF NewClaim, OwnershipInv, ExclusiveStage
  <2>2. CASE u = w
    BY <2>2, <1>2, <1>3 DEF NewClaim, OwnershipInv, ActingClaimed
  <2>3. CASE v = w
    BY <2>3, <1>2, <1>3 DEF NewClaim, OwnershipInv, ActingClaimed
  <2> QED
    BY <2>1, <2>2, <2>3
<1> QED
  BY <1>2, <1>4, <1>5, <1>6 DEF OwnershipInv

LEMMA OwnershipInductive == OwnershipInv /\ [Next]_vars => OwnershipInv'
<1> SUFFICES ASSUME OwnershipInv, [Next]_vars PROVE OwnershipInv'
  OBVIOUS
<1>1. TypeOK /\ TypeOK'
  BY TypeInductive DEF OwnershipInv
<1>2. CASE UNCHANGED vars
  BY <1>1, <1>2, KeepsOwnership
     DEF vars, row, workers, history, KeepsClaims, Delivering, Claim
<1>3. ASSUME NEW w \in Workers, WorkerStep(w) PROVE OwnershipInv'
  BY <1>1, <1>3, WorkerStepClaims, KeepsOwnership, NewClaimOwnership
<1>4. ASSUME NEW r \in Requests, RequestStep(r) PROVE OwnershipInv'
  BY <1>1, <1>4, RequestStepClaims, KeepsOwnership
<1>5. CASE Fault
  BY <1>1, <1>5, FaultClaims, KeepsOwnership
<1> QED
  BY <1>2, <1>3, <1>4, <1>5 DEF Next

LEMMA OwnershipInit == Init => OwnershipInv
BY TypeInit DEF Init, OwnershipInv, ActingClaimed, ClaimsHeld, ExclusiveStage, Delivering, Owning

\* For one (execution, attempt, stage) at most one delivery acts, for any number
\* of workers, redeliveries and crashes, while the claim is not erased.
THEOREM Exclusivity == Spec => []ExclusiveStage
<1>1. OwnershipInv => ExclusiveStage
  BY DEF OwnershipInv
<1> QED
  BY <1>1, OwnershipInit, OwnershipInductive, PTL DEF Spec

\* A claim that was made and not erased is never made again: a stage of an
\* attempt runs at most once, even after its owner has died.
THEOREM ClaimedOnce == Spec => NeverClaimedAgain
<1>1. ASSUME OwnershipInv, [Next]_vars
      PROVE  [\A w \in Workers : pc[w] = "idle" /\ pc'[w] = "begin"
                  => Claim(w)' \notin claimed \ lost]_vars
  <2> SUFFICES ASSUME NEW w \in Workers, pc[w] = "idle", pc'[w] = "begin"
               PROVE  Claim(w)' \notin claimed \ lost
    OBVIOUS
  <2>1. TypeOK /\ TypeOK'
    BY <1>1, TypeInductive DEF OwnershipInv
  <2>2. ~KeepsClaims
    BY DEF KeepsClaims, Delivering, Owning
  <2>3. PICK u \in Workers, s \in Stages : NewClaim(u, s)
    BY <1>1, <2>1, <2>2, WorkerStepClaims, RequestStepClaims, FaultClaims
       DEF Next, vars, workers
  <2>4. u = w /\ Claim(w)' = <<s, attempt>>
    BY <2>1, <2>3 DEF NewClaim, TypeOK, Claim
  <2> QED
    BY <1>1, <2>1, <2>3, <2>4, NewClaimOwnership
<1> QED
  BY <1>1, OwnershipInit, OwnershipInductive, PTL DEF Spec, NeverClaimedAgain
-----------------------------------------------------------------------------
(* The first attempt. Its chain is strict and its completed stages stay     *)
(* recorded as long as no claim was erased. None of that is inductive: a     *)
(* stage may be claimed because its message was sent, the message was sent   *)
(* because the stages before it ended, and a worker writes back a document   *)
(* that no one else has changed because it is the only one acting.           *)

\* The stages the chain runs before a stage.
Earlier(s) ==
    CASE s = "website_discovery"     -> {}
      [] s = "page_analysis"         -> {"website_discovery"}
      [] s = "primary_page_analysis" -> {"website_discovery", "page_analysis"}
      [] s = "browser_compatibility" -> {"website_discovery", "page_analysis",
                                         "primary_page_analysis"}
      [] s = "multi_agent_analysis"  -> Stages \ {"multi_agent_analysis"}

Writing == {"beginWrite", "reportWrite", "finishWrite", "failWrite", "finalizeWrite"}
AgentPhases == {"execute", "agents", "finalizeWrite"}

\* A stage that was claimed, has nobody acting for it, and is recorded if it is to be.
Ended(s) ==
    /\ <<s, 1>> \in claimed
    /\ \A w \in Workers : Delivering(w) => job[w].task # s
    /\ s \in Recorded => s \in out.done
Reached(s) == \A p \in Earlier(s) : Ended(p)

\* What a worker does follows from its task.
JobShape ==
    \A w \in Workers :
        /\ pc[w] = "forward" => job[w].task \in Stages
        /\ pc[w] \in AgentPhases => job[w].task = "multi_agent_analysis"

\* Whatever was erased: a request that enqueues the journey is the first one, the claims
\* are of the first attempt, nothing is sent before the journey begins, and no
\* worker holds a row that was pending, or terminal before it was.
FirstAttempt ==
    attempt = 1 =>
        /\ \A r \in Requests : rpc[r] \in {"enqueue", "dispatch"} => rcopy[r].out = EmptyOutput
        /\ \A c \in claimed : c[2] = 1
        /\ status = "pending" => /\ \A w \in Workers : pc[w] = "idle"
                                 /\ \A s \in Stages, a \in Attempts : queue[<<s, a>>] = 0
        /\ \A w \in Workers : pc[w] \in Writing =>
              /\ copy[w].status # "pending"
              /\ copy[w].status \in Terminal => status \in Terminal

Kept == attempt = 1 /\ lost = {}

OneActs == Kept => \A v, w \in Workers : Delivering(v) /\ Delivering(w) => v = w

RecordIsCurrent ==
    Kept =>
        /\ \A s \in out.done : <<s, 1>> \in claimed
        /\ \A w \in Workers : pc[w] \in Writing => copy[w].out.done = out.done
        /\ \A w \in Workers : Delivering(w) => Earlier(job[w].task) \cap Recorded \subseteq out.done
        /\ status \in {"completed", "partial"} => out.done = Recorded

ChainIsOrdered ==
    Kept /\ status \notin Terminal =>
        /\ \A c \in claimed : Reached(c[1])
        /\ \A s \in Stages, a \in Attempts : queue[<<s, a>>] > 0 => Reached(s)
        /\ \A w \in Workers : pc[w] # "idle" /\ job[w].task \in Stages => Reached(job[w].task)
        /\ \A w \in Workers : pc[w] = "forward" => Ended(job[w].task)

ChainInv ==
    OwnershipInv /\ JobShape /\ FirstAttempt /\ OneActs /\ RecordIsCurrent /\ ChainIsOrdered

LEMMA EarlierStages ==
    /\ \A s \in Stages : Earlier(s) \subseteq Stages /\ s \notin Earlier(s)
    /\ \A s, t \in Stages : s # t => s \in Earlier(t) \/ t \in Earlier(s)
    /\ \A s \in Stages : Successor[s] # "none" =>
          Successor[s] \in Stages /\ Earlier(Successor[s]) = Earlier(s) \cup {s}
    /\ Successor["journey"] \in Stages /\ Earlier(Successor["journey"]) = {}
    /\ Recorded \subseteq Earlier("multi_agent_analysis")
BY DEF Stages, Earlier, Successor, Recorded

LEMMA ActingTask ==
    ASSUME OwnershipInv, NEW w \in Workers, Delivering(w)
    PROVE  /\ job[w].task \in Stages /\ Claim(w) \in claimed
           /\ attempt = 1 /\ FirstAttempt => Claim(w) = <<job[w].task, 1>>
BY DEF OwnershipInv, ActingClaimed, TypeOK, Claim, FirstAttempt

\* Only the worker that steps changes what it does and what it holds.
LEMMA OthersRest ==
    ASSUME TypeOK, NEW w \in Workers, WorkerStep(w)
    PROVE  \A v \in Workers \ {w} : pc'[v] = pc[v] /\ job'[v] = job[v] /\ copy'[v] = copy[v]
<1> USE DEF TypeOK, Goto, Rest, DropCopy, ReadRow, WriteFrame, row, broker, workers, Ignore
<1>1. ASSUME NEW a \in Attempts, BeginJourney(w, a) \/ (\E s \in Stages : ClaimStage(w, s, a))
      PROVE  \A v \in Workers \ {w} : pc'[v] = pc[v] /\ job'[v] = job[v] /\ copy'[v] = copy[v]
  BY <1>1 DEF BeginJourney, ClaimStage
<1>2. CASE PublishChain(w) \/ ForwardChain(w) \/ ExecuteWorkflow(w) \/ RunAgents(w)
  BY <1>2 DEF PublishChain, ForwardChain, ExecuteWorkflow, RunAgents
<1>3. CASE ReadAtBegin(w) \/ SkipRetainedPrimary(w) \/ StageWork(w) \/ ObserveBrowser(w)
  BY <1>3 DEF ReadAtBegin, SkipRetainedPrimary, StageWork, ObserveBrowser
<1>4. CASE BeginStage(w) \/ ReportProgress(w) \/ StoreArtifact(w) \/ FinishStage(w)
           \/ MarkStageFailed(w) \/ FinalizeExecution(w)
  BY <1>4 DEF BeginStage, ReportProgress, StoreArtifact, FinishStage, MarkStageFailed,
              FinalizeExecution
<1> QED
  BY <1>1, <1>2, <1>3, <1>4 DEF WorkerStep

\* What taking a message does to the worker.
LEMMA StepTargets ==
    ASSUME TypeOK, NEW w \in Workers, NEW a \in Attempts
    PROVE  /\ BeginJourney(w, a) => UNCHANGED <<pc, job>> \/ pc'[w] = "publish"
           /\ \A s \in Stages : ClaimStage(w, s, a) =>
                 \/ UNCHANGED <<pc, job>>
                 \/ pc'[w] \in {"begin", "forward"} /\ job'[w].task = s
BY DEF BeginJourney, ClaimStage, Ignore, Goto, TypeOK

LEMMA JobShapeWorker ==
    ASSUME OwnershipInv, JobShape, NEW w \in Workers, WorkerStep(w)
    PROVE  JobShape'
<1> SUFFICES /\ pc'[w] = "forward" => job'[w].task \in Stages
             /\ pc'[w] \in AgentPhases => job'[w].task = "multi_agent_analysis"
  <2>1. TypeOK
    BY DEF OwnershipInv
  <2> QED
    BY <2>1, OthersRest DEF JobShape
<1> USE DEF OwnershipInv, TypeOK, Goto, Rest, ReadRow, WriteFrame, row, broker, workers, Ignore,
            AgentPhases, Owning, Delivering, NoJob
<1>1. ASSUME NEW a \in Attempts, BeginJourney(w, a) \/ (\E s \in Stages : ClaimStage(w, s, a))
      PROVE  /\ pc'[w] = "forward" => job'[w].task \in Stages
             /\ pc'[w] \in AgentPhases => job'[w].task = "multi_agent_analysis"
  <2>1. \/ UNCHANGED <<pc, job>>
        \/ pc'[w] = "publish"
        \/ pc'[w] \in {"begin", "forward"} /\ job'[w].task \in Stages
    BY <1>1, StepTargets
  <2> QED
    BY <2>1 DEF JobShape
<1>2. CASE PublishChain(w) \/ ForwardChain(w) \/ MarkStageFailed(w)
  BY <1>2 DEF PublishChain, ForwardChain, MarkStageFailed
<1>3. CASE ReadAtBegin(w) \/ SkipRetainedPrimary(w) \/ StageWork(w) \/ ObserveBrowser(w)
  BY <1>3 DEF ReadAtBegin, SkipRetainedPrimary, StageWork, ObserveBrowser
<1>4. CASE BeginStage(w) \/ ReportProgress(w) \/ StoreArtifact(w) \/ FinishStage(w)
  BY <1>4, ActingTask DEF BeginStage, ReportProgress, StoreArtifact, FinishStage
<1>5. CASE ExecuteWorkflow(w) \/ RunAgents(w) \/ FinalizeExecution(w)
  BY <1>5, ActingTask DEF ExecuteWorkflow, RunAgents, FinalizeExecution, JobShape
<1> QED
  BY <1>1, <1>2, <1>3, <1>4, <1>5 DEF WorkerStep

LEMMA JobShapeStep ==
    ASSUME OwnershipInv, JobShape, [Next]_vars
    PROVE  JobShape'
<1>1. CASE UNCHANGED workers
  BY <1>1 DEF JobShape, workers
<1>2. ASSUME NEW w \in Workers, WorkerStep(w) PROVE JobShape'
  BY <1>2, JobShapeWorker
<1>3. ASSUME NEW r \in Requests, RequestStep(r) PROVE UNCHANGED workers
  BY <1>3 DEF RequestStep, FetchExecution, CancelExecution, MarkStalled, PrepareResume,
              EnqueueJourney, RecordDispatch
<1>4. ASSUME NEW w \in Workers, WorkerCrash(w) PROVE JobShape'
  BY <1>4 DEF WorkerCrash, Rest, Goto, JobShape, AgentPhases, OwnershipInv, TypeOK
<1>5. CASE Fault /\ ~ (\E w \in Workers : WorkerCrash(w))
  BY <1>5, <1>1 DEF Fault, DiscardRevoked, FallSilent, Redeliver, EnqueueFails, RequestCrash, workers
<1> QED
  BY <1>1, <1>2, <1>3, <1>4, <1>5 DEF Next, vars

\* The first attempt is never come back to.
LEMMA AttemptMoves ==
    ASSUME [Next]_vars
    PROVE  UNCHANGED attempt \/ \E r \in Requests : PrepareResume(r)
<1>1. ASSUME NEW w \in Workers, WorkerStep(w) PROVE UNCHANGED attempt
  BY <1>1 DEF WorkerStep, BeginJourney, PublishChain, ClaimStage, ReadAtBegin, BeginStage,
       SkipRetainedPrimary, StageWork, ObserveBrowser, ReportProgress, StoreArtifact,
       FinishStage, MarkStageFailed, ForwardChain, ExecuteWorkflow, RunAgents,
       FinalizeExecution, ReadRow, WriteFrame, row
<1>2. ASSUME NEW r \in Requests, RequestStep(r), ~PrepareResume(r) PROVE UNCHANGED attempt
  BY <1>2 DEF RequestStep, FetchExecution, CancelExecution, MarkStalled, EnqueueJourney,
              RecordDispatch, row
<1>3. CASE Fault
  BY <1>3 DEF Fault, DiscardRevoked, FallSilent, Redeliver, WorkerCrash, EnqueueFails,
              RequestCrash, row
<1> QED
  BY <1>1, <1>2, <1>3 DEF Next, vars, row

LEMMA AttemptGrows ==
    ASSUME TypeOK, [Next]_vars, attempt' = 1
    PROVE  attempt = 1
<1>1. ASSUME NEW r \in Requests, PrepareResume(r), attempt' # attempt PROVE FALSE
  BY <1>1 DEF PrepareResume, TypeOK, RequestCopy, Attempts
<1> QED
  BY <1>1, AttemptMoves

\* A request that opens another attempt leaves the document alone.
LEMMA ResumeKeepsDocument ==
    ASSUME [Next]_vars, attempt' # attempt
    PROVE  UNCHANGED out
BY AttemptMoves DEF PrepareResume

\* What a step of the first attempt keeps, whoever takes it. The last conjunct is what
\* NoRevival asks.
FirstMove ==
    /\ \A r \in Requests : rpc'[r] \in {"enqueue", "dispatch"} =>
          rpc[r] \in {"enqueue", "dispatch"} /\ rcopy'[r].out = rcopy[r].out
    /\ \A c \in claimed' : c \in claimed \/ c[2] = 1
    /\ status' = "pending" => /\ status = "pending"
                              /\ \A w \in Workers : pc'[w] = "idle"
                              /\ \A s \in Stages, a \in Attempts : queue'[<<s, a>>] = 0
    /\ \A w \in Workers : pc'[w] \in Writing =>
          \/ pc[w] \in Writing /\ copy'[w] = copy[w]
          \/ pc[w] # "idle" /\ copy'[w].status = status
    /\ status \in Terminal => status' \in Terminal

LEMMA FirstMoveKeeps ==
    ASSUME FirstAttempt, attempt = 1, FirstMove
    PROVE  FirstAttempt'
BY DEF FirstAttempt, FirstMove

LEMMA StatusNames ==
    /\ "pending" \notin Terminal /\ "running" \notin Terminal
    /\ {"failed", "cancelled", "completed", "partial", "unavailable"} \subseteq Terminal
BY DEF Terminal

LEMMA UpdateFirst ==
    ASSUME TypeOK, FirstAttempt, attempt = 1, NEW w \in Workers, NEW o, pc[w] \in Writing,
           UpdateJourneyStage(w, o)
    PROVE  status' = status
BY DEF UpdateJourneyStage, FirstAttempt

LEMMA WorkerFirst ==
    ASSUME OwnershipInv, JobShape, FirstAttempt, attempt = 1, NEW w \in Workers, WorkerStep(w)
    PROVE  FirstMove
<1>1. TypeOK /\ \A v \in Workers \ {w} : pc'[v] = pc[v] /\ job'[v] = job[v] /\ copy'[v] = copy[v]
  BY OthersRest DEF OwnershipInv
<1>2. ASSUME NEW a \in Attempts, BeginJourney(w, a) PROVE FirstMove
  <2>1. UNCHANGED <<requests, claimed, copy>> /\ (UNCHANGED pc \/ pc'[w] = "publish")
    BY <1>1, <1>2, StepTargets DEF BeginJourney, history
  <2>2. status' = "pending" => /\ status = "pending" /\ UNCHANGED pc
                               /\ \A s \in Stages, b \in Attempts : queue'[<<s, b>>] = queue[<<s, b>>]
    <3>1. \A s \in Stages, b \in Attempts : <<s, b>> # <<"journey", a>>
      BY DEF Stages
    <3>2. queue' = [queue EXCEPT ![<<"journey", a>>] = @ - 1]
      BY <1>2 DEF BeginJourney, Take
    <3> QED
      BY <1>1, <1>2, <3>1, <3>2 DEF BeginJourney, TypeOK, Messages, Tasks
  <2>3. status \in Terminal => status' \in Terminal
    BY <1>2 DEF BeginJourney, Startable
  <2>4. \A v \in Workers : pc'[v] \in Writing => pc[v] \in Writing /\ copy'[v] = copy[v]
    BY <1>1, <2>1 DEF Writing
  <2> QED
    BY <2>1, <2>2, <2>3, <2>4 DEF FirstMove, FirstAttempt, requests
<1>3. ASSUME NEW s \in Stages, NEW a \in Attempts, ClaimStage(w, s, a) PROVE FirstMove
  <2>1. UNCHANGED <<requests, status, copy>> /\ status # "pending"
    BY <1>1, <1>3 DEF ClaimStage, FirstAttempt, TypeOK, Messages, Tasks
  <2>2. \A c \in claimed' : c \in claimed \/ c[2] = 1
    BY <1>3 DEF ClaimStage
  <2>3. \A v \in Workers : pc'[v] \in Writing => pc[v] \in Writing /\ copy'[v] = copy[v]
    BY <1>1, <1>3, <2>1, StepTargets DEF Writing
  <2> QED
    BY <2>1, <2>2, <2>3 DEF FirstMove, requests
<1>4. CASE PublishChain(w) \/ ForwardChain(w)
  <2>1. UNCHANGED <<requests, status, copy, claimed>> /\ pc'[w] = "idle" /\ pc[w] # "idle"
    BY <1>1, <1>4 DEF PublishChain, ForwardChain, Rest, Goto, row, history, TypeOK
  <2>2. status # "pending"
    BY <2>1, <1>1 DEF FirstAttempt
  <2> QED
    BY <1>1, <2>1, <2>2 DEF FirstMove, requests, Writing
<1>5. ASSUME NEW p \in Phases, ReadRow(w, p), pc[w] # "idle" PROVE FirstMove
  <2>1. UNCHANGED <<requests, status, claimed>> /\ copy'[w].status = status
    BY <1>1, <1>5 DEF ReadRow, history, RowCopy, TypeOK
  <2>2. status # "pending"
    BY <1>5, <1>1 DEF FirstAttempt
  <2> QED
    BY <1>1, <1>5, <2>1, <2>2 DEF FirstMove, requests, Writing
<1>6. CASE ReadAtBegin(w) \/ SkipRetainedPrimary(w) \/ StageWork(w) \/ ObserveBrowser(w)
  BY <1>5, <1>6 DEF ReadAtBegin, SkipRetainedPrimary, StageWork, ObserveBrowser, Phases, Owning
<1>7. ASSUME pc[w] \in Writing, UNCHANGED <<requests, claimed>>, pc'[w] \notin Writing,
             status' # "pending", status \in Terminal => status' \in Terminal
      PROVE  FirstMove
  BY <1>1, <1>7 DEF FirstMove, requests
<1>8. ASSUME pc[w] \in Writing PROVE status # "pending"
  BY <1>8 DEF FirstAttempt, Writing
<1>9. CASE BeginStage(w) \/ ReportProgress(w) \/ FinishStage(w)
  <2>1. /\ pc[w] \in Writing /\ UNCHANGED <<requests, claimed>> /\ pc'[w] \notin Writing
        /\ \E o : UpdateJourneyStage(w, o)
    BY <1>1, <1>9 DEF BeginStage, ReportProgress, FinishStage, WriteFrame, Goto, Writing, TypeOK
  <2> QED
    BY <1>1, <1>7, <1>8, <2>1, UpdateFirst
<1>10. CASE StoreArtifact(w)
  <2>1. /\ pc[w] \in Writing /\ UNCHANGED <<requests, claimed, status>> /\ pc'[w] \notin Writing
    BY <1>1, <1>10 DEF StoreArtifact, WriteFrame, Goto, Writing, TypeOK
  <2> QED
    BY <1>7, <1>8, <2>1
<1>11. CASE MarkStageFailed(w) \/ FinalizeExecution(w)
  <2>1. /\ pc[w] \in Writing /\ UNCHANGED <<requests, claimed>> /\ pc'[w] \notin Writing
        /\ status' = status \/ status' \in Terminal
    BY <1>1, <1>11, StatusNames
       DEF MarkStageFailed, FinalizeExecution, WriteFrame, Rest, Goto, Writing, TypeOK
  <2> QED
    BY <1>7, <1>8, <2>1, StatusNames
<1>12. CASE ExecuteWorkflow(w)
  <2>1. /\ UNCHANGED <<requests, claimed, copy>> /\ pc[w] # "idle" /\ pc'[w] \notin Writing
        /\ status' = status \/ (status' = "running" /\ status \notin Terminal)
    <3>1. /\ UNCHANGED <<requests, claimed, copy>> /\ pc[w] = "execute"
          /\ pc'[w] \in {"forward", "agents"}
      BY <1>1, <1>12 DEF ExecuteWorkflow, Goto, TypeOK, history
    <3>2. status' = status \/ (status' = "running" /\ ~Refused)
      BY <1>12 DEF ExecuteWorkflow
    <3>3. ~Refused => status \notin Terminal
      BY DEF Refused
    <3> QED
      BY <3>1, <3>2, <3>3 DEF Writing
  <2>2. status # "pending"
    BY <2>1, <1>1 DEF FirstAttempt
  <2> QED
    BY <1>1, <2>1, <2>2 DEF FirstMove, requests
<1>13. CASE RunAgents(w)
  <2>1. CASE UNCHANGED <<row, copy, requests, history>> /\ pc'[w] \notin Writing
    <3>1. status # "pending"
      BY <1>1, <1>13 DEF FirstAttempt, RunAgents
    <3> QED
      BY <1>1, <2>1, <3>1 DEF FirstMove, requests, row, history
  <2>2. CASE \E p \in Phases : ReadRow(w, p)
    BY <1>5, <1>13, <2>2 DEF RunAgents
  <2> QED
    BY <1>1, <1>13, <2>1, <2>2 DEF RunAgents, Goto, Writing, TypeOK, Phases, Owning
<1> QED
  BY <1>2, <1>3, <1>4, <1>6, <1>9, <1>10, <1>11, <1>12, <1>13 DEF WorkerStep

LEMMA RequestFirst ==
    ASSUME TypeOK, FirstAttempt, attempt = 1, attempt' = 1, NEW r \in Requests, RequestStep(r)
    PROVE  FirstMove
<1> USE DEF TypeOK, FirstMove, workers, RGoto, Close, Fetch
<1>1. CASE FetchExecution(r)
  BY <1>1 DEF FetchExecution, row, history, broker, FirstAttempt
<1>2. CASE CancelExecution(r)
  BY <1>2, StatusNames DEF CancelExecution, history, FirstAttempt
<1>3. CASE MarkStalled(r)
  BY <1>3, StatusNames DEF MarkStalled, history
<1>4. CASE PrepareResume(r)
  <2>1. Close(r) /\ UNCHANGED status
    BY <1>4 DEF PrepareResume, RequestCopy, Attempts
  <2> QED
    BY <1>4, <2>1 DEF PrepareResume, history, broker, FirstAttempt
<1>5. CASE EnqueueJourney(r)
  <2>1. \A s \in Stages, a, b \in Attempts : <<s, a>> # <<"journey", b>>
    BY DEF Stages
  <2>2. \A s \in Stages, a \in Attempts : queue'[<<s, a>>] = queue[<<s, a>>]
    BY <1>5, <2>1 DEF EnqueueJourney, Send, Messages, Tasks, RequestCopy
  <2>3. UNCHANGED <<status, pc, copy, rcopy, claimed>>
    BY <1>5 DEF EnqueueJourney, row, history
  <2> QED
    BY <1>5, <2>2, <2>3 DEF EnqueueJourney, FirstAttempt
<1>6. CASE RecordDispatch(r)
  <2>1. UNCHANGED <<status, pc, copy, queue, claimed>>
    BY <1>6 DEF RecordDispatch, broker
  <2> QED
    BY <1>6, <2>1 DEF RecordDispatch, FirstAttempt
<1> QED
  BY <1>1, <1>2, <1>3, <1>4, <1>5, <1>6 DEF RequestStep

LEMMA FaultFirst ==
    ASSUME TypeOK, FirstAttempt, attempt = 1, Fault
    PROVE  FirstMove
<1> USE DEF TypeOK, FirstMove, RGoto, Close, row, broker, workers, requests, history
<1>1. ASSUME NEW m \in Messages, DiscardRevoked(m) PROVE FirstMove
  <2>1. UNCHANGED <<status, pc, copy, requests, claimed>> /\ \A n \in Messages : queue'[n] <= queue[n]
    BY <1>1 DEF DiscardRevoked, Take
  <2>2. \A s \in Stages, a \in Attempts : <<s, a>> \in Messages
    BY DEF Messages, Tasks
  <2>3. \A s \in Stages, a \in Attempts : queue'[<<s, a>>] \in Nat
    BY <1>1, <2>2, QueueType DEF DiscardRevoked
  <2> QED
    BY <2>1, <2>2, <2>3 DEF FirstAttempt
<1>2. CASE FallSilent
  BY <1>2 DEF FallSilent, FirstAttempt
<1>3. ASSUME NEW w \in Workers, Redeliver(w) PROVE FirstMove
  <2>1. status # "pending" /\ UNCHANGED <<status, pc, copy, requests, claimed>>
    BY <1>3 DEF Redeliver, FirstAttempt
  <2> QED
    BY <2>1
<1>4. ASSUME NEW w \in Workers, WorkerCrash(w) PROVE FirstMove
  <2>1. status # "pending" /\ UNCHANGED <<status, requests, claimed>>
    BY <1>4 DEF WorkerCrash, FirstAttempt
  <2>2. \A v \in Workers : pc'[v] \in Writing => pc[v] \in Writing /\ copy'[v] = copy[v]
    BY <1>4 DEF WorkerCrash, Rest, Goto, DropCopy, Writing
  <2> QED
    BY <2>1, <2>2
<1>5. ASSUME NEW r \in Requests, EnqueueFails(r) \/ RequestCrash(r) PROVE FirstMove
  BY <1>5, StatusNames DEF EnqueueFails, RequestCrash, FirstAttempt
<1> QED
  BY <1>1, <1>2, <1>3, <1>4, <1>5 DEF Fault

LEMMA FirstSteps ==
    ASSUME OwnershipInv, JobShape, FirstAttempt, attempt = 1, attempt' = 1, [Next]_vars
    PROVE  FirstMove
<1>1. TypeOK
  BY DEF OwnershipInv
<1>2. CASE UNCHANGED vars
  BY <1>2 DEF vars, row, broker, workers, requests, history, FirstMove, FirstAttempt
<1> QED
  BY <1>1, <1>2, WorkerFirst, RequestFirst, FaultFirst DEF Next

-----------------------------------------------------------------------------
\* What every step but a new claim does to the chain of the first attempt.
KeepsChain ==
    /\ KeepsClaims
    /\ out.done \subseteq out'.done
    /\ \A s \in out'.done : s \in out.done \/ <<s, 1>> \in claimed
    /\ \A w \in Workers : pc'[w] \in Writing => copy'[w].out.done = out'.done
    /\ status' \in {"completed", "partial"} =>
          status \in {"completed", "partial"} \/ out'.done = Recorded
    /\ status' \notin Terminal =>
          /\ \A s \in Stages, a \in Attempts :
                queue'[<<s, a>>] > 0 => queue[<<s, a>>] > 0 \/ Reached(s)
          /\ \A w \in Workers : pc'[w] # "idle" /\ job'[w].task \in Stages =>
                pc[w] # "idle" /\ job'[w].task = job[w].task
          /\ \A w \in Workers : pc'[w] = "forward" =>
                (pc[w] = "forward" /\ job'[w].task = job[w].task) \/ Ended(job[w].task)'

\* The invariant without the conjuncts that were kept by then.
ChainState == OneActs /\ RecordIsCurrent /\ ChainIsOrdered

LEMMA EndedKept ==
    ASSUME KeepsClaims, out.done \subseteq out'.done, NEW s, Ended(s)
    PROVE  Ended(s)'
BY DEF KeepsClaims, Ended, Claim

LEMMA ReachedKept ==
    ASSUME KeepsClaims, out.done \subseteq out'.done, NEW s, Reached(s)
    PROVE  Reached(s)'
BY EndedKept DEF Reached

LEMMA KeepsChainKeeps ==
    ASSUME TypeOK', ChainState, Kept, KeepsChain, status \in Terminal => status' \in Terminal
    PROVE  ChainState'
<1>1. OneActs'
  BY DEF ChainState, OneActs, KeepsChain, KeepsClaims
<1>2. RecordIsCurrent'
  <2>1. \A s \in out'.done : <<s, 1>> \in claimed'
    BY DEF ChainState, RecordIsCurrent, KeepsChain, KeepsClaims
  <2>2. \A w \in Workers : Delivering(w)' => Earlier(job'[w].task) \cap Recorded \subseteq out'.done
    BY DEF ChainState, RecordIsCurrent, KeepsChain, KeepsClaims, Claim
  <2>3. status' \in {"completed", "partial"} => out'.done = Recorded
    <3>1. out'.done \subseteq Recorded
      BY DEF TypeOK, Output
    <3> QED
      BY <3>1 DEF ChainState, RecordIsCurrent, KeepsChain
  <2> QED
    BY <2>1, <2>2, <2>3 DEF RecordIsCurrent, KeepsChain
<1>3. ChainIsOrdered'
  <2> SUFFICES ASSUME status' \notin Terminal
      PROVE  /\ \A c \in claimed' : Reached(c[1])'
             /\ \A s \in Stages, a \in Attempts : queue'[<<s, a>>] > 0 => Reached(s)'
             /\ \A w \in Workers : pc'[w] # "idle" /\ job'[w].task \in Stages => Reached(job[w].task)'
             /\ \A w \in Workers : pc'[w] = "forward" => Ended(job[w].task)'
    BY DEF ChainIsOrdered
  <2>1. KeepsClaims /\ out.done \subseteq out'.done
    BY DEF KeepsChain
  <2>2. \A s : Reached(s) => Reached(s)'
    BY <2>1, ReachedKept
  <2>3. \A s : Ended(s) => Ended(s)'
    BY <2>1, EndedKept
  <2>4. /\ \A c \in claimed : Reached(c[1])
        /\ \A s \in Stages, a \in Attempts : queue[<<s, a>>] > 0 => Reached(s)
        /\ \A w \in Workers : pc[w] # "idle" /\ job[w].task \in Stages => Reached(job[w].task)
        /\ \A w \in Workers : pc[w] = "forward" => Ended(job[w].task)
    BY DEF ChainState, ChainIsOrdered
  <2>5. \A c \in claimed' : Reached(c[1])'
    BY <2>1, <2>2, <2>4 DEF KeepsClaims
  <2>6. \A s \in Stages, a \in Attempts : queue'[<<s, a>>] > 0 => Reached(s)'
    BY <2>2, <2>4 DEF KeepsChain
  <2>7. \A w \in Workers : pc'[w] # "idle" /\ job'[w].task \in Stages => Reached(job[w].task)'
    <3> SUFFICES ASSUME NEW w \in Workers, pc'[w] # "idle", job'[w].task \in Stages
                 PROVE  Reached(job[w].task)'
      OBVIOUS
    <3>1. pc[w] # "idle" /\ job'[w].task = job[w].task
      BY DEF KeepsChain
    <3>2. Reached(job[w].task)
      BY <2>4, <3>1
    <3> DEFINE t == job[w].task
    <3>3. PICK u : u = job[w].task
      OBVIOUS
    <3>4. Reached(u)
      BY <3>2, <3>3
    <3>5. Reached(u)'
      BY <3>4, <2>2
    <3> QED
      BY <3>1, <3>3, <3>5 DEF Reached
  <2>8. \A w \in Workers : pc'[w] = "forward" => Ended(job[w].task)'
    <3> SUFFICES ASSUME NEW w \in Workers, pc'[w] = "forward", pc[w] = "forward",
                        job'[w].task = job[w].task
                 PROVE  Ended(job[w].task)'
      BY DEF KeepsChain
    <3>1. PICK u : u = job[w].task
      OBVIOUS
    <3>2. Ended(u)
      BY <2>4, <3>1
    <3>3. Ended(u)'
      BY <3>2, <2>3
    <3> QED
      BY <3>1, <3>3 DEF Ended
  <2> QED
    BY <2>5, <2>6, <2>7, <2>8
<1> QED
  BY <1>1, <1>2, <1>3 DEF ChainState

\* A stage is claimed when every stage before it has ended, so nobody else is acting.
LEMMA NewClaimChain ==
    ASSUME OwnershipInv, OwnershipInv', FirstAttempt, FirstAttempt', ChainState, Kept, Kept',
           NEW w \in Workers, NEW s \in Stages, NEW a \in Attempts,
           ClaimStage(w, s, a), NewClaim(w, s)
    PROVE  ChainState'
<1>1. /\ TypeOK /\ pc[w] = "idle" /\ status \notin Terminal /\ queue[<<s, a>>] > 0
      /\ UNCHANGED <<status, copy>>
  <2>1. TypeOK /\ pc[w] = "idle" /\ queue[<<s, a>>] > 0 /\ UNCHANGED <<status, copy>>
    BY DEF OwnershipInv, ClaimStage
  <2>2. pc'[w] = "begin"
    BY <2>1 DEF NewClaim, TypeOK
  <2>3. status \in Terminal => pc'[w] = "forward"
    BY <2>1 DEF ClaimStage, Goto, TypeOK, NewClaim
  <2> QED
    BY <2>1, <2>2, <2>3
<1>2. /\ \A v \in Workers \ {w} : pc'[v] = pc[v] /\ job'[v] = job[v]
      /\ pc'[w] = "begin" /\ job'[w].task = s
  BY <1>1 DEF NewClaim, TypeOK
<1>3. claimed' = claimed \cup {<<s, 1>>} /\ <<s, 1>> \notin claimed
  BY NewClaimOwnership DEF NewClaim, Kept, OwnershipInv
<1>4. out'.done = out.done
  BY <1>1 DEF NewClaim, TypeOK, Output
<1>5. Reached(s) /\ \A c \in claimed : Reached(c[1])
  BY <1>1 DEF ChainState, ChainIsOrdered
<1>6. \A v \in Workers : ~Delivering(v)
  <2> SUFFICES ASSUME NEW v \in Workers, Delivering(v) PROVE FALSE
    OBVIOUS
  <2>1. job[v].task \in Stages /\ <<job[v].task, 1>> \in claimed
    BY ActingTask DEF Kept
  <2>2. PICK t \in Stages : t = job[v].task
    BY <2>1
  <2>3. Reached(t) /\ t # s
    BY <1>3, <1>5, <2>1, <2>2
  <2>4. t \notin Earlier(s)
    BY <1>5, <2>2 DEF Reached, Ended
  <2>5. s \notin Earlier(t)
    BY <1>3, <2>3 DEF Reached, Ended
  <2> QED
    BY <2>3, <2>4, <2>5, EarlierStages
<1>7. \A v \in Workers : Delivering(v)' => v = w
  BY <1>2, <1>6 DEF Delivering
<1>8. \A p : Ended(p) => Ended(p)'
  <2> SUFFICES ASSUME NEW p, Ended(p) PROVE Ended(p)'
    OBVIOUS
  <2>1. p # s
    BY <1>3 DEF Ended
  <2> QED
    BY <1>2, <1>3, <1>4, <1>7, <2>1 DEF Ended
<1>9. \A p : Reached(p) => Reached(p)'
  BY <1>8 DEF Reached
<1>10. OneActs'
  BY <1>7 DEF OneActs
<1>11. RecordIsCurrent'
  <2>1. \A v \in Workers : pc'[v] \notin Writing
    BY <1>2, <1>6 DEF Writing, Delivering, Owning
  <2>2. Earlier(s) \cap Recorded \subseteq out.done
    BY <1>5 DEF Reached, Ended
  <2>3. \A v \in Workers : Delivering(v)' => Earlier(job'[v].task) \cap Recorded \subseteq out'.done
    BY <1>2, <1>4, <1>7, <2>2
  <2> QED
    BY <1>1, <1>3, <1>4, <2>1, <2>3 DEF RecordIsCurrent, ChainState
<1>12. ChainIsOrdered'
  <2>1. \A c \in claimed' : Reached(c[1])'
    BY <1>3, <1>5, <1>9
  <2>2. \A t \in Stages, b \in Attempts : queue'[<<t, b>>] > 0 => Reached(t)'
    <3> SUFFICES ASSUME NEW t \in Stages, NEW b \in Attempts, queue'[<<t, b>>] > 0
                 PROVE  Reached(t)
      BY <1>9
    <3>1. <<t, b>> \in Messages
      BY DEF Messages, Tasks
    <3>2. queue[<<t, b>>] > 0
      BY <1>1, <3>1 DEF ClaimStage, Take, TypeOK
    <3> QED
      BY <1>1, <3>2 DEF ChainState, ChainIsOrdered
  <2>3. \A v \in Workers : pc'[v] # "idle" /\ job'[v].task \in Stages => Reached(job[v].task)'
    <3> SUFFICES ASSUME NEW v \in Workers, pc'[v] # "idle", job'[v].task \in Stages
                 PROVE  Reached(job[v].task)'
      OBVIOUS
    <3>1. PICK u : u = job'[v].task
      OBVIOUS
    <3>2. Reached(u)
      BY <1>1, <1>2, <1>5, <3>1 DEF ChainState, ChainIsOrdered
    <3>3. Reached(u)'
      BY <3>2, <1>9
    <3> QED
      BY <3>1, <3>3 DEF Reached
  <2>4. \A v \in Workers : pc'[v] = "forward" => Ended(job[v].task)'
    <3> SUFFICES ASSUME NEW v \in Workers, pc'[v] = "forward" PROVE Ended(job[v].task)'
      OBVIOUS
    <3>1. PICK u : u = job'[v].task
      OBVIOUS
    <3>2. Ended(u)
      BY <1>1, <1>2, <3>1 DEF ChainState, ChainIsOrdered
    <3>3. Ended(u)'
      BY <3>2, <1>8
    <3> QED
      BY <3>1, <3>3 DEF Ended
  <2> QED
    BY <2>1, <2>2, <2>3, <2>4 DEF ChainIsOrdered
<1> QED
  BY <1>10, <1>11, <1>12 DEF ChainState

\* Writes of the document: whose copy is current leaves what is recorded as it was.
LEMMA UpdateDone ==
    ASSUME NEW w \in Workers, NEW o \in Output, UpdateJourneyStage(w, o)
    PROVE  /\ out'.done = out.done \/ (out'.done = o.done /\ copy[w].status \notin Terminal)
           /\ copy[w].status \in Terminal => out' = out /\ status' = status
BY DEF UpdateJourneyStage, Persist, Output

LEMMA PersistDone ==
    ASSUME NEW o \in Output, NEW j \in Journeys, Persist([o EXCEPT !.journey = j])
    PROVE  out'.done = o.done
BY DEF Persist, Output

\* A worker that acts is the only one, so what the others hold does not matter.
LEMMA ActorChain ==
    ASSUME OwnershipInv, ChainState, Kept, Kept', NEW w \in Workers, WorkerStep(w),
           Delivering(w), KeepsClaims, pc'[w] \in Phases \ {"idle", "publish"} => job'[w] = job[w],
           out.done \subseteq out'.done,
           \A s \in out'.done : s \in out.done \/ s = job[w].task,
           pc'[w] \in Writing => copy'[w].out.done = out'.done,
           status' \in {"completed", "partial"} =>
              status \in {"completed", "partial"} \/ out'.done = Recorded,
           UNCHANGED queue, TypeOK',
           status' \notin Terminal /\ pc'[w] = "forward" /\ job[w].task \in Recorded =>
              job[w].task \in out'.done
    PROVE  FirstAttempt => KeepsChain
<1> SUFFICES ASSUME FirstAttempt PROVE KeepsChain
  OBVIOUS
<1>1. TypeOK /\ \A v \in Workers \ {w} : pc'[v] = pc[v] /\ job'[v] = job[v] /\ copy'[v] = copy[v]
  BY OthersRest DEF OwnershipInv
<1>2. job[w].task \in Stages /\ <<job[w].task, 1>> \in claimed
  BY ActingTask DEF Kept
<1>3. \A v \in Workers \ {w} : ~Delivering(v)
  BY DEF ChainState, OneActs
<1>4. \A v \in Workers \ {w} : pc'[v] \notin Writing
  BY <1>1, <1>3 DEF Delivering, Owning, Writing
<1>5. \A v \in Workers : pc'[v] # "idle" /\ job'[v].task \in Stages =>
         pc[v] # "idle" /\ job'[v].task = job[v].task
  <2>1. pc[w] # "idle" /\ pc'[w] \in Phases /\ "journey" \notin Stages
    BY DEF Delivering, Owning, TypeOK, Stages
  <2>2. pc'[w] # "publish"
    BY DEF KeepsClaims, WorkerStep, Delivering, Owning, BeginJourney, PublishChain, ClaimStage,
           ReadAtBegin, BeginStage, SkipRetainedPrimary, StageWork, ObserveBrowser,
           ReportProgress, StoreArtifact, FinishStage, MarkStageFailed, ForwardChain,
           ExecuteWorkflow, RunAgents, FinalizeExecution, ReadRow, Rest, Goto, TypeOK
  <2> QED
    BY <1>1, <2>1, <2>2
<1>6. pc'[w] = "forward" /\ status' \notin Terminal => Ended(job[w].task)'
  <2> SUFFICES ASSUME pc'[w] = "forward", status' \notin Terminal PROVE Ended(job[w].task)'
    OBVIOUS
  <2>1. job'[w] = job[w]
    BY DEF Phases
  <2>2. \A v \in Workers : ~Delivering(v)'
    BY <1>1, <1>3 DEF Delivering, Owning
  <2> QED
    BY <1>2, <2>1, <2>2 DEF Ended, KeepsClaims
<1> QED
  BY <1>1, <1>2, <1>4, <1>5, <1>6 DEF KeepsChain

\* The actor reads the row, or moves without writing the document.
LEMMA ReaderChain ==
    ASSUME OwnershipInv, ChainState, FirstAttempt, Kept, Kept', TypeOK',
           NEW w \in Workers, WorkerStep(w), Delivering(w), KeepsClaims,
           UNCHANGED <<out, queue, job>>,
           pc'[w] \in Writing => copy'[w].out = out,
           status' \in {"completed", "partial"} => status \in {"completed", "partial"},
           pc'[w] = "forward" => status' \in Terminal \/ job[w].task \notin Recorded
    PROVE  KeepsChain
BY ActorChain

\* The actor writes what it read; nobody else has written since.
LEMMA WriterChain ==
    ASSUME OwnershipInv, ChainState, FirstAttempt, Kept, Kept', TypeOK',
           NEW w \in Workers, WorkerStep(w), pc[w] \in Writing, pc'[w] \notin Writing, KeepsClaims,
           pc'[w] \in Phases \ {"idle", "publish"} => job'[w] = job[w],
           UNCHANGED queue,
           out' = out \/ out'.done = copy[w].out.done
             \/ out'.done = WithCompleted(copy[w].out.done, job[w].task),
           status' \in {"completed", "partial"} =>
              status \in {"completed", "partial"} \/ out'.done = Recorded,
           status' \notin Terminal /\ pc'[w] = "forward" /\ job[w].task \in Recorded =>
              job[w].task \in out'.done
    PROVE  KeepsChain
<1>1. Delivering(w)
  BY DEF Delivering, Owning, Writing
<1>2. copy[w].out.done = out.done
  BY DEF ChainState, RecordIsCurrent
<1>3. out.done \subseteq out'.done /\ \A s \in out'.done : s \in out.done \/ s = job[w].task
  BY <1>2 DEF WithCompleted
<1> QED
  BY <1>1, <1>3, ActorChain

LEMMA WorkerChain ==
    ASSUME OwnershipInv, TypeOK', JobShape, FirstAttempt, ChainState, Kept, Kept', FirstMove,
           NEW w \in Workers, WorkerStep(w)
    PROVE  KeepsChain \/ \E s \in Stages, a \in Attempts : ClaimStage(w, s, a) /\ NewClaim(w, s)
<1>1. TypeOK /\ \A v \in Workers \ {w} : pc'[v] = pc[v] /\ job'[v] = job[v] /\ copy'[v] = copy[v]
  BY OthersRest DEF OwnershipInv
<1>2. KeepsClaims \/ \E s \in Stages : NewClaim(w, s)
  BY <1>1, WorkerStepClaims
<1>3. pc'[w] # "begin" => KeepsClaims
  BY <1>1, <1>2 DEF NewClaim, TypeOK
<1>4. /\ \A s \in out.done : <<s, 1>> \in claimed
      /\ \A v \in Workers : pc[v] \in Writing => copy[v].out.done = out.done
  BY DEF ChainState, RecordIsCurrent
<1>5. ASSUME NEW a \in Attempts, BeginJourney(w, a) PROVE KeepsChain
  <2>1. KeepsClaims /\ (UNCHANGED <<pc, job>> \/ pc'[w] = "publish") /\ UNCHANGED copy
    <3>1. UNCHANGED <<pc, job>> \/ pc'[w] = "publish"
      BY <1>1, <1>5, StepTargets
    <3>2. pc'[w] # "begin"
      BY <3>1, <1>5 DEF BeginJourney
    <3> QED
      BY <1>3, <1>5, <3>1, <3>2 DEF BeginJourney
  <2>2. out'.done = out.done
    <3> DEFINE b == IF attempt > 1 THEN FALSE ELSE out.ready
               D == IF attempt > 1 THEN out.done \ {"browser_compatibility"} ELSE out.done
    <3>1. out' = out \/ out' = [out EXCEPT !.journey = "running", !.done = D, !.ready = b]
      BY <1>5 DEF BeginJourney
    <3>2. D = out.done
      BY DEF Kept
    <3> HIDE DEF D, b
    <3> QED
      BY <1>1, <3>1, <3>2 DEF TypeOK, Output
  <2>3. status' \in {status, "running"}
    BY <1>5 DEF BeginJourney
  <2>4. \A s \in Stages, b \in Attempts : queue'[<<s, b>>] = queue[<<s, b>>]
    <3>1. \A s \in Stages, b \in Attempts : <<s, b>> # <<"journey", a>>
      BY DEF Stages
    <3>2. queue' = [queue EXCEPT ![<<"journey", a>>] = @ - 1]
      BY <1>5 DEF BeginJourney, Take
    <3> QED
      BY <1>1, <3>1, <3>2 DEF TypeOK, Messages, Tasks
  <2>5. \A v \in Workers : pc'[v] \in Writing \cup {"forward"} =>
           pc[v] = pc'[v] /\ job'[v] = job[v] /\ copy'[v] = copy[v]
    BY <1>1, <2>1 DEF Writing
  <2>6. \A v \in Workers : pc'[v] # "idle" /\ job'[v].task \in Stages =>
           pc[v] # "idle" /\ job'[v].task = job[v].task
    <3>1. \/ UNCHANGED <<pc, job>>
          \/ job' = [job EXCEPT ![w] = [task |-> "journey", gen |-> a, epoch |-> attempt]]
      BY <1>5 DEF BeginJourney
    <3>2. UNCHANGED <<pc, job>> \/ job'[w].task = "journey"
      BY <1>1, <3>1 DEF TypeOK
    <3>3. "journey" \notin Stages
      BY DEF Stages
    <3> QED
      BY <1>1, <3>2, <3>3
  <2> QED
    BY <1>4, <2>1, <2>2, <2>3, <2>4, <2>5, <2>6 DEF KeepsChain
<1>6. CASE PublishChain(w) \/ ForwardChain(w)
  <2>1. /\ pc'[w] = "idle" /\ pc[w] \in {"publish", "forward"}
        /\ UNCHANGED <<out, status, copy>>
    BY <1>1, <1>6 DEF PublishChain, ForwardChain, Rest, Goto, row, TypeOK
  <2>2. KeepsClaims
    BY <1>3, <2>1
  <2>3. status' \notin Terminal => \A s \in Stages, a \in Attempts :
           queue'[<<s, a>>] > 0 => queue[<<s, a>>] > 0 \/ Reached(s)
    <3> SUFFICES ASSUME status \notin Terminal, NEW s \in Stages, NEW a \in Attempts,
                        queue'[<<s, a>>] > 0, ~(queue[<<s, a>>] > 0)
                 PROVE  Reached(s)
      BY <2>1
    <3>1. CASE PublishChain(w)
      <4>1. PICK m : m = <<Successor["journey"], job[w].epoch>>
        OBVIOUS
      <4>2. queue' = [queue EXCEPT ![m] = @ + 1]
        BY <3>1, <4>1 DEF PublishChain, Send
      <4>3. <<s, a>> = m
        BY <1>1, <4>2 DEF TypeOK
      <4>4. s = Successor["journey"]
        BY <4>1, <4>3
      <4> QED
        BY <4>4, EarlierStages DEF Reached
    <3>2. CASE ForwardChain(w)
      <4>1. Successor[job[w].task] # "none" /\ s = Successor[job[w].task]
        <5>1. PICK m : m = <<Successor[job[w].task], job[w].gen>>
          OBVIOUS
        <5>2. /\ Successor[job[w].task] # "none"
              /\ queue' = [queue EXCEPT ![m] = @ + 1]
          BY <3>2, <5>1 DEF ForwardChain, Send
        <5>3. <<s, a>> = m
          BY <1>1, <5>2 DEF TypeOK
        <5> QED
          BY <5>1, <5>2, <5>3
      <4>2. job[w].task \in Stages /\ Ended(job[w].task) /\ Reached(job[w].task)
        BY <3>2 DEF ForwardChain, JobShape, ChainState, ChainIsOrdered
      <4>3. Earlier(s) = Earlier(job[w].task) \cup {job[w].task}
        BY <4>1, <4>2, EarlierStages
      <4> QED
        BY <4>2, <4>3 DEF Reached
    <3> QED
      BY <1>6, <3>1, <3>2
  <2>4. \A v \in Workers : pc'[v] # "idle" => v # w
    BY <2>1
  <2>5. \A v \in Workers : pc'[v] # "idle" =>
           pc[v] = pc'[v] /\ job'[v] = job[v] /\ copy'[v] = copy[v]
    BY <1>1, <2>4
  <2>6. \A v \in Workers : pc'[v] \in Writing \cup {"forward"} => pc'[v] # "idle"
    BY DEF Writing
  <2> QED
    BY <1>4, <2>1, <2>2, <2>3, <2>5, <2>6 DEF KeepsChain
<1>7. ASSUME NEW s \in Stages, NEW a \in Attempts, ClaimStage(w, s, a)
      PROVE  KeepsChain \/ NewClaim(w, s)
  <2>1. CASE ~Owned(s) /\ status \notin Terminal
    BY <1>7, <2>1 DEF ClaimStage, NewClaim, Goto
  <2>2. CASE Owned(s) \/ status \in Terminal
    <3>1. /\ UNCHANGED <<out, status, copy>> /\ pc[w] = "idle"
          /\ UNCHANGED <<pc, job>> \/ (pc'[w] = "forward" /\ status' \in Terminal)
      BY <1>1, <1>7, <2>2 DEF ClaimStage, Ignore, Goto, TypeOK
    <3>2. KeepsClaims
      BY <1>3, <3>1
    <3>3. \A t \in Stages, b \in Attempts : queue'[<<t, b>>] > 0 => queue[<<t, b>>] > 0
      BY <1>1, <1>7 DEF ClaimStage, Take, TypeOK, Messages, Tasks
    <3>4. \A v \in Workers : pc'[v] \in Writing => pc[v] = pc'[v] /\ copy'[v] = copy[v]
      BY <1>1, <3>1 DEF Writing
    <3> QED
      BY <1>1, <1>4, <3>1, <3>2, <3>3, <3>4 DEF KeepsChain
  <2> QED
    BY <2>1, <2>2
<1>8. ASSUME NEW p \in Phases \ {"begin", "forward", "idle"}, ReadRow(w, p), Delivering(w) PROVE KeepsChain
  <2>1. UNCHANGED <<out, queue, job, status>> /\ pc'[w] = p /\ copy'[w].out = out
    BY <1>1, <1>8 DEF ReadRow, broker, Goto, RowCopy, TypeOK
  <2> QED
    BY <1>3, <1>8, <2>1, ReaderChain
<1>9. CASE ReadAtBegin(w) \/ SkipRetainedPrimary(w) \/ StageWork(w) \/ ObserveBrowser(w)
  BY <1>8, <1>9 DEF ReadAtBegin, SkipRetainedPrimary, StageWork, ObserveBrowser, Phases, Owning,
                    Delivering
<1>10. CASE BeginStage(w)
  <2>1. /\ pc[w] \in Writing /\ pc'[w] \in {"execute", "work"} /\ UNCHANGED <<queue, job>>
    BY <1>1, <1>10 DEF BeginStage, WriteFrame, broker, Goto, Writing, TypeOK
  <2>2. PICK b \in BOOLEAN : UpdateJourneyStage(w, [copy[w].out EXCEPT !.ready = b])
    BY <1>10 DEF BeginStage
  <2>3. [copy[w].out EXCEPT !.ready = b] \in Output
        /\ [copy[w].out EXCEPT !.ready = b].done = copy[w].out.done
    BY <1>1, CopyTypes, OutputUpdates DEF Output
  <2>4. out' = out \/ out'.done = copy[w].out.done
    BY <1>4, <2>1, <2>2, <2>3, UpdateDone
  <2>5. status' = status
    BY <1>1, <2>1, <2>2, UpdateFirst DEF Kept
  <2> QED
    BY <1>3, <2>1, <2>4, <2>5, WriterChain DEF Writing
<1>11. CASE ReportProgress(w) \/ StoreArtifact(w)
  <2>1. /\ pc[w] \in Writing /\ pc'[w] = "work" /\ UNCHANGED <<queue, job>>
    BY <1>1, <1>11 DEF ReportProgress, StoreArtifact, WriteFrame, broker, Goto, Writing, TypeOK
  <2>2. out'.done = copy[w].out.done /\ status' = status
    <3>1. CASE ReportProgress(w)
      BY <1>1, <1>4, <2>1, <3>1, CopyTypes, UpdateDone, UpdateFirst DEF ReportProgress, Kept
    <3>2. CASE StoreArtifact(w)
      BY <1>4, <2>1, <3>2 DEF StoreArtifact, Persist
    <3> QED
      BY <1>11, <3>1, <3>2
  <2> QED
    BY <1>3, <2>1, <2>2, WriterChain DEF Writing
<1>12. CASE FinishStage(w)
  <2> DEFINE D == WithCompleted(copy[w].out.done, job[w].task)
  <2>1. /\ pc[w] \in Writing /\ pc'[w] = "forward" /\ UNCHANGED <<queue, job>>
    BY <1>1, <1>12 DEF FinishStage, WriteFrame, broker, Goto, Writing, TypeOK
  <2>2. PICK b \in BOOLEAN :
           UpdateJourneyStage(w, [copy[w].out EXCEPT !.done = D, !.primary = b])
    BY <1>12 DEF FinishStage
  <2>3. [copy[w].out EXCEPT !.done = D, !.primary = b] \in Output
        /\ [copy[w].out EXCEPT !.done = D, !.primary = b].done = D
    <3>1. D \in SUBSET Recorded
      BY <1>1, CopyTypes, OutputUpdates DEF WithCompleted
    <3> HIDE DEF D
    <3>2. copy[w].out \in Output
      BY <1>1, CopyTypes
    <3>3. [copy[w].out EXCEPT !.done = D, !.primary = b] \in Output
      BY <3>1, <3>2, OutputUpdates
    <3>4. [copy[w].out EXCEPT !.done = D, !.primary = b].done = D
      BY <3>2 DEF Output
    <3> QED
      BY <3>3, <3>4
  <2> HIDE DEF D
  <2>4. status' = status
    BY <1>1, <2>1, <2>2, UpdateFirst DEF Kept
  <2>5. \/ copy[w].status \in Terminal /\ out' = out
        \/ copy[w].status \notin Terminal /\ out'.done = D
    <3>1. CASE copy[w].status \in Terminal
      BY <2>2, <2>3, <3>1, UpdateDone
    <3>2. CASE copy[w].status \notin Terminal
      BY <2>2, <2>3, <3>2, PersistDone DEF UpdateJourneyStage, Journeys
    <3> QED
      BY <3>1, <3>2
  <2>6. copy[w].status \in Terminal => status \in Terminal
    BY <2>1 DEF FirstAttempt, Kept
  <2>7. job[w].task \in Recorded => job[w].task \in D
    BY DEF D, WithCompleted
  <2>8. out' = out \/ out'.done = WithCompleted(copy[w].out.done, job[w].task)
    BY <2>5 DEF D
  <2> QED
    BY <1>3, <2>1, <2>4, <2>5, <2>6, <2>7, <2>8, WriterChain DEF Writing
<1>13. CASE MarkStageFailed(w)
  <2>1. /\ pc[w] \in Writing /\ pc'[w] = "idle" /\ UNCHANGED queue
    BY <1>1, <1>13 DEF MarkStageFailed, WriteFrame, broker, Rest, Goto, Writing, TypeOK
  <2>2. (status' = status \/ status' = "failed") /\ (out' = out \/ out'.done = copy[w].out.done)
    BY <1>1, <1>13, CopyTypes, PersistDone DEF MarkStageFailed, Journeys
  <2> QED
    BY <1>3, <2>1, <2>2, WriterChain DEF Writing
<1>14. CASE ExecuteWorkflow(w)
  <2>1. /\ Delivering(w) /\ pc'[w] \in {"forward", "agents"} /\ UNCHANGED <<out, queue, job>>
        /\ job[w].task = "multi_agent_analysis" /\ status' \in {status, "running"}
    BY <1>1, <1>14 DEF ExecuteWorkflow, broker, Goto, TypeOK, Delivering, Owning, JobShape,
                       AgentPhases
  <2> QED
    BY <1>3, <2>1, ReaderChain DEF Writing, Recorded
<1>15. CASE RunAgents(w)
  <2>1. CASE status = "cancelled" /\ Goto(w, "forward")
             /\ UNCHANGED <<row, broker, job, copy, requests, faults, history>>
    <3>1. /\ Delivering(w) /\ pc'[w] = "forward" /\ UNCHANGED <<out, queue, job, status>>
      BY <1>1, <1>15, <2>1 DEF RunAgents, row, broker, Goto, TypeOK, Delivering, Owning
    <3> QED
      BY <1>3, <2>1, <3>1, StatusNames, ReaderChain DEF Writing
  <2>2. CASE ReadRow(w, "finalizeWrite") \/ ReadRow(w, "failWrite")
    BY <1>8, <1>15, <2>2 DEF RunAgents, Phases, Owning, Delivering
  <2> QED
    BY <1>15, <2>1, <2>2 DEF RunAgents
<1>16. CASE FinalizeExecution(w)
  <2>1. /\ pc[w] = "finalizeWrite" /\ pc[w] \in Writing /\ pc'[w] = "forward"
        /\ UNCHANGED <<queue, job>> /\ status' \in Terminal
    BY <1>1, <1>16, StatusNames
       DEF FinalizeExecution, WriteFrame, broker, Goto, Writing, TypeOK
  <2>2. out'.done = copy[w].out.done
    BY <1>1, <1>16, CopyTypes, PersistDone DEF FinalizeExecution, Journeys
  <2>3. out'.done = Recorded
    <3>1. job[w].task = "multi_agent_analysis" /\ Delivering(w)
      BY <2>1 DEF JobShape, AgentPhases, Delivering, Owning
    <3>2. Recorded \subseteq out.done
      BY <3>1, EarlierStages DEF ChainState, RecordIsCurrent
    <3>3. out.done \subseteq Recorded
      BY <1>1 DEF TypeOK, Output
    <3> QED
      BY <1>4, <2>1, <2>2, <3>2, <3>3
  <2> QED
    BY <1>3, <2>1, <2>2, <2>3, WriterChain DEF Writing
<1> QED
  BY <1>5, <1>6, <1>7, <1>9, <1>10, <1>11, <1>12, <1>13, <1>14, <1>15, <1>16 DEF WorkerStep

LEMMA RequestChain ==
    ASSUME OwnershipInv, TypeOK', FirstAttempt, FirstMove, ChainState, Kept, Kept',
           NEW r \in Requests, RequestStep(r)
    PROVE  KeepsChain
<1>1. TypeOK /\ KeepsClaims
  BY RequestStepClaims DEF OwnershipInv
<1>2. UNCHANGED workers
  BY DEF RequestStep, FetchExecution, CancelExecution, MarkStalled, PrepareResume,
         EnqueueJourney, RecordDispatch
<1>3. status' \in {"completed", "partial"} => status = status'
  BY DEF RequestStep, FetchExecution, CancelExecution, MarkStalled, PrepareResume,
         EnqueueJourney, RecordDispatch, row
<1>4. \A s \in Stages, a \in Attempts : queue'[<<s, a>>] = queue[<<s, a>>]
  <2>1. CASE EnqueueJourney(r)
    <3>1. \A s \in Stages, a, b \in Attempts : <<s, a>> # <<"journey", b>>
      BY DEF Stages
    <3> QED
      BY <1>1, <2>1, <3>1 DEF EnqueueJourney, Send, Messages, Tasks, TypeOK, RequestCopy
  <2>2. CASE ~EnqueueJourney(r)
    BY <2>2 DEF RequestStep, FetchExecution, CancelExecution, MarkStalled, PrepareResume,
                RecordDispatch, row, broker
  <2> QED
    BY <2>1, <2>2
<1>5. /\ out'.done = out.done
      /\ \A w \in Workers : pc[w] \in Writing => copy[w].out.done = out.done
  <2>1. \A w \in Workers : pc[w] \in Writing => copy[w].out.done = out.done
    BY DEF ChainState, RecordIsCurrent
  <2>2. CASE UNCHANGED out
    BY <2>1, <2>2
  <2>3. CASE RecordDispatch(r)
    <3>1. rcopy[r].out = EmptyOutput /\ EmptyOutput \in Output
      BY <2>3, InitialTypes DEF RecordDispatch, FirstAttempt, Kept
    <3>2. out' = [EmptyOutput EXCEPT !.journey = "queued"] /\ lost' = lost \cup Erased(out')
      BY <2>3, <3>1 DEF RecordDispatch, Persist
    <3>3. out'.done = {} /\ out'.owner = [s \in Stages |-> 0]
      BY <3>2 DEF EmptyOutput
    <3>4. \A c \in claimed : FALSE
      <4> SUFFICES ASSUME NEW c \in claimed PROVE FALSE
        OBVIOUS
      <4>1. c \in Stages \X Attempts /\ c[1] \in Stages /\ c[2] = 1
        BY <1>1 DEF TypeOK, FirstAttempt, Kept
      <4>2. out.owner[c[1]] >= c[2]
        BY DEF OwnershipInv, ClaimsHeld, Kept
      <4>3. c \in Erased(out')
        BY <3>3, <4>1, <4>2 DEF Erased
      <4> QED
        BY <3>2, <4>3 DEF Kept
    <3>5. out.done = {}
      BY <3>4 DEF ChainState, RecordIsCurrent
    <3> QED
      BY <2>1, <3>3, <3>5
  <2> QED
    BY <2>2, <2>3 DEF RequestStep, FetchExecution, CancelExecution, MarkStalled, PrepareResume,
                      EnqueueJourney, row
<1> QED
  BY <1>1, <1>2, <1>3, <1>4, <1>5 DEF KeepsChain, workers, ChainState, RecordIsCurrent

LEMMA FaultChain ==
    ASSUME OwnershipInv, TypeOK', FirstAttempt, FirstMove, ChainState, Kept, Kept', Fault
    PROVE  KeepsChain
<1>1. TypeOK /\ KeepsClaims
  BY FaultClaims DEF OwnershipInv
<1>2. UNCHANGED out /\ (status' = status \/ status' = "failed")
  BY DEF Fault, DiscardRevoked, FallSilent, Redeliver, WorkerCrash, EnqueueFails, RequestCrash, row
<1>3. \A w \in Workers : pc'[w] # "idle" =>
         pc'[w] = pc[w] /\ job'[w] = job[w] /\ copy'[w] = copy[w]
  <2>1. ASSUME NEW v \in Workers, WorkerCrash(v)
        PROVE  \A w \in Workers : pc'[w] # "idle" =>
                  pc'[w] = pc[w] /\ job'[w] = job[w] /\ copy'[w] = copy[w]
    BY <1>1, <2>1 DEF WorkerCrash, Rest, Goto, DropCopy, TypeOK
  <2>2. CASE UNCHANGED workers
    BY <2>2 DEF workers
  <2> QED
    BY <2>1, <2>2 DEF Fault, DiscardRevoked, FallSilent, Redeliver, EnqueueFails, RequestCrash
<1>4. status' \notin Terminal => \A s \in Stages, a \in Attempts :
         queue'[<<s, a>>] > 0 => queue[<<s, a>>] > 0 \/ Reached(s)
  <2> SUFFICES ASSUME status' \notin Terminal, NEW s \in Stages, NEW a \in Attempts,
                      queue'[<<s, a>>] > 0, ~(queue[<<s, a>>] > 0)
               PROVE  Reached(s)
    OBVIOUS
  <2>1. status \notin Terminal
    BY DEF FirstMove
  <2>2. ASSUME NEW w \in Workers, pc[w] # "idle", Send(Message(w)) PROVE Reached(s)
    <3>1. PICK m : m = Message(w)
      OBVIOUS
    <3>2. queue' = [queue EXCEPT ![m] = @ + 1]
      BY <2>2, <3>1 DEF Send
    <3>3. <<s, a>> = m
      BY <1>1, <3>2 DEF TypeOK
    <3>4. s = job[w].task
      BY <3>1, <3>3 DEF Message
    <3> QED
      BY <2>1, <2>2, <3>4 DEF ChainState, ChainIsOrdered
  <2>3. ASSUME NEW m \in Messages, DiscardRevoked(m) PROVE FALSE
    BY <1>1, <2>3 DEF DiscardRevoked, Take, TypeOK, Messages, Tasks
  <2> QED
    BY <2>2, <2>3 DEF Fault, FallSilent, Redeliver, WorkerCrash, EnqueueFails, RequestCrash, broker
<1>5. \A w \in Workers : pc'[w] \in Writing \cup {"forward"} => pc'[w] # "idle"
  BY DEF Writing
<1>6. \A w \in Workers : pc[w] \in Writing => copy[w].out.done = out.done
  BY DEF ChainState, RecordIsCurrent
<1>7. \A s \in out.done : s \in out'.done
  BY <1>2
<1> QED
  BY <1>1, <1>2, <1>3, <1>4, <1>5, <1>6 DEF KeepsChain

LEMMA ChainStep ==
    ASSUME ChainInv, [Next]_vars, OwnershipInv', Kept, Kept'
    PROVE  /\ FirstMove
           /\ ChainState'
           /\ out.done \subseteq out'.done
<1>1. /\ OwnershipInv /\ JobShape /\ FirstAttempt /\ ChainState /\ TypeOK /\ TypeOK'
      /\ attempt = 1 /\ attempt' = 1
  BY DEF ChainInv, ChainState, OwnershipInv, Kept
<1>2. FirstMove /\ FirstAttempt'
  BY <1>1, FirstSteps, FirstMoveKeeps
<1>3. CASE KeepsChain
  BY <1>1, <1>2, <1>3, KeepsChainKeeps DEF KeepsChain, FirstMove
<1>4. ASSUME NEW w \in Workers, NEW s \in Stages, NEW a \in Attempts,
             ClaimStage(w, s, a), NewClaim(w, s)
      PROVE  ChainState' /\ out.done \subseteq out'.done
  <2>1. out'.done = out.done
    BY <1>1, <1>4 DEF NewClaim, TypeOK, Output
  <2> QED
    BY <1>1, <1>2, <1>4, <2>1, NewClaimChain
<1>5. CASE UNCHANGED vars
  <2>1. KeepsClaims
    BY <1>5 DEF vars, row, workers, history, KeepsClaims, Delivering, Claim
  <2>2. KeepsChain
    BY <1>1, <1>5, <2>1 DEF vars, row, broker, workers, KeepsChain, ChainState, RecordIsCurrent
  <2> QED
    BY <1>3, <2>2
<1>6. ASSUME NEW w \in Workers, WorkerStep(w)
      PROVE  ChainState' /\ out.done \subseteq out'.done
  BY <1>1, <1>2, <1>3, <1>4, <1>6, WorkerChain
<1>7. ASSUME NEW r \in Requests, RequestStep(r) PROVE KeepsChain
  BY <1>1, <1>2, <1>7, RequestChain
<1>8. CASE Fault
  BY <1>1, <1>2, <1>3, <1>8, FaultChain
<1> QED
  BY <1>2, <1>3, <1>5, <1>6, <1>7, <1>8 DEF Next

LEMMA ChainInductive == ChainInv /\ [Next]_vars => ChainInv'
<1> SUFFICES ASSUME ChainInv, [Next]_vars PROVE ChainInv'
  OBVIOUS
<1>1. OwnershipInv /\ OwnershipInv' /\ TypeOK /\ JobShape /\ FirstAttempt
  BY OwnershipInductive DEF ChainInv, OwnershipInv
<1>2. JobShape'
  BY <1>1, JobShapeStep
<1>3. attempt' = 1 => attempt = 1
  BY <1>1, AttemptGrows
<1>4. FirstAttempt'
  <2>1. CASE attempt' = 1
    BY <1>1, <1>3, <2>1, FirstSteps, FirstMoveKeeps
  <2>2. CASE attempt' # 1
    BY <2>2 DEF FirstAttempt
  <2> QED
    BY <2>1, <2>2
<1>5. lost \subseteq lost'
  <2>1. ASSUME NEW w \in Workers, WorkerStep(w) PROVE lost \subseteq lost'
    BY <1>1, <2>1, WorkerStepClaims DEF KeepsClaims, NewClaim
  <2> QED
    BY <1>1, <2>1, RequestStepClaims, FaultClaims DEF KeepsClaims, Next, vars, history
<1>6. Kept' => Kept
  BY <1>3, <1>5 DEF Kept
<1>7. ChainState'
  <2>1. CASE Kept'
    BY <1>1, <1>6, <2>1, ChainStep
  <2>2. CASE ~Kept'
    BY <2>2 DEF ChainState, OneActs, RecordIsCurrent, ChainIsOrdered
  <2> QED
    BY <2>1, <2>2
<1> QED
  BY <1>1, <1>2, <1>4, <1>7 DEF ChainInv, ChainState

LEMMA ChainInit == Init => ChainInv
<1> SUFFICES ASSUME Init PROVE ChainInv
  OBVIOUS
<1>1. OwnershipInv
  BY OwnershipInit
<1>2. /\ \A w \in Workers : pc[w] = "idle" /\ ~Delivering(w) /\ pc[w] \notin Writing
      /\ claimed = {} /\ out = EmptyOutput /\ status = "pending" /\ out.done = {}
      /\ \A s \in Stages, a \in Attempts : queue[<<s, a>>] = 0
      /\ \A r \in Requests : rcopy[r].out = EmptyOutput
  BY DEF Init, Delivering, Owning, Writing, EmptyOutput, Messages, Tasks, NoRequestCopy
<1>3. JobShape /\ FirstAttempt
  BY <1>2 DEF JobShape, FirstAttempt, AgentPhases
<1>4. OneActs /\ RecordIsCurrent
  BY <1>2 DEF OneActs, RecordIsCurrent
<1>5. ChainIsOrdered
  BY <1>2 DEF ChainIsOrdered
<1> QED
  BY <1>1, <1>3, <1>4, <1>5 DEF ChainInv

LEMMA ChainAlways == Spec => []ChainInv
BY ChainInit, ChainInductive, PTL DEF Spec

\* While no claim is erased, one task of the first attempt acts at a time, whatever
\* the broker delivers again and whoever dies: ClaimStage lets a stage in only when
\* its message was sent, and ForwardChain sends it when the stages before have ended.
THEOREM ChainIsStrict == Spec => []StrictChain
<1>1. ASSUME ChainInv PROVE StrictChain
  <2> SUFFICES ASSUME Kept PROVE Cardinality({w \in Workers : Delivering(w)}) <= 1
    BY DEF StrictChain, Kept
  <2> DEFINE D == {w \in Workers : Delivering(w)}
  <2>1. CASE D = {}
    BY <2>1, FS_EmptySet
  <2>2. CASE D # {}
    <3>1. PICK w \in D : TRUE
      BY <2>2
    <3>2. D = {w}
      BY <1>1, <3>1 DEF ChainInv, OneActs
    <3> QED
      BY <3>2, FS_Singleton
  <2> QED
    BY <2>1, <2>2
<1> QED
  BY <1>1, ChainAlways, PTL

\* The first attempt ends completed or partial only when discovery, page analysis and
\* the browser stage are recorded as completed, unless a claim was erased.
THEOREM JourneyIsWhole == Spec => []WholeJourney
<1>1. ASSUME ChainInv PROVE WholeJourney
  BY <1>1 DEF ChainInv, RecordIsCurrent, WholeJourney, Kept
<1> QED
  BY <1>1, ChainAlways, PTL

\* No worker, request or fault takes the first attempt out of a terminal status: a
\* worker that writes running read the row while it was pending, when nobody acts.
THEOREM TerminalStays == Spec => NoRevival
<1>1. ASSUME ChainInv, [Next]_vars
      PROVE  [attempt = 1 /\ status \in Terminal /\ status' \in Active => attempt' > attempt]_vars
  <2> SUFFICES ASSUME attempt = 1, status \in Terminal, status' \in Active PROVE attempt' > attempt
    OBVIOUS
  <2>1. TypeOK /\ TypeOK' /\ OwnershipInv /\ JobShape /\ FirstAttempt
    BY <1>1, TypeInductive DEF ChainInv, OwnershipInv
  <2>2. attempt' # 1
    BY <1>1, <2>1, FirstSteps DEF FirstMove, Active, Terminal
  <2> QED
    BY <2>1, <2>2 DEF TypeOK, Attempts
<1> QED
  BY <1>1, ChainInit, ChainInductive, PTL DEF Spec, NoRevival

\* A stage recorded as completed stays recorded through every write of the whole
\* document, in the first attempt and as long as no claim is erased.
THEOREM RecordStays == Spec => RecordedIsKept
<1>1. ASSUME ChainInv, ChainInv', [Next]_vars
      PROVE  [lost' = {} /\ attempt = 1 => out.done \subseteq out'.done]_vars
  <2> SUFFICES ASSUME lost' = {}, attempt = 1 PROVE out.done \subseteq out'.done
    OBVIOUS
  <2>1. TypeOK /\ OwnershipInv'
    BY <1>1 DEF ChainInv, OwnershipInv
  <2>2. lost = {}
    <3>1. ASSUME NEW w \in Workers, WorkerStep(w) PROVE lost \subseteq lost'
      BY <2>1, <3>1, WorkerStepClaims DEF KeepsClaims, NewClaim
    <3> QED
      BY <1>1, <2>1, <3>1, RequestStepClaims, FaultClaims DEF KeepsClaims, Next, vars, history
  <2>3. CASE attempt' = 1
    BY <1>1, <2>1, <2>2, <2>3, ChainStep DEF Kept
  <2>4. CASE attempt' # 1
    \* only a request that resumes opens another attempt, and it leaves the document
    BY <1>1, <2>1, <2>4, ResumeKeepsDocument
  <2> QED
    BY <2>3, <2>4
<1> QED
  BY <1>1, ChainInit, ChainInductive, PTL DEF Spec, RecordedIsKept
=============================================================================
