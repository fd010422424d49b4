------------------------ MODULE BrowserUatTier0Proofs ------------------------
(***************************************************************************)
(* Proofs about BrowserUatTier0, for any executions, analysis runs,         *)
(* websites, requests and workers, and any number of errors and deaths:     *)
(* types, one check in flight on a website, one provider run for a check,   *)
(* no usable verdict before the evidence is stored, rows stored once until  *)
(* a second death or a third run of the script under one key, and shown     *)
(* evidence kept until a first death.                                       *)
(***************************************************************************)
EXTENDS BrowserUatTier0, FiniteSetTheorems, TLAPS

LEMMA SiteType == \A e \in Executions : Site(e) \in {SiteOf[u] : u \in Runs}
BY DEF Site, Runs

-----------------------------------------------------------------------------
(* Types.                                                                  *)

\* The provider is polled within the limit: the next attempt is one of the model's.
PollsBounded ==
    \A w \in Workers :
        /\ pc[w] \in {"read", "poll", "again"} => msg[w].task = "poll"
        /\ pc[w] \in {"poll", "again"} => msg[w].attempt <= MaxPolls

LEMMA TypeInit == Init => TypeOK
BY Tier0Assumption, SiteType
   DEF Init, OwnKeys, Found, TypeOK, Attempts, Statuses, InFlight, Usable, Phases, Messages, NoMessage

\* A worker at work has a message, and a message names an execution.
LEMMA MessageType ==
    ASSUME TypeOK, NEW w \in Workers, pc[w] # "idle"
    PROVE  /\ msg[w] \in Messages
           /\ Of(w) \in Executions
           /\ msg[w].task \in {"dispatch", "poll"}
           /\ msg[w].task = "poll" => msg[w].attempt \in Attempts
BY DEF TypeOK, Messages, Of

LEMMA PollAdded ==
    ASSUME TypeOK, NEW e \in Executions, NEW n \in Attempts, NEW k \in Nat,
           polls' = [polls EXCEPT ![e][n] = k]
    PROVE  /\ polls' \in [Executions -> [Attempts -> Nat]]
           /\ \A f \in Executions, i \in Attempts :
                 polls'[f][i] = IF f = e /\ i = n THEN k ELSE polls[f][i]
<1> DEFINE g == [polls[e] EXCEPT ![n] = k]
<1>1. g \in [Attempts -> Nat] /\ \A i \in Attempts : g[i] = IF i = n THEN k ELSE polls[e][i]
  BY DEF TypeOK
<1>2. polls' = [polls EXCEPT ![e] = g]
  OBVIOUS
<1> HIDE DEF g
<1> QED
  BY <1>1, <1>2 DEF TypeOK

LEMMA ViewportsReplaced ==
    ASSUME TypeOK, NEW e \in Executions, NEW j \in Jobs, NEW k \in Nat,
           viewports' = [viewports EXCEPT ![e][j] = k]
    PROVE  /\ viewports' \in [Executions -> [Jobs -> Nat]]
           /\ \A f \in Executions, i \in Jobs :
                 viewports'[f][i] = IF f = e /\ i = j THEN k ELSE viewports[f][i]
<1> DEFINE g == [viewports[e] EXCEPT ![j] = k]
<1>1. g \in [Jobs -> Nat] /\ \A i \in Jobs : g[i] = IF i = j THEN k ELSE viewports[e][i]
  BY DEF TypeOK
<1>2. viewports' = [viewports EXCEPT ![e] = g]
  OBVIOUS
<1> HIDE DEF g
<1> QED
  BY <1>1, <1>2 DEF TypeOK

\* The rows a transaction leaves: one set of them, or one more than it found.
LEMMA ReplacedType ==
    ASSUME NEW found, NEW n \in Nat
    PROVE  Replaced(found, n) \in Nat /\ Replaced(found, n) > 0
BY DEF Replaced

LEMMA TypeRequests ==
    ASSUME TypeOK, NEW r \in Requests, RequestStep(r) \/ ManualFails(r)
    PROVE  TypeOK'
<1>0. wanted[r] \in Executions /\ Site(wanted[r]) \in {SiteOf[u] : u \in Runs}
  BY SiteType DEF TypeOK
<1>1. CASE LockWebsite(r)
  BY <1>0, <1>1 DEF LockWebsite, RGoto, TypeOK, table, script, broker, remote, workers, ingestion, bounds
<1>2. CASE CheckInFlight(r)
  <2>1. \E p \in {"insert", "ingest", "closed"} : RGoto(r, p)
    BY <1>2 DEF CheckInFlight
  <2>2. UNCHANGED lock \/ Unlock(r)
    BY <1>2 DEF CheckInFlight
  <2>3. lock' \in [{SiteOf[u] : u \in Runs} -> Requests \cup {"none"}]
    BY <1>0, <2>2 DEF Unlock, TypeOK
  <2>4. UNCHANGED <<table, wanted, script, broker, remote, workers, bounds>>
    BY <1>2 DEF CheckInFlight
  <2> QED
    BY <2>1, <2>3, <2>4 DEF RGoto, TypeOK, table, script, broker, remote, workers, ingestion, bounds
<1>3. CASE InsertExecution(r)
  BY <1>0, <1>3 DEF InsertExecution, RGoto, Unlock, TypeOK, Statuses, InFlight, script, broker, remote,
                    workers, ingestion, bounds
<1>4. CASE EnqueueDispatch(r)
  <2>1. dispatches' \in [Executions -> Nat] /\ errors' \in 0..MaxErrors
    <3>1. dispatches[wanted[r]] + 1 \in Nat
      BY <1>0 DEF TypeOK
    <3>2. UNCHANGED dispatches \/ dispatches' = [dispatches EXCEPT ![wanted[r]] = @ + 1]
      BY <1>4 DEF EnqueueDispatch
    <3>3. errors' \in 0..MaxErrors
      BY <1>4, Tier0Assumption DEF EnqueueDispatch, TypeOK
    <3> QED
      BY <1>0, <3>1, <3>2, <3>3 DEF TypeOK
  <2>2. RGoto(r, "closed") /\ UNCHANGED <<table, lock, wanted, script, polls, remote, workers, crashes>>
    BY <1>4 DEF EnqueueDispatch
  <2> QED
    BY <2>1, <2>2 DEF RGoto, TypeOK, table, script, remote, workers, ingestion
<1>5. CASE IngestManual(r)
  <2>1. PICK j \in Jobs : /\ result' = [result EXCEPT ![r] = j]
                          /\ finds' = [finds EXCEPT ![r] = FoundOf(wanted[r], j)]
    BY <1>5 DEF IngestManual
  <2>2. result' \in [Requests -> Jobs \cup {"none"}] /\ finds' \in [Requests -> Found]
    BY <2>1 DEF FoundOf, Found, TypeOK
  <2>3. RGoto(r, "write") /\ UNCHANGED <<table, lock, wanted, broker, remote, workers, bounds>>
    BY <1>5 DEF IngestManual
  <2>4. rpc' = [rpc EXCEPT ![r] = "write"]
    BY <2>3 DEF RGoto
  <2>5. \A q \in Requests : rpc'[q] \in {"write", "finish"} => result'[q] \in Jobs
    BY <2>1, <2>4 DEF TypeOK
  <2> QED
    BY <2>2, <2>3, <2>4, <2>5 DEF TypeOK, table, broker, remote, workers, ingestion, bounds
<1>8. CASE CommitManual(r)
  <2>0. result[r] \in Jobs /\ viewports[wanted[r]][result[r]] \in Nat
    BY <1>0, <1>8 DEF CommitManual, TypeOK
  <2> DEFINE n == Replaced(finds[r], viewports[wanted[r]][result[r]])
  <2>1. n \in Nat
    BY <2>0, ReplacedType
  <2>2. \/ UNCHANGED <<viewports, missed, finds>>
        \/ /\ viewports' = [viewports EXCEPT ![wanted[r]][result[r]] = n]
           /\ missed' = [missed EXCEPT ![wanted[r]] = @ \cup (Jobs \ {result[r]})]
           /\ finds' \in [Requests -> Found]
    BY <1>8 DEF CommitManual, TypeOK, Outrun, Found
  <2> HIDE DEF n
  <2>3. viewports' \in [Executions -> [Jobs -> Nat]]
    BY <1>0, <2>0, <2>1, <2>2, ViewportsReplaced DEF TypeOK
  <2>4. missed' \in [Executions -> SUBSET Jobs]
    <3>1. missed[wanted[r]] \cup (Jobs \ {result[r]}) \in SUBSET Jobs
      BY <1>0 DEF TypeOK
    <3> QED
      BY <1>0, <2>2, <3>1 DEF TypeOK
  <2>5. finds' \in [Requests -> Found]
    BY <2>2 DEF TypeOK
  <2>6. \E p \in {"finish", "closed"} : RGoto(r, p)
    BY <1>8 DEF CommitManual
  <2>7. UNCHANGED <<status, later, lock, wanted, result, broker, started, provider, workers, bounds>>
    BY <1>8 DEF CommitManual
  <2> QED
    BY <2>0, <2>3, <2>4, <2>5, <2>6, <2>7 DEF RGoto, TypeOK, broker, workers, ingestion, bounds
<1>6. CASE FinalizeManual(r)
  BY <1>0, <1>6 DEF FinalizeManual, Finished, RGoto, TypeOK, Statuses, script, broker, remote,
                    workers, ingestion, bounds
<1>7. CASE ManualFails(r)
  <2>1. errors' \in 0..MaxErrors
    BY <1>7, Tier0Assumption DEF ManualFails, TypeOK
  <2> QED
    BY <1>7, <2>1 DEF ManualFails, RGoto, TypeOK, table, script, broker, remote, workers, ingestion
<1> QED
  BY <1>1, <1>2, <1>3, <1>4, <1>5, <1>6, <1>7, <1>8 DEF RequestStep

LEMMA LeaveType ==
    ASSUME TypeOK, NEW w \in Workers, Leave(w)
    PROVE  /\ pc' \in [Workers -> Phases]
           /\ msg' \in [Workers -> Messages \cup {NoMessage}]
           /\ \A v \in Workers : pc'[v] # "idle" => msg'[v] \in Messages
           /\ todo' \in [Workers -> SUBSET Jobs]
           /\ page' \in [Workers -> Jobs \cup {"none"}]
           /\ \A v \in Workers : pc'[v] = "write" => page'[v] \in Jobs
           /\ sees' \in [Workers -> Found]
           /\ verdict' \in [Workers -> Usable \cup {"unavailable"}]
BY DEF Leave, Goto, TypeOK, Phases, Found

\* A step of a task that keeps its message.
LEMMA GotoType ==
    ASSUME TypeOK, NEW w \in Workers, NEW p \in Phases \ {"write"}, Goto(w, p), pc[w] # "idle"
    PROVE  /\ pc' \in [Workers -> Phases]
           /\ \A v \in Workers : pc'[v] # "idle" => msg[v] \in Messages
           /\ \A v \in Workers : pc'[v] = "write" => v # w /\ page[v] \in Jobs
BY DEF Goto, TypeOK

LEMMA TypeTasks ==
    ASSUME TypeOK, PollsBounded, NEW w \in Workers, WorkerStep(w)
    PROVE  TypeOK'
<1>1. ASSUME NEW e \in Executions, TakeDispatch(w, e) PROVE TypeOK'
  <2>1. dispatches' \in [Executions -> Nat]
    BY <1>1 DEF TakeDispatch, TypeOK
  <2>2. [task |-> "dispatch", of |-> e, attempt |-> 0] \in Messages
    BY DEF Messages
  <2> QED
    BY <1>1, <2>1, <2>2 DEF TakeDispatch, Goto, TypeOK, Phases, table, requests, remote, ingestion, bounds
<1>2. ASSUME NEW e \in Executions, NEW n \in Attempts, TakePoll(w, e, n) PROVE TypeOK'
  <2>0. polls[e][n] - 1 \in Nat
    BY <1>2 DEF TakePoll, TypeOK
  <2>1. polls' \in [Executions -> [Attempts -> Nat]]
    BY <1>2, <2>0, PollAdded DEF TakePoll
  <2>2. [task |-> "poll", of |-> e, attempt |-> n] \in Messages
    BY DEF Messages
  <2> QED
    BY <1>2, <2>1, <2>2 DEF TakePoll, Goto, TypeOK, Phases, table, requests, remote, ingestion, bounds
<1>3. CASE ClaimExecution(w)
  <2>1. Of(w) \in Executions /\ pc[w] # "idle"
    BY <1>3, MessageType DEF ClaimExecution
  <2>2. \E p \in {"trigger", "ack"} : Goto(w, p)
    BY <1>3 DEF ClaimExecution
  <2>3. pc' \in [Workers -> Phases] /\ (\A v \in Workers : pc'[v] # "idle" => msg[v] \in Messages)
        /\ (\A v \in Workers : pc'[v] = "write" => page[v] \in Jobs)
    BY <2>1, <2>2, GotoType DEF Phases
  <2>4. status' \in [Executions -> Statuses]
    BY <1>3, <2>1 DEF ClaimExecution, TypeOK, Statuses, InFlight
  <2> QED
    BY <1>3, <2>3, <2>4 DEF ClaimExecution, TypeOK, requests, broker, remote, ingestion, bounds
<1>4. CASE Trigger(w)
  <2>1. Of(w) \in Executions /\ pc[w] # "idle"
    BY <1>4, MessageType DEF Trigger
  <2>2. \E p \in {"schedule", "finalize"} : Goto(w, p)
    BY <1>4 DEF Trigger, Unavailable
  <2>3. pc' \in [Workers -> Phases] /\ (\A v \in Workers : pc'[v] # "idle" => msg[v] \in Messages)
        /\ (\A v \in Workers : pc'[v] = "write" => page[v] \in Jobs)
    BY <2>1, <2>2, GotoType DEF Phases
  <2>4. /\ started' \in [Executions -> Nat]
        /\ provider' \in [Executions -> {"none", "active", "success", "failure"}]
        /\ missed' \in [Executions -> SUBSET Jobs]
    <3>1. started[Of(w)] + 1 \in Nat
      BY <2>1 DEF TypeOK
    <3>2. \/ UNCHANGED <<started, provider, missed>>
          \/ /\ started' = [started EXCEPT ![Of(w)] = @ + 1]
             /\ provider' = [provider EXCEPT ![Of(w)] = "active"]
             /\ missed' = missed
      BY <1>4 DEF Trigger, remote
    <3>3. started' \in [Executions -> Nat]
      BY <2>1, <3>1, <3>2 DEF TypeOK
    <3>4. provider' \in [Executions -> {"none", "active", "success", "failure"}]
      BY <2>1, <3>2 DEF TypeOK
    <3> QED
      BY <3>2, <3>3, <3>4 DEF TypeOK
  <2>5. verdict' \in [Workers -> Usable \cup {"unavailable"}]
    BY <1>4 DEF Trigger, Unavailable, TypeOK
  <2>6. UNCHANGED <<table, requests, broker, msg, ingestion, bounds>>
    BY <1>4 DEF Trigger
  <2> QED
    BY <2>3, <2>4, <2>5, <2>6 DEF TypeOK, table, requests, broker, ingestion, bounds
<1>5. ASSUME NEW n \in Attempts, polls' = [polls EXCEPT ![Of(w)][n] = @ + 1], Goto(w, "ack"),
             pc[w] # "idle",
             UNCHANGED <<table, requests, dispatches, remote, msg, ingestion, verdict, bounds>>
      PROVE  TypeOK'
  <2>1. Of(w) \in Executions
    BY <1>5, MessageType
  <2>2. polls[Of(w)][n] + 1 \in Nat
    BY <2>1 DEF TypeOK
  <2>3. polls' \in [Executions -> [Attempts -> Nat]]
    BY <1>5, <2>1, <2>2, PollAdded
  <2>4. pc' \in [Workers -> Phases] /\ (\A v \in Workers : pc'[v] # "idle" => msg[v] \in Messages)
        /\ (\A v \in Workers : pc'[v] = "write" => page[v] \in Jobs)
    BY <1>5, GotoType DEF Phases
  <2> QED
    BY <1>5, <2>3, <2>4 DEF TypeOK, table, requests, remote, ingestion, bounds
<1>6. CASE SchedulePoll(w)
  <2>1. 1 \in Attempts
    BY Tier0Assumption DEF Attempts
  <2>2. polls' = [polls EXCEPT ![Of(w)][1] = @ + 1] /\ Goto(w, "ack") /\ pc[w] # "idle"
    BY <1>6 DEF SchedulePoll
  <2>3. UNCHANGED <<table, requests, dispatches, remote, msg, ingestion, verdict, bounds>>
    BY <1>6 DEF SchedulePoll
  <2> QED
    BY <1>5, <2>1, <2>2, <2>3
<1>7. CASE ReadExecution(w)
  <2>1. pc[w] # "idle"
    BY <1>7 DEF ReadExecution
  <2>2. \E p \in {"poll", "ack", "finalize"} : Goto(w, p)
    BY <1>7 DEF ReadExecution, Unavailable
  <2>3. pc' \in [Workers -> Phases] /\ (\A v \in Workers : pc'[v] # "idle" => msg[v] \in Messages)
        /\ (\A v \in Workers : pc'[v] = "write" => page[v] \in Jobs)
    BY <2>1, <2>2, GotoType DEF Phases
  <2>4. verdict' \in [Workers -> Usable \cup {"unavailable"}]
    BY <1>7 DEF ReadExecution, Unavailable, TypeOK
  <2> QED
    BY <1>7, <2>3, <2>4 DEF ReadExecution, TypeOK, table, requests, broker, remote, ingestion, bounds
<1>8. CASE Poll(w)
  <2>1. Of(w) \in Executions /\ pc[w] # "idle"
    BY <1>8, MessageType DEF Poll
  <2>2. \E p \in {"again", "ingest", "finalize"} : Goto(w, p)
    BY <1>8 DEF Poll, Unavailable
  <2>3. pc' \in [Workers -> Phases] /\ (\A v \in Workers : pc'[v] # "idle" => msg[v] \in Messages)
        /\ (\A v \in Workers : pc'[v] = "write" => page[v] \in Jobs)
    BY <2>1, <2>2, GotoType DEF Phases
  <2>4. verdict' \in [Workers -> Usable \cup {"unavailable"}]
    BY <1>8 DEF Poll, Unavailable, TypeOK, Usable
  <2>6. /\ todo' \in [Workers -> SUBSET Jobs]
        /\ missed' \in [Executions -> SUBSET Jobs]
    <3>1. \/ UNCHANGED <<todo, missed>>
          \/ \E loaded \in SUBSET Jobs :
                /\ todo' = [todo EXCEPT ![w] = loaded]
                /\ missed' = [missed EXCEPT ![Of(w)] = @ \cup (Jobs \ loaded)]
      BY <1>8 DEF Poll
    <3>2. missed[Of(w)] \in SUBSET Jobs
      BY <2>1 DEF TypeOK
    <3> QED
      BY <2>1, <3>1, <3>2 DEF TypeOK
  <2>5. UNCHANGED <<table, requests, broker, started, provider, msg, page, sees, bounds>>
    BY <1>8 DEF Poll
  <2> QED
    BY <2>3, <2>4, <2>5, <2>6 DEF TypeOK, table, requests, broker, bounds
<1>9. CASE PollAgain(w)
  <2> DEFINE n == NextAttempt(msg[w].attempt)
  <2>1. n \in Attempts
    <3>1. msg[w].task = "poll" /\ msg[w].attempt \in Nat /\ msg[w].attempt > 0
          /\ msg[w].attempt <= MaxPolls
      BY <1>9, MessageType, Tier0Assumption DEF PollAgain, PollsBounded, Attempts
    <3> QED
      BY <3>1, Tier0Assumption DEF Attempts, NextAttempt
  <2>2. polls' = [polls EXCEPT ![Of(w)][n] = @ + 1] /\ Goto(w, "ack") /\ pc[w] # "idle"
    BY <1>9 DEF PollAgain
  <2>3. UNCHANGED <<table, requests, dispatches, remote, msg, ingestion, verdict, bounds>>
    BY <1>9 DEF PollAgain
  <2> HIDE DEF n
  <2> QED
    BY <1>5, <2>1, <2>2, <2>3
<1>10. ASSUME NEW j \in Jobs, IngestJob(w, j) PROVE TypeOK'
  BY <1>10 DEF IngestJob, FoundOf, Found, Goto, TypeOK, Phases, table, requests, broker, remote, bounds
<1>11. CASE CommitJob(w)
  <2>1. Of(w) \in Executions /\ pc[w] # "idle" /\ page[w] \in Jobs
    BY <1>11, MessageType DEF CommitJob, TypeOK
  <2>2. viewports' \in [Executions -> [Jobs -> Nat]]
    <3>1. viewports[Of(w)][page[w]] \in Nat
      BY <2>1 DEF TypeOK
    <3> QED
      BY <1>11, <2>1, <3>1, ReplacedType, ViewportsReplaced DEF CommitJob, TypeOK
  <2>3. \E p \in {"ingest", "ack"} : Goto(w, p)
    BY <1>11 DEF CommitJob
  <2>4. pc' \in [Workers -> Phases] /\ (\A v \in Workers : pc'[v] # "idle" => msg[v] \in Messages)
        /\ (\A v \in Workers : pc'[v] = "write" => v # w /\ page[v] \in Jobs)
    BY <2>1, <2>3, GotoType DEF Phases
  <2>5. /\ todo' \in [Workers -> SUBSET Jobs]
        /\ sees' \in [Workers -> Found]
        /\ page' \in [Workers -> Jobs \cup {"none"}]
        /\ \A v \in Workers \ {w} : page'[v] = page[v]
    <3>1. page' = [page EXCEPT ![w] = "none"]
      BY <1>11 DEF CommitJob
    <3>2. UNCHANGED todo \/ todo' = [todo EXCEPT ![w] = @ \ {page[w]}]
      BY <1>11 DEF CommitJob
    <3>3. sees' \in [Workers -> Found]
      <4>1. \A found \in Found : Outrun(found) \in Found
        BY DEF Outrun, Found
      <4>2. \/ UNCHANGED sees
            \/ sees' = [v \in Workers |->
                  IF v = w THEN "nopage"
                  ELSE IF pc[v] = "write" /\ Of(v) = Of(w) /\ page[v] = page[w]
                       THEN Outrun(sees[v]) ELSE sees[v]]
        BY <1>11, Zenon DEF CommitJob
      <4>3. "nopage" \in Found
        BY DEF Found
      <4>4. sees \in [Workers -> Found]
        BY DEF TypeOK
      <4> QED
        BY <4>1, <4>2, <4>3, <4>4
    <3>4. todo' \in [Workers -> SUBSET Jobs]
      <4>1. todo \in [Workers -> SUBSET Jobs]
        BY DEF TypeOK
      <4>2. todo[w] \ {page[w]} \in SUBSET Jobs
        BY <4>1
      <4> QED
        BY <3>2, <4>1, <4>2
    <3>5. page \in [Workers -> Jobs \cup {"none"}]
      BY DEF TypeOK
    <3> QED
      BY <3>1, <3>3, <3>4, <3>5
  <2> QED
    BY <1>11, <2>2, <2>4, <2>5 DEF CommitJob, TypeOK, requests, broker, remote, bounds
<1>12. CASE FinalizeExecution(w)
  <2>1. Of(w) \in Executions /\ pc[w] # "idle"
    BY <1>12, MessageType DEF FinalizeExecution
  <2>2. pc' \in [Workers -> Phases] /\ (\A v \in Workers : pc'[v] # "idle" => msg[v] \in Messages)
        /\ (\A v \in Workers : pc'[v] = "write" => page[v] \in Jobs)
    BY <1>12, <2>1, GotoType DEF FinalizeExecution, Phases
  <2>3. status' \in [Executions -> Statuses] /\ later' \subseteq Executions \X Executions
    BY <1>12, <2>1 DEF FinalizeExecution, Finished, TypeOK, Statuses
  <2> QED
    BY <1>12, <2>2, <2>3 DEF FinalizeExecution, TypeOK, requests, broker, remote, ingestion, bounds
<1>13. CASE Acknowledge(w)
  BY <1>13, LeaveType DEF Acknowledge, TypeOK, table, requests, broker, remote, bounds
<1> QED
  BY <1>1, <1>2, <1>3, <1>4, <1>6, <1>7, <1>8, <1>9, <1>10, <1>11, <1>12, <1>13 DEF WorkerStep

LEMMA TypeNext == TypeOK /\ PollsBounded /\ [Next]_vars => TypeOK'
<1> SUFFICES ASSUME TypeOK, PollsBounded, [Next]_vars PROVE TypeOK'
  OBVIOUS
<1>1. ASSUME NEW e \in Executions, ProviderEnds(e) PROVE TypeOK'
  BY <1>1 DEF ProviderEnds, TypeOK, table, requests, broker, workers, ingestion, bounds
<1>2. ASSUME NEW w \in Workers, TaskFails(w) PROVE TypeOK'
  <2>1. pc' \in [Workers -> Phases] /\ (\A v \in Workers : pc'[v] # "idle" => msg[v] \in Messages)
        /\ (\A v \in Workers : pc'[v] = "write" => page[v] \in Jobs)
    BY <1>2, GotoType DEF TaskFails, Phases
  <2>2. errors' \in 0..MaxErrors
    BY <1>2, Tier0Assumption DEF TaskFails, TypeOK
  <2> QED
    BY <1>2, <2>1, <2>2 DEF TaskFails, TypeOK, table, requests, broker, remote, ingestion
<1>3. ASSUME NEW w \in Workers, Crash(w) PROVE TypeOK'
  <2>1. Of(w) \in Executions /\ (msg[w].task = "poll" => msg[w].attempt \in Attempts)
    BY <1>3, MessageType DEF Crash
  <2>2. dispatches' \in [Executions -> Nat]
    <3>1. dispatches[Of(w)] + 1 \in Nat
      BY <2>1 DEF TypeOK
    <3>2. UNCHANGED dispatches \/ dispatches' = [dispatches EXCEPT ![Of(w)] = @ + 1]
      BY <1>3 DEF Crash, broker
    <3> QED
      BY <2>1, <3>1, <3>2 DEF TypeOK
  <2>3. polls' \in [Executions -> [Attempts -> Nat]]
    <3>1. CASE msg[w].task = "poll"
      <4>1. polls[Of(w)][msg[w].attempt] + 1 \in Nat
        BY <2>1, <3>1 DEF TypeOK
      <4> QED
        BY <1>3, <2>1, <3>1, <4>1, PollAdded DEF Crash, TypeOK, broker
    <3>2. CASE msg[w].task # "poll"
      BY <1>3, <3>2 DEF Crash, TypeOK, broker
    <3> QED
      BY <3>1, <3>2
  <2>4. crashes' \in 0..MaxCrashes
    BY <1>3, Tier0Assumption DEF Crash, TypeOK
  <2> QED
    BY <1>3, <2>2, <2>3, <2>4, LeaveType DEF Crash, TypeOK, table, requests, remote
<1>4. CASE UNCHANGED vars
  BY <1>4 DEF vars, TypeOK, table, requests, broker, remote, workers, ingestion, bounds
<1> QED
  BY <1>1, <1>2, <1>3, <1>4, TypeRequests, TypeTasks DEF Next

\* What a step does to the workers: one of them moves, and takes or keeps a message.
LEMMA WorkerMoves ==
    ASSUME TypeOK, [Next]_vars
    PROVE  \/ UNCHANGED <<pc, msg>>
           \/ \E w \in Workers :
                 /\ \A v \in Workers \ {w} : pc'[v] = pc[v] /\ msg'[v] = msg[v]
                 /\ \/ \E e \in Executions :
                          TakeDispatch(w, e) \/ \E n \in Attempts : TakePoll(w, e, n)
                    \/ pc'[w] = "idle" /\ (Acknowledge(w) \/ Crash(w))
                    \/ /\ msg'[w] = msg[w]
                       /\ \/ ClaimExecution(w) \/ Trigger(w) \/ SchedulePoll(w)
                          \/ ReadExecution(w) \/ Poll(w) \/ PollAgain(w)
                          \/ (\E j \in Jobs : IngestJob(w, j)) \/ CommitJob(w)
                          \/ FinalizeExecution(w) \/ TaskFails(w)
<1>1. ASSUME NEW r \in Requests, RequestStep(r) \/ ManualFails(r) PROVE UNCHANGED <<pc, msg>>
  BY <1>1 DEF RequestStep, LockWebsite, CheckInFlight, InsertExecution, EnqueueDispatch,
              IngestManual, CommitManual, FinalizeManual, ManualFails, workers
<1>2. ASSUME NEW e \in Executions, ProviderEnds(e) PROVE UNCHANGED <<pc, msg>>
  BY <1>2 DEF ProviderEnds, workers
<1>3. CASE UNCHANGED vars
  BY <1>3 DEF vars, workers
<1>4. ASSUME NEW w \in Workers, NEW e \in Executions,
             TakeDispatch(w, e) \/ \E n \in Attempts : TakePoll(w, e, n)
      PROVE  \A v \in Workers \ {w} : pc'[v] = pc[v] /\ msg'[v] = msg[v]
  BY <1>4 DEF TakeDispatch, TakePoll, Goto, TypeOK
<1>5. ASSUME NEW w \in Workers, Acknowledge(w) \/ Crash(w)
      PROVE  pc'[w] = "idle" /\ \A v \in Workers \ {w} : pc'[v] = pc[v] /\ msg'[v] = msg[v]
  BY <1>5 DEF Acknowledge, Crash, Leave, Goto, TypeOK
<1>6. ASSUME NEW w \in Workers,
             \/ ClaimExecution(w) \/ Trigger(w) \/ SchedulePoll(w)
             \/ ReadExecution(w) \/ Poll(w) \/ PollAgain(w)
             \/ (\E j \in Jobs : IngestJob(w, j)) \/ CommitJob(w)
             \/ FinalizeExecution(w) \/ TaskFails(w)
      PROVE  msg' = msg /\ \A v \in Workers \ {w} : pc'[v] = pc[v]
  <2>1. msg' = msg /\ \E p : Goto(w, p)
    BY <1>6 DEF ClaimExecution, Trigger, SchedulePoll, ReadExecution, Poll, PollAgain, IngestJob,
                CommitJob, FinalizeExecution, TaskFails, Unavailable
  <2> QED
    BY <2>1 DEF Goto, TypeOK
<1> QED
  BY <1>1, <1>2, <1>3, <1>4, <1>5, <1>6 DEF Next, WorkerStep

LEMMA PollsNext == TypeOK /\ PollsBounded /\ [Next]_vars => PollsBounded'
<1> SUFFICES ASSUME TypeOK, PollsBounded, [Next]_vars, NEW w \in Workers
             PROVE  /\ pc'[w] \in {"read", "poll", "again"} => msg'[w].task = "poll"
                    /\ pc'[w] \in {"poll", "again"} => msg'[w].attempt <= MaxPolls
  BY DEF PollsBounded
<1>1. CASE pc'[w] = pc[w] /\ msg'[w] = msg[w]
  BY <1>1 DEF PollsBounded
<1>2. CASE pc'[w] \notin {"read", "poll", "again"}
  BY <1>2
<1>3. CASE ReadExecution(w)
  <2>1. msg[w].task = "poll" /\ msg[w].attempt \in Nat /\ msg'[w] = msg[w]
    BY <1>3, MessageType, Tier0Assumption DEF ReadExecution, PollsBounded, Attempts
  <2>2. pc'[w] = "poll" => ~ (msg[w].attempt > MaxPolls)
    BY <1>3 DEF ReadExecution, Unavailable, Goto, TypeOK
  <2>3. pc'[w] \in {"poll", "ack", "finalize"}
    BY <1>3 DEF ReadExecution, Unavailable, Goto, TypeOK
  <2> QED
    BY <2>1, <2>2, <2>3, Tier0Assumption
<1>4. CASE Poll(w)
  BY <1>4 DEF Poll, PollsBounded
<1>5. ASSUME NEW e \in Executions, TakeDispatch(w, e) PROVE pc'[w] = "claim"
  BY <1>5 DEF TakeDispatch, Goto, TypeOK
<1>6. ASSUME NEW e \in Executions, NEW n \in Attempts, TakePoll(w, e, n)
      PROVE  pc'[w] = "read" /\ msg'[w].task = "poll"
  BY <1>6 DEF TakePoll, Goto, TypeOK
<1>7. ASSUME \/ ClaimExecution(w) \/ Trigger(w) \/ SchedulePoll(w) \/ PollAgain(w)
             \/ (\E j \in Jobs : IngestJob(w, j)) \/ CommitJob(w)
             \/ FinalizeExecution(w) \/ TaskFails(w)
      PROVE  pc'[w] \notin {"read", "poll", "again"}
  <2>1. \E p \in Phases \ {"read", "poll", "again"} : Goto(w, p)
    BY <1>7 DEF ClaimExecution, Trigger, SchedulePoll, PollAgain, IngestJob, CommitJob,
                FinalizeExecution, TaskFails, Unavailable, Phases
  <2> QED
    BY <2>1 DEF Goto, TypeOK
<1>8. PICK v \in Workers :
           \/ UNCHANGED <<pc, msg>>
           \/ /\ \A u \in Workers \ {v} : pc'[u] = pc[u] /\ msg'[u] = msg[u]
              /\ \/ \E e \in Executions :
                       TakeDispatch(v, e) \/ \E n \in Attempts : TakePoll(v, e, n)
                 \/ pc'[v] = "idle"
                 \/ /\ msg'[v] = msg[v]
                    /\ \/ ClaimExecution(v) \/ Trigger(v) \/ SchedulePoll(v)
                       \/ ReadExecution(v) \/ Poll(v) \/ PollAgain(v)
                       \/ (\E j \in Jobs : IngestJob(v, j)) \/ CommitJob(v)
                       \/ FinalizeExecution(v) \/ TaskFails(v)
  BY WorkerMoves
<1> QED
  BY <1>1, <1>2, <1>3, <1>4, <1>5, <1>6, <1>7, <1>8

LEMMA TypesInductive == Spec => [](TypeOK /\ PollsBounded)
<1>1. Init => TypeOK /\ PollsBounded
  BY TypeInit DEF Init, PollsBounded
<1>2. TypeOK /\ PollsBounded /\ [Next]_vars => TypeOK' /\ PollsBounded'
  BY TypeNext, PollsNext
<1> QED
  BY <1>1, <1>2, PTL DEF Spec

\* Every variable keeps its type, whatever is delivered again and whoever dies.
THEOREM TypeCorrect == Spec => []TypeOK
BY TypesInductive, PTL

-----------------------------------------------------------------------------
(* One check in flight on a website.                                       *)

\* The executions of the script, which no request of a route wants.
ByHand(e) == \E r \in Manual : wanted[r] = e

\* What has a message, or is being enqueued, is in the table, and is not the script's.
Tasked(e) == status[e] # "absent" /\ ~ByHand(e)
Inserted ==
    /\ wanted \in OwnKeys
    /\ \A r \in Requests :
          /\ rpc[r] = "enqueue" => r \notin Manual
          /\ rpc[r] \in {"ingest", "write", "finish"} => r \in Manual
          /\ rpc[r] \in {"enqueue", "ingest", "write", "finish"} => status[wanted[r]] # "absent"
    /\ \A e \in Executions : dispatches[e] > 0 => Tasked(e)
    /\ \A e \in Executions, n \in Attempts : polls[e][n] > 0 => Tasked(e)
    /\ \A w \in Workers : pc[w] # "idle" => Tasked(Of(w))

\* A request between its lock and its insert holds the website, which meanwhile
\* gets no other execution in flight.
LockHeld ==
    \A r \in Requests :
        /\ rpc[r] \in {"check", "insert"} => lock[Site(wanted[r])] = r
        /\ rpc[r] = "insert" => Admitted(wanted[r])

\* Requests move by their own steps, and never change what they want.
LEMMA RequestsMove ==
    ASSUME [Next]_vars
    PROVE  UNCHANGED rpc \/ \E r \in Requests : RequestStep(r) \/ ManualFails(r)
<1>1. ASSUME NEW w \in Workers, WorkerStep(w) \/ TaskFails(w) \/ Crash(w) PROVE UNCHANGED rpc
  BY <1>1 DEF WorkerStep, TakeDispatch, TakePoll, ClaimExecution, Trigger, SchedulePoll,
              ReadExecution, Poll, PollAgain, IngestJob, CommitJob, FinalizeExecution,
              Acknowledge, TaskFails, Crash, requests
<1>2. ASSUME (\E e \in Executions : ProviderEnds(e)) \/ UNCHANGED vars PROVE UNCHANGED rpc
  BY <1>2 DEF ProviderEnds, vars, requests
<1> QED
  BY <1>1, <1>2 DEF Next

LEMMA RequestsFixed == [Next]_vars => UNCHANGED wanted
<1> SUFFICES ASSUME [Next]_vars PROVE UNCHANGED wanted
  OBVIOUS
<1>1. ASSUME NEW w \in Workers, WorkerStep(w) \/ TaskFails(w) \/ Crash(w) PROVE UNCHANGED wanted
  BY <1>1 DEF WorkerStep, TakeDispatch, TakePoll, ClaimExecution, Trigger, SchedulePoll,
              ReadExecution, Poll, PollAgain, IngestJob, CommitJob, FinalizeExecution,
              Acknowledge, TaskFails, Crash, requests
<1>2. ASSUME NEW r \in Requests, RequestStep(r) \/ ManualFails(r) PROVE UNCHANGED wanted
  BY <1>2 DEF RequestStep, LockWebsite, CheckInFlight, InsertExecution, EnqueueDispatch,
              IngestManual, CommitManual, FinalizeManual, ManualFails
<1>3. ASSUME (\E e \in Executions : ProviderEnds(e)) \/ UNCHANGED vars PROVE UNCHANGED wanted
  BY <1>3 DEF ProviderEnds, vars, requests
<1> QED
  BY <1>1, <1>2, <1>3 DEF Next

\* What the steps do to the table.
LEMMA StatusMoves ==
    ASSUME TypeOK, [Next]_vars
    PROVE  \/ UNCHANGED status
           \/ \E r \in Requests : InsertExecution(r) \/ FinalizeManual(r)
           \/ \E w \in Workers : /\ pc[w] # "idle" /\ Of(w) \in Executions
                                 /\ ClaimExecution(w) \/ FinalizeExecution(w)
<1>1. ASSUME NEW r \in Requests, RequestStep(r) \/ ManualFails(r) 
      PROVE  UNCHANGED status \/ InsertExecution(r) \/ FinalizeManual(r)
  BY <1>1 DEF RequestStep, LockWebsite, CheckInFlight, EnqueueDispatch, IngestManual, CommitManual,
              ManualFails, table
<1>2. ASSUME NEW w \in Workers, WorkerStep(w)
      PROVE  UNCHANGED status \/ ClaimExecution(w) \/ FinalizeExecution(w)
  BY <1>2 DEF WorkerStep, TakeDispatch, TakePoll, Trigger, SchedulePoll, ReadExecution, Poll,
              PollAgain, IngestJob, CommitJob, Acknowledge, table
<1>3. ASSUME NEW w \in Workers, TaskFails(w) \/ Crash(w) PROVE UNCHANGED status
  BY <1>3 DEF TaskFails, Crash, table
<1>4. ASSUME NEW e \in Executions, ProviderEnds(e) PROVE UNCHANGED status
  BY <1>4 DEF ProviderEnds, table
<1>5. CASE UNCHANGED vars
  BY <1>5 DEF vars, table
<1>6. ASSUME NEW w \in Workers, ClaimExecution(w) \/ FinalizeExecution(w)
      PROVE  pc[w] # "idle" /\ Of(w) \in Executions
  <2>1. pc[w] # "idle"
    BY <1>6 DEF ClaimExecution, FinalizeExecution
  <2> QED
    BY <2>1, MessageType
<1> QED
  BY <1>1, <1>2, <1>3, <1>4, <1>5, <1>6 DEF Next

\* An execution never leaves the table.
LEMMA StaysInserted ==
    ASSUME TypeOK, [Next]_vars, NEW e \in Executions, status[e] # "absent"
    PROVE  status'[e] # "absent"
<1>1. ASSUME NEW r \in Requests, InsertExecution(r) \/ FinalizeManual(r) PROVE status'[e] # "absent"
  BY <1>1 DEF InsertExecution, FinalizeManual, TypeOK, Usable
<1>2. ASSUME NEW w \in Workers, ClaimExecution(w) PROVE status'[e] # "absent"
  BY <1>2 DEF ClaimExecution, TypeOK
<1>3. ASSUME NEW w \in Workers, FinalizeExecution(w) PROVE status'[e] # "absent"
  BY <1>3 DEF FinalizeExecution, TypeOK, Usable
<1> QED
  BY <1>1, <1>2, <1>3, StatusMoves

LEMMA StaysTasked ==
    ASSUME TypeOK, [Next]_vars, NEW e \in Executions, Tasked(e)
    PROVE  Tasked(e)'
<1>1. UNCHANGED wanted
  BY RequestsFixed
<1> QED
  BY <1>1, StaysInserted DEF Tasked, ByHand

\* A message that appears is of an execution that may have one.
LEMMA DispatchMoves ==
    ASSUME TypeOK, Inserted, [Next]_vars, NEW e \in Executions, dispatches'[e] > 0
    PROVE  Tasked(e)'
<1> SUFFICES ASSUME dispatches[e] = 0 PROVE Tasked(e)
  <2>1. dispatches[e] \in Nat
    BY DEF TypeOK
  <2> QED
    BY <2>1, StaysTasked DEF Inserted
<1>1. ASSUME NEW r \in Requests, RequestStep(r) \/ ManualFails(r) PROVE Tasked(e)
  <2>1. UNCHANGED dispatches \/ EnqueueDispatch(r)
    BY <1>1 DEF RequestStep, LockWebsite, CheckInFlight, InsertExecution, IngestManual,
                CommitManual, FinalizeManual, ManualFails, broker
  <2>2. ASSUME EnqueueDispatch(r), e # wanted[r] PROVE dispatches'[e] = dispatches[e]
    BY <2>2 DEF EnqueueDispatch, TypeOK
  <2>3. ASSUME EnqueueDispatch(r), e = wanted[r] PROVE Tasked(e)
    BY <2>3 DEF EnqueueDispatch, Inserted, OwnKeys, Tasked, ByHand
  <2> QED
    BY <2>1, <2>2, <2>3
<1>2. ASSUME NEW w \in Workers, NEW f \in Executions, TakeDispatch(w, f) PROVE FALSE
  BY <1>2 DEF TakeDispatch, TypeOK
<1>3. ASSUME NEW w \in Workers, Crash(w) PROVE Tasked(e)
  <2>1. pc[w] # "idle" /\ Tasked(Of(w)) /\ Of(w) \in Executions
    BY <1>3, MessageType DEF Crash, Inserted
  <2>2. UNCHANGED dispatches \/ dispatches' = [dispatches EXCEPT ![Of(w)] = @ + 1]
    BY <1>3 DEF Crash, broker
  <2>3. CASE e = Of(w)
    BY <2>1, <2>3
  <2>4. CASE e # Of(w)
    BY <2>2, <2>4 DEF TypeOK
  <2> QED
    BY <2>3, <2>4
<1>4. ASSUME NEW w \in Workers, WorkerStep(w), UNCHANGED dispatches PROVE FALSE
  BY <1>4
<1>5. ASSUME NEW w \in Workers, WorkerStep(w)
      PROVE  UNCHANGED dispatches \/ \E f \in Executions : TakeDispatch(w, f)
  BY <1>5 DEF WorkerStep, TakePoll, ClaimExecution, Trigger, SchedulePoll, ReadExecution, Poll,
              PollAgain, IngestJob, CommitJob, FinalizeExecution, Acknowledge, broker
<1>6. ASSUME \/ \E w \in Workers : TaskFails(w)
             \/ \E f \in Executions : ProviderEnds(f)
             \/ UNCHANGED vars
      PROVE  FALSE
  BY <1>6 DEF TaskFails, ProviderEnds, vars, broker
<1> QED
  BY <1>1, <1>2, <1>3, <1>4, <1>5, <1>6 DEF Next

LEMMA PollMoves ==
    ASSUME TypeOK, PollsBounded, Inserted, [Next]_vars, NEW e \in Executions, NEW n \in Attempts,
           polls'[e][n] > 0
    PROVE  Tasked(e)'
<1> SUFFICES ASSUME polls[e][n] = 0 PROVE Tasked(e)
  <2>1. polls[e][n] \in Nat
    BY DEF TypeOK
  <2> QED
    BY <2>1, StaysTasked DEF Inserted
<1>0. ASSUME NEW w \in Workers, pc[w] # "idle", NEW i \in Attempts,
             polls' = [polls EXCEPT ![Of(w)][i] = @ + 1]
      PROVE  Tasked(e)
  <2>1. Of(w) \in Executions /\ Tasked(Of(w))
    BY <1>0, MessageType DEF Inserted
  <2>2. polls[Of(w)][i] + 1 \in Nat
    BY <2>1 DEF TypeOK
  <2>3. polls'[e][n] = IF e = Of(w) /\ n = i THEN polls[Of(w)][i] + 1 ELSE polls[e][n]
    BY <1>0, <2>1, <2>2, PollAdded
  <2> QED
    BY <2>1, <2>3
<1>1. ASSUME NEW r \in Requests, RequestStep(r) \/ ManualFails(r) PROVE FALSE
  BY <1>1 DEF RequestStep, LockWebsite, CheckInFlight, InsertExecution, EnqueueDispatch,
              IngestManual, CommitManual, FinalizeManual, ManualFails, broker
<1>2. ASSUME NEW w \in Workers, NEW f \in Executions, NEW i \in Attempts, TakePoll(w, f, i)
      PROVE  FALSE
  <2>1. polls[f][i] - 1 \in Nat
    BY <1>2 DEF TakePoll, TypeOK
  <2>2. polls'[e][n] = IF e = f /\ n = i THEN polls[f][i] - 1 ELSE polls[e][n]
    BY <1>2, <2>1, PollAdded DEF TakePoll
  <2> QED
    BY <1>2, <2>1, <2>2 DEF TakePoll
<1>3. ASSUME NEW w \in Workers, SchedulePoll(w) PROVE Tasked(e)
  <2>1. 1 \in Attempts /\ pc[w] # "idle" /\ polls' = [polls EXCEPT ![Of(w)][1] = @ + 1]
    BY <1>3, Tier0Assumption DEF SchedulePoll, Attempts
  <2> QED
    BY <1>0, <2>1
<1>4. ASSUME NEW w \in Workers, PollAgain(w) PROVE Tasked(e)
  <2> DEFINE i == NextAttempt(msg[w].attempt)
  <2>1. pc[w] = "again" /\ polls' = [polls EXCEPT ![Of(w)][i] = @ + 1]
    BY <1>4 DEF PollAgain
  <2>2. msg[w].task = "poll" /\ msg[w].attempt \in Nat /\ msg[w].attempt > 0
        /\ msg[w].attempt <= MaxPolls
    BY <2>1, MessageType, Tier0Assumption DEF PollsBounded, Attempts
  <2>3. i \in Attempts
    BY <2>2, Tier0Assumption DEF Attempts, NextAttempt
  <2> HIDE DEF i
  <2> QED
    BY <1>0, <2>1, <2>3
<1>5. ASSUME NEW w \in Workers, Crash(w) PROVE Tasked(e)
  <2>2. pc[w] # "idle"
    BY <1>5 DEF Crash
  <2>3. \/ UNCHANGED polls
        \/ /\ msg[w].task = "poll"
           /\ polls' = [polls EXCEPT ![Of(w)][msg[w].attempt] = @ + 1]
    BY <1>5 DEF Crash, broker
  <2>1. \/ UNCHANGED polls
        \/ /\ msg[w].attempt \in Attempts
           /\ polls' = [polls EXCEPT ![Of(w)][msg[w].attempt] = @ + 1]
    BY <2>2, <2>3, MessageType
  <2> QED
    BY <1>0, <2>1, <2>2
<1>6. ASSUME NEW w \in Workers, WorkerStep(w)
      PROVE  \/ UNCHANGED polls \/ SchedulePoll(w) \/ PollAgain(w)
             \/ \E f \in Executions, i \in Attempts : TakePoll(w, f, i)
  BY <1>6 DEF WorkerStep, TakeDispatch, ClaimExecution, Trigger, ReadExecution, Poll,
              IngestJob, CommitJob, FinalizeExecution, Acknowledge, broker
<1>7. ASSUME \/ \E w \in Workers : TaskFails(w)
             \/ \E f \in Executions : ProviderEnds(f)
             \/ UNCHANGED vars
      PROVE  UNCHANGED polls
  BY <1>7 DEF TaskFails, ProviderEnds, vars, broker
<1> QED
  BY <1>1, <1>2, <1>3, <1>4, <1>5, <1>6, <1>7 DEF Next

LEMMA InsertedNext ==
    ASSUME TypeOK, PollsBounded, Inserted, [Next]_vars
    PROVE  Inserted'
<1>0. wanted' = wanted /\ \A r \in Requests : wanted[r] \in Executions
  BY RequestsFixed DEF TypeOK
<1>1. ASSUME NEW r \in Requests
      PROVE  /\ rpc'[r] = "enqueue" => r \notin Manual
             /\ rpc'[r] \in {"ingest", "write", "finish"} => r \in Manual
             /\ rpc'[r] \in {"enqueue", "ingest", "write", "finish"} => status'[wanted'[r]] # "absent"
  <2>1. CASE rpc'[r] = rpc[r]
    BY <1>0, <2>1, StaysInserted DEF Inserted
  <2>2. ASSUME NEW q \in Requests, RequestStep(q) \/ ManualFails(q), q # r
        PROVE  rpc'[r] = rpc[r]
    <3>1. \E p : RGoto(q, p)
      BY <2>2 DEF RequestStep, LockWebsite, CheckInFlight, InsertExecution, EnqueueDispatch,
                  IngestManual, CommitManual, FinalizeManual, ManualFails
    <3> QED
      BY <2>2, <3>1 DEF RGoto, TypeOK
  <2>3. CASE InsertExecution(r)
    BY <1>0, <2>3 DEF InsertExecution, RGoto, TypeOK
  <2>4. CASE CheckInFlight(r)
    <3>1. /\ RGoto(r, "ingest") => Reused(r)
          /\ \E p \in {"insert", "ingest", "closed"} : RGoto(r, p)
      BY <2>4 DEF CheckInFlight, RGoto, TypeOK
    <3>2. /\ rpc'[r] = "ingest" => Reused(r)
          /\ rpc'[r] \in {"insert", "ingest", "closed"}
      BY <3>1 DEF RGoto, TypeOK
    <3> QED
      BY <1>0, <3>2, StaysInserted DEF Reused
  <2>5. ASSUME LockWebsite(r) \/ EnqueueDispatch(r) \/ FinalizeManual(r) \/ ManualFails(r)
        PROVE  rpc'[r] \in {"check", "closed"}
    BY <2>5 DEF LockWebsite, EnqueueDispatch, FinalizeManual, ManualFails, RGoto, TypeOK
  <2>6. ASSUME IngestManual(r) \/ CommitManual(r)
        PROVE  rpc'[r] \in {"write", "finish", "closed"} /\ rpc[r] \in {"ingest", "write"}
    <3>1. (\E p \in {"write", "finish", "closed"} : RGoto(r, p)) /\ rpc[r] \in {"ingest", "write"}
      BY <2>6 DEF IngestManual, CommitManual
    <3> QED
      BY <3>1 DEF RGoto, TypeOK
  <2>7. rpc[r] \in {"ingest", "write"} => r \in Manual /\ status'[wanted[r]] # "absent"
    BY <1>0, StaysInserted DEF Inserted
  <2>8. RequestStep(r) \/ ManualFails(r) =>
           \/ InsertExecution(r) \/ CheckInFlight(r) \/ LockWebsite(r) \/ EnqueueDispatch(r)
           \/ FinalizeManual(r) \/ ManualFails(r) \/ IngestManual(r) \/ CommitManual(r)
    BY DEF RequestStep
  <2>9. CASE UNCHANGED rpc
    BY <2>1, <2>9
  <2>10. CASE RequestStep(r) \/ ManualFails(r)
    BY <1>0, <2>3, <2>4, <2>5, <2>6, <2>7, <2>8, <2>10
  <2> QED
    BY <2>1, <2>2, <2>9, <2>10, RequestsMove
\* A worker's message names an execution that may have one.
<1>2. ASSUME NEW w \in Workers, pc'[w] # "idle"
      PROVE  \E e \in Executions : e = msg'[w].of /\ Tasked(e)
  <2>1. ASSUME pc[w] # "idle", msg'[w] = msg[w] PROVE Of(w) = msg'[w].of /\ Of(w) \in Executions /\ Tasked(Of(w))
    <3>1. Of(w) \in Executions /\ Tasked(Of(w))
      BY <2>1, MessageType DEF Inserted
    <3> QED
      BY <2>1, <3>1 DEF Of
  <2>2. ASSUME NEW e \in Executions, TakeDispatch(w, e)
        PROVE  msg'[w].of = e /\ Tasked(e)
    BY <2>2 DEF TakeDispatch, Inserted, TypeOK
  <2>3. ASSUME NEW e \in Executions, NEW n \in Attempts, TakePoll(w, e, n)
        PROVE  msg'[w].of = e /\ Tasked(e)
    BY <2>3 DEF TakePoll, Inserted, TypeOK
  <2>5. ASSUME \/ ClaimExecution(w) \/ Trigger(w) \/ SchedulePoll(w)
               \/ ReadExecution(w) \/ Poll(w) \/ PollAgain(w)
               \/ (\E j \in Jobs : IngestJob(w, j)) \/ CommitJob(w)
               \/ FinalizeExecution(w) \/ TaskFails(w)
        PROVE  pc[w] # "idle"
    BY <2>5 DEF ClaimExecution, Trigger, SchedulePoll, ReadExecution, Poll, PollAgain, IngestJob,
                CommitJob, FinalizeExecution, TaskFails
  <2> QED
    BY <1>2, <2>1, <2>2, <2>3, <2>5, WorkerMoves
<1>3. wanted' \in OwnKeys
  BY <1>0 DEF Inserted
<1>4. \A e \in Executions : Tasked(e) => Tasked(e)'
  BY StaysTasked
<1>5. \A w \in Workers : pc'[w] # "idle" => Tasked(Of(w))'
  BY <1>2, <1>4 DEF Tasked, ByHand, Of
<1> QED
  BY <1>1, <1>3, <1>5, DispatchMoves, PollMoves DEF Inserted

LEMMA LockHeldNext ==
    ASSUME TypeOK, Inserted, LockHeld, [Next]_vars
    PROVE  LockHeld'
<1> SUFFICES ASSUME NEW r \in Requests
             PROVE  /\ rpc'[r] \in {"check", "insert"} => lock'[Site(wanted[r])] = r
                    /\ rpc'[r] = "insert" => Admitted(wanted[r])'
                    /\ wanted' = wanted
  BY DEF LockHeld, Site
<1>0. /\ wanted' = wanted
      /\ \A q \in Requests : wanted[q] \in Executions
      /\ \A q \in Requests : Site(wanted[q]) \in {SiteOf[u] : u \in Runs}
      /\ \A q \in Requests : q # "none"
  BY RequestsFixed, SiteType, Tier0Assumption DEF TypeOK
<1>1. ASSUME NEW w \in Workers, ClaimExecution(w) \/ FinalizeExecution(w), pc[w] # "idle",
             Of(w) \in Executions, Admitted(wanted[r])
      PROVE  Admitted(wanted[r])'
  <2>1. status[Of(w)] # "absent"
    BY <1>1 DEF Inserted, Tasked
  <2>2. \A e \in Executions \ {Of(w)} : status'[e] = status[e]
    BY <1>1 DEF ClaimExecution, FinalizeExecution, TypeOK
  <2>3. status'[Of(w)] \in InFlight => status[Of(w)] \in InFlight
    BY <1>1 DEF ClaimExecution, FinalizeExecution, Claimable, TypeOK, InFlight, Usable
  <2> QED
    BY <1>0, <1>1, <2>1, <2>2, <2>3 DEF Admitted, Site
<1>2. ASSUME NEW q \in Requests, LockWebsite(q) PROVE LockHeld'
  BY <1>0, <1>2 DEF LockWebsite, RGoto, LockHeld, Admitted, Site, TypeOK, table
<1>3. ASSUME NEW q \in Requests, CheckInFlight(q) PROVE LockHeld'
  <2>0. UNCHANGED <<status, wanted>> /\ rpc[q] = "check"
    BY <1>3 DEF CheckInFlight, table
  <2>1. CASE Admitted(wanted[q])
    <3>1. rpc' = [rpc EXCEPT ![q] = "insert"] /\ UNCHANGED lock
      BY <1>3, <2>1 DEF CheckInFlight, RGoto
    <3>2. \A p \in Requests : rpc'[p] = IF p = q THEN "insert" ELSE rpc[p]
      BY <3>1 DEF TypeOK
    <3> QED
      BY <2>0, <2>1, <3>1, <3>2 DEF LockHeld, Admitted, Site
  <2>2. CASE ~ Admitted(wanted[q])
    <3>1. \A p \in Requests : IF p = q THEN rpc'[p] \in {"ingest", "closed"} ELSE rpc'[p] = rpc[p]
      BY <1>3, <2>2 DEF CheckInFlight, RGoto, TypeOK
    <3>2. \A s \in {SiteOf[u] : u \in Runs} : lock'[s] = IF s = Site(wanted[q]) THEN "none" ELSE lock[s]
      BY <1>0, <1>3, <2>2 DEF CheckInFlight, Unlock, TypeOK
    <3> QED
      BY <1>0, <2>0, <3>1, <3>2 DEF LockHeld, Admitted, Site
  <2> QED
    BY <2>1, <2>2
<1>4. ASSUME NEW q \in Requests, InsertExecution(q) PROVE LockHeld'
  BY <1>0, <1>4 DEF InsertExecution, RGoto, Unlock, LockHeld, Admitted, Site, TypeOK
<1>5. ASSUME NEW q \in Requests, EnqueueDispatch(q) PROVE LockHeld'
  BY <1>0, <1>5 DEF EnqueueDispatch, RGoto, LockHeld, Admitted, Site, TypeOK, table
<1>10. ASSUME NEW q \in Requests, IngestManual(q) \/ CommitManual(q) \/ ManualFails(q)
       PROVE  LockHeld'
  <2>1. UNCHANGED <<status, lock, wanted>> /\ \E p \in {"write", "finish", "closed"} : RGoto(q, p)
    BY <1>10 DEF IngestManual, CommitManual, ManualFails, table
  <2>2. \A p \in Requests : rpc'[p] \in {"check", "insert"} => rpc[p] = rpc'[p]
    BY <2>1 DEF RGoto, TypeOK
  <2> QED
    BY <2>1, <2>2 DEF LockHeld, Admitted, Site
<1>11. ASSUME NEW q \in Requests, FinalizeManual(q) PROVE LockHeld'
  <2>1. /\ UNCHANGED <<lock, wanted>> /\ rpc[q] = "finish" /\ RGoto(q, "closed")
        /\ \E s \in Usable : status' = [status EXCEPT ![wanted[q]] = s]
    BY <1>11 DEF FinalizeManual
  <2>2. \A p \in Requests : rpc'[p] \in {"check", "insert"} => rpc[p] = rpc'[p]
    BY <2>1 DEF RGoto, TypeOK
  <2>3. status[wanted[q]] # "absent" /\ status'[wanted[q]] \notin InFlight
    BY <1>0, <2>1 DEF Inserted, Usable, InFlight, TypeOK
  <2>4. \A e \in Executions \ {wanted[q]} : status'[e] = status[e]
    BY <2>1 DEF TypeOK
  <2> QED
    BY <1>0, <2>1, <2>2, <2>3, <2>4 DEF LockHeld, Admitted, Site
<1>6. ASSUME NEW w \in Workers, WorkerStep(w) \/ TaskFails(w) \/ Crash(w)
      PROVE  UNCHANGED <<rpc, lock>>
  BY <1>6 DEF WorkerStep, TakeDispatch, TakePoll, ClaimExecution, Trigger, SchedulePoll,
              ReadExecution, Poll, PollAgain, IngestJob, CommitJob, FinalizeExecution,
              Acknowledge, TaskFails, Crash, requests
<1>7. ASSUME (\E e \in Executions : ProviderEnds(e)) \/ UNCHANGED vars PROVE UNCHANGED <<rpc, lock>>
  BY <1>7 DEF ProviderEnds, vars, requests
<1>8. ASSUME UNCHANGED <<rpc, lock>>, UNCHANGED status PROVE LockHeld'
  BY <1>0, <1>8 DEF LockHeld, Admitted, Site
<1>9. ASSUME UNCHANGED <<rpc, lock>>, NEW w \in Workers,
             ClaimExecution(w) \/ FinalizeExecution(w), pc[w] # "idle", Of(w) \in Executions
      PROVE  /\ rpc'[r] \in {"check", "insert"} => lock'[Site(wanted[r])] = r
             /\ rpc'[r] = "insert" => Admitted(wanted[r])'
  BY <1>0, <1>1, <1>9 DEF LockHeld
<1> QED
  BY <1>0, <1>2, <1>3, <1>4, <1>5, <1>6, <1>7, <1>8, <1>9, <1>10, <1>11, StatusMoves
     DEF Next, RequestStep, LockHeld, Site

LEMMA OneInFlightNext ==
    ASSUME TypeOK, LockHeld, OneInFlight, [Next]_vars
    PROVE  OneInFlight'
<1>1. ASSUME NEW r \in Requests, InsertExecution(r) PROVE OneInFlight'
  <2>1. Admitted(wanted[r]) /\ wanted[r] \in Executions
    BY <1>1 DEF InsertExecution, LockHeld, TypeOK
  <2>2. \A e \in Executions \ {wanted[r]} : status'[e] = status[e]
    BY <1>1 DEF InsertExecution, TypeOK
  <2> QED
    BY <2>1, <2>2 DEF OneInFlight, Admitted, Site
<1>2. ASSUME NEW w \in Workers, ClaimExecution(w) \/ FinalizeExecution(w), Of(w) \in Executions
      PROVE  OneInFlight'
  <2>1. \A e \in Executions \ {Of(w)} : status'[e] = status[e]
    BY <1>2 DEF ClaimExecution, FinalizeExecution, TypeOK
  <2>2. status'[Of(w)] \in InFlight => status[Of(w)] \in InFlight
    BY <1>2 DEF ClaimExecution, FinalizeExecution, Claimable, TypeOK, InFlight, Usable
  <2> QED
    BY <2>1, <2>2 DEF OneInFlight, Site
<1>3. CASE UNCHANGED status
  BY <1>3 DEF OneInFlight, Site
<1>4. ASSUME NEW r \in Requests, FinalizeManual(r) PROVE OneInFlight'
  <2>1. wanted[r] \in Executions /\ status'[wanted[r]] \notin InFlight
    BY <1>4 DEF FinalizeManual, TypeOK, Usable, InFlight
  <2>2. \A e \in Executions \ {wanted[r]} : status'[e] = status[e]
    BY <1>4 DEF FinalizeManual, TypeOK
  <2> QED
    BY <2>1, <2>2 DEF OneInFlight, Site
<1> QED
  BY <1>1, <1>2, <1>3, <1>4, StatusMoves

\* At most one execution in flight on a website, for any analysis runs and keys.
THEOREM SingleCheck == Spec => []OneInFlight
<1> DEFINE IInv == TypeOK /\ PollsBounded /\ Inserted /\ LockHeld /\ OneInFlight
<1>1. Init => IInv
  <2>1. Init => TypeOK /\ PollsBounded
    BY TypeInit DEF Init, PollsBounded
  <2>2. Init => Inserted /\ LockHeld
    BY DEF Init, Inserted, LockHeld
  <2>3. Init => OneInFlight
    BY DEF Init, OneInFlight, InFlight
  <2> QED
    BY <2>1, <2>2, <2>3
<1>2. IInv /\ [Next]_vars => IInv'
  BY TypeNext, PollsNext, InsertedNext, LockHeldNext, OneInFlightNext
<1>3. IInv => OneInFlight
  OBVIOUS
<1> QED
  BY <1>1, <1>2, <1>3, PTL DEF Spec

-----------------------------------------------------------------------------
(* One run of the provider, and no usable verdict before the evidence.      *)

\* An execution that was not claimed has no run; the worker that claimed it is the
\* only one that will ask for it, and has not.
OneClaim ==
    /\ TriggeredOnce
    /\ \A e \in Executions : status[e] \in {"absent", "pending"} => started[e] = 0
    /\ \A w \in Workers :
          pc[w] = "trigger" => /\ started[Of(w)] = 0
                               /\ status[Of(w)] \notin {"absent", "pending"}
    /\ \A v, w \in Workers : pc[v] = "trigger" /\ pc[w] = "trigger" /\ Of(v) = Of(w) => v = w

\* A job whose result is not stored yet is in the worker's hands, or did not load.
EvidenceAhead ==
    /\ \A w \in Workers :
          /\ pc[w] = "finalize" => verdict[w] = "unavailable"
          /\ pc[w] \in {"ingest", "write"} =>
                \A j \in Jobs : \/ j \in todo[w]
                                \/ viewports[Of(w)][j] > 0
                                \/ j \in missed[Of(w)]
    /\ \A r \in Requests :
          rpc[r] = "finish" =>
              \A j \in Jobs : viewports[wanted[r]][j] > 0 \/ j \in missed[wanted[r]]

\* Evidence that is stored stays, and so does what is known to have been missed.
EvidenceGrows ==
    /\ \A e \in Executions, j \in Jobs : viewports[e][j] > 0 => viewports'[e][j] > 0
    /\ \A e \in Executions : missed[e] \subseteq missed'[e]

LEMMA EvidenceMoves ==
    ASSUME TypeOK, [Next]_vars
    PROVE  EvidenceGrows
<1>1. ASSUME NEW w \in Workers, CommitJob(w) PROVE EvidenceGrows
  <2>1. Of(w) \in Executions /\ page[w] \in Jobs /\ pc[w] # "idle" /\ UNCHANGED missed
    BY <1>1, MessageType DEF CommitJob, TypeOK, remote
  <2>2. viewports[Of(w)][page[w]] \in Nat
    BY <2>1 DEF TypeOK
  <2> DEFINE n == Replaced(sees[w], viewports[Of(w)][page[w]])
  <2>3. n \in Nat /\ n > 0
    BY <2>2, ReplacedType
  <2>4. UNCHANGED viewports \/ viewports' = [viewports EXCEPT ![Of(w)][page[w]] = n]
    BY <1>1 DEF CommitJob
  <2> HIDE DEF n
  <2>5. CASE UNCHANGED viewports
    BY <2>1, <2>5 DEF EvidenceGrows
  <2>6. CASE viewports' = [viewports EXCEPT ![Of(w)][page[w]] = n]
    BY <2>1, <2>3, <2>6, ViewportsReplaced DEF EvidenceGrows
  <2> QED
    BY <2>4, <2>5, <2>6
<1>2. ASSUME NEW w \in Workers, Poll(w) PROVE EvidenceGrows
  <2>1. Of(w) \in Executions /\ UNCHANGED viewports
    BY <1>2, MessageType DEF Poll, table
  <2>2. UNCHANGED missed \/ \E lost \in SUBSET Jobs : missed' = [missed EXCEPT ![Of(w)] = @ \cup lost]
    BY <1>2 DEF Poll
  <2> QED
    BY <2>1, <2>2 DEF EvidenceGrows, TypeOK
<1>3. ASSUME NEW w \in Workers, Trigger(w) PROVE UNCHANGED <<viewports, missed>>
  BY <1>3 DEF Trigger, table, remote
<1>4. ASSUME NEW w \in Workers, WorkerStep(w)
      PROVE  UNCHANGED <<viewports, missed>> \/ CommitJob(w) \/ Poll(w)
  BY <1>3, <1>4 DEF WorkerStep, TakeDispatch, TakePoll, ClaimExecution, SchedulePoll,
                    ReadExecution, PollAgain, IngestJob, FinalizeExecution, Acknowledge,
                    table, remote
<1>5. ASSUME NEW r \in Requests, RequestStep(r) \/ ManualFails(r) 
      PROVE  UNCHANGED <<viewports, missed>> \/ CommitManual(r)
  BY <1>5 DEF RequestStep, LockWebsite, CheckInFlight, InsertExecution, EnqueueDispatch,
              IngestManual, FinalizeManual, ManualFails, table, remote
<1>8. ASSUME NEW r \in Requests, CommitManual(r) PROVE EvidenceGrows
  <2>1. wanted[r] \in Executions /\ result[r] \in Jobs /\ viewports[wanted[r]][result[r]] \in Nat
    BY <1>8 DEF CommitManual, TypeOK
  <2> DEFINE n == Replaced(finds[r], viewports[wanted[r]][result[r]])
  <2>2. n \in Nat /\ n > 0
    BY <2>1, ReplacedType
  <2>3. \/ UNCHANGED <<viewports, missed>>
        \/ /\ viewports' = [viewports EXCEPT ![wanted[r]][result[r]] = n]
           /\ missed' = [missed EXCEPT ![wanted[r]] = @ \cup (Jobs \ {result[r]})]
    BY <1>8 DEF CommitManual
  <2> HIDE DEF n
  <2>4. \A f \in Executions, i \in Jobs : viewports[f][i] > 0 => viewports'[f][i] > 0
    <3>1. CASE UNCHANGED viewports
      BY <3>1
    <3>2. CASE viewports' = [viewports EXCEPT ![wanted[r]][result[r]] = n]
      BY <2>1, <2>2, <3>2, ViewportsReplaced
    <3> QED
      BY <2>3, <3>1, <3>2
  <2>5. \A e \in Executions : missed[e] \subseteq missed'[e]
    <3>1. UNCHANGED missed \/ \E lost \in SUBSET Jobs : missed' = [missed EXCEPT ![wanted[r]] = @ \cup lost]
      BY <2>3
    <3> QED
      BY <2>1, <3>1 DEF TypeOK
  <2> QED
    BY <2>4, <2>5 DEF EvidenceGrows
<1>6. ASSUME \/ \E w \in Workers : TaskFails(w) \/ Crash(w)
             \/ \E e \in Executions : ProviderEnds(e)
             \/ UNCHANGED vars
      PROVE  UNCHANGED <<viewports, missed>>
  BY <1>6 DEF TaskFails, Crash, ProviderEnds, vars, table, remote
<1>7. ASSUME UNCHANGED <<viewports, missed>> PROVE EvidenceGrows
  BY <1>7 DEF EvidenceGrows
<1> QED
  BY <1>1, <1>2, <1>4, <1>5, <1>6, <1>7, <1>8 DEF Next

\* A step moves one worker, and leaves the others' places, messages and locals.
LEMMA OthersRest ==
    ASSUME TypeOK, [Next]_vars, NEW v \in Workers
    PROVE  \/ /\ pc'[v] = pc[v] /\ msg'[v] = msg[v]
              /\ todo'[v] = todo[v] /\ verdict'[v] = verdict[v]
           \/ WorkerStep(v) \/ TaskFails(v) \/ Crash(v)
<1> DEFINE Rests == /\ pc'[v] = pc[v] /\ msg'[v] = msg[v]
                    /\ todo'[v] = todo[v] /\ verdict'[v] = verdict[v]
<1>1. ASSUME NEW w \in Workers \ {v}, WorkerStep(w) PROVE Rests
  <2>1. ASSUME NEW e \in Executions, TakeDispatch(w, e) \/ \E n \in Attempts : TakePoll(w, e, n)
        PROVE  Rests
    BY <2>1 DEF TakeDispatch, TakePoll, Goto, TypeOK, ingestion
  <2>2. ASSUME ClaimExecution(w) \/ SchedulePoll(w) \/ PollAgain(w) \/ FinalizeExecution(w)
        PROVE  Rests
    BY <2>2 DEF ClaimExecution, SchedulePoll, PollAgain, FinalizeExecution, Goto, TypeOK, ingestion
  <2>3. ASSUME Trigger(w) \/ ReadExecution(w) PROVE Rests
    BY <2>3 DEF Trigger, ReadExecution, Unavailable, Goto, TypeOK, ingestion
  <2>4. CASE Poll(w)
    BY <2>4 DEF Poll, Unavailable, Goto, TypeOK
  <2>5. ASSUME (\E j \in Jobs : IngestJob(w, j)) \/ CommitJob(w) PROVE Rests
    BY <2>5 DEF IngestJob, CommitJob, Goto, TypeOK
  <2>6. CASE Acknowledge(w)
    BY <2>6 DEF Acknowledge, Leave, Goto, TypeOK
  <2> QED
    BY <1>1, <2>1, <2>2, <2>3, <2>4, <2>5, <2>6 DEF WorkerStep
<1>2. ASSUME NEW w \in Workers \ {v}, TaskFails(w) \/ Crash(w) PROVE Rests
  BY <1>2 DEF TaskFails, Crash, Leave, Goto, TypeOK, ingestion
<1>3. ASSUME NEW r \in Requests, RequestStep(r) \/ ManualFails(r) PROVE Rests
  BY <1>3 DEF RequestStep, LockWebsite, CheckInFlight, InsertExecution, EnqueueDispatch,
              IngestManual, CommitManual, FinalizeManual, ManualFails,
              workers, ingestion
<1>4. ASSUME (\E e \in Executions : ProviderEnds(e)) \/ UNCHANGED vars PROVE Rests
  BY <1>4 DEF ProviderEnds, vars, workers, ingestion
<1> QED
  BY <1>1, <1>2, <1>3, <1>4 DEF Next

LEMMA TriggerMoves ==
    ASSUME TypeOK, [Next]_vars, NEW v \in Workers, pc'[v] = "trigger"
    PROVE  msg'[v] = msg[v] /\ (pc[v] = "trigger" \/ ClaimExecution(v))
<1>1. CASE pc'[v] = pc[v] /\ msg'[v] = msg[v]
  BY <1>1
<1>2. ASSUME NEW e \in Executions, TakeDispatch(v, e) \/ \E n \in Attempts : TakePoll(v, e, n)
      PROVE  pc'[v] # "trigger"
  BY <1>2 DEF TakeDispatch, TakePoll, Goto, TypeOK
<1>3. ASSUME \/ Trigger(v) \/ SchedulePoll(v) \/ ReadExecution(v) \/ Poll(v) \/ PollAgain(v)
             \/ (\E j \in Jobs : IngestJob(v, j)) \/ CommitJob(v) \/ FinalizeExecution(v)
             \/ TaskFails(v)
      PROVE  pc'[v] # "trigger"
  <2>1. \E p \in Phases \ {"trigger"} : Goto(v, p)
    BY <1>3 DEF Trigger, SchedulePoll, ReadExecution, Poll, PollAgain, IngestJob, CommitJob,
                FinalizeExecution, TaskFails, Unavailable, Phases
  <2> QED
    BY <2>1 DEF Goto, TypeOK
<1>4. CASE ClaimExecution(v)
  BY <1>4 DEF ClaimExecution
<1>5. ASSUME Acknowledge(v) \/ Crash(v) PROVE pc'[v] # "trigger"
  BY <1>5 DEF Acknowledge, Crash, Leave, Goto, TypeOK
<1> QED
  BY <1>1, <1>2, <1>3, <1>4, <1>5, OthersRest DEF WorkerStep

LEMMA OneClaimNext ==
    ASSUME TypeOK, LockHeld, OneClaim, [Next]_vars
    PROVE  OneClaim'
<1>1. ASSUME NEW e \in Executions, status'[e] \in {"absent", "pending"}
      PROVE  status[e] \in {"absent", "pending"}
  <2>1. ASSUME NEW r \in Requests, InsertExecution(r) PROVE status[e] \in {"absent", "pending"}
    <3>1. status[wanted[r]] = "absent"
      BY <2>1 DEF InsertExecution, LockHeld, Admitted
    <3> QED
      BY <1>1, <2>1, <3>1 DEF InsertExecution, TypeOK
  <2>2. ASSUME NEW w \in Workers, ClaimExecution(w) \/ FinalizeExecution(w)
        PROVE  status[e] \in {"absent", "pending"}
    BY <1>1, <2>2 DEF ClaimExecution, FinalizeExecution, TypeOK, Usable
  <2>3. ASSUME NEW r \in Requests, FinalizeManual(r) PROVE status[e] \in {"absent", "pending"}
    BY <1>1, <2>3 DEF FinalizeManual, TypeOK, Usable
  <2> QED
    BY <1>1, <2>1, <2>2, <2>3, StatusMoves
<1>2. \/ UNCHANGED started
      \/ \E w \in Workers : /\ pc[w] = "trigger" /\ Trigger(w) /\ Of(w) \in Executions
                            /\ started' = [started EXCEPT ![Of(w)] = @ + 1]
  <2>1. ASSUME NEW w \in Workers, Trigger(w)
        PROVE  /\ pc[w] = "trigger" /\ Of(w) \in Executions
               /\ UNCHANGED started \/ started' = [started EXCEPT ![Of(w)] = @ + 1]
    <3>1. pc[w] = "trigger"
      BY <2>1 DEF Trigger
    <3>2. UNCHANGED started \/ started' = [started EXCEPT ![Of(w)] = @ + 1]
      BY <2>1 DEF Trigger, remote
    <3> QED
      BY <3>1, <3>2, MessageType
  <2>2. ASSUME NEW w \in Workers, WorkerStep(w) PROVE UNCHANGED started \/ Trigger(w)
    BY <2>2 DEF WorkerStep, TakeDispatch, TakePoll, ClaimExecution, SchedulePoll, ReadExecution,
                Poll, PollAgain, IngestJob, CommitJob, FinalizeExecution, Acknowledge, remote
  <2>3. ASSUME NEW r \in Requests, RequestStep(r) \/ ManualFails(r) PROVE UNCHANGED started
    BY <2>3 DEF RequestStep, LockWebsite, CheckInFlight, InsertExecution, EnqueueDispatch,
              IngestManual, CommitManual, FinalizeManual, ManualFails, remote
  <2>4. ASSUME \/ \E w \in Workers : TaskFails(w) \/ Crash(w)
               \/ \E e \in Executions : ProviderEnds(e)
               \/ UNCHANGED vars
        PROVE  UNCHANGED started
    BY <2>4 DEF TaskFails, Crash, ProviderEnds, vars, remote
  <2> QED
    BY <2>1, <2>2, <2>3, <2>4 DEF Next
<1>3. ASSUME NEW w \in Workers, Trigger(w) PROVE pc'[w] # "trigger"
  BY <1>3 DEF Trigger, Unavailable, Goto, TypeOK
<1>4. ASSUME NEW v \in Workers, pc'[v] = "trigger", pc[v] # "trigger"
      PROVE  /\ Of(v)' = Of(v) /\ Of(v) \in Executions
             /\ status[Of(v)] = "pending" /\ status'[Of(v)] = "running"
             /\ UNCHANGED started
             /\ \A w \in Workers \ {v} : pc'[w] = pc[w] /\ msg'[w] = msg[w]
  <2>1. ClaimExecution(v) /\ msg'[v] = msg[v]
    BY <1>4, TriggerMoves
  <2>2. Of(v) \in Executions
    BY <2>1, MessageType DEF ClaimExecution
  <2>3. status[Of(v)] = "pending" /\ status' = [status EXCEPT ![Of(v)] = "running"]
    BY <1>4, <2>1 DEF ClaimExecution, Claimable, Goto, TypeOK
  <2>4. UNCHANGED started /\ \A w \in Workers \ {v} : pc'[w] = pc[w] /\ msg'[w] = msg[w]
    BY <2>1 DEF ClaimExecution, Goto, TypeOK, remote
  <2> QED
    BY <2>1, <2>2, <2>3, <2>4 DEF Of, TypeOK
<1>5. ASSUME NEW v \in Workers, pc'[v] = "trigger", pc[v] = "trigger"
      PROVE  /\ Of(v)' = Of(v) /\ Of(v) \in Executions
             /\ started'[Of(v)] = 0 /\ status'[Of(v)] \notin {"absent", "pending"}
  <2>1. Of(v)' = Of(v) /\ Of(v) \in Executions
    BY <1>5, TriggerMoves, MessageType DEF Of
  <2>2. started[Of(v)] = 0 /\ status[Of(v)] \notin {"absent", "pending"}
    BY <1>5 DEF OneClaim
  <2>3. started'[Of(v)] = 0
    BY <1>2, <1>3, <1>5, <2>1, <2>2 DEF OneClaim, TypeOK
  <2> QED
    BY <1>1, <2>1, <2>2, <2>3
<1>6. TriggeredOnce'
  <2>1. ASSUME NEW w \in Workers, pc[w] = "trigger", Of(w) \in Executions,
               started' = [started EXCEPT ![Of(w)] = @ + 1]
        PROVE  TriggeredOnce'
    BY <2>1 DEF OneClaim, TriggeredOnce, TypeOK
  <2> QED
    BY <1>2, <2>1 DEF OneClaim, TriggeredOnce
<1>7. \A e \in Executions : status'[e] \in {"absent", "pending"} => started'[e] = 0
  <2> SUFFICES ASSUME NEW e \in Executions, status'[e] \in {"absent", "pending"}
               PROVE  started'[e] = 0
    OBVIOUS
  <2>1. started[e] = 0 /\ status[e] \in {"absent", "pending"}
    BY <1>1 DEF OneClaim
  <2>2. \A w \in Workers : pc[w] = "trigger" => Of(w) # e
    BY <2>1 DEF OneClaim
  <2> QED
    BY <1>2, <2>1, <2>2 DEF TypeOK
<1>8. \A v \in Workers :
         pc'[v] = "trigger" => /\ started'[Of(v)'] = 0
                               /\ status'[Of(v)'] \notin {"absent", "pending"}
  <2>1. ASSUME NEW v \in Workers, pc'[v] = "trigger", pc[v] # "trigger"
        PROVE  started'[Of(v)'] = 0 /\ status'[Of(v)'] \notin {"absent", "pending"}
    BY <1>4, <2>1 DEF OneClaim
  <2> QED
    BY <1>5, <2>1
<1>9. \A v, w \in Workers :
         pc'[v] = "trigger" /\ pc'[w] = "trigger" /\ Of(v)' = Of(w)' => v = w
  <2> SUFFICES ASSUME NEW v \in Workers, NEW w \in Workers, v # w,
                      pc'[v] = "trigger", pc'[w] = "trigger", Of(v)' = Of(w)'
               PROVE  FALSE
    OBVIOUS
  <2>1. CASE pc[v] = "trigger" /\ pc[w] = "trigger"
    BY <1>5, <2>1 DEF OneClaim
  <2>2. CASE pc[v] # "trigger"
    <3>1. pc[w] = "trigger" /\ Of(w)' = Of(w) /\ Of(v)' = Of(v) /\ status[Of(v)] = "pending"
      BY <1>4, <2>2 DEF Of
    <3> QED
      BY <3>1 DEF OneClaim
  <2>3. CASE pc[w] # "trigger"
    <3>1. pc[v] = "trigger" /\ Of(v)' = Of(v) /\ Of(w)' = Of(w) /\ status[Of(w)] = "pending"
      BY <1>4, <2>3 DEF Of
    <3> QED
      BY <3>1 DEF OneClaim
  <2> QED
    BY <2>1, <2>2, <2>3
<1> QED
  BY <1>6, <1>7, <1>8, <1>9 DEF OneClaim

\* An execution is never asked of the provider twice, whatever is delivered again.
THEOREM SingleRun == Spec => []TriggeredOnce
<1> DEFINE IInv == TypeOK /\ PollsBounded /\ Inserted /\ LockHeld /\ OneClaim
<1>1. Init => IInv
  <2>1. Init => TypeOK /\ PollsBounded
    BY TypeInit DEF Init, PollsBounded
  <2>2. Init => Inserted /\ LockHeld
    BY DEF Init, Inserted, LockHeld
  <2>3. Init => OneClaim
    BY DEF Init, OneClaim, TriggeredOnce
  <2> QED
    BY <2>1, <2>2, <2>3
<1>2. IInv /\ [Next]_vars => IInv'
  BY TypeNext, PollsNext, InsertedNext, LockHeldNext, OneClaimNext
<1>3. IInv => TriggeredOnce
  BY DEF OneClaim
<1> QED
  BY <1>1, <1>2, <1>3, PTL DEF Spec

LEMMA ManualAheadNext ==
    ASSUME TypeOK, EvidenceAhead, [Next]_vars, NEW r \in Requests, rpc'[r] = "finish",
           NEW j \in Jobs
    PROVE  viewports'[wanted'[r]][j] > 0 \/ j \in missed'[wanted'[r]]
<1>0. wanted' = wanted /\ wanted[r] \in Executions
  BY RequestsFixed DEF TypeOK
<1>1. CASE rpc[r] = "finish"
  BY <1>0, <1>1, EvidenceMoves DEF EvidenceAhead, EvidenceGrows
<1>2. CASE CommitManual(r)
  <2>1. result[r] \in Jobs /\ viewports[wanted[r]][result[r]] \in Nat
    BY <1>2 DEF CommitManual, TypeOK
  <2> DEFINE n == Replaced(finds[r], viewports[wanted[r]][result[r]])
  <2>2. n \in Nat /\ n > 0
    BY <2>1, ReplacedType
  <2>3. /\ viewports' = [viewports EXCEPT ![wanted[r]][result[r]] = n]
        /\ missed' = [missed EXCEPT ![wanted[r]] = @ \cup (Jobs \ {result[r]})]
    BY <1>2 DEF CommitManual, RGoto, TypeOK
  <2> HIDE DEF n
  <2>4. viewports'[wanted[r]][result[r]] = n
    BY <1>0, <2>1, <2>2, <2>3, ViewportsReplaced
  <2>5. j # result[r] => j \in missed'[wanted[r]]
    BY <1>0, <2>3 DEF TypeOK
  <2> QED
    BY <1>0, <2>2, <2>4, <2>5
<1>3. ASSUME NEW q \in Requests, RequestStep(q) \/ ManualFails(q)
      PROVE  rpc[r] = "finish" \/ CommitManual(r)
  <2>1. \/ CommitManual(q)
        \/ \E p \in {"check", "insert", "enqueue", "ingest", "write", "closed"} : RGoto(q, p)
    BY <1>3 DEF RequestStep, LockWebsite, CheckInFlight, InsertExecution, EnqueueDispatch,
                IngestManual, FinalizeManual, ManualFails
  <2>2. CommitManual(q) => \A s \in Requests \ {q} : rpc'[s] = rpc[s]
    BY DEF CommitManual, RGoto, TypeOK
  <2>3. ASSUME NEW p \in {"check", "insert", "enqueue", "ingest", "write", "closed"}, RGoto(q, p)
        PROVE  rpc[r] = "finish"
    BY <2>3 DEF RGoto, TypeOK
  <2> QED
    BY <2>1, <2>2, <2>3
<1>4. CASE UNCHANGED rpc
  BY <1>1, <1>4
<1> QED
  BY <1>1, <1>2, <1>3, <1>4, RequestsMove

LEMMA EvidenceAheadNext ==
    ASSUME TypeOK, EvidenceAhead, [Next]_vars
    PROVE  EvidenceAhead'
<1> SUFFICES ASSUME NEW w \in Workers
             PROVE  /\ pc'[w] = "finalize" => verdict'[w] = "unavailable"
                    /\ pc'[w] \in {"ingest", "write"} =>
                          \A j \in Jobs : \/ j \in todo'[w]
                                          \/ viewports'[Of(w)'][j] > 0
                                          \/ j \in missed'[Of(w)']
  BY ManualAheadNext DEF EvidenceAhead
<1>1. CASE pc'[w] = pc[w] /\ msg'[w] = msg[w] /\ todo'[w] = todo[w] /\ verdict'[w] = verdict[w]
  BY <1>1, EvidenceMoves, MessageType DEF EvidenceAhead, EvidenceGrows, Of
<1>2. ASSUME NEW p \in Phases \ {"finalize", "ingest", "write"}, pc'[w] = p
      PROVE  pc'[w] \notin {"finalize", "ingest", "write"}
  BY <1>2
<1>3. ASSUME Acknowledge(w) \/ Crash(w) PROVE pc'[w] = "idle"
  BY <1>3 DEF Acknowledge, Crash, Leave, Goto, TypeOK
<1>4. ASSUME NEW e \in Executions, TakeDispatch(w, e) \/ \E n \in Attempts : TakePoll(w, e, n)
      PROVE  pc'[w] \in {"claim", "read"}
  BY <1>4 DEF TakeDispatch, TakePoll, Goto, TypeOK
<1>5. ASSUME ClaimExecution(w) \/ SchedulePoll(w) \/ PollAgain(w) \/ FinalizeExecution(w)
             \/ TaskFails(w)
      PROVE  pc'[w] \in {"trigger", "ack"}
  <2>1. \E p \in {"trigger", "ack"} : Goto(w, p)
    BY <1>5 DEF ClaimExecution, SchedulePoll, PollAgain, FinalizeExecution, TaskFails
  <2> QED
    BY <2>1 DEF Goto, TypeOK
<1>6. ASSUME Unavailable(w) PROVE pc'[w] = "finalize" /\ verdict'[w] = "unavailable"
  BY <1>6 DEF Unavailable, Goto, TypeOK
<1>7. CASE Trigger(w)
  <2>1. Goto(w, "schedule") \/ Unavailable(w)
    BY <1>7 DEF Trigger
  <2>2. ASSUME Goto(w, "schedule") PROVE pc'[w] = "schedule"
    BY <2>2 DEF Goto, TypeOK
  <2> QED
    BY <1>6, <2>1, <2>2
<1>8. CASE ReadExecution(w)
  <2>1. Goto(w, "poll") \/ Goto(w, "ack") \/ Unavailable(w)
    BY <1>8 DEF ReadExecution
  <2>2. ASSUME Goto(w, "poll") \/ Goto(w, "ack") PROVE pc'[w] \in {"poll", "ack"}
    BY <2>2 DEF Goto, TypeOK
  <2> QED
    BY <1>6, <2>1, <2>2
<1>9. CASE Poll(w)
  <2>0. Of(w) \in Executions /\ Of(w)' = Of(w)
    BY <1>9, MessageType DEF Poll, Of
  <2>1. ASSUME Goto(w, "again") PROVE pc'[w] = "again"
    BY <2>1 DEF Goto, TypeOK
  <2>2. ASSUME NEW loaded \in SUBSET Jobs, Goto(w, "ingest"),
               todo' = [todo EXCEPT ![w] = loaded],
               missed' = [missed EXCEPT ![Of(w)] = @ \cup (Jobs \ loaded)]
        PROVE  /\ pc'[w] = "ingest"
               /\ \A j \in Jobs : j \in todo'[w] \/ j \in missed'[Of(w)']
    BY <2>0, <2>2 DEF Goto, TypeOK
  <2>3. \/ Goto(w, "again") \/ Unavailable(w)
        \/ \E loaded \in SUBSET Jobs :
              /\ Goto(w, "ingest")
              /\ todo' = [todo EXCEPT ![w] = loaded]
              /\ missed' = [missed EXCEPT ![Of(w)] = @ \cup (Jobs \ loaded)]
    BY <1>9 DEF Poll
  <2> QED
    BY <1>6, <2>1, <2>2, <2>3
<1>10. ASSUME NEW i \in Jobs, IngestJob(w, i)
       PROVE  /\ pc'[w] = "write"
              /\ \A j \in Jobs : \/ j \in todo'[w]
                                 \/ viewports'[Of(w)'][j] > 0
                                 \/ j \in missed'[Of(w)']
  <2>1. pc[w] = "ingest" /\ pc'[w] = "write" /\ UNCHANGED <<msg, todo, viewports, missed>>
    BY <1>10 DEF IngestJob, Goto, TypeOK, table, remote
  <2> QED
    BY <2>1 DEF EvidenceAhead, Of
<1>11. CASE CommitJob(w)
  <2>0. pc[w] = "write" /\ Of(w) \in Executions /\ page[w] \in Jobs /\ UNCHANGED <<msg, missed>>
    BY <1>11, MessageType DEF CommitJob, TypeOK, remote
  <2>1. ASSUME Goto(w, "ack") PROVE pc'[w] = "ack"
    BY <2>1 DEF Goto, TypeOK
  <2> DEFINE n == Replaced(sees[w], viewports[Of(w)][page[w]])
  <2>2. n \in Nat /\ n > 0
    BY <2>0, ReplacedType DEF TypeOK
  <2>3. \/ Goto(w, "ack")
        \/ /\ Goto(w, "ingest")
           /\ viewports' = [viewports EXCEPT ![Of(w)][page[w]] = n]
           /\ todo' = [todo EXCEPT ![w] = @ \ {page[w]}]
    BY <1>11 DEF CommitJob
  <2> HIDE DEF n
  <2>4. ASSUME Goto(w, "ingest"),
               viewports' = [viewports EXCEPT ![Of(w)][page[w]] = n],
               todo' = [todo EXCEPT ![w] = @ \ {page[w]}]
        PROVE  /\ pc'[w] = "ingest"
               /\ \A j \in Jobs : \/ j \in todo'[w]
                                  \/ viewports'[Of(w)'][j] > 0
                                  \/ j \in missed'[Of(w)']
    <3>1. pc'[w] = "ingest" /\ todo'[w] = todo[w] \ {page[w]} /\ Of(w)' = Of(w)
      BY <2>0, <2>4 DEF Goto, TypeOK, Of
    <3>2. \A j \in Jobs : viewports'[Of(w)][j] = IF j = page[w] THEN n ELSE viewports[Of(w)][j]
      BY <2>0, <2>2, <2>4, ViewportsReplaced
    <3>3. \A j \in Jobs : j \in todo[w] \/ viewports[Of(w)][j] > 0 \/ j \in missed[Of(w)]
      BY <2>0 DEF EvidenceAhead
    <3> QED
      BY <2>0, <2>2, <3>1, <3>2, <3>3
  <2> QED
    BY <2>1, <2>3, <2>4
<1> QED
  BY <1>1, <1>3, <1>4, <1>5, <1>7, <1>8, <1>9, <1>10, <1>11, OthersRest DEF WorkerStep

LEMMA EvidenceStoredNext ==
    ASSUME TypeOK, EvidenceAhead, EvidenceStored, [Next]_vars
    PROVE  EvidenceStored'
<1> SUFFICES ASSUME NEW e \in Executions, status'[e] \in Usable, NEW j \in Jobs
             PROVE  viewports'[e][j] > 0 \/ j \in missed'[e]
  BY DEF EvidenceStored
<1>1. CASE status[e] \in Usable
  BY <1>1, EvidenceMoves DEF EvidenceStored, EvidenceGrows
<1>2. ASSUME NEW r \in Requests, InsertExecution(r), status[e] \notin Usable PROVE FALSE
  BY <1>2 DEF InsertExecution, TypeOK, Usable
<1>3. ASSUME NEW w \in Workers, ClaimExecution(w), status[e] \notin Usable PROVE FALSE
  BY <1>3 DEF ClaimExecution, TypeOK, Usable
<1>5. ASSUME NEW r \in Requests, FinalizeManual(r), status[e] \notin Usable
      PROVE  viewports'[e][j] > 0 \/ j \in missed'[e]
  <2>1. e = wanted[r] /\ rpc[r] = "finish"
    BY <1>5 DEF FinalizeManual, TypeOK
  <2>2. viewports[e][j] > 0 \/ j \in missed[e]
    BY <2>1 DEF EvidenceAhead
  <2> QED
    BY <2>2, EvidenceMoves DEF EvidenceGrows
<1>4. ASSUME NEW w \in Workers, FinalizeExecution(w), status[e] \notin Usable
      PROVE  viewports'[e][j] > 0 \/ j \in missed'[e]
  <2>1. e = Of(w) /\ verdict[w] \in Usable
    BY <1>4 DEF FinalizeExecution, TypeOK
  <2>2. pc[w] = "ingest" /\ todo[w] = {}
    BY <1>4, <2>1 DEF FinalizeExecution, EvidenceAhead, Ingested, Usable
  <2>3. viewports[e][j] > 0 \/ j \in missed[e]
    BY <2>1, <2>2 DEF EvidenceAhead
  <2> QED
    BY <2>3, EvidenceMoves DEF EvidenceGrows
<1> QED
  BY <1>1, <1>2, <1>3, <1>4, <1>5, StatusMoves

\* A verdict with evidence is written after the evidence, whoever dies in between.
THEOREM EvidenceFirst == Spec => []EvidenceStored
<1> DEFINE IInv == TypeOK /\ PollsBounded /\ EvidenceAhead /\ EvidenceStored
<1>1. Init => IInv
  <2>1. Init => TypeOK /\ PollsBounded
    BY TypeInit DEF Init, PollsBounded
  <2>2. Init => EvidenceAhead /\ EvidenceStored
    BY DEF Init, EvidenceAhead, EvidenceStored, Usable
  <2> QED
    BY <2>1, <2>2
<1>2. IInv /\ [Next]_vars => IInv'
  BY TypeNext, PollsNext, EvidenceAheadNext, EvidenceStoredNext
<1>3. IInv => EvidenceStored
  OBVIOUS
<1> QED
  BY <1>1, <1>2, <1>3, PTL DEF Spec

\* Stored evidence is never taken back: the rows of a page are replaced, not removed.
THEOREM RowsStay == Spec => [][\A e \in Executions, j \in Jobs :
                                  viewports[e][j] > 0 => viewports'[e][j] > 0]_vars
<1>1. TypeOK /\ [Next]_vars => [\A e \in Executions, j \in Jobs :
                                   viewports[e][j] > 0 => viewports'[e][j] > 0]_vars
  BY EvidenceMoves DEF EvidenceGrows
<1> QED
  BY <1>1, TypeCorrect, PTL DEF Spec

-----------------------------------------------------------------------------
(* The chances an execution that is not the script's has: the requests,      *)
(* messages and workers that may still store the result of a job, or write   *)
(* the verdict.  A worker that dies leaves one more chance at most, as its    *)
(* message may be delivered again.                                           *)

Ended == Usable \cup {"unavailable"}
Before == {"claim", "trigger", "schedule", "read", "poll", "again"}

\* What is reached at most once without a death: the rows of each job, and the
\* verdict.
Verdict == "none"
Goals == Jobs \cup {Verdict}
Reached(e, g) == IF g = Verdict THEN status[e] \in Ended ELSE viewports[e][g] > 0

RequestMay(r, e) == wanted[r] = e /\ rpc[r] = "enqueue"
WorkerMay(w, e, g) ==
    /\ pc[w] # "idle"
    /\ Of(w) = e
    /\ \/ pc[w] \in Before
       \/ pc[w] \in {"ingest", "write"} /\ (g = Verdict \/ g \in todo[w])
       \/ pc[w] = "finalize" /\ g = Verdict

\* Each chance is a token: a request, one of the dispatch messages, one of the poll
\* messages of an attempt, or a worker.
Slots == ({"request"} \X Requests \X {0}) \cup ({"dispatch"} \X {0} \X Nat)
            \cup ({"poll"} \X Attempts \X Nat) \cup ({"worker"} \X Workers \X {0})
Tokens(e, g) ==
    {t \in Slots :
        \/ t[1] = "request" /\ RequestMay(t[2], e)
        \/ t[1] = "dispatch" /\ t[3] \in 1..dispatches[e]
        \/ t[1] = "poll" /\ t[3] \in 1..polls[e][t[2]]
        \/ t[1] = "worker" /\ WorkerMay(t[2], e, g)}

ChanceOf(e, g) ==
    /\ IsFiniteSet(Tokens(e, g))
    /\ Cardinality(Tokens(e, g)) + (IF Reached(e, g) THEN 1 ELSE 0) <= 1 + crashes
Chances == \A e \in Executions, g \in Goals : ~ByHand(e) => ChanceOf(e, g)

\* Nothing was stored for an execution that is not in the table.
NoRowsBefore ==
    \A e \in Executions, j \in Jobs : status[e] = "absent" => viewports[e][j] = 0

\* The page a worker writes is one of the results it has yet to ingest.
PageInHand == \A w \in Workers : pc[w] = "write" => page[w] \in todo[w]

LEMMA CountReplaced ==
    ASSUME NEW S, IsFiniteSet(S), NEW x \in S, NEW y, NEW T, T \subseteq (S \ {x}) \cup {y}
    PROVE  IsFiniteSet(T) /\ Cardinality(T) <= Cardinality(S)
<1>1. /\ IsFiniteSet(S \ {x})
      /\ Cardinality(S \ {x}) = Cardinality(S) - 1
  BY FS_RemoveElement
<1>2. /\ IsFiniteSet((S \ {x}) \cup {y})
      /\ \/ Cardinality((S \ {x}) \cup {y}) = Cardinality(S \ {x})
         \/ Cardinality((S \ {x}) \cup {y}) = Cardinality(S \ {x}) + 1
  BY <1>1, FS_AddElement
<1>3. IsFiniteSet(T) /\ Cardinality(T) <= Cardinality((S \ {x}) \cup {y})
  BY <1>2, FS_Subset
<1>4. Cardinality(T) \in Nat /\ Cardinality(S) \in Nat
  BY <1>3, FS_CardinalityType
<1> QED
  BY <1>1, <1>2, <1>3, <1>4

LEMMA CountRemoved ==
    ASSUME NEW S, IsFiniteSet(S), NEW x \in S, NEW T, T \subseteq S \ {x}
    PROVE  IsFiniteSet(T) /\ Cardinality(T) + 1 <= Cardinality(S)
<1>1. /\ IsFiniteSet(S \ {x})
      /\ Cardinality(S \ {x}) = Cardinality(S) - 1
  BY FS_RemoveElement
<1>2. IsFiniteSet(T) /\ Cardinality(T) <= Cardinality(S \ {x})
  BY <1>1, FS_Subset
<1>3. Cardinality(T) \in Nat /\ Cardinality(S) \in Nat
  BY <1>2, FS_CardinalityType
<1> QED
  BY <1>1, <1>2, <1>3

LEMMA CountAdded ==
    ASSUME NEW S, IsFiniteSet(S), NEW y, NEW T, T \subseteq S \cup {y}
    PROVE  IsFiniteSet(T) /\ Cardinality(T) <= Cardinality(S) + 1
<1>1. /\ IsFiniteSet(S \cup {y})
      /\ \/ Cardinality(S \cup {y}) = Cardinality(S)
         \/ Cardinality(S \cup {y}) = Cardinality(S) + 1
  BY FS_AddElement
<1>2. IsFiniteSet(T) /\ Cardinality(T) <= Cardinality(S \cup {y})
  BY <1>1, FS_Subset
<1>3. Cardinality(T) \in Nat /\ Cardinality(S) \in Nat
  BY <1>2, FS_CardinalityType
<1> QED
  BY <1>1, <1>2, <1>3

\* What a step may do to the chances of a goal: keep some of them, put one in the
\* place of another, use one up, add one for a death, or make the first.
ChanceMove(e, g) ==
    \/ /\ Tokens(e, g)' \subseteq Tokens(e, g)
       /\ Reached(e, g)' => Reached(e, g)
       /\ crashes' >= crashes
    \/ /\ \E x \in Tokens(e, g), y \in Slots : Tokens(e, g)' \subseteq (Tokens(e, g) \ {x}) \cup {y}
       /\ Reached(e, g)' => Reached(e, g)
       /\ crashes' >= crashes
    \/ /\ \E x \in Tokens(e, g) : Tokens(e, g)' \subseteq Tokens(e, g) \ {x}
       /\ crashes' >= crashes
    \/ /\ \E y \in Slots : Tokens(e, g)' \subseteq Tokens(e, g) \cup {y}
       /\ Reached(e, g)' => Reached(e, g)
       /\ crashes' = crashes + 1
    \/ /\ \E y \in Slots : Tokens(e, g)' \subseteq {y}
       /\ ~Reached(e, g)'

LEMMA ChanceStep ==
    ASSUME NEW e, NEW g, ChanceOf(e, g), ChanceMove(e, g), crashes \in Nat, crashes' \in Nat
    PROVE  ChanceOf(e, g)'
<1> DEFINE S == Tokens(e, g)
           T == Tokens(e, g)'
           was == IF Reached(e, g) THEN 1 ELSE 0
           is == IF Reached(e, g)' THEN 1 ELSE 0
<1>0. /\ IsFiniteSet(S) /\ Cardinality(S) \in Nat /\ Cardinality(S) + was <= 1 + crashes
      /\ was \in {0, 1} /\ is \in {0, 1} /\ ((Reached(e, g)' => Reached(e, g)) => is <= was)
      /\ (~Reached(e, g)' => is = 0)
  BY FS_CardinalityType DEF ChanceOf
<1> SUFFICES IsFiniteSet(T) /\ Cardinality(T) + is <= 1 + crashes'
  BY DEF ChanceOf
<1>1. CASE T \subseteq S /\ (Reached(e, g)' => Reached(e, g)) /\ crashes' >= crashes
  <2>1. IsFiniteSet(T) /\ Cardinality(T) <= Cardinality(S)
    BY <1>0, <1>1, FS_Subset
  <2>2. Cardinality(T) \in Nat
    BY <2>1, FS_CardinalityType
  <2> HIDE DEF S, T, was, is
  <2> QED
    BY <1>0, <1>1, <2>1, <2>2
<1>2. ASSUME NEW x \in S, NEW y \in Slots, T \subseteq (S \ {x}) \cup {y},
             Reached(e, g)' => Reached(e, g), crashes' >= crashes
      PROVE  IsFiniteSet(T) /\ Cardinality(T) + is <= 1 + crashes'
  <2>1. IsFiniteSet(T) /\ Cardinality(T) <= Cardinality(S)
    BY <1>0, <1>2, CountReplaced
  <2>2. Cardinality(T) \in Nat
    BY <2>1, FS_CardinalityType
  <2> HIDE DEF S, T, was, is
  <2> QED
    BY <1>0, <1>2, <2>1, <2>2
<1>3. ASSUME NEW x \in S, T \subseteq S \ {x}, crashes' >= crashes
      PROVE  IsFiniteSet(T) /\ Cardinality(T) + is <= 1 + crashes'
  <2>1. IsFiniteSet(T) /\ Cardinality(T) + 1 <= Cardinality(S)
    BY <1>0, <1>3, CountRemoved
  <2>2. Cardinality(T) \in Nat
    BY <2>1, FS_CardinalityType
  <2> HIDE DEF S, T, was, is
  <2> QED
    BY <1>0, <1>3, <2>1, <2>2
<1>4. ASSUME NEW y \in Slots, T \subseteq S \cup {y}, Reached(e, g)' => Reached(e, g),
             crashes' = crashes + 1
      PROVE  IsFiniteSet(T) /\ Cardinality(T) + is <= 1 + crashes'
  <2>1. IsFiniteSet(T) /\ Cardinality(T) <= Cardinality(S) + 1
    BY <1>0, <1>4, CountAdded
  <2>2. Cardinality(T) \in Nat
    BY <2>1, FS_CardinalityType
  <2> HIDE DEF S, T, was, is
  <2> QED
    BY <1>0, <1>4, <2>1, <2>2
<1>5. ASSUME NEW y \in Slots, T \subseteq {y}, ~Reached(e, g)'
      PROVE  IsFiniteSet(T) /\ Cardinality(T) + is <= 1 + crashes'
  <2>1. IsFiniteSet(T) /\ Cardinality(T) <= 0 + 1
    <3>1. IsFiniteSet({}) /\ Cardinality({}) = 0 /\ T \subseteq {} \cup {y}
      BY <1>5, FS_EmptySet
    <3> QED
      BY <3>1, CountAdded
  <2>2. Cardinality(T) \in Nat
    BY <2>1, FS_CardinalityType
  <2> HIDE DEF S, T, was, is
  <2> QED
    BY <1>0, <1>5, <2>1, <2>2
<1> HIDE DEF S, T, was, is
<1> QED
  BY <1>1, <1>2, <1>3, <1>4, <1>5 DEF ChanceMove, S, T

\* The tokens after a step, from those before it: X went, Y came.
LEMMA TokensFrom ==
    ASSUME TypeOK, TypeOK', NEW e \in Executions, NEW g \in Goals, NEW X, NEW Y,
           \A r \in Requests : RequestMay(r, e)' =>
              \/ <<"request", r, 0>> \in Y
              \/ RequestMay(r, e) /\ <<"request", r, 0>> \notin X,
           \A k \in Nat : k \in 1..dispatches'[e] =>
              \/ <<"dispatch", 0, k>> \in Y
              \/ k \in 1..dispatches[e] /\ <<"dispatch", 0, k>> \notin X,
           \A n \in Attempts, k \in Nat : k \in 1..polls'[e][n] =>
              \/ <<"poll", n, k>> \in Y
              \/ k \in 1..polls[e][n] /\ <<"poll", n, k>> \notin X,
           \A w \in Workers : WorkerMay(w, e, g)' =>
              \/ <<"worker", w, 0>> \in Y
              \/ WorkerMay(w, e, g) /\ <<"worker", w, 0>> \notin X
    PROVE  Tokens(e, g)' \subseteq (Tokens(e, g) \ X) \cup Y
<1> SUFFICES ASSUME NEW t \in Tokens(e, g)' PROVE t \in Y \/ (t \in Tokens(e, g) /\ t \notin X)
  OBVIOUS
<1>1. t \in Slots
  BY DEF Tokens
<1>2. CASE t[1] = "request" /\ RequestMay(t[2], e)'
  <2>1. t[2] \in Requests /\ t = <<"request", t[2], 0>>
    BY <1>1, <1>2 DEF Slots
  <2> QED
    BY <1>1, <1>2, <2>1 DEF Tokens
<1>3. CASE t[1] = "dispatch" /\ t[3] \in 1..dispatches'[e]
  <2>1. t[3] \in Nat /\ t = <<"dispatch", 0, t[3]>>
    BY <1>1, <1>3 DEF Slots
  <2> QED
    BY <1>1, <1>3, <2>1 DEF Tokens
<1>4. CASE t[1] = "poll" /\ t[3] \in 1..polls'[e][t[2]]
  <2>1. t[2] \in Attempts /\ t[3] \in Nat /\ t = <<"poll", t[2], t[3]>>
    BY <1>1, <1>4 DEF Slots
  <2> QED
    BY <1>1, <1>4, <2>1 DEF Tokens
<1>5. CASE t[1] = "worker" /\ WorkerMay(t[2], e, g)'
  <2>1. t[2] \in Workers /\ t = <<"worker", t[2], 0>>
    BY <1>1, <1>5 DEF Slots
  <2> QED
    BY <1>1, <1>5, <2>1 DEF Tokens
<1> QED
  BY <1>2, <1>3, <1>4, <1>5 DEF Tokens

\* Which tokens there are.
LEMMA TokenIs ==
    ASSUME TypeOK, NEW e \in Executions, NEW g \in Goals
    PROVE  /\ \A r \in Requests : /\ <<"request", r, 0>> \in Slots
                                  /\ RequestMay(r, e) => <<"request", r, 0>> \in Tokens(e, g)
           /\ \A w \in Workers : /\ <<"worker", w, 0>> \in Slots
                                 /\ WorkerMay(w, e, g) => <<"worker", w, 0>> \in Tokens(e, g)
           /\ \A k \in Nat : /\ <<"dispatch", 0, k>> \in Slots
                             /\ k \in 1..dispatches[e] => <<"dispatch", 0, k>> \in Tokens(e, g)
           /\ \A n \in Attempts, k \in Nat :
                 /\ <<"poll", n, k>> \in Slots
                 /\ k \in 1..polls[e][n] => <<"poll", n, k>> \in Tokens(e, g)
BY DEF Tokens, Slots

\* A step that makes no token, and reaches nothing.
LEMMA NothingNew ==
    ASSUME TypeOK, TypeOK', NEW e \in Executions, NEW g \in Goals,
           UNCHANGED <<dispatches, polls>>, crashes' >= crashes,
           Reached(e, g)' => Reached(e, g),
           \A r \in Requests : RequestMay(r, e)' => RequestMay(r, e),
           \A w \in Workers : WorkerMay(w, e, g)' => WorkerMay(w, e, g)
    PROVE  ChanceMove(e, g)
<1>1. Tokens(e, g)' \subseteq (Tokens(e, g) \ {}) \cup {}
  BY TokensFrom
<1> QED
  BY <1>1 DEF ChanceMove

\* A worker that keeps its message is a token afterwards only if it was before.
LEMMA WorkerFewer ==
    ASSUME TypeOK, TypeOK', NEW w \in Workers, msg' = msg, NEW e \in Executions, NEW g \in Goals,
           \A v \in Workers : v # w => pc'[v] = pc[v] /\ todo'[v] = todo[v],
           \/ pc[w] \in Before
           \/ pc'[w] \in {"idle", "ack"}
           \/ pc[w] \in {"ingest", "write"} /\ pc'[w] \in {"ingest", "write"} /\ todo'[w] \subseteq todo[w]
    PROVE  \A v \in Workers : WorkerMay(v, e, g)' => WorkerMay(v, e, g)
BY DEF WorkerMay, Of, Before

LEMMA RequestsSame ==
    ASSUME UNCHANGED <<rpc, wanted>>
    PROVE  \A r, e : RequestMay(r, e)' <=> RequestMay(r, e)
BY DEF RequestMay

LEMMA WorkersSame ==
    ASSUME UNCHANGED <<pc, msg, todo>>
    PROVE  \A w, e, g : WorkerMay(w, e, g)' <=> WorkerMay(w, e, g)
BY DEF WorkerMay, Of

LEMMA CrashesCount == TypeOK => crashes \in Nat
BY Tier0Assumption DEF TypeOK

\* A script's commit changes one row count, or is refused.
LEMMA ManualRow ==
    ASSUME TypeOK, NEW r \in Requests, CommitManual(r)
    PROVE  /\ wanted[r] \in Executions /\ result[r] \in Jobs
           /\ \/ UNCHANGED viewports
              \/ /\ ~(finds[r] = "nopage" /\ viewports[wanted[r]][result[r]] > 0)
                 /\ \A e \in Executions, j \in Jobs :
                       viewports'[e][j] = IF e = wanted[r] /\ j = result[r]
                                          THEN Replaced(finds[r], viewports[wanted[r]][result[r]])
                                          ELSE viewports[e][j]
<1>1. wanted[r] \in Executions /\ result[r] \in Jobs
  BY DEF CommitManual, TypeOK
<1>2. viewports[wanted[r]][result[r]] \in Nat
  BY <1>1 DEF TypeOK
<1> DEFINE n == Replaced(finds[r], viewports[wanted[r]][result[r]])
<1>3. n \in Nat
  BY <1>2, ReplacedType
<1>4. \/ UNCHANGED viewports
      \/ /\ viewports' = [viewports EXCEPT ![wanted[r]][result[r]] = n]
         /\ ~(finds[r] = "nopage" /\ viewports[wanted[r]][result[r]] > 0)
  BY DEF CommitManual, Refused
<1> HIDE DEF n
<1>5. ASSUME viewports' = [viewports EXCEPT ![wanted[r]][result[r]] = n]
      PROVE  \A e \in Executions, j \in Jobs :
                viewports'[e][j] = IF e = wanted[r] /\ j = result[r] THEN n ELSE viewports[e][j]
  BY <1>1, <1>3, <1>5, ViewportsReplaced
<1> QED
  BY <1>1, <1>4, <1>5 DEF n

LEMMA RequestChances ==
    ASSUME TypeOK, TypeOK', Inserted, LockHeld, NoRowsBefore,
           NEW r \in Requests, RequestStep(r) \/ ManualFails(r),
           NEW e \in Executions, NEW g \in Goals, ~ByHand(e)
    PROVE  ChanceMove(e, g)
<1> DEFINE x == <<"request", r, 0>>
<1>0. /\ wanted' = wanted /\ wanted[r] \in Executions /\ UNCHANGED <<pc, msg, todo>>
      /\ crashes \in Nat /\ crashes' = crashes
      /\ \A q \in Requests : q # r => (RequestMay(q, e)' <=> RequestMay(q, e))
  <2>1. wanted' = wanted /\ UNCHANGED <<pc, msg, todo, crashes>> /\ \E p : RGoto(r, p)
    BY DEF RequestStep, LockWebsite, CheckInFlight, InsertExecution, EnqueueDispatch,
           IngestManual, CommitManual, FinalizeManual, ManualFails, workers, ingestion, bounds
  <2>2. \A q \in Requests : q # r => rpc'[q] = rpc[q]
    BY <2>1 DEF RGoto, TypeOK
  <2> QED
    BY <2>1, <2>2, CrashesCount DEF TypeOK, RequestMay
<1>1. CASE LockWebsite(r) \/ CheckInFlight(r) \/ ManualFails(r) \/ IngestManual(r)
  <2>1. UNCHANGED <<status, viewports, dispatches, polls>>
    BY <1>1 DEF LockWebsite, CheckInFlight, ManualFails, IngestManual, table, broker
  <2>2. \E p \in {"check", "insert", "ingest", "write", "closed"} : RGoto(r, p)
    BY <1>1 DEF LockWebsite, CheckInFlight, ManualFails, IngestManual
  <2>3. ~RequestMay(r, e)'
    BY <2>2 DEF RGoto, RequestMay, TypeOK
  <2>4. Reached(e, g)' <=> Reached(e, g)
    BY <2>1 DEF Reached
  <2> QED
    BY <1>0, <2>1, <2>3, <2>4, NothingNew, WorkersSame
<1>2. CASE InsertExecution(r)
  <2>1. /\ status' = [status EXCEPT ![wanted[r]] = "pending"]
        /\ UNCHANGED <<viewports, dispatches, polls>>
        /\ rpc' = [rpc EXCEPT ![r] = IF r \in Manual THEN "ingest" ELSE "enqueue"]
        /\ status[wanted[r]] = "absent"
    BY <1>2 DEF InsertExecution, RGoto, broker, LockHeld, Admitted
  <2>2. CASE e = wanted[r]
    <3>1. \A q \in Requests : ~RequestMay(q, e)
      BY <2>1, <2>2 DEF Inserted, RequestMay
    <3>2. \A w \in Workers : ~WorkerMay(w, e, g)
      BY <2>1, <2>2 DEF Inserted, Tasked, WorkerMay
    <3>3. \A k \in Nat : ~(k \in 1..dispatches[e])
      BY <2>1, <2>2 DEF Inserted, Tasked, TypeOK
    <3>4. \A n \in Attempts, k \in Nat : ~(k \in 1..polls[e][n])
      BY <2>1, <2>2 DEF Inserted, Tasked, TypeOK
    <3>5. Tokens(e, g) = {}
      BY <3>1, <3>2, <3>3, <3>4 DEF Tokens, Slots
    <3>6. Tokens(e, g)' \subseteq (Tokens(e, g) \ {}) \cup {x}
      <4>1. \A q \in Requests : RequestMay(q, e)' => <<"request", q, 0>> \in {x}
        BY <1>0, <3>1
      <4>2. \A w \in Workers : WorkerMay(w, e, g)' => WorkerMay(w, e, g)
        BY <1>0, WorkersSame
      <4> HIDE DEF x
      <4> QED
        BY <2>1, <4>1, <4>2, TokensFrom
    <3>7. ~Reached(e, g)'
      BY <2>1, <2>2 DEF NoRowsBefore, Reached, Ended, Usable, Goals, TypeOK
    <3> QED
      BY <3>5, <3>6, <3>7, TokenIs DEF ChanceMove
  <2>3. CASE e # wanted[r]
    <3>1. Reached(e, g)' <=> Reached(e, g)
      BY <2>1, <2>3 DEF Reached, TypeOK
    <3>2. ~RequestMay(r, e)'
      BY <1>0, <2>3 DEF RequestMay
    <3> QED
      BY <1>0, <2>1, <3>1, <3>2, NothingNew, WorkersSame
  <2> QED
    BY <2>2, <2>3
<1>3. CASE EnqueueDispatch(r)
  <2>1. /\ UNCHANGED <<status, viewports, polls>> /\ rpc[r] = "enqueue" /\ rpc'[r] = "closed"
        /\ \/ UNCHANGED dispatches
           \/ dispatches' = [dispatches EXCEPT ![wanted[r]] = @ + 1]
    BY <1>3 DEF EnqueueDispatch, RGoto, table, TypeOK
  <2>2. (Reached(e, g)' <=> Reached(e, g)) /\ ~RequestMay(r, e)'
    BY <2>1 DEF Reached, RequestMay
  <2>3. CASE dispatches'[e] = dispatches[e]
    <3>1. Tokens(e, g)' \subseteq (Tokens(e, g) \ {}) \cup {}
      BY <1>0, <2>1, <2>2, <2>3, TokensFrom, WorkersSame
    <3> QED
      BY <1>0, <2>2, <3>1 DEF ChanceMove
  <2>4. CASE dispatches'[e] # dispatches[e]
    <3> DEFINE y == <<"dispatch", 0, dispatches[e] + 1>>
    <3>1. e = wanted[r] /\ dispatches'[e] = dispatches[e] + 1 /\ dispatches[e] \in Nat
      BY <2>1, <2>4 DEF TypeOK
    <3>2. \A k \in Nat : k \in 1..dispatches'[e] => k = dispatches[e] + 1 \/ k \in 1..dispatches[e]
      BY <3>1
    <3>3. Tokens(e, g)' \subseteq (Tokens(e, g) \ {x}) \cup {y}
      <4>1. \A q \in Requests : RequestMay(q, e)' =>
               RequestMay(q, e) /\ <<"request", q, 0>> \notin {x}
        BY <1>0, <2>2
      <4>2. \A w \in Workers : WorkerMay(w, e, g)' =>
               WorkerMay(w, e, g) /\ <<"worker", w, 0>> \notin {x}
        BY <1>0, WorkersSame
      <4>3. \A k \in Nat : k \in 1..dispatches'[e] =>
               \/ <<"dispatch", 0, k>> \in {y}
               \/ k \in 1..dispatches[e] /\ <<"dispatch", 0, k>> \notin {x}
        BY <3>2
      <4>4. \A n \in Attempts, k \in Nat : k \in 1..polls'[e][n] =>
               k \in 1..polls[e][n] /\ <<"poll", n, k>> \notin {x}
        BY <2>1
      <4> HIDE DEF x, y
      <4> QED
        BY <4>1, <4>2, <4>3, <4>4, TokensFrom
    <3>4. x \in Tokens(e, g) /\ y \in Slots
      BY <2>1, <3>1, TokenIs DEF RequestMay
    <3> QED
      BY <1>0, <2>2, <3>3, <3>4 DEF ChanceMove
  <2> QED
    BY <2>3, <2>4
\* The script writes to an execution of its own.
<1>4. CASE CommitManual(r) \/ FinalizeManual(r)
  <2>1. rpc[r] \in {"write", "finish"} /\ \E p \in {"finish", "closed"} : RGoto(r, p)
    BY <1>4 DEF CommitManual, FinalizeManual
  <2>2. e # wanted[r]
    BY <2>1 DEF Inserted, ByHand
  <2>3. ~RequestMay(r, e)'
    BY <2>1 DEF RGoto, RequestMay, TypeOK
  <2>4. UNCHANGED <<dispatches, polls>>
    BY <1>4 DEF CommitManual, FinalizeManual, broker
  <2>5. Reached(e, g)' <=> Reached(e, g)
    <3>1. CASE CommitManual(r)
      BY <1>0, <2>2, <3>1, ManualRow DEF CommitManual, Reached, Goals
    <3>2. CASE FinalizeManual(r)
      BY <1>0, <2>2, <3>2 DEF FinalizeManual, Reached, TypeOK
    <3> QED
      BY <1>4, <3>1, <3>2
  <2> QED
    BY <1>0, <2>3, <2>4, <2>5, NothingNew, WorkersSame
<1> QED
  BY <1>1, <1>2, <1>3, <1>4 DEF RequestStep

\* A worker uses its chance up.
LEMMA UsedUp ==
    ASSUME TypeOK, TypeOK', NEW e \in Executions, NEW g \in Goals, NEW w \in Workers,
           UNCHANGED <<rpc, wanted, dispatches, polls, crashes>>,
           WorkerMay(w, e, g), ~WorkerMay(w, e, g)',
           \A v \in Workers : v # w => (WorkerMay(v, e, g)' => WorkerMay(v, e, g))
    PROVE  ChanceMove(e, g)
<1> DEFINE x == <<"worker", w, 0>>
<1>1. /\ \A q \in Requests : RequestMay(q, e)' =>
            RequestMay(q, e) /\ <<"request", q, 0>> \notin {x}
      /\ \A k \in Nat : <<"dispatch", 0, k>> \notin {x}
      /\ \A n \in Attempts, k \in Nat : <<"poll", n, k>> \notin {x}
  BY RequestsSame
<1>2. \A v \in Workers : WorkerMay(v, e, g)' =>
         WorkerMay(v, e, g) /\ <<"worker", v, 0>> \notin {x}
  OBVIOUS
<1>3. x \in Tokens(e, g)
  BY TokenIs
<1> HIDE DEF x
<1>4. Tokens(e, g)' \subseteq (Tokens(e, g) \ {x}) \cup {}
  BY <1>1, <1>2, TokensFrom
<1>5. crashes' >= crashes
  BY CrashesCount
<1> QED
  BY <1>3, <1>4, <1>5 DEF ChanceMove

\* A worker leaves a poll message in its place.
LEMMA HandedOn ==
    ASSUME TypeOK, TypeOK', NEW w \in Workers, NEW i \in Attempts, pc[w] \in Before,
           pc' = [pc EXCEPT ![w] = "ack"], polls' = [polls EXCEPT ![Of(w)][i] = @ + 1],
           UNCHANGED <<status, viewports, rpc, wanted, dispatches, msg, todo, crashes>>,
           NEW e \in Executions, NEW g \in Goals
    PROVE  ChanceMove(e, g)
<1>0. Of(w) \in Executions /\ pc[w] # "idle"
  BY MessageType DEF Before
<1>1. polls[Of(w)][i] + 1 \in Nat /\ polls[Of(w)][i] \in Nat
  BY <1>0 DEF TypeOK
<1>2. \A f \in Executions, n \in Attempts :
         polls'[f][n] = IF f = Of(w) /\ n = i THEN polls[Of(w)][i] + 1 ELSE polls[f][n]
  BY <1>0, <1>1, PollAdded
<1>3. /\ \A v \in Workers : WorkerMay(v, e, g)' => WorkerMay(v, e, g) /\ v # w
      /\ \A q \in Requests : RequestMay(q, e)' => RequestMay(q, e)
  <2>1. pc'[w] = "ack" /\ \A v \in Workers : v # w => pc'[v] = pc[v]
    BY DEF TypeOK
  <2> QED
    BY <2>1, RequestsSame DEF WorkerMay, Of, Before
<1>4. (Reached(e, g)' <=> Reached(e, g)) /\ crashes' >= crashes
  BY CrashesCount DEF Reached
<1>5. CASE e # Of(w)
  <2>1. \A n \in Attempts : polls'[e][n] = polls[e][n]
    BY <1>2, <1>5
  <2>2. Tokens(e, g)' \subseteq (Tokens(e, g) \ {}) \cup {}
    BY <1>3, <2>1, TokensFrom
  <2> QED
    BY <1>4, <2>2 DEF ChanceMove
<1>6. CASE e = Of(w)
  <2> DEFINE x == <<"worker", w, 0>>
             y == <<"poll", i, polls[e][i] + 1>>
  <2>1. /\ \A q \in Requests : RequestMay(q, e)' =>
              RequestMay(q, e) /\ <<"request", q, 0>> \notin {x}
        /\ \A k \in Nat : <<"dispatch", 0, k>> \notin {x}
        /\ \A v \in Workers : WorkerMay(v, e, g)' =>
              WorkerMay(v, e, g) /\ <<"worker", v, 0>> \notin {x}
    BY <1>3
  <2>2. \A n \in Attempts, k \in Nat : k \in 1..polls'[e][n] =>
           \/ <<"poll", n, k>> \in {y}
           \/ k \in 1..polls[e][n] /\ <<"poll", n, k>> \notin {x}
    <3> SUFFICES ASSUME NEW n \in Attempts, NEW k \in Nat, k \in 1..polls'[e][n]
                 PROVE  \/ <<"poll", n, k>> = y
                        \/ k \in 1..polls[e][n] /\ <<"poll", n, k>> # x
      OBVIOUS
    <3>1. polls[e][n] \in Nat
      BY DEF TypeOK
    <3>2. (n = i /\ k = polls[e][i] + 1) \/ k \in 1..polls[e][n]
      BY <1>1, <1>2, <1>6, <3>1
    <3> QED
      BY <3>2
  <2>3. x \in Tokens(e, g) /\ y \in Slots
    <3>1. WorkerMay(w, e, g)
      BY <1>0, <1>6 DEF WorkerMay
    <3> QED
      BY <1>1, <1>6, <3>1, TokenIs
  <2> HIDE DEF x, y
  <2>4. /\ \A q \in Requests : RequestMay(q, e)' =>
              \/ <<"request", q, 0>> \in {y}
              \/ RequestMay(q, e) /\ <<"request", q, 0>> \notin {x}
        /\ \A v \in Workers : WorkerMay(v, e, g)' =>
              \/ <<"worker", v, 0>> \in {y}
              \/ WorkerMay(v, e, g) /\ <<"worker", v, 0>> \notin {x}
    BY <2>1
  <2>5. \A k \in Nat : k \in 1..dispatches'[e] =>
           \/ <<"dispatch", 0, k>> \in {y}
           \/ k \in 1..dispatches[e] /\ <<"dispatch", 0, k>> \notin {x}
    BY <2>1
  <2>6. Tokens(e, g)' \subseteq (Tokens(e, g) \ {x}) \cup {y}
    BY <2>2, <2>4, <2>5, TokensFrom
  <2> QED
    BY <1>4, <2>3, <2>6 DEF ChanceMove
<1> QED
  BY <1>5, <1>6

LEMMA TakeChances ==
    ASSUME TypeOK, TypeOK', NEW w \in Workers, NEW f \in Executions,
           TakeDispatch(w, f) \/ \E n \in Attempts : TakePoll(w, f, n),
           NEW e \in Executions, NEW g \in Goals
    PROVE  ChanceMove(e, g)
<1> DEFINE y == <<"worker", w, 0>>
<1>0. /\ UNCHANGED <<status, viewports, rpc, wanted, todo, crashes>>
      /\ pc[w] = "idle"
      /\ \A v \in Workers : v # w => pc'[v] = pc[v] /\ msg'[v] = msg[v]
      /\ msg'[w].of = f
  BY DEF TakeDispatch, TakePoll, Goto, TypeOK, table, requests, bounds, ingestion
<1>1. /\ \A q \in Requests : RequestMay(q, e)' => RequestMay(q, e)
      /\ \A v \in Workers : v # w => (WorkerMay(v, e, g)' => WorkerMay(v, e, g))
      /\ e # f => ~WorkerMay(w, e, g)'
  BY <1>0, RequestsSame DEF WorkerMay, Of
<1>2. (Reached(e, g)' <=> Reached(e, g)) /\ crashes' >= crashes
  BY <1>0, CrashesCount DEF Reached
<1>3. CASE e # f
  <2>1. /\ \A n \in Attempts : polls'[e][n] = polls[e][n]
        /\ dispatches'[e] = dispatches[e]
    BY <1>3 DEF TakeDispatch, TakePoll, TypeOK
  <2>2. Tokens(e, g)' \subseteq (Tokens(e, g) \ {}) \cup {}
    BY <1>1, <1>3, <2>1, TokensFrom
  <2> QED
    BY <1>2, <2>2 DEF ChanceMove
<1>4. ASSUME e = f, TakeDispatch(w, f) PROVE ChanceMove(e, g)
  <2> DEFINE x == <<"dispatch", 0, dispatches[e]>>
  <2>1. /\ dispatches[e] \in Nat /\ dispatches[e] > 0 /\ dispatches'[e] = dispatches[e] - 1
        /\ polls' = polls
    BY <1>4 DEF TakeDispatch, TypeOK
  <2>2. /\ \A q \in Requests : <<"request", q, 0>> \notin {x}
        /\ \A n \in Attempts, k \in Nat : <<"poll", n, k>> \notin {x}
        /\ \A v \in Workers : v # w => <<"worker", v, 0>> \notin {x}
    OBVIOUS
  <2>3. \A k \in Nat : k \in 1..dispatches'[e] =>
           k \in 1..dispatches[e] /\ <<"dispatch", 0, k>> \notin {x}
    BY <2>1
  <2>4. x \in Tokens(e, g) /\ y \in Slots
    BY <2>1, TokenIs
  <2>5. \A v \in Workers : WorkerMay(v, e, g)' =>
           \/ <<"worker", v, 0>> \in {y}
           \/ WorkerMay(v, e, g) /\ <<"worker", v, 0>> \notin {x}
    BY <1>1
  <2> HIDE DEF x, y
  <2>6. \A q \in Requests : RequestMay(q, e)' =>
           \/ <<"request", q, 0>> \in {y}
           \/ RequestMay(q, e) /\ <<"request", q, 0>> \notin {x}
    BY <1>1, <2>2
  <2>7. \A n \in Attempts, k \in Nat : k \in 1..polls'[e][n] =>
           \/ <<"poll", n, k>> \in {y}
           \/ k \in 1..polls[e][n] /\ <<"poll", n, k>> \notin {x}
    BY <2>1, <2>2
  <2>8. Tokens(e, g)' \subseteq (Tokens(e, g) \ {x}) \cup {y}
    BY <2>3, <2>5, <2>6, <2>7, TokensFrom
  <2> QED
    BY <1>2, <2>4, <2>8 DEF ChanceMove
<1>5. ASSUME e = f, NEW i \in Attempts, TakePoll(w, f, i) PROVE ChanceMove(e, g)
  <2> DEFINE x == <<"poll", i, polls[e][i]>>
  <2>1. polls[e][i] \in Nat /\ polls[e][i] > 0 /\ dispatches' = dispatches
    BY <1>5 DEF TakePoll, TypeOK
  <2>2. /\ \A q \in Requests : <<"request", q, 0>> \notin {x}
        /\ \A k \in Nat : <<"dispatch", 0, k>> \notin {x}
        /\ \A v \in Workers : v # w => <<"worker", v, 0>> \notin {x}
    OBVIOUS
  <2>3. \A n \in Attempts, k \in Nat : k \in 1..polls'[e][n] =>
           k \in 1..polls[e][n] /\ <<"poll", n, k>> \notin {x}
    <3> SUFFICES ASSUME NEW n \in Attempts, NEW k \in Nat, k \in 1..polls'[e][n]
                 PROVE  k \in 1..polls[e][n] /\ ~(n = i /\ k = polls[e][i])
      OBVIOUS
    <3>1. polls[e][i] - 1 \in Nat /\ polls[e][n] \in Nat
      BY <2>1 DEF TypeOK
    <3>2. polls'[e][n] = IF n = i THEN polls[e][i] - 1 ELSE polls[e][n]
      BY <1>5, <3>1, PollAdded DEF TakePoll
    <3> QED
      BY <3>1, <3>2
  <2>4. x \in Tokens(e, g) /\ y \in Slots
    BY <2>1, TokenIs
  <2>5. /\ \A v \in Workers : WorkerMay(v, e, g)' =>
              \/ <<"worker", v, 0>> \in {y}
              \/ WorkerMay(v, e, g) /\ <<"worker", v, 0>> \notin {x}
        /\ \A q \in Requests : RequestMay(q, e)' =>
              RequestMay(q, e) /\ <<"request", q, 0>> \notin {x}
        /\ \A k \in Nat : k \in 1..dispatches'[e] =>
              k \in 1..dispatches[e] /\ <<"dispatch", 0, k>> \notin {x}
    BY <1>1, <2>1, <2>2
  <2> HIDE DEF x, y
  <2>6. \A n \in Attempts, k \in Nat : k \in 1..polls'[e][n] =>
           \/ <<"poll", n, k>> \in {y}
           \/ k \in 1..polls[e][n] /\ <<"poll", n, k>> \notin {x}
    BY <2>3
  <2>7. /\ \A q \in Requests : RequestMay(q, e)' =>
              \/ <<"request", q, 0>> \in {y}
              \/ RequestMay(q, e) /\ <<"request", q, 0>> \notin {x}
        /\ \A k \in Nat : k \in 1..dispatches'[e] =>
              \/ <<"dispatch", 0, k>> \in {y}
              \/ k \in 1..dispatches[e] /\ <<"dispatch", 0, k>> \notin {x}
    BY <2>5
  <2>8. Tokens(e, g)' \subseteq (Tokens(e, g) \ {x}) \cup {y}
    BY <2>5, <2>6, <2>7, TokensFrom
  <2> QED
    BY <1>2, <2>4, <2>8 DEF ChanceMove
<1> QED
  BY <1>3, <1>4, <1>5

\* A death adds one chance at most: the message delivered again.
LEMMA CrashChances ==
    ASSUME TypeOK, TypeOK', NEW w \in Workers, Crash(w), NEW e \in Executions, NEW g \in Goals
    PROVE  ChanceMove(e, g)
<1>0. /\ UNCHANGED <<status, viewports, rpc, wanted>> /\ pc[w] # "idle"
      /\ crashes \in Nat /\ crashes' = crashes + 1
      /\ pc'[w] = "idle"
      /\ \A v \in Workers : v # w => pc'[v] = pc[v] /\ msg'[v] = msg[v] /\ todo'[v] = todo[v]
      /\ Of(w) \in Executions
  BY CrashesCount, MessageType DEF Crash, Leave, Goto, TypeOK, table, requests
<1>1. /\ \A q \in Requests : RequestMay(q, e)' => RequestMay(q, e)
      /\ \A v \in Workers : WorkerMay(v, e, g)' => WorkerMay(v, e, g)
      /\ Reached(e, g)' <=> Reached(e, g)
  BY <1>0, RequestsSame DEF WorkerMay, Of, Reached
<1>2. CASE UNCHANGED broker
  BY <1>0, <1>1, <1>2, NothingNew DEF broker
<1>3. CASE dispatches' = [dispatches EXCEPT ![Of(w)] = @ + 1] /\ UNCHANGED polls
  <2> DEFINE y == <<"dispatch", 0, dispatches[e] + 1>>
  <2>1. dispatches[e] \in Nat /\ dispatches'[e] \in {dispatches[e], dispatches[e] + 1}
    BY <1>3 DEF TypeOK
  <2>2. \A k \in Nat : k \in 1..dispatches'[e] => <<"dispatch", 0, k>> \in {y} \/ k \in 1..dispatches[e]
    BY <2>1
  <2>3. y \in Slots
    BY <2>1, TokenIs
  <2> HIDE DEF y
  <2>4. Tokens(e, g)' \subseteq (Tokens(e, g) \ {}) \cup {y}
    BY <1>1, <1>3, <2>2, TokensFrom
  <2> QED
    BY <1>0, <1>1, <2>3, <2>4 DEF ChanceMove
<1>4. ASSUME NEW i \in Attempts, polls' = [polls EXCEPT ![Of(w)][i] = @ + 1], UNCHANGED dispatches
      PROVE  ChanceMove(e, g)
  <2> DEFINE y == <<"poll", i, polls[e][i] + 1>>
  <2>1. polls[e][i] \in Nat /\ polls[Of(w)][i] + 1 \in Nat
    BY <1>0 DEF TypeOK
  <2>2. \A n \in Attempts, k \in Nat : k \in 1..polls'[e][n] =>
           <<"poll", n, k>> \in {y} \/ k \in 1..polls[e][n]
    <3> SUFFICES ASSUME NEW n \in Attempts, NEW k \in Nat, k \in 1..polls'[e][n]
                 PROVE  (n = i /\ k = polls[e][i] + 1) \/ k \in 1..polls[e][n]
      OBVIOUS
    <3>1. polls[e][n] \in Nat
      BY DEF TypeOK
    <3>2. polls'[e][n] = IF e = Of(w) /\ n = i THEN polls[Of(w)][i] + 1 ELSE polls[e][n]
      BY <1>0, <1>4, <2>1, PollAdded
    <3> QED
      BY <2>1, <3>1, <3>2
  <2>3. y \in Slots
    BY <2>1, TokenIs
  <2> HIDE DEF y
  <2>4. Tokens(e, g)' \subseteq (Tokens(e, g) \ {}) \cup {y}
    BY <1>1, <1>4, <2>2, TokensFrom
  <2> QED
    BY <1>0, <1>1, <2>3, <2>4 DEF ChanceMove
<1>5. msg[w].task = "poll" => msg[w].attempt \in Attempts
  BY <1>0, MessageType
<1> QED
  BY <1>2, <1>3, <1>4, <1>5 DEF Crash

LEMMA WorkerChances ==
    ASSUME TypeOK, TypeOK', PollsBounded, PageInHand, NEW w \in Workers,
           WorkerStep(w) \/ TaskFails(w),
           NEW e \in Executions, NEW g \in Goals
    PROVE  ChanceMove(e, g)
<1>1. ASSUME NEW f \in Executions, TakeDispatch(w, f) \/ \E n \in Attempts : TakePoll(w, f, n)
      PROVE  ChanceMove(e, g)
  BY <1>1, TakeChances
<1>2. CASE SchedulePoll(w)
  <2>1. 1 \in Attempts
    BY Tier0Assumption DEF Attempts
  <2> QED
    BY <1>2, <2>1, HandedOn
       DEF SchedulePoll, Goto, Before, table, requests, ingestion, bounds
<1>3. CASE PollAgain(w)
  <2> DEFINE i == NextAttempt(msg[w].attempt)
  <2>1. pc[w] = "again" /\ polls' = [polls EXCEPT ![Of(w)][i] = @ + 1]
    BY <1>3 DEF PollAgain
  <2>2. msg[w].task = "poll" /\ msg[w].attempt \in Nat /\ msg[w].attempt > 0
        /\ msg[w].attempt <= MaxPolls
    BY <2>1, MessageType, Tier0Assumption DEF PollsBounded, Attempts
  <2>3. i \in Attempts
    BY <2>2, Tier0Assumption DEF Attempts, NextAttempt
  <2> HIDE DEF i
  <2> QED
    BY <1>3, <2>1, <2>3, HandedOn
       DEF PollAgain, Goto, Before, table, requests, ingestion, bounds
\* A step that keeps the message and the broker, and reaches no goal.
<1>4. ASSUME UNCHANGED <<rpc, wanted, dispatches, polls, crashes, viewports, msg>>,
             Reached(e, g)' => Reached(e, g), NEW p \in Phases, Goto(w, p),
             \A v \in Workers : v # w => todo'[v] = todo[v],
             \/ pc[w] \in Before
             \/ p = "ack"
             \/ pc[w] \in {"ingest", "write"} /\ p \in {"ingest", "write"} /\ todo'[w] \subseteq todo[w]
      PROVE  ChanceMove(e, g)
  <2>1. pc'[w] = p /\ \A v \in Workers : v # w => pc'[v] = pc[v]
    BY <1>4 DEF Goto, TypeOK
  <2>2. \A v \in Workers : WorkerMay(v, e, g)' => WorkerMay(v, e, g)
    BY <1>4, <2>1, WorkerFewer
  <2>3. crashes' >= crashes
    BY <1>4, CrashesCount
  <2> QED
    BY <1>4, <2>2, <2>3, NothingNew, RequestsSame
<1>5. ASSUME ClaimExecution(w) \/ Trigger(w) \/ ReadExecution(w) \/ Poll(w)
      PROVE  ChanceMove(e, g)
  <2>1. /\ UNCHANGED <<rpc, wanted, dispatches, polls, crashes, viewports, msg>>
        /\ pc[w] \in Before
        /\ \E p \in Phases : Goto(w, p)
    BY <1>5 DEF ClaimExecution, Trigger, ReadExecution, Poll, Unavailable, Before, Phases,
                table, requests, broker, bounds
  <2>2. \A v \in Workers : v # w => todo'[v] = todo[v]
    BY <1>5 DEF ClaimExecution, Trigger, ReadExecution, Poll, ingestion, TypeOK
  <2>3. UNCHANGED status \/ status' = [status EXCEPT ![Of(w)] = "running"]
    BY <1>5 DEF ClaimExecution, Trigger, ReadExecution, Poll, table
  <2>4. Reached(e, g)' => Reached(e, g)
    BY <2>1, <2>3 DEF Reached, Ended, Usable, TypeOK
  <2> QED
    BY <1>4, <2>1, <2>2, <2>4
<1>6. ASSUME NEW j \in Jobs, IngestJob(w, j) PROVE ChanceMove(e, g)
  <2>1. /\ UNCHANGED <<rpc, wanted, dispatches, polls, crashes, viewports, msg, status, todo>>
        /\ pc[w] = "ingest" /\ Goto(w, "write")
    BY <1>6 DEF IngestJob, table, requests, broker, bounds
  <2>2. Reached(e, g)' => Reached(e, g)
    BY <2>1 DEF Reached
  <2> QED
    BY <1>4, <2>1, <2>2 DEF Phases
<1>7. CASE TaskFails(w)
  <2>1. /\ UNCHANGED <<rpc, wanted, dispatches, polls, crashes, viewports, msg, status, todo>>
        /\ Goto(w, "ack")
    BY <1>7 DEF TaskFails, table, requests, broker, ingestion
  <2>2. Reached(e, g)' => Reached(e, g)
    BY <2>1 DEF Reached
  <2> QED
    BY <1>4, <2>1, <2>2 DEF Phases
<1>8. CASE CommitJob(w)
  <2> DEFINE j == page[w]
  <2>0. /\ pc[w] = "write" /\ Of(w) \in Executions /\ j \in Jobs
        /\ UNCHANGED <<rpc, wanted, dispatches, polls, crashes, msg, status>>
    BY <1>8, MessageType DEF CommitJob, TypeOK, requests, broker, bounds
  <2>1. CASE UNCHANGED <<viewports, todo>> /\ Goto(w, "ack")
    BY <1>4, <2>0, <2>1 DEF Phases, Reached
  <2>2. CASE /\ viewports' = [viewports EXCEPT ![Of(w)][j] = Replaced(sees[w], @)]
             /\ todo' = [todo EXCEPT ![w] = @ \ {j}]
             /\ Goto(w, "ingest")
    <3>1. /\ pc'[w] = "ingest" /\ \A v \in Workers : v # w => pc'[v] = pc[v]
          /\ todo'[w] = todo[w] \ {j} /\ \A v \in Workers : v # w => todo'[v] = todo[v]
      BY <2>2 DEF Goto, TypeOK
    <3>2. \A v \in Workers : WorkerMay(v, e, g)' => WorkerMay(v, e, g)
      BY <2>0, <3>1, WorkerFewer
    <3>3. viewports[Of(w)][j] \in Nat
      BY <2>0 DEF TypeOK
    <3>4. \A f \in Executions, i \in Jobs : f # Of(w) \/ i # j => viewports'[f][i] = viewports[f][i]
      BY <2>0, <2>2, <3>3, ReplacedType, ViewportsReplaced
    <3>5. CASE e = Of(w) /\ g = j /\ j \in todo[w]
      <4>1. WorkerMay(w, e, g) /\ ~WorkerMay(w, e, g)'
        BY <2>0, <3>1, <3>5, Tier0Assumption DEF WorkerMay, Of, Before, Verdict
      <4> QED
        BY <2>0, <3>2, <4>1, UsedUp
    <3>6. CASE e # Of(w) \/ g # j
      <4>1. Reached(e, g)' => Reached(e, g)
        BY <2>0, <3>4, <3>6 DEF Reached, Goals
      <4> QED
        BY <2>0, <3>2, <4>1, NothingNew, RequestsSame, CrashesCount
    <3>7. j \in todo[w]
      BY <2>0 DEF PageInHand
    <3> QED
      BY <3>5, <3>6, <3>7
  <2> QED
    BY <1>8, <2>1, <2>2 DEF CommitJob
<1>9. CASE FinalizeExecution(w)
  <2>0. /\ UNCHANGED <<rpc, wanted, dispatches, polls, crashes, msg, viewports, todo>>
        /\ pc[w] \in {"finalize", "ingest"} /\ Goto(w, "ack") /\ Of(w) \in Executions
        /\ status' = [status EXCEPT ![Of(w)] = verdict[w]]
    BY <1>9, MessageType DEF FinalizeExecution, requests, broker, bounds, ingestion
  <2>1. pc'[w] = "ack" /\ \A v \in Workers : v # w => pc'[v] = pc[v]
    BY <2>0 DEF Goto, TypeOK
  <2>2. CASE e = Of(w) /\ g = Verdict
    <3>1. WorkerMay(w, e, g) /\ ~WorkerMay(w, e, g)'
      BY <2>0, <2>1, <2>2 DEF WorkerMay, Before
    <3>2. \A v \in Workers : v # w => (WorkerMay(v, e, g)' => WorkerMay(v, e, g))
      BY <2>0, <2>1 DEF WorkerMay, Of
    <3> QED
      BY <2>0, <3>1, <3>2, UsedUp
  <2>3. CASE e # Of(w) \/ g # Verdict
    <3>1. Reached(e, g)' => Reached(e, g)
      BY <2>0, <2>3 DEF Reached, TypeOK
    <3> QED
      BY <1>4, <2>0, <3>1 DEF Phases
  <2> QED
    BY <2>2, <2>3
<1>10. CASE Acknowledge(w)
  <2>1. /\ UNCHANGED <<rpc, wanted, dispatches, polls, crashes, viewports, status>>
        /\ pc'[w] = "idle"
        /\ \A v \in Workers : v # w => pc'[v] = pc[v] /\ msg'[v] = msg[v] /\ todo'[v] = todo[v]
    BY <1>10 DEF Acknowledge, Leave, Goto, TypeOK, table, requests, broker, bounds
  <2>2. \A v \in Workers : WorkerMay(v, e, g)' => WorkerMay(v, e, g)
    BY <2>1 DEF WorkerMay, Of
  <2>3. Reached(e, g)' <=> Reached(e, g)
    BY <2>1 DEF Reached
  <2> QED
    BY <2>1, <2>2, <2>3, NothingNew, RequestsSame, CrashesCount
<1> QED
  BY <1>1, <1>2, <1>3, <1>5, <1>6, <1>7, <1>8, <1>9, <1>10 DEF WorkerStep

\* What happens to the page a worker writes, and to what its transaction sees of it.
LEMMA PageMoves ==
    ASSUME TypeOK, [Next]_vars, NEW v \in Workers
    PROVE  \/ WorkerStep(v) \/ TaskFails(v) \/ Crash(v)
           \/ /\ page'[v] = page[v]
              /\ \/ sees'[v] = sees[v]
                 \/ /\ sees[v] = "rows" /\ sees'[v] = "norows" /\ pc[v] = "write"
                    /\ \E w \in Workers \ {v} : /\ CommitJob(w) /\ pc[w] = "write"
                                                /\ Of(w) = Of(v) /\ page[w] = page[v]
<1> DEFINE Rests == page'[v] = page[v] /\ sees'[v] = sees[v]
<1>1. ASSUME NEW w \in Workers \ {v}, WorkerStep(w), ~CommitJob(w) PROVE Rests
  <2>1. CASE UNCHANGED <<page, sees>>
    BY <2>1
  <2>2. ASSUME NEW j \in Jobs, IngestJob(w, j) PROVE Rests
    BY <2>2 DEF IngestJob, TypeOK
  <2>3. CASE Acknowledge(w)
    BY <2>3 DEF Acknowledge, Leave, TypeOK
  <2> QED
    BY <1>1, <2>1, <2>2, <2>3
       DEF WorkerStep, TakeDispatch, TakePoll, ClaimExecution, Trigger, SchedulePoll,
           ReadExecution, Poll, PollAgain, FinalizeExecution, ingestion
<1>2. ASSUME NEW w \in Workers \ {v}, CommitJob(w)
      PROVE  /\ page'[v] = page[v]
             /\ \/ sees'[v] = sees[v]
                \/ /\ sees[v] = "rows" /\ sees'[v] = "norows" /\ pc[v] = "write"
                   /\ CommitJob(w) /\ pc[w] = "write" /\ Of(w) = Of(v) /\ page[w] = page[v]
  BY <1>2 DEF CommitJob, Outrun, TypeOK
<1>3. ASSUME NEW w \in Workers \ {v}, TaskFails(w) \/ Crash(w) PROVE Rests
  BY <1>3 DEF TaskFails, Crash, Leave, TypeOK, ingestion
<1>4. ASSUME NEW r \in Requests, RequestStep(r) \/ ManualFails(r) PROVE Rests
  BY <1>4 DEF RequestStep, LockWebsite, CheckInFlight, InsertExecution, EnqueueDispatch,
              IngestManual, CommitManual, FinalizeManual, ManualFails, workers, ingestion
<1>5. ASSUME (\E e \in Executions : ProviderEnds(e)) \/ UNCHANGED vars PROVE Rests
  BY <1>5 DEF ProviderEnds, vars, workers, ingestion
<1> QED
  BY <1>1, <1>2, <1>3, <1>4, <1>5 DEF Next

\* A worker that writes has just looked the page up, or was writing it before.
LEMMA WriteMoves ==
    ASSUME TypeOK, [Next]_vars, NEW v \in Workers, pc'[v] = "write"
    PROVE  \/ \E j \in Jobs : IngestJob(v, j)
           \/ /\ pc[v] = "write" /\ msg'[v] = msg[v] /\ todo'[v] = todo[v]
              /\ page'[v] = page[v]
              /\ \/ sees'[v] = sees[v]
                 \/ /\ sees[v] = "rows" /\ sees'[v] = "norows"
                    /\ \E w \in Workers \ {v} : /\ CommitJob(w) /\ pc[w] = "write"
                                                /\ Of(w) = Of(v) /\ page[w] = page[v]
<1>1. ASSUME NEW e \in Executions, TakeDispatch(v, e) \/ \E n \in Attempts : TakePoll(v, e, n)
      PROVE  FALSE
  BY <1>1 DEF TakeDispatch, TakePoll, Goto, TypeOK
<1>2. ASSUME \/ ClaimExecution(v) \/ Trigger(v) \/ SchedulePoll(v) \/ ReadExecution(v)
             \/ Poll(v) \/ PollAgain(v) \/ CommitJob(v) \/ FinalizeExecution(v) \/ TaskFails(v)
      PROVE  FALSE
  <2>1. \E p \in Phases \ {"write"} : Goto(v, p)
    BY <1>2 DEF ClaimExecution, Trigger, SchedulePoll, ReadExecution, Poll, PollAgain, CommitJob,
                FinalizeExecution, TaskFails, Unavailable, Phases
  <2> QED
    BY <2>1 DEF Goto, TypeOK
<1>3. ASSUME Acknowledge(v) \/ Crash(v) PROVE FALSE
  BY <1>3 DEF Acknowledge, Crash, Leave, Goto, TypeOK
<1>4. WorkerStep(v) \/ TaskFails(v) \/ Crash(v) => \E j \in Jobs : IngestJob(v, j)
  BY <1>1, <1>2, <1>3 DEF WorkerStep
<1>5. CASE ~(WorkerStep(v) \/ TaskFails(v) \/ Crash(v))
  <2>1. pc'[v] = pc[v] /\ msg'[v] = msg[v] /\ todo'[v] = todo[v]
    BY <1>5, OthersRest
  <2> QED
    BY <1>5, <2>1, PageMoves
<1> QED
  BY <1>4, <1>5

LEMMA PageInHandNext == TypeOK /\ PageInHand /\ [Next]_vars => PageInHand'
<1> SUFFICES ASSUME TypeOK, PageInHand, [Next]_vars, NEW v \in Workers, pc'[v] = "write"
             PROVE  page'[v] \in todo'[v]
  BY DEF PageInHand
<1>1. ASSUME NEW j \in Jobs, IngestJob(v, j) PROVE page'[v] \in todo'[v]
  BY <1>1 DEF IngestJob, TypeOK
<1> QED
  BY <1>1, WriteMoves DEF PageInHand

\* What a step does to the stored rows.
LEMMA RowMoves ==
    ASSUME TypeOK, [Next]_vars
    PROVE  \/ UNCHANGED viewports
           \/ \E w \in Workers : CommitJob(w) /\ pc[w] = "write"
           \/ \E r \in Requests : CommitManual(r) /\ rpc[r] = "write"
<1>1. ASSUME NEW w \in Workers, WorkerStep(w) PROVE UNCHANGED viewports \/ (CommitJob(w) /\ pc[w] = "write")
  BY <1>1 DEF WorkerStep, TakeDispatch, TakePoll, ClaimExecution, Trigger, SchedulePoll,
              ReadExecution, Poll, PollAgain, IngestJob, CommitJob, FinalizeExecution, Acknowledge,
              table
<1>2. ASSUME NEW r \in Requests, RequestStep(r) \/ ManualFails(r)
      PROVE  UNCHANGED viewports \/ (CommitManual(r) /\ rpc[r] = "write")
  BY <1>2 DEF RequestStep, LockWebsite, CheckInFlight, InsertExecution, EnqueueDispatch,
              IngestManual, CommitManual, FinalizeManual, ManualFails, table
<1>3. ASSUME \/ \E w \in Workers : TaskFails(w) \/ Crash(w)
             \/ \E e \in Executions : ProviderEnds(e)
             \/ UNCHANGED vars
      PROVE  UNCHANGED viewports
  BY <1>3 DEF TaskFails, Crash, ProviderEnds, vars, table
<1> QED
  BY <1>1, <1>2, <1>3 DEF Next

\* So does a worker's.
LEMMA CommitRow ==
    ASSUME TypeOK, NEW w \in Workers, CommitJob(w)
    PROVE  /\ Of(w) \in Executions /\ page[w] \in Jobs
           /\ \/ UNCHANGED viewports
              \/ /\ ~(sees[w] = "nopage" /\ viewports[Of(w)][page[w]] > 0)
                 /\ \A e \in Executions, j \in Jobs :
                       viewports'[e][j] = IF e = Of(w) /\ j = page[w]
                                          THEN Replaced(sees[w], viewports[Of(w)][page[w]])
                                          ELSE viewports[e][j]
<1>1. Of(w) \in Executions /\ page[w] \in Jobs
  BY MessageType DEF CommitJob, TypeOK
<1>2. viewports[Of(w)][page[w]] \in Nat
  BY <1>1 DEF TypeOK
<1> DEFINE n == Replaced(sees[w], viewports[Of(w)][page[w]])
<1>3. n \in Nat
  BY <1>2, ReplacedType
<1>4. \/ UNCHANGED viewports
      \/ /\ viewports' = [viewports EXCEPT ![Of(w)][page[w]] = n]
         /\ ~(sees[w] = "nopage" /\ viewports[Of(w)][page[w]] > 0)
  BY DEF CommitJob, Refused
<1> HIDE DEF n
<1>5. ASSUME viewports' = [viewports EXCEPT ![Of(w)][page[w]] = n]
      PROVE  \A e \in Executions, j \in Jobs :
                viewports'[e][j] = IF e = Of(w) /\ j = page[w] THEN n ELSE viewports[e][j]
  <2>1. PICK f \in Executions, i \in Jobs : f = Of(w) /\ i = page[w]
    BY <1>1
  <2>2. viewports' = [viewports EXCEPT ![f][i] = n]
    BY <1>5, <2>1
  <2>3. \A e \in Executions, j \in Jobs :
           viewports'[e][j] = IF e = f /\ j = i THEN n ELSE viewports[e][j]
    BY <1>3, <2>2, ViewportsReplaced
  <2> QED
    BY <2>1, <2>3
<1> QED
  BY <1>1, <1>4, <1>5 DEF n

LEMMA NoRowsNext ==
    ASSUME TypeOK, Inserted, NoRowsBefore, [Next]_vars
    PROVE  NoRowsBefore'
<1> SUFFICES ASSUME NEW e \in Executions, NEW j \in Jobs, status'[e] = "absent"
             PROVE  viewports'[e][j] = 0
  BY DEF NoRowsBefore
<1>1. status[e] = "absent" /\ viewports[e][j] = 0
  BY StaysInserted DEF NoRowsBefore
<1>2. ASSUME NEW w \in Workers, CommitJob(w), pc[w] = "write" PROVE viewports'[e][j] = 0
  BY <1>1, <1>2, CommitRow DEF Inserted, Tasked
<1>3. ASSUME NEW r \in Requests, CommitManual(r), rpc[r] = "write" PROVE viewports'[e][j] = 0
  BY <1>1, <1>3, ManualRow DEF Inserted
<1> QED
  BY <1>1, <1>2, <1>3, RowMoves

\* Deaths are counted one by one.
LEMMA CrashMoves == TypeOK /\ [Next]_vars => crashes \in Nat /\ crashes' \in {crashes, crashes + 1}
<1> SUFFICES ASSUME TypeOK, [Next]_vars PROVE crashes' \in {crashes, crashes + 1}
  BY CrashesCount
<1>1. ASSUME NEW r \in Requests, RequestStep(r) \/ ManualFails(r) PROVE UNCHANGED crashes
  BY <1>1 DEF RequestStep, LockWebsite, CheckInFlight, InsertExecution, EnqueueDispatch,
              IngestManual, CommitManual, FinalizeManual, ManualFails, bounds
<1>2. ASSUME NEW w \in Workers, WorkerStep(w) \/ TaskFails(w) PROVE UNCHANGED crashes
  BY <1>2 DEF WorkerStep, TakeDispatch, TakePoll, ClaimExecution, Trigger, SchedulePoll,
              ReadExecution, Poll, PollAgain, IngestJob, CommitJob, FinalizeExecution,
              Acknowledge, TaskFails, bounds
<1>3. ASSUME NEW w \in Workers, Crash(w) PROVE crashes' = crashes + 1
  BY <1>3 DEF Crash
<1>4. ASSUME (\E e \in Executions : ProviderEnds(e)) \/ UNCHANGED vars PROVE UNCHANGED crashes
  BY <1>4 DEF ProviderEnds, vars, bounds
<1> QED
  BY <1>1, <1>2, <1>3, <1>4 DEF Next

LEMMA ChancesNext ==
    ASSUME TypeOK, PollsBounded, Inserted, LockHeld, NoRowsBefore, PageInHand, Chances, [Next]_vars
    PROVE  Chances'
<1>4. UNCHANGED wanted
  BY RequestsFixed
<1> SUFFICES ASSUME NEW e \in Executions, NEW g \in Goals, ~ByHand(e) PROVE ChanceOf(e, g)'
  BY <1>4 DEF Chances, Goals, ByHand
<1>0. TypeOK'
  BY TypeNext
<1>1. ASSUME (\E f \in Executions : ProviderEnds(f)) \/ UNCHANGED vars PROVE ChanceMove(e, g)
  <2>1. UNCHANGED <<status, viewports, rpc, wanted, pc, msg, todo, dispatches, polls, crashes>>
    BY <1>1 DEF ProviderEnds, vars, table, requests, broker, workers, ingestion, bounds
  <2>2. Reached(e, g)' <=> Reached(e, g)
    BY <2>1 DEF Reached
  <2> QED
    BY <1>0, <2>1, <2>2, NothingNew, RequestsSame, WorkersSame, CrashesCount
<1>2. ChanceMove(e, g)
  <2>1. ASSUME NEW r \in Requests, RequestStep(r) \/ ManualFails(r) PROVE ChanceMove(e, g)
    BY <1>0, <2>1, RequestChances
  <2>2. ASSUME NEW w \in Workers, WorkerStep(w) \/ TaskFails(w) PROVE ChanceMove(e, g)
    BY <1>0, <2>2, WorkerChances
  <2>3. ASSUME NEW w \in Workers, Crash(w) PROVE ChanceMove(e, g)
    BY <1>0, <2>3, CrashChances
  <2> QED
    BY <1>1, <2>1, <2>2, <2>3 DEF Next
<1>3. crashes \in Nat /\ crashes' \in Nat
  BY <1>0, Tier0Assumption DEF TypeOK
<1> QED
  BY <1>2, <1>3, ChanceStep DEF Chances

-----------------------------------------------------------------------------
(* What the chances are good for: rows stored once, and evidence kept.      *)

LEMMA TwoCounted ==
    ASSUME NEW S, IsFiniteSet(S), NEW x \in S, NEW y \in S, x # y
    PROVE  Cardinality(S) >= 2
<1>1. {y} \subseteq S \ {x} /\ Cardinality({y}) = 1
  BY FS_Singleton
<1>2. Cardinality({y}) + 1 <= Cardinality(S)
  BY <1>1, CountRemoved
<1>3. Cardinality(S) \in Nat
  BY FS_CardinalityType
<1> QED
  BY <1>1, <1>2, <1>3

LEMMA OneCounted ==
    ASSUME NEW S, IsFiniteSet(S), NEW x \in S
    PROVE  Cardinality(S) >= 1
<1>1. {} \subseteq S \ {x} /\ Cardinality({}) = 0
  BY FS_EmptySet
<1>2. Cardinality({}) + 1 <= Cardinality(S)
  BY <1>1, CountRemoved
<1>3. Cardinality(S) \in Nat
  BY FS_CardinalityType
<1> QED
  BY <1>1, <1>2, <1>3

\* A goal that was reached has two chances left only after two deaths.
LEMMA NoTwoLeft ==
    ASSUME TypeOK, Chances, NEW e \in Executions, NEW g \in Goals, ~ByHand(e), Reached(e, g),
           NEW v \in Workers, NEW w \in Workers, v # w, WorkerMay(v, e, g), WorkerMay(w, e, g)
    PROVE  crashes >= 2
<1> DEFINE S == Tokens(e, g)
           x == <<"worker", v, 0>>
           y == <<"worker", w, 0>>
<1>1. IsFiniteSet(S) /\ Cardinality(S) + 1 <= 1 + crashes /\ crashes \in Nat
  BY CrashesCount DEF Chances, ChanceOf
<1>2. x \in S /\ y \in S /\ x # y
  BY TokenIs
<1> HIDE DEF S, x, y
<1>3. Cardinality(S) >= 2 /\ Cardinality(S) \in Nat
  BY <1>1, <1>2, TwoCounted, FS_CardinalityType
<1> QED
  BY <1>1, <1>3

\* Without a death, a goal that was reached has no chance left.
LEMMA NoneLeft ==
    ASSUME TypeOK, Chances, crashes = 0, NEW e \in Executions, NEW g \in Goals, ~ByHand(e),
           Reached(e, g)
    PROVE  /\ \A r \in Requests : ~RequestMay(r, e)
           /\ \A w \in Workers : ~WorkerMay(w, e, g)
<1> DEFINE S == Tokens(e, g)
<1>1. IsFiniteSet(S) /\ Cardinality(S) + 1 <= 1 + 0
  BY DEF Chances, ChanceOf
<1>2. \A t \in S : FALSE
  <2> HIDE DEF S
  <2> SUFFICES ASSUME NEW t \in S PROVE FALSE
    OBVIOUS
  <2>1. Cardinality(S) >= 1 /\ Cardinality(S) \in Nat
    BY <1>1, OneCounted, FS_CardinalityType
  <2> QED
    BY <1>1, <2>1
<1> QED
  BY <1>2, TokenIs

\* A worker that found the page in the table writes a page that has rows; and, but
\* for a second death, it is the only one to find them.
OnceInv ==
    /\ \A w \in Workers :
          pc[w] = "write" /\ sees[w] # "nopage" => viewports[Of(w)][page[w]] > 0
    /\ crashes <= 1 =>
          /\ \A w \in Workers : pc[w] = "write" => sees[w] # "norows"
          /\ \A e \in Executions, j \in Jobs : ~ByHand(e) => viewports[e][j] <= 1

LEMMA OnceNext ==
    ASSUME TypeOK, Inserted, PageInHand, Chances, OnceInv, [Next]_vars
    PROVE  OnceInv'
<1>0. crashes \in Nat /\ crashes' \in {crashes, crashes + 1}
  BY CrashMoves
<1>1. ASSUME NEW w \in Workers, pc'[w] = "write", sees'[w] # "nopage"
      PROVE  viewports'[msg'[w].of][page'[w]] > 0
  <2>1. ASSUME NEW j \in Jobs, IngestJob(w, j) PROVE viewports'[msg'[w].of][page'[w]] > 0
    <3>1. Of(w) \in Executions
      BY <2>1, MessageType DEF IngestJob
    <3>2. UNCHANGED <<viewports, msg>> /\ page'[w] = j
      BY <2>1 DEF IngestJob, table, TypeOK
    <3>3. sees'[w] = IF viewports[Of(w)][j] = 0 THEN "nopage" ELSE "rows"
      BY <2>1 DEF IngestJob, FoundOf, TypeOK
    <3>4. viewports[Of(w)][j] \in Nat /\ viewports[Of(w)][j] # 0
      BY <1>1, <3>1, <3>3 DEF TypeOK
    <3> QED
      BY <3>2, <3>4 DEF Of
  <2>2. ASSUME pc[w] = "write", msg'[w] = msg[w], page'[w] = page[w], sees[w] # "nopage"
        PROVE  viewports'[msg'[w].of][page'[w]] > 0
    <3>1. Of(w) \in Executions /\ page[w] \in Jobs /\ viewports[Of(w)][page[w]] > 0
      BY <2>2, MessageType DEF OnceInv, TypeOK
    <3> QED
      BY <2>2, <3>1, EvidenceMoves DEF EvidenceGrows, Of
  <2> QED
    BY <1>1, <2>1, <2>2, WriteMoves
<1>2. ASSUME NEW w \in Workers, pc'[w] = "write", crashes <= 1 PROVE sees'[w] # "norows"
  <2>1. ASSUME NEW j \in Jobs, IngestJob(w, j) PROVE sees'[w] # "norows"
    BY <2>1 DEF IngestJob, FoundOf, TypeOK
  <2>2. ASSUME pc[w] = "write", sees[w] = "rows", NEW v \in Workers \ {w}, pc[v] = "write",
               Of(v) = Of(w), page[v] = page[w]
        PROVE  FALSE
    <3>1. PICK e \in Executions, j \in Jobs : e = Of(w) /\ j = page[w] /\ viewports[e][j] > 0
      BY <2>2, MessageType DEF OnceInv, TypeOK
    <3>2. j \in Goals /\ Reached(e, j) /\ ~ByHand(e)
      BY <2>2, <3>1, Tier0Assumption DEF Goals, Reached, Verdict, Inserted, Tasked
    <3>3. WorkerMay(w, e, j) /\ WorkerMay(v, e, j)
      BY <2>2, <3>1 DEF WorkerMay, PageInHand
    <3>4. crashes >= 2
      BY <3>2, <3>3, NoTwoLeft
    <3> QED
      BY <1>0, <1>2, <3>4
  <2>3. pc[w] = "write" => sees[w] # "norows"
    BY <1>2 DEF OnceInv
  <2> QED
    BY <1>2, <2>1, <2>2, <2>3, WriteMoves
<1>3. ASSUME NEW e \in Executions, NEW j \in Jobs, ~ByHand(e), crashes <= 1
      PROVE  viewports'[e][j] <= 1
  <2>0. viewports[e][j] <= 1
    BY <1>3 DEF OnceInv
  <2>1. ASSUME NEW w \in Workers, CommitJob(w), pc[w] = "write" PROVE viewports'[e][j] <= 1
    <3>1. sees[w] \in {"nopage", "rows"} /\ viewports[Of(w)][page[w]] \in Nat
      BY <1>3, <2>1, CommitRow DEF OnceInv, TypeOK, Found
    <3>2. ~(sees[w] = "nopage" /\ viewports[Of(w)][page[w]] > 0)
             => Replaced(sees[w], viewports[Of(w)][page[w]]) = 1
      BY <3>1 DEF Replaced
    <3> QED
      BY <2>0, <2>1, <3>2, CommitRow
  <2>2. ASSUME NEW r \in Requests, CommitManual(r), rpc[r] = "write" PROVE viewports'[e][j] <= 1
    <3>1. e # wanted[r]
      BY <1>3, <2>2 DEF Inserted, ByHand
    <3> QED
      BY <2>0, <2>2, <3>1, ManualRow
  <2> QED
    BY <2>0, <2>1, <2>2, RowMoves
<1>4. crashes' <= 1 => crashes <= 1
  BY <1>0
<1>5. \A e : ByHand(e)' <=> ByHand(e)
  BY RequestsFixed DEF ByHand
<1> QED
  BY <1>1, <1>2, <1>3, <1>4, <1>5 DEF OnceInv, Of

\* A run of the script has the rows of a page to write, or is past that commit.
Writes(q, e, j) == rpc[q] = "write" /\ wanted[q] = e /\ result[q] = j
Past(p, e, j) ==
    p \in Manual /\ wanted[p] = e /\ result[p] = j /\ rpc[p] \in {"finish", "closed"}

\* Each time the rows of a page that a run of the script writes go from one state to
\* the next, a run of it is past: one where there are rows, or where a run found some;
\* two where those it found are gone; and three where there are more than a run stores.
ReplayInv ==
    /\ \A e \in Executions, j \in Jobs :
          ByHand(e) /\ viewports[e][j] > 0 => \E p \in Manual : Past(p, e, j)
    /\ \A q \in Manual, e \in Executions, j \in Jobs :
          /\ Writes(q, e, j) /\ finds[q] # "nopage" => \E p \in Manual : Past(p, e, j)
          /\ Writes(q, e, j) /\ finds[q] = "norows" =>
                \E p, r \in Manual : p # r /\ Past(p, e, j) /\ Past(r, e, j)
    /\ \A e \in Executions, j \in Jobs :
          ByHand(e) /\ viewports[e][j] > 1 =>
             \E p, q, r \in Manual : /\ p # q /\ q # r /\ p # r
                                     /\ Past(p, e, j) /\ Past(q, e, j) /\ Past(r, e, j)

\* What a step does to the transaction of a run of the script.
LEMMA ScriptMoves ==
    ASSUME TypeOK, [Next]_vars, NEW q \in Requests
    PROVE  \/ IngestManual(q)
           \/ rpc[q] \notin {"finish", "closed"} /\ rpc'[q] # "write" /\ result'[q] = result[q]
           \/ /\ result'[q] = result[q]
              /\ \/ rpc'[q] = rpc[q]
                 \/ rpc[q] \in {"finish", "closed"} /\ rpc'[q] = "closed"
              /\ \/ finds'[q] = finds[q]
                 \/ /\ finds[q] = "rows" /\ finds'[q] = "norows" /\ rpc[q] = "write"
                    /\ \E r \in Requests \ {q} : /\ CommitManual(r) /\ rpc[r] = "write"
                                                 /\ wanted[r] = wanted[q] /\ result[r] = result[q]
<1> DEFINE Rests == UNCHANGED <<rpc[q], result[q], finds[q]>>
<1>1. ASSUME NEW w \in Workers, WorkerStep(w) \/ TaskFails(w) \/ Crash(w) PROVE Rests
  BY <1>1 DEF WorkerStep, TakeDispatch, TakePoll, ClaimExecution, Trigger, SchedulePoll,
              ReadExecution, Poll, PollAgain, IngestJob, CommitJob, FinalizeExecution,
              Acknowledge, TaskFails, Crash, requests
<1>2. ASSUME (\E e \in Executions : ProviderEnds(e)) \/ UNCHANGED vars PROVE Rests
  BY <1>2 DEF ProviderEnds, vars, requests
<1>3. ASSUME NEW r \in Requests \ {q}, RequestStep(r) \/ ManualFails(r), ~CommitManual(r) PROVE Rests
  <2>1. \E p : RGoto(r, p)
    BY <1>3 DEF RequestStep, LockWebsite, CheckInFlight, InsertExecution, EnqueueDispatch,
                IngestManual, FinalizeManual, ManualFails
  <2>2. rpc'[q] = rpc[q]
    BY <2>1 DEF RGoto, TypeOK
  <2>3. result'[q] = result[q] /\ finds'[q] = finds[q]
    BY <1>3 DEF RequestStep, LockWebsite, CheckInFlight, InsertExecution, EnqueueDispatch,
                IngestManual, FinalizeManual, ManualFails, script, TypeOK
  <2> QED
    BY <2>2, <2>3
<1>4. ASSUME NEW r \in Requests \ {q}, CommitManual(r)
      PROVE  /\ UNCHANGED <<rpc[q], result[q]>> /\ rpc[r] = "write"
             /\ \/ finds'[q] = finds[q]
                \/ /\ finds[q] = "rows" /\ finds'[q] = "norows" /\ rpc[q] = "write"
                   /\ wanted[r] = wanted[q] /\ result[r] = result[q]
  <2>1. \E p : RGoto(r, p)
    BY <1>4 DEF CommitManual
  <2>2. rpc'[q] = rpc[q] /\ result'[q] = result[q] /\ rpc[r] = "write"
    BY <1>4, <2>1 DEF CommitManual, RGoto, TypeOK
  <2>3. \/ finds'[q] = finds[q]
        \/ /\ finds[q] = "rows" /\ finds'[q] = "norows" /\ rpc[q] = "write"
           /\ wanted[r] = wanted[q] /\ result[r] = result[q]
    BY <1>4 DEF CommitManual, Outrun, TypeOK
  <2> QED
    BY <2>2, <2>3
<1>5. ASSUME LockWebsite(q) \/ CheckInFlight(q) \/ InsertExecution(q) \/ EnqueueDispatch(q)
      PROVE  rpc[q] \notin {"finish", "closed"} /\ rpc'[q] # "write" /\ result'[q] = result[q]
  <2>1. \E p \in {"check", "insert", "ingest", "enqueue", "closed"} : RGoto(q, p)
    BY <1>5 DEF LockWebsite, CheckInFlight, InsertExecution, EnqueueDispatch
  <2>2. rpc[q] \in {"new", "check", "insert", "enqueue"} /\ result' = result
    BY <1>5 DEF LockWebsite, CheckInFlight, InsertExecution, EnqueueDispatch, script
  <2> QED
    BY <2>1, <2>2 DEF RGoto, TypeOK
<1>6. ASSUME CommitManual(q)
      PROVE  rpc[q] \notin {"finish", "closed"} /\ rpc'[q] # "write" /\ result'[q] = result[q]
  <2>1. rpc[q] = "write" /\ result' = result /\ \E p \in {"finish", "closed"} : RGoto(q, p)
    BY <1>6 DEF CommitManual
  <2> QED
    BY <2>1 DEF RGoto, TypeOK
<1>7. ASSUME FinalizeManual(q) \/ ManualFails(q)
      PROVE  \/ rpc[q] \notin {"finish", "closed"} /\ rpc'[q] # "write" /\ result'[q] = result[q]
             \/ /\ rpc[q] = "finish" /\ rpc'[q] = "closed"
                /\ UNCHANGED <<result[q], finds[q]>>
  <2>1. /\ rpc[q] \in {"ingest", "write", "finish"} /\ RGoto(q, "closed")
        /\ result' = result /\ finds' = finds
    BY <1>7 DEF FinalizeManual, ManualFails, script
  <2> QED
    BY <2>1 DEF RGoto, TypeOK
<1>8. ASSUME NEW r \in Requests, RequestStep(r) \/ ManualFails(r), r # q
      PROVE  Rests \/ CommitManual(r)
  BY <1>3, <1>8
<1>9. RequestStep(q) \/ ManualFails(q) =>
         \/ IngestManual(q)
         \/ LockWebsite(q) \/ CheckInFlight(q) \/ InsertExecution(q) \/ EnqueueDispatch(q)
         \/ CommitManual(q)
         \/ FinalizeManual(q) \/ ManualFails(q)
  BY DEF RequestStep
<1> QED
  BY <1>1, <1>2, <1>4, <1>5, <1>6, <1>7, <1>8, <1>9 DEF Next

LEMMA PastStays ==
    ASSUME TypeOK, [Next]_vars, NEW p \in Manual, NEW e, NEW j, Past(p, e, j)
    PROVE  Past(p, e, j)'
<1>1. p \in Requests /\ wanted' = wanted
  BY Tier0Assumption, RequestsFixed
<1>2. ~IngestManual(p)
  BY DEF Past, IngestManual
<1> QED
  BY <1>1, <1>2, ScriptMoves DEF Past

\* A run of the script is past its commit once it has taken that step.
LEMMA PastComes ==
    ASSUME TypeOK, Inserted, [Next]_vars, NEW r \in Requests, CommitManual(r),
           NEW e, NEW j, Writes(r, e, j)
    PROVE  r \in Manual /\ Past(r, e, j)' /\ ~Past(r, e, j)
<1>1. r \in Manual /\ wanted' = wanted /\ result' = result
  BY RequestsFixed DEF Inserted, CommitManual, Writes
<1>2. \E p \in {"finish", "closed"} : RGoto(r, p)
  BY DEF CommitManual
<1>3. rpc'[r] \in {"finish", "closed"}
  BY <1>2 DEF RGoto, TypeOK
<1> QED
  BY <1>1, <1>3 DEF Past, Writes

\* The rows of an execution of the script change by its commits alone.
LEMMA ScriptRows ==
    ASSUME TypeOK, Inserted, [Next]_vars, NEW e \in Executions, NEW j \in Jobs, ByHand(e),
           viewports'[e][j] # viewports[e][j]
    PROVE  \E r \in Requests :
              /\ CommitManual(r) /\ Writes(r, e, j)
              /\ ~(finds[r] = "nopage" /\ viewports[e][j] > 0)
              /\ viewports'[e][j] = Replaced(finds[r], viewports[e][j])
<1>1. ASSUME NEW w \in Workers, CommitJob(w), pc[w] = "write" PROVE FALSE
  <2>1. ~ByHand(Of(w))
    BY <1>1 DEF Inserted, Tasked
  <2> QED
    BY <1>1, <2>1, CommitRow
<1> QED
  BY <1>1, RowMoves, ManualRow DEF Writes

LEMMA ReplayNext ==
    ASSUME TypeOK, Inserted, ReplayInv, [Next]_vars
    PROVE  ReplayInv'
<1>0. /\ \A e : ByHand(e)' <=> ByHand(e)
      /\ wanted' = wanted /\ Manual \subseteq Requests
  BY RequestsFixed, Tier0Assumption DEF ByHand
<1>1. ASSUME NEW e \in Executions, NEW j \in Jobs, ByHand(e), viewports'[e][j] > 0
      PROVE  \E p \in Manual : Past(p, e, j)'
  <2>1. CASE viewports'[e][j] = viewports[e][j]
    <3>1. PICK p \in Manual : Past(p, e, j)
      BY <1>1, <2>1 DEF ReplayInv
    <3> QED
      BY <3>1, PastStays
  <2>2. CASE viewports'[e][j] # viewports[e][j]
    <3>1. PICK r \in Requests : CommitManual(r) /\ Writes(r, e, j)
      BY <1>1, <2>2, ScriptRows
    <3> QED
      BY <3>1, PastComes
  <2> QED
    BY <2>1, <2>2
<1>2. ASSUME NEW q \in Manual, NEW e \in Executions, NEW j \in Jobs, Writes(q, e, j)',
             finds'[q] # "nopage"
      PROVE  \E p \in Manual : Past(p, e, j)'
  <2>1. PICK p \in Manual : Past(p, e, j)
    <3>1. CASE IngestManual(q)
      <4>1. finds'[q] = FoundOf(e, j)
        BY <1>0, <1>2, <3>1 DEF IngestManual, Writes, TypeOK
      <4>2. viewports[e][j] \in Nat /\ ByHand(e)
        BY <1>0, <1>2 DEF TypeOK, ByHand, Writes
      <4>3. viewports[e][j] > 0
        BY <1>2, <4>1, <4>2 DEF FoundOf
      <4> QED
        BY <4>2, <4>3 DEF ReplayInv
    <3>2. CASE ~IngestManual(q)
      <4>1. Writes(q, e, j) /\ finds[q] # "nopage"
        BY <1>0, <1>2, <3>2, ScriptMoves DEF Writes
      <4> QED
        BY <4>1 DEF ReplayInv
    <3> QED
      BY <3>1, <3>2
  <2> QED
    BY <2>1, PastStays
<1>3. ASSUME NEW q \in Manual, NEW e \in Executions, NEW j \in Jobs, Writes(q, e, j)',
             finds'[q] = "norows"
      PROVE  \E p, r \in Manual : p # r /\ Past(p, e, j)' /\ Past(r, e, j)'
  <2>1. ~IngestManual(q)
    BY <1>0, <1>3 DEF IngestManual, FoundOf, TypeOK
  <2>2. Writes(q, e, j)
    BY <1>0, <1>3, <2>1, ScriptMoves DEF Writes
  <2>3. CASE finds[q] = "norows"
    <3>1. PICK p, r \in Manual : p # r /\ Past(p, e, j) /\ Past(r, e, j)
      BY <2>2, <2>3 DEF ReplayInv
    <3> QED
      BY <3>1, PastStays
  <2>4. CASE finds[q] # "norows"
    <3>1. PICK r \in Requests : finds[q] = "rows" /\ CommitManual(r) /\ Writes(r, e, j)
      BY <1>0, <1>3, <2>1, <2>2, <2>4, ScriptMoves DEF Writes
    <3>2. PICK p \in Manual : Past(p, e, j)
      BY <2>2, <3>1 DEF ReplayInv
    <3>3. r \in Manual /\ Past(r, e, j)' /\ ~Past(r, e, j)
      BY <3>1, PastComes
    <3>4. Past(p, e, j)'
      BY <3>2, PastStays
    <3> QED
      BY <3>2, <3>3, <3>4
  <2> QED
    BY <2>3, <2>4
<1>4. ASSUME NEW e \in Executions, NEW j \in Jobs, ByHand(e), viewports'[e][j] > 1
      PROVE  \E p, q, r \in Manual : /\ p # q /\ q # r /\ p # r
                                     /\ Past(p, e, j)' /\ Past(q, e, j)' /\ Past(r, e, j)'
  <2>1. CASE viewports[e][j] > 1
    <3>1. PICK p, q, r \in Manual : /\ p # q /\ q # r /\ p # r
                                    /\ Past(p, e, j) /\ Past(q, e, j) /\ Past(r, e, j)
      BY <1>4, <2>1 DEF ReplayInv
    <3>2. Past(p, e, j)' /\ Past(q, e, j)' /\ Past(r, e, j)'
      BY <3>1, PastStays
    <3> QED
      BY <3>1, <3>2
  <2>2. CASE ~(viewports[e][j] > 1)
    <3>1. viewports[e][j] \in Nat /\ viewports'[e][j] # viewports[e][j]
      BY <1>4, <2>2 DEF TypeOK
    <3>2. PICK r \in Requests :
              /\ CommitManual(r) /\ Writes(r, e, j)
              /\ ~(finds[r] = "nopage" /\ viewports[e][j] > 0)
              /\ viewports'[e][j] = Replaced(finds[r], viewports[e][j])
      BY <1>4, <3>1, ScriptRows
    <3>3. finds[r] = "norows"
      BY <1>4, <2>2, <3>1, <3>2 DEF Replaced, TypeOK, Found
    <3>4. r \in Manual /\ Past(r, e, j)' /\ ~Past(r, e, j)
      BY <3>2, PastComes
    <3>5. PICK p, q \in Manual : p # q /\ Past(p, e, j) /\ Past(q, e, j)
      BY <3>2, <3>3, <3>4 DEF ReplayInv
    <3>6. Past(p, e, j)' /\ Past(q, e, j)'
      BY <3>5, PastStays
    <3> QED
      BY <3>4, <3>5, <3>6
  <2> QED
    BY <2>1, <2>2
<1> QED
  BY <1>0, <1>1, <1>2, <1>3, <1>4 DEF ReplayInv

\* An execution that ended later than another ended later than those before it.
LaterOrder ==
    /\ \A d, e, f : <<d, e>> \in later /\ <<e, f>> \in later => <<d, f>> \in later
    /\ \A e : <<e, e>> \notin later

\* What a step does to the table, but for the inserts of rows.
LEMMA TableMoves ==
    ASSUME TypeOK, [Next]_vars
    PROVE  \/ UNCHANGED <<status, later, viewports>>
           \/ \E r \in Requests : \/ InsertExecution(r) \/ FinalizeManual(r)
                                  \/ CommitManual(r) /\ rpc[r] = "write"
           \/ \E w \in Workers : \/ ClaimExecution(w) \/ FinalizeExecution(w)
                                 \/ CommitJob(w) /\ pc[w] = "write"
<1>1. ASSUME NEW w \in Workers, WorkerStep(w) \/ TaskFails(w) \/ Crash(w)
      PROVE  \/ UNCHANGED <<status, later, viewports>>
             \/ ClaimExecution(w) \/ FinalizeExecution(w)
             \/ CommitJob(w) /\ pc[w] = "write"
  BY <1>1 DEF WorkerStep, TakeDispatch, TakePoll, Trigger, SchedulePoll,
              ReadExecution, Poll, PollAgain, IngestJob, CommitJob, Acknowledge, TaskFails, Crash,
              table
<1>2. ASSUME NEW r \in Requests, RequestStep(r) \/ ManualFails(r)
      PROVE  \/ UNCHANGED <<status, later, viewports>>
             \/ InsertExecution(r) \/ FinalizeManual(r) \/ (CommitManual(r) /\ rpc[r] = "write")
  BY <1>2 DEF RequestStep, LockWebsite, CheckInFlight, EnqueueDispatch, IngestManual,
              CommitManual, ManualFails, table
<1>3. ASSUME (\E e \in Executions : ProviderEnds(e)) \/ UNCHANGED vars
      PROVE  UNCHANGED <<status, later, viewports>>
  BY <1>3 DEF ProviderEnds, vars, table
<1> QED
  BY <1>1, <1>2, <1>3 DEF Next

LEMMA OrderNext == TypeOK /\ LaterOrder /\ [Next]_vars => LaterOrder'
<1> SUFFICES ASSUME TypeOK, LaterOrder, [Next]_vars PROVE LaterOrder'
  OBVIOUS
<1>1. UNCHANGED later \/ \E e \in Executions : Finished(e)
  <2>1. ASSUME NEW w \in Workers, FinalizeExecution(w) PROVE Of(w) \in Executions /\ Finished(Of(w))
    BY <2>1, MessageType DEF FinalizeExecution
  <2>2. ASSUME NEW r \in Requests, FinalizeManual(r)
        PROVE  wanted[r] \in Executions /\ Finished(wanted[r])
    BY <2>2 DEF FinalizeManual, TypeOK
  <2>3. ASSUME NEW r \in Requests, InsertExecution(r) \/ CommitManual(r) PROVE UNCHANGED later
    BY <2>3 DEF InsertExecution, CommitManual
  <2>4. ASSUME NEW w \in Workers, ClaimExecution(w) \/ CommitJob(w) PROVE UNCHANGED later
    BY <2>4 DEF ClaimExecution, CommitJob
  <2> QED
    BY <2>1, <2>2, <2>3, <2>4, TableMoves
<1>2. ASSUME NEW e \in Executions, Finished(e) PROVE LaterOrder'
  <2>1. \A d, f : <<d, f>> \in later' <=>
           (<<d, f>> \in later /\ f # e) \/ (d = e /\ f \in Executions \ {e})
    BY <1>2 DEF Finished
  <2>2. \A d, f : <<d, f>> \in later => f \in Executions
    BY DEF TypeOK
  <2> QED
    BY <2>1, <2>2 DEF LaterOrder
<1> QED
  BY <1>1, <1>2 DEF LaterOrder

\* The whole invariant: types, who is where, how many chances are left, and how many
\* runs of the script are past.
TierInv ==
    /\ TypeOK /\ PollsBounded /\ Inserted /\ LockHeld
    /\ NoRowsBefore /\ PageInHand /\ Chances /\ OnceInv /\ ReplayInv /\ LaterOrder

LEMMA TierInit == Init => TierInv
<1> SUFFICES ASSUME Init PROVE TierInv
  OBVIOUS
<1>1. TypeOK /\ PollsBounded
  BY TypeInit DEF Init, PollsBounded
<1>2. Inserted /\ LockHeld /\ NoRowsBefore /\ PageInHand
  BY DEF Init, Inserted, LockHeld, NoRowsBefore, PageInHand
<1>3. OnceInv
  BY DEF Init, OnceInv
<1>5. ReplayInv /\ LaterOrder
  <2>1. \A q \in Manual : \A e, j : ~Writes(q, e, j)
    BY Tier0Assumption DEF Init, Writes
  <2>2. \A e \in Executions, j \in Jobs : viewports[e][j] = 0
    BY DEF Init
  <2>3. ReplayInv
    BY <2>1, <2>2 DEF ReplayInv
  <2> QED
    BY <2>3 DEF Init, LaterOrder
<1>4. ASSUME NEW e \in Executions, NEW g \in Goals PROVE ChanceOf(e, g)
  <2>1. Tokens(e, g) = {}
    <3>1. \A r \in Requests : ~RequestMay(r, e)
      BY DEF Init, RequestMay
    <3>2. \A w \in Workers : ~WorkerMay(w, e, g)
      BY DEF Init, WorkerMay
    <3>3. \A k \in Nat : k \notin 1..dispatches[e]
      BY DEF Init
    <3>4. \A n \in Attempts, k \in Nat : k \notin 1..polls[e][n]
      BY DEF Init
    <3> QED
      BY <3>1, <3>2, <3>3, <3>4 DEF Tokens, Slots
  <2>2. ~Reached(e, g)
    BY DEF Init, Reached, Ended, Usable, Goals
  <2>3. crashes = 0
    BY DEF Init
  <2> QED
    BY <2>1, <2>2, <2>3, FS_EmptySet DEF ChanceOf
<1> QED
  BY <1>1, <1>2, <1>3, <1>4, <1>5 DEF TierInv, Chances

LEMMA TierNext == TierInv /\ [Next]_vars => TierInv'
BY TypeNext, PollsNext, InsertedNext, LockHeldNext, NoRowsNext, PageInHandNext, ChancesNext,
   OnceNext, ReplayNext, OrderNext DEF TierInv

LEMMA TierHolds == Spec => []TierInv
BY TierInit, TierNext, PTL DEF Spec

\* The rows of a page appear twice only after two deaths of workers, or where three
\* runs of the script brought the same result under one key, for any number of
\* executions, jobs, requests and workers.
THEOREM RowsOnce == Spec => []StoredOnce
<1>1. TierInv => StoredOnce
  <2> SUFFICES ASSUME TierInv, NEW e \in Executions, NEW j \in Jobs, viewports[e][j] > 1
               PROVE  crashes > 1 \/ Thrice(e, j)
    BY DEF StoredOnce
  <2>1. CASE ByHand(e)
    BY <2>1 DEF TierInv, ReplayInv, Past, Thrice
  <2>2. CASE ~ByHand(e)
    <3>1. crashes \in Nat /\ viewports[e][j] \in Nat
      BY CrashesCount DEF TierInv, TypeOK
    <3>2. ~(crashes <= 1)
      BY <2>2, <3>1 DEF TierInv, OnceInv
    <3> QED
      BY <3>1, <3>2
  <2> QED
    BY <2>1, <2>2
<1> QED
  BY <1>1, TierHolds, PTL

\* Without a death, a step leaves what is usable so, and either ends one execution, or
\* adds rows to one execution at most and ends none with evidence.
LEMMA EndedRest ==
    ASSUME TierInv, [Next]_vars, crashes = 0
    PROVE  /\ \A e \in Executions : status[e] \in Usable => status'[e] \in Usable
           /\ \/ /\ UNCHANGED later
                 /\ \A e \in Executions : status'[e] \in Usable => status[e] \in Usable
                 /\ \E f : \A e \in Executions, j \in Jobs :
                       e # f => viewports'[e][j] = viewports[e][j]
              \/ \E f \in Executions :
                    /\ Finished(f)
                    /\ UNCHANGED viewports
                    /\ \A e \in Executions \ {f} : status'[e] = status[e]
<1> USE DEF TierInv
<1>0. /\ TypeOK /\ Chances /\ Verdict \in Goals /\ Verdict \notin Jobs
      /\ \A e \in Executions : status[e] \in Usable => Reached(e, Verdict)
  BY Tier0Assumption DEF Goals, Verdict, Reached, Ended
<1>1. ASSUME NEW w \in Workers, pc[w] \in Before \cup {"ingest", "write", "finalize"}
      PROVE  Of(w) \in Executions /\ status[Of(w)] \notin Usable
  <2>1. pc[w] # "idle"
    BY <1>1 DEF Before
  <2>2. Of(w) \in Executions /\ ~ByHand(Of(w))
    BY <2>1, MessageType DEF Inserted, Tasked
  <2>3. WorkerMay(w, Of(w), Verdict)
    BY <1>1, <2>1 DEF WorkerMay
  <2> QED
    BY <1>0, <2>2, <2>3, NoneLeft
<1>2. ASSUME NEW w \in Workers, ClaimExecution(w)
      PROVE  /\ Of(w) \in Executions /\ status[Of(w)] \notin Usable
             /\ UNCHANGED <<later, viewports>>
             /\ \A e \in Executions : status'[e] = status[e] \/ (e = Of(w) /\ status'[e] = "running")
  <2>1. pc[w] = "claim"
    BY <1>2 DEF ClaimExecution
  <2> QED
    BY <1>1, <1>2, <2>1 DEF ClaimExecution, Before, TypeOK
<1>3. ASSUME NEW w \in Workers, FinalizeExecution(w)
      PROVE  /\ Of(w) \in Executions /\ status[Of(w)] \notin Usable
             /\ Finished(Of(w)) /\ UNCHANGED viewports
             /\ \A e \in Executions \ {Of(w)} : status'[e] = status[e]
  <2>1. pc[w] \in {"finalize", "ingest"}
    BY <1>3 DEF FinalizeExecution
  <2> QED
    BY <1>1, <1>3, <2>1 DEF FinalizeExecution, TypeOK
<1>4. ASSUME NEW r \in Requests, FinalizeManual(r)
      PROVE  /\ wanted[r] \in Executions /\ status'[wanted[r]] \in Usable
             /\ Finished(wanted[r]) /\ UNCHANGED viewports
             /\ \A e \in Executions \ {wanted[r]} : status'[e] = status[e]
  BY <1>4 DEF FinalizeManual, TypeOK
<1>5. ASSUME NEW r \in Requests, InsertExecution(r)
      PROVE  /\ wanted[r] \in Executions /\ status[wanted[r]] = "absent"
             /\ UNCHANGED <<later, viewports>>
             /\ \A e \in Executions : status'[e] = status[e] \/ (e = wanted[r] /\ status'[e] = "pending")
  BY <1>5 DEF InsertExecution, LockHeld, Admitted, TypeOK
<1>6. ASSUME NEW w \in Workers, CommitJob(w)
      PROVE  /\ UNCHANGED <<later, status>>
             /\ \A e \in Executions, j \in Jobs :
                   e # Of(w) => viewports'[e][j] = viewports[e][j]
  <2>1. UNCHANGED <<later, status>>
    BY <1>6 DEF CommitJob
  <2> QED
    BY <1>0, <1>6, <2>1, CommitRow
<1>7. ASSUME NEW r \in Requests, CommitManual(r)
      PROVE  /\ UNCHANGED <<later, status>>
             /\ \A e \in Executions, j \in Jobs :
                   e # wanted[r] => viewports'[e][j] = viewports[e][j]
  <2>1. UNCHANGED <<later, status>>
    BY <1>7 DEF CommitManual
  <2> QED
    BY <1>0, <1>7, <2>1, ManualRow
<1>9. {"absent", "pending", "running"} \cap Usable = {}
  BY DEF Usable
<1> HIDE DEF TierInv
<1>10. TypeOK
  BY <1>0
<1> QED
  BY <1>2, <1>3, <1>4, <1>5, <1>6, <1>7, <1>9, <1>10, TableMoves

LEMMA ShownStays ==
    ASSUME TierInv, [Next]_vars, crashes = 0, NEW u \in Runs
    PROVE  Shown(u) \subseteq Shown(u)'
<1> SUFFICES ASSUME NEW j \in Jobs, NEW e \in UsableOf(u), ShownFrom(u, e, j)
             PROVE  \E d \in UsableOf(u)' : ShownFrom(u, d, j)'
  BY DEF Shown
<1>1. /\ e \in Executions /\ status[e] \in Usable /\ RunOf[e] = u /\ viewports[e][j] > 0
      /\ status'[e] \in Usable /\ viewports'[e][j] > 0 /\ e \in UsableOf(u)'
  <2>1. e \in Executions /\ status[e] \in Usable /\ RunOf[e] = u /\ viewports[e][j] > 0
    BY DEF UsableOf, ShownFrom
  <2>2. status'[e] \in Usable
    BY <2>1, EndedRest
  <2>3. viewports'[e][j] > 0
    BY <2>1, EvidenceMoves DEF EvidenceGrows, TierInv
  <2> QED
    BY <2>1, <2>2, <2>3 DEF UsableOf
\* Rows are added to one execution f.  It is shown instead, if it is later: what is
\* later than f is later than e.
<1>2. ASSUME UNCHANGED later,
             \A d \in Executions : status'[d] \in Usable => status[d] \in Usable,
             NEW f,
             \A d \in Executions, i \in Jobs : d # f => viewports'[d][i] = viewports[d][i]
      PROVE  \E d \in UsableOf(u)' : ShownFrom(u, d, j)'
  <2>1. \A d \in UsableOf(u)' : d \in UsableOf(u) /\ (d # f => viewports'[d][j] = viewports[d][j])
    BY <1>2 DEF UsableOf
  <2>2. CASE f \in UsableOf(u)' /\ viewports'[f][j] > 0 /\ <<f, e>> \in later
    <3>1. ASSUME NEW d \in UsableOf(u)', viewports'[d][j] > 0, <<d, f>> \in later PROVE FALSE
      <4>1. d # f /\ <<d, e>> \in later
        BY <2>2, <3>1 DEF TierInv, LaterOrder
      <4>2. d \in UsableOf(u) /\ viewports[d][j] > 0
        BY <2>1, <3>1, <4>1
      <4> QED
        BY <4>1, <4>2 DEF ShownFrom
    <3> QED
      BY <1>2, <2>2, <3>1 DEF ShownFrom
  <2>3. CASE ~(f \in UsableOf(u)' /\ viewports'[f][j] > 0 /\ <<f, e>> \in later)
    <3>1. ShownFrom(u, e, j)'
      BY <1>1, <1>2, <2>1, <2>3 DEF ShownFrom
    <3> QED
      BY <1>1, <3>1
  <2> QED
    BY <2>2, <2>3
<1>3. ASSUME NEW f \in Executions, Finished(f), UNCHANGED viewports,
             \A d \in Executions \ {f} : status'[d] = status[d]
      PROVE  \E d \in UsableOf(u)' : ShownFrom(u, d, j)'
  <2>1. CASE f \in UsableOf(u)' /\ viewports[f][j] > 0
    <3>1. \A d : <<d, f>> \notin later'
      BY <1>3 DEF Finished
    <3> QED
      BY <1>3, <2>1, <3>1 DEF ShownFrom
  <2>2. CASE ~(f \in UsableOf(u)' /\ viewports[f][j] > 0)
    <3>1. \A d \in UsableOf(u)' : viewports[d][j] > 0 => d \in UsableOf(u) /\ d # f
      BY <1>3, <2>2 DEF UsableOf
    <3>2. \A d : <<d, e>> \in later' => <<d, e>> \in later \/ d = f
      BY <1>3 DEF Finished
    <3>3. ShownFrom(u, e, j)'
      BY <1>1, <1>3, <3>1, <3>2 DEF ShownFrom
    <3> QED
      BY <1>1, <3>3
  <2> QED
    BY <2>1, <2>2
<1> QED
  BY <1>2, <1>3, EndedRest

\* A later check of an analysis run never takes away evidence a report showed, as
\* long as no worker died: no task is left to change what has ended, and what the script
\* writes again it makes the latest, with its evidence.
THEOREM EvidenceStays == Spec => EvidenceKept
<1>1. TierInv /\ [Next]_vars => [crashes' = 0 => \A u \in Runs : Shown(u) \subseteq Shown(u)']_vars
  <2> SUFFICES ASSUME TierInv, [Next]_vars, crashes' = 0, NEW u \in Runs
               PROVE  Shown(u) \subseteq Shown(u)'
    OBVIOUS
  <2>1. crashes = 0
    BY CrashMoves DEF TierInv
  <2> QED
    BY <2>1, ShownStays
<1> QED
  BY <1>1, TierHolds, PTL DEF EvidenceKept, Spec
=============================================================================
