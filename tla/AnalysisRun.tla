----------------------------- MODULE AnalysisRun -----------------------------
(***************************************************************************)
(* run_analysis: one analysis run, the request that starts it and the       *)
(* deliveries of its message, which is acknowledged late: a message may be  *)
(* delivered again while an earlier delivery still works, and every         *)
(* delivery writes the same rows.                                           *)
(*                                                                         *)
(* Each commit is a step. persist_results deletes and inserts in one        *)
(* transaction, statement by statement, under read committed: a delete sees *)
(* what was committed before it, waits for a row another transaction has    *)
(* deleted, and an insert that meets a committed row of the same key fails. *)
(***************************************************************************)
EXTENDS Integers, FiniteSets

CONSTANTS
    Deliveries,
    Nobody,
    FindingCodes,
    MaxAttempts     \* analysis_max_attempts

ASSUME AnalysisAssumption ==
    /\ Nobody \notin Deliveries
    /\ MaxAttempts \in Nat \ {0}

-----------------------------------------------------------------------------
VARIABLES
    status, progress, error,        \* the row of the run
    request,                        \* the request that started it
    result, findings, interpretation,
    pc, attempt,
    codes,                          \* the codes of the findings a delivery has
    deleted                         \* what its open transaction has deleted

row   == <<status, progress, error>>
taken == <<attempt, codes, deleted>>
runVars  == <<row, request, result, findings, interpretation, pc, taken>>

Statuses == {"queued", "running", "completed", "failed"}
Finding == [code: FindingCodes, by: Deliveries]
NothingDeleted == [result |-> Nobody, findings |-> {}]

\* The points at which a delivery reports progress, and what comes after each.
StageProgress == [preparing |-> 10, loading |-> 20, collecting |-> 45, auditing |-> 55,
             scoring |-> 75, saving |-> 85, interpreting |-> 90]
After == [preparing |-> "loading", loading |-> "browse", collecting |-> "auditing",
          auditing |-> "audit", scoring |-> "measure", saving |-> "delete",
          interpreting |-> "interpret"]
Working == {"validate", "browse", "audit", "measure", "delete", "replace", "insert",
            "interpret", "complete"} \cup DOMAIN StageProgress
Points == Working \cup {"waiting", "begin", "failing", "done", "dead"}

At(d, p) == pc[d] = p
Goto(d, p) == pc' = [pc EXCEPT ![d] = p]
Most(a, b) == IF a < b THEN b ELSE a

-----------------------------------------------------------------------------
(* The request commits the row and then sends the message; a broker that    *)
(* raises may have taken it.                                                *)

Enqueue ==
    /\ request = "inserted"
    /\ request' = "sent"
    /\ UNCHANGED <<row, result, findings, interpretation, pc, taken>>

EnqueueFails ==
    /\ request \in {"inserted", "sent"}
    /\ status' = "failed" /\ error' = TRUE
    /\ request' = IF request = "sent" THEN "done" ELSE "refused"
    /\ UNCHANGED <<progress, result, findings, interpretation, pc, taken>>

Answer ==
    /\ request = "sent"
    /\ request' = "done"
    /\ UNCHANGED <<row, result, findings, interpretation, pc, taken>>

-----------------------------------------------------------------------------
(* A delivery.                                                              *)

Enter(d) ==
    /\ At(d, "waiting") /\ request \in {"sent", "done"}
    /\ Goto(d, IF status = "completed" THEN "done" ELSE "begin")
    /\ UNCHANGED <<row, request, result, findings, interpretation, taken>>

Begin(d) ==
    /\ At(d, "begin")
    /\ status' = "running" /\ progress' = 5 /\ error' = FALSE
    /\ Goto(d, "validate")
    /\ UNCHANGED <<request, result, findings, interpretation, taken>>

WebsiteMissing(d) ==
    /\ At(d, "begin")
    /\ Goto(d, "done")
    /\ UNCHANGED <<row, request, result, findings, interpretation, taken>>

Validate(d) ==
    /\ At(d, "validate")
    /\ Goto(d, "preparing")
    /\ UNCHANGED <<row, request, result, findings, interpretation, taken>>

Stage(d) ==
    /\ pc[d] \in DOMAIN StageProgress
    /\ status' = "running" /\ progress' = Most(progress, StageProgress[pc[d]])
    /\ Goto(d, After[pc[d]])
    /\ attempt' = [attempt EXCEPT ![d] = 1]
    /\ UNCHANGED <<error, request, result, findings, interpretation, codes, deleted>>

\* A failure that may be retried, with time for the backoff and another attempt.
TryAgain(d) ==
    /\ pc[d] \in {"browse", "audit"} /\ attempt[d] < MaxAttempts
    /\ attempt' = [attempt EXCEPT ![d] = @ + 1]
    /\ UNCHANGED <<row, request, result, findings, interpretation, pc, codes, deleted>>

Browse(d) ==
    /\ At(d, "browse")
    /\ Goto(d, "collecting")
    /\ UNCHANGED <<row, request, result, findings, interpretation, taken>>

\* The audit may be unavailable: whatever it raises, the analysis goes on without.
Audit(d) ==
    /\ At(d, "audit")
    /\ Goto(d, "scoring")
    /\ UNCHANGED <<row, request, result, findings, interpretation, taken>>

\* generate_findings, extract_content, build_diagnostics and calculate_score.
Measure(d) ==
    /\ At(d, "measure")
    /\ \E some \in SUBSET FindingCodes : codes' = [codes EXCEPT ![d] = some]
    /\ Goto(d, "saving")
    /\ UNCHANGED <<row, request, result, findings, interpretation, attempt, deleted>>

-----------------------------------------------------------------------------
(* persist_results.                                                         *)

Locked(rows) == \E d \in Deliveries : rows \cap deleted[d].findings # {}

DeleteFindings(d) ==
    /\ At(d, "delete") /\ ~Locked(findings)
    /\ deleted' = [deleted EXCEPT ![d].findings = findings]
    /\ Goto(d, "replace")
    /\ UNCHANGED <<row, request, result, findings, interpretation, attempt, codes>>

\* The statements after the first: results, scores, diagnostics, interpretations.
DeleteResult(d) ==
    /\ At(d, "replace")
    /\ result # Nobody => \A e \in Deliveries : deleted[e].result # result
    /\ deleted' = [deleted EXCEPT ![d].result = result]
    /\ Goto(d, "insert")
    /\ UNCHANGED <<row, request, result, findings, interpretation, attempt, codes>>

Left(d) == findings \ deleted[d].findings
Conflict(d) ==
    \/ result # deleted[d].result
    \/ \E f \in Left(d) : f.code \in codes[d]

InsertTwice(d) ==                                                  \* mutant
    /\ At(d, "insert")
    /\ result' = d /\ interpretation' = Nobody
    /\ findings' = findings \cup [code: codes[d], by: {d}]
    /\ deleted' = [deleted EXCEPT ![d] = NothingDeleted]
    /\ Goto(d, "complete")
    /\ UNCHANGED <<row, request, attempt, codes>>

Insert(d) ==
    /\ At(d, "insert") /\ ~Conflict(d)
    /\ result' = d /\ interpretation' = Nobody
    /\ findings' = Left(d) \cup [code: codes[d], by: {d}]
    /\ deleted' = [deleted EXCEPT ![d] = NothingDeleted]
    /\ \/ Goto(d, "interpreting")
       \/ Goto(d, "complete")          \* no time is left for an interpretation
    /\ UNCHANGED <<row, request, attempt, codes>>

InsertFails(d) ==
    /\ At(d, "insert") /\ Conflict(d)
    /\ deleted' = [deleted EXCEPT ![d] = NothingDeleted]
    /\ Goto(d, "failing")
    /\ UNCHANGED <<row, request, result, findings, interpretation, attempt, codes>>

\* The interpretation is of the delivery's own evidence, whose rows another delivery
\* may have replaced.
Interpret(d) ==
    /\ At(d, "interpret")
    /\ interpretation' \in {interpretation, d}
    /\ Goto(d, "complete")
    /\ UNCHANGED <<row, request, result, findings, taken>>

Complete(d) ==
    /\ At(d, "complete")
    /\ status' = "completed" /\ progress' = 100
    /\ Goto(d, "done")
    /\ UNCHANGED <<error, request, result, findings, interpretation, taken>>

\* An exception anywhere: an unsafe address, a failed browser, the deadline, the
\* soft time limit. The open transaction is rolled back.
Raise(d) ==
    /\ pc[d] \in Working
    /\ Goto(d, "failing")
    /\ deleted' = [deleted EXCEPT ![d] = NothingDeleted]
    /\ UNCHANGED <<row, request, result, findings, interpretation, attempt, codes>>

MarkFailed(d) ==
    /\ At(d, "failing")
    /\ status' = "failed" /\ error' = TRUE
    /\ Goto(d, "done")
    /\ UNCHANGED <<progress, request, result, findings, interpretation, taken>>

Die(d) ==
    /\ pc[d] \in Working \cup {"begin", "failing"}
    /\ Goto(d, "dead")
    /\ deleted' = [deleted EXCEPT ![d] = NothingDeleted]
    /\ UNCHANGED <<row, request, result, findings, interpretation, attempt, codes>>

-----------------------------------------------------------------------------
RunInit ==
    /\ status = "queued" /\ progress = 0 /\ error = FALSE /\ request = "inserted"
    /\ result = Nobody /\ findings = {} /\ interpretation = Nobody
    /\ pc = [d \in Deliveries |-> "waiting"] /\ attempt = [d \in Deliveries |-> 1]
    /\ codes = [d \in Deliveries |-> {}]
    /\ deleted = [d \in Deliveries |-> NothingDeleted]

Deliver(d) ==
    \/ Enter(d) \/ Begin(d) \/ WebsiteMissing(d) \/ Validate(d) \/ Stage(d)
    \/ TryAgain(d) \/ Browse(d) \/ Audit(d) \/ Measure(d)
    \/ DeleteFindings(d) \/ DeleteResult(d) \/ Insert(d) \/ InsertFails(d)
    \/ Interpret(d) \/ Complete(d) \/ Raise(d) \/ MarkFailed(d)

RunNext ==
    \/ Enqueue \/ EnqueueFails \/ Answer
    \/ \E d \in Deliveries : Deliver(d) \/ Die(d)

RunSpec == RunInit /\ [][RunNext]_runVars
-----------------------------------------------------------------------------
RunTypeOK ==
    /\ status \in Statuses /\ progress \in 0..100 /\ error \in BOOLEAN
    /\ request \in {"inserted", "sent", "refused", "done"}
    /\ result \in Deliveries \cup {Nobody} /\ findings \in SUBSET Finding
    /\ interpretation \in Deliveries \cup {Nobody}
    /\ pc \in [Deliveries -> Points] /\ attempt \in [Deliveries -> 1..MaxAttempts]
    /\ codes \in [Deliveries -> SUBSET FindingCodes]
    /\ deleted \in [Deliveries -> [result: Deliveries \cup {Nobody}, findings: SUBSET Finding]]

\* The findings of the delivery whose result is stored are all there, and no code is
\* stored twice.
Whole(d) ==
    /\ \A c \in codes[d] : [code |-> c, by |-> d] \in findings
    /\ \A f, g \in findings : f.code = g.code => f = g

\* The report as its readers see it: missing, or of the delivery that stored its
\* result; two deliveries have a part in one that is not whole.
Report ==
    IF result = Nobody THEN {} ELSE IF Whole(result) THEN {result} ELSE {result, Nobody}

Promised == INSTANCE ReportStore WITH
    Reports <- {{d} : d \in Deliveries}, None <- {}, report <- Report

\* A run keeps what it promises, however often its message is delivered: the report is
\* missing or whole, is only replaced by a whole one, and is there when the run is
\* completed.
KeepsPromise == Promised!Spec

\* That persist_results replaces the findings of another delivery is not so when the two
\* overlap between its first delete and the next.
OneAuthor == \A f \in findings : f.by = result
=============================================================================
