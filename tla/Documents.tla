------------------------------- MODULE Documents -------------------------------
(***************************************************************************)
(* The documents derived from the evidence of completed runs, each kept     *)
(* under an idempotency key: score executions (scoring_intelligence.py),    *)
(* site diagnostics (site_diagnostics_service.py), reports                  *)
(* (report_delivery.py), comparisons (analysis_comparison.py) and action    *)
(* plans (action_generation.py). A call comes from a route, in a session of *)
(* its own that is closed after the answer, or from an agent's tool         *)
(* (tool_execution.py), in the session of the agent, which the orchestrator *)
(* commits. A tool that exceeds its time is tried a second time while the   *)
(* thread of the first attempt goes on, in the same session; what two        *)
(* threads do to one session is modelled statement by statement.             *)
(*                                                                         *)
(* Sessions read what others have committed. An insert under a key another  *)
(* session holds uncommitted waits for that session.                        *)
(***************************************************************************)
EXTENDS Naturals, FiniteSets

CONSTANTS
    Calls,
    Errands,        \* what a call may be for
    KnownDocs,      \* the documents there before
    Finished,       \* completed runs of one website
    MaxReplaced,    \* a bound on how often the results of a run are replaced
    NoDoc

Kinds == {"score", "diagnostics", "report", "comparison", "plan"}
ReadFirst == {"score", "report"}              \* read the evidence before the key
Fingerprinted == {"score", "report"}          \* compare it with what the key has kept
TriedAgain == {"diagnostics", "report", "plan"}   \* the tools that may be tried twice
Attempts == {1, 2}

ASSUME DocumentsAssumption ==
    /\ IsFiniteSet(Calls) /\ MaxReplaced \in Nat
    /\ \A e \in Errands : e.kind \in Kinds /\ e.by \in {"route", "tool"}
    \* only a comparison has a baseline, and no tool makes one
    /\ \A e \in Errands : IF e.kind = "comparison" THEN e.by = "route" ELSE e.base = NoDoc
    /\ IsFiniteSet(DOMAIN KnownDocs) /\ (Calls \X Attempts) \cap DOMAIN KnownDocs = {}
    /\ \A d \in DOMAIN KnownDocs :
          /\ DOMAIN KnownDocs[d] = {"identity", "evidence", "since", "whole"}
          /\ KnownDocs[d].identity[1] # "comparison" => KnownDocs[d].identity[3] = NoDoc
          /\ KnownDocs[d].since \in Nat
          \* the columns of a key are unique
          /\ \A f \in DOMAIN KnownDocs : KnownDocs[f].identity = KnownDocs[d].identity => f = d

VARIABLES
    results,    \* of each run, how often a redelivered analysis has replaced its results
    stored,     \* the committed documents
    held,       \* the documents a session has flushed and not committed
    broken,     \* the sessions a failed flush left unusable until a rollback
    call,       \* the calls
    thread      \* the attempts at a call, the second one only a tool's

docVars == <<results, stored, held, broken, call, thread>>

Threads == Calls \X Attempts
Errand(t) == call[t[1]].errand
Visible(c) == [d \in DOMAIN stored \cup DOMAIN held[c] |->
                  IF d \in DOMAIN stored THEN stored[d] ELSE held[c][d]]

\* The key columns of a document. A plan has only its identifier: a tool derives it from
\* the execution, a route draws a new one.
Identity(t) ==
    LET e == Errand(t) IN
    <<e.kind, e.run, e.base, IF e.kind = "plan" /\ e.by = "route" THEN t ELSE e.key>>
Kept(rows, t) == {d \in DOMAIN rows : rows[d].identity = Identity(t)}

Newest(rows, kind, ofRuns) ==
    LET some == {d \in DOMAIN rows : rows[d].identity[1] = kind /\ rows[d].identity[2] \in ofRuns}
    IN IF some = {} THEN NoDoc
       ELSE CHOOSE d \in some : \A other \in some : rows[d].since >= rows[other].since

\* What the document would be made from. A report takes the latest plan of the website,
\* whichever run it is of, and says how far the workflow and its agents have come; a
\* comparison is not told apart by the reports it was made from.
MadeFrom(of, progress, docs) == [results |-> of, progress |-> progress, from |-> docs]
ResultsEvidence(t) == MadeFrom(results[Errand(t).run], << >>, {})
ReportEvidence(t) ==
    LET rows == Visible(t[1])  run == {Errand(t).run} IN
    MadeFrom(results[Errand(t).run],
         [c \in {c \in Calls : call[c].errand.by = "tool"} |-> call[c].at],
         {Newest(rows, "score", run), Newest(rows, "diagnostics", run),
          Newest(rows, "plan", {rows[d].identity[2] : d \in DOMAIN rows})} \ {NoDoc})
ComparisonEvidence(t) ==
    MadeFrom(0, << >>, {Newest(Visible(t[1]), "report", {run}) :
                       run \in {Errand(t).run, Errand(t).base}} \ {NoDoc})
Evidence(t) ==
    CASE Errand(t).kind = "report" -> ReportEvidence(t)
      [] Errand(t).kind = "comparison" -> ComparisonEvidence(t)
      [] OTHER -> ResultsEvidence(t)

Ready(t, evidence) ==
    CASE Errand(t).kind = "report" ->
            \/ Errand(t).by = "tool"
            \/ \A c \in Calls : call[c].errand.by = "tool" => call[c].at \in {"waiting", "closed"}
      [] Errand(t).kind = "comparison" -> Cardinality(evidence.from) = 2
      [] OTHER -> TRUE

Working(t) == thread[t].at \in {"read", "lookup", "insert", "finish"}
Current(t) == call[t[1]].at = "open" /\ call[t[1]].attempt = t[2]

\* The thread returns or raises; only the current attempt's answer is heard.
Return(t, verdict, d) ==
    /\ thread' = [thread EXCEPT ![t].at = "over", ![t].evidence = NoDoc]
    /\ call' = IF Current(t)
               THEN [call EXCEPT ![t[1]].at = "answered", ![t[1]].verdict = verdict,
                                 ![t[1]].doc = d, ![t[1]].evidence = thread[t].evidence]
               ELSE call
Onward(t, step, evidence) ==
    /\ thread' = [thread EXCEPT ![t].at = step, ![t].evidence = evidence]
    /\ UNCHANGED call

Breaks(c) == held' = [held EXCEPT ![c] = << >>] /\ broken' = broken \cup {c}
RaisesBroken(t) ==
    /\ t[1] \in broken /\ Working(t)
    /\ Return(t, "error", NoDoc) /\ UNCHANGED <<results, stored, held, broken>>

-----------------------------------------------------------------------------
Arrive(c) ==
    /\ call[c].at = "waiting"
    /\ call' = [call EXCEPT ![c].at = "open", ![c].attempt = 1,
                            ![c].since = 1 + Cardinality({d \in Calls : call[d].at # "waiting"})]
    /\ thread' = [thread EXCEPT ![<<c, 1>>].at =
                     IF call[c].errand.kind \in ReadFirst THEN "read" ELSE "lookup"]
    /\ UNCHANGED <<results, stored, held, broken>>

Gather(t) ==
    /\ thread[t].at = "read" /\ t[1] \notin broken
    /\ LET evidence == Evidence(t) IN
       IF ~Ready(t, evidence) THEN Return(t, "unavailable", NoDoc)
       ELSE Onward(t, IF Errand(t).kind \in ReadFirst THEN "lookup" ELSE "insert", evidence)
    /\ UNCHANGED <<results, stored, held, broken>>

SameEvidenceUnchecked(t, d) == TRUE  \* mutant
SameEvidence(t, d) ==
    Errand(t).kind \in Fingerprinted => Visible(t[1])[d].evidence = thread[t].evidence

\* The diagnostics tool takes the latest of the run, under whatever key.
KeptFor(t) ==
    LET e == Errand(t) IN
    IF e.kind = "diagnostics" /\ e.by = "tool"
    THEN {Newest(Visible(t[1]), "diagnostics", {e.run})} \ {NoDoc}
    ELSE Kept(Visible(t[1]), t)

LookUpKey(t) ==
    /\ thread[t].at = "lookup" /\ t[1] \notin broken
    /\ LET e == Errand(t)  kept == KeptFor(t) IN
       IF kept = {}
       THEN Onward(t, IF e.kind \in ReadFirst THEN "insert" ELSE "read", thread[t].evidence)
       ELSE \E d \in kept : IF SameEvidence(t, d) THEN Return(t, "reused", d)
                                                  ELSE Return(t, "conflict", NoDoc)
    /\ UNCHANGED <<results, stored, held, broken>>

\* The flush. No handler of a key that has been taken since the lookup surrounds it: the
\* handlers are at the commit.
Insert(t) ==
    /\ thread[t].at = "insert" /\ t[1] \notin broken
    /\ \A c \in Calls \ {t[1]} : Kept(held[c], t) = {}
    /\ IF Kept(Visible(t[1]), t) # {}
       THEN Breaks(t[1]) /\ Return(t, "error", NoDoc)
       ELSE /\ held' = [held EXCEPT ![t[1]] = [d \in DOMAIN held[t[1]] \cup {t} |->
                IF d \in DOMAIN held[t[1]] THEN held[t[1]][d]
                ELSE [identity |-> Identity(t), evidence |-> thread[t].evidence,
                      since |-> call[t[1]].since, whole |-> FALSE]]]
            /\ Onward(t, "finish", thread[t].evidence) /\ UNCHANGED broken
    /\ UNCHANGED <<results, stored>>

Complete(rows, t) ==
    [d \in DOMAIN rows |-> IF d = t THEN [rows[d] EXCEPT !.whole = TRUE] ELSE rows[d]]
Commit(c, rows) == stored' = rows /\ held' = [held EXCEPT ![c] = << >>]

\* The parts of the document are added and the session is committed, with all it holds; a
\* plan is left to the caller to commit. If the row has been rolled back meanwhile the
\* parts are refused.
Finish(t) ==
    /\ thread[t].at = "finish" /\ t[1] \notin broken
    /\ LET c == t[1] IN
       IF t \notin DOMAIN Visible(c)
       THEN /\ Breaks(c) /\ Return(t, "error", NoDoc) /\ UNCHANGED stored
       ELSE /\ IF Errand(t).kind = "plan"
               THEN /\ held' = [held EXCEPT ![c] = Complete(@, t)]
                    /\ stored' = Complete(stored, t)
               ELSE Commit(c, Complete(Visible(c), t))
            /\ Return(t, "created", t) /\ UNCHANGED broken
    /\ UNCHANGED results

\* The manager stops waiting for an attempt, whose thread goes on.
TimeOut(c) ==
    /\ call[c].at = "open" /\ call[c].errand.by = "tool"
    /\ LET again == call[c].attempt = 1 /\ call[c].errand.kind \in TriedAgain IN
       /\ call' = IF again THEN [call EXCEPT ![c].attempt = 2, ![c].late = TRUE]
                  ELSE [call EXCEPT ![c].at = "answered", ![c].verdict = "timeout", ![c].late = TRUE]
       /\ thread' = IF again
                    THEN [thread EXCEPT ![<<c, 2>>].at =
                             IF call[c].errand.kind \in ReadFirst THEN "read" ELSE "lookup"]
                    ELSE thread
    /\ UNCHANGED <<results, stored, held, broken>>

\* After the answer a route's session is closed and the orchestrator commits an agent's,
\* which raises if a flush failed in it.
Close(c) ==
    /\ call[c].at = "answered"
    /\ IF call[c].errand.by = "route" \/ c \in broken
       THEN held' = [held EXCEPT ![c] = << >>] /\ UNCHANGED stored
       ELSE Commit(c, Visible(c))
    /\ call' = [call EXCEPT ![c].at = "closed",
                            ![c].verdict = IF c \in broken THEN "error" ELSE @]
    /\ broken' = broken \ {c}
    /\ UNCHANGED <<results, thread>>

\* A redelivered analysis replaces the results of a run.
ReplaceResults(run) ==
    /\ results[run] < MaxReplaced
    /\ results' = [results EXCEPT ![run] = @ + 1]
    /\ UNCHANGED <<stored, held, broken, call, thread>>

-----------------------------------------------------------------------------
DocsWith(errands) ==
    /\ results = [r \in Finished |-> 0]
    /\ stored = KnownDocs /\ held = [c \in Calls |-> << >>] /\ broken = {}
    /\ \E errand \in errands :
          call = [c \in Calls |-> [at |-> "waiting", errand |-> errand[c], attempt |-> 0, since |-> 0, late |-> FALSE,
                                   verdict |-> "none", doc |-> NoDoc, evidence |-> NoDoc]]
    /\ thread = [t \in Threads |-> [at |-> "idle", evidence |-> NoDoc]]

DocsInit == DocsWith([Calls -> Errands])

DocsNext ==
    \/ \E c \in Calls : Arrive(c) \/ TimeOut(c) \/ Close(c)
    \/ \E t \in Threads : Gather(t) \/ LookUpKey(t) \/ Insert(t) \/ Finish(t) \/ RaisesBroken(t)
    \/ \E r \in Finished : ReplaceResults(r)

DocsSpec == DocsInit /\ [][DocsNext]_docVars

-----------------------------------------------------------------------------
Made(c) == call[c].at = "closed" /\ call[c].verdict \in {"created", "reused"}

\* An answer names a document of what was asked, made from the evidence the call had read
\* where the code compares it; and unless a route made a plan, the document is kept.
AnswersAreKept ==
    \A c \in Calls : Made(c) => LET e == call[c].errand  d == call[c].doc IN
        \/ e.kind = "plan" /\ e.by = "route"
        \/ /\ d \in DOMAIN stored
           /\ stored[d].identity[1] = e.kind /\ stored[d].identity[2] = e.run
           /\ stored[d].identity[3] = e.base
           /\ e.kind \in Fingerprinted => stored[d].evidence = call[c].evidence

\* A key names one document, and a session holds none that another has committed.
KeysAreUnique ==
    \A d, f \in DOMAIN stored : stored[d].identity = stored[f].identity => d = f

\* What a stored document was made from is stored, and of the runs it is about; but the
\* plan in a report is of the website.
SourcesAreStored ==
    \A d \in DOMAIN stored \ DOMAIN KnownDocs : \A s \in stored[d].evidence.from :
        /\ s \in DOMAIN stored
        /\ stored[s].identity[1] # "plan" =>
              stored[s].identity[2] \in {stored[d].identity[2], stored[d].identity[3]}

\* A stored document has all its parts, unless an attempt at it outlived its time: then the
\* second attempt, or the orchestrator, may commit the row the first has only inserted.
StoredIsWhole ==
    \A d \in DOMAIN stored \ DOMAIN KnownDocs : stored[d].whole \/ call[d[1]].late

\* Property (report_delivery.py:5361-5677, scoring_intelligence.py:171-349,
\* site_diagnostics_service.py:363-480, analysis_comparison.py:1056-1180,
\* tool_execution.py:210-370): documents asked for at once, again, or by an attempt that
\* has outlived its time.
DocumentsAreExact ==
    AnswersAreKept /\ KeysAreUnique /\ SourcesAreStored /\ StoredIsWhole

\* Not kept by the code: a plan a route answered for is kept. Its session is closed
\* without a commit.
PlansAreKept ==
    \A c \in Calls : Made(c) /\ call[c].errand.kind = "plan" => call[c].doc \in DOMAIN stored

\* Not kept by the code: two calls for one document under one key are both answered with
\* it. The insert raises before the handler that would have read the winner's.
RacesAreAnswered == \A c \in Calls : call[c].verdict # "error"
=============================================================================
