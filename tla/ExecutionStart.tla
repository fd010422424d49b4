---------------------------- MODULE ExecutionStart ----------------------------
(***************************************************************************)
(* The four routes that start a workflow execution under a key the client   *)
(* chose (routes/report_delivery.py, routes/analysis_comparison.py and      *)
(* routes/workflow_executions.py), and create_workflow_execution, which     *)
(* each of them calls. Requests run at the same time, each in a             *)
(* transaction of its own at READ COMMITTED: a lookup sees what others have *)
(* committed, and the unique constraint on project, workflow, version and   *)
(* key is settled when the transaction commits. created_at is the start of  *)
(* the transaction, so "latest" is by the order in which requests began.    *)
(*                                                                         *)
(* All requests name the workflow full_website_analysis.                    *)
(***************************************************************************)
EXTENDS Naturals, FiniteSets

CONSTANTS
    Starts,                 \* requests; a client's retry is a request of its own
    Asks,                   \* what a request may ask for
    KnownSites, KnownRuns,  \* the rows there before
    MaxLost,                \* a bound on the requests whose process dies
    NoId

Routes == {"real", "journey", "reanalysis", "generic"}

ASSUME ExecutionStartAssumption ==
    /\ IsFiniteSet(Starts) /\ MaxLost \in Nat
    /\ NoId \notin Starts /\ Starts \cap (DOMAIN KnownSites \cup DOMAIN KnownRuns) = {}
    /\ \A a \in Asks : a.route \in Routes
    /\ \A w \in DOMAIN KnownSites : KnownSites[w].since \in Nat
    /\ \A i \in DOMAIN KnownRuns : KnownRuns[i].site \in DOMAIN KnownSites

VARIABLES
    sites, runs, executions,    \* committed rows, by identifier
    queued,                     \* how often the message of an execution was sent
    lost,
    start                       \* the request being served

store == <<sites, runs, executions>>
startVars == <<store, queued, lost, start>>

Project(r) == IF start[r].site \in DOMAIN sites THEN sites[start[r].site].project ELSE r
Keyed(r, projects) ==
    {e \in DOMAIN executions :
        executions[e].key = start[r].asked.key /\ executions[e].project \in projects}
Projects == {executions[e].project : e \in DOMAIN executions}
Latest(es) == CHOOSE e \in es : \A f \in es : executions[e].since >= executions[f].since
Oldest(ws) == CHOOSE w \in ws : \A v \in ws : sites[w].since <= sites[v].since

\* What a request of this route compares before it returns an execution as its own.
Matches(r, e) ==
    LET asked == start[r].asked  kept == executions[e].input IN
    /\ kept.run # NoId
    /\ CASE asked.route = "real"       -> kept.url = asked.url /\ kept.discovery # NoId
         [] asked.route = "journey"    -> kept.site = asked.site
         [] asked.route = "reanalysis" -> kept.baseline = asked.baseline
                                          /\ kept.settings = asked.settings
         [] OTHER -> TRUE

\* The input document of the execution a request would create. The rows the request
\* has just inserted are named in it, so no other request's document equals it; a
\* generic request inserts none.
Input(r) ==
    LET asked == start[r].asked  own(id) == IF asked.route = "generic" THEN NoId ELSE id IN
    [site     |-> start[r].site,
     run      |-> own(r),
     discovery |-> IF asked.route = "journey" THEN NoId ELSE own(r),
     url      |-> CASE asked.route = "real" -> asked.url
                    [] asked.route = "reanalysis" -> sites[start[r].site].url
                    [] OTHER -> NoId,
     baseline |-> IF asked.route = "reanalysis" THEN asked.baseline ELSE NoId,
     settings |-> asked.settings]

GoTo(r, p) == start' = [start EXCEPT ![r].at = p]
Answer(r, v, e) ==
    start' = [start EXCEPT ![r].at = "done", ![r].verdict = v, ![r].execution = e]

-----------------------------------------------------------------------------
\* The rows a route refuses a request without: the website in the project it names, a
\* baseline that is completed.
InScope(r) ==
    LET asked == start[r].asked IN
    CASE asked.route \in {"journey", "generic"} ->
            /\ asked.site \in DOMAIN sites
            /\ sites[asked.site].project = asked.project
      [] asked.route = "reanalysis" ->
            /\ asked.baseline \in DOMAIN runs
            /\ runs[asked.baseline].status = "completed"
      [] OTHER -> TRUE

AskedSite(r) ==
    LET asked == start[r].asked IN
    IF asked.route = "reanalysis" THEN runs[asked.baseline].site ELSE asked.site

Retained(r) ==
    LET asked == start[r].asked IN
    CASE asked.route = "real"    -> Keyed(r, Projects)
      [] asked.route = "generic" -> {}
      [] OTHER -> Keyed(r, {sites[AskedSite(r)].project})

Arrived(r) ==
    [start[r] EXCEPT !.since = 1 + Cardinality({q \in Starts : start[q].since > 0}),
                     !.seen = DOMAIN executions]

\* Only real starts look a key up beyond one project; a generic request leaves the lookup
\* to create_workflow_execution.
LookUp(r) ==
    /\ start[r].at = "waiting"
    /\ LET begun == Arrived(r)
           ends(v, e) == [begun EXCEPT !.at = "done", !.verdict = v, !.execution = e]
       IN start' = [start EXCEPT ![r] =
            IF ~InScope(r) THEN ends("invalid", NoId)
            ELSE IF Retained(r) # {}
                 THEN IF Matches(r, Latest(Retained(r)))
                      THEN ends("reused", Latest(Retained(r))) ELSE ends("conflict", NoId)
            ELSE IF start[r].asked.route = "real" THEN [begun EXCEPT !.at = "site"]
            ELSE [begun EXCEPT !.at = "create", !.site = AskedSite(r)]]
    /\ UNCHANGED <<store, queued, lost>>

\* A real start takes the oldest website of its address, or inserts one in a project of
\* its own.
FindSite(r) ==
    /\ start[r].at = "site"
    /\ LET known == {w \in DOMAIN sites : sites[w].url = start[r].asked.url} IN
       start' = [start EXCEPT ![r].at = "create",
                              ![r].site = IF known = {} THEN r ELSE Oldest(known)]
    /\ UNCHANGED <<store, queued, lost>>

\* create_workflow_execution up to its insert: the key may have been used since.
CreateLookup(r) ==
    /\ start[r].at = "create"
    /\ LET kept == Keyed(r, {Project(r)}) IN
       IF kept = {} THEN GoTo(r, "insert")
       ELSE IF executions[Latest(kept)].input = Input(r) THEN Answer(r, "reused", Latest(kept))
       ELSE Answer(r, "conflict", NoId)
    /\ UNCHANGED <<store, queued, lost>>

Add(rows, id, row) == [i \in DOMAIN rows \cup {id} |-> IF i = id THEN row ELSE rows[i]]

\* The commit: with the execution go the website and the runs inserted before it.
InsertExecution(r) ==
    /\ executions' = Add(executions, r,
         [project |-> Project(r), key |-> start[r].asked.key, input |-> Input(r),
          since |-> start[r].since, status |-> "pending", dispatched |-> 0])
    /\ sites' = IF start[r].site \in DOMAIN sites THEN sites
                ELSE Add(sites, r, [project |-> r, url |-> start[r].asked.url,
                                    since |-> start[r].since])
    /\ runs' = IF start[r].asked.route = "generic" THEN runs
               ELSE Add(runs, r, [site |-> start[r].site, status |-> "pending"])

\* The commit was refused by the constraint: everything is rolled back, and the winner's
\* execution is returned if its input is the same.
SettledAnyway(r, winner) == Answer(r, "reused", winner)  \* mutant
Settled(r, winner) ==
    IF executions[winner].input = Input(r) THEN Answer(r, "reused", winner)
    ELSE Answer(r, "refused", NoId)

CommitExecution(r) ==
    /\ start[r].at = "insert"
    /\ LET rivals == Keyed(r, {Project(r)}) IN
       IF rivals = {} THEN InsertExecution(r) /\ GoTo(r, "committed")
       ELSE Settled(r, Latest(rivals)) /\ UNCHANGED store
    /\ UNCHANGED <<queued, lost>>

SendMessage(r) ==
    /\ start[r].at = "committed"
    /\ queued' = [queued EXCEPT ![r] = @ + 1]
    /\ GoTo(r, "sent")
    /\ UNCHANGED <<store, lost>>

\* The broker could not be asked, or its answer was lost: the rows of the request have
\* failed, whatever became of the message.
SendFails(r) ==
    /\ start[r].at = "committed"
    /\ \E sent \in {0, 1} : queued' = [queued EXCEPT ![r] = @ + sent]
    /\ executions' = [executions EXCEPT ![r].status = "failed"]
    /\ runs' = IF r \in DOMAIN runs THEN [runs EXCEPT ![r].status = "failed"] ELSE runs
    /\ Answer(r, "unqueued", r)
    /\ UNCHANGED <<sites, lost>>

RecordDispatch(r) ==
    /\ start[r].at = "sent"
    /\ executions' = [executions EXCEPT ![r].dispatched = @ + 1]
    /\ Answer(r, "started", r)
    /\ UNCHANGED <<sites, runs, queued, lost>>

\* The process of the request dies: what it had not committed is rolled back, and the
\* client has no answer.
RequestDies(r) ==
    /\ start[r].at \notin {"waiting", "done", "dead"}
    /\ lost < MaxLost /\ lost' = lost + 1
    /\ GoTo(r, "dead")
    /\ UNCHANGED <<store, queued>>

-----------------------------------------------------------------------------
StartWith(asks) ==
    /\ sites = KnownSites /\ runs = KnownRuns /\ executions = << >>
    /\ queued = [r \in Starts |-> 0] /\ lost = 0
    /\ \E asked \in asks :
          start = [r \in Starts |->
              [at |-> "waiting", asked |-> asked[r], since |-> 0, seen |-> {}, site |-> NoId,
               verdict |-> "none", execution |-> NoId]]

StartInit == StartWith([Starts -> Asks])

StartNext ==
    \E r \in Starts :
        \/ LookUp(r) \/ FindSite(r) \/ CreateLookup(r) \/ CommitExecution(r)
        \/ SendMessage(r) \/ SendFails(r) \/ RecordDispatch(r) \/ RequestDies(r)

StartSpec == StartInit /\ [][StartNext]_startVars

-----------------------------------------------------------------------------
\* What a client may conclude from its answer.

\* An answer that names an execution names one of its key that is committed, with the run
\* and the website its input names, and that was asked for: the address, the website, the
\* baseline and settings of the request, or for a generic request the same document.
AnswersAreMine ==
    \A r \in Starts : start[r].verdict \in {"started", "reused"} =>
        LET e == start[r].execution IN
        /\ e \in DOMAIN executions /\ executions[e].key = start[r].asked.key
        /\ IF start[r].asked.route = "generic" THEN executions[e].input = Input(r)
           ELSE Matches(r, e)
        /\ executions[e].input.site \in DOMAIN sites
        /\ executions[e].input.run # NoId => executions[e].input.run \in DOMAIN runs

\* Whatever interleaves, an execution is sent once at the most and never before it can be
\* read, and one reported as started was sent.
SentOnce ==
    \A r \in Starts :
        /\ queued[r] <= 1
        /\ queued[r] = 1 => r \in DOMAIN executions
        /\ start[r].verdict = "started" => queued[r] = 1 /\ executions[r].dispatched = 1

\* A retry that begins when the execution of its key can be read creates no other: a real
\* start in any project, the others in theirs. It is given that execution unless the key
\* has also been used for something else.
RetriesAreHeld ==
    \A r \in Starts : LET asked == start[r].asked
                          mine  == {e \in start[r].seen : executions[e].key = asked.key} IN
        /\ r \in DOMAIN executions =>
              /\ \A e \in mine : executions[e].project # executions[r].project
              /\ asked.route = "real" => mine = {}
        /\ asked.route = "real" /\ start[r].verdict # "none" /\ mine # {} =>
              \/ start[r].verdict = "reused"
              \/ \E e \in mine : ~Matches(r, e)

\* A refused or dead request leaves nothing: every run and website has its execution.
NothingLeftOver ==
    /\ \A i \in DOMAIN runs \ DOMAIN KnownRuns :
          i \in DOMAIN executions /\ executions[i].input.run = i
    /\ \A w \in DOMAIN sites \ DOMAIN KnownSites : w \in DOMAIN executions

\* Property (routes/report_delivery.py:145-292, workflow_execution.py:243-297): requests that
\* race or repeat under one key.
StartsAreExact == AnswersAreMine /\ SentOnce /\ RetriesAreHeld /\ NothingLeftOver

\* Not kept by the code: one key starts one journey of one address. Two first starts of an
\* address create a project each, and the constraint is within a project.
OneStartPerKey ==
    \A e, f \in DOMAIN executions :
        executions[e].key = executions[f].key /\ executions[e].input.url = executions[f].input.url
        => e = f
=============================================================================
