---------------------------- MODULE RepositoryScan ----------------------------
(***************************************************************************)
(* The repository of one project: its connection, the scans that index the   *)
(* files of the checkout and the matchings of actions to them. Routes        *)
(* (routes/repository.py) read the connection in one step and commit in a    *)
(* later one; the tool repository_scanning (tool_execution.py) scans in the  *)
(* session of an agent, which the orchestrator commits, and goes on in its   *)
(* thread after its time. Route and tool share scan_repository, which gives  *)
(* back a scan that is already there under its identifier.                   *)
(***************************************************************************)
EXTENDS Naturals, FiniteSets

CONSTANTS
    RepoCalls,
    RepoErrands,    \* what a call may be for
    KnownConnections,   \* what connection there may be before
    FileKind,       \* of each file of the checkout, how the scanner treats it
    MaxEdits,       \* a bound on the changes of the checkout
    NoScan, NoConnection

Roots == {"git", "subdirectory", "plain", "outside"}
FileKinds == {"ignored", "sensitive", "binary", "source"}
Files == DOMAIN FileKind

\* The rows. A connection is numbered by the call that created it.
Numbers == RepoCalls \cup {row.number : row \in KnownConnections \ {NoConnection}}
Columns == [root |-> Roots, status |-> {"pending", "active", "unlinked"}]
ConnectionRow ==
    [number : Numbers, root : Roots, status : Columns.status, last : RepoCalls \cup {NoScan}]
CountColumns == {"total", "eligible", "scanned", "skipped"}
FileRow == [status : {"scanned", "skipped"}, version : 0..MaxEdits]
ScanRow ==
    [of : Numbers, status : {"running", "completed", "failed"},
     commit : (0..MaxEdits) \cup {NoScan}, counts : [CountColumns -> Nat],
     index : UNION {[some -> FileRow] : some \in SUBSET Files}]

ASSUME RepositoryAssumption ==
    /\ IsFiniteSet(RepoCalls) /\ MaxEdits \in Nat
    /\ FileKind \in [Files -> FileKinds] /\ IsFiniteSet(Files)
    /\ \A e \in RepoErrands :
          /\ e.op \in {"connect", "update", "disconnect", "scan", "match", "agent"}
          /\ e.op = "connect" => e.root \in Roots
          /\ e.op = "update" => /\ DOMAIN e.set \subseteq {"root", "status"}
                               /\ \A column \in DOMAIN e.set : e.set[column] \in Columns[column]
          \* a tool derives the identifier of its scan, a route draws a new one
          /\ e.op = "agent" => e.execution \notin RepoCalls \cup {NoScan}
    /\ \A row \in KnownConnections \ {NoConnection} :
          row \in ConnectionRow /\ row.last = NoScan /\ row.number \notin RepoCalls
    /\ NoScan \notin RepoCalls /\ NoScan \notin ScanRow /\ NoConnection \notin ConnectionRow

VARIABLES
    checkout,       \* how often the checkout has changed
    connection,     \* the row of the project, numbered by the call that created it
    scans,          \* the committed scans, by identifier
    matchings,      \* the matching executions
    pending,        \* the scan an agent's session has flushed and not committed
    unusable,       \* the sessions a failed flush has broken
    ask,            \* the calls
    walker          \* the attempts of a tool, and the files each has left to read

repoVars == <<checkout, connection, scans, matchings, pending, unusable, ask, walker>>

Walkers == RepoCalls \X {1, 2}
Wanted(c) == ask[c].errand
IsTool(c) == Wanted(c).op = "agent"

\* The identifier of a scan: a route draws one, a tool derives it from its execution.
ScanId(c) == IF IsTool(c) THEN Wanted(c).execution ELSE c

AnswerWith(c, verdict) == ask' = [ask EXCEPT ![c].at = "over", ![c].verdict = verdict]
Proceed(c, step, about) == ask' = [ask EXCEPT ![c].at = step, ![c].about = about]

\* validate_repository_path, is_git_repository, and git rev-parse --git-dir, which
\* accepts a directory below the top of a checkout.
IsApproved(root) == root # "outside"
IsGitRepository(root) == root = "git"
InsideGit(root) == root \in {"git", "subdirectory"}

-----------------------------------------------------------------------------
(* The connection. Each route reads it, and commits in a later step.        *)

ReadConnection(c) ==
    /\ ask[c].at = "waiting" /\ ~IsTool(c)
    /\ LET e == Wanted(c)  there == connection # NoConnection IN
       CASE e.op = "connect" ->
              IF there THEN AnswerWith(c, "conflict")
              ELSE IF e.remote \/ IsApproved(e.root) THEN Proceed(c, "commit", c) ELSE AnswerWith(c, "refused")
         [] e.op = "update" /\ there ->
              IF "root" \in DOMAIN e.set /\ ~IsApproved(e.set.root) THEN AnswerWith(c, "refused")
              ELSE Proceed(c, "commit", connection.number)
         [] e.op = "scan" /\ there ->
              IF connection.status \in {"pending", "unlinked"} THEN AnswerWith(c, "refused")
              ELSE Proceed(c, "commit", connection.number)
         [] e.op \in {"disconnect", "match"} /\ there -> Proceed(c, "commit", connection.number)
         [] OTHER -> AnswerWith(c, "missing")
    /\ UNCHANGED <<checkout, connection, scans, matchings, pending, unusable, walker>>

StillThere(c) == connection # NoConnection /\ connection.number = ask[c].about

\* The unique constraint on the project admits one connection.
CreateConnection(c) ==
    /\ ask[c].at = "commit" /\ Wanted(c).op = "connect"
    /\ IF connection # NoConnection
       THEN AnswerWith(c, "error") /\ UNCHANGED connection
       ELSE /\ connection' = [number |-> c, root |-> Wanted(c).root, last |-> NoScan,
                              status |-> IF Wanted(c).remote THEN "pending"
                                         ELSE IF InsideGit(Wanted(c).root) THEN "active"
                                         ELSE "unlinked"]
            /\ AnswerWith(c, "completed")
    /\ UNCHANGED <<checkout, scans, matchings, pending, unusable, walker>>

UpdateConnection(c) ==
    /\ ask[c].at = "commit" /\ Wanted(c).op = "update"
    /\ IF StillThere(c)
       THEN /\ connection' = [column \in DOMAIN connection |->
                 IF column \in DOMAIN Wanted(c).set THEN Wanted(c).set[column]
                 ELSE connection[column]]
            /\ AnswerWith(c, "completed")
       ELSE AnswerWith(c, "error") /\ UNCHANGED connection
    /\ UNCHANGED <<checkout, scans, matchings, pending, unusable, walker>>

\* A session that has flushed a scan holds the row of its connection.
Held(c) == pending[c] # NoScan

\* The database deletes with the connection its scans, their files and their matchings.
DeleteConnection(c) ==
    /\ ask[c].at = "commit" /\ Wanted(c).op = "disconnect"
    /\ \A d \in RepoCalls : Held(d) => pending[d].of # ask[c].about
    /\ IF StillThere(c)
       THEN /\ connection' = NoConnection /\ scans' = << >> /\ matchings' = << >>
            /\ AnswerWith(c, "completed")
       ELSE AnswerWith(c, "error") /\ UNCHANGED <<connection, scans, matchings>>
    /\ UNCHANGED <<checkout, pending, unusable, walker>>

-----------------------------------------------------------------------------
(* scan_repository, as a tool runs it.                                      *)

Stores(rows, id, row) == [i \in DOMAIN rows \cup {id} |-> IF i = id THEN row ELSE rows[i]]
NoCounts == [k \in CountColumns |-> 0]
NewScan(of, commit) ==
    [of |-> of, status |-> "running", commit |-> commit, counts |-> NoCounts, index |-> << >>]

Known(c) == ScanId(c) \in DOMAIN scans \/ Held(c)
Seen(c) == IF Held(c) THEN pending[c] ELSE scans[ScanId(c)]

\* The thread of an attempt returns; only the attempt the tool waits for is heard.
Returns(t, verdict) ==
    /\ walker' = [walker EXCEPT ![t].at = "over", ![t].left = {}]
    /\ ask' = IF ask[t[1]].at = "open" /\ ask[t[1]].attempt = t[2]
              THEN [ask EXCEPT ![t[1]].at = "answered", ![t[1]].verdict = verdict] ELSE ask
Goes(t, step, files) ==
    /\ walker' = [walker EXCEPT ![t].at = step, ![t].left = files]
    /\ UNCHANGED ask
Counting(t, counters) ==
    [k \in CountColumns |-> walker[t].counts[k] + IF k \in counters THEN 1 ELSE 0]

\* The input of the execution names the connection there was when it was started, for every
\* agent of it.
Fellows(c) == {d \in RepoCalls : IsTool(d) /\ ScanId(d) = ScanId(c) /\ ask[d].at # "waiting"}
CallTool(c) ==
    /\ ask[c].at = "waiting" /\ IsTool(c)
    /\ \E number \in Numbers :
          /\ IF Fellows(c) = {} THEN connection # NoConnection /\ number = connection.number
             ELSE \A d \in Fellows(c) : number = ask[d].about
          /\ ask' = [ask EXCEPT ![c].at = "open", ![c].attempt = 1, ![c].about = number]
    /\ walker' = [walker EXCEPT ![<<c, 1>>].at = "look"]
    /\ UNCHANGED <<checkout, connection, scans, matchings, pending, unusable>>

\* The walk leaves out ignored directories.
IsShown(f) == FileKind[f] # "ignored"
Discover == {f \in Files : IsShown(f)}

StatusOf(scan) == IF scan.status = "completed" THEN "completed" ELSE "failed"

LookUpScan(t) ==
    /\ walker[t].at = "look" /\ t[1] \notin unusable
    /\ IF Known(t[1]) THEN Returns(t, StatusOf(Seen(t[1])))
       ELSE IF StillThere(t[1]) /\ IsGitRepository(connection.root)
            THEN Goes(t, "begin", Discover)
            ELSE Returns(t, "failed")
    /\ UNCHANGED <<checkout, connection, scans, matchings, pending, unusable>>

\* The flush of the row: it waits for a session that holds the identifier and fails if
\* another has committed it, or if the connection is gone.
BeginScan(t) ==
    /\ walker[t].at = "begin" /\ t[1] \notin unusable
    /\ \A c \in RepoCalls \ {t[1]} : pending[c] = NoScan \/ ScanId(c) # ScanId(t[1])
    /\ LET files == walker[t].left IN
       IF Known(t[1]) \/ ~StillThere(t[1])
       THEN /\ pending' = [pending EXCEPT ![t[1]] = NoScan]
            /\ unusable' = unusable \cup {t[1]}
            /\ Returns(t, "failed")
       ELSE /\ pending' = [pending EXCEPT ![t[1]] = 
                   [NewScan(connection.number, checkout) EXCEPT !.counts.total = Cardinality(files)]]
            /\ Goes(t, "walk", files) /\ UNCHANGED unusable
    /\ UNCHANGED <<checkout, connection, scans, matchings>>

\* What the scanner records of a file it found, and the counters it adds to.
Recorded(f) == IF FileKind[f] = "source" THEN "scanned" ELSE "skipped"
EveryFile(f) == {Recorded(f), "eligible"}                          \* mutant
Counters(f) == {Recorded(f)} \cup IF FileKind[f] = "sensitive" THEN {} ELSE {"eligible"}

\* The order of the files is that of the file system.
ReadFile(t) ==
    /\ walker[t].at = "walk" /\ walker[t].left # {}
    /\ LET f == CHOOSE f \in walker[t].left : TRUE IN
          /\ walker' = [walker EXCEPT ![t].left = @ \ {f}, ![t].counts = Counting(t, Counters(f))]
          /\ pending' = IF Held(t[1])
                        THEN [pending EXCEPT ![t[1]].index =
                                 Stores(@, f, [status |-> Recorded(f), version |-> checkout])]
                        ELSE pending
    /\ UNCHANGED <<checkout, connection, scans, matchings, unusable, ask>>

\* The end of the walk, or whatever it raised: a file that is gone when it is read. What a
\* thread has flushed after the orchestrator closed its session goes with the thread.
EndScan(t) ==
    /\ walker[t].at = "walk"
    /\ \E status \in {"failed"} \cup
            (IF walker[t].left = {} /\ t[1] \notin unusable THEN {"completed"} ELSE {}) :
          /\ Returns(t, status)
          /\ pending' = IF ~Held(t[1]) THEN pending
                        ELSE IF ask[t[1]].at = "over" THEN [pending EXCEPT ![t[1]] = NoScan]
                        ELSE IF status = "failed" THEN [pending EXCEPT ![t[1]].status = status]
                        ELSE [pending EXCEPT ![t[1]].status = status, ![t[1]].counts =
                                 [walker[t].counts EXCEPT !.total = pending[t[1]].counts.total]]
    /\ UNCHANGED <<checkout, connection, scans, matchings, unusable>>

ToolFails(t) ==
    /\ walker[t].at \in {"look", "begin"} /\ t[1] \in unusable
    /\ Returns(t, "failed")
    /\ UNCHANGED <<checkout, connection, scans, matchings, pending, unusable>>

\* The tool stops waiting for an attempt, whose thread goes on, and tries once more.
AttemptTimesOut(c) ==
    /\ ask[c].at = "open"
    /\ IF ask[c].attempt = 1
       THEN /\ ask' = [ask EXCEPT ![c].attempt = 2]
            /\ walker' = [walker EXCEPT ![<<c, 2>>].at = "look"]
       ELSE /\ ask' = [ask EXCEPT ![c].at = "answered", ![c].verdict = "failed"]
            /\ UNCHANGED walker
    /\ UNCHANGED <<checkout, connection, scans, matchings, pending, unusable>>

\* The orchestrator commits the session, as far as the scan has come, and closes it: what
\* its threads still do there is never committed. The commit fails if a flush did.
CommitAgent(c) ==
    /\ ask[c].at = "answered"
    /\ LET fails == c \in unusable IN
       /\ AnswerWith(c, IF fails THEN "error" ELSE ask[c].verdict)
       /\ scans' = IF Held(c) /\ ~fails THEN Stores(scans, ScanId(c), pending[c]) ELSE scans
    /\ pending' = [pending EXCEPT ![c] = NoScan] /\ unusable' = unusable \ {c}
    /\ UNCHANGED <<checkout, connection, matchings, walker>>

-----------------------------------------------------------------------------
(* The routes that scan and match. Each commits the row of its execution,    *)
(* and then calls a service that gives the row back because it is there.     *)

InsertScan(c) ==
    /\ ask[c].at = "commit" /\ Wanted(c).op = "scan"
    /\ IF StillThere(c)
       THEN /\ scans' = Stores(scans, c, NewScan(connection.number, NoScan))
            /\ Proceed(c, "conclude", ask[c].about)
       ELSE AnswerWith(c, "error") /\ UNCHANGED scans
    /\ UNCHANGED <<checkout, connection, matchings, pending, unusable, walker>>

\* scan_repository returns the row; no file of it is scanned, so no technology is found.
ConcludeScan(c) ==
    /\ ask[c].at = "conclude" /\ Wanted(c).op = "scan"
    /\ IF c \in DOMAIN scans
       THEN /\ scans' = [scans EXCEPT ![c].status = "completed"]
            /\ connection' = [connection EXCEPT !.last = c]
            /\ AnswerWith(c, "completed")
       ELSE AnswerWith(c, "error") /\ UNCHANGED <<scans, connection>>
    /\ UNCHANGED <<checkout, matchings, pending, unusable, walker>>

\* Any scan may be named.
InsertMatching(c) ==
    /\ ask[c].at = "commit" /\ Wanted(c).op = "match"
    /\ IF StillThere(c) /\ DOMAIN scans # {}
       THEN /\ \E s \in DOMAIN scans :
                  matchings' = Stores(matchings, c, [scan |-> s, status |-> "running"])
            /\ Proceed(c, "conclude", ask[c].about)
       ELSE AnswerWith(c, "error") /\ UNCHANGED matchings
    /\ UNCHANGED <<checkout, connection, scans, pending, unusable, walker>>

ConcludeMatching(c) ==
    /\ ask[c].at = "conclude" /\ Wanted(c).op = "match"
    /\ IF c \in DOMAIN matchings
       THEN /\ matchings' = [matchings EXCEPT ![c].status = "completed"]
            /\ AnswerWith(c, "completed")
       ELSE AnswerWith(c, "error") /\ UNCHANGED matchings
    /\ UNCHANGED <<checkout, connection, scans, pending, unusable, walker>>

\* The process of a request dies between its two commits.
RouteDies(c) ==
    /\ ask[c].at = "conclude"
    /\ AnswerWith(c, "dead")
    /\ UNCHANGED <<checkout, connection, scans, matchings, pending, unusable, walker>>

EditCheckout ==
    /\ checkout < MaxEdits
    /\ checkout' = checkout + 1
    /\ UNCHANGED <<connection, scans, matchings, pending, unusable, ask, walker>>

-----------------------------------------------------------------------------
RepoWith(errands, rows) ==
    /\ checkout = 0 /\ connection \in rows /\ scans = << >> /\ matchings = << >>
    /\ pending = [c \in RepoCalls |-> NoScan] /\ unusable = {}
    /\ \E errand \in errands :
          ask = [c \in RepoCalls |-> [at |-> "waiting", errand |-> errand[c], attempt |-> 0,
                                      about |-> NoScan, verdict |-> "none"]]
    /\ walker = [t \in Walkers |-> [at |-> "idle", left |-> {}, counts |-> NoCounts]]

RepoInit == RepoWith([RepoCalls -> RepoErrands], KnownConnections)

RepoNext ==
    \/ \E c \in RepoCalls :
          \/ ReadConnection(c) \/ CreateConnection(c) \/ UpdateConnection(c) \/ DeleteConnection(c)
          \/ CallTool(c) \/ AttemptTimesOut(c) \/ CommitAgent(c)
          \/ InsertScan(c) \/ ConcludeScan(c) \/ InsertMatching(c) \/ ConcludeMatching(c)
          \/ RouteDies(c)
    \/ \E t \in Walkers :
          LookUpScan(t) \/ BeginScan(t) \/ ReadFile(t) \/ EndScan(t) \/ ToolFails(t)
    \/ EditCheckout

RepoSpec == RepoInit /\ [][RepoNext]_repoVars
-----------------------------------------------------------------------------
Discovered == {f \in DOMAIN FileKind : FileKind[f] # "ignored"}

\* An agent that is told its scan completed has it stored, with every file of the checkout
\* either scanned or skipped, unless the connection has been deleted.
AgentScansAreKept ==
    \A c \in RepoCalls : IsTool(c) /\ ask[c].at = "over" /\ ask[c].verdict = "completed" =>
       \/ ScanId(c) \notin DOMAIN scans
       \/ scans[ScanId(c)].status = "completed" /\ DOMAIN scans[ScanId(c)].index = Discovered

\* The counters of a completed scan are those of its files, whichever thread was late.
CountsAreOfFiles ==
    \A s \in DOMAIN scans : scans[s].status = "completed" =>
       LET index == scans[s].index
           Of(status) == Cardinality({f \in DOMAIN index : index[f].status = status}) IN
       scans[s].counts =
           [total |-> Of("scanned") + Of("skipped"), scanned |-> Of("scanned"), skipped |-> Of("skipped"),
            eligible |-> Cardinality({f \in DOMAIN index : FileKind[f] \in {"binary", "source"}})]

\* No scan, matching or pointer outlives the connection it is of.
NothingOutlives ==
    /\ \A s \in DOMAIN scans : connection # NoConnection /\ scans[s].of = connection.number
    /\ \A m \in DOMAIN matchings : matchings[m].scan \in DOMAIN scans
    /\ connection # NoConnection /\ connection.last # NoScan => connection.last \in DOMAIN scans

\* Property (git_scanner.py:219-371, routes/repository.py:101-382, 545-588,
\* tool_execution.py:716-745): scans beside changes of their connection, repeated under one
\* identifier, and by an attempt that has outlived its time.
ScansAreExact == AgentScansAreKept /\ CountsAreOfFiles /\ NothingOutlives

\* Not kept by the code: a completed scan holds the index of the files it was made for
\* (the evidence "repository_file_index" of agent_platform_registry.py:204). The route has
\* stored the row under whose identifier scan_repository then finds a scan.
ScansAreIndexed ==
    \A s \in DOMAIN scans : scans[s].status = "completed" => DOMAIN scans[s].index = Discovered

\* Not kept by the code: the files of a scan are those of the commit it names. They are read
\* from the checkout, one after the other.
OneCommit ==
    \A s \in DOMAIN scans : \A f \in DOMAIN scans[s].index :
       scans[s].index[f].version = scans[s].commit
=============================================================================
