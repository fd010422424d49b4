------------------------- MODULE RepositoryScanProofs -------------------------
(***************************************************************************)
(* Proof that scans are exact: whatever calls meet, under whichever         *)
(* connection. Two attempts of a tool share a session, and both may be past *)
(* the lookup when one of them inserts the row of the scan. The argument is *)
(* that an attempt which walks bars the other from beginning a walk         *)
(* (OneWalk), so that what a session holds is what one walk has read        *)
(* (WalkInv), and that the row an agent was told of cannot be replaced:     *)
(* every agent of an execution names one connection, and with the           *)
(* connection goes the right to begin (ToldInv).                            *)
(***************************************************************************)
EXTENDS RepositoryScan, FiniteSetTheorems, TLAPS

-----------------------------------------------------------------------------
(* The invariant.                                                           *)

Executions == {e.execution : e \in {e \in RepoErrands : e.op = "agent"}}
ScanIds == RepoCalls \cup Executions

Abouts == Numbers \cup RepoCalls \cup {NoScan}
AskRow ==
    [at : {"waiting", "commit", "conclude", "open", "answered", "over"}, errand : RepoErrands,
     attempt : {0, 1, 2}, about : Abouts,
     verdict : {"none", "conflict", "refused", "missing", "error", "completed", "failed", "dead"}]
WalkerRow ==
    [at : {"idle", "look", "begin", "walk", "over"}, left : SUBSET Files, counts : [CountColumns -> Nat]]

Typed ==
    /\ checkout \in 0..MaxEdits
    /\ connection \in ConnectionRow \cup {NoConnection}
    /\ DOMAIN scans \subseteq ScanIds /\ scans \in [DOMAIN scans -> ScanRow]
    /\ DOMAIN matchings \subseteq RepoCalls
    /\ matchings \in [DOMAIN matchings -> [scan : ScanIds, status : {"running", "completed"}]]
    /\ pending \in [RepoCalls -> ScanRow \cup {NoScan}]
    /\ unusable \subseteq RepoCalls
    /\ ask \in [RepoCalls -> AskRow]
    /\ walker \in [Walkers -> WalkerRow]

Other(t) == <<t[1], IF t[2] = 1 THEN 2 ELSE 1>>
Before(t) == walker[t].at \in {"idle", "look", "begin"}
Walks(t) == walker[t].at = "walk"

\* Who takes which steps.
RoleInv ==
    /\ \A c \in RepoCalls :
          /\ ask[c].at \in {"open", "answered"} => IsTool(c)
          /\ ask[c].at \in {"commit", "conclude"} => ~IsTool(c)
          /\ Held(c) => IsTool(c) /\ ask[c].at \in {"open", "answered", "over"}
    /\ \A t \in Walkers :
          /\ walker[t].at # "idle" =>
                IsTool(t[1]) /\ ask[t[1]].at \in {"open", "answered", "over"}
          /\ walker[t].at # "idle" /\ t[2] = 2 => ask[t[1]].attempt = 2
          /\ Before(t) => walker[t].counts = NoCounts
          /\ walker[t].at = "begin" => walker[t].left = Discover

\* The number of a connection is not given a second time, and every agent of an execution
\* names the same.
Spent(number) == number \in RepoCalls => ask[number].at = "over"
NumberInv ==
    /\ connection # NoConnection => Spent(connection.number)
    /\ \A c \in RepoCalls : IsTool(c) /\ ask[c].at # "waiting" =>
          /\ Spent(ask[c].about)
          /\ \A d \in Fellows(c) : ask[d].about = ask[c].about

\* A row that is flushed is the only one under its identifier, of a connection that is there.
HeldLaw(c) ==
    Held(c) => /\ StillThere(c) /\ pending[c].of = ask[c].about
               /\ c \notin unusable /\ ScanId(c) \notin DOMAIN scans
HeldInv ==
    /\ \A c \in RepoCalls : HeldLaw(c)
    /\ \A c \in RepoCalls : \A d \in RepoCalls \ {c} : Held(c) /\ Held(d) => ScanId(d) # ScanId(c)

\* Of two attempts one walks: the other finds the row, or no connection.
TurnLaw(t) ==
    Walks(t) => /\ ~Walks(Other(t))
                /\ Before(Other(t)) => Known(t[1]) \/ ~StillThere(t[1])
OneWalk == \A t \in Walkers : TurnLaw(t)

\* What the counters have come to when the files of a set are read.
Tally(some) ==
    [k \in CountColumns |-> IF k = "total" THEN 0 ELSE Cardinality({f \in some : k \in Counters(f)})]
Indexed(row, some) ==
    DOMAIN row.index = some /\ \A f \in some : row.index[f].status = Recorded(f)
Total == Cardinality(Discover)
Full(row) == Indexed(row, Discover) /\ row.counts = [Tally(Discover) EXCEPT !.total = Total]

WalkLaw(t) ==
    Walks(t) =>
        /\ walker[t].left \subseteq Discover
        /\ walker[t].counts = Tally(Discover \ walker[t].left)
        /\ ask[t[1]].at # "over" /\ t[1] \notin unusable => Held(t[1])
        /\ Held(t[1]) => /\ pending[t[1]].status = "running"
                         /\ pending[t[1]].counts = [NoCounts EXCEPT !.total = Total]
                         /\ Indexed(pending[t[1]], Discover \ walker[t].left)
DoneLaw(c) == Held(c) /\ pending[c].status = "completed" => Full(pending[c])
WalkInv == (\A t \in Walkers : WalkLaw(t)) /\ (\A c \in RepoCalls : DoneLaw(c))

\* A route's scan has no index; an agent's has all of it when it is completed.
StoredInv ==
    \A s \in DOMAIN scans :
        /\ s \in RepoCalls => DOMAIN scans[s].index = {} /\ scans[s].counts = NoCounts
        /\ s \notin RepoCalls /\ scans[s].status = "completed" => Full(scans[s])

\* What an agent is told, and has been told, of its scan.
StoredCompleted(c) == ScanId(c) \in DOMAIN scans /\ scans[ScanId(c)].status = "completed"
ToldLaw(c) ==
    IsTool(c) /\ ask[c].verdict = "completed" =>
        /\ ask[c].at = "answered" /\ c \notin unusable =>
              \/ Held(c) /\ pending[c].status = "completed"
              \/ StoredCompleted(c) \/ ~StillThere(c)
        /\ ask[c].at = "over" => StoredCompleted(c) \/ ~StillThere(c)
ToldInv == \A c \in RepoCalls : ToldLaw(c)

\* The scan of an execution is of the connection its agents name.
NamedInv ==
    \A c \in RepoCalls :
       IsTool(c) /\ ask[c].at # "waiting" /\ ScanId(c) \in DOMAIN scans => StillThere(c)

Lawful ==
    /\ Typed /\ RoleInv /\ NumberInv /\ HeldInv /\ OneWalk /\ WalkInv /\ StoredInv /\ ToldInv
    /\ NamedInv /\ NothingOutlives

-----------------------------------------------------------------------------
(* Rows.                                                                    *)

LEMMA RowsAreRows ==
    /\ NoScan \notin ScanRow /\ NoConnection \notin ConnectionRow /\ NoScan \notin RepoCalls
    /\ RepoCalls \subseteq Numbers
  BY RepositoryAssumption DEF Numbers

LEMMA FilesAreFinite == Discover \subseteq Files /\ IsFiniteSet(Discover) /\ Total \in Nat
<1>1. Discover \subseteq Files
  BY DEF Discover
<1>2. IsFiniteSet(Discover)
  BY <1>1, RepositoryAssumption, FS_Subset
<1> QED
  BY <1>1, <1>2, FS_CardinalityType DEF Total

LEMMA ErrandsAreTyped ==
    ASSUME Typed, NEW c \in RepoCalls
    PROVE  /\ ask[c].errand \in RepoErrands /\ ask[c] \in AskRow
           /\ IsTool(c) => ScanId(c) \in Executions /\ ScanId(c) \notin RepoCalls
                           /\ ScanId(c) # NoScan
           /\ ScanId(c) \in ScanIds
<1>1. ask[c].errand \in RepoErrands /\ ask[c] \in AskRow
  BY DEF Typed, AskRow
<1>2. IsTool(c) => ScanId(c) \in Executions /\ ScanId(c) \notin RepoCalls /\ ScanId(c) # NoScan
  BY <1>1, RepositoryAssumption DEF IsTool, ScanId, Wanted, Executions
<1> QED
  BY <1>1, <1>2 DEF ScanIds, ScanId

LEMMA NewScanIsRow ==
    ASSUME NEW of \in Numbers, NEW commit \in (0..MaxEdits) \cup {NoScan}
    PROVE  /\ NewScan(of, commit) \in ScanRow
           /\ NewScan(of, commit).of = of /\ NewScan(of, commit).status = "running"
           /\ NewScan(of, commit).counts = NoCounts /\ DOMAIN NewScan(of, commit).index = {}
<1>1. DOMAIN << >> = {} /\ << >> \in [{} -> FileRow]
  OBVIOUS
<1>2. << >> \in UNION {[some -> FileRow] : some \in SUBSET Files}
  BY <1>1
<1>3. NoCounts \in [CountColumns -> Nat]
  BY DEF NoCounts
<1> QED
  BY <1>1, <1>2, <1>3 DEF NewScan, ScanRow

LEMMA StoresIsTyped ==
    ASSUME NEW rows, NEW S, rows \in [DOMAIN rows -> S], NEW id, NEW row \in S
    PROVE  /\ Stores(rows, id, row) \in [DOMAIN Stores(rows, id, row) -> S]
           /\ DOMAIN Stores(rows, id, row) = DOMAIN rows \cup {id}
           /\ Stores(rows, id, row)[id] = row
           /\ \A i \in DOMAIN rows : i # id => Stores(rows, id, row)[i] = rows[i]
  BY DEF Stores

-----------------------------------------------------------------------------
(* The steps keep the types.                                                *)

RouteSteps(c) ==
    \/ ReadConnection(c) \/ CreateConnection(c) \/ UpdateConnection(c) \/ DeleteConnection(c)
    \/ InsertScan(c) \/ ConcludeScan(c) \/ InsertMatching(c) \/ ConcludeMatching(c)
    \/ RouteDies(c)
ToolSteps(c) == CallTool(c) \/ AttemptTimesOut(c) \/ CommitAgent(c)
WalkerSteps(t) == LookUpScan(t) \/ BeginScan(t) \/ ReadFile(t) \/ EndScan(t) \/ ToolFails(t)

\* What a route does to its call.
LEMMA RouteMoves ==
    ASSUME Typed, RoleInv, NEW c \in RepoCalls, RouteSteps(c)
    PROVE  /\ ~IsTool(c) /\ ask[c].at \in {"waiting", "commit", "conclude"}
           /\ ask' = [ask EXCEPT ![c] = ask'[c]] /\ ask'[c] \in AskRow
           /\ ask'[c].errand = ask[c].errand
           /\ ask'[c].at \in {"commit", "conclude", "over"}
           /\ UNCHANGED <<checkout, pending, unusable, walker>>
<1>1. ask[c] \in AskRow /\ c \in DOMAIN ask
  BY DEF Typed
<1>2. ~IsTool(c) /\ ask[c].at \in {"waiting", "commit", "conclude"}
  BY DEF RouteSteps, ReadConnection, CreateConnection, UpdateConnection, DeleteConnection,
         InsertScan, ConcludeScan, InsertMatching, ConcludeMatching, RouteDies, RoleInv, IsTool,
         Wanted
<1>3. UNCHANGED <<checkout, pending, unusable, walker>>
  BY DEF RouteSteps, ReadConnection, CreateConnection, UpdateConnection, DeleteConnection,
         InsertScan, ConcludeScan, InsertMatching, ConcludeMatching, RouteDies
<1>4. \/ \E v \in {"conflict", "refused", "missing", "error", "completed", "dead"} : AnswerWith(c, v)
      \/ Proceed(c, "commit", c)
      \/ connection # NoConnection /\ Proceed(c, "commit", connection.number)
      \/ Proceed(c, "conclude", ask[c].about)
  <2>1. CASE ReadConnection(c)
    BY <2>1, Zenon DEF ReadConnection
  <2>2. CASE CreateConnection(c) \/ UpdateConnection(c) \/ DeleteConnection(c)
    BY <2>2 DEF CreateConnection, UpdateConnection, DeleteConnection
  <2>3. CASE InsertScan(c) \/ ConcludeScan(c) \/ InsertMatching(c) \/ ConcludeMatching(c)
             \/ RouteDies(c)
    BY <2>3 DEF InsertScan, ConcludeScan, InsertMatching, ConcludeMatching, RouteDies
  <2> QED
    BY <2>1, <2>2, <2>3 DEF RouteSteps
<1>5. connection # NoConnection => connection.number \in Numbers
  BY DEF Typed, ConnectionRow
<1>6. ASSUME NEW v \in {"conflict", "refused", "missing", "error", "completed", "dead"}, AnswerWith(c, v)
      PROVE  /\ ask' = [ask EXCEPT ![c] = ask'[c]] /\ ask'[c] \in AskRow
             /\ ask'[c].errand = ask[c].errand /\ ask'[c].at = "over"
  BY <1>1, <1>6 DEF AnswerWith, AskRow
<1>7. ASSUME NEW step \in {"commit", "conclude"}, NEW about \in Abouts,
             Proceed(c, step, about)
      PROVE  /\ ask' = [ask EXCEPT ![c] = ask'[c]] /\ ask'[c] \in AskRow
             /\ ask'[c].errand = ask[c].errand /\ ask'[c].at = step
  BY <1>1, <1>7 DEF Proceed, AskRow
<1>8. ask[c].about \in Abouts /\ c \in Abouts /\ Numbers \subseteq Abouts
  BY <1>1 DEF AskRow, Abouts
<1> QED
  BY <1>2, <1>3, <1>4, <1>5, <1>6, <1>7, <1>8

\* What a route does to the rows.
LEMMA RouteRows ==
    ASSUME Typed, RoleInv, NumberInv, NothingOutlives, NEW c \in RepoCalls, RouteSteps(c)
    PROVE  \/ UNCHANGED <<connection, scans, matchings>>
           \/ /\ connection = NoConnection /\ connection' \in ConnectionRow
              /\ connection'.number = c /\ connection'.last = NoScan
              /\ ask[c].at = "commit" /\ UNCHANGED <<scans, matchings>> /\ ask'[c].at = "over"
           \/ /\ connection \in ConnectionRow /\ connection' \in ConnectionRow
              /\ connection'.number = connection.number /\ connection'.last = connection.last
              /\ UNCHANGED <<scans, matchings>>
           \/ /\ connection # NoConnection /\ connection' = NoConnection
              /\ scans' = << >> /\ matchings' = << >>
              /\ \A d \in RepoCalls : Held(d) => pending[d].of # connection.number
           \/ /\ connection \in ConnectionRow /\ UNCHANGED <<connection, matchings>>
              /\ scans' = Stores(scans, c, NewScan(connection.number, NoScan))
           \/ /\ connection \in ConnectionRow /\ c \in DOMAIN scans
              /\ scans' = [scans EXCEPT ![c].status = "completed"]
              /\ connection' = [connection EXCEPT !.last = c] /\ UNCHANGED matchings
           \/ /\ UNCHANGED <<connection, scans>>
              /\ \E s \in DOMAIN scans :
                    matchings' = Stores(matchings, c, [scan |-> s, status |-> "running"])
           \/ /\ UNCHANGED <<connection, scans>> /\ c \in DOMAIN matchings
              /\ matchings' = [matchings EXCEPT ![c].status = "completed"]
<1>1. connection # NoConnection => connection \in ConnectionRow
  BY DEF Typed
<1>2. ask[c] \in AskRow /\ c \in DOMAIN ask
  BY DEF Typed
<1>3. CASE ReadConnection(c) \/ RouteDies(c)
  BY <1>3 DEF ReadConnection, RouteDies
<1>4. CASE CreateConnection(c)
  <2>1. CASE connection # NoConnection
    BY <1>4, <2>1 DEF CreateConnection
  <2>2. CASE connection = NoConnection
    <3>1. Wanted(c).root \in Roots
      BY <1>4, ErrandsAreTyped, RepositoryAssumption DEF CreateConnection, Wanted
    <3>2. connection' \in ConnectionRow /\ connection'.number = c /\ connection'.last = NoScan
      BY <1>4, <2>2, <3>1, RowsAreRows DEF CreateConnection, ConnectionRow, Columns
    <3>3. ask[c].at = "commit" /\ UNCHANGED <<scans, matchings>> /\ ask'[c].at = "over"
      BY <1>2, <1>4, <2>2 DEF CreateConnection, AnswerWith, AskRow
    <3> QED
      BY <2>2, <3>2, <3>3
  <2> QED
    BY <2>1, <2>2
<1>5. CASE UpdateConnection(c)
  <2>1. CASE ~StillThere(c)
    BY <1>5, <2>1 DEF UpdateConnection
  <2>2. CASE StillThere(c)
    <3>1. connection \in ConnectionRow
      BY <1>1, <2>2 DEF StillThere
    <3>2. /\ DOMAIN Wanted(c).set \subseteq {"root", "status"}
          /\ \A column \in DOMAIN Wanted(c).set : Wanted(c).set[column] \in Columns[column]
      BY <1>5, ErrandsAreTyped, RepositoryAssumption DEF UpdateConnection, Wanted
    <3>3. DOMAIN connection = {"number", "root", "status", "last"}
      BY <3>1 DEF ConnectionRow
    <3>4. connection' = [column \in {"number", "root", "status", "last"} |->
                 IF column \in DOMAIN Wanted(c).set THEN Wanted(c).set[column]
                 ELSE connection[column]]
      BY <1>5, <2>2, <3>3 DEF UpdateConnection
    <3>5. /\ connection'.number = connection.number /\ connection'.last = connection.last
          /\ connection'.root \in Roots /\ connection'.status \in Columns.status
      BY <3>1, <3>2, <3>4 DEF ConnectionRow, Columns
    <3>6. connection' = [number |-> connection'.number, root |-> connection'.root,
                         status |-> connection'.status, last |-> connection'.last]
      BY <3>4
    <3>7. connection' \in ConnectionRow
      BY <3>1, <3>5, <3>6 DEF ConnectionRow
    <3> QED
      BY <1>5, <3>1, <3>5, <3>7 DEF UpdateConnection
  <2> QED
    BY <2>1, <2>2
<1>6. CASE DeleteConnection(c)
  <2>1. CASE ~StillThere(c)
    BY <1>6, <2>1 DEF DeleteConnection
  <2>2. CASE StillThere(c)
    BY <1>6, <2>2 DEF DeleteConnection, StillThere
  <2> QED
    BY <2>1, <2>2
<1>7. CASE InsertScan(c)
  BY <1>1, <1>7 DEF InsertScan, StillThere
<1>8. CASE ConcludeScan(c)
  BY <1>1, <1>8 DEF ConcludeScan, NothingOutlives
<1>9. CASE InsertMatching(c) \/ ConcludeMatching(c)
  BY <1>9 DEF InsertMatching, ConcludeMatching
<1> QED
  BY <1>3, <1>4, <1>5, <1>6, <1>7, <1>8, <1>9 DEF RouteSteps

\* What the calls of a tool move.
LEMMA ToolMoves ==
    ASSUME Typed, RoleInv, NumberInv, NEW c \in RepoCalls, ToolSteps(c)
    PROVE  /\ IsTool(c) /\ ask' = [ask EXCEPT ![c] = ask'[c]] /\ ask'[c] \in AskRow
           /\ ask'[c].errand = ask[c].errand
           /\ \/ /\ ask[c].at = "waiting" /\ ask'[c].at = "open" /\ ask'[c].attempt = 1
                 /\ ask'[c].verdict = ask[c].verdict
                 /\ walker' = [walker EXCEPT ![<<c, 1>>].at = "look"]
                 /\ \/ /\ Fellows(c) = {} /\ connection \in ConnectionRow
                       /\ ask'[c].about = connection.number
                    \/ /\ Fellows(c) # {} /\ \A d \in Fellows(c) : ask'[c].about = ask[d].about
                 /\ UNCHANGED <<checkout, connection, scans, matchings, pending, unusable>>
              \/ /\ ask[c].at = "open" /\ ask[c].attempt = 1 /\ ask'[c].at = "open"
                 /\ ask'[c].attempt = 2 /\ ask'[c].about = ask[c].about
                 /\ ask'[c].verdict = ask[c].verdict
                 /\ walker' = [walker EXCEPT ![<<c, 2>>].at = "look"]
                 /\ UNCHANGED <<checkout, connection, scans, matchings, pending, unusable>>
              \/ /\ ask[c].at = "open" /\ ask'[c].at = "answered" /\ ask'[c].verdict = "failed"
                 /\ ask'[c].about = ask[c].about /\ ask'[c].attempt = ask[c].attempt
                 /\ UNCHANGED <<checkout, connection, scans, matchings, pending, unusable, walker>>
              \/ /\ ask[c].at = "answered" /\ ask'[c].at = "over" /\ ask'[c].about = ask[c].about
                 /\ ask'[c].attempt = ask[c].attempt
                 /\ ask'[c].verdict = IF c \in unusable THEN "error" ELSE ask[c].verdict
                 /\ scans' = IF Held(c) /\ c \notin unusable
                             THEN Stores(scans, ScanId(c), pending[c]) ELSE scans
                 /\ pending' = [pending EXCEPT ![c] = NoScan] /\ unusable' = unusable \ {c}
                 /\ UNCHANGED <<checkout, connection, matchings, walker>>
<1>1. ask[c] \in AskRow /\ c \in DOMAIN ask
  BY DEF Typed
<1>2. CASE CallTool(c)
  <2>1. PICK number \in Numbers :
           /\ IF Fellows(c) = {} THEN connection # NoConnection /\ number = connection.number
              ELSE \A d \in Fellows(c) : number = ask[d].about
           /\ ask' = [ask EXCEPT ![c].at = "open", ![c].attempt = 1, ![c].about = number]
    BY <1>2 DEF CallTool
  <2>2. /\ ask' = [ask EXCEPT ![c] = ask'[c]] /\ ask'[c] \in AskRow
        /\ ask'[c].errand = ask[c].errand /\ ask'[c].at = "open" /\ ask'[c].attempt = 1
        /\ ask'[c].verdict = ask[c].verdict /\ ask'[c].about = number
    <3>1. ask' = [ask EXCEPT ![c] =
                     [ask[c] EXCEPT !.at = "open", !.attempt = 1, !.about = number]]
      BY <1>1, <2>1
    <3>2. [ask[c] EXCEPT !.at = "open", !.attempt = 1, !.about = number] \in AskRow
      <4>1. number \in Abouts
        BY DEF Abouts
      <4> QED
        BY <1>1, <4>1 DEF AskRow
    <3> QED
      BY <1>1, <3>1, <3>2 DEF AskRow
  <2>3. connection # NoConnection => connection \in ConnectionRow
    BY DEF Typed
  <2> QED
    BY <1>2, <2>1, <2>2, <2>3 DEF CallTool
<1>3. CASE AttemptTimesOut(c)
  <2>1. IsTool(c) /\ ask[c].at = "open"
    BY <1>3 DEF AttemptTimesOut, RoleInv
  <2>2. CASE ask[c].attempt = 1
    <3>1. ask' = [ask EXCEPT ![c].attempt = 2]
      BY <1>3, <2>2 DEF AttemptTimesOut
    <3>2. /\ ask' = [ask EXCEPT ![c] = ask'[c]] /\ ask'[c] \in AskRow
          /\ ask'[c].errand = ask[c].errand /\ ask'[c].at = ask[c].at /\ ask'[c].attempt = 2
          /\ ask'[c].verdict = ask[c].verdict /\ ask'[c].about = ask[c].about
      BY <1>1, <3>1 DEF AskRow
    <3> QED
      BY <1>3, <2>1, <2>2, <3>2 DEF AttemptTimesOut
  <2>3. CASE ask[c].attempt # 1
    <3>1. ask' = [ask EXCEPT ![c].at = "answered", ![c].verdict = "failed"]
      BY <1>3, <2>3 DEF AttemptTimesOut
    <3>2. /\ ask' = [ask EXCEPT ![c] = ask'[c]] /\ ask'[c] \in AskRow
          /\ ask'[c].errand = ask[c].errand /\ ask'[c].at = "answered"
          /\ ask'[c].attempt = ask[c].attempt
          /\ ask'[c].verdict = "failed" /\ ask'[c].about = ask[c].about
      BY <1>1, <3>1 DEF AskRow
    <3> QED
      BY <1>3, <2>1, <2>3, <3>2 DEF AttemptTimesOut
  <2> QED
    BY <2>2, <2>3
<1>4. CASE CommitAgent(c)
  <2>1. IsTool(c) /\ ask[c].at = "answered"
    BY <1>4 DEF CommitAgent, RoleInv
  <2>2. AnswerWith(c, IF c \in unusable THEN "error" ELSE ask[c].verdict)
    BY <1>4 DEF CommitAgent
  <2>3. /\ ask' = [ask EXCEPT ![c] = ask'[c]] /\ ask'[c] \in AskRow
        /\ ask'[c].errand = ask[c].errand /\ ask'[c].at = "over"
        /\ ask'[c].attempt = ask[c].attempt /\ ask'[c].about = ask[c].about
        /\ ask'[c].verdict = IF c \in unusable THEN "error" ELSE ask[c].verdict
    BY <1>1, <2>2 DEF AnswerWith, AskRow
  <2> QED
    BY <1>4, <2>1, <2>3 DEF CommitAgent
<1> QED
  BY <1>2, <1>3, <1>4 DEF ToolSteps

\* What the thread of an attempt moves: its own place, what its session holds, and the
\* answer of its tool when it returns while it is waited for.
Heard(t) == ask[t[1]].at = "open" /\ ask[t[1]].attempt = t[2]
Left(t, verdict) ==
    /\ walker'[t].at = "over" /\ walker'[t].left = {} /\ walker'[t].counts = walker[t].counts
    /\ IF Heard(t)
       THEN ask'[t[1]].at = "answered" /\ ask'[t[1]].verdict = verdict
       ELSE UNCHANGED ask
LEMMA ReturnsMoves ==
    ASSUME Typed, NEW t \in Walkers, NEW verdict \in {"completed", "failed"}, Returns(t, verdict)
    PROVE  /\ t[1] \in RepoCalls /\ t[2] \in {1, 2} /\ t = <<t[1], t[2]>>
           /\ walker' = [walker EXCEPT ![t] = walker'[t]] /\ walker'[t] \in WalkerRow
           /\ ask' = [ask EXCEPT ![t[1]] = ask'[t[1]]] /\ ask'[t[1]] \in AskRow
           /\ ask'[t[1]].errand = ask[t[1]].errand /\ ask'[t[1]].about = ask[t[1]].about
           /\ ask'[t[1]].attempt = ask[t[1]].attempt
           /\ Left(t, verdict)
<1>1. t[1] \in RepoCalls /\ t[2] \in {1, 2} /\ t = <<t[1], t[2]>>
  BY DEF Walkers
<1>2. ask[t[1]] \in AskRow /\ walker[t] \in WalkerRow /\ t \in DOMAIN walker /\ t[1] \in DOMAIN ask
  BY <1>1 DEF Typed
<1>3. walker' = [walker EXCEPT ![t] = [walker[t] EXCEPT !.at = "over", !.left = {}]]
  BY DEF Returns
<1>4. /\ walker' = [walker EXCEPT ![t] = walker'[t]] /\ walker'[t] \in WalkerRow
      /\ walker'[t].at = "over" /\ walker'[t].left = {} /\ walker'[t].counts = walker[t].counts
  BY <1>2, <1>3 DEF WalkerRow
<1>5. CASE Heard(t)
  <2>1. ask' = [ask EXCEPT ![t[1]] = [ask[t[1]] EXCEPT !.at = "answered", !.verdict = verdict]]
    BY <1>5 DEF Returns, Heard
  <2> QED
    BY <1>1, <1>2, <1>4, <1>5, <2>1 DEF Left, AskRow
<1>6. CASE ~Heard(t)
  <2>1. ask' = ask
    BY <1>6 DEF Returns, Heard
  <2> QED
    BY <1>1, <1>2, <1>4, <1>6, <2>1 DEF Left, Typed
<1> QED
  BY <1>5, <1>6

\* What an attempt finds, inserts, reads and ends with.
Looked(t) ==
    /\ walker[t].at = "look" /\ UNCHANGED <<pending, unusable>>
    /\ \/ Known(t[1]) /\ Left(t, StatusOf(Seen(t[1])))
       \/ Left(t, "failed")
       \/ /\ walker'[t].at = "begin" /\ walker'[t].left = Discover
          /\ walker'[t].counts = walker[t].counts /\ UNCHANGED ask
Barred(t) ==
    /\ walker[t].at = "begin" /\ (Known(t[1]) \/ ~StillThere(t[1]))
    /\ pending' = [pending EXCEPT ![t[1]] = NoScan] /\ unusable' = unusable \cup {t[1]}
    /\ Left(t, "failed")
Begun(t) ==
    /\ walker[t].at = "begin" /\ t[1] \notin unusable
    /\ ~Known(t[1]) /\ StillThere(t[1])
    /\ \A c \in RepoCalls \ {t[1]} : Held(c) => ScanId(c) # ScanId(t[1])
    /\ \E row \in ScanRow :
          /\ row.of = connection.number /\ row.status = "running" /\ DOMAIN row.index = {}
          /\ row.counts = [NoCounts EXCEPT !.total = Cardinality(walker[t].left)]
          /\ pending' = [pending EXCEPT ![t[1]] = row]
    /\ walker'[t].at = "walk" /\ walker'[t].left = walker[t].left
    /\ walker'[t].counts = walker[t].counts /\ UNCHANGED <<unusable, ask>>
HasRead(t, f) ==
    /\ walker[t].at = "walk" /\ f \in walker[t].left
    /\ walker'[t].at = "walk" /\ walker'[t].left = walker[t].left \ {f}
    /\ walker'[t].counts = Counting(t, Counters(f)) /\ UNCHANGED <<unusable, ask>>
    /\ IF Held(t[1])
       THEN \E row \in ScanRow :
               /\ row.of = pending[t[1]].of /\ row.status = pending[t[1]].status
               /\ row.counts = pending[t[1]].counts
               /\ DOMAIN row.index = DOMAIN pending[t[1]].index \cup {f}
               /\ row.index[f].status = Recorded(f)
               /\ \A g \in DOMAIN pending[t[1]].index : g # f => row.index[g] = pending[t[1]].index[g]
               /\ pending' = [pending EXCEPT ![t[1]] = row]
       ELSE UNCHANGED pending
Ended(t, status) ==
    /\ walker[t].at = "walk" /\ Left(t, status) /\ UNCHANGED unusable
    /\ status = "completed" => walker[t].left = {} /\ t[1] \notin unusable
    /\ \/ ~Held(t[1]) /\ UNCHANGED pending
       \/ ask[t[1]].at = "over" /\ pending' = [pending EXCEPT ![t[1]] = NoScan]
       \/ /\ Held(t[1]) /\ ask[t[1]].at # "over"
          /\ \E row \in ScanRow :
                /\ row.of = pending[t[1]].of /\ row.status = status
                /\ row.index = pending[t[1]].index
                /\ status = "completed" =>
                      row.counts = [walker[t].counts EXCEPT !.total = pending[t[1]].counts.total]
                /\ pending' = [pending EXCEPT ![t[1]] = row]
GaveUp(t) ==
    /\ walker[t].at \in {"look", "begin"} /\ t[1] \in unusable
    /\ Left(t, "failed") /\ UNCHANGED <<pending, unusable>>

\* What every step of a thread has in common.
ThreadStep(t) ==
    /\ t[1] \in RepoCalls /\ t[2] \in {1, 2} /\ t = <<t[1], t[2]>>
    /\ walker' = [walker EXCEPT ![t] = walker'[t]] /\ walker'[t] \in WalkerRow
    /\ ask' = [ask EXCEPT ![t[1]] = ask'[t[1]]] /\ ask'[t[1]] \in AskRow
    /\ ask'[t[1]].errand = ask[t[1]].errand /\ ask'[t[1]].about = ask[t[1]].about
    /\ ask'[t[1]].attempt = ask[t[1]].attempt
    /\ UNCHANGED <<checkout, connection, scans, matchings>>

LEMMA LookMoves ==
    ASSUME Typed, NEW t \in Walkers, LookUpScan(t)
    PROVE  ThreadStep(t) /\ Looked(t)
<1>1. t[1] \in RepoCalls /\ t[2] \in {1, 2} /\ t = <<t[1], t[2]>>
  BY DEF Walkers
<1>2. ask[t[1]] \in AskRow /\ walker[t] \in WalkerRow /\ t \in DOMAIN walker /\ t[1] \in DOMAIN ask
  BY <1>1 DEF Typed
<1>3. /\ walker[t].at = "look" /\ UNCHANGED <<checkout, connection, scans, matchings, pending, unusable>>
      /\ \/ Known(t[1]) /\ Returns(t, StatusOf(Seen(t[1])))
         \/ Returns(t, "failed")
         \/ Goes(t, "begin", Discover)
  BY DEF LookUpScan
<1>4. CASE Known(t[1]) /\ Returns(t, StatusOf(Seen(t[1])))
  <2>1. StatusOf(Seen(t[1])) \in {"completed", "failed"}
    BY DEF StatusOf
  <2> QED
    BY <1>3, <1>4, <2>1, ReturnsMoves DEF ThreadStep, Looked
<1>5. CASE Returns(t, "failed")
  BY <1>3, <1>5, ReturnsMoves DEF ThreadStep, Looked
<1>6. CASE Goes(t, "begin", Discover)
  <2>1. walker' = [walker EXCEPT ![t] = [walker[t] EXCEPT !.at = "begin", !.left = Discover]]
    BY <1>6 DEF Goes
  <2>2. Discover \in SUBSET Files
    BY FilesAreFinite
  <2>3. /\ walker' = [walker EXCEPT ![t] = walker'[t]] /\ walker'[t] \in WalkerRow
        /\ walker'[t].at = "begin" /\ walker'[t].left = Discover
        /\ walker'[t].counts = walker[t].counts
    BY <1>2, <2>1, <2>2 DEF WalkerRow
  <2>4. ask' = ask /\ ask' = [ask EXCEPT ![t[1]] = ask'[t[1]]]
    BY <1>6 DEF Goes, Typed
  <2> QED
    BY <1>1, <1>2, <1>3, <2>3, <2>4 DEF ThreadStep, Looked
<1> QED
  BY <1>3, <1>4, <1>5, <1>6

LEMMA BeginMoves ==
    ASSUME Typed, NEW t \in Walkers, BeginScan(t)
    PROVE  ThreadStep(t) /\ (Barred(t) \/ Begun(t))
<1>1. t[1] \in RepoCalls /\ t[2] \in {1, 2} /\ t = <<t[1], t[2]>>
  BY DEF Walkers
<1>2. ask[t[1]] \in AskRow /\ walker[t] \in WalkerRow /\ t \in DOMAIN walker /\ t[1] \in DOMAIN ask
  BY <1>1 DEF Typed
<1>3. CASE Known(t[1]) \/ ~StillThere(t[1])
  <2>1. /\ walker[t].at = "begin" /\ UNCHANGED <<checkout, connection, scans, matchings>>
        /\ pending' = [pending EXCEPT ![t[1]] = NoScan] /\ unusable' = unusable \cup {t[1]}
        /\ Returns(t, "failed")
    BY <1>3 DEF BeginScan
  <2> QED
    BY <1>3, <2>1, ReturnsMoves DEF ThreadStep, Barred
<1>4. CASE ~Known(t[1]) /\ StillThere(t[1])
  <2> DEFINE scan == NewScan(connection.number, checkout)
             n == Cardinality(walker[t].left)
             row == [scan EXCEPT !.counts.total = n]
  <2>1. /\ walker[t].at = "begin" /\ t[1] \notin unusable
        /\ UNCHANGED <<checkout, connection, scans, matchings, unusable>>
        /\ \A c \in RepoCalls \ {t[1]} : pending[c] = NoScan \/ ScanId(c) # ScanId(t[1])
        /\ pending' = [pending EXCEPT ![t[1]] = row]
        /\ Goes(t, "walk", walker[t].left)
    BY <1>4 DEF BeginScan
  <2>2. connection.number \in Numbers /\ checkout \in (0..MaxEdits) \cup {NoScan}
    BY <1>4 DEF Typed, StillThere, ConnectionRow
  <2>3. n \in Nat
    <3>1. walker[t].left \subseteq Files
      BY <1>2 DEF WalkerRow
    <3> QED
      BY <3>1, RepositoryAssumption, FS_Subset, FS_CardinalityType
  <2>4. /\ scan \in ScanRow /\ scan.of = connection.number /\ scan.status = "running"
        /\ scan.counts = NoCounts /\ DOMAIN scan.index = {}
    BY <2>2, NewScanIsRow
  <2> HIDE DEF scan, n
  <2>5. [NoCounts EXCEPT !.total = n] \in [CountColumns -> Nat]
    BY <2>3 DEF NoCounts, CountColumns
  <2>6. row = [scan EXCEPT !.counts = [NoCounts EXCEPT !.total = n]]
    BY <2>4 DEF ScanRow
  <2>7. /\ row \in ScanRow /\ row.of = connection.number /\ row.status = "running"
        /\ DOMAIN row.index = {} /\ row.counts = [NoCounts EXCEPT !.total = n]
    BY <2>4, <2>5, <2>6 DEF ScanRow
  <2>8. walker' = [walker EXCEPT ![t] = [walker[t] EXCEPT !.at = "walk", !.left = walker[t].left]]
    BY <2>1 DEF Goes
  <2>9. /\ walker' = [walker EXCEPT ![t] = walker'[t]] /\ walker'[t] \in WalkerRow
        /\ walker'[t].at = "walk" /\ walker'[t].left = walker[t].left
        /\ walker'[t].counts = walker[t].counts
    BY <1>2, <2>8 DEF WalkerRow
  <2>10. ask' = ask /\ ask' = [ask EXCEPT ![t[1]] = ask'[t[1]]]
    BY <2>1 DEF Goes, Typed
  <2>11. ThreadStep(t)
    BY <1>1, <1>2, <2>1, <2>9, <2>10 DEF ThreadStep
  <2> HIDE DEF row
  <2>12. Begun(t)
    BY <1>4, <2>1, <2>7, <2>9, <2>10 DEF Begun, Held, n
  <2> QED
    BY <2>11, <2>12
<1> QED
  BY <1>3, <1>4

LEMMA RowWithStatus ==
    ASSUME NEW row \in ScanRow, NEW status \in {"running", "completed", "failed"}
    PROVE  LET new == [row EXCEPT !.status = status] IN
           /\ new \in ScanRow /\ new.of = row.of /\ new.status = status
           /\ new.counts = row.counts /\ new.index = row.index
  BY DEF ScanRow

LEMMA RowWithCounts ==
    ASSUME NEW row \in ScanRow, NEW counts \in [CountColumns -> Nat]
    PROVE  LET new == [row EXCEPT !.counts = counts] IN
           /\ new \in ScanRow /\ new.of = row.of /\ new.status = row.status
           /\ new.counts = counts /\ new.index = row.index
  BY DEF ScanRow

LEMMA RowWithIndex ==
    ASSUME NEW row \in ScanRow, NEW index \in UNION {[some -> FileRow] : some \in SUBSET Files}
    PROVE  LET new == [row EXCEPT !.index = index] IN
           /\ new \in ScanRow /\ new.of = row.of /\ new.status = row.status
           /\ new.counts = row.counts /\ new.index = index
  BY DEF ScanRow

LEMMA FileIsStored ==
    ASSUME NEW index \in UNION {[some -> FileRow] : some \in SUBSET Files}, NEW f \in Files,
           NEW version \in 0..MaxEdits
    PROVE  LET row == [status |-> Recorded(f), version |-> version] IN
           /\ Stores(index, f, row) \in UNION {[some -> FileRow] : some \in SUBSET Files}
           /\ DOMAIN Stores(index, f, row) = DOMAIN index \cup {f}
           /\ Stores(index, f, row)[f].status = Recorded(f)
           /\ \A g \in DOMAIN index : g # f => Stores(index, f, row)[g] = index[g]
<1> DEFINE row == [status |-> Recorded(f), version |-> version]
           new == Stores(index, f, row)
<1>1. row \in FileRow /\ row.status = Recorded(f)
  BY DEF FileRow, Recorded
<1>2. index \in [DOMAIN index -> FileRow] /\ DOMAIN index \in SUBSET Files
  OBVIOUS
<1> HIDE DEF row
<1>3. /\ new \in [DOMAIN new -> FileRow] /\ DOMAIN new = DOMAIN index \cup {f}
      /\ new[f] = row /\ \A g \in DOMAIN index : g # f => new[g] = index[g]
  BY <1>1, <1>2 DEF Stores
<1>4. DOMAIN new \in SUBSET Files
  BY <1>2, <1>3
<1> HIDE DEF new
<1>5. new \in UNION {[some -> FileRow] : some \in SUBSET Files}
  BY <1>3, <1>4
<1> QED
  BY <1>1, <1>3, <1>5 DEF new, row

LEMMA ReadMoves ==
    ASSUME Typed, NEW t \in Walkers, ReadFile(t)
    PROVE  ThreadStep(t) /\ \E f \in Files : HasRead(t, f)
<1>1. t[1] \in RepoCalls /\ t[2] \in {1, 2} /\ t = <<t[1], t[2]>>
  BY DEF Walkers
<1>2. ask[t[1]] \in AskRow /\ walker[t] \in WalkerRow /\ t \in DOMAIN walker /\ t[1] \in DOMAIN ask
  BY <1>1 DEF Typed
<1> DEFINE f == CHOOSE f \in walker[t].left : TRUE
<1>3. f \in walker[t].left /\ f \in Files
  BY <1>2 DEF ReadFile, WalkerRow
<1>4. /\ walker[t].at = "walk"
      /\ walker' = [walker EXCEPT ![t].left = @ \ {f}, ![t].counts = Counting(t, Counters(f))]
      /\ pending' = IF Held(t[1])
                    THEN [pending EXCEPT ![t[1]].index =
                             Stores(@, f, [status |-> Recorded(f), version |-> checkout])]
                    ELSE pending
      /\ UNCHANGED <<checkout, connection, scans, matchings, unusable, ask>>
  BY DEF ReadFile
<1> HIDE DEF f
<1>5. Counting(t, Counters(f)) \in [CountColumns -> Nat]
  BY <1>2 DEF Counting, WalkerRow
<1>6. walker' = [walker EXCEPT ![t] = [walker[t] EXCEPT !.left = walker[t].left \ {f},
                                                        !.counts = Counting(t, Counters(f))]]
  BY <1>2, <1>4
<1>7. /\ walker' = [walker EXCEPT ![t] = walker'[t]] /\ walker'[t] \in WalkerRow
      /\ walker'[t].at = "walk" /\ walker'[t].left = walker[t].left \ {f}
      /\ walker'[t].counts = Counting(t, Counters(f))
  <2>1. /\ walker'[t].at = "walk" /\ walker'[t].left = walker[t].left \ {f}
        /\ walker'[t].counts = Counting(t, Counters(f))
        /\ walker'[t] = [at |-> "walk", left |-> walker[t].left \ {f},
                         counts |-> Counting(t, Counters(f))]
    BY <1>2, <1>4, <1>6, ZenonT(60) DEF WalkerRow
  <2>2. walker'[t] \in WalkerRow
    BY <1>2, <1>5, <2>1 DEF WalkerRow
  <2> QED
    BY <1>2, <1>6, <2>1, <2>2
<1>8. ThreadStep(t)
  BY <1>1, <1>2, <1>4, <1>7 DEF ThreadStep, Typed
<1>9. CASE Held(t[1])
  <2> DEFINE old == pending[t[1]]
             index == Stores(old.index, f, [status |-> Recorded(f), version |-> checkout])
             row == [old EXCEPT !.index = index]
  <2>1. old \in ScanRow /\ t[1] \in DOMAIN pending
    BY <1>1, <1>9 DEF Held, Typed
  <2>2. pending' = [pending EXCEPT ![t[1]] = row]
    BY <1>4, <1>9, <2>1
  <2>3. checkout \in 0..MaxEdits /\ old.index \in UNION {[some -> FileRow] : some \in SUBSET Files}
    BY <2>1 DEF Typed, ScanRow
  <2>4. /\ index \in UNION {[some -> FileRow] : some \in SUBSET Files}
        /\ DOMAIN index = DOMAIN old.index \cup {f} /\ index[f].status = Recorded(f)
        /\ \A g \in DOMAIN old.index : g # f => index[g] = old.index[g]
    BY <1>3, <2>3, FileIsStored
  <2> HIDE DEF index
  <2>5. /\ row \in ScanRow /\ row.of = old.of /\ row.status = old.status
        /\ row.counts = old.counts /\ row.index = index
    BY <2>1, <2>4, RowWithIndex
  <2> HIDE DEF row
  <2> QED
    <3>1. HasRead(t, f)
      BY <1>3, <1>4, <1>7, <1>9, <2>2, <2>4, <2>5 DEF HasRead
    <3> QED
      BY <1>3, <1>8, <3>1
<1>10. CASE ~Held(t[1])
  <2>1. HasRead(t, f)
    BY <1>3, <1>4, <1>7, <1>10 DEF HasRead
  <2> QED
    BY <1>3, <1>8, <2>1
<1> QED
  BY <1>9, <1>10

LEMMA EndMoves ==
    ASSUME Typed, RoleInv, NEW t \in Walkers, EndScan(t)
    PROVE  ThreadStep(t) /\ \E status \in {"completed", "failed"} : Ended(t, status)
<1>1. t[1] \in RepoCalls /\ t[2] \in {1, 2} /\ t = <<t[1], t[2]>>
  BY DEF Walkers
<1>2. ask[t[1]] \in AskRow /\ walker[t] \in WalkerRow /\ t \in DOMAIN walker /\ t[1] \in DOMAIN ask
  BY <1>1 DEF Typed
<1>3. PICK status \in {"completed", "failed"} :
         /\ status = "completed" => walker[t].left = {} /\ t[1] \notin unusable
         /\ Returns(t, status)
         /\ pending' = IF ~Held(t[1]) THEN pending
                       ELSE IF ask[t[1]].at = "over" THEN [pending EXCEPT ![t[1]] = NoScan]
                       ELSE IF status = "failed" THEN [pending EXCEPT ![t[1]].status = status]
                       ELSE [pending EXCEPT ![t[1]].status = status, ![t[1]].counts =
                                [walker[t].counts EXCEPT !.total = pending[t[1]].counts.total]]
  BY DEF EndScan
<1>4. walker[t].at = "walk" /\ UNCHANGED <<checkout, connection, scans, matchings, unusable>>
  BY DEF EndScan
<1>5. ThreadStep(t) /\ Left(t, status)
  BY <1>3, <1>4, ReturnsMoves DEF ThreadStep
<1>6. CASE Held(t[1]) /\ ask[t[1]].at # "over"
  <2> DEFINE old == pending[t[1]]
             counts == [walker[t].counts EXCEPT !.total = old.counts.total]
             closed == [old EXCEPT !.status = status]
             row == IF status = "failed" THEN closed ELSE [closed EXCEPT !.counts = counts]
  <2>1. old \in ScanRow /\ t[1] \in DOMAIN pending
    BY <1>1, <1>6 DEF Held, Typed
  <2>2. /\ closed \in ScanRow /\ closed.of = old.of /\ closed.status = status
        /\ closed.counts = old.counts /\ closed.index = old.index
    <3>1. status \in {"running", "completed", "failed"}
      OBVIOUS
    <3> HIDE DEF old
    <3> QED
      BY <2>1, <3>1, RowWithStatus
  <2>3. counts \in [CountColumns -> Nat]
    BY <1>2, <2>1 DEF WalkerRow, ScanRow, CountColumns
  <2>4. pending' = [pending EXCEPT ![t[1]] = row]
    <3>1. CASE status = "failed"
      BY <1>3, <1>6, <2>1, <3>1
    <3>2. CASE status # "failed"
      <4>1. pending' = [pending EXCEPT ![t[1]].status = status, ![t[1]].counts = counts]
        BY <1>3, <1>6, <3>2
      <4> HIDE DEF counts
      <4> QED
        BY <2>1, <3>2, <4>1
    <3> QED
      BY <3>1, <3>2
  <2> HIDE DEF closed
  <2>5. /\ row \in ScanRow /\ row.of = old.of /\ row.status = status /\ row.index = old.index
        /\ status = "completed" => row.counts = counts
    BY <2>2, <2>3, RowWithCounts
  <2> HIDE DEF row
  <2> QED
    BY <1>3, <1>4, <1>5, <1>6, <2>4, <2>5 DEF Ended
<1>7. CASE ~(Held(t[1]) /\ ask[t[1]].at # "over")
  BY <1>3, <1>4, <1>5, <1>7 DEF Ended
<1> QED
  BY <1>6, <1>7

\* A step of a thread is one of these.
LEMMA ThreadMoves ==
    ASSUME Typed, RoleInv, NEW t \in Walkers, WalkerSteps(t)
    PROVE  /\ ThreadStep(t)
           /\ \/ Looked(t) \/ Barred(t) \/ Begun(t) \/ GaveUp(t)
              \/ \E f \in Files : HasRead(t, f)
              \/ \E status \in {"completed", "failed"} : Ended(t, status)
<1>1. CASE ToolFails(t)
  <2>1. /\ walker[t].at \in {"look", "begin"} /\ t[1] \in unusable /\ Returns(t, "failed")
        /\ UNCHANGED <<checkout, connection, scans, matchings, pending, unusable>>
    BY <1>1 DEF ToolFails
  <2> QED
    BY <2>1, ReturnsMoves DEF ThreadStep, GaveUp
<1> QED
  BY <1>1, LookMoves, BeginMoves, ReadMoves, EndMoves DEF WalkerSteps

-----------------------------------------------------------------------------
(* The types are kept.                                                      *)

LEMMA AskTyped ==
    ASSUME Typed, NEW c \in RepoCalls, ask' = [ask EXCEPT ![c] = ask'[c]], ask'[c] \in AskRow
    PROVE  /\ ask' \in [RepoCalls -> AskRow] /\ \A d \in RepoCalls \ {c} : ask'[d] = ask[d]
  BY DEF Typed

LEMMA EmptyIsTyped == \A S : DOMAIN << >> = {} /\ << >> \in [DOMAIN << >> -> S]
  OBVIOUS

LEMMA TypedRoute ==
    ASSUME Typed, RoleInv, NumberInv, NothingOutlives, NEW c \in RepoCalls, RouteSteps(c)
    PROVE  Typed'
<1>1. ask' \in [RepoCalls -> AskRow] /\ UNCHANGED <<checkout, pending, unusable, walker>>
  BY RouteMoves, AskTyped
<1>2. connection' \in ConnectionRow \cup {NoConnection}
  <2>1. CASE UNCHANGED connection \/ connection' \in ConnectionRow \/ connection' = NoConnection
    BY <2>1 DEF Typed
  <2>2. CASE connection \in ConnectionRow /\ connection' = [connection EXCEPT !.last = c]
    BY <2>2 DEF ConnectionRow
  <2> QED
    BY <2>1, <2>2, RouteRows
<1>3. DOMAIN scans' \subseteq ScanIds /\ scans' \in [DOMAIN scans' -> ScanRow]
  <2>1. CASE UNCHANGED scans
    BY <2>1 DEF Typed
  <2>2. CASE scans' = << >>
    BY <2>2, EmptyIsTyped
  <2>3. CASE connection \in ConnectionRow /\ scans' = Stores(scans, c, NewScan(connection.number, NoScan))
    <3>1. connection.number \in Numbers
      BY <2>3 DEF ConnectionRow
    <3>2. NewScan(connection.number, NoScan) \in ScanRow
      BY <3>1, NewScanIsRow
    <3> QED
      BY <2>3, <3>2 DEF Typed, Stores, ScanIds
  <2>4. CASE c \in DOMAIN scans /\ scans' = [scans EXCEPT ![c].status = "completed"]
    <3>1. scans[c] \in ScanRow
      BY <2>4 DEF Typed
    <3>2. [scans[c] EXCEPT !.status = "completed"] \in ScanRow
      BY <3>1, RowWithStatus
    <3> QED
      BY <2>4, <3>2 DEF Typed
  <2> QED
    BY <2>1, <2>2, <2>3, <2>4, RouteRows
<1>4. /\ DOMAIN matchings' \subseteq RepoCalls
      /\ matchings' \in [DOMAIN matchings' -> [scan : ScanIds, status : {"running", "completed"}]]
  <2>1. CASE UNCHANGED matchings
    BY <2>1 DEF Typed
  <2>2. CASE matchings' = << >>
    BY <2>2, EmptyIsTyped
  <2>3. CASE \E s \in DOMAIN scans :
                matchings' = Stores(matchings, c, [scan |-> s, status |-> "running"])
    BY <2>3 DEF Typed, Stores
  <2>4. CASE c \in DOMAIN matchings /\ matchings' = [matchings EXCEPT ![c].status = "completed"]
    BY <2>4 DEF Typed
  <2> QED
    BY <2>1, <2>2, <2>3, <2>4, RouteRows
<1> QED
  BY <1>1, <1>2, <1>3, <1>4 DEF Typed

LEMMA TypedTool ==
    ASSUME Typed, RoleInv, NumberInv, NEW c \in RepoCalls, ToolSteps(c)
    PROVE  Typed'
<1>1. ask' \in [RepoCalls -> AskRow]
  BY ToolMoves, AskTyped
<1>2. UNCHANGED <<checkout, connection, matchings>>
  BY ToolMoves
<1>3. walker' \in [Walkers -> WalkerRow]
  <2>1. <<c, 1>> \in Walkers /\ <<c, 2>> \in Walkers
    BY DEF Walkers
  <2>2. walker \in [Walkers -> WalkerRow]
    BY DEF Typed
  <2>3. \A t \in Walkers : [walker EXCEPT ![t].at = "look"] \in [Walkers -> WalkerRow]
    BY <2>2 DEF WalkerRow
  <2> QED
    BY <2>1, <2>2, <2>3, ToolMoves
<1>4. /\ DOMAIN scans' \subseteq ScanIds /\ scans' \in [DOMAIN scans' -> ScanRow]
      /\ pending' \in [RepoCalls -> ScanRow \cup {NoScan}] /\ unusable' \subseteq RepoCalls
  <2>1. CASE UNCHANGED <<scans, pending, unusable>>
    BY <2>1 DEF Typed
  <2>2. CASE /\ scans' = IF Held(c) /\ c \notin unusable
                         THEN Stores(scans, ScanId(c), pending[c]) ELSE scans
             /\ pending' = [pending EXCEPT ![c] = NoScan] /\ unusable' = unusable \ {c}
    <3>1. ScanId(c) \in ScanIds
      BY ErrandsAreTyped
    <3>2. Held(c) => pending[c] \in ScanRow
      BY DEF Held, Typed
    <3> QED
      BY <2>2, <3>1, <3>2 DEF Typed, Stores
  <2> QED
    BY <2>1, <2>2, ToolMoves
<1> QED
  BY <1>1, <1>2, <1>3, <1>4 DEF Typed

LEMMA TypedThread ==
    ASSUME Typed, RoleInv, NEW t \in Walkers, WalkerSteps(t)
    PROVE  Typed'
<1>1. ThreadStep(t)
  BY ThreadMoves
<1>2. ask' \in [RepoCalls -> AskRow]
  BY <1>1, AskTyped DEF ThreadStep
<1>3. walker' \in [Walkers -> WalkerRow]
  BY <1>1 DEF ThreadStep, Typed
<1>4. pending' \in [RepoCalls -> ScanRow \cup {NoScan}] /\ unusable' \subseteq RepoCalls
  <2>1. t[1] \in RepoCalls
    BY <1>1 DEF ThreadStep
  <2>2. \/ UNCHANGED pending
        \/ \E row \in ScanRow \cup {NoScan} : pending' = [pending EXCEPT ![t[1]] = row]
    BY ThreadMoves, Zenon DEF Looked, Barred, Begun, HasRead, Ended, GaveUp
  <2>3. unusable' = unusable \/ unusable' = unusable \cup {t[1]}
    BY ThreadMoves DEF Looked, Barred, Begun, HasRead, Ended, GaveUp
  <2> QED
    BY <2>1, <2>2, <2>3 DEF Typed
<1> QED
  BY <1>1, <1>2, <1>3, <1>4 DEF Typed, ThreadStep

-----------------------------------------------------------------------------
(* Calls keep to their roles.                                               *)

\* Errands, and with them roles and identifiers, do not change.
LEMMA ErrandsStay ==
    ASSUME Typed, NEW c \in RepoCalls, ask' = [ask EXCEPT ![c] = ask'[c]],
           ask'[c].errand = ask[c].errand
    PROVE  \A d \in RepoCalls : /\ IsTool(d)' <=> IsTool(d)
                                /\ ScanId(d)' = ScanId(d) /\ Wanted(d)' = Wanted(d)
  BY DEF IsTool, ScanId, Wanted, Typed

LEMMA RoleRoute ==
    ASSUME Typed, RoleInv, NEW c \in RepoCalls, RouteSteps(c)
    PROVE  RoleInv'
<1>1. /\ ~IsTool(c) /\ ask[c].at \in {"waiting", "commit", "conclude"}
      /\ ask'[c].at \in {"commit", "conclude", "over"}
      /\ \A d \in RepoCalls \ {c} : ask'[d] = ask[d]
      /\ UNCHANGED <<pending, walker>>
  BY RouteMoves, AskTyped
<1>2. \A d \in RepoCalls : IsTool(d)' <=> IsTool(d)
  BY RouteMoves, ErrandsStay
<1>3. \A t \in Walkers : t[1] \in RepoCalls
  BY DEF Walkers
<1> QED
  BY <1>1, <1>2, <1>3 DEF RoleInv, Held, Before

LEMMA RoleTool ==
    ASSUME Typed, RoleInv, NumberInv, NEW c \in RepoCalls, ToolSteps(c)
    PROVE  RoleInv'
<1>1. /\ IsTool(c) /\ \A d \in RepoCalls \ {c} : ask'[d] = ask[d]
      /\ ask'[c].at \in {"open", "answered", "over"}
      /\ \A d \in RepoCalls : pending'[d] = pending[d] \/ pending'[d] = NoScan
      /\ ask[c].at # "waiting" => ask'[c].attempt = ask[c].attempt \/ ask'[c].attempt = 2
  BY ToolMoves, AskTyped DEF Typed
<1>2. \A d \in RepoCalls : IsTool(d)' <=> IsTool(d)
  BY ToolMoves, ErrandsStay
<1>3. \A t \in Walkers : t[1] \in RepoCalls /\ t[2] \in {1, 2} /\ t = <<t[1], t[2]>>
  BY DEF Walkers
<1>4. <<c, 1>> \in Walkers /\ <<c, 2>> \in Walkers
  BY DEF Walkers
<1>5. \A t \in Walkers :
         \/ walker'[t] = walker[t] /\ (t[1] = c => ask[c].at # "waiting" \/ walker[t].at = "idle")
         \/ /\ t[1] = c /\ walker[t].at = "idle" /\ walker'[t].at = "look"
            /\ walker'[t].counts = walker[t].counts /\ (t[2] = 2 => ask'[c].attempt = 2)
  <2>1. CASE ask[c].at = "waiting" /\ walker' = [walker EXCEPT ![<<c, 1>>].at = "look"]
    <3>1. \A t \in Walkers : t[1] = c => walker[t].at = "idle"
      BY <2>1 DEF RoleInv
    <3>2. \A t \in Walkers : t # <<c, 1>> => walker'[t] = walker[t]
      BY <2>1 DEF Typed
    <3>3. /\ walker'[<<c, 1>>].at = "look"
          /\ walker'[<<c, 1>>].counts = walker[<<c, 1>>].counts
      BY <1>4, <2>1 DEF Typed, WalkerRow
    <3>4. <<c, 1>>[1] = c /\ <<c, 1>>[2] # 2
      OBVIOUS
    <3> QED
      BY <1>4, <3>1, <3>2, <3>3, <3>4
  <2>2. CASE /\ ask[c].at = "open" /\ ask[c].attempt = 1 /\ ask'[c].attempt = 2
             /\ walker' = [walker EXCEPT ![<<c, 2>>].at = "look"]
    <3>1. walker[<<c, 2>>].at = "idle"
      BY <1>4, <2>2 DEF RoleInv
    <3> QED
      BY <1>3, <1>4, <2>2, <3>1 DEF Typed, WalkerRow
  <2>3. CASE ask[c].at # "waiting" /\ UNCHANGED walker
    BY <2>3
  <2> QED
    BY <2>1, <2>2, <2>3, ToolMoves
<1>6. ASSUME NEW d \in RepoCalls
      PROVE  /\ ask'[d].at \in {"open", "answered"} => IsTool(d)'
             /\ ask'[d].at \in {"commit", "conclude"} => ~IsTool(d)'
             /\ Held(d)' => IsTool(d)' /\ ask'[d].at \in {"open", "answered", "over"}
  BY <1>1, <1>2 DEF RoleInv, Held
<1>7. ASSUME NEW t \in Walkers
      PROVE  /\ walker'[t].at # "idle" =>
                   IsTool(t[1])' /\ ask'[t[1]].at \in {"open", "answered", "over"}
             /\ walker'[t].at # "idle" /\ t[2] = 2 => ask'[t[1]].attempt = 2
             /\ Before(t)' => walker'[t].counts = NoCounts
             /\ walker'[t].at = "begin" => walker'[t].left = Discover
  <2>1. CASE t[1] # c
    BY <1>1, <1>2, <1>3, <1>5, <2>1 DEF RoleInv, Before
  <2>2. CASE t[1] = c
    BY <1>1, <1>2, <1>3, <1>5, <2>2 DEF RoleInv, Before
  <2> QED
    BY <2>1, <2>2
<1> QED
  BY <1>6, <1>7 DEF RoleInv

LEMMA RoleThread ==
    ASSUME Typed, RoleInv, NEW t \in Walkers, WalkerSteps(t)
    PROVE  RoleInv'
<1>1. /\ t[1] \in RepoCalls /\ \A d \in RepoCalls \ {t[1]} : ask'[d] = ask[d]
      /\ \A u \in Walkers \ {t} : walker'[u] = walker[u]
      /\ ask'[t[1]].attempt = ask[t[1]].attempt
  BY ThreadMoves, AskTyped DEF ThreadStep, Typed
<1>2. \A d \in RepoCalls : IsTool(d)' <=> IsTool(d)
  BY ThreadMoves, ErrandsStay DEF ThreadStep
<1>3. \A u \in Walkers : u[1] \in RepoCalls
  BY DEF Walkers
<1>4. walker[t].at # "idle"
  BY ThreadMoves DEF Looked, Barred, Begun, HasRead, Ended, GaveUp
<1>5. IsTool(t[1]) /\ ask[t[1]].at \in {"open", "answered", "over"}
  BY <1>4 DEF RoleInv
<1>6. ask'[t[1]].at \in {"open", "answered", "over"}
  BY <1>5, ThreadMoves DEF Looked, Barred, Begun, HasRead, Ended, GaveUp, Left
<1>7. \A d \in RepoCalls \ {t[1]} : pending'[d] = pending[d]
  BY ThreadMoves, ZenonT(60) DEF Looked, Barred, Begun, HasRead, Ended, GaveUp, Typed
<1>8. /\ Before(t)' => walker[t].at = "look" /\ walker'[t].counts = walker[t].counts
      /\ walker'[t].at = "begin" => walker'[t].left = Discover
  BY ThreadMoves DEF Looked, Barred, Begun, HasRead, Ended, GaveUp, Left, Before
<1>9. ASSUME NEW d \in RepoCalls
      PROVE  /\ ask'[d].at \in {"open", "answered"} => IsTool(d)'
             /\ ask'[d].at \in {"commit", "conclude"} => ~IsTool(d)'
             /\ Held(d)' => IsTool(d)' /\ ask'[d].at \in {"open", "answered", "over"}
  <2>1. CASE d = t[1]
    BY <1>2, <1>5, <1>6, <2>1
  <2>2. CASE d # t[1]
    BY <1>1, <1>2, <1>7, <2>2 DEF RoleInv, Held
  <2> QED
    BY <2>1, <2>2
<1>10. ASSUME NEW u \in Walkers
       PROVE  /\ walker'[u].at # "idle" =>
                    IsTool(u[1])' /\ ask'[u[1]].at \in {"open", "answered", "over"}
              /\ walker'[u].at # "idle" /\ u[2] = 2 => ask'[u[1]].attempt = 2
              /\ Before(u)' => walker'[u].counts = NoCounts
              /\ walker'[u].at = "begin" => walker'[u].left = Discover
  <2>1. CASE u = t
    <3>1. u[2] = 2 => ask'[u[1]].attempt = 2
      BY <1>1, <1>4, <2>1 DEF RoleInv
    <3>2. Before(u)' => walker'[u].counts = NoCounts
      BY <1>8, <2>1 DEF RoleInv, Before
    <3>3. IsTool(t[1])'
      BY <1>1, <1>2, <1>5
    <3>4. IsTool(u[1])' /\ ask'[u[1]].at \in {"open", "answered", "over"}
      BY <1>6, <2>1, <3>3
    <3>5. walker'[u].at = "begin" => walker'[u].left = Discover
      BY <1>8, <2>1
    <3> QED
      BY <3>1, <3>2, <3>4, <3>5
  <2>2. CASE u # t
    BY <1>1, <1>2, <1>3, <1>5, <1>6, <2>2 DEF RoleInv, Before
  <2> QED
    BY <2>1, <2>2
<1> QED
  BY <1>9, <1>10 DEF RoleInv

-----------------------------------------------------------------------------
(* The numbers of connections.                                              *)

SpentThen(number) == number \in RepoCalls => ask'[number].at = "over"
LEMMA NumberKept ==
    ASSUME Typed, NumberInv,
           \A d \in RepoCalls : /\ IsTool(d)' <=> IsTool(d)
                                /\ ScanId(d)' = ScanId(d)
                                /\ ask[d].at = "over" => ask'[d].at = "over"
                                /\ IsTool(d) => /\ ask'[d].at = "waiting" <=> ask[d].at = "waiting"
                                                /\ ask[d].at # "waiting" => ask'[d].about = ask[d].about,
           connection' # NoConnection =>
              \/ connection # NoConnection /\ connection'.number = connection.number
              \/ SpentThen(connection'.number)
    PROVE  NumberInv'
<1>1. \A number : Spent(number) => SpentThen(number)
  BY DEF Spent, SpentThen
<1>3. connection' # NoConnection => SpentThen(connection'.number)
  BY <1>1 DEF NumberInv
<1>4. ASSUME NEW c \in RepoCalls, IsTool(c)', ask'[c].at # "waiting"
      PROVE  SpentThen(ask[c].about) /\ \A d \in Fellows(c)' : ask'[d].about = ask'[c].about
  <2>1. Spent(ask[c].about)
    BY <1>4 DEF NumberInv
  <2>2. Fellows(c)' \subseteq Fellows(c)
    BY <1>4 DEF Fellows
  <2>3. \A d \in Fellows(c) : d \in RepoCalls /\ IsTool(d) /\ ask[d].at # "waiting"
    BY DEF Fellows
  <2>4. \A d \in Fellows(c) : ask'[d].about = ask[c].about
    BY <1>4, <2>3 DEF NumberInv
  <2> QED
    BY <1>1, <1>4, <2>1, <2>2, <2>4
<1>5. \A c \in RepoCalls : IsTool(c)' /\ ask'[c].at # "waiting" => ask'[c].about = ask[c].about
  OBVIOUS
<1>6. ASSUME NEW c \in RepoCalls, IsTool(c)', ask'[c].at # "waiting"
      PROVE  SpentThen(ask'[c].about)
  BY <1>4, <1>5, <1>6
<1> QED
  BY <1>3, <1>4, <1>6 DEF NumberInv, Spent, SpentThen

LEMMA NumberRoute ==
    ASSUME Typed, RoleInv, NumberInv, NothingOutlives, NEW c \in RepoCalls, RouteSteps(c)
    PROVE  NumberInv'
<1>1. /\ ~IsTool(c) /\ \A d \in RepoCalls \ {c} : ask'[d] = ask[d]
      /\ \A d \in RepoCalls : (IsTool(d)' <=> IsTool(d)) /\ ScanId(d)' = ScanId(d)
      /\ ask[c].at # "over"
  BY RouteMoves, AskTyped, ErrandsStay
<1>2. \A d \in RepoCalls : ask[d].at = "over" => ask'[d].at = "over"
  BY <1>1
<1>3. \A d \in RepoCalls : IsTool(d) => /\ ask'[d].at = "waiting" <=> ask[d].at = "waiting"
                                        /\ ask[d].at # "waiting" => ask'[d].about = ask[d].about
  BY <1>1
<1>4. connection' # NoConnection =>
         \/ connection # NoConnection /\ connection'.number = connection.number
         \/ connection'.number = c /\ ask'[c].at = "over"
  <2>1. connection \in ConnectionRow => connection # NoConnection
    BY RowsAreRows
  <2>2. CASE connection \in ConnectionRow /\ connection' = [connection EXCEPT !.last = c]
    BY <2>1, <2>2 DEF ConnectionRow
  <2> QED
    BY <2>1, <2>2, RouteRows
<1>5. connection' # NoConnection =>
         \/ connection # NoConnection /\ connection'.number = connection.number
         \/ SpentThen(connection'.number)
  BY <1>4 DEF SpentThen
<1> QED
  BY <1>1, <1>2, <1>3, <1>5, NumberKept

LEMMA NumberTool ==
    ASSUME Typed, RoleInv, NumberInv, NEW c \in RepoCalls, ToolSteps(c)
    PROVE  NumberInv'
<1>1. /\ IsTool(c) /\ \A d \in RepoCalls \ {c} : ask'[d] = ask[d]
      /\ \A d \in RepoCalls : (IsTool(d)' <=> IsTool(d)) /\ ScanId(d)' = ScanId(d)
      /\ UNCHANGED connection /\ ask[c].at # "over"
  BY ToolMoves, AskTyped, ErrandsStay
<1>2. CASE ask[c].at # "waiting"
  <2>1. ask'[c].about = ask[c].about /\ ask'[c].at # "waiting"
    BY <1>2, ToolMoves
  <2>2. \A d \in RepoCalls : ask[d].at = "over" => ask'[d].at = "over"
    BY <1>1
  <2>3. \A d \in RepoCalls : IsTool(d) => /\ ask'[d].at = "waiting" <=> ask[d].at = "waiting"
                                          /\ ask[d].at # "waiting" => ask'[d].about = ask[d].about
    BY <1>1, <1>2, <2>1
  <2> QED
    BY <1>1, <2>2, <2>3, NumberKept
<1>3. CASE ask[c].at = "waiting"
  <2>1. /\ ask'[c].at # "waiting"
        /\ \/ Fellows(c) = {} /\ connection \in ConnectionRow /\ ask'[c].about = connection.number
           \/ Fellows(c) # {} /\ \A d \in Fellows(c) : ask'[c].about = ask[d].about
    BY <1>3, ToolMoves
  <2>2. \A number : Spent(number) => SpentThen(number)
    BY <1>1 DEF Spent, SpentThen
  <2>3. connection' # NoConnection => SpentThen(connection.number)
    BY <1>1, <2>2 DEF NumberInv
  <2>4. \A d \in Fellows(c) : d \in RepoCalls /\ IsTool(d) /\ ask[d].at # "waiting" /\ d # c
    BY <1>3 DEF Fellows
  <2>5. Spent(ask'[c].about)
    <3>1. connection \in ConnectionRow => connection # NoConnection
      BY RowsAreRows
    <3> QED
      BY <2>1, <2>4, <3>1 DEF NumberInv
  <2>6. \A e \in RepoCalls : Fellows(e)' \subseteq Fellows(e) \cup {c}
    BY <1>1 DEF Fellows
  <2>7. \A d \in Fellows(c) : ask'[d].about = ask'[c].about
    BY <1>1, <2>1, <2>4
  <2>8. ASSUME NEW e \in RepoCalls, IsTool(e)', ask'[e].at # "waiting"
        PROVE  Spent(ask'[e].about) /\ \A d \in Fellows(e)' : ask'[d].about = ask'[e].about
    <3>1. CASE e = c
      <4>1. \A d \in Fellows(c)' : ask'[d].about = ask'[c].about
        BY <2>6, <2>7
      <4> QED
        BY <2>5, <3>1, <4>1
    <3>2. CASE e # c
      <4>1. IsTool(e) /\ ask[e].at # "waiting" /\ ask'[e] = ask[e]
        BY <1>1, <2>8, <3>2
      <4>2. \A d \in Fellows(e) : ask'[d].about = ask'[e].about
        <5>1. \A d \in Fellows(e) : d \in RepoCalls /\ d # c
          BY <1>3 DEF Fellows
        <5>2. \A d \in Fellows(e) : ask[d].about = ask[e].about
          BY <4>1 DEF NumberInv
        <5> QED
          BY <1>1, <4>1, <5>1, <5>2
      <4>3. c \in Fellows(e)' => e \in Fellows(c)
        BY <1>1, <4>1 DEF Fellows
      <4> QED
        BY <2>6, <2>7, <4>1, <4>2, <4>3 DEF NumberInv
    <3> QED
      BY <3>1, <3>2
  <2>9. \A e \in RepoCalls : IsTool(e)' /\ ask'[e].at # "waiting" => SpentThen(ask'[e].about)
    BY <2>2, <2>8
  <2>10. connection' # NoConnection => SpentThen(connection'.number)
    BY <1>1, <2>2 DEF NumberInv
  <2> QED
    BY <2>8, <2>9, <2>10 DEF NumberInv, Spent, SpentThen
<1> QED
  BY <1>2, <1>3

LEMMA NumberThread ==
    ASSUME Typed, RoleInv, NumberInv, NEW t \in Walkers, WalkerSteps(t)
    PROVE  NumberInv'
<1>1. /\ t[1] \in RepoCalls /\ \A d \in RepoCalls \ {t[1]} : ask'[d] = ask[d]
      /\ \A d \in RepoCalls : (IsTool(d)' <=> IsTool(d)) /\ ScanId(d)' = ScanId(d)
      /\ UNCHANGED connection /\ ask'[t[1]].about = ask[t[1]].about
  BY ThreadMoves, AskTyped, ErrandsStay DEF ThreadStep
<1>2. \/ UNCHANGED ask
      \/ ask[t[1]].at = "open" /\ ask'[t[1]].at = "answered"
  BY ThreadMoves DEF Looked, Barred, Begun, HasRead, Ended, GaveUp, Left, Heard
<1>3. \A d \in RepoCalls : /\ ask[d].at = "over" => ask'[d].at = "over"
                           /\ ask'[d].at = "waiting" <=> ask[d].at = "waiting"
                           /\ ask'[d].about = ask[d].about
  BY <1>1, <1>2
<1> QED
  BY <1>1, <1>3, NumberKept

-----------------------------------------------------------------------------
(* A step of the tool of one call disturbs no other call.                   *)

LEMMA WalkersPair ==
    ASSUME NEW t \in Walkers
    PROVE  /\ t[1] \in RepoCalls /\ Other(t) \in Walkers /\ Other(t)[1] = t[1] /\ Other(t) # t
           /\ Other(Other(t)) = t
           /\ \A u \in Walkers : u[1] = t[1] => u = t \/ u = Other(t)
           /\ \A u \in Walkers : u[1] # t[1] => Other(u) # t /\ Other(u)[1] # t[1]
  BY DEF Walkers, Other

FrameOf(c) ==
    /\ UNCHANGED <<checkout, connection, scans, matchings>>
    /\ \A d \in RepoCalls :
          /\ (IsTool(d)' <=> IsTool(d)) /\ ScanId(d)' = ScanId(d)
          /\ d # c => /\ ask'[d] = ask[d] /\ pending'[d] = pending[d]
                      /\ d \in unusable' <=> d \in unusable
    /\ \A u \in Walkers : u[1] # c => walker'[u] = walker[u]

LawsOf(c) ==
    /\ HeldLaw(c) /\ DoneLaw(c) /\ ToldLaw(c)
    /\ \A t \in Walkers : t[1] = c => TurnLaw(t) /\ WalkLaw(t)

LEMMA FrameKeeps ==
    ASSUME Lawful, NEW c \in RepoCalls, FrameOf(c), LawsOf(c)',
           Held(c)' => Held(c) \/ \A d \in RepoCalls \ {c} : Held(d) => ScanId(d) # ScanId(c)
    PROVE  HeldInv' /\ OneWalk' /\ WalkInv' /\ StoredInv' /\ ToldInv' /\ NothingOutlives'
<1>1. ASSUME NEW d \in RepoCalls, d # c
      PROVE  /\ (Held(d)' <=> Held(d)) /\ (StillThere(d)' <=> StillThere(d))
             /\ (Known(d)' <=> Known(d)) /\ (StoredCompleted(d)' <=> StoredCompleted(d))
             /\ (IsTool(d)' <=> IsTool(d)) /\ ScanId(d)' = ScanId(d) /\ pending'[d] = pending[d]
             /\ ask'[d] = ask[d] /\ (d \in unusable' <=> d \in unusable)
  BY <1>1 DEF FrameOf, Held, StillThere, Known, StoredCompleted
<1>2. \A d \in RepoCalls : d # c => HeldLaw(d)' /\ DoneLaw(d)' /\ ToldLaw(d)'
  <2>1. ASSUME NEW d \in RepoCalls, d # c  PROVE HeldLaw(d)'
    <3>1. HeldLaw(d) /\ scans' = scans
      BY DEF Lawful, HeldInv, FrameOf
    <3> QED
      BY <1>1, <2>1, <3>1 DEF HeldLaw
  <2>2. ASSUME NEW d \in RepoCalls, d # c  PROVE DoneLaw(d)'
    BY <1>1, <2>2 DEF Lawful, WalkInv, DoneLaw, Full, Indexed
  <2>3. ASSUME NEW d \in RepoCalls, d # c  PROVE ToldLaw(d)'
    <3>1. ToldLaw(d)
      BY DEF Lawful, ToldInv
    <3> QED
      BY <1>1, <2>3, <3>1 DEF ToldLaw
  <2> QED
    BY <2>1, <2>2, <2>3
<1>3. \A u \in Walkers : u[1] # c => TurnLaw(u)' /\ WalkLaw(u)'
  <2>1. ASSUME NEW u \in Walkers, u[1] # c  PROVE TurnLaw(u)' /\ WalkLaw(u)'
    <3>1. /\ u[1] \in RepoCalls /\ Other(u) \in Walkers /\ Other(u)[1] # c
          /\ Other(u)' = Other(u)
      BY <2>1, WalkersPair DEF Other
    <3>2. walker'[u] = walker[u] /\ walker'[Other(u)] = walker[Other(u)]
      BY <2>1, <3>1 DEF FrameOf
    <3>3. TurnLaw(u) /\ WalkLaw(u)
      BY DEF Lawful, OneWalk, WalkInv
    <3>4. TurnLaw(u)'
      BY <1>1, <2>1, <3>1, <3>2, <3>3 DEF TurnLaw, Walks, Before
    <3>5. WalkLaw(u)'
      <4> DEFINE d == u[1]
      <4>1. /\ (Held(d)' <=> Held(d)) /\ pending'[d] = pending[d] /\ ask'[d] = ask[d]
            /\ (d \in unusable' <=> d \in unusable)
        BY <1>1, <2>1, <3>1
      <4> QED
        BY <3>2, <3>3, <4>1 DEF WalkLaw, Walks, Indexed
    <3> QED
      BY <3>4, <3>5
  <2> QED
    BY <2>1
<1>4. /\ \A d \in RepoCalls : HeldLaw(d)' /\ DoneLaw(d)' /\ ToldLaw(d)'
      /\ \A u \in Walkers : TurnLaw(u)' /\ WalkLaw(u)'
  BY <1>2, <1>3 DEF LawsOf
<1>5. ASSUME NEW d \in RepoCalls, NEW e \in RepoCalls, d # e, Held(d)', Held(e)'
      PROVE  ScanId(e)' # ScanId(d)'
  <2>1. CASE d # c /\ e # c
    BY <1>1, <1>5, <2>1 DEF Lawful, HeldInv
  <2>2. CASE d = c
    BY <1>1, <1>5, <2>2 DEF Lawful, HeldInv, FrameOf
  <2>3. CASE e = c
    BY <1>1, <1>5, <2>3 DEF Lawful, HeldInv, FrameOf
  <2> QED
    BY <2>1, <2>2, <2>3
<1>6. UNCHANGED <<connection, scans, matchings>>
  BY DEF FrameOf
<1>7. NothingOutlives' /\ StoredInv'
  BY <1>6 DEF Lawful, NothingOutlives, StoredInv, Full, Indexed
<1> QED
  BY <1>4, <1>5, <1>7 DEF HeldInv, OneWalk, WalkInv, ToldInv

LEMMA ThreadFrame ==
    ASSUME Typed, NEW t \in Walkers, ThreadStep(t),
           UNCHANGED pending \/ \E row : pending' = [pending EXCEPT ![t[1]] = row],
           unusable' = unusable \/ unusable' = unusable \cup {t[1]}
    PROVE  /\ FrameOf(t[1])
           /\ walker'[Other(t)] = walker[Other(t)] /\ Other(t)' = Other(t)
           /\ \A d \in RepoCalls : /\ StillThere(d)' <=> StillThere(d)
                                   /\ StoredCompleted(d)' <=> StoredCompleted(d)
<1>1. \A d \in RepoCalls : (IsTool(d)' <=> IsTool(d)) /\ ScanId(d)' = ScanId(d)
  BY ErrandsStay DEF ThreadStep
<1>2. \A d \in RepoCalls \ {t[1]} : ask'[d] = ask[d]
  BY AskTyped DEF ThreadStep
<1>3. \A d \in RepoCalls : ask'[d].about = ask[d].about
  BY <1>2 DEF ThreadStep
<1>4. \A d \in RepoCalls : d # t[1] => pending'[d] = pending[d] /\ (d \in unusable' <=> d \in unusable)
  BY DEF Typed
<1>5. \A u \in Walkers : u # t => walker'[u] = walker[u]
  BY DEF ThreadStep, Typed
<1>6. Other(t)' = Other(t) /\ Other(t) # t /\ Other(t) \in Walkers
  BY WalkersPair DEF Other
<1>7. FrameOf(t[1])
  BY <1>1, <1>2, <1>4, <1>5 DEF FrameOf, ThreadStep
<1> QED
  BY <1>1, <1>3, <1>5, <1>6, <1>7 DEF ThreadStep, StillThere, StoredCompleted

-----------------------------------------------------------------------------
(* The counters.                                                            *)

LEMMA TallyOfNone == Tally({}) = NoCounts
<1>1. \A k : {f \in {} : k \in Counters(f)} = {}
  OBVIOUS
<1> QED
  BY <1>1, FS_EmptySet DEF Tally, NoCounts

LEMMA TallyGrows ==
    ASSUME NEW some \in SUBSET Files, NEW f \in Files \ some, NEW t, walker[t].counts = Tally(some)
    PROVE  Counting(t, Counters(f)) = Tally(some \cup {f})
<1>1. IsFiniteSet(some)
  BY RepositoryAssumption, FS_Subset
<1> DEFINE Of(set, k) == {g \in set : k \in Counters(g)}
<1>2. ASSUME NEW k \in CountColumns, k # "total"
      PROVE  Cardinality(Of(some, k)) + (IF k \in Counters(f) THEN 1 ELSE 0)
                = Cardinality(Of(some \cup {f}, k))
  <2>1. IsFiniteSet(Of(some, k)) /\ f \notin Of(some, k)
    BY <1>1, FS_Subset
  <2>2. CASE k \in Counters(f)
    <3>1. Of(some \cup {f}, k) = Of(some, k) \cup {f}
      BY <2>2
    <3> QED
      BY <2>1, <2>2, <3>1, FS_AddElement
  <2>3. CASE k \notin Counters(f)
    <3>1. Of(some \cup {f}, k) = Of(some, k)
      BY <2>3
    <3>2. Cardinality(Of(some, k)) \in Nat
      BY <2>1, FS_CardinalityType
    <3> HIDE DEF Of
    <3> QED
      BY <2>3, <3>1, <3>2
  <2> QED
    BY <2>2, <2>3
<1>3. "total" \notin Counters(f)
  BY DEF Counters, Recorded
<1>4. \A k \in CountColumns : Counting(t, Counters(f))[k] = Tally(some \cup {f})[k]
  <2>1. ASSUME NEW k \in CountColumns, k = "total"
        PROVE  Counting(t, Counters(f))[k] = Tally(some \cup {f})[k]
    BY <1>3, <2>1 DEF Counting, Tally
  <2>2. ASSUME NEW k \in CountColumns, k # "total"
        PROVE  Counting(t, Counters(f))[k] = Tally(some \cup {f})[k]
    BY <1>2, <2>2 DEF Counting, Tally
  <2> QED
    BY <2>1, <2>2
<1> QED
  BY <1>4 DEF Counting, Tally

-----------------------------------------------------------------------------
(* The steps of a thread keep the laws of its call.                         *)

LEMMA LookedKeeps ==
    ASSUME Lawful, NEW t \in Walkers, ThreadStep(t), Looked(t)
    PROVE  HeldInv' /\ OneWalk' /\ WalkInv' /\ StoredInv' /\ ToldInv' /\ NothingOutlives'
<1> DEFINE c == t[1]
<1>1. /\ FrameOf(c) /\ walker'[Other(t)] = walker[Other(t)] /\ Other(t)' = Other(t)
      /\ \A d \in RepoCalls : /\ StillThere(d)' <=> StillThere(d)
                              /\ StoredCompleted(d)' <=> StoredCompleted(d)
  BY ThreadFrame DEF Looked, Lawful
<1>2. /\ c \in RepoCalls /\ (IsTool(c)' <=> IsTool(c)) /\ ScanId(c)' = ScanId(c)
      /\ UNCHANGED <<scans, pending, unusable>> /\ ask'[c].about = ask[c].about
      /\ (Held(c)' <=> Held(c)) /\ (Known(c)' <=> Known(c))
  BY <1>1, WalkersPair DEF FrameOf, Looked, Held, Known, ThreadStep
<1>3. HeldLaw(c)' /\ DoneLaw(c)'
  BY <1>1, <1>2 DEF Lawful, HeldInv, HeldLaw, WalkInv, DoneLaw, Full, Indexed
<1>4. walker[t].at = "look" /\ walker'[t].at \in {"begin", "over"}
  BY DEF Looked, Left
<1>5. ask'[c].at = "over" <=> ask[c].at = "over"
  BY DEF Looked, Left, Heard
<1>6. TurnLaw(t)' /\ TurnLaw(Other(t))'
  <2>1. ~Walks(t)' /\ Before(t)
    BY <1>4 DEF Walks, Before
  <2>2. TurnLaw(Other(t)) /\ Other(Other(t)) = t /\ Other(t)[1] = c /\ Other(Other(t))' = t
    BY WalkersPair, <1>1 DEF Lawful, OneWalk, Other
  <2> QED
    BY <1>1, <1>2, <2>1, <2>2 DEF TurnLaw, Walks
<1>7. WalkLaw(t)' /\ WalkLaw(Other(t))'
  <2>1. ~Walks(t)'
    BY <1>4 DEF Walks
  <2>2. WalkLaw(Other(t)) /\ Other(t)[1] = c
    BY WalkersPair DEF Lawful, WalkInv
  <2> QED
    BY <1>1, <1>2, <1>5, <2>1, <2>2 DEF WalkLaw, Walks, Indexed
<1>8. ToldLaw(c)'
  <2>1. CASE UNCHANGED ask
    <3>1. ToldLaw(c)
      BY <1>2 DEF Lawful, ToldInv
    <3> QED
      BY <1>1, <1>2, <2>1, <3>1 DEF ToldLaw
  <2>2. CASE Heard(t) /\ Known(c) /\ Left(t, StatusOf(Seen(c)))
    <3>1. ask'[c].at = "answered" /\ ask'[c].verdict = StatusOf(Seen(c))
      BY <2>2 DEF Left
    <3>2. ask'[c].verdict = "completed" =>
             \/ Held(c) /\ pending[c].status = "completed"
             \/ StoredCompleted(c)
      BY <2>2, <3>1 DEF StatusOf, Seen, Known, StoredCompleted
    <3> QED
      BY <1>1, <1>2, <3>1, <3>2 DEF ToldLaw
  <2>3. CASE Heard(t) /\ Left(t, "failed")
    BY <2>3 DEF Left, ToldLaw
  <2> QED
    BY <2>1, <2>2, <2>3 DEF Looked, Left
<1>9. LawsOf(c)'
  BY <1>3, <1>6, <1>7, <1>8, WalkersPair DEF LawsOf
<1> QED
  BY <1>1, <1>2, <1>9, FrameKeeps

LEMMA BarredKeeps ==
    ASSUME Lawful, NEW t \in Walkers, ThreadStep(t), Barred(t)
    PROVE  HeldInv' /\ OneWalk' /\ WalkInv' /\ StoredInv' /\ ToldInv' /\ NothingOutlives'
<1> DEFINE c == t[1]
<1>1. /\ FrameOf(c) /\ walker'[Other(t)] = walker[Other(t)] /\ Other(t)' = Other(t)
      /\ \A d \in RepoCalls : /\ StillThere(d)' <=> StillThere(d)
                              /\ StoredCompleted(d)' <=> StoredCompleted(d)
  BY ThreadFrame DEF Barred, Lawful
<1>2. /\ c \in RepoCalls /\ (IsTool(c)' <=> IsTool(c)) /\ ~Held(c)' /\ c \in unusable'
  BY <1>1, WalkersPair DEF FrameOf, Barred, Held, Lawful, Typed
<1>3. HeldLaw(c)' /\ DoneLaw(c)'
  BY <1>2 DEF HeldLaw, DoneLaw
<1>4. ~Walks(t)' /\ ~Before(t)' /\ Before(t)
  BY DEF Barred, Left, Walks, Before
<1>5. TurnLaw(t)' /\ TurnLaw(Other(t))'
  <2>1. Other(Other(t))' = t
    BY WalkersPair, <1>1 DEF Other
  <2> QED
    BY <1>4, <2>1 DEF TurnLaw, Walks, Before
<1>6. WalkLaw(t)' /\ WalkLaw(Other(t))'
  <2>1. WalkLaw(Other(t)) /\ Other(t)[1] = c
    BY WalkersPair DEF Lawful, WalkInv
  <2> QED
    BY <1>1, <1>2, <1>4, <2>1 DEF WalkLaw, Walks
<1>7. ToldLaw(c)'
  <2>1. ToldLaw(c)
    BY <1>2 DEF Lawful, ToldInv
  <2>2. UNCHANGED ask \/ ask'[c].verdict = "failed"
    BY DEF Barred, Left
  <2> QED
    BY <1>1, <1>2, <2>1, <2>2 DEF ToldLaw
<1>8. LawsOf(c)'
  BY <1>3, <1>5, <1>6, <1>7, WalkersPair DEF LawsOf
<1> QED
  BY <1>1, <1>2, <1>8, FrameKeeps

LEMMA GaveUpKeeps ==
    ASSUME Lawful, NEW t \in Walkers, ThreadStep(t), GaveUp(t)
    PROVE  HeldInv' /\ OneWalk' /\ WalkInv' /\ StoredInv' /\ ToldInv' /\ NothingOutlives'
<1> DEFINE c == t[1]
<1>1. /\ FrameOf(c) /\ walker'[Other(t)] = walker[Other(t)] /\ Other(t)' = Other(t)
      /\ \A d \in RepoCalls : /\ StillThere(d)' <=> StillThere(d)
                              /\ StoredCompleted(d)' <=> StoredCompleted(d)
  BY ThreadFrame DEF GaveUp, Lawful
<1>2. /\ c \in RepoCalls /\ (IsTool(c)' <=> IsTool(c)) /\ ScanId(c)' = ScanId(c)
      /\ UNCHANGED <<scans, pending, unusable>> /\ ask'[c].about = ask[c].about
      /\ (Held(c)' <=> Held(c)) /\ (Known(c)' <=> Known(c))
  BY <1>1, WalkersPair DEF FrameOf, GaveUp, Held, Known, ThreadStep
<1>3. HeldLaw(c)' /\ DoneLaw(c)'
  BY <1>1, <1>2 DEF Lawful, HeldInv, HeldLaw, WalkInv, DoneLaw, Full, Indexed
<1>4. ~Walks(t)' /\ ~Before(t)'
  BY DEF GaveUp, Left, Walks, Before
<1>5. ask'[c].at = "over" <=> ask[c].at = "over"
  BY DEF GaveUp, Left, Heard
<1>6. TurnLaw(t)' /\ TurnLaw(Other(t))'
  <2>1. Other(Other(t))' = t
    BY WalkersPair, <1>1 DEF Other
  <2> QED
    BY <1>4, <2>1 DEF TurnLaw, Walks, Before
<1>7. WalkLaw(t)' /\ WalkLaw(Other(t))'
  <2>1. WalkLaw(Other(t)) /\ Other(t)[1] = c
    BY WalkersPair DEF Lawful, WalkInv
  <2> QED
    BY <1>1, <1>2, <1>4, <1>5, <2>1 DEF WalkLaw, Walks, Indexed
<1>8. ToldLaw(c)'
  <2>1. ToldLaw(c)
    BY <1>2 DEF Lawful, ToldInv
  <2>2. UNCHANGED ask \/ ask'[c].verdict = "failed"
    BY DEF GaveUp, Left
  <2> QED
    BY <1>1, <1>2, <2>1, <2>2 DEF ToldLaw
<1>9. LawsOf(c)'
  BY <1>3, <1>6, <1>7, <1>8, WalkersPair DEF LawsOf
<1> QED
  BY <1>1, <1>2, <1>9, FrameKeeps

LEMMA BegunKeeps ==
    ASSUME Lawful, NEW t \in Walkers, ThreadStep(t), Begun(t)
    PROVE  HeldInv' /\ OneWalk' /\ WalkInv' /\ StoredInv' /\ ToldInv' /\ NothingOutlives'
<1> DEFINE c == t[1]
<1>1. /\ FrameOf(c) /\ walker'[Other(t)] = walker[Other(t)] /\ Other(t)' = Other(t)
      /\ \A d \in RepoCalls : /\ StillThere(d)' <=> StillThere(d)
                              /\ StoredCompleted(d)' <=> StoredCompleted(d)
  BY ThreadFrame DEF Begun, Lawful
<1>2. PICK row \in ScanRow :
         /\ row.of = connection.number /\ row.status = "running" /\ DOMAIN row.index = {}
         /\ row.counts = [NoCounts EXCEPT !.total = Cardinality(walker[t].left)]
         /\ pending' = [pending EXCEPT ![c] = row]
  BY DEF Begun
<1>3. /\ c \in RepoCalls /\ (IsTool(c)' <=> IsTool(c)) /\ ScanId(c)' = ScanId(c)
      /\ pending'[c] = row /\ Held(c)'
  <2>1. c \in RepoCalls /\ row # NoScan
    BY RowsAreRows, WalkersPair
  <2> QED
    BY <1>1, <1>2, <2>1 DEF FrameOf, Held, Lawful, Typed
<1>4. /\ walker[t].at = "begin" /\ walker[t].left = Discover /\ walker[t].counts = NoCounts
      /\ walker'[t].at = "walk" /\ walker'[t].left = Discover /\ walker'[t].counts = NoCounts
  BY DEF Begun, Lawful, RoleInv, Before
<1>5. /\ UNCHANGED <<unusable, ask, connection, scans>>
      /\ c \notin unusable /\ ~Known(c) /\ StillThere(c) /\ ~Held(c) /\ ScanId(c) \notin DOMAIN scans
  BY DEF Begun, ThreadStep, Known
<1>6. HeldLaw(c)'
  BY <1>1, <1>2, <1>3, <1>5 DEF HeldLaw, StillThere
<1>7. DoneLaw(c)'
  BY <1>2, <1>3 DEF DoneLaw
<1>8. ~Walks(Other(t)) /\ Other(Other(t))' = t /\ Other(t)[1] = c
  <2>1. TurnLaw(Other(t)) /\ Other(Other(t)) = t /\ Other(t)[1] = c
    BY WalkersPair DEF Lawful, OneWalk
  <2> QED
    BY <1>1, <1>4, <1>5, <2>1 DEF TurnLaw, Before, Other
<1>9. TurnLaw(t)' /\ TurnLaw(Other(t))'
  <2>1. ~Walks(Other(t))'
    BY <1>1, <1>8 DEF Walks
  <2>2. Known(c)'
    BY <1>3 DEF Known
  <2> QED
    BY <2>1, <2>2 DEF TurnLaw
<1>10. WalkLaw(t)'
  <2>1. Discover \ walker'[t].left = {}
    BY <1>4
  <2>2. Indexed(row, {}) /\ Tally({}) = NoCounts
    BY <1>2, TallyOfNone DEF Indexed
  <2>3. row.counts = [NoCounts EXCEPT !.total = Total]
    BY <1>2, <1>4 DEF Total
  <2> QED
    BY <1>2, <1>3, <1>4, <2>1, <2>2, <2>3 DEF WalkLaw, Indexed
<1>11. WalkLaw(Other(t))'
  BY <1>1, <1>8 DEF WalkLaw, Walks
<1>12. ToldLaw(c)'
  <2>1. ToldLaw(c) /\ ~StoredCompleted(c)
    BY <1>3, <1>5 DEF Lawful, ToldInv, StoredCompleted
  <2> QED
    BY <1>1, <1>3, <1>5, <2>1 DEF ToldLaw
<1>13. LawsOf(c)'
  BY <1>6, <1>7, <1>9, <1>10, <1>11, <1>12, WalkersPair DEF LawsOf
<1>14. \A d \in RepoCalls \ {c} : Held(d) => ScanId(d) # ScanId(c)
  BY DEF Begun
<1> QED
  BY <1>1, <1>3, <1>13, <1>14, FrameKeeps

LEMMA HasReadKeeps ==
    ASSUME Lawful, NEW t \in Walkers, ThreadStep(t), NEW f \in Files, HasRead(t, f)
    PROVE  HeldInv' /\ OneWalk' /\ WalkInv' /\ StoredInv' /\ ToldInv' /\ NothingOutlives'
<1> DEFINE c == t[1]
           read == Discover \ walker[t].left
<1>1. /\ FrameOf(c) /\ walker'[Other(t)] = walker[Other(t)] /\ Other(t)' = Other(t)
      /\ \A d \in RepoCalls : /\ StillThere(d)' <=> StillThere(d)
                              /\ StoredCompleted(d)' <=> StoredCompleted(d)
  <2>1. UNCHANGED pending \/ \E row : pending' = [pending EXCEPT ![t[1]] = row]
    BY DEF HasRead
  <2> QED
    BY <2>1, ThreadFrame DEF HasRead, Lawful
<1>2. /\ c \in RepoCalls /\ (IsTool(c)' <=> IsTool(c)) /\ ScanId(c)' = ScanId(c)
      /\ UNCHANGED <<scans, unusable, ask, connection>>
  BY <1>1, WalkersPair DEF FrameOf, HasRead
<1>3. Held(c) => /\ pending'[c].of = pending[c].of /\ pending'[c].status = pending[c].status
                 /\ pending'[c].counts = pending[c].counts /\ pending'[c] \in ScanRow
                 /\ DOMAIN pending'[c].index = DOMAIN pending[c].index \cup {f}
                 /\ pending'[c].index[f].status = Recorded(f)
                 /\ \A g \in DOMAIN pending[c].index :
                       g # f => pending'[c].index[g] = pending[c].index[g]
  <2>1. pending \in [RepoCalls -> ScanRow \cup {NoScan}]
    BY DEF Lawful, Typed
  <2>2. ASSUME NEW row \in ScanRow, pending' = [pending EXCEPT ![c] = row]  PROVE pending'[c] = row
    BY <1>2, <2>1, <2>2
  <2> QED
    BY <2>2 DEF HasRead
<1>4. Held(c)' <=> Held(c)
  <2>1. CASE Held(c)
    BY <1>3, <2>1, RowsAreRows DEF Held
  <2>2. CASE ~Held(c)
    BY <2>2 DEF Held, HasRead
  <2> QED
    BY <2>1, <2>2
<1>5. Known(c)' <=> Known(c)
  BY <1>2, <1>4 DEF Known
<1>6. Walks(t) /\ Walks(t)' /\ f \in walker[t].left
  BY DEF HasRead, Walks
<1>7. TurnLaw(t) /\ WalkLaw(t) /\ HeldLaw(c) /\ ToldLaw(c)
  BY <1>2 DEF Lawful, OneWalk, WalkInv, HeldInv, ToldInv
<1>8. HeldLaw(c)'
  BY <1>1, <1>2, <1>3, <1>4, <1>7 DEF HeldLaw
<1>9. DoneLaw(c)'
  BY <1>3, <1>4, <1>6, <1>7 DEF DoneLaw, WalkLaw
<1>10. TurnLaw(t)' /\ TurnLaw(Other(t))' /\ WalkLaw(Other(t))'
  <2>1. ~Walks(Other(t))' /\ (Before(Other(t))' <=> Before(Other(t)))
    BY <1>1, <1>6, <1>7 DEF TurnLaw, Walks, Before
  <2>2. TurnLaw(t)'
    BY <1>1, <1>2, <1>5, <1>6, <1>7, <2>1 DEF TurnLaw
  <2> QED
    BY <2>1, <2>2 DEF TurnLaw, WalkLaw
<1>11. WalkLaw(t)'
  <2>1. f \in Discover /\ walker[t].left \subseteq Discover /\ walker'[t].left = walker[t].left \ {f}
    BY <1>6, <1>7 DEF WalkLaw, HasRead
  <2>2. Discover \ walker'[t].left = read \cup {f} /\ f \notin read /\ read \in SUBSET Files
    BY <1>6, <2>1, FilesAreFinite
  <2>3. walker'[t].counts = Tally(read \cup {f})
    <3>1. walker[t].counts = Tally(read)
      BY <1>6, <1>7 DEF WalkLaw
    <3> HIDE DEF read
    <3> QED
      BY <2>2, <3>1, TallyGrows DEF HasRead
  <2>4. Held(c) => Indexed(pending[c], read)' \/ Indexed(pending[c], read)
    BY <1>6, <1>7 DEF WalkLaw
  <2>5. Held(c) => /\ DOMAIN pending'[c].index = read \cup {f}
                   /\ \A g \in read \cup {f} : pending'[c].index[g].status = Recorded(g)
    <3>1. Held(c) => Indexed(pending[c], read)
      BY <1>6, <1>7 DEF WalkLaw
    <3> HIDE DEF read
    <3> QED
      BY <1>3, <3>1 DEF Indexed
  <2> HIDE DEF read
  <2> QED
    BY <1>2, <1>3, <1>4, <1>6, <1>7, <2>1, <2>2, <2>3, <2>5 DEF WalkLaw, Indexed
<1>12. ToldLaw(c)'
  BY <1>1, <1>2, <1>3, <1>4, <1>7 DEF ToldLaw
<1>13. LawsOf(c)'
  BY <1>8, <1>9, <1>10, <1>11, <1>12, WalkersPair DEF LawsOf
<1> QED
  BY <1>1, <1>2, <1>4, <1>13, FrameKeeps

LEMMA EndedKeeps ==
    ASSUME Lawful, NEW t \in Walkers, ThreadStep(t), NEW status \in {"completed", "failed"},
           Ended(t, status)
    PROVE  HeldInv' /\ OneWalk' /\ WalkInv' /\ StoredInv' /\ ToldInv' /\ NothingOutlives'
<1> DEFINE c == t[1]
<1>1. /\ FrameOf(c) /\ walker'[Other(t)] = walker[Other(t)] /\ Other(t)' = Other(t)
      /\ \A d \in RepoCalls : /\ StillThere(d)' <=> StillThere(d)
                              /\ StoredCompleted(d)' <=> StoredCompleted(d)
  <2>1. UNCHANGED pending \/ \E row : pending' = [pending EXCEPT ![t[1]] = row]
    BY DEF Ended
  <2> QED
    BY <2>1, ThreadFrame DEF Ended, Lawful
<1>2. /\ c \in RepoCalls /\ (IsTool(c)' <=> IsTool(c)) /\ ScanId(c)' = ScanId(c)
      /\ UNCHANGED <<scans, unusable, connection>> /\ ask'[c].about = ask[c].about
  BY <1>1, WalkersPair DEF FrameOf, Ended, ThreadStep
<1>3. TurnLaw(t) /\ WalkLaw(t) /\ HeldLaw(c) /\ ToldLaw(c) /\ Walks(t)
  BY <1>2 DEF Lawful, OneWalk, WalkInv, HeldInv, ToldInv, Ended, Walks
<1>4. ~Walks(t)' /\ ~Before(t)' /\ ~Walks(Other(t))'
  BY <1>1, <1>3 DEF TurnLaw, Ended, Left, Walks, Before
<1>5. /\ Held(c)' => /\ Held(c) /\ ask[c].at # "over" /\ pending'[c].of = pending[c].of
                     /\ pending'[c].status = status /\ pending'[c].index = pending[c].index
                     /\ status = "completed" => pending'[c].counts =
                           [walker[t].counts EXCEPT !.total = pending[c].counts.total]
      /\ Held(c) /\ ask[c].at # "over" => Held(c)'
  <2>1. pending \in [RepoCalls -> ScanRow \cup {NoScan}] /\ NoScan \notin ScanRow
    BY RowsAreRows DEF Lawful, Typed
  <2>2. \A row : pending' = [pending EXCEPT ![c] = row] => pending'[c] = row
    BY <1>2, <2>1
  <2>3. CASE ~Held(c) /\ UNCHANGED pending
    BY <2>3 DEF Held
  <2>4. CASE ask[c].at = "over" /\ pending' = [pending EXCEPT ![c] = NoScan]
    BY <2>2, <2>4 DEF Held
  <2>5. CASE /\ Held(c) /\ ask[c].at # "over"
             /\ \E row \in ScanRow :
                   /\ row.of = pending[c].of /\ row.status = status
                   /\ row.index = pending[c].index
                   /\ status = "completed" =>
                         row.counts = [walker[t].counts EXCEPT !.total = pending[c].counts.total]
                   /\ pending' = [pending EXCEPT ![c] = row]
    BY <2>1, <2>2, <2>5 DEF Held
  <2> QED
    BY <2>3, <2>4, <2>5 DEF Ended
<1>6. HeldLaw(c)'
  BY <1>1, <1>2, <1>3, <1>5 DEF HeldLaw
<1>7. DoneLaw(c)'
  <2> SUFFICES ASSUME Held(c)', status = "completed"  PROVE Full(pending[c])'
    BY <1>5 DEF DoneLaw
  <2>1. walker[t].left = {} /\ Discover \ walker[t].left = Discover
    BY DEF Ended
  <2>2. /\ walker[t].counts = Tally(Discover) /\ Indexed(pending[c], Discover)
        /\ pending[c].counts = [NoCounts EXCEPT !.total = Total]
    BY <1>3, <1>5, <2>1 DEF WalkLaw
  <2>3. pending[c].counts.total = Total
    BY <2>2 DEF NoCounts, CountColumns
  <2> QED
    BY <1>5, <2>2, <2>3 DEF Full, Indexed
<1>8. TurnLaw(t)' /\ TurnLaw(Other(t))' /\ WalkLaw(t)' /\ WalkLaw(Other(t))'
  BY <1>4 DEF TurnLaw, WalkLaw
<1>9. ToldLaw(c)'
  <2>1. CASE UNCHANGED ask
    BY <1>1, <1>2, <1>3, <1>5, <2>1 DEF ToldLaw, WalkLaw
  <2>2. CASE ask[c].at = "open" /\ ask'[c].at = "answered" /\ ask'[c].verdict = status
    <3>1. status = "completed" => c \notin unusable
      BY DEF Ended
    <3> QED
      BY <1>2, <1>3, <1>5, <2>2, <3>1 DEF ToldLaw, WalkLaw
  <2> QED
    BY <2>1, <2>2 DEF Ended, Left, Heard
<1>10. LawsOf(c)'
  BY <1>6, <1>7, <1>8, <1>9, WalkersPair DEF LawsOf
<1> QED
  BY <1>1, <1>2, <1>5, <1>10, FrameKeeps

-----------------------------------------------------------------------------
(* The calls of a tool keep them.                                           *)

\* An attempt that starts, or a tool that gives up waiting, moves nothing that is stored.
LEMMA StartKeeps ==
    ASSUME Lawful, NEW c \in RepoCalls, ToolSteps(c), ask[c].at # "answered"
    PROVE  HeldInv' /\ OneWalk' /\ WalkInv' /\ StoredInv' /\ ToldInv' /\ NothingOutlives'
<1>1. /\ IsTool(c) /\ \A d \in RepoCalls \ {c} : ask'[d] = ask[d]
      /\ \A d \in RepoCalls : (IsTool(d)' <=> IsTool(d)) /\ ScanId(d)' = ScanId(d)
      /\ UNCHANGED <<checkout, connection, scans, matchings, pending, unusable>>
      /\ ask[c].at \in {"waiting", "open"}
  BY ToolMoves, AskTyped, ErrandsStay DEF Lawful
<1>2. /\ \/ ask[c].at = "waiting" /\ ask'[c].at = "open"
         \/ ask[c].at = "open" /\ ask'[c].at = "open" /\ ask'[c].about = ask[c].about
         \/ ask[c].at = "open" /\ ask'[c].at = "answered" /\ ask'[c].verdict = "failed"
            /\ ask'[c].about = ask[c].about
      /\ \A t \in Walkers : t[1] # c => walker'[t] = walker[t]
      /\ \A t \in Walkers : (Walks(t)' => walker'[t] = walker[t]) /\ (Before(t)' <=> Before(t))
  <2>1. walker \in [Walkers -> WalkerRow]
    BY DEF Lawful, Typed
  <2>2. <<c, 1>> \in Walkers /\ <<c, 2>> \in Walkers /\ <<c, 1>>[1] = c /\ <<c, 2>>[1] = c
    BY DEF Walkers
  <2>3. ASSUME NEW w \in Walkers, w[1] = c, walker[w].at = "idle",
               walker' = [walker EXCEPT ![w].at = "look"]
        PROVE  /\ \A t \in Walkers : t[1] # c => walker'[t] = walker[t]
               /\ \A t \in Walkers : (Walks(t)' => walker'[t] = walker[t]) /\ (Before(t)' <=> Before(t))
    <3>1. walker'[w].at = "look" /\ \A t \in Walkers \ {w} : walker'[t] = walker[t]
      BY <2>1, <2>3 DEF WalkerRow
    <3> QED
      BY <2>3, <3>1 DEF Walks, Before
  <2>4. /\ ask[c].at = "waiting" => walker[<<c, 1>>].at = "idle"
        /\ ask[c].attempt = 1 => walker[<<c, 2>>].at = "idle"
    BY <2>2 DEF Lawful, RoleInv
  <2>5. CASE ask[c].at = "waiting"
    <3>1. walker' = [walker EXCEPT ![<<c, 1>>].at = "look"] /\ ask'[c].at = "open"
      BY <2>5, ToolMoves DEF Lawful
    <3> QED
      BY <2>2, <2>3, <2>4, <2>5, <3>1
  <2>6. CASE ask[c].at = "open" /\ ask'[c].at = "open"
    <3>1. /\ walker' = [walker EXCEPT ![<<c, 2>>].at = "look"] /\ ask[c].attempt = 1
          /\ ask'[c].about = ask[c].about
      BY <2>6, ToolMoves DEF Lawful
    <3> QED
      BY <2>2, <2>3, <2>4, <2>6, <3>1
  <2>7. CASE ask[c].at = "open" /\ ask'[c].at # "open"
    <3>1. /\ UNCHANGED walker /\ ask'[c].at = "answered" /\ ask'[c].verdict = "failed"
          /\ ask'[c].about = ask[c].about
      BY <2>7, ToolMoves DEF Lawful
    <3> QED
      BY <2>7, <3>1 DEF Walks, Before
  <2> QED
    BY <1>1, <2>5, <2>6, <2>7
<1>3. FrameOf(c)
  BY <1>1, <1>2 DEF FrameOf
<1>4. (Held(c)' <=> Held(c)) /\ (Known(c)' <=> Known(c)) /\ (Held(c) => ask[c].at = "open")
  BY <1>1 DEF Held, Known, Lawful, RoleInv
<1>5. ask[c].at = "open" => ask'[c].about = ask[c].about /\ (StillThere(c)' <=> StillThere(c))
  BY <1>1, <1>2 DEF StillThere
<1>6. HeldLaw(c)' /\ DoneLaw(c)' /\ ToldLaw(c)'
  <2>1. HeldLaw(c) /\ DoneLaw(c)
    BY DEF Lawful, HeldInv, WalkInv
  <2>2. HeldLaw(c)'
    BY <1>1, <1>4, <1>5, <2>1 DEF HeldLaw
  <2>3. DoneLaw(c)'
    BY <1>1, <1>4, <2>1 DEF DoneLaw, Full, Indexed
  <2>4. ToldLaw(c)'
    BY <1>2 DEF ToldLaw
  <2> QED
    BY <2>2, <2>3, <2>4
<1>7. ASSUME NEW t \in Walkers, t[1] = c  PROVE TurnLaw(t)' /\ WalkLaw(t)'
  <2>1. Other(t) \in Walkers /\ Other(t)' = Other(t)
    BY WalkersPair DEF Other
  <2>2. TurnLaw(t) /\ WalkLaw(t)
    BY DEF Lawful, OneWalk, WalkInv
  <2> SUFFICES ASSUME Walks(t)'  PROVE TurnLaw(t)' /\ WalkLaw(t)'
    BY DEF TurnLaw, WalkLaw
  <2>3. walker'[t] = walker[t] /\ Walks(t) /\ (Walks(Other(t))' => Walks(Other(t)))
        /\ (Before(Other(t))' <=> Before(Other(t)))
    BY <1>2, <2>1 DEF Walks
  <2>4. ask[c].at = "open"
    BY <1>1, <1>7, <2>3 DEF Lawful, RoleInv, Walks
  <2>5. TurnLaw(t)'
    BY <1>4, <1>5, <1>7, <2>1, <2>2, <2>3, <2>4 DEF TurnLaw
  <2>6. WalkLaw(t)'
    BY <1>1, <1>4, <1>7, <2>2, <2>3, <2>4 DEF WalkLaw, Indexed
  <2> QED
    BY <2>5, <2>6
<1>8. LawsOf(c)'
  BY <1>6, <1>7 DEF LawsOf
<1> QED
  BY <1>3, <1>4, <1>8, FrameKeeps

\* The orchestrator commits what the session holds.
LEMMA CommitKeeps ==
    ASSUME Lawful, NEW c \in RepoCalls, ToolSteps(c), ask[c].at = "answered"
    PROVE  HeldInv' /\ OneWalk' /\ WalkInv' /\ StoredInv' /\ ToldInv' /\ NothingOutlives'
<1> DEFINE stored == Held(c) /\ c \notin unusable
<1>1. /\ IsTool(c) /\ \A d \in RepoCalls \ {c} : ask'[d] = ask[d]
      /\ \A d \in RepoCalls : (IsTool(d)' <=> IsTool(d)) /\ ScanId(d)' = ScanId(d)
      /\ ask'[c].at = "over" /\ ask'[c].about = ask[c].about
      /\ ask'[c].verdict = IF c \in unusable THEN "error" ELSE ask[c].verdict
      /\ scans' = IF stored THEN Stores(scans, ScanId(c), pending[c]) ELSE scans
      /\ pending' = [pending EXCEPT ![c] = NoScan] /\ unusable' = unusable \ {c}
      /\ UNCHANGED <<checkout, connection, matchings, walker>>
  BY ToolMoves, AskTyped, ErrandsStay DEF Lawful
<1>2. /\ ~Held(c)' /\ \A d \in RepoCalls : d # c => /\ pending'[d] = pending[d] /\ (Held(d)' <=> Held(d))
                                                    /\ (d \in unusable' <=> d \in unusable)
      /\ \A d \in RepoCalls : StillThere(d)' <=> StillThere(d)
  BY <1>1 DEF Held, Lawful, Typed, StillThere
<1>3. HeldLaw(c) /\ ToldLaw(c) /\ DoneLaw(c)
  BY DEF Lawful, HeldInv, ToldInv, WalkInv
<1>4. /\ DOMAIN scans' = DOMAIN scans \cup (IF stored THEN {ScanId(c)} ELSE {})
      /\ \A i \in DOMAIN scans : scans'[i] = scans[i]
      /\ stored => scans'[ScanId(c)] = pending[c] /\ ScanId(c) \notin DOMAIN scans
                   /\ StillThere(c) /\ pending[c].of = connection.number
  BY <1>1, <1>3 DEF Stores, HeldLaw, StillThere
<1>5. HeldInv'
  <2>1. ASSUME NEW d \in RepoCalls, d # c, Held(d)  PROVE ScanId(d) \notin DOMAIN scans'
    BY <1>4, <2>1 DEF Lawful, HeldInv, HeldLaw
  <2>2. \A d \in RepoCalls : d # c => HeldLaw(d)'
    BY <1>1, <1>2, <2>1 DEF Lawful, HeldInv, HeldLaw
  <2>3. HeldLaw(c)'
    BY <1>2 DEF HeldLaw
  <2>4. ASSUME NEW d \in RepoCalls, NEW e \in RepoCalls \ {d}, Held(d)', Held(e)'
        PROVE  ScanId(e)' # ScanId(d)'
    BY <1>1, <1>2, <2>4 DEF Lawful, HeldInv
  <2> QED
    BY <2>2, <2>3, <2>4 DEF HeldInv
<1>6. \A d \in RepoCalls : Known(d) => Known(d)'
  <2>1. Known(c) => Known(c)'
    BY <1>1, <1>3, <1>4 DEF Known, HeldLaw
  <2>2. \A d \in RepoCalls : d # c /\ Known(d) => Known(d)'
    BY <1>1, <1>2, <1>4 DEF Known
  <2> QED
    BY <2>1, <2>2
<1>7. OneWalk'
  <2>1. ASSUME NEW t \in Walkers  PROVE TurnLaw(t)'
    <3>1. Other(t)' = Other(t) /\ t[1] \in RepoCalls /\ TurnLaw(t)
      BY WalkersPair DEF Other, Lawful, OneWalk
    <3> QED
      BY <1>1, <1>2, <1>6, <3>1 DEF TurnLaw, Walks, Before
  <2> QED
    BY <2>1 DEF OneWalk
<1>8. WalkInv'
  <2>1. ASSUME NEW t \in Walkers  PROVE WalkLaw(t)'
    <3>1. t[1] \in RepoCalls /\ WalkLaw(t)
      BY WalkersPair DEF Lawful, WalkInv
    <3>2. CASE t[1] = c
      BY <1>1, <1>2, <3>1, <3>2 DEF WalkLaw, Walks
    <3>3. CASE t[1] # c
      <4>1. /\ ask'[t[1]] = ask[t[1]] /\ pending'[t[1]] = pending[t[1]] /\ (Held(t[1])' <=> Held(t[1]))
            /\ (t[1] \in unusable' <=> t[1] \in unusable) /\ walker'[t] = walker[t]
        BY <1>1, <1>2, <3>1, <3>3
      <4> QED
        BY <3>1, <4>1 DEF WalkLaw, Walks, Indexed
    <3> QED
      BY <3>2, <3>3
  <2>2. ASSUME NEW d \in RepoCalls  PROVE DoneLaw(d)'
    BY <1>2 DEF Lawful, WalkInv, DoneLaw, Full, Indexed
  <2> QED
    BY <2>1, <2>2 DEF WalkInv
<1>9. StoredInv'
  <2>1. stored => ScanId(c) \notin RepoCalls
    BY <1>1, ErrandsAreTyped DEF Lawful
  <2>2. ASSUME NEW s \in DOMAIN scans'
        PROVE  /\ s \in RepoCalls => DOMAIN scans'[s].index = {} /\ scans'[s].counts = NoCounts
               /\ s \notin RepoCalls /\ scans'[s].status = "completed" => Full(scans'[s])
    <3>1. CASE s \in DOMAIN scans
      BY <1>4, <3>1 DEF Lawful, StoredInv
    <3>2. CASE s \notin DOMAIN scans
      <4>1. stored /\ s = ScanId(c) /\ scans'[s] = pending[c]
        BY <1>4, <2>2, <3>2
      <4> QED
        BY <1>3, <2>1, <4>1 DEF DoneLaw
    <3> QED
      BY <3>1, <3>2
  <2>3. \A row : Full(row)' <=> Full(row)
    BY DEF Full, Indexed
  <2> QED
    BY <2>2, <2>3 DEF StoredInv, Full, Indexed
<1>10. ToldInv'
  <2>1. \A d \in RepoCalls : StoredCompleted(d) => StoredCompleted(d)'
    BY <1>1, <1>4 DEF StoredCompleted
  <2>2. ToldLaw(c)'
    <3>1. stored /\ pending[c].status = "completed" => StoredCompleted(c)'
      BY <1>1, <1>4 DEF StoredCompleted
    <3> QED
      BY <1>1, <1>2, <1>3, <2>1, <3>1 DEF ToldLaw
  <2>3. \A d \in RepoCalls : d # c => ToldLaw(d)'
    BY <1>1, <1>2, <2>1 DEF Lawful, ToldInv, ToldLaw
  <2> QED
    BY <2>2, <2>3 DEF ToldInv
<1>11. NothingOutlives'
  <2>1. \A s \in DOMAIN scans' : connection' # NoConnection /\ scans'[s].of = connection'.number
    BY <1>1, <1>4 DEF Lawful, NothingOutlives, StillThere
  <2> QED
    BY <1>1, <1>4, <2>1 DEF Lawful, NothingOutlives
<1> QED
  BY <1>5, <1>7, <1>8, <1>9, <1>10, <1>11

-----------------------------------------------------------------------------
(* The routes keep them.                                                    *)

\* What a route leaves of the scans of agents and of the connections they name.
LEMMA RouteSpares ==
    ASSUME Lawful, NEW c \in RepoCalls, RouteSteps(c)
    PROVE  /\ \/ \A i : i \notin RepoCalls =>
                    /\ i \in DOMAIN scans' <=> i \in DOMAIN scans
                    /\ i \in DOMAIN scans => scans'[i] = scans[i]
              \/ connection' = NoConnection /\ DOMAIN scans' = {}
           /\ \A d \in RepoCalls : IsTool(d) /\ ask[d].at # "waiting" =>
                 /\ ask'[d] = ask[d]
                 /\ Held(d) => StillThere(d)'
                 /\ StillThere(d) => StillThere(d)' \/ connection' = NoConnection
                 /\ ~StillThere(d) => ~StillThere(d)'
<1>1. ~IsTool(c) /\ \A d \in RepoCalls \ {c} : ask'[d] = ask[d]
  BY RouteMoves, AskTyped DEF Lawful
<1>2. \/ \A i : i \notin RepoCalls =>
                /\ i \in DOMAIN scans' <=> i \in DOMAIN scans
                /\ i \in DOMAIN scans => scans'[i] = scans[i]
      \/ connection' = NoConnection /\ DOMAIN scans' = {}
  <2>1. CASE UNCHANGED scans
    BY <2>1
  <2>2. CASE connection' = NoConnection /\ scans' = << >>
    BY <2>2
  <2>3. CASE \E row : scans' = Stores(scans, c, row)
    BY <2>3 DEF Stores
  <2>4. CASE c \in DOMAIN scans /\ scans' = [scans EXCEPT ![c].status = "completed"]
    BY <2>4
  <2> QED
    BY <2>1, <2>2, <2>3, <2>4, RouteRows DEF Lawful
<1>3. ASSUME NEW d \in RepoCalls, IsTool(d), ask[d].at # "waiting"
      PROVE  /\ ask'[d] = ask[d]
             /\ Held(d) => StillThere(d)'
             /\ StillThere(d) => StillThere(d)' \/ connection' = NoConnection
             /\ ~StillThere(d) => ~StillThere(d)'
  <2>1. ask'[d] = ask[d]
    BY <1>1, <1>3
  <2>2. Held(d) => StillThere(d) /\ pending[d].of = connection.number
    BY DEF Lawful, HeldInv, HeldLaw, StillThere
  <2>3. connection \in ConnectionRow => connection # NoConnection
    BY RowsAreRows
  <2>4. CASE connection' # NoConnection /\ connection # NoConnection
             /\ connection'.number = connection.number
    BY <2>1, <2>2, <2>4 DEF StillThere
  <2>5. CASE UNCHANGED connection
    BY <2>1, <2>2, <2>5 DEF StillThere
  <2>6. CASE connection = NoConnection /\ connection'.number = c /\ ask[c].at = "commit"
    <3>1. ask[d].about # c
      BY <1>3, <2>6 DEF Lawful, NumberInv, Spent
    <3> QED
      BY <2>1, <2>2, <2>6, <3>1 DEF StillThere
  <2>7. CASE connection' = NoConnection /\ \A e \in RepoCalls : Held(e) => pending[e].of # connection.number
    BY <2>1, <2>2, <2>7 DEF StillThere
  <2>8. CASE connection \in ConnectionRow /\ connection' = [connection EXCEPT !.last = c]
    <3>1. connection' \in ConnectionRow /\ connection'.number = connection.number
      BY <2>8 DEF ConnectionRow
    <3> QED
      BY <2>3, <2>4, <2>8, <3>1, RowsAreRows
  <2> QED
    BY <2>1, <2>3, <2>4, <2>5, <2>6, <2>7, <2>8, RouteRows, RowsAreRows DEF Lawful
<1> QED
  BY <1>2, <1>3

LEMMA RouteScans ==
    ASSUME Lawful, NEW c \in RepoCalls, RouteSteps(c)
    PROVE  StoredInv' /\ NothingOutlives'
<1>1. connection \in ConnectionRow => connection # NoConnection
  BY RowsAreRows
<1>2. StoredInv /\ NothingOutlives
  BY DEF Lawful
<1>3. \A row : Full(row)' <=> Full(row)
  BY DEF Full, Indexed
<1>4. CASE UNCHANGED <<connection, scans, matchings>>
  BY <1>2, <1>3, <1>4 DEF StoredInv, NothingOutlives
<1>5. CASE connection = NoConnection /\ connection'.last = NoScan /\ UNCHANGED <<scans, matchings>>
  <2>1. DOMAIN scans = {} /\ DOMAIN matchings = {}
    BY <1>2, <1>5 DEF NothingOutlives
  <2> QED
    BY <1>5, <2>1 DEF StoredInv, NothingOutlives
<1>6. CASE /\ connection \in ConnectionRow /\ connection' \in ConnectionRow
           /\ connection'.number = connection.number /\ connection'.last = connection.last
           /\ UNCHANGED <<scans, matchings>>
  <2>1. connection' # NoConnection
    BY <1>6, RowsAreRows
  <2>2. StoredInv'
    BY <1>2, <1>3, <1>6 DEF StoredInv
  <2>3. NothingOutlives'
    BY <1>1, <1>2, <1>6, <2>1 DEF NothingOutlives
  <2> QED
    BY <2>2, <2>3
<1>7. CASE connection' = NoConnection /\ scans' = << >> /\ matchings' = << >>
  <2>1. DOMAIN scans' = {} /\ DOMAIN matchings' = {}
    BY <1>7
  <2> QED
    BY <1>7, <2>1 DEF StoredInv, NothingOutlives
<1>8. CASE /\ connection \in ConnectionRow /\ UNCHANGED <<connection, matchings>>
           /\ scans' = Stores(scans, c, NewScan(connection.number, NoScan))
  <2> DEFINE row == NewScan(connection.number, NoScan)
  <2>1. connection.number \in Numbers
    BY <1>8 DEF ConnectionRow
  <2>2. row.of = connection.number /\ DOMAIN row.index = {} /\ row.counts = NoCounts
    BY <2>1, NewScanIsRow
  <2> HIDE DEF row
  <2>3. /\ DOMAIN scans' = DOMAIN scans \cup {c} /\ scans'[c] = row
        /\ \A i \in DOMAIN scans : i # c => scans'[i] = scans[i]
    BY <1>8 DEF Stores, row
  <2>4. StoredInv'
    BY <1>2, <1>3, <2>2, <2>3 DEF StoredInv
  <2>5. NothingOutlives'
    <3>1. \A s \in DOMAIN scans' : connection' # NoConnection /\ scans'[s].of = connection'.number
      BY <1>1, <1>2, <1>8, <2>2, <2>3 DEF NothingOutlives
    <3> QED
      BY <1>2, <1>8, <2>3, <3>1 DEF NothingOutlives
  <2> QED
    BY <2>4, <2>5
<1>9. CASE /\ connection \in ConnectionRow /\ c \in DOMAIN scans
           /\ scans' = [scans EXCEPT ![c].status = "completed"]
           /\ connection' = [connection EXCEPT !.last = c] /\ UNCHANGED matchings
  <2>1. scans[c] \in ScanRow
    BY <1>9 DEF Lawful, Typed
  <2>2. /\ DOMAIN scans' = DOMAIN scans /\ \A i \in DOMAIN scans : i # c => scans'[i] = scans[i]
        /\ scans'[c].of = scans[c].of /\ scans'[c].index = scans[c].index
        /\ scans'[c].counts = scans[c].counts
    BY <1>9, <2>1 DEF ScanRow
  <2>3. /\ connection' \in ConnectionRow /\ connection'.number = connection.number
        /\ connection'.last = c
    BY <1>9 DEF ConnectionRow
  <2>4. StoredInv'
    BY <1>2, <1>3, <2>2 DEF StoredInv
  <2>5. NothingOutlives'
    <3>1. connection' # NoConnection /\ connection # NoConnection
      BY <1>1, <1>9, <2>3, RowsAreRows
    <3>2. \A s \in DOMAIN scans' : scans'[s].of = connection'.number
      BY <1>2, <2>2, <2>3 DEF NothingOutlives
    <3> QED
      BY <1>2, <1>9, <2>2, <2>3, <3>1, <3>2 DEF NothingOutlives
  <2> QED
    BY <2>4, <2>5
<1>10. CASE /\ UNCHANGED <<connection, scans>>
            /\ \E s \in DOMAIN scans :
                  matchings' = Stores(matchings, c, [scan |-> s, status |-> "running"])
  <2>1. \A m \in DOMAIN matchings' : matchings'[m].scan \in DOMAIN scans
    BY <1>2, <1>10 DEF NothingOutlives, Stores
  <2> QED
    BY <1>2, <1>3, <1>10, <2>1 DEF StoredInv, NothingOutlives
<1>11. CASE /\ UNCHANGED <<connection, scans>> /\ c \in DOMAIN matchings
            /\ matchings' = [matchings EXCEPT ![c].status = "completed"]
  <2>1. \A m \in DOMAIN matchings' : matchings'[m].scan \in DOMAIN scans
    BY <1>2, <1>11 DEF NothingOutlives, Lawful, Typed
  <2> QED
    BY <1>2, <1>3, <1>11, <2>1 DEF StoredInv, NothingOutlives
<1> QED
  BY <1>4, <1>5, <1>6, <1>7, <1>8, <1>9, <1>10, <1>11, RouteRows DEF Lawful

LEMMA NamedRoute ==
    ASSUME Lawful, NEW c \in RepoCalls, RouteSteps(c)
    PROVE  NamedInv'
<1>1. /\ \A d \in RepoCalls : (IsTool(d)' <=> IsTool(d)) /\ ScanId(d)' = ScanId(d)
      /\ \A d \in RepoCalls : IsTool(d) => ask'[d] = ask[d] /\ ScanId(d) \notin RepoCalls
  BY RouteMoves, AskTyped, ErrandsStay, ErrandsAreTyped DEF Lawful
<1>2. connection' = NoConnection => DOMAIN scans' = {}
  BY RouteScans DEF NothingOutlives
<1>3. ASSUME NEW d \in RepoCalls, IsTool(d), ask[d].at # "waiting", ScanId(d) \in DOMAIN scans'
      PROVE  StillThere(d)'
  <2>1. ScanId(d) \in DOMAIN scans
    BY <1>1, <1>3, RouteSpares
  <2>2. StillThere(d)
    BY <1>3, <2>1 DEF Lawful, NamedInv
  <2> QED
    BY <1>2, <1>3, <2>2, RouteSpares
<1> QED
  BY <1>1, <1>3 DEF NamedInv

LEMMA NamedTool ==
    ASSUME Lawful, NEW c \in RepoCalls, ToolSteps(c)
    PROVE  NamedInv'
<1>1. /\ IsTool(c) /\ \A d \in RepoCalls \ {c} : ask'[d] = ask[d]
      /\ \A d \in RepoCalls : (IsTool(d)' <=> IsTool(d)) /\ ScanId(d)' = ScanId(d)
      /\ UNCHANGED connection
  BY ToolMoves, AskTyped, ErrandsStay DEF Lawful
<1>2. \A d \in RepoCalls \ {c} : StillThere(d)' <=> StillThere(d)
  BY <1>1 DEF StillThere
<1>3. CASE ask[c].at = "waiting"
  <2>1. /\ UNCHANGED scans /\ ask'[c].at # "waiting"
        /\ \/ Fellows(c) = {} /\ connection \in ConnectionRow /\ ask'[c].about = connection.number
           \/ Fellows(c) # {} /\ \A d \in Fellows(c) : ask'[c].about = ask[d].about
    BY <1>3, ToolMoves DEF Lawful
  <2>2. ScanId(c) \in DOMAIN scans => StillThere(c)'
    <3>1. CASE Fellows(c) = {}
      BY <1>1, <2>1, <3>1, RowsAreRows DEF StillThere
    <3>2. CASE Fellows(c) # {}
      <4>1. PICK d \in Fellows(c) : TRUE
        BY <3>2
      <4>2. ScanId(c) \in DOMAIN scans => StillThere(d)
        BY <4>1 DEF Lawful, NamedInv, Fellows
      <4> QED
        BY <1>1, <2>1, <3>2, <4>1, <4>2 DEF StillThere
    <3> QED
      BY <3>1, <3>2
  <2> QED
    BY <1>1, <1>2, <2>1, <2>2 DEF Lawful, NamedInv
<1>4. CASE ask[c].at # "waiting"
  <2>1. /\ ask'[c].about = ask[c].about
        /\ \/ scans' = scans
           \/ Held(c) /\ scans' = Stores(scans, ScanId(c), pending[c])
    BY <1>4, ToolMoves DEF Lawful
  <2>2. \A d \in RepoCalls : StillThere(d)' <=> StillThere(d)
    BY <1>1, <2>1 DEF StillThere
  <2>3. ASSUME NEW d \in RepoCalls, IsTool(d), ask[d].at # "waiting", ScanId(d) \in DOMAIN scans'
        PROVE  StillThere(d)
    <3>1. CASE ScanId(d) \in DOMAIN scans
      BY <2>3, <3>1 DEF Lawful, NamedInv
    <3>2. CASE ScanId(d) \notin DOMAIN scans
      <4>1. Held(c) /\ ScanId(d) = ScanId(c)
        BY <2>1, <2>3, <3>2 DEF Stores
      <4>2. StillThere(c) /\ d \in Fellows(c)
        BY <2>3, <4>1 DEF Lawful, HeldInv, HeldLaw, Fellows
      <4>3. ask[d].about = ask[c].about
        BY <1>1, <1>4, <4>2 DEF Lawful, NumberInv
      <4> QED
        BY <4>2, <4>3 DEF StillThere
    <3> QED
      BY <3>1, <3>2
  <2>4. \A d \in RepoCalls : ask'[d].at # "waiting" => ask[d].at # "waiting"
    BY <1>1, <1>4
  <2> QED
    BY <1>1, <2>2, <2>3, <2>4 DEF NamedInv
<1> QED
  BY <1>3, <1>4

LEMMA NamedThread ==
    ASSUME Lawful, NEW t \in Walkers, WalkerSteps(t)
    PROVE  NamedInv'
<1>1. /\ t[1] \in RepoCalls /\ \A d \in RepoCalls \ {t[1]} : ask'[d] = ask[d]
      /\ \A d \in RepoCalls : (IsTool(d)' <=> IsTool(d)) /\ ScanId(d)' = ScanId(d)
      /\ UNCHANGED <<connection, scans>> /\ ask'[t[1]].about = ask[t[1]].about
  BY ThreadMoves, AskTyped, ErrandsStay DEF ThreadStep, Lawful
<1>2. UNCHANGED ask \/ ask[t[1]].at = "open"
  BY ThreadMoves DEF Looked, Barred, Begun, HasRead, Ended, GaveUp, Left, Heard, Lawful
<1>3. \A d \in RepoCalls : /\ StillThere(d)' <=> StillThere(d)
                           /\ ask'[d].at # "waiting" => ask[d].at # "waiting"
  BY <1>1, <1>2 DEF StillThere
<1> QED
  BY <1>1, <1>3 DEF Lawful, NamedInv

LEMMA ThreadKeeps ==
    ASSUME Lawful, NEW t \in Walkers, WalkerSteps(t)
    PROVE  Lawful'
<1>1. Typed /\ RoleInv /\ NumberInv
  BY DEF Lawful
<1>2. Typed' /\ RoleInv' /\ NumberInv'
  BY <1>1, TypedThread, RoleThread, NumberThread
<1>3. HeldInv' /\ OneWalk' /\ WalkInv' /\ StoredInv' /\ ToldInv' /\ NothingOutlives'
  BY <1>1, ThreadMoves, LookedKeeps, BarredKeeps, BegunKeeps, GaveUpKeeps, HasReadKeeps, EndedKeeps
<1> QED
  BY <1>2, <1>3, NamedThread DEF Lawful

LEMMA ToolKeeps ==
    ASSUME Lawful, NEW c \in RepoCalls, ToolSteps(c)
    PROVE  Lawful'
<1>1. Typed' /\ RoleInv' /\ NumberInv'
  BY TypedTool, RoleTool, NumberTool DEF Lawful
<1> QED
  BY <1>1, StartKeeps, CommitKeeps, NamedTool DEF Lawful

LEMMA RouteKeeps ==
    ASSUME Lawful, NEW c \in RepoCalls, RouteSteps(c)
    PROVE  Lawful'
<1>1. Typed' /\ RoleInv' /\ NumberInv' /\ StoredInv' /\ NothingOutlives'
  BY TypedRoute, RoleRoute, NumberRoute, RouteScans DEF Lawful
<1>2. /\ \A d \in RepoCalls : (IsTool(d)' <=> IsTool(d)) /\ ScanId(d)' = ScanId(d)
      /\ UNCHANGED <<pending, unusable, walker>>
      /\ \A d \in RepoCalls : IsTool(d) => ask'[d] = ask[d]
  BY RouteMoves, AskTyped, ErrandsStay DEF Lawful
<1>3. \A d \in RepoCalls : /\ Held(d)' <=> Held(d)
                           /\ Held(d) => IsTool(d) /\ ask[d].at # "waiting"
                           /\ IsTool(d) => ScanId(d) \notin RepoCalls
                           /\ IsTool(d) /\ ask[d].verdict = "completed"
                                 /\ ask[d].at \in {"answered", "over"} => ask[d].at # "waiting"
  BY <1>2, ErrandsAreTyped DEF Held, Lawful, RoleInv
<1>4. ASSUME NEW d \in RepoCalls, IsTool(d), ask[d].at # "waiting"
      PROVE  /\ ScanId(d) \in DOMAIN scans' => ScanId(d) \in DOMAIN scans
             /\ Known(d) => Known(d)' \/ ~StillThere(d)'
             /\ ~StillThere(d) => ~StillThere(d)'
             /\ StoredCompleted(d) => StoredCompleted(d)' \/ ~StillThere(d)'
  <2>1. connection' = NoConnection => ~StillThere(d)'
    BY DEF StillThere
  <2> QED
    BY <1>2, <1>3, <1>4, <2>1, RouteSpares DEF Known, StoredCompleted
<1>5. HeldInv'
  <2>1. ASSUME NEW d \in RepoCalls, Held(d)'  PROVE HeldLaw(d)'
    <3>1. Held(d) /\ IsTool(d) /\ ask[d].at # "waiting" /\ ask'[d] = ask[d] /\ HeldLaw(d)
      BY <1>2, <1>3, <2>1 DEF Lawful, HeldInv
    <3> QED
      BY <1>2, <1>4, <3>1, RouteSpares DEF HeldLaw
  <2> QED
    BY <1>2, <1>3, <2>1 DEF Lawful, HeldInv, HeldLaw
<1>6. \A t \in Walkers : Walks(t) => /\ t[1] \in RepoCalls /\ IsTool(t[1])
                                     /\ ask[t[1]].at # "waiting" /\ ask'[t[1]] = ask[t[1]]
  <2>1. \A t \in Walkers : t[1] \in RepoCalls
    BY WalkersPair
  <2> QED
    BY <1>2, <2>1 DEF Lawful, RoleInv, Walks
<1>7. OneWalk'
  <2>1. ASSUME NEW t \in Walkers, Walks(t)'  PROVE TurnLaw(t)'
    <3>1. Walks(t) /\ TurnLaw(t) /\ Other(t)' = Other(t)
      BY <1>2, <2>1 DEF Lawful, OneWalk, Walks, Other
    <3>2. /\ Walks(Other(t))' <=> Walks(Other(t))
          /\ Before(Other(t))' <=> Before(Other(t))
      BY <1>2, <3>1 DEF Walks, Before
    <3>3. /\ Known(t[1]) => Known(t[1])' \/ ~StillThere(t[1])'
          /\ ~StillThere(t[1]) => ~StillThere(t[1])'
      BY <1>4, <1>6, <3>1
    <3> QED
      BY <3>1, <3>2, <3>3 DEF TurnLaw
  <2> QED
    BY <2>1 DEF OneWalk, TurnLaw
<1>8. WalkInv'
  <2>1. ASSUME NEW t \in Walkers, Walks(t)'  PROVE WalkLaw(t)'
    <3>1. Walks(t) /\ WalkLaw(t)
      BY <1>2, <2>1 DEF Lawful, WalkInv, Walks
    <3> QED
      BY <1>2, <1>3, <1>6, <3>1 DEF WalkLaw, Indexed
  <2>2. \A d \in RepoCalls : DoneLaw(d)'
    BY <1>2, <1>3 DEF Lawful, WalkInv, DoneLaw, Full, Indexed
  <2> QED
    BY <2>1, <2>2 DEF WalkInv, WalkLaw
<1>9. ToldInv'
  <2>1. ASSUME NEW d \in RepoCalls, IsTool(d), ask[d].at # "waiting"  PROVE ToldLaw(d)'
    <3>1. ToldLaw(d)
      BY DEF Lawful, ToldInv
    <3> QED
      BY <1>2, <1>3, <1>4, <2>1, <3>1 DEF ToldLaw
  <2>2. \A d \in RepoCalls : IsTool(d) /\ ask[d].at = "waiting" => ToldLaw(d)'
    BY <1>2 DEF ToldLaw
  <2> QED
    BY <1>2, <2>1, <2>2 DEF ToldInv, ToldLaw
<1> QED
  BY <1>1, <1>5, <1>7, <1>8, <1>9, NamedRoute DEF Lawful

-----------------------------------------------------------------------------
(* The specification keeps them.                                            *)

LEMMA EditKeeps ==
    ASSUME Lawful, EditCheckout \/ UNCHANGED repoVars
    PROVE  Lawful'
<1>1. UNCHANGED <<connection, scans, matchings, pending, unusable, ask, walker>>
  BY DEF EditCheckout, repoVars
<1>2. Typed'
  <2>1. checkout' \in 0..MaxEdits
    BY RepositoryAssumption DEF EditCheckout, repoVars, Lawful, Typed
  <2> QED
    BY <1>1, <2>1 DEF Lawful, Typed
<1>3. RoleInv' /\ NumberInv'
  BY <1>1 DEF Lawful, RoleInv, NumberInv, IsTool, Wanted, Held, Before, Spent, Fellows, ScanId
<1>4. HeldInv' /\ OneWalk'
  <2>1. HeldInv'
    BY <1>1 DEF Lawful, HeldInv, HeldLaw, IsTool, Wanted, Held, ScanId, StillThere
  <2>2. OneWalk'
    BY <1>1 DEF Lawful, OneWalk, TurnLaw, Walks, Before, Other, Known, IsTool, Wanted, Held, ScanId,
                StillThere
  <2> QED
    BY <2>1, <2>2
<1>5. WalkInv' /\ StoredInv'
  BY <1>1 DEF Lawful, WalkInv, WalkLaw, DoneLaw, Walks, StoredInv, Full, Indexed, Held
<1>6. ToldInv' /\ NamedInv' /\ NothingOutlives'
  <2>1. ToldInv'
    BY <1>1 DEF Lawful, ToldInv, ToldLaw, IsTool, Wanted, Held, ScanId, StillThere, StoredCompleted
  <2>2. NamedInv' /\ NothingOutlives'
    BY <1>1 DEF Lawful, NamedInv, IsTool, Wanted, ScanId, StillThere, NothingOutlives
  <2> QED
    BY <2>1, <2>2
<1> QED
  BY <1>2, <1>3, <1>4, <1>5, <1>6 DEF Lawful

LEMMA InitIsLawful ==
    ASSUME RepoInit
    PROVE  Lawful
<1>1. PICK errand \in [RepoCalls -> RepoErrands] :
         ask = [c \in RepoCalls |-> [at |-> "waiting", errand |-> errand[c], attempt |-> 0,
                                     about |-> NoScan, verdict |-> "none"]]
  BY DEF RepoInit, RepoWith
<1>2. /\ checkout = 0 /\ connection \in KnownConnections /\ scans = << >> /\ matchings = << >>
      /\ pending = [c \in RepoCalls |-> NoScan] /\ unusable = {}
      /\ walker = [t \in Walkers |-> [at |-> "idle", left |-> {}, counts |-> NoCounts]]
  BY DEF RepoInit, RepoWith
<1>3. /\ \A c \in RepoCalls : ask[c].at = "waiting" /\ ask[c].verdict = "none" /\ ~Held(c)
      /\ \A t \in Walkers : walker[t].at = "idle" /\ walker[t].counts = NoCounts
      /\ DOMAIN scans = {} /\ DOMAIN matchings = {}
  BY <1>1, <1>2 DEF Held
<1>4. connection # NoConnection =>
         connection \in ConnectionRow /\ connection.last = NoScan /\ connection.number \notin RepoCalls
  BY <1>2, RepositoryAssumption
<1>5. Typed
  <2>1. ask \in [RepoCalls -> AskRow]
    <3>1. \A c \in RepoCalls : ask[c] \in AskRow
      <4>1. NoScan \in Abouts
        BY DEF Abouts
      <4> QED
        BY <1>1, <4>1 DEF AskRow
    <3> QED
      BY <1>1, <3>1
  <2>2. walker \in [Walkers -> WalkerRow]
    <3>1. NoCounts \in [CountColumns -> Nat]
      BY DEF NoCounts
    <3> QED
      BY <1>2, <3>1 DEF WalkerRow
  <2>3. /\ scans \in [DOMAIN scans -> ScanRow]
        /\ matchings \in [DOMAIN matchings -> [scan : ScanIds, status : {"running", "completed"}]]
    BY <1>2, EmptyIsTyped
  <2>4. checkout \in 0..MaxEdits /\ pending \in [RepoCalls -> ScanRow \cup {NoScan}]
    BY <1>2, RepositoryAssumption
  <2> QED
    BY <1>2, <1>3, <1>4, <2>1, <2>2, <2>3, <2>4 DEF Typed
<1>6. \A t \in Walkers : t[1] \in RepoCalls /\ ~Walks(t)
  BY <1>3, WalkersPair DEF Walks
<1>7. RoleInv /\ NumberInv
  BY <1>3, <1>4 DEF RoleInv, NumberInv, Spent
<1>8. HeldInv /\ OneWalk /\ WalkInv
  BY <1>3, <1>6 DEF HeldInv, HeldLaw, OneWalk, TurnLaw, WalkInv, WalkLaw, DoneLaw
<1>9. StoredInv /\ ToldInv /\ NamedInv /\ NothingOutlives
  BY <1>3, <1>4 DEF StoredInv, ToldInv, ToldLaw, NamedInv, NothingOutlives
<1> QED
  BY <1>5, <1>7, <1>8, <1>9 DEF Lawful

\* The invariant, for any calls and any checkout: in particular that of the attempts of a
\* tool one walks, and what its session holds is what that walk has read.
THEOREM ScansAreLawful == RepoSpec => []Lawful
<1>1. RepoInit => Lawful
  BY InitIsLawful
<1>2. Lawful /\ [RepoNext]_repoVars => Lawful'
  <2> SUFFICES ASSUME Lawful, [RepoNext]_repoVars  PROVE Lawful'
    OBVIOUS
  <2>1. \/ \E c \in RepoCalls : RouteSteps(c) \/ ToolSteps(c)
        \/ \E t \in Walkers : WalkerSteps(t)
        \/ EditCheckout \/ UNCHANGED repoVars
    BY DEF RepoNext, RouteSteps, ToolSteps, WalkerSteps
  <2> QED
    BY <2>1, RouteKeeps, ToolKeeps, ThreadKeeps, EditKeeps
<1> QED
  BY <1>1, <1>2, PTL DEF RepoSpec

-----------------------------------------------------------------------------
(* What they come to.                                                       *)

\* Every file the walk shows is scanned or skipped.
LEMMA FilesAreShared ==
    Total = Cardinality({f \in Discover : Recorded(f) = "scanned"})
               + Cardinality({f \in Discover : Recorded(f) = "skipped"})
<1> DEFINE Of(status) == {f \in Discover : Recorded(f) = status}
<1>1. IsFiniteSet(Of("scanned")) /\ IsFiniteSet(Of("skipped"))
  BY FilesAreFinite, FS_Subset
<1>2. Of("scanned") \cup Of("skipped") = Discover /\ Of("scanned") \cap Of("skipped") = {}
  BY DEF Recorded
<1>3. Cardinality(Of("scanned")) \in Nat /\ Cardinality(Of("skipped")) \in Nat
  BY <1>1, FS_CardinalityType
<1> HIDE DEF Of
<1>4. Total = Cardinality(Of("scanned")) + Cardinality(Of("skipped")) - Cardinality({})
  BY <1>1, <1>2, FS_Union DEF Total
<1> QED
  BY <1>3, <1>4, FS_EmptySet DEF Of

LEMMA FullIsCounted ==
    ASSUME NEW row, Full(row)
    PROVE  LET Of(status) == Cardinality({f \in DOMAIN row.index : row.index[f].status = status}) IN
           row.counts =
             [total |-> Of("scanned") + Of("skipped"), scanned |-> Of("scanned"), skipped |-> Of("skipped"),
              eligible |-> Cardinality({f \in DOMAIN row.index : FileKind[f] \in {"binary", "source"}})]
<1> DEFINE Of(status) == {f \in DOMAIN row.index : row.index[f].status = status}
           Eligible == {f \in DOMAIN row.index : FileKind[f] \in {"binary", "source"}}
<1>1. \A status : Of(status) = {f \in Discover : Recorded(f) = status}
  BY DEF Full, Indexed
<1>2. /\ Of("scanned") = {f \in Discover : "scanned" \in Counters(f)}
      /\ Of("skipped") = {f \in Discover : "skipped" \in Counters(f)}
  BY <1>1 DEF Counters, Recorded
<1>3. Eligible = {f \in Discover : "eligible" \in Counters(f)}
  <2>1. \A f \in Discover : FileKind[f] \in FileKinds \ {"ignored"}
    BY RepositoryAssumption DEF Discover, IsShown, Files
  <2> QED
    BY <2>1 DEF Full, Indexed, Counters, Recorded, FileKinds
<1>4. Total = Cardinality(Of("scanned")) + Cardinality(Of("skipped"))
  BY <1>1, FilesAreShared
<1> HIDE DEF Of, Eligible
<1>5. /\ Tally(Discover)["scanned"] = Cardinality(Of("scanned"))
      /\ Tally(Discover)["skipped"] = Cardinality(Of("skipped"))
      /\ Tally(Discover)["eligible"] = Cardinality(Eligible)
  BY <1>2, <1>3 DEF Tally, CountColumns
<1>6. row.counts = [Tally(Discover) EXCEPT !.total = Total]
  BY DEF Full
<1>7. row.counts = [total |-> Cardinality(Of("scanned")) + Cardinality(Of("skipped")),
                    scanned |-> Cardinality(Of("scanned")), skipped |-> Cardinality(Of("skipped")),
                    eligible |-> Cardinality(Eligible)]
  BY <1>4, <1>5, <1>6 DEF Tally, CountColumns
<1> QED
  BY <1>7 DEF Of, Eligible

\* An agent that is told its scan completed has the whole of it stored.
LEMMA LawfulKeepsScans == Lawful => AgentScansAreKept
<1> SUFFICES ASSUME Lawful, NEW c \in RepoCalls, IsTool(c), ask[c].at = "over",
                    ask[c].verdict = "completed", ScanId(c) \in DOMAIN scans
             PROVE  scans[ScanId(c)].status = "completed" /\ DOMAIN scans[ScanId(c)].index = Discovered
  BY DEF AgentScansAreKept
<1>1. StillThere(c)
  BY DEF Lawful, NamedInv
<1>2. StoredCompleted(c)
  BY <1>1 DEF Lawful, ToldInv, ToldLaw
<1>3. ScanId(c) \notin RepoCalls
  BY ErrandsAreTyped DEF Lawful
<1>4. Full(scans[ScanId(c)])
  BY <1>2, <1>3 DEF Lawful, StoredInv, StoredCompleted
<1> QED
  BY <1>2, <1>4 DEF StoredCompleted, Full, Indexed, Discovered, Discover, IsShown, Files

\* The counters of a completed scan are those of its files.
LEMMA LawfulCounts == Lawful => CountsAreOfFiles
<1> SUFFICES ASSUME Lawful, NEW s \in DOMAIN scans, scans[s].status = "completed"
             PROVE  LET index == scans[s].index
                        Of(status) == Cardinality({f \in DOMAIN index : index[f].status = status}) IN
                    scans[s].counts =
                      [total |-> Of("scanned") + Of("skipped"), scanned |-> Of("scanned"),
                       skipped |-> Of("skipped"),
                       eligible |-> Cardinality({f \in DOMAIN index : FileKind[f] \in {"binary", "source"}})]
  BY DEF CountsAreOfFiles
<1>1. CASE s \notin RepoCalls
  <2>1. Full(scans[s])
    BY <1>1 DEF Lawful, StoredInv
  <2> QED
    BY <2>1, FullIsCounted
<1>2. CASE s \in RepoCalls
  <2> DEFINE index == scans[s].index
  <2>1. DOMAIN index = {} /\ scans[s].counts = NoCounts
    BY <1>2 DEF Lawful, StoredInv
  <2>2. /\ \A status : {f \in DOMAIN index : index[f].status = status} = {}
        /\ {f \in DOMAIN index : FileKind[f] \in {"binary", "source"}} = {}
    BY <2>1
  <2> HIDE DEF index
  <2>3. scans[s].counts = [total |-> 0 + 0, scanned |-> 0, skipped |-> 0, eligible |-> 0]
    BY <2>1 DEF NoCounts, CountColumns
  <2> QED
    BY <2>2, <2>3, FS_EmptySet DEF index
<1> QED
  BY <1>1, <1>2

\* ScansAreExact holds of every behaviour, however many calls meet and whatever the checkout
\* holds: the scan an agent was told of is stored whole, its counters are those of its files,
\* and nothing outlives its connection.
THEOREM ScansHold == RepoSpec => []ScansAreExact
<1>1. Lawful => ScansAreExact
  BY LawfulKeepsScans, LawfulCounts DEF ScansAreExact, Lawful
<1> QED
  BY <1>1, ScansAreLawful, PTL
=============================================================================
