------------------------------- MODULE ActionPlan -------------------------------
(***************************************************************************)
(* The plan of actions made from the findings of a website's pages or of a  *)
(* Tier 0 execution (action_generation.py, priority.py), and the two routes *)
(* that move an action from one status to the next (routes/action_plan.py). *)
(* Status requests run at the same time, each in a session of its own,      *)
(* without locks.                                                           *)
(***************************************************************************)
EXTENDS Integers, Sequences, FiniteSets

CONSTANTS
    Surveys,        \* the page results a plan may be made from, in the order they are read
    Mapping,        \* of a finding code: severity, impact, effort and business
    Unmapped,       \* codes no action is defined for
    Changes,        \* requests to change a status
    Wishes,         \* what such a request may say
    MaxPlans,       \* a bound on the plans made
    NoPage

Statuses == {"open", "acknowledged", "in_progress", "resolved", "ignored", "reopened"}
Severities == {"critical", "high", "medium", "low", "informational"}
Efforts == {"low", "medium", "high", "very_high"}
Businesses == {"critical", "major", "moderate", "minor", "negligible"}

\* A page result: its page, none if a Tier 0 address matches no discovered page; the
\* findings of its deep analysis; whether its own analysis completed, and what that
\* observed. A finding has a code, a confidence and perhaps evidence.
Percents == 0..100
Faults == [code : DOMAIN Mapping \cup Unmapped, percent : Percents, evidence : BOOLEAN]

ASSUME ActionPlanAssumption ==
    /\ IsFiniteSet(Changes) /\ MaxPlans \in Nat
    /\ DOMAIN Mapping \cap Unmapped = {}
    /\ \A code \in DOMAIN Mapping :
          Mapping[code] \in [severity : Severities, impact : Percents, effort : Efforts,
                            business : Businesses]
    /\ \A survey \in Surveys :
          /\ survey \in Seq({survey[i] : i \in DOMAIN survey})
          /\ \A i \in DOMAIN survey : /\ survey[i].deep \in Seq(Faults)
                                      /\ survey[i].observed \in Seq(DOMAIN Mapping \cup Unmapped)
    \* A request names actions, each by its plan and by what it is there; one that names
    \* none changes nothing.
    /\ \A w \in Wishes :
          /\ w.to \in Statuses /\ w.bulk \in BOOLEAN
          /\ w.actions \in Seq(Nat \X {w.actions[i][2] : i \in DOMAIN w.actions}) \ {<< >>}

VARIABLES
    plans,      \* the plans, each with its counters, groups and actions
    change      \* the requests being served

planVars == <<plans, change>>

-----------------------------------------------------------------------------
\* The v1.0.0 formula, and its change when the number of pages is known.
Clamp(n, low, high) == IF n < low THEN low ELSE IF n > high THEN high ELSE n

PagesScore(count) ==
    CASE count >= 50 -> 25 [] count >= 20 -> 20 [] count >= 10 -> 15
      [] count >= 5 -> 10 [] count >= 2 -> 5 [] OTHER -> 0
ConfidenceScore(percent) ==
    CASE percent >= 90 -> 10 [] percent >= 70 -> 7 [] percent >= 50 -> 5
      [] percent >= 30 -> 3 [] percent >= 10 -> 1 [] OTHER -> 0
SeverityBase == [critical |-> 35, high |-> 25, medium |-> 15, low |-> 5, informational |-> 0]
EffortScores == [low |-> 15, medium |-> 10, high |-> 5, very_high |-> 0]
BusinessScores == [critical |-> 15, major |-> 10, moderate |-> 6, minor |-> 3, negligible |-> 0]

\* Python's round: a half goes to the even neighbour, so of 15% of 30 to 4.
RoundHalfEven(n, unit) ==
    LET low == n \div unit  rest == 2 * (n % unit) IN
    IF rest > unit \/ (rest = unit /\ low % 2 = 1) THEN low + 1 ELSE low
ImpactScore(impact) == Clamp(RoundHalfEven(impact * 15, 100), 0, 15)

RawPriority(code, percent, count) ==
    LET m == Mapping[code] IN
    SeverityBase[m.severity] + PagesScore(count) + ImpactScore(m.impact)
    + ConfidenceScore(percent) + EffortScores[m.effort] + BusinessScores[m.business]

Priced(raw, pages) == [raw |-> raw, pages |-> pages, score |-> Clamp(raw, 0, 100)]
CalculatePriority(code, percent, count) ==
    Priced(RawPriority(code, percent, count), PagesScore(count))
Reprice(old, count) == Priced(old.raw - old.pages + PagesScore(count), PagesScore(count))

-----------------------------------------------------------------------------
\* A page whose analysis failed recommends the remedy of its failure, under a code that
\* has no action; one that completed, a remedy for each thing it misses.
Recommended(result) ==
    [i \in DOMAIN result.observed |->
        [code |-> result.observed[i], percent |-> 100, evidence |-> TRUE]]
Observed(result) == result.deep \o Recommended(result)

\* Each finding that is read, with its place in the order.
Observations(survey) ==
    UNION {{[place |-> <<i, j>>, page |-> survey[i].page, of |-> Observed(survey[i])[j]] :
               j \in DOMAIN Observed(survey[i])} : i \in DOMAIN survey}
NotAfter(o, p) ==
    o.place[1] < p.place[1] \/ (o.place[1] = p.place[1] /\ o.place[2] <= p.place[2])
First(some) == CHOOSE o \in some : \A p \in some : NotAfter(o, p)

Unsupported(o) == o.of.code \notin DOMAIN Mapping
Insufficient(o) == ~Unsupported(o) /\ (o.page = NoPage \/ ~o.of.evidence)
Usable(o) == ~Unsupported(o) /\ ~Insufficient(o)
Used(survey) == {o \in Observations(survey) : Usable(o)}
FirstPrice(code, some) == CalculatePriority(code, First(some).of.percent, 1)

\* One action of a code on a page; it and the group of a code are priced by their first
\* finding.
ActionsOf(survey) ==
    LET Same(o) == {p \in Used(survey) : p.of.code = o.of.code /\ p.page = o.page} IN
    {[code |-> o.of.code, page |-> o.page, priority |-> FirstPrice(o.of.code, Same(o))] :
        o \in Used(survey)}

GroupsOf(survey) ==
    [code \in {o.of.code : o \in Used(survey)} |->
        [pages |-> 0, status |-> "open",
         priority |-> FirstPrice(code, {o \in Used(survey) : o.of.code = code})]]

\* _reconcile_group_page_counts
CountedByFinding(survey, code) ==  \* mutant
    Cardinality({o \in Used(survey) : o.of.code = code})
CountedOf(survey, code) == Cardinality({a \in ActionsOf(survey) : a.code = code})
Reconciled(survey, code, priority) == Reprice(priority, CountedOf(survey, code))

PlanOf(survey) ==
    LET all == Observations(survey)  groups == GroupsOf(survey) IN
    [from         |-> survey,
     processed    |-> Cardinality(all),
     generated    |-> Cardinality(Used(survey)),
     unsupported  |-> Cardinality({o \in all : Unsupported(o)}),
     insufficient |-> Cardinality({o \in all : Insufficient(o)}),
     groups  |-> [code \in DOMAIN groups |->
                    [groups[code] EXCEPT !.pages = CountedOf(survey, code),
                        !.priority = Reconciled(survey, code, groups[code].priority)]],
     actions |-> {[code |-> a.code, page |-> a.page,
                   priority |-> Reconciled(survey, a.code, a.priority)] : a \in ActionsOf(survey)}]

-----------------------------------------------------------------------------
\* generate_actions and generate_tier0_actions, once they are committed. Each action
\* begins open, whatever became of its like in an earlier plan.
GeneratePlan(survey) ==
    /\ Len(plans) < MaxPlans
    /\ LET plan == PlanOf(survey) IN
       plans' = Append(plans, [plan |-> plan,
           history |-> [a \in {<<b.code, b.page>> : b \in plan.actions} |->
                           <<[from |-> "none", to |-> "open"]>>]])
    /\ UNCHANGED change

Transitions ==
    [open         |-> {"acknowledged", "in_progress", "ignored"},
     acknowledged |-> {"in_progress", "ignored"},
     in_progress  |-> {"resolved", "ignored"},
     resolved     |-> {"reopened"},
     ignored      |-> {"reopened"},
     reopened     |-> {"in_progress", "acknowledged", "ignored"}]
Allowed(from, to) == to \in Transitions[from]

Status(n, a) == LET h == plans[n].history[a] IN h[Len(h)].to
Item(w, i) == w.actions[i]
Exists(item) == item[1] \in DOMAIN plans /\ item[2] \in DOMAIN plans[item[1]].history

\* A request reads the actions it names one after the other; a repeated one it finds as it
\* has changed it itself. The single route refuses the request, the bulk route the action.
ReadStatus(r) ==
    /\ change[r].at = "reading"
    /\ LET w == change[r].wish  i == change[r].next  item == Item(w, i)
           mine == {j \in DOMAIN change[r].moves : change[r].moves[j].item = item}
           current == IF mine = {} THEN Status(item[1], item[2]) ELSE w.to
           moved == Exists(item) /\ Allowed(current, w.to)
       IN change' = [change EXCEPT
            ![r].moves = IF moved THEN Append(@, [item |-> item, from |-> current]) ELSE @,
            ![r].next = i + 1,
            ![r].at = IF ~moved /\ ~w.bulk THEN "refused"
                      ELSE IF i = Len(w.actions) THEN "writing" ELSE "reading"]
    /\ UNCHANGED plans

\* The statuses and their history are committed together, whatever others have written
\* since they were read.
WriteStatuses(r) ==
    /\ change[r].at = "writing"
    /\ LET moves == change[r].moves  to == change[r].wish.to
           Mine(n, a) == {j \in DOMAIN moves : moves[j].item = <<n, a>>}
       IN plans' = [n \in DOMAIN plans |->
            [plans[n] EXCEPT !.history = [a \in DOMAIN @ |->
                IF Mine(n, a) = {} THEN @[a]
                ELSE Append(@[a], [from |-> moves[CHOOSE j \in Mine(n, a) : TRUE].from,
                                   to |-> to])]]]
    /\ change' = [change EXCEPT ![r].at = "done"]

-----------------------------------------------------------------------------
PlanWith(wishes) ==
    /\ plans = << >>
    /\ \E wish \in wishes :
          change = [r \in Changes |->
              [at |-> "reading", wish |-> wish[r], next |-> 1, moves |-> << >>]]

PlanInit == PlanWith([Changes -> Wishes])

PlanNext ==
    \/ \E survey \in Surveys : GeneratePlan(survey)
    \/ \E r \in Changes : ReadStatus(r) \/ WriteStatuses(r)

PlanSpec == PlanInit /\ [][PlanNext]_planVars

-----------------------------------------------------------------------------
\* What each plan counts, groups and prices, against a definition over its page results.
Holds(survey, page, code) ==
    \E i \in DOMAIN survey : survey[i].page = page
        /\ \E j \in DOMAIN Observed(survey[i]) :
              Observed(survey[i])[j].code = code /\ Observed(survey[i])[j].evidence

PlanPages(survey) == {survey[i].page : i \in DOMAIN survey} \ {NoPage}
With(survey, code) == {g \in PlanPages(survey) : Holds(survey, g, code)}
CountedPages(survey, code) == Cardinality(With(survey, code))

IsGrounded(p) ==
    /\ {<<a.code, a.page>> : a \in p.actions}
         = {m \in (DOMAIN Mapping) \X PlanPages(p.from) : Holds(p.from, m[2], m[1])}
    /\ p.processed = p.generated + p.unsupported + p.insufficient
    /\ \A code \in DOMAIN p.groups : LET group == p.groups[code] IN
          /\ group.pages = CountedPages(p.from, code) /\ group.pages > 0
          /\ \E o \in Observations(p.from) :
                /\ o.of.code = code /\ o.of.evidence /\ o.page \in PlanPages(p.from)
                /\ group.priority.score =
                      Clamp(RawPriority(code, o.of.percent, CountedPages(p.from, code)), 0, 100)
    /\ \A a \in p.actions : a.priority.pages = PagesScore(CountedPages(p.from, a.code))

PlanIsGrounded ==
    \A n \in DOMAIN plans :
        /\ IsGrounded(plans[n].plan)
        /\ Cardinality(plans[n].plan.actions) = Cardinality(DOMAIN plans[n].history)

\* Every entry of a history is a move the table allows, and no move is lost.
HistoryIsLawful ==
    /\ \A n \in DOMAIN plans : \A a \in DOMAIN plans[n].history :
          LET h == plans[n].history[a] IN
          /\ h[1] = [from |-> "none", to |-> "open"]
          /\ \A i \in 2..Len(h) : Allowed(h[i].from, h[i].to)
                                  /\ \E j \in 1..(i - 1) : h[j].to = h[i].from
    /\ \A r \in Changes : change[r].at = "done" => \A j \in DOMAIN change[r].moves :
          LET m == change[r].moves[j] IN
          \E i \in DOMAIN plans[m.item[1]].history[m.item[2]] :
              plans[m.item[1]].history[m.item[2]][i] = [from |-> m.from, to |-> change[r].wish.to]

\* Property (action_generation.py:683-842, 999-1435, priority.py:90-156,
\* routes/action_plan.py:571-670): what a plan says of the pages, and how its actions move.
PlanIsExact == PlanIsGrounded /\ HistoryIsLawful

\* Not kept by the code: a history is a chain. Two requests that have both read a status
\* both leave it.
HistoryIsChain ==
    \A n \in DOMAIN plans : \A a \in DOMAIN plans[n].history :
        \A i \in 2..Len(plans[n].history[a]) :
            plans[n].history[a][i].from = plans[n].history[a][i - 1].to

\* Not kept by the code: the status of a group follows its actions. It is written when the
\* plan is made.
GroupStatusFollows ==
    \A n \in DOMAIN plans : \A code \in DOMAIN plans[n].plan.groups :
        LET now == {Status(n, a) : a \in {a \in DOMAIN plans[n].history : a[1] = code}} IN
        plans[n].plan.groups[code].status = IF Cardinality(now) = 1 THEN CHOOSE s \in now : TRUE
                                            ELSE "mixed"
=============================================================================
