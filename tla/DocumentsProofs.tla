---------------------------- MODULE DocumentsProofs ----------------------------
(***************************************************************************)
(* Proofs about what is made of the evidence of a run, for any runs and     *)
(* requests. Documents: an answer names a document that is kept, a key      *)
(* names one document, and what a document was made from is stored. A       *)
(* document is in the session of its call or is committed, never both       *)
(* (HeldRows, StoredRows), and no two sessions hold one key (KeysDiffer); a *)
(* row that lacks its parts belongs to a thread that has still to add them, *)
(* or to a call that is late; and what a thread has read is committed,      *)
(* since its own session holds no other kind of document than its own       *)
(* (Grounded). Comparison, for any two snapshots: its verdicts are earned.  *)
(* ActionPlan, for any page results and any requests: a plan is exact, and  *)
(* its actions move as the table allows. BrowserCompatibility, for any      *)
(* pages, engines and viewports: its matrix is earned, since the place of   *)
(* an opening in the log is that of a page and an engine. SiteDiagnosis,    *)
(* for any sites: its diagnosis is sound; what is stored are the findings   *)
(* of the site, and these are soundly made.                                 *)
(***************************************************************************)
EXTENDS Documents, Comparison, ActionPlan, BrowserCompatibility, SiteDiagnosis, FiniteSetTheorems, WellFoundedInduction, TLAPS

-----------------------------------------------------------------------------
(* The invariant.                                                           *)

RowFields == {"identity", "evidence", "since", "whole"}
CallFields == {"at", "errand", "attempt", "since", "late", "verdict", "doc", "evidence"}
Steps == {"idle", "read", "lookup", "insert", "finish", "over"}

Shaped ==
    /\ DOMAIN call = Calls /\ DOMAIN thread = Threads /\ DOMAIN held = Calls
    /\ \A c \in Calls : /\ DOMAIN call[c] = CallFields /\ call[c].errand \in Errands
                        /\ call[c].at \in {"waiting", "open", "answered", "closed"}
                        /\ call[c].since \in Nat
    /\ \A t \in Threads : DOMAIN thread[t] = {"at", "evidence"} /\ thread[t].at \in Steps

\* A call that is not late has one attempt, which is over once it is answered.
Timely ==
    /\ \A t \in Threads : thread[t].at # "idle" =>
          call[t[1]].at # "waiting" /\ (t[2] = 2 => call[t[1]].attempt = 2)
    /\ \A c \in Calls : /\ call[c].attempt = 2 => call[c].late /\ call[c].errand.by = "tool"
                        /\ call[c].at \in {"answered", "closed"} /\ ~call[c].late =>
                              ~Working(<<c, 1>>)

\* What evidence was gathered from is among these rows, and of the runs of the call.
Grounded(rows, evidence, e) ==
    \A s \in evidence.from :
        /\ s \in DOMAIN rows
        /\ rows[s].identity[1] # "plan" => rows[s].identity[2] \in {e.run, e.base}
HasEvidence(at, e) == at \in {"insert", "finish"} \/ (at = "lookup" /\ e.kind \in ReadFirst)
EvidenceInv ==
    \A t \in Threads :
       HasEvidence(thread[t].at, Errand(t)) => Grounded(stored, thread[t].evidence, Errand(t))

\* The row an attempt has inserted, from what it had then gathered.
KeyColumns(e, t) == <<e.kind, e.run, e.base, IF e.kind = "plan" /\ e.by = "route" THEN t ELSE e.key>>
Inserted(rows, attempt, e, d, row) ==
    /\ d \in Threads /\ attempt.at \in {"finish", "over"}
    /\ DOMAIN row = RowFields /\ row.identity = KeyColumns(e, d) /\ row.since \in Nat
    /\ Grounded(rows, row.evidence, e)
    /\ attempt.at = "finish" => row.evidence = attempt.evidence
SessionLaw(c) ==
    /\ c \in broken => DOMAIN held[c] = {}
    /\ \A d \in DOMAIN held[c] :
          /\ Inserted(stored, thread[d], Errand(d), d, held[c][d])
          /\ d[1] = c /\ d \notin DOMAIN stored
          /\ held[c][d].whole \/ thread[d].at = "finish"
HeldRows == \A c \in Calls : SessionLaw(c)
RowLaw(d) ==
    \/ d \in DOMAIN KnownDocs /\ stored[d] = KnownDocs[d]
    \/ /\ Inserted(stored, thread[d], Errand(d), d, stored[d])
       /\ stored[d].whole \/ call[d[1]].late
StoredRows == \A d \in DOMAIN stored : RowLaw(d)

\* No two rows have one key, wherever they are.
KeysDiffer ==
    /\ \A d, f \in DOMAIN stored : stored[d].identity = stored[f].identity => d = f
    /\ \A c \in Calls : \A d \in DOMAIN held[c] :
          /\ \A f \in DOMAIN stored : held[c][d].identity # stored[f].identity
          /\ \A e \in Calls : \A f \in DOMAIN held[e] :
                held[c][d].identity = held[e][f].identity => d = f

\* The document a call is answered with, among these rows.
Suits(rows, answer) ==
    LET e == answer.errand  d == answer.doc IN
    /\ d \in DOMAIN rows
    /\ rows[d].identity[1] = e.kind /\ rows[d].identity[2] = e.run /\ rows[d].identity[3] = e.base
    /\ e.kind \in Fingerprinted => rows[d].evidence = answer.evidence
ByRoute(c) == call[c].errand.by = "route"
AnswerLaw(c) ==
    call[c].verdict \in {"created", "reused"} /\ ~(call[c].errand.kind = "plan" /\ ByRoute(c)) =>
        /\ call[c].at = "answered" /\ c \notin broken =>
              Suits(stored, call[c]) \/ (~ByRoute(c) /\ Suits(held[c], call[c]))
        /\ call[c].at = "closed" => Suits(stored, call[c])
AnswerInv == \A c \in Calls : AnswerLaw(c)

Lawful ==
    /\ Shaped /\ Timely /\ EvidenceInv /\ HeldRows /\ StoredRows /\ KeysDiffer /\ AnswerInv

-----------------------------------------------------------------------------
(* The newest of some documents is one of them.                             *)

\* Among finitely many there is a newest one: that which fewest are newer than.
LEMMA NewestExists ==
    ASSUME NEW S, IsFiniteSet(S), S # {}, NEW age, \A d \in S : age[d] \in Nat
    PROVE  \E d \in S : \A f \in S : age[d] >= age[f]
<1> DEFINE Since(d) == {f \in S : age[f] >= age[d]}
           all == {Since(d) : d \in S}
           R == StrictSubsetOrdering(S)
<1>1. IsWellFoundedOn(R, SUBSET S)
  BY FS_StrictSubsetOrderingWellFounded, FS_FiniteSubsetsOfFinite
<1>2. all \subseteq SUBSET S /\ all # {}
  OBVIOUS
<1>3. PICK some \in all : \A other \in all : <<other, some>> \notin R
  <2> HIDE DEF all, R
  <2> QED
    BY <1>1, <1>2, WFMin
<1>4. PICK d \in S : some = Since(d)
  BY <1>3
<1>5. ASSUME NEW f \in S, ~(age[d] >= age[f])  PROVE FALSE
  <2>1. Since(f) \in all /\ Since(f) \subseteq Since(d) /\ d \in Since(d) /\ d \notin Since(f)
    BY <1>5
  <2>2. <<Since(f), Since(d)>> \in R
    BY <2>1 DEF StrictSubsetOrdering
  <2> QED
    BY <1>3, <1>4, <2>1, <2>2
<1> QED
  BY <1>5

LEMMA NewestIsThere ==
    ASSUME NEW rows, IsFiniteSet(DOMAIN rows), \A d \in DOMAIN rows : rows[d].since \in Nat,
           NEW kind, NEW ofRuns, Newest(rows, kind, ofRuns) # NoDoc
    PROVE  LET d == Newest(rows, kind, ofRuns) IN
           d \in DOMAIN rows /\ rows[d].identity[1] = kind /\ rows[d].identity[2] \in ofRuns
<1> DEFINE some == {d \in DOMAIN rows : rows[d].identity[1] = kind /\ rows[d].identity[2] \in ofRuns}
           Latest(d) == \A other \in some : rows[d].since >= rows[other].since
<1>1. some # {} /\ Newest(rows, kind, ofRuns) = CHOOSE d \in some : Latest(d)
  BY DEF Newest
<1>2. IsFiniteSet(some)
  BY FS_Subset
<1>3. \E d \in some : Latest(d)
  <2> DEFINE age == [d \in DOMAIN rows |-> rows[d].since]
  <2>1. \A d \in some : age[d] \in Nat /\ age[d] = rows[d].since
    OBVIOUS
  <2> HIDE DEF age, some
  <2>2. \E d \in some : \A f \in some : age[d] >= age[f]
    BY <1>1, <1>2, <2>1, NewestExists
  <2> QED
    BY <2>1, <2>2
<1>4. Newest(rows, kind, ofRuns) \in some
  BY <1>1, <1>3
<1> QED
  BY <1>4

-----------------------------------------------------------------------------
(* Rows among more rows.                                                    *)

\* More rows, the old ones with nothing changed but that their parts may have been added.
Extends(more, rows) ==
    \A d \in DOMAIN rows :
        /\ d \in DOMAIN more /\ DOMAIN more[d] = DOMAIN rows[d]
        /\ more[d].identity = rows[d].identity /\ more[d].since = rows[d].since
        /\ more[d].evidence = rows[d].evidence /\ (rows[d].whole => more[d].whole)

LEMMA ExtendsItself == \A rows : Extends(rows, rows)
  BY DEF Extends

LEMMA GroundedStays ==
    ASSUME NEW rows, NEW more, Extends(more, rows), NEW evidence, NEW e, Grounded(rows, evidence, e)
    PROVE  Grounded(more, evidence, e)
  BY DEF Extends, Grounded

LEMMA InsertedStays ==
    ASSUME NEW rows, NEW more, Extends(more, rows), NEW d, NEW row, NEW new, NEW e, NEW attempt,
           NEW after, Inserted(rows, attempt, e, d, row), after = attempt \/ after.at = "over",
           DOMAIN new = DOMAIN row, new.identity = row.identity, new.since = row.since,
           new.evidence = row.evidence
    PROVE  Inserted(more, after, e, d, new)
  BY GroundedStays DEF Inserted

LEMMA SuitsStays ==
    ASSUME NEW rows, NEW more, Extends(more, rows), NEW answer, Suits(rows, answer)
    PROVE  Suits(more, answer)
  BY DEF Extends, Suits

LEMMA CompleteExtends ==
    ASSUME NEW rows, NEW t, \A d \in DOMAIN rows : d = t => DOMAIN rows[d] = RowFields
    PROVE  /\ Extends(Complete(rows, t), rows) /\ DOMAIN Complete(rows, t) = DOMAIN rows
           /\ t \in DOMAIN rows => Complete(rows, t)[t].whole
           /\ \A d \in DOMAIN rows : d # t => Complete(rows, t)[d] = rows[d]
  BY DEF Complete, Extends, RowFields

LEMMA ThreadsPair ==
    ASSUME NEW t \in Threads
    PROVE  /\ t[1] \in Calls /\ t[2] \in {1, 2} /\ t = <<t[1], t[2]>>
           /\ <<t[1], 1>> \in Threads
           /\ \A u \in Threads : u[1] = t[1] /\ u # t => u[2] = 2 \/ t[2] = 2
  BY DEF Threads, Attempts

LEMMA KeysOfThreads == \A t : Identity(t) = KeyColumns(Errand(t), t)
  BY DEF Identity, KeyColumns

-----------------------------------------------------------------------------
(* What a step of a thread moves.                                           *)

Moved(t) ==
    /\ DOMAIN call' = Calls /\ DOMAIN thread' = Threads
    /\ Working(t) /\ thread'[t].at \in Steps \ {"idle"} /\ DOMAIN thread'[t] = {"at", "evidence"}
    /\ \A u \in Threads : u # t => thread'[u] = thread[u]
    /\ \A c \in Calls : /\ DOMAIN call'[c] = CallFields /\ call'[c].errand = call[c].errand
                        /\ call'[c].attempt = call[c].attempt /\ call'[c].since = call[c].since
                        /\ call'[c].late = call[c].late
                        /\ c # t[1] => call'[c] = call[c]
Hears(t, verdict, d) ==
    /\ thread'[t].at = "over"
    /\ IF Current(t)
       THEN /\ call'[t[1]].at = "answered" /\ call'[t[1]].verdict = verdict
            /\ call'[t[1]].doc = d /\ call'[t[1]].evidence = thread[t].evidence
       ELSE call' = call

LEMMA OnwardMoves ==
    ASSUME Shaped, NEW t \in Threads, Working(t), NEW step \in Steps \ {"idle"}, NEW evidence,
           Onward(t, step, evidence)
    PROVE  /\ Moved(t) /\ call' = call
           /\ thread'[t].at = step /\ thread'[t].evidence = evidence
  BY DEF Shaped, Onward, Moved

LEMMA ReturnMoves ==
    ASSUME Shaped, NEW t \in Threads, Working(t), NEW verdict, NEW d, Return(t, verdict, d)
    PROVE  Moved(t) /\ Hears(t, verdict, d)
<1>1. t[1] \in Calls /\ DOMAIN call[t[1]] = CallFields /\ DOMAIN call = Calls
  BY ThreadsPair DEF Shaped
<1>2. /\ DOMAIN thread' = Threads /\ thread'[t].at = "over" /\ DOMAIN thread'[t] = {"at", "evidence"}
      /\ \A u \in Threads : u # t => thread'[u] = thread[u]
  BY DEF Shaped, Return
<1>3. CASE Current(t)
  <2>1. call' = [call EXCEPT ![t[1]] = [call[t[1]] EXCEPT !.at = "answered", !.verdict = verdict,
                                            !.doc = d, !.evidence = thread[t].evidence]]
    BY <1>1, <1>3 DEF Return
  <2>2. /\ DOMAIN call' = Calls /\ \A c \in Calls : c # t[1] => call'[c] = call[c]
        /\ DOMAIN call'[t[1]] = CallFields /\ call'[t[1]].errand = call[t[1]].errand
        /\ call'[t[1]].attempt = call[t[1]].attempt /\ call'[t[1]].since = call[t[1]].since
        /\ call'[t[1]].late = call[t[1]].late
        /\ call'[t[1]].at = "answered" /\ call'[t[1]].verdict = verdict
        /\ call'[t[1]].doc = d /\ call'[t[1]].evidence = thread[t].evidence
    BY <1>1, <2>1 DEF CallFields
  <2> QED
    BY <1>2, <1>3, <2>2 DEF Moved, Hears, Shaped, Steps
<1>4. CASE ~Current(t)
  <2>1. call' = call
    BY <1>4 DEF Return
  <2> QED
    BY <1>2, <1>4, <2>1 DEF Moved, Hears, Shaped, Steps
<1> QED
  BY <1>3, <1>4

\* Errands, keys and the rows that have them stay.
LEMMA MovedKeeps ==
    ASSUME Shaped, Timely, NEW t \in Threads, Moved(t),
           call' = call \/ (\E verdict, d : Hears(t, verdict, d)), DOMAIN held' = Calls
    PROVE  /\ Shaped' /\ Timely'
           /\ \A u \in Threads : Errand(u)' = Errand(u)
           /\ \A c \in Calls : ByRoute(c)' <=> ByRoute(c)
<1>1. /\ t[1] \in Calls /\ t = <<t[1], t[2]>> /\ t[2] \in {1, 2}
      /\ \A u \in Threads : u[1] \in Calls
  BY ThreadsPair
<1>2. \/ call' = call
      \/ Current(t) /\ call'[t[1]].at = "answered" /\ thread'[t].at = "over"
  BY DEF Hears
<1>3. \A u \in Threads : Errand(u)' = Errand(u)
  BY <1>1 DEF Moved, Errand
<1>4. \A c \in Calls : ByRoute(c)' <=> ByRoute(c)
  BY DEF Moved, ByRoute
<1>5. Shaped'
  BY <1>1, <1>2 DEF Shaped, Moved
<1>6. \A u \in Threads : thread'[u].at # "idle" => thread[u].at # "idle"
  BY DEF Moved, Working
<1>7. \A c \in Calls : call'[c].at = "waiting" => call[c].at = "waiting"
  BY <1>1, <1>2 DEF Moved
<1>8. \A u \in Threads : thread'[u].at # "idle" =>
         call'[u[1]].at # "waiting" /\ (u[2] = 2 => call'[u[1]].attempt = 2)
  BY <1>1, <1>6, <1>7 DEF Timely, Moved
<1>9. \A c \in Calls : call'[c].attempt = 2 => call'[c].late /\ call'[c].errand.by = "tool"
  BY ZenonT(60) DEF Timely, Moved
<1>10. ASSUME NEW c \in Calls, call'[c].at \in {"answered", "closed"}, ~call'[c].late
       PROVE  ~Working(<<c, 1>>)'
  <2>1. ~call[c].late /\ call'[c].attempt = call[c].attempt
    BY <1>10 DEF Moved
  <2>2. <<c, 1>> \in Threads
    BY DEF Threads, Attempts
  <2>3. CASE call'[c].at = call[c].at
    <3>1. ~Working(<<c, 1>>)
      BY <1>10, <2>1, <2>3 DEF Timely
    <3>2. t # <<c, 1>>
      BY <3>1 DEF Moved
    <3> QED
      BY <2>2, <3>1, <3>2 DEF Moved, Working
  <2>4. CASE call'[c].at # call[c].at
    <3>1. c = t[1] /\ Current(t) /\ thread'[t].at = "over"
      BY <1>2, <2>4 DEF Moved
    <3>2. t[2] = 1
      BY <1>1, <2>1, <3>1 DEF Current, Timely
    <3>3. t = <<c, 1>>
      BY <1>1, <3>1, <3>2
    <3> QED
      BY <3>1, <3>3 DEF Working
  <2> QED
    BY <2>3, <2>4
<1>11. Timely'
  BY <1>8, <1>9, <1>10 DEF Timely
<1> QED
  BY <1>3, <1>4, <1>5, <1>11

-----------------------------------------------------------------------------
(* A step of one call disturbs no other.                                    *)

\* The rows of other sessions, and the answers of other calls.
LEMMA OthersKeep ==
    ASSUME Lawful, NEW c \in Calls, NEW d \in Calls, d # c, call'[d] = call[d],
           held'[d] = held[d], d \in broken' <=> d \in broken, Extends(stored', stored),
           \A u \in Threads : u[1] = d => thread'[u] = thread[u] /\ Errand(u)' = Errand(u),
           DOMAIN stored' \subseteq DOMAIN stored \cup {u \in Threads : u[1] = c}
    PROVE  AnswerLaw(d)' /\ SessionLaw(d)'
<1>1. AnswerLaw(d)'
  <2>1. AnswerLaw(d) /\ (ByRoute(d)' <=> ByRoute(d))
    BY DEF Lawful, AnswerInv, ByRoute
  <2> QED
    BY <2>1, SuitsStays DEF AnswerLaw
<1>2. ASSUME NEW u \in DOMAIN held[d]
      PROVE  /\ Inserted(stored', thread'[u], Errand(u)', u, held'[d][u])
             /\ u[1] = d /\ u \notin DOMAIN stored'
             /\ held'[d][u].whole \/ thread'[u].at = "finish"
  <2>1. /\ Inserted(stored, thread[u], Errand(u), u, held[d][u])
        /\ u[1] = d /\ u \notin DOMAIN stored
        /\ held[d][u].whole \/ thread[u].at = "finish"
    BY DEF Lawful, HeldRows, SessionLaw
  <2>2. u \in Threads /\ u[1] # c
    BY <2>1 DEF Inserted
  <2>3. thread'[u] = thread[u] /\ Errand(u)' = Errand(u)
    BY <2>1, <2>2
  <2>4. Inserted(stored', thread'[u], Errand(u)', u, held'[d][u])
    BY <2>1, <2>3, InsertedStays
  <2> QED
    BY <2>1, <2>2, <2>3, <2>4
<1> QED
  BY <1>1, <1>2 DEF Lawful, HeldRows, SessionLaw

-----------------------------------------------------------------------------
(* What a step of a thread keeps, whatever it does to the rows.             *)

LEMMA NoRows == DOMAIN << >> = {}
  OBVIOUS

\* An answer given before is as good with more rows.
LEMMA AnswerCarried ==
    ASSUME Lawful, NEW c \in Calls, call'[c] = call[c], Extends(stored', stored),
           c \in broken => c \in broken',
           Extends(held'[c], held[c]) \/ Extends(stored', held[c]) \/ c \in broken'
    PROVE  AnswerLaw(c)'
<1>1. AnswerLaw(c) /\ (ByRoute(c)' <=> ByRoute(c))
  BY DEF Lawful, AnswerInv, ByRoute
<1>2. ASSUME call[c].at = "closed" \/ c \notin broken', Suits(stored, call[c])
      PROVE  Suits(stored', call'[c])
  BY <1>2, SuitsStays
<1>3. ASSUME c \notin broken', Suits(held[c], call[c])
      PROVE  Suits(stored', call'[c]) \/ Suits(held'[c], call'[c])
  BY <1>3, SuitsStays
<1> QED
  BY <1>1, <1>2, <1>3 DEF AnswerLaw

LEMMA UnansweredIsLawful ==
    ASSUME NEW c, call'[c].verdict \notin {"created", "reused"}
    PROVE  AnswerLaw(c)'
  BY DEF AnswerLaw

\* The rows that were stored are lawful rows still.
LEMMA StoredStay ==
    ASSUME Lawful, NEW t \in Threads, Moved(t), Extends(stored', stored),
           thread[t].at = "finish" => thread'[t].at = "over",
           \A d \in DOMAIN stored : d # t => stored'[d] = stored[d],
           \A u \in Threads : Errand(u)' = Errand(u), NEW d \in DOMAIN stored
    PROVE  RowLaw(d)'
<1>1. RowLaw(d)
  BY DEF Lawful, StoredRows
<1>2. CASE d \in DOMAIN KnownDocs /\ stored[d] = KnownDocs[d]
  <2>1. d # t
    BY <1>2, DocumentsAssumption DEF Threads
  <2> QED
    BY <1>2, <2>1 DEF RowLaw, Extends
<1>3. CASE /\ Inserted(stored, thread[d], Errand(d), d, stored[d])
           /\ stored[d].whole \/ call[d[1]].late
  <2>1. d \in Threads /\ d[1] \in Calls /\ Working(t)
    BY <1>3, ThreadsPair DEF Inserted, Moved
  <2>2. thread'[d] = thread[d] \/ thread'[d].at = "over"
    BY <1>3, <2>1 DEF Moved, Inserted, Working
  <2>3. Inserted(stored', thread'[d], Errand(d)', d, stored'[d])
    <3>1. /\ DOMAIN stored'[d] = DOMAIN stored[d] /\ stored'[d].identity = stored[d].identity
          /\ stored'[d].since = stored[d].since /\ stored'[d].evidence = stored[d].evidence
      BY DEF Extends
    <3>2. Errand(d)' = Errand(d)
      BY <2>1
    <3> QED
      BY <1>3, <2>2, <3>1, <3>2, InsertedStays
  <2>4. stored'[d].whole \/ call'[d[1]].late
    BY <1>3, <2>1 DEF Extends, Moved
  <2> QED
    BY <2>3, <2>4 DEF RowLaw
<1> QED
  BY <1>1, <1>2, <1>3 DEF RowLaw

\* The rows of the session that the step leaves there.
LEMMA SessionStays ==
    ASSUME Lawful, NEW t \in Threads, Moved(t), Extends(stored', stored),
           thread[t].at = "finish" => thread'[t].at = "over",
           \A u \in Threads : Errand(u)' = Errand(u), NEW rows,
           NEW d \in DOMAIN held[t[1]], Extends(rows, held[t[1]]),
           d = t => rows[d].whole
    PROVE  /\ Inserted(stored', thread'[d], Errand(d)', d, rows[d])
           /\ d[1] = t[1] /\ d \notin DOMAIN stored
           /\ rows[d].whole \/ (d # t /\ thread'[d].at = "finish")
<1>1. /\ Inserted(stored, thread[d], Errand(d), d, held[t[1]][d])
      /\ d[1] = t[1] /\ d \notin DOMAIN stored
      /\ held[t[1]][d].whole \/ thread[d].at = "finish"
  BY ThreadsPair, ZenonT(60) DEF Lawful, HeldRows, SessionLaw
<1>2. d \in Threads /\ Working(t)
  BY <1>1 DEF Inserted, Moved
<1>3. thread'[d] = thread[d] \/ thread'[d].at = "over"
  BY <1>1, <1>2 DEF Moved, Inserted, Working
<1>4. /\ DOMAIN rows[d] = DOMAIN held[t[1]][d] /\ rows[d].identity = held[t[1]][d].identity
      /\ rows[d].since = held[t[1]][d].since /\ rows[d].evidence = held[t[1]][d].evidence
      /\ held[t[1]][d].whole => rows[d].whole
  BY DEF Extends
<1>5. Errand(d)' = Errand(d)
  BY <1>2
<1>6. Inserted(stored', thread'[d], Errand(d)', d, rows[d])
  BY <1>1, <1>3, <1>4, <1>5, InsertedStays
<1>7. rows[d].whole \/ (d # t /\ thread'[d].at = "finish")
  BY <1>1, <1>2, <1>4 DEF Moved
<1> QED
  BY <1>1, <1>6, <1>7

\* Keys differ still where no row has a new key.
LEMMA KeysStay ==
    ASSUME Lawful, NEW c \in Calls,
           \A d \in DOMAIN stored' :
              \/ d \in DOMAIN stored /\ stored'[d].identity = stored[d].identity
              \/ /\ d \in DOMAIN held[c] /\ stored'[d].identity = held[c][d].identity
                 /\ DOMAIN held'[c] = {},
           \A e \in Calls : \A d \in DOMAIN held'[e] :
              d \in DOMAIN held[e] /\ held'[e][d].identity = held[e][d].identity
    PROVE  KeysDiffer'
<1>1. \A e \in Calls : \A d \in DOMAIN held[e] : d[1] = e
  BY DEF Lawful, HeldRows, SessionLaw
<1>2. \A d, f \in DOMAIN stored' : stored'[d].identity = stored'[f].identity => d = f
  BY DEF Lawful, KeysDiffer
<1>3. ASSUME NEW e \in Calls, NEW d \in DOMAIN held'[e], NEW f \in DOMAIN stored',
             held'[e][d].identity = stored'[f].identity
      PROVE  FALSE
  BY <1>1, <1>3 DEF Lawful, KeysDiffer
<1>4. \A e, g \in Calls : \A d \in DOMAIN held'[e] : \A f \in DOMAIN held'[g] :
         held'[e][d].identity = held'[g][f].identity => d = f
  BY DEF Lawful, KeysDiffer
<1> QED
  BY <1>2, <1>3, <1>4 DEF KeysDiffer

\* What remains to be shown of a step of a thread is about its own session.
LEMMA ThreadSteps ==
    ASSUME Lawful, NEW t \in Threads, Moved(t),
           call' = call \/ (\E verdict, d : Hears(t, verdict, d)), DOMAIN held' = Calls,
           \A d \in Calls : d # t[1] => held'[d] = held[d] /\ (d \in broken' <=> d \in broken),
           Extends(stored', stored),
           DOMAIN stored' \subseteq DOMAIN stored \cup {u \in Threads : u[1] = t[1]},
           HasEvidence(thread'[t].at, Errand(t)) =>
              Grounded(stored', thread'[t].evidence, Errand(t)),
           SessionLaw(t[1])', \A d \in DOMAIN stored' : RowLaw(d)', KeysDiffer', AnswerLaw(t[1])'
    PROVE  Lawful'
<1>1. /\ Shaped' /\ Timely' /\ t[1] \in Calls
      /\ \A u \in Threads : Errand(u)' = Errand(u)
  BY MovedKeeps, ThreadsPair DEF Lawful
<1>2. ASSUME NEW d \in Calls, d # t[1]  PROVE AnswerLaw(d)' /\ SessionLaw(d)'
  <2>1. call'[d] = call[d] /\ \A u \in Threads : u[1] = d => thread'[u] = thread[u]
    BY <1>2 DEF Moved
  <2> QED
    BY <1>1, <1>2, <2>1, OthersKeep
<1>3. EvidenceInv'
  <2> SUFFICES ASSUME NEW u \in Threads, HasEvidence(thread'[u].at, Errand(u)')
               PROVE  Grounded(stored', thread'[u].evidence, Errand(u)')
    BY DEF EvidenceInv
  <2>1. Errand(u)' = Errand(u)
    BY <1>1
  <2>2. CASE u # t
    <3>1. thread'[u] = thread[u]
      BY <2>2 DEF Moved
    <3>2. Grounded(stored, thread[u].evidence, Errand(u))
      BY <2>1, <3>1 DEF Lawful, EvidenceInv
    <3> QED
      BY <2>1, <3>1, <3>2, GroundedStays
  <2> QED
    BY <2>1, <2>2
<1>4. HeldRows' /\ StoredRows' /\ AnswerInv'
  BY <1>1, <1>2 DEF HeldRows, StoredRows, AnswerInv
<1> QED
  BY <1>1, <1>3, <1>4 DEF Lawful

-----------------------------------------------------------------------------
(* Steps of a thread that leave the rows, or lose those of its session.     *)

LEMMA RowsLeft ==
    ASSUME Lawful, NEW t \in Threads, Moved(t),
           call' = call \/ (\E verdict, d : Hears(t, verdict, d)),
           UNCHANGED <<stored, held, broken>>,
           thread[t].at # "finish" \/ (t[1] \in broken /\ thread'[t].at = "over"),
           HasEvidence(thread'[t].at, Errand(t)) =>
              Grounded(stored, thread'[t].evidence, Errand(t)),
           AnswerLaw(t[1])'
    PROVE  Lawful'
<1>1. /\ t[1] \in Calls /\ DOMAIN held' = Calls
      /\ \A u \in Threads : Errand(u)' = Errand(u)
  BY MovedKeeps, ThreadsPair DEF Lawful, Shaped
<1>2. Extends(stored', stored)
  BY ExtendsItself
<1>3. \A d \in DOMAIN stored' : RowLaw(d)'
  BY <1>1, <1>2, StoredStay
<1>4. SessionLaw(t[1])'
  <2>1. SessionLaw(t[1])
    BY <1>1 DEF Lawful, HeldRows
  <2> SUFFICES ASSUME NEW d \in DOMAIN held[t[1]]
               PROVE  /\ Inserted(stored, thread'[d], Errand(d)', d, held[t[1]][d])
                      /\ held[t[1]][d].whole \/ thread'[d].at = "finish"
    BY <2>1 DEF SessionLaw
  <2>2. d \in Threads /\ d # t /\ Inserted(stored, thread[d], Errand(d), d, held[t[1]][d])
    BY <2>1 DEF SessionLaw, Inserted, Moved, Working
  <2>3. thread'[d] = thread[d] /\ Errand(d)' = Errand(d)
    BY <1>1, <2>2 DEF Moved
  <2> QED
    BY <2>1, <2>2, <2>3 DEF SessionLaw
<1>5. KeysDiffer'
  BY DEF Lawful, KeysDiffer
<1> QED
  BY <1>1, <1>2, <1>3, <1>4, <1>5, ThreadSteps

LEMMA RowsLost ==
    ASSUME Lawful, NEW t \in Threads, Moved(t), Hears(t, "error", NoDoc), Breaks(t[1]),
           UNCHANGED stored
    PROVE  Lawful'
<1>1. /\ t[1] \in Calls /\ DOMAIN held' = Calls /\ DOMAIN held'[t[1]] = {}
      /\ broken' = broken \cup {t[1]}
      /\ \A d \in Calls : d # t[1] => held'[d] = held[d]
  BY ThreadsPair, NoRows DEF Lawful, Shaped, Breaks
<1>2. \A u \in Threads : Errand(u)' = Errand(u)
  BY <1>1, MovedKeeps DEF Lawful
<1>3. Extends(stored', stored) /\ thread'[t].at = "over"
  BY ExtendsItself DEF Hears
<1>4. \A d \in DOMAIN stored' : RowLaw(d)'
  BY <1>2, <1>3, StoredStay
<1>5. SessionLaw(t[1])'
  BY <1>1 DEF SessionLaw
<1>6. KeysDiffer'
  <2>1. \A e \in Calls : \A d \in DOMAIN held'[e] :
           d \in DOMAIN held[e] /\ held'[e][d].identity = held[e][d].identity
    BY <1>1
  <2> QED
    BY <1>1, <2>1, KeysStay
<1>7. AnswerLaw(t[1])'
  <2>1. CASE Current(t)
    BY <2>1, <1>1, UnansweredIsLawful DEF Hears
  <2>2. CASE ~Current(t)
    <3>1. call' = call
      BY <2>2 DEF Hears
    <3> QED
      BY <1>1, <1>3, <3>1, AnswerCarried
  <2> QED
    BY <2>1, <2>2
<1>8. ~HasEvidence(thread'[t].at, Errand(t))
  BY <1>3 DEF HasEvidence
<1> QED
  BY <1>1, <1>2, <1>3, <1>4, <1>5, <1>6, <1>7, <1>8, ThreadSteps

-----------------------------------------------------------------------------
(* What is gathered is stored.                                              *)

LEMMA VisibleRows ==
    ASSUME Lawful, NEW c \in Calls
    PROVE  /\ IsFiniteSet(DOMAIN Visible(c))
           /\ \A d \in DOMAIN Visible(c) :
                 /\ Visible(c)[d].since \in Nat
                 /\ \/ d \in DOMAIN stored /\ Visible(c)[d] = stored[d]
                    \/ /\ d \in DOMAIN held[c] /\ d \notin DOMAIN stored
                       /\ Visible(c)[d] = held[c][d] /\ d[1] = c /\ d \in Threads
                       /\ held[c][d].identity = KeyColumns(call[c].errand, d)
<1>1. \A d \in DOMAIN held[c] :
         /\ d \in Threads /\ d[1] = c /\ held[c][d].since \in Nat
         /\ held[c][d].identity = KeyColumns(call[c].errand, d)
  BY DEF Lawful, HeldRows, SessionLaw, Inserted, Errand
<1>2. \A d \in DOMAIN stored : d \in DOMAIN KnownDocs \cup Threads /\ stored[d].since \in Nat
  BY DocumentsAssumption DEF Lawful, StoredRows, RowLaw, Inserted
<1>3. IsFiniteSet(DOMAIN KnownDocs \cup Threads)
  <2>1. IsFiniteSet(Attempts)
    <3>1. IsFiniteSet({1}) /\ {1} \cup {2} = Attempts
      BY FS_Singleton DEF Attempts
    <3> QED
      BY <3>1, FS_AddElement
  <2>2. IsFiniteSet(Threads)
    BY <2>1, DocumentsAssumption, FS_Product DEF Threads
  <2> QED
    BY <2>2, DocumentsAssumption, FS_Union
<1>4. DOMAIN Visible(c) = DOMAIN stored \cup DOMAIN held[c]
  BY DEF Visible
<1>5. IsFiniteSet(DOMAIN Visible(c))
  BY <1>1, <1>2, <1>3, <1>4, FS_Subset
<1> QED
  BY <1>1, <1>2, <1>4, <1>5 DEF Visible

\* A document of another kind than the call's own is one that is committed.
LEMMA NewestStored ==
    ASSUME Lawful, NEW c \in Calls, NEW kind, kind # call[c].errand.kind, NEW ofRuns,
           Newest(Visible(c), kind, ofRuns) # NoDoc
    PROVE  LET d == Newest(Visible(c), kind, ofRuns) IN
           d \in DOMAIN stored /\ stored[d].identity[1] = kind /\ stored[d].identity[2] \in ofRuns
<1> DEFINE d == Newest(Visible(c), kind, ofRuns)
<1>1. /\ d \in DOMAIN Visible(c) /\ Visible(c)[d].identity[1] = kind
      /\ Visible(c)[d].identity[2] \in ofRuns
  BY VisibleRows, NewestIsThere
<1> HIDE DEF d
<1>2. d \in DOMAIN stored /\ Visible(c)[d] = stored[d]
  BY <1>1, VisibleRows DEF KeyColumns
<1>3. d \in DOMAIN stored /\ stored[d].identity[1] = kind /\ stored[d].identity[2] \in ofRuns
  BY <1>1, <1>2
<1> QED
  BY <1>3 DEF d

LEMMA EvidenceIsGrounded ==
    ASSUME Lawful, NEW t \in Threads
    PROVE  Grounded(stored, Evidence(t), Errand(t))
<1> DEFINE c == t[1]  e == Errand(t)
<1>1. c \in Calls /\ e = call[c].errand /\ e \in Errands
  BY ThreadsPair DEF Errand, Lawful, Shaped
<1> HIDE DEF c, e
<1>2. CASE e.kind = "report"
  <2>1. Evidence(t) = ReportEvidence(t)
    BY <1>2 DEF Evidence, e
  <2>2. ASSUME NEW s \in ReportEvidence(t).from
        PROVE  /\ s \in DOMAIN stored
               /\ stored[s].identity[1] # "plan" => stored[s].identity[2] \in {e.run, e.base}
    <3> DEFINE rows == Visible(c)
               runs == {rows[d].identity[2] : d \in DOMAIN rows}
    <3>1. /\ s # NoDoc
          /\ s \in {Newest(rows, "score", {e.run}), Newest(rows, "diagnostics", {e.run}),
                    Newest(rows, "plan", runs)}
      BY DEF ReportEvidence, MadeFrom, c, e
    <3> HIDE DEF runs
    <3>2. CASE s = Newest(rows, "score", {e.run})
      BY <1>1, <1>2, <3>1, <3>2, NewestStored
    <3>3. CASE s = Newest(rows, "diagnostics", {e.run})
      BY <1>1, <1>2, <3>1, <3>3, NewestStored
    <3>4. CASE s = Newest(rows, "plan", runs)
      BY <1>1, <1>2, <3>1, <3>4, NewestStored
    <3> QED
      BY <3>1, <3>2, <3>3, <3>4
  <2> QED
    BY <2>1, <2>2 DEF Grounded, e
<1>3. CASE e.kind = "comparison"
  <2>1. Evidence(t) = ComparisonEvidence(t)
    BY <1>3 DEF Evidence, e
  <2>2. ASSUME NEW s \in ComparisonEvidence(t).from
        PROVE  s \in DOMAIN stored /\ stored[s].identity[2] \in {e.run, e.base}
    <3>1. PICK run \in {e.run, e.base} : s = Newest(Visible(c), "report", {run}) /\ s # NoDoc
      BY DEF ComparisonEvidence, MadeFrom, c, e
    <3> QED
      BY <1>1, <1>3, <3>1, NewestStored
  <2> QED
    BY <2>1, <2>2 DEF Grounded, e
<1>4. CASE e.kind \notin {"report", "comparison"}
  <2>1. Evidence(t).from = {}
    BY <1>4 DEF Evidence, ResultsEvidence, MadeFrom, e
  <2> QED
    BY <2>1 DEF Grounded
<1> QED
  BY <1>2, <1>3, <1>4

LEMMA GatherKeeps ==
    ASSUME Lawful, NEW t \in Threads, Gather(t)
    PROVE  Lawful'
<1> DEFINE next == IF Errand(t).kind \in ReadFirst THEN "lookup" ELSE "insert"
<1>1. /\ Shaped /\ Working(t) /\ t[1] \in Calls /\ thread[t].at = "read"
      /\ UNCHANGED <<stored, held, broken>>
      /\ Extends(stored', stored) /\ Extends(held'[t[1]], held[t[1]])
  BY ThreadsPair, ExtendsItself DEF Lawful, Gather, Working
<1>2. CASE ~Ready(t, Evidence(t))
  <2>1. Moved(t) /\ Hears(t, "unavailable", NoDoc)
    BY <1>1, <1>2, ReturnMoves DEF Gather
  <2>2. AnswerLaw(t[1])'
    <3>1. CASE Current(t)
      BY <3>1, <2>1, UnansweredIsLawful DEF Hears
    <3>2. CASE ~Current(t)
      BY <1>1, <2>1, <3>2, AnswerCarried DEF Hears
    <3> QED
      BY <3>1, <3>2
  <2>3. ~HasEvidence(thread'[t].at, Errand(t))
    BY <2>1 DEF HasEvidence, Hears
  <2> QED
    BY <1>1, <2>1, <2>2, <2>3, RowsLeft
<1>3. CASE Ready(t, Evidence(t))
  <2>1. Onward(t, next, Evidence(t)) /\ next \in Steps \ {"idle"}
    BY <1>3 DEF Gather, Steps
  <2> HIDE DEF next
  <2>2. Moved(t) /\ call' = call /\ thread'[t].evidence = Evidence(t)
    BY <1>1, <2>1, OnwardMoves
  <2>3. AnswerLaw(t[1])'
    BY <1>1, <2>2, AnswerCarried
  <2> QED
    BY <1>1, <2>2, <2>3, EvidenceIsGrounded, RowsLeft
<1> QED
  BY <1>2, <1>3

LEMMA RaisesBrokenKeeps ==
    ASSUME Lawful, NEW t \in Threads, RaisesBroken(t)
    PROVE  Lawful'
<1>1. /\ Shaped /\ Working(t) /\ t[1] \in Calls /\ t[1] \in broken
      /\ UNCHANGED <<stored, held, broken>> /\ Extends(stored', stored)
  BY ThreadsPair, ExtendsItself DEF Lawful, RaisesBroken
<1>2. Moved(t) /\ Hears(t, "error", NoDoc)
  BY <1>1, ReturnMoves DEF RaisesBroken
<1>3. AnswerLaw(t[1])'
  <2>1. CASE Current(t)
    BY <2>1, <1>2, UnansweredIsLawful DEF Hears
  <2>2. CASE ~Current(t)
    BY <1>1, <1>2, <2>2, AnswerCarried DEF Hears
  <2> QED
    BY <2>1, <2>2
<1>4. ~HasEvidence(thread'[t].at, Errand(t)) /\ thread'[t].at = "over"
  BY <1>2 DEF HasEvidence, Hears
<1> QED
  BY <1>1, <1>2, <1>3, <1>4, RowsLeft

-----------------------------------------------------------------------------
(* A document that is reused is one that is kept.                           *)

\* A call of a route has one attempt; so has one whose other attempt has done something.
LEMMA TwoAttempts ==
    ASSUME Lawful, NEW t \in Threads, NEW d \in Threads, d[1] = t[1], d # t,
           thread[t].at # "idle", thread[d].at # "idle"
    PROVE  call[t[1]].errand.by = "tool" /\ call[t[1]].late /\ call[t[1]].attempt = 2
<1>1. t[1] \in Calls /\ (t[2] = 2 \/ d[2] = 2)
  BY ThreadsPair
<1> QED
  BY <1>1 DEF Lawful, Timely

LEMMA KeptHasTheKey ==
    ASSUME Lawful, NEW t \in Threads, NEW d \in KeptFor(t)
    PROVE  /\ d \in DOMAIN Visible(t[1])
           /\ Visible(t[1])[d].identity[1] = Errand(t).kind
           /\ Visible(t[1])[d].identity[2] = Errand(t).run
           /\ Visible(t[1])[d].identity[3] = Errand(t).base
<1> DEFINE c == t[1]  e == Errand(t)  rows == Visible(c)
<1>1. c \in Calls /\ e = call[c].errand /\ e \in Errands
  BY ThreadsPair DEF Errand, Lawful, Shaped
<1>2. CASE e.kind = "diagnostics" /\ e.by = "tool"
  <2>1. d = Newest(rows, "diagnostics", {e.run}) /\ d # NoDoc
    BY <1>2 DEF KeptFor
  <2>2. /\ d \in DOMAIN rows /\ rows[d].identity[1] = "diagnostics"
        /\ rows[d].identity[2] \in {e.run}
    BY <1>1, <2>1, VisibleRows, NewestIsThere
  <2>3. e.base = NoDoc
    BY <1>1, <1>2, DocumentsAssumption
  <2>4. rows[d].identity[3] = NoDoc
    <3>1. CASE d \in DOMAIN held[c] /\ rows[d] = held[c][d] /\ held[c][d].identity = KeyColumns(call[c].errand, d)
      BY <1>1, <2>3, <3>1 DEF KeyColumns
    <3>2. CASE d \in DOMAIN stored /\ rows[d] = stored[d]
      <4>1. RowLaw(d)
        BY <3>2 DEF Lawful, StoredRows
      <4>2. CASE d \in DOMAIN KnownDocs /\ stored[d] = KnownDocs[d]
        BY <2>2, <3>2, <4>2, DocumentsAssumption
      <4>3. CASE Inserted(stored, thread[d], Errand(d), d, stored[d])
        <5>1. rows[d].identity = KeyColumns(Errand(d), d) /\ d[1] \in Calls
          BY <3>2, <4>3, ThreadsPair DEF Inserted
        <5>2. Errand(d) \in Errands /\ Errand(d).kind = "diagnostics"
          BY <2>2, <5>1 DEF KeyColumns, Lawful, Shaped, Errand
        <5>3. Errand(d).base = NoDoc
          BY <5>2, DocumentsAssumption
        <5> QED
          BY <5>1, <5>3 DEF KeyColumns
      <4> QED
        BY <4>1, <4>2, <4>3 DEF RowLaw
    <3> QED
      BY <1>1, <2>2, <3>1, <3>2, VisibleRows
  <2> QED
    BY <1>2, <2>2, <2>3, <2>4
<1>3. CASE ~(e.kind = "diagnostics" /\ e.by = "tool")
  <2>1. d \in Kept(rows, t)
    BY <1>3 DEF KeptFor
  <2> QED
    BY <2>1, KeysOfThreads DEF Kept, KeyColumns
<1> QED
  BY <1>2, <1>3

LEMMA ReusedIsKept ==
    ASSUME Lawful, NEW t \in Threads, thread[t].at = "lookup", NEW d \in KeptFor(t),
           SameEvidence(t, d), UNCHANGED <<stored, held, broken>>,
           Moved(t), Hears(t, "reused", d), Current(t)
    PROVE  AnswerLaw(t[1])'
<1> DEFINE c == t[1]  e == Errand(t)
<1>1. /\ c \in Calls /\ e = call[c].errand /\ call'[c].errand = e
      /\ call'[c].at = "answered" /\ call'[c].doc = d
      /\ call'[c].evidence = thread[t].evidence
  BY ThreadsPair DEF Errand, Moved, Hears
<1>2. /\ d \in DOMAIN Visible(c)
      /\ Visible(c)[d].identity[1] = e.kind /\ Visible(c)[d].identity[2] = e.run
      /\ Visible(c)[d].identity[3] = e.base
      /\ e.kind \in Fingerprinted => Visible(c)[d].evidence = call'[c].evidence
  BY <1>1, KeptHasTheKey DEF SameEvidence
<1> HIDE DEF c, e
<1>3. CASE d \in DOMAIN stored /\ Visible(c)[d] = stored[d]
  <2>1. Suits(stored', call'[c])
    BY <1>1, <1>2, <1>3 DEF Suits
  <2> QED
    BY <1>1, <2>1 DEF AnswerLaw, c
<1>4. CASE /\ d \in DOMAIN held[c] /\ Visible(c)[d] = held[c][d] /\ d[1] = c /\ d \in Threads
  <2>1. Suits(held'[c], call'[c])
    BY <1>1, <1>2, <1>4 DEF Suits
  <2>2. thread[d].at \in {"finish", "over"}
    BY <1>1, <1>4 DEF Lawful, HeldRows, SessionLaw, Inserted
  <2>3. ~ByRoute(c)'
    <3>1. e.by = "tool"
      BY <1>1, <1>4, <2>2, TwoAttempts DEF c
    <3> QED
      BY <1>1, <3>1 DEF ByRoute
  <2> QED
    BY <1>1, <2>1, <2>3 DEF AnswerLaw, c
<1> QED
  BY <1>1, <1>2, <1>3, <1>4, VisibleRows

LEMMA LookUpKeyKeeps ==
    ASSUME Lawful, NEW t \in Threads, LookUpKey(t)
    PROVE  Lawful'
<1> DEFINE next == IF Errand(t).kind \in ReadFirst THEN "insert" ELSE "read"
<1>1. /\ Shaped /\ Working(t) /\ t[1] \in Calls /\ thread[t].at = "lookup"
      /\ UNCHANGED <<stored, held, broken>>
      /\ Extends(stored', stored) /\ Extends(held'[t[1]], held[t[1]])
  BY ThreadsPair, ExtendsItself DEF Lawful, LookUpKey, Working
<1>2. CASE KeptFor(t) = {}
  <2>1. Onward(t, next, thread[t].evidence) /\ next \in Steps \ {"idle"}
    BY <1>2 DEF LookUpKey, Steps
  <2>2. HasEvidence(next, Errand(t)) => Grounded(stored, thread[t].evidence, Errand(t))
    BY <1>1 DEF Lawful, EvidenceInv, HasEvidence
  <2> HIDE DEF next
  <2>3. /\ Moved(t) /\ call' = call /\ thread'[t].at = next
        /\ thread'[t].evidence = thread[t].evidence
    BY <1>1, <2>1, OnwardMoves
  <2>4. AnswerLaw(t[1])'
    BY <1>1, <2>3, AnswerCarried
  <2> QED
    BY <1>1, <2>2, <2>3, <2>4, RowsLeft
<1>3. ASSUME NEW verdict, NEW doc, Return(t, verdict, doc),
             verdict = "conflict" \/ (verdict = "reused" /\ doc \in KeptFor(t) /\ SameEvidence(t, doc))
      PROVE  Lawful'
  <2>1. Moved(t) /\ Hears(t, verdict, doc)
    BY <1>1, <1>3, ReturnMoves
  <2>2. AnswerLaw(t[1])'
    <3>1. CASE ~Current(t)
      BY <1>1, <2>1, <3>1, AnswerCarried DEF Hears
    <3>2. CASE Current(t) /\ verdict = "conflict"
      BY <3>2, <2>1, UnansweredIsLawful DEF Hears
    <3>3. CASE Current(t) /\ verdict = "reused"
      BY <1>1, <1>3, <2>1, <3>3, ReusedIsKept
    <3> QED
      BY <1>3, <3>1, <3>2, <3>3
  <2>3. ~HasEvidence(thread'[t].at, Errand(t))
    BY <2>1 DEF HasEvidence, Hears
  <2> QED
    BY <1>1, <2>1, <2>2, <2>3, RowsLeft
<1> QED
  BY <1>2, <1>3 DEF LookUpKey

-----------------------------------------------------------------------------
(* A row that is inserted.                                                  *)

LEMMA UninsertedIsNowhere ==
    ASSUME Lawful, NEW t \in Threads, thread[t].at \notin {"finish", "over"}
    PROVE  /\ t \notin DOMAIN stored
           /\ \A c \in Calls : t \notin DOMAIN held[c]
<1>1. t \notin DOMAIN stored
  BY DocumentsAssumption DEF Lawful, StoredRows, RowLaw, Inserted, Threads
<1>2. \A c \in Calls : t \notin DOMAIN held[c]
  BY DEF Lawful, HeldRows, SessionLaw, Inserted
<1> QED
  BY <1>1, <1>2

\* Keys differ still if the new row has one that none has.
Widens(c, t, row) ==
    /\ UNCHANGED stored
    /\ \A e \in Calls : \A d \in DOMAIN held'[e] :
          \/ d \in DOMAIN held[e] /\ held'[e][d] = held[e][d]
          \/ e = c /\ d = t /\ held'[e][d] = row
    /\ \A f \in DOMAIN stored : stored[f].identity # row.identity
    /\ \A e \in Calls : \A f \in DOMAIN held[e] : held[e][f].identity # row.identity

LEMMA KeysWiden ==
    ASSUME Lawful, NEW c \in Calls, NEW t, NEW row, Widens(c, t, row)
    PROVE  KeysDiffer'
<1>1. \A d, f \in DOMAIN stored' : stored'[d].identity = stored'[f].identity => d = f
  BY DEF Lawful, KeysDiffer, Widens
<1>2. ASSUME NEW e \in Calls, NEW d \in DOMAIN held'[e], NEW f \in DOMAIN stored'
      PROVE  held'[e][d].identity # stored'[f].identity
  BY DEF Lawful, KeysDiffer, Widens
<1>3. ASSUME NEW e \in Calls, NEW g \in Calls, NEW d \in DOMAIN held'[e], NEW f \in DOMAIN held'[g],
             held'[e][d].identity = held'[g][f].identity
      PROVE  d = f
  <2>1. CASE d \in DOMAIN held[e] /\ held'[e][d] = held[e][d]
    BY <1>3, <2>1 DEF Lawful, KeysDiffer, Widens
  <2>2. CASE d = t /\ held'[e][d] = row
    BY <1>3, <2>2 DEF Widens
  <2> QED
    BY <2>1, <2>2 DEF Widens
<1> QED
  BY <1>1, <1>2, <1>3 DEF KeysDiffer

LEMMA RowInserted ==
    ASSUME Lawful, NEW t \in Threads, Insert(t), Kept(Visible(t[1]), t) = {}
    PROVE  Lawful'
<1> DEFINE c == t[1]
           row == [identity |-> Identity(t), evidence |-> thread[t].evidence,
                   since |-> call[c].since, whole |-> FALSE]
<1>1. /\ Shaped /\ Working(t) /\ c \in Calls /\ thread[t].at = "insert" /\ c \notin broken
      /\ UNCHANGED <<stored, broken>> /\ Extends(stored', stored)
      /\ Onward(t, "finish", thread[t].evidence) /\ "finish" \in Steps \ {"idle"}
      /\ held' = [held EXCEPT ![c] = [d \in DOMAIN held[c] \cup {t} |->
                      IF d \in DOMAIN held[c] THEN held[c][d] ELSE row]]
  BY ThreadsPair, ExtendsItself DEF Lawful, Insert, Working, Steps
<1>2. /\ Moved(t) /\ call' = call /\ thread'[t].at = "finish"
      /\ thread'[t].evidence = thread[t].evidence
  BY <1>1, OnwardMoves
<1>3. t \notin DOMAIN stored /\ \A e \in Calls : t \notin DOMAIN held[e]
  BY <1>1, UninsertedIsNowhere
<1>4. /\ DOMAIN held' = Calls /\ \A e \in Calls : e # c => held'[e] = held[e]
      /\ DOMAIN held'[c] = DOMAIN held[c] \cup {t}
      /\ \A d \in DOMAIN held[c] : held'[c][d] = held[c][d]
      /\ held'[c][t] = row
  BY <1>1, <1>3 DEF Shaped
<1>5. /\ DOMAIN row = RowFields /\ row.identity = KeyColumns(Errand(t), t)
      /\ row.since \in Nat /\ row.evidence = thread[t].evidence
  BY <1>1, KeysOfThreads DEF RowFields, Shaped
<1>6. Grounded(stored, row.evidence, Errand(t))
  BY <1>1 DEF Lawful, EvidenceInv, HasEvidence
<1>7. /\ \A f \in DOMAIN stored : stored[f].identity # row.identity
      /\ \A e \in Calls : \A f \in DOMAIN held[e] : held[e][f].identity # row.identity
  <2>1. \A f \in DOMAIN Visible(c) : Visible(c)[f].identity # row.identity
    BY DEF Kept
  <2>2. /\ \A f \in DOMAIN stored : f \in DOMAIN Visible(c) /\ Visible(c)[f] = stored[f]
        /\ \A f \in DOMAIN held[c] : f \in DOMAIN Visible(c) /\ Visible(c)[f] = held[c][f]
    BY <1>1 DEF Visible, Lawful, HeldRows, SessionLaw
  <2>3. \A e \in Calls \ {c} : \A f \in DOMAIN held[e] : held[e][f].identity # row.identity
    BY DEF Insert, Kept
  <2> QED
    BY <2>1, <2>2, <2>3
<1> HIDE DEF row
<1>8. KeysDiffer'
  <2> HIDE DEF c
  <2>1. \A e \in Calls : \A d \in DOMAIN held'[e] :
           \/ d \in DOMAIN held[e] /\ held'[e][d] = held[e][d]
           \/ e = c /\ d = t /\ held'[e][d] = row
    BY <1>1, <1>4
  <2>2. c \in Calls /\ Widens(c, t, row)
    BY <1>1, <1>7, <2>1 DEF Widens
  <2> QED
    BY <2>2, KeysWiden
<1>9. \A u \in Threads : Errand(u)' = Errand(u)
  BY <1>1, <1>2, <1>4, MovedKeeps DEF Lawful
<1>10. \A d \in DOMAIN stored' : RowLaw(d)'
  BY <1>1, <1>9, <1>2, StoredStay
<1>11. Extends(held'[c], held[c])
  BY <1>4 DEF Extends
<1>12. SessionLaw(c)'
  <2>1. ASSUME NEW d \in DOMAIN held[c]
        PROVE  /\ Inserted(stored', thread'[d], Errand(d)', d, held'[c][d])
               /\ d[1] = c /\ d \notin DOMAIN stored'
               /\ held'[c][d].whole \/ thread'[d].at = "finish"
    BY <1>1, <1>2, <1>3, <1>9, <1>11, SessionStays
  <2>2. /\ Inserted(stored', thread'[t], Errand(t)', t, held'[c][t])
        /\ t[1] = c /\ t \notin DOMAIN stored' /\ thread'[t].at = "finish"
    BY <1>1, <1>2, <1>3, <1>4, <1>5, <1>6, <1>9 DEF Inserted
  <2> QED
    BY <1>1, <1>4, <2>1, <2>2 DEF SessionLaw
<1>13. AnswerLaw(c)'
  BY <1>1, <1>2, <1>11, AnswerCarried
<1>14. Grounded(stored', thread'[t].evidence, Errand(t))
  BY <1>1, <1>2, <1>5, <1>6
<1> QED
  BY <1>1, <1>2, <1>4, <1>8, <1>10, <1>12, <1>13, <1>14, ThreadSteps

LEMMA InsertKeeps ==
    ASSUME Lawful, NEW t \in Threads, Insert(t)
    PROVE  Lawful'
<1>1. CASE Kept(Visible(t[1]), t) = {}
  BY <1>1, RowInserted
<1>2. CASE Kept(Visible(t[1]), t) # {}
  <2>1. /\ Shaped /\ Working(t) /\ Breaks(t[1]) /\ Return(t, "error", NoDoc) /\ UNCHANGED stored
    BY <1>2 DEF Insert, Lawful, Working
  <2> QED
    BY <2>1, ReturnMoves, RowsLost
<1> QED
  BY <1>1, <1>2

-----------------------------------------------------------------------------
(* A document that is finished.                                             *)

\* The row a thread is about to finish is the one it inserted.
LEMMA OwnRow ==
    ASSUME Lawful, NEW t \in Threads, thread[t].at = "finish"
    PROVE  /\ t \in DOMAIN stored => /\ DOMAIN stored[t] = RowFields
                                     /\ stored[t].identity = KeyColumns(Errand(t), t)
                                     /\ stored[t].evidence = thread[t].evidence
           /\ t \in DOMAIN held[t[1]] => /\ DOMAIN held[t[1]][t] = RowFields
                                         /\ held[t[1]][t].identity = KeyColumns(Errand(t), t)
                                         /\ held[t[1]][t].evidence = thread[t].evidence
  BY ThreadsPair, DocumentsAssumption
  DEF Lawful, StoredRows, RowLaw, HeldRows, SessionLaw, Inserted, Threads

LEMMA PlanFinished ==
    ASSUME Lawful, NEW t \in Threads, Finish(t), t \in DOMAIN Visible(t[1]), Errand(t).kind = "plan"
    PROVE  Lawful'
<1> DEFINE c == t[1]
<1>1. /\ Shaped /\ Working(t) /\ c \in Calls /\ thread[t].at = "finish" /\ c \notin broken
      /\ UNCHANGED broken /\ Return(t, "created", t)
      /\ held' = [held EXCEPT ![c] = Complete(held[c], t)] /\ stored' = Complete(stored, t)
  BY ThreadsPair DEF Lawful, Finish, Working
<1>2. Moved(t) /\ Hears(t, "created", t) /\ thread'[t].at = "over"
  BY <1>1, ReturnMoves DEF Hears
<1>3. /\ DOMAIN held' = Calls /\ held'[c] = Complete(held[c], t)
      /\ \A e \in Calls : e # c => held'[e] = held[e]
  BY <1>1 DEF Shaped
<1>4. /\ Extends(stored', stored) /\ DOMAIN stored' = DOMAIN stored
      /\ \A d \in DOMAIN stored : d # t => stored'[d] = stored[d]
  BY <1>1, OwnRow, CompleteExtends
<1>5. /\ Extends(held'[c], held[c]) /\ DOMAIN held'[c] = DOMAIN held[c]
      /\ t \in DOMAIN held[c] => held'[c][t].whole
  BY <1>1, <1>3, OwnRow, CompleteExtends
<1>6. \A u \in Threads : Errand(u)' = Errand(u)
  BY <1>2, <1>3, MovedKeeps DEF Lawful
<1>7. \A d \in DOMAIN stored' : RowLaw(d)'
  BY <1>2, <1>4, <1>6, StoredStay
<1>8. SessionLaw(c)'
  BY <1>1, <1>2, <1>4, <1>5, <1>6, SessionStays DEF SessionLaw
<1>9. KeysDiffer'
  <2>1. \A d \in DOMAIN stored' : d \in DOMAIN stored /\ stored'[d].identity = stored[d].identity
    BY <1>4 DEF Extends
  <2>2. \A e \in Calls : \A d \in DOMAIN held'[e] :
           d \in DOMAIN held[e] /\ held'[e][d].identity = held[e][d].identity
    BY <1>3, <1>5 DEF Extends
  <2> QED
    BY <1>1, <2>1, <2>2, KeysStay
<1>10. AnswerLaw(c)'
  <2>1. CASE ~Current(t)
    BY <1>1, <1>2, <1>4, <1>5, <2>1, AnswerCarried DEF Hears
  <2>2. CASE Current(t)
    <3>1. /\ call'[c].at = "answered" /\ call'[c].doc = t /\ call'[c].errand = Errand(t)
      BY <1>1, <1>2, <2>2 DEF Hears, Moved, Errand
    <3>2. ASSUME t \in DOMAIN stored  PROVE Suits(stored', call'[c])
      <4>1. t \in DOMAIN stored' /\ stored'[t].identity = KeyColumns(Errand(t), t)
        BY <1>1, <1>4, <3>2, OwnRow DEF Extends
      <4> HIDE DEF c
      <4> QED
        BY <3>1, <4>1 DEF Suits, KeyColumns, Fingerprinted
    <3>3. ASSUME t \in DOMAIN held[c]  PROVE Suits(held'[c], call'[c])
      <4>1. t \in DOMAIN held'[c] /\ held'[c][t].identity = KeyColumns(Errand(t), t)
        BY <1>1, <1>5, <3>3, OwnRow DEF Extends
      <4> HIDE DEF c
      <4> QED
        BY <3>1, <4>1 DEF Suits, KeyColumns, Fingerprinted
    <3>4. t \in DOMAIN stored \cup DOMAIN held[c]
      BY DEF Visible
    <3>5. ~(call'[c].errand.kind = "plan" /\ ByRoute(c)') => ~ByRoute(c)'
      BY <3>1
    <3> HIDE DEF c
    <3> QED
      BY <3>1, <3>2, <3>3, <3>4, <3>5 DEF AnswerLaw
  <2> QED
    BY <2>1, <2>2
<1>11. ~HasEvidence(thread'[t].at, Errand(t))
  BY <1>2 DEF HasEvidence
<1> QED
  BY <1>1, <1>2, <1>3, <1>4, <1>7, <1>8, <1>9, <1>10, <1>11, ThreadSteps

LEMMA DocumentFinished ==
    ASSUME Lawful, NEW t \in Threads, Finish(t), t \in DOMAIN Visible(t[1]), Errand(t).kind # "plan"
    PROVE  Lawful'
<1> DEFINE c == t[1]
<1>1. /\ Shaped /\ Working(t) /\ c \in Calls /\ thread[t].at = "finish" /\ c \notin broken
      /\ UNCHANGED broken /\ Return(t, "created", t)
      /\ held' = [held EXCEPT ![c] = << >>] /\ stored' = Complete(Visible(c), t)
  BY ThreadsPair DEF Lawful, Finish, Working, Commit
<1>2. Moved(t) /\ Hears(t, "created", t) /\ thread'[t].at = "over"
  BY <1>1, ReturnMoves DEF Hears
<1>3. /\ DOMAIN held' = Calls /\ DOMAIN held'[c] = {}
      /\ \A e \in Calls : e # c => held'[e] = held[e]
  BY <1>1, NoRows DEF Shaped
<1>4. SessionLaw(c)
  BY <1>1 DEF Lawful, HeldRows
<1>5. /\ DOMAIN Visible(c) = DOMAIN stored \cup DOMAIN held[c]
      /\ \A d \in DOMAIN stored : Visible(c)[d] = stored[d]
      /\ \A d \in DOMAIN held[c] : Visible(c)[d] = held[c][d]
  BY <1>4 DEF Visible, SessionLaw
<1>6. /\ Extends(stored', Visible(c)) /\ DOMAIN stored' = DOMAIN stored \cup DOMAIN held[c]
      /\ stored'[t].whole
      /\ \A d \in DOMAIN Visible(c) : d # t => stored'[d] = Visible(c)[d]
  BY <1>1, <1>5, OwnRow, CompleteExtends
<1>7. /\ Extends(stored', stored) /\ Extends(stored', held[c])
      /\ \A d \in DOMAIN stored : d # t => stored'[d] = stored[d]
  BY <1>5, <1>6 DEF Extends
<1>8. \A u \in Threads : Errand(u)' = Errand(u)
  BY <1>2, <1>3, MovedKeeps DEF Lawful
<1>9. ASSUME NEW d \in DOMAIN held[c]
      PROVE  RowLaw(d)' /\ d \in Threads /\ d[1] = c
  <2> HIDE DEF c
  <2>1. /\ Inserted(stored', thread'[d], Errand(d)', d, stored'[d])
        /\ d[1] = c
        /\ stored'[d].whole \/ (d # t /\ thread'[d].at = "finish")
    BY <1>1, <1>2, <1>6, <1>7, <1>8, SessionStays DEF c
  <2>2. ASSUME ~stored'[d].whole  PROVE call'[c].late
    <3>1. d # t /\ d \in Threads /\ thread[d].at = "finish"
      BY <2>1, <2>2, <1>2 DEF Moved, Inserted
    <3>2. call[c].late
      BY <1>1, <2>1, <3>1, TwoAttempts DEF c
    <3> QED
      BY <1>1, <1>2, <3>2 DEF Moved
  <2> QED
    <3>1. d \in Threads
      BY <2>1 DEF Inserted
    <3> QED
      BY <2>1, <2>2, <3>1 DEF RowLaw
<1>10. \A d \in DOMAIN stored' : RowLaw(d)'
  <2>1. \A d \in DOMAIN stored : RowLaw(d)'
    BY <1>2, <1>7, <1>8, StoredStay
  <2> QED
    BY <1>6, <1>9, <2>1
<1>11. SessionLaw(c)'
  BY <1>3 DEF SessionLaw
<1>12. KeysDiffer'
  <2>1. \A d \in DOMAIN stored' :
           \/ d \in DOMAIN stored /\ stored'[d].identity = stored[d].identity
           \/ /\ d \in DOMAIN held[c] /\ stored'[d].identity = held[c][d].identity
              /\ DOMAIN held'[c] = {}
    BY <1>3, <1>6, <1>7 DEF Extends
  <2>2. \A e \in Calls : \A d \in DOMAIN held'[e] :
           d \in DOMAIN held[e] /\ held'[e][d].identity = held[e][d].identity
    BY <1>3
  <2> QED
    BY <1>1, <2>1, <2>2, KeysStay
<1>13. AnswerLaw(c)'
  <2>1. CASE ~Current(t)
    BY <1>1, <1>2, <1>7, <2>1, AnswerCarried DEF Hears
  <2>2. CASE Current(t)
    <3>1. /\ call'[c].doc = t /\ call'[c].errand = Errand(t)
          /\ call'[c].evidence = thread[t].evidence
      BY <1>1, <1>2, <2>2 DEF Hears, Moved, Errand
    <3>2. /\ t \in DOMAIN stored' /\ stored'[t].identity = KeyColumns(Errand(t), t)
          /\ stored'[t].evidence = thread[t].evidence
      BY <1>1, <1>5, <1>6, <1>7, OwnRow DEF Extends
    <3>3. Suits(stored', call'[c])
      BY <3>1, <3>2 DEF Suits, KeyColumns
    <3> HIDE DEF c
    <3> QED
      BY <3>3 DEF AnswerLaw
  <2> QED
    BY <2>1, <2>2
<1>14. ~HasEvidence(thread'[t].at, Errand(t))
  BY <1>2 DEF HasEvidence
<1>15. DOMAIN stored' \subseteq DOMAIN stored \cup {u \in Threads : u[1] = c}
  BY <1>6, <1>9
<1> QED
  BY <1>1, <1>2, <1>3, <1>7, <1>10, <1>11, <1>12, <1>13, <1>14, <1>15, ThreadSteps

LEMMA FinishKeeps ==
    ASSUME Lawful, NEW t \in Threads, Finish(t)
    PROVE  Lawful'
<1>1. CASE t \notin DOMAIN Visible(t[1])
  <2>1. /\ Shaped /\ Working(t) /\ Breaks(t[1]) /\ Return(t, "error", NoDoc) /\ UNCHANGED stored
    BY <1>1 DEF Finish, Lawful, Working
  <2> QED
    BY <2>1, ReturnMoves, RowsLost
<1> QED
  BY <1>1, PlanFinished, DocumentFinished

-----------------------------------------------------------------------------
(* A call arrives, outlives its time or is closed.                          *)

\* Steps that leave the rows, and at most begin an attempt.
LEMMA RowsKept ==
    ASSUME Lawful, Shaped', Timely', AnswerInv', UNCHANGED <<stored, held, broken>>,
           \A u \in Threads : Errand(u)' = Errand(u),
           \A u \in Threads :
              \/ thread'[u] = thread[u]
              \/ thread[u].at \notin {"finish", "over"} /\ ~HasEvidence(thread'[u].at, Errand(u)),
           \A c \in Calls : call[c].late => call'[c].late
    PROVE  Lawful'
<1>1. \A u \in Threads : thread[u].at \in {"finish", "over"} => thread'[u] = thread[u]
  OBVIOUS
<1>2. ASSUME NEW d, NEW row, Inserted(stored, thread[d], Errand(d), d, row)
      PROVE  Inserted(stored', thread'[d], Errand(d)', d, row) /\ thread'[d] = thread[d]
  BY <1>1, <1>2 DEF Inserted
<1>3. EvidenceInv'
  <2> SUFFICES ASSUME NEW u \in Threads, HasEvidence(thread'[u].at, Errand(u)')
               PROVE  Grounded(stored', thread'[u].evidence, Errand(u)')
    BY DEF EvidenceInv
  <2>1. Errand(u)' = Errand(u)
    OBVIOUS
  <2>2. thread'[u] = thread[u]
    BY <2>1
  <2> QED
    BY <2>1, <2>2 DEF Lawful, EvidenceInv
<1>4. ASSUME NEW c \in Calls  PROVE SessionLaw(c)'
  <2>1. SessionLaw(c)
    BY DEF Lawful, HeldRows
  <2> QED
    BY <1>2, <2>1 DEF SessionLaw
<1>5. ASSUME NEW d \in DOMAIN stored  PROVE RowLaw(d)'
  <2>1. RowLaw(d)
    BY DEF Lawful, StoredRows
  <2>2. Inserted(stored, thread[d], Errand(d), d, stored[d]) => d[1] \in Calls
    BY ThreadsPair DEF Inserted
  <2> QED
    BY <1>2, <2>1, <2>2 DEF RowLaw
<1>6. HeldRows' /\ StoredRows' /\ KeysDiffer'
  BY <1>4, <1>5 DEF HeldRows, StoredRows, KeysDiffer, Lawful
<1> QED
  BY <1>3, <1>6 DEF Lawful

\* The answers of the other calls, where no row moves.
LEMMA AnswersKept ==
    ASSUME Lawful, NEW c \in Calls, UNCHANGED <<stored, held, broken>>,
           \A d \in Calls : d # c => call'[d] = call[d], AnswerLaw(c)'
    PROVE  AnswerInv'
<1>1. ASSUME NEW d \in Calls, d # c  PROVE AnswerLaw(d)'
  BY <1>1, ExtendsItself, AnswerCarried
<1> QED
  BY <1>1 DEF AnswerInv

LEMMA ArriveKeeps ==
    ASSUME Lawful, NEW c \in Calls, Arrive(c)
    PROVE  Lawful'
<1> DEFINE n == 1 + Cardinality({d \in Calls : call[d].at # "waiting"})
           first == IF call[c].errand.kind \in ReadFirst THEN "read" ELSE "lookup"
           t == <<c, 1>>
<1>1. /\ DOMAIN call = Calls /\ DOMAIN call[c] = CallFields /\ DOMAIN thread = Threads
      /\ DOMAIN thread[t] = {"at", "evidence"} /\ call[c].at = "waiting"
      /\ UNCHANGED <<stored, held, broken>> /\ t \in Threads /\ t[1] = c
      /\ DOMAIN held = Calls
  BY DEF Lawful, Shaped, Arrive, Threads, Attempts
<1>2. n \in Nat
  <2>1. IsFiniteSet({d \in Calls : call[d].at # "waiting"})
    BY DocumentsAssumption, FS_Subset
  <2> QED
    BY <2>1, FS_CardinalityType
<1> HIDE DEF n
<1>3. call' = [call EXCEPT ![c] = [call[c] EXCEPT !.at = "open", !.attempt = 1, !.since = n]]
  BY DEF Arrive, n
<1>4. /\ DOMAIN call' = Calls /\ \A d \in Calls : d # c => call'[d] = call[d]
      /\ DOMAIN call'[c] = CallFields /\ call'[c].errand = call[c].errand
      /\ call'[c].at = "open" /\ call'[c].attempt = 1 /\ call'[c].since = n
      /\ call'[c].late = call[c].late
  BY <1>1, <1>3 DEF CallFields
<1>5. /\ DOMAIN thread' = Threads /\ \A u \in Threads : u # t => thread'[u] = thread[u]
      /\ DOMAIN thread'[t] = {"at", "evidence"} /\ thread'[t].at = first
  BY <1>1 DEF Arrive
<1>6. thread[t].at = "idle" /\ \A u \in Threads : u[1] = c => thread[u].at = "idle"
  BY <1>1 DEF Lawful, Timely
<1>7. \A u \in Threads : u[1] \in Calls /\ Errand(u)' = Errand(u)
  BY <1>4, ThreadsPair DEF Errand
<1>8. Shaped'
  BY <1>1, <1>2, <1>4, <1>5 DEF Shaped, Steps, Lawful
<1>9. Timely'
  <2>1. \A u \in Threads : thread'[u].at # "idle" => u = t \/ (u[1] # c /\ thread[u].at # "idle")
    BY <1>5, <1>6
  <2>2. \A u \in Threads : thread'[u].at # "idle" =>
           call'[u[1]].at # "waiting" /\ (u[2] = 2 => call'[u[1]].attempt = 2)
    BY <1>4, <1>7, <2>1 DEF Lawful, Timely
  <2>3. ASSUME NEW d \in Calls, call'[d].attempt = 2
        PROVE  call'[d].late /\ call'[d].errand.by = "tool"
    <3>1. call'[d] = call[d]
      BY <1>4, <2>3
    <3>2. call[d].attempt = 2
      BY <2>3, <3>1
    <3>3. call[d].late /\ call[d].errand.by = "tool"
      BY <3>2 DEF Lawful, Timely
    <3> QED
      BY <3>1, <3>3
  <2>4. \A d \in Calls : call'[d].at \in {"answered", "closed"} /\ ~call'[d].late =>
           ~Working(<<d, 1>>)'
    <3> SUFFICES ASSUME NEW d \in Calls, call'[d].at \in {"answered", "closed"}, ~call'[d].late
                 PROVE  ~Working(<<d, 1>>)'
      OBVIOUS
    <3>1. d # c /\ <<d, 1>> \in Threads /\ <<d, 1>> # t
      BY <1>4 DEF Threads, Attempts
    <3> QED
      BY <1>4, <1>5, <3>1 DEF Lawful, Timely, Working
  <2> QED
    BY <2>2, <2>3, <2>4 DEF Timely
<1>10. AnswerInv'
  <2>1. AnswerLaw(c)'
    BY <1>4 DEF AnswerLaw
  <2> QED
    BY <1>1, <1>4, <2>1, AnswersKept
<1>11. ~HasEvidence(thread'[t].at, Errand(t))
  BY <1>1, <1>5 DEF HasEvidence, Errand
<1>12. \A d \in Calls : call[d].late => call'[d].late
  BY <1>4
<1> HIDE DEF t
<1> QED
  BY <1>1, <1>5, <1>6, <1>7, <1>8, <1>9, <1>10, <1>11, <1>12, RowsKept

LEMMA TimeOutKeeps ==
    ASSUME Lawful, NEW c \in Calls, TimeOut(c)
    PROVE  Lawful'
<1> DEFINE first == IF call[c].errand.kind \in ReadFirst THEN "read" ELSE "lookup"
           t == <<c, 2>>
           again == call[c].attempt = 1 /\ call[c].errand.kind \in TriedAgain
<1>1. /\ DOMAIN call = Calls /\ DOMAIN call[c] = CallFields /\ DOMAIN thread = Threads
      /\ DOMAIN thread[t] = {"at", "evidence"}
      /\ call[c].at = "open" /\ call[c].errand.by = "tool"
      /\ UNCHANGED <<stored, held, broken>> /\ t \in Threads /\ t[1] = c
      /\ DOMAIN held = Calls
  BY DEF Lawful, Shaped, TimeOut, Threads, Attempts
<1>2. /\ DOMAIN call' = Calls /\ \A d \in Calls : d # c => call'[d] = call[d]
      /\ DOMAIN call'[c] = CallFields /\ call'[c].errand = call[c].errand
      /\ call'[c].since = call[c].since /\ call'[c].late = TRUE
      /\ again => call'[c].at = "open" /\ call'[c].attempt = 2
      /\ ~again => /\ call'[c].at = "answered" /\ call'[c].attempt = call[c].attempt
                   /\ call'[c].verdict = "timeout"
  <2>1. CASE again
    <3>1. call' = [call EXCEPT ![c] = [call[c] EXCEPT !.attempt = 2, !.late = TRUE]]
      BY <2>1 DEF TimeOut
    <3> QED
      BY <1>1, <2>1, <3>1 DEF CallFields
  <2>2. CASE ~again
    <3>1. call' = [call EXCEPT ![c] = [call[c] EXCEPT !.at = "answered", !.verdict = "timeout",
                                                      !.late = TRUE]]
      BY <2>2 DEF TimeOut
    <3> QED
      BY <1>1, <2>2, <3>1 DEF CallFields
  <2> QED
    BY <2>1, <2>2
<1>3. /\ DOMAIN thread' = Threads /\ \A u \in Threads : u # t => thread'[u] = thread[u]
      /\ DOMAIN thread'[t] = {"at", "evidence"}
      /\ again => thread'[t].at = first
      /\ ~again => thread'[t] = thread[t]
  BY <1>1 DEF TimeOut
<1>4. again => thread[t].at = "idle"
  BY <1>1 DEF Lawful, Timely
<1>5. \A u \in Threads : u[1] \in Calls /\ Errand(u)' = Errand(u)
  BY <1>2, ThreadsPair DEF Errand
<1>6. Shaped'
  <2>1. thread'[t].at \in Steps /\ thread[t].at \in Steps
    BY <1>1, <1>3 DEF Shaped, Steps, Lawful
  <2> QED
    BY <1>1, <1>2, <1>3, <2>1 DEF Shaped, Lawful
<1>7. Timely'
  <2>1. \A u \in Threads : thread'[u].at # "idle" =>
           call'[u[1]].at # "waiting" /\ (u[2] = 2 => call'[u[1]].attempt = 2)
    <3> SUFFICES ASSUME NEW u \in Threads, thread'[u].at # "idle"
                 PROVE  call'[u[1]].at # "waiting" /\ (u[2] = 2 => call'[u[1]].attempt = 2)
      OBVIOUS
    <3>1. u # t \/ ~again => thread[u].at # "idle"
      BY <1>3
    <3>2. CASE u[1] # c
      BY <1>1, <1>2, <1>5, <3>1, <3>2 DEF Lawful, Timely
    <3>3. CASE u[1] = c
      BY <1>1, <1>2, <3>1, <3>3 DEF Lawful, Timely
    <3> QED
      BY <3>2, <3>3
  <2>2. \A d \in Calls : call'[d].attempt = 2 => call'[d].late /\ call'[d].errand.by = "tool"
    BY <1>1, <1>2, ZenonT(60) DEF Lawful, Timely
  <2>3. \A d \in Calls : call'[d].at \in {"answered", "closed"} /\ ~call'[d].late =>
           ~Working(<<d, 1>>)'
    <3> SUFFICES ASSUME NEW d \in Calls, call'[d].at \in {"answered", "closed"}, ~call'[d].late
                 PROVE  ~Working(<<d, 1>>)'
      OBVIOUS
    <3>1. d # c /\ <<d, 1>> \in Threads /\ <<d, 1>> # t
      BY <1>2 DEF Threads, Attempts
    <3> QED
      BY <1>2, <1>3, <3>1 DEF Lawful, Timely, Working
  <2> QED
    BY <2>1, <2>2, <2>3 DEF Timely
<1>8. AnswerInv'
  <2>1. AnswerLaw(c)'
    BY <1>2 DEF AnswerLaw
  <2> QED
    BY <1>1, <1>2, <2>1, AnswersKept
<1>9. again => ~HasEvidence(thread'[t].at, Errand(t))
  BY <1>1, <1>3 DEF HasEvidence, Errand
<1>10. \A d \in Calls : call[d].late => call'[d].late
  BY <1>2
<1> HIDE DEF t, again
<1> QED
  BY <1>1, <1>3, <1>4, <1>5, <1>6, <1>7, <1>8, <1>9, <1>10, RowsKept

\* Closing a call commits what its session holds, or drops it.
LEMMA CloseMoves ==
    ASSUME Lawful, NEW c \in Calls, Close(c)
    PROVE  /\ Shaped' /\ Timely' /\ thread' = thread
           /\ \A u \in Threads : u[1] \in Calls /\ Errand(u)' = Errand(u)
           /\ \A d \in Calls : d # c => call'[d] = call[d] /\ held'[d] = held[d]
           /\ \A d \in Calls : d # c => (d \in broken' <=> d \in broken)
           /\ DOMAIN held'[c] = {} /\ c \notin broken'
           /\ call[c].at = "answered" /\ call'[c].at = "closed"
           /\ call'[c].errand = call[c].errand /\ call'[c].late = call[c].late
           /\ call'[c].doc = call[c].doc /\ call'[c].evidence = call[c].evidence
           /\ call'[c].verdict = IF c \in broken THEN "error" ELSE call[c].verdict
<1>1. /\ DOMAIN call = Calls /\ DOMAIN call[c] = CallFields /\ DOMAIN held = Calls
      /\ call[c].at = "answered" /\ thread' = thread /\ broken' = broken \ {c}
  BY DEF Lawful, Shaped, Close
<1>2. call' = [call EXCEPT ![c] = [call[c] EXCEPT !.at = "closed",
                                      !.verdict = IF c \in broken THEN "error" ELSE call[c].verdict]]
  BY DEF Close
<1>3. /\ DOMAIN call' = Calls /\ \A d \in Calls : d # c => call'[d] = call[d]
      /\ DOMAIN call'[c] = CallFields /\ call'[c].errand = call[c].errand
      /\ call'[c].at = "closed" /\ call'[c].attempt = call[c].attempt
      /\ call'[c].since = call[c].since /\ call'[c].late = call[c].late
      /\ call'[c].doc = call[c].doc /\ call'[c].evidence = call[c].evidence
      /\ call'[c].verdict = IF c \in broken THEN "error" ELSE call[c].verdict
  BY <1>1, <1>2 DEF CallFields
<1>4. held' = [held EXCEPT ![c] = << >>]
  BY DEF Close, Commit
<1>5. /\ DOMAIN held' = Calls /\ DOMAIN held'[c] = {}
      /\ \A d \in Calls : d # c => held'[d] = held[d]
  BY <1>1, <1>4, NoRows
<1>6. \A u \in Threads : u[1] \in Calls /\ Errand(u)' = Errand(u)
  BY <1>3, ThreadsPair DEF Errand
<1>7. Shaped'
  BY <1>1, <1>3, <1>5 DEF Shaped, Lawful
<1>8. Timely'
  <2>1. \A u \in Threads : thread'[u].at # "idle" =>
           call'[u[1]].at # "waiting" /\ (u[2] = 2 => call'[u[1]].attempt = 2)
    BY <1>1, <1>3, <1>6 DEF Lawful, Timely
  <2>2. \A d \in Calls : call'[d].attempt = 2 => call'[d].late /\ call'[d].errand.by = "tool"
    BY <1>1, <1>3, ZenonT(60) DEF Lawful, Timely
  <2>3. \A d \in Calls : call'[d].at \in {"answered", "closed"} /\ ~call'[d].late =>
           ~Working(<<d, 1>>)'
    BY <1>1, <1>3 DEF Lawful, Timely, Working
  <2> QED
    BY <2>1, <2>2, <2>3 DEF Timely
<1> QED
  BY <1>1, <1>3, <1>5, <1>6, <1>7, <1>8

LEMMA CloseStores ==
    ASSUME Lawful, NEW c \in Calls, Close(c)
    PROVE  LET dropped == ByRoute(c) \/ c \in broken IN
           /\ Extends(stored', stored) /\ \A d \in DOMAIN stored : stored'[d] = stored[d]
           /\ dropped => stored' = stored
           /\ ~dropped => /\ DOMAIN stored' = DOMAIN stored \cup DOMAIN held[c]
                          /\ \A d \in DOMAIN held[c] : stored'[d] = held[c][d]
<1> DEFINE dropped == ByRoute(c) \/ c \in broken
<1>1. CASE dropped
  <2>1. stored' = stored
    BY <1>1 DEF Close, ByRoute
  <2> QED
    BY <1>1, <2>1, ExtendsItself
<1>2. CASE ~dropped
  <2>1. stored' = Visible(c)
    BY <1>2 DEF Close, ByRoute, Commit
  <2>2. \A d \in DOMAIN held[c] : d \notin DOMAIN stored
    BY DEF Lawful, HeldRows, SessionLaw
  <2>3. /\ DOMAIN stored' = DOMAIN stored \cup DOMAIN held[c]
        /\ \A d \in DOMAIN stored : stored'[d] = stored[d]
        /\ \A d \in DOMAIN held[c] : stored'[d] = held[c][d]
    BY <2>1, <2>2 DEF Visible
  <2>4. Extends(stored', stored)
    BY <2>3 DEF Extends
  <2> HIDE DEF dropped
  <2>5. /\ Extends(stored', stored) /\ \A d \in DOMAIN stored : stored'[d] = stored[d]
        /\ dropped => stored' = stored
        /\ ~dropped => /\ DOMAIN stored' = DOMAIN stored \cup DOMAIN held[c]
                       /\ \A d \in DOMAIN held[c] : stored'[d] = held[c][d]
    BY <1>2, <2>3, <2>4
  <2> QED
    BY <2>5 DEF dropped
<1> QED
  BY <1>1, <1>2

LEMMA CloseKeeps ==
    ASSUME Lawful, NEW c \in Calls, Close(c)
    PROVE  Lawful'
<1> DEFINE dropped == ByRoute(c) \/ c \in broken
<1>1. /\ Shaped' /\ Timely' /\ thread' = thread
      /\ \A u \in Threads : u[1] \in Calls /\ Errand(u)' = Errand(u)
      /\ \A d \in Calls : d # c => call'[d] = call[d] /\ held'[d] = held[d]
      /\ \A d \in Calls : d # c => (d \in broken' <=> d \in broken)
      /\ DOMAIN held'[c] = {} /\ c \notin broken'
      /\ call[c].at = "answered" /\ call'[c].at = "closed"
      /\ call'[c].errand = call[c].errand /\ call'[c].late = call[c].late
      /\ call'[c].doc = call[c].doc /\ call'[c].evidence = call[c].evidence
      /\ call'[c].verdict = IF c \in broken THEN "error" ELSE call[c].verdict
  BY CloseMoves
<1>2. /\ Extends(stored', stored) /\ \A d \in DOMAIN stored : stored'[d] = stored[d]
      /\ dropped => stored' = stored
      /\ ~dropped => /\ DOMAIN stored' = DOMAIN stored \cup DOMAIN held[c]
                     /\ \A d \in DOMAIN held[c] : stored'[d] = held[c][d]
  BY CloseStores
<1> HIDE DEF dropped
<1>3. EvidenceInv'
  BY <1>1, <1>2, GroundedStays DEF Lawful, EvidenceInv
<1>4. ASSUME NEW d, NEW row, Inserted(stored, thread[d], Errand(d), d, row)
      PROVE  d \in Threads /\ Inserted(stored', thread'[d], Errand(d)', d, row)
  <2>1. d \in Threads /\ thread'[d] = thread[d] /\ Errand(d)' = Errand(d)
    BY <1>1, <1>4 DEF Inserted
  <2> QED
    BY <1>2, <1>4, <2>1, InsertedStays
<1>5. ASSUME NEW d \in DOMAIN held[c]
      PROVE  /\ d \in Threads /\ d[1] = c /\ d \notin DOMAIN stored
             /\ Inserted(stored', thread'[d], Errand(d)', d, held[c][d])
             /\ held[c][d].whole \/ call'[c].late
  <2>1. /\ Inserted(stored, thread[d], Errand(d), d, held[c][d])
        /\ d[1] = c /\ d \notin DOMAIN stored
        /\ held[c][d].whole \/ thread[d].at = "finish"
    BY DEF Lawful, HeldRows, SessionLaw
  <2>2. ASSUME thread[d].at = "finish"  PROVE call[c].late
    <3>1. d \in Threads /\ (d = <<c, 1>> \/ d[2] = 2)
      BY <2>1, ThreadsPair DEF Inserted
    <3>2. CASE d = <<c, 1>>
      BY <1>1, <2>2, <3>2 DEF Lawful, Timely, Working
    <3>3. CASE d[2] = 2
      BY <2>1, <2>2, <3>1, <3>3 DEF Lawful, Timely
    <3> QED
      BY <3>1, <3>2, <3>3
  <2> QED
    BY <1>1, <1>4, <2>1, <2>2
<1>6. DOMAIN stored' \subseteq DOMAIN stored \cup {u \in Threads : u[1] = c}
  BY <1>2, <1>5
<1>7. ASSUME NEW d \in Calls  PROVE SessionLaw(d)' /\ (d # c => AnswerLaw(d)')
  <2>1. CASE d = c
    BY <1>1, <2>1 DEF SessionLaw
  <2>2. CASE d # c
    BY <1>1, <1>2, <1>6, <2>2, OthersKeep
  <2> QED
    BY <2>1, <2>2
<1>8. ASSUME NEW d \in DOMAIN stored'  PROVE RowLaw(d)'
  <2>1. CASE d \in DOMAIN stored
    <3>1. RowLaw(d) /\ stored'[d] = stored[d]
      BY <1>2, <2>1 DEF Lawful, StoredRows
    <3>2. CASE d \in DOMAIN KnownDocs /\ stored[d] = KnownDocs[d]
      BY <3>1, <3>2 DEF RowLaw
    <3>3. CASE /\ Inserted(stored, thread[d], Errand(d), d, stored[d])
               /\ stored[d].whole \/ call[d[1]].late
      <4>1. d \in Threads /\ Inserted(stored', thread'[d], Errand(d)', d, stored'[d])
        BY <1>4, <3>1, <3>3
      <4>2. call[d[1]].late => call'[d[1]].late
        BY <1>1, <4>1
      <4> QED
        BY <3>1, <3>3, <4>1, <4>2 DEF RowLaw
    <3> QED
      BY <3>1, <3>2, <3>3 DEF RowLaw
  <2>2. CASE d \in DOMAIN held[c] /\ stored'[d] = held[c][d]
    <3>1. Inserted(stored', thread'[d], Errand(d)', d, stored'[d])
      BY <1>5, <2>2
    <3>2. stored'[d].whole \/ call'[d[1]].late
      BY <1>5, <2>2
    <3> QED
      BY <3>1, <3>2 DEF RowLaw
  <2> QED
    BY <1>2, <2>1, <2>2
<1>9. KeysDiffer'
  <2>1. \A d \in DOMAIN stored' :
           \/ d \in DOMAIN stored /\ stored'[d].identity = stored[d].identity
           \/ /\ d \in DOMAIN held[c] /\ stored'[d].identity = held[c][d].identity
              /\ DOMAIN held'[c] = {}
    BY <1>1, <1>2
  <2>2. \A e \in Calls : \A d \in DOMAIN held'[e] :
           d \in DOMAIN held[e] /\ held'[e][d].identity = held[e][d].identity
    BY <1>1
  <2> QED
    BY <2>1, <2>2, KeysStay
<1>10. AnswerLaw(c)'
  <2>1. CASE c \in broken
    BY <1>1, <2>1, UnansweredIsLawful
  <2>2. CASE c \notin broken
    <3>1. AnswerLaw(c) /\ (ByRoute(c)' <=> ByRoute(c))
      BY <1>1 DEF Lawful, AnswerInv, ByRoute
    <3>2. ASSUME Suits(stored, call[c])  PROVE Suits(stored', call'[c])
      <4>1. Suits(stored', call[c])
        BY <1>2, <3>2, SuitsStays
      <4> QED
        BY <1>1, <4>1 DEF Suits
    <3>3. ASSUME ~ByRoute(c), Suits(held[c], call[c])  PROVE Suits(stored', call'[c])
      <4>1. ~dropped
        BY <2>2, <3>3 DEF dropped
      <4> QED
        BY <1>1, <1>2, <3>3, <4>1 DEF Suits
    <3> QED
      BY <1>1, <2>2, <3>1, <3>2, <3>3 DEF AnswerLaw
  <2> QED
    BY <2>1, <2>2
<1>11. HeldRows' /\ StoredRows' /\ AnswerInv'
  BY <1>7, <1>8, <1>10 DEF HeldRows, StoredRows, AnswerInv
<1> QED
  BY <1>1, <1>3, <1>9, <1>11 DEF Lawful

-----------------------------------------------------------------------------
(* Documents are exact.                                                     *)

LEMMA NothingMoves ==
    ASSUME Lawful, UNCHANGED <<stored, held, broken, call, thread>>
    PROVE  Lawful'
<1>1. Shaped' /\ Timely' /\ EvidenceInv' /\ KeysDiffer' /\ AnswerInv'
  BY DEF Lawful, Shaped, Timely, Working, EvidenceInv, Errand, KeysDiffer, AnswerInv, AnswerLaw, ByRoute
<1>2. HeldRows' /\ StoredRows'
  BY DEF Lawful, HeldRows, SessionLaw, StoredRows, RowLaw, Errand
<1> QED
  BY <1>1, <1>2 DEF Lawful

LEMMA DocsInitIsLawful ==
    ASSUME DocsInit
    PROVE  Lawful
<1>1. PICK errand \in [Calls -> Errands] :
         call = [c \in Calls |-> [at |-> "waiting", errand |-> errand[c], attempt |-> 0,
                                  since |-> 0, late |-> FALSE, verdict |-> "none",
                                  doc |-> NoDoc, evidence |-> NoDoc]]
  BY DEF DocsInit, DocsWith
<1>2. /\ DOMAIN call = Calls
      /\ \A c \in Calls : /\ DOMAIN call[c] = CallFields /\ call[c].errand \in Errands
                          /\ call[c].at = "waiting" /\ call[c].since = 0
                          /\ call[c].attempt = 0 /\ call[c].verdict = "none"
  BY <1>1 DEF CallFields
<1>3. /\ DOMAIN thread = Threads
      /\ \A t \in Threads : DOMAIN thread[t] = {"at", "evidence"} /\ thread[t].at = "idle"
  BY DEF DocsInit, DocsWith
<1>4. /\ stored = KnownDocs /\ broken = {} /\ DOMAIN held = Calls
      /\ \A c \in Calls : DOMAIN held[c] = {}
  BY NoRows DEF DocsInit, DocsWith
<1>5. Shaped
  BY <1>2, <1>3, <1>4 DEF Shaped, Steps
<1>6. Timely /\ EvidenceInv /\ AnswerInv
  BY <1>2, <1>3 DEF Timely, EvidenceInv, HasEvidence, AnswerInv, AnswerLaw
<1>7. HeldRows /\ StoredRows /\ KeysDiffer
  BY <1>4, DocumentsAssumption DEF HeldRows, SessionLaw, StoredRows, RowLaw, KeysDiffer
<1> QED
  BY <1>5, <1>6, <1>7 DEF Lawful

\* What the calls of agents and routes keep between them, whatever overlaps: keys differ
\* wherever a row is, and what was gathered stays (the code DocumentsAreExact names).
THEOREM DocumentsAreLawful == DocsSpec => []Lawful
<1>1. DocsInit => Lawful
  BY DocsInitIsLawful
<1>2. Lawful /\ [DocsNext]_docVars => Lawful'
  <2> SUFFICES ASSUME Lawful, [DocsNext]_docVars  PROVE Lawful'
    OBVIOUS
  <2>1. CASE UNCHANGED docVars
    BY <2>1, NothingMoves DEF docVars
  <2>2. CASE \E r \in Finished : ReplaceResults(r)
    BY <2>2, NothingMoves DEF ReplaceResults
  <2>3. CASE \E c \in Calls : Arrive(c) \/ TimeOut(c) \/ Close(c)
    BY <2>3, ArriveKeeps, TimeOutKeeps, CloseKeeps
  <2>4. CASE \E t \in Threads :
                Gather(t) \/ LookUpKey(t) \/ Insert(t) \/ Finish(t) \/ RaisesBroken(t)
    BY <2>4, GatherKeeps, LookUpKeyKeeps, InsertKeeps, FinishKeeps, RaisesBrokenKeeps
  <2> QED
    BY <2>1, <2>2, <2>3, <2>4 DEF DocsNext
<1> QED
  BY <1>1, <1>2, PTL DEF DocsSpec

LEMMA LawfulIsExact ==
    ASSUME Lawful
    PROVE  DocumentsAreExact
<1>1. AnswersAreKept
  BY DEF Lawful, AnswerInv, AnswerLaw, AnswersAreKept, Made, Suits, ByRoute
<1>2. KeysAreUnique
  BY DEF Lawful, KeysDiffer, KeysAreUnique
<1>3. ASSUME NEW d \in DOMAIN stored \ DOMAIN KnownDocs
      PROVE  /\ Inserted(stored, thread[d], Errand(d), d, stored[d])
             /\ stored[d].whole \/ call[d[1]].late
  BY DEF Lawful, StoredRows, RowLaw
<1>4. SourcesAreStored
  <2> SUFFICES ASSUME NEW d \in DOMAIN stored \ DOMAIN KnownDocs, NEW s \in stored[d].evidence.from
               PROVE  /\ s \in DOMAIN stored
                      /\ stored[s].identity[1] # "plan" =>
                            stored[s].identity[2] \in {stored[d].identity[2], stored[d].identity[3]}
    BY DEF SourcesAreStored
  <2>1. /\ stored[d].identity = KeyColumns(Errand(d), d)
        /\ Grounded(stored, stored[d].evidence, Errand(d))
    BY <1>3 DEF Inserted
  <2>2. stored[d].identity[2] = Errand(d).run /\ stored[d].identity[3] = Errand(d).base
    BY <2>1 DEF KeyColumns
  <2> QED
    BY <2>1, <2>2 DEF Grounded
<1>5. StoredIsWhole
  BY <1>3 DEF StoredIsWhole
<1> QED
  BY <1>1, <1>2, <1>4, <1>5 DEF DocumentsAreExact

\* Whatever is asked for at once, again or by an attempt that has outlived its time, an
\* answer names a document that is kept and was asked for, a key names one document, and a
\* document is made from what is stored (the code DocumentsAreExact names).
THEOREM DocumentsHold == DocsSpec => []DocumentsAreExact
  BY DocumentsAreLawful, LawfulIsExact, PTL

-----------------------------------------------------------------------------
-----------------------------------------------------------------------------
(* The verdicts of a comparison.                                            *)

\* A comparison is made of two snapshots, and is what BuildComparison says of them.
Built ==
    /\ baseline \in Snapshots /\ current \in Snapshots
    /\ comparison \in {NoComparison, BuildComparison(baseline, current)}

LEMMA SeverityOfFinding ==
    ASSUME NEW s \in Snapshots, NEW key \in FindingKeys(s)
    PROVE  Finding(s, key).severity \in Int
<1> DEFINE same == {f \in s.findings : KeyOf(f) = key}
<1>1. same # {} /\ \A f \in same : f.severity \in Int
  BY ComparisonAssumption DEF FindingKeys
<1>2. (CHOOSE f \in same : TRUE) \in same
  BY <1>1
<1>3. Finding(s, key).severity = (CHOOSE f \in same : TRUE).severity
  BY DEF Finding
<1> QED
  BY <1>1, <1>2, <1>3

LEMMA FewKeys ==
    ASSUME NEW s \in Snapshots
    PROVE  IsFiniteSet(FindingKeys(s))
<1> DEFINE keys == [f \in s.findings |-> KeyOf(f)]
<1>1. IsFiniteSet(s.findings)
  BY ComparisonAssumption
<1>2. keys \in Surjection(s.findings, FindingKeys(s))
  BY DEF FindingKeys, Surjection
<1> QED
  BY <1>1, <1>2, FS_Surjection

LEMMA TwoParts ==
    ASSUME NEW A, NEW B, IsFiniteSet(A), IsFiniteSet(B), A \cap B = {}
    PROVE  /\ IsFiniteSet(A \cup B)
           /\ Cardinality(A \cup B) = Cardinality(A) + Cardinality(B)
<1>1. Cardinality(A) \in Nat /\ Cardinality(B) \in Nat /\ Cardinality(A \cap B) = 0
  BY FS_CardinalityType, FS_EmptySet
<1>2. /\ IsFiniteSet(A \cup B)
      /\ Cardinality(A \cup B) = Cardinality(A) + Cardinality(B) - Cardinality(A \cap B)
  BY FS_Union
<1> QED
  BY <1>1, <1>2

\* The sizes of four parts, none of which meets another.
LEMMA FourParts ==
    ASSUME NEW A, NEW B, NEW C, NEW D,
           IsFiniteSet(A), IsFiniteSet(B), IsFiniteSet(C), IsFiniteSet(D),
           A \cap B = {}, (A \cup B) \cap C = {}, (A \cup B \cup C) \cap D = {}
    PROVE  Cardinality(A) + Cardinality(B) + Cardinality(C) + Cardinality(D)
              = Cardinality(A \cup B \cup C \cup D)
<1> DEFINE AB == A \cup B
           ABC == AB \cup C
<1>1. IsFiniteSet(AB) /\ Cardinality(AB) = Cardinality(A) + Cardinality(B)
  BY TwoParts
<1>2. AB \cap C = {} /\ ABC \cap D = {}
  OBVIOUS
<1> HIDE DEF AB
<1>3. IsFiniteSet(ABC) /\ Cardinality(ABC) = Cardinality(AB) + Cardinality(C)
  BY <1>1, <1>2, TwoParts
<1> HIDE DEF ABC
<1>4. Cardinality(ABC \cup D) = Cardinality(ABC) + Cardinality(D)
  BY <1>2, <1>3, TwoParts
<1> QED
  BY <1>1, <1>3, <1>4 DEF AB, ABC

LEMMA VerdictsPartition ==
    ASSUME NEW before \in Snapshots, NEW after \in Snapshots
    PROVE  LET f == CompareFindings(before, after)
               outcomes == {f.resolved, f.persistent, f.new, f.inconclusive} IN
           /\ UNION outcomes = FindingKeys(before) \cup FindingKeys(after)
           /\ Cardinality(f.resolved) + Cardinality(f.persistent) + Cardinality(f.new)
                + Cardinality(f.inconclusive) = Cardinality(UNION outcomes)
           /\ f.regressions \cap (f.resolved \cup f.inconclusive \cup f.improved) = {}
<1> DEFINE f == CompareFindings(before, after)
           old == FindingKeys(before)
           now == FindingKeys(after)
           new == {key \in now \ old : ComparableNew(before, after, key)}
           resolved == Resolved(before, after)
           unclear == ((old \ now) \ resolved) \cup ((now \ old) \ new)
           direction(key) == Movement(Finding(after, key).severity, Finding(before, key).severity)
<1>1. /\ f.resolved = resolved /\ f.persistent = old \cap now /\ f.new = new
      /\ f.inconclusive = unclear
      /\ f.improved = {key \in old \cap now : direction(key) = "Improved"}
      /\ f.regressions = new \cup {key \in old \cap now : direction(key) = "Regressed"}
  BY DEF CompareFindings, Gone
<1>2. resolved \subseteq old \ now /\ new \subseteq now \ old
  BY DEF Resolved, Gone
<1>3. IsFiniteSet(old) /\ IsFiniteSet(now)
  BY FewKeys
<1> HIDE DEF f, new, resolved, old, now, direction
<1>4. resolved \cup (old \cap now) \cup new \cup unclear = old \cup now
  BY <1>2
<1>5. /\ IsFiniteSet(resolved) /\ IsFiniteSet(old \cap now) /\ IsFiniteSet(new)
      /\ IsFiniteSet(unclear)
  <2>1. IsFiniteSet(old \cup now)
    BY <1>3, FS_Union
  <2>2. /\ resolved \subseteq old \cup now /\ old \cap now \subseteq old \cup now
        /\ new \subseteq old \cup now /\ unclear \subseteq old \cup now
    BY <1>2
  <2> QED
    BY <2>1, <2>2, FS_Subset
<1>6. /\ resolved \cap (old \cap now) = {} /\ (resolved \cup (old \cap now)) \cap new = {}
      /\ (resolved \cup (old \cap now) \cup new) \cap unclear = {}
  BY <1>2
<1>7. UNION {f.resolved, f.persistent, f.new, f.inconclusive}
         = resolved \cup (old \cap now) \cup new \cup unclear
  BY <1>1
<1>8. Cardinality(f.resolved) + Cardinality(f.persistent) + Cardinality(f.new)
         + Cardinality(f.inconclusive)
         = Cardinality(UNION {f.resolved, f.persistent, f.new, f.inconclusive})
  <2> HIDE DEF unclear
  <2> QED
    BY <1>1, <1>5, <1>6, <1>7, FourParts
<1>9. f.regressions \cap (f.resolved \cup f.inconclusive \cup f.improved) = {}
  BY <1>1, <1>2
<1> QED
  BY <1>4, <1>7, <1>8, <1>9 DEF f, old, now

\* No fewer pages were analysed, so those lost are no more than those gained.
LEMMA LostAtMostGained ==
    ASSUME NEW A, NEW B, IsFiniteSet(A), IsFiniteSet(B), Cardinality(A) >= Cardinality(B)
    PROVE  Cardinality(B \ A) <= Cardinality(A \ B)
<1>1. /\ Cardinality(B \ A) = Cardinality(B) - Cardinality(B \cap A)
      /\ Cardinality(A \ B) = Cardinality(A) - Cardinality(A \cap B)
  BY FS_Difference
<1>2. A \cap B = B \cap A /\ IsFiniteSet(A \cap B)
  BY FS_Intersection
<1>3. Cardinality(A) \in Nat /\ Cardinality(B) \in Nat /\ Cardinality(A \cap B) \in Nat
  BY <1>2, FS_CardinalityType
<1> QED
  BY <1>1, <1>2, <1>3

LEMMA ResolvedWasLookedFor ==
    ASSUME NEW before \in Snapshots, NEW after \in Snapshots, NEW f \in before.findings,
           KeyOf(f) \in Resolved(before, after)
    PROVE  /\ \A page \in f.pages :
                 /\ page \in after.analysed
                 /\ \A e \in f.engines : /\ <<page, e>> \in DOMAIN after.matrix
                                         /\ after.matrix[<<page, e>>] \notin Untested
           /\ \A g \in after.findings : KeyOf(g) # KeyOf(f)
           /\ Cardinality(before.analysed \ after.analysed)
                <= Cardinality(after.analysed \ before.analysed)
<1> DEFINE key == KeyOf(f)
           pages == Finding(before, key).pages
<1>1. /\ key \notin FindingKeys(after) /\ pages \subseteq after.analysed
      /\ Cardinality(after.analysed) >= Cardinality(before.analysed)
      /\ pages \X key.engines \subseteq BrowserPairs(after)
  BY DEF Resolved, Gone, ComparableOld
<1>2. f.pages \subseteq pages /\ key.engines = f.engines
  BY DEF Finding, KeyOf
<1>3. \A g \in after.findings : KeyOf(g) # key
  BY <1>1 DEF FindingKeys
<1>4. Cardinality(before.analysed \ after.analysed) <= Cardinality(after.analysed \ before.analysed)
  <2>1. IsFiniteSet(before.analysed) /\ IsFiniteSet(after.analysed)
    BY ComparisonAssumption
  <2> QED
    BY <1>1, <2>1, LostAtMostGained
<1> HIDE DEF pages
<1>5. ASSUME NEW page \in f.pages  PROVE
         /\ page \in after.analysed
         /\ \A e \in f.engines : /\ <<page, e>> \in DOMAIN after.matrix
                                 /\ after.matrix[<<page, e>>] \notin Untested
  <2>1. \A e \in f.engines : <<page, e>> \in BrowserPairs(after)
    BY <1>1, <1>2
  <2> QED
    BY <1>1, <1>2, <2>1 DEF BrowserPairs
<1> QED
  BY <1>3, <1>4, <1>5

LEMMA ImprovedWasTested ==
    ASSUME NEW before, NEW after, NEW e, CompareEngine(before, after, e).direction = "Improved",
           NEW pair \in DOMAIN before.matrix, pair[2] = e, before.matrix[pair] \notin Untested
    PROVE  /\ pair \in DOMAIN after.matrix /\ after.matrix[pair] \notin Untested
           /\ after.matrix[pair] = "incompatible" => before.matrix[pair] = "incompatible"
<1> DEFINE common == Tested(before, e) \cap Tested(after, e)
           missing == Tested(before, e) \ Tested(after, e)
           fails(s) == {p \in common : s.matrix[p] = "incompatible"}
<1>1. missing = {} /\ fails(after) \ fails(before) = {}
  BY DEF CompareEngine
<1>2. pair \in Tested(before, e)
  BY DEF Tested, BrowserPairs
<1>3. pair \in Tested(after, e)
  BY <1>1, <1>2
<1>4. pair \in DOMAIN after.matrix /\ after.matrix[pair] \notin Untested
  BY <1>3 DEF Tested, BrowserPairs
<1> QED
  BY <1>1, <1>2, <1>3, <1>4

LEMMA MovementTurns ==
    ASSUME NEW from \in Int \cup {NoScore}, NEW to \in Int \cup {NoScore}
    PROVE  /\ Movement(to, from) = Opposite(Movement(from, to))
           /\ Movement(from, to) = "Improved" <=> Movement(to, from) = "Regressed"
<1>1. /\ Opposite("Improved") = "Regressed" /\ Opposite("Regressed") = "Improved"
      /\ Opposite("Unchanged") = "Unchanged" /\ Opposite("Not comparable") = "Not comparable"
  BY DEF Opposite
<1>2. CASE from = NoScore \/ to = NoScore
  BY <1>1, <1>2 DEF Movement
<1>3. CASE from \in Int /\ to \in Int
  <2>1. from # NoScore /\ to # NoScore
    BY <1>3, ComparisonAssumption
  <2>2. CASE from = to
    BY <1>1, <2>1, <2>2 DEF Movement
  <2>3. CASE from < to
    <3>1. Movement(from, to) = "Improved" /\ Movement(to, from) = "Regressed"
      BY <1>3, <2>1, <2>3 DEF Movement
    <3> QED
      BY <1>1, <3>1
  <2>4. CASE to < from
    <3>1. Movement(to, from) = "Improved" /\ Movement(from, to) = "Regressed"
      BY <1>3, <2>1, <2>4 DEF Movement
    <3> QED
      BY <1>1, <3>1
  <2> QED
    BY <1>3, <2>2, <2>3, <2>4
<1> QED
  BY <1>2, <1>3

\* What BuildComparison is made of.
LEMMA BuiltOf ==
    ASSUME NEW before, NEW after
    PROVE  LET c == BuildComparison(before, after) IN
           /\ c.findings = CompareFindings(before, after)
           /\ c.scores = CompareScores(before, after)
           /\ \A e \in Engines : c.engines[e] = CompareEngine(before, after, e)
  BY DEF BuildComparison

\* Of the findings both analyses have, those that improved one way regressed the other.
LEMMA FindingsTurn ==
    ASSUME NEW before \in Snapshots, NEW after \in Snapshots
    PROVE  LET there == CompareFindings(before, after)
               back  == CompareFindings(after, before) IN
           /\ there.resolved \subseteq back.new
           /\ there.persistent = back.persistent
           /\ there.improved = back.regressions \cap back.persistent
<1> DEFINE old == FindingKeys(before)
           now == FindingKeys(after)
           there == CompareFindings(before, after)
           back == CompareFindings(after, before)
           rise(key) == Movement(Finding(after, key).severity, Finding(before, key).severity)
           fall(key) == Movement(Finding(before, key).severity, Finding(after, key).severity)
           news == {key \in old \ now : ComparableNew(after, before, key)}
<1>1. /\ there.resolved = Resolved(before, after) /\ there.persistent = old \cap now
      /\ there.improved = {key \in old \cap now : rise(key) = "Improved"}
  BY DEF CompareFindings
<1>2. /\ back.new = news /\ back.persistent = now \cap old
      /\ back.regressions = news \cup {key \in now \cap old : fall(key) = "Regressed"}
  BY DEF CompareFindings
<1>3. Resolved(before, after) \subseteq news
  BY DEF Resolved, Gone, ComparableOld, ComparableNew
<1>4. \A key \in old \cap now : rise(key) = "Improved" <=> fall(key) = "Regressed"
  BY SeverityOfFinding, MovementTurns
<1>5. news \cap (now \cap old) = {}
  OBVIOUS
<1> HIDE DEF there, back, rise, fall, news, old, now
<1>6. there.improved = back.regressions \cap back.persistent
  BY <1>1, <1>2, <1>4, <1>5
<1> QED
  BY <1>1, <1>2, <1>3, <1>6 DEF there, back

LEMMA ScoresTurn ==
    ASSUME NEW before \in Snapshots, NEW after \in Snapshots, NEW c \in DOMAIN before.scores
    PROVE  CompareScores(before, after).direction[c]
              = Opposite(CompareScores(after, before).direction[c])
<1> DEFINE same == before.formula # NoScore /\ before.formula = after.formula
           was == before.scores[c]
           is == after.scores[c]
<1>1. c \in DOMAIN after.scores /\ was \in Int \cup {NoScore} /\ is \in Int \cup {NoScore}
  BY ComparisonAssumption
<1>2. /\ CompareScores(before, after).direction[c]
            = IF same THEN Movement(was, is) ELSE "Not comparable"
      /\ CompareScores(after, before).direction[c]
            = IF same THEN Movement(is, was) ELSE "Not comparable"
  BY <1>1 DEF CompareScores
<1> HIDE DEF was, is, same
<1>3. Movement(was, is) = Opposite(Movement(is, was))
  BY <1>1, MovementTurns
<1>4. Opposite("Not comparable") = "Not comparable"
  BY DEF Opposite
<1> QED
  BY <1>2, <1>3, <1>4

LEMMA EnginesTurn ==
    ASSUME NEW before, NEW after, NEW e
    PROVE  CompareEngine(before, after, e).mended = CompareEngine(after, before, e).broken
<1>1. Tested(before, e) \cap Tested(after, e) = Tested(after, e) \cap Tested(before, e)
  OBVIOUS
<1> QED
  BY <1>1 DEF CompareEngine

LEMMA NothingNewOfItself ==
    ASSUME NEW s \in Snapshots
    PROVE  LET f == CompareFindings(s, s) IN
           f.regressions = {} /\ f.resolved = {} /\ f.inconclusive = {}
<1> DEFINE keys == FindingKeys(s)
           f == CompareFindings(s, s)
           direction(key) == Movement(Finding(s, key).severity, Finding(s, key).severity)
<1>1. /\ f.resolved = {key \in keys \ keys : ComparableOld(s, s, key)}
      /\ f.regressions = {key \in keys \ keys : ComparableNew(s, s, key)}
                            \cup {key \in keys \cap keys : direction(key) = "Regressed"}
  BY DEF CompareFindings, Resolved, Gone
<1>2. f.inconclusive \subseteq keys \ keys
  BY DEF CompareFindings, Gone
<1>3. \A key \in keys : direction(key) # "Regressed"
  BY DEF Movement
<1> HIDE DEF f, direction, keys
<1>4. f.regressions = {} /\ f.resolved = {} /\ f.inconclusive = {}
  BY <1>1, <1>2, <1>3
<1> QED
  BY <1>4 DEF f

LEMMA BuiltIsEarned ==
    ASSUME Built
    PROVE  VerdictsAreEarned
<1> SUFFICES ASSUME Compared  PROVE VerdictsAreEarned
  BY DEF VerdictsAreEarned, OneVerdictEach, ResolvedIsEarned, SwapIsSymmetric
<1> DEFINE back == BuildComparison(current, baseline)
<1>1. /\ baseline \in Snapshots /\ current \in Snapshots
      /\ comparison = BuildComparison(baseline, current)
  BY DEF Built, Compared
<1>2. /\ comparison.findings = CompareFindings(baseline, current)
      /\ comparison.scores = CompareScores(baseline, current)
      /\ \A e \in Engines : comparison.engines[e] = CompareEngine(baseline, current, e)
  BY <1>1, BuiltOf
<1>3. /\ back.findings = CompareFindings(current, baseline)
      /\ back.scores = CompareScores(current, baseline)
      /\ \A e \in Engines : back.engines[e] = CompareEngine(current, baseline, e)
  BY BuiltOf
<1>4. OneVerdictEach
  BY <1>1, <1>2, VerdictsPartition DEF OneVerdictEach
<1>5. ResolvedIsEarned
  <2>1. comparison.findings.resolved = Resolved(baseline, current)
    BY <1>2 DEF CompareFindings
  <2>2. ASSUME NEW f \in baseline.findings, KeyOf(f) \in comparison.findings.resolved
        PROVE
           /\ \A page \in f.pages : page \in current.analysed
                 /\ \A e \in f.engines : /\ <<page, e>> \in DOMAIN current.matrix
                                         /\ current.matrix[<<page, e>>] \notin Untested
           /\ \A g \in current.findings : KeyOf(g) # KeyOf(f)
           /\ Cardinality(baseline.analysed \ current.analysed)
                <= Cardinality(current.analysed \ baseline.analysed)
    <3>1. KeyOf(f) \in Resolved(baseline, current)
      BY <2>1, <2>2
    <3> QED
      BY <1>1, <3>1, ResolvedWasLookedFor
  <2>3. \A e \in Engines : comparison.engines[e].direction = "Improved" =>
           \A pair \in DOMAIN baseline.matrix :
               pair[2] = e /\ baseline.matrix[pair] \notin Untested =>
                   /\ pair \in DOMAIN current.matrix /\ current.matrix[pair] \notin Untested
                   /\ current.matrix[pair] = "incompatible"
                        => baseline.matrix[pair] = "incompatible"
    BY <1>2, ImprovedWasTested
  <2> QED
    BY <2>2, <2>3 DEF ResolvedIsEarned
<1>6. SwapIsSymmetric
  <2> HIDE DEF back
  <2>1. /\ comparison.findings.resolved \subseteq back.findings.new
        /\ comparison.findings.persistent = back.findings.persistent
        /\ comparison.findings.improved = back.findings.regressions \cap back.findings.persistent
    BY <1>1, <1>2, <1>3, FindingsTurn
  <2>2. \A c \in DOMAIN baseline.scores :
           comparison.scores.direction[c] = Opposite(back.scores.direction[c])
    BY <1>1, <1>2, <1>3, ScoresTurn
  <2>3. \A e \in Engines : comparison.engines[e].mended = back.engines[e].broken
    BY <1>2, <1>3, EnginesTurn
  <2>4. baseline = current => /\ comparison.findings.regressions = {}
                              /\ comparison.findings.resolved = {}
                              /\ comparison.findings.inconclusive = {}
    BY <1>1, <1>2, NothingNewOfItself
  <2> QED
    BY <2>1, <2>2, <2>3, <2>4 DEF SwapIsSymmetric, back
<1> QED
  BY <1>4, <1>5, <1>6 DEF VerdictsAreEarned

\* Whatever two analyses found and looked at, each finding has one verdict, nothing is called
\* resolved or improved that was not looked at again, and a comparison the other way round
\* says the opposite (the code VerdictsAreEarned names).
THEOREM VerdictsHold == CompareSpec => []VerdictsAreEarned
<1>1. CompareInit => Built
  BY DEF CompareInit, CompareWith, Built
<1>2. Built /\ [CompareNext]_compareVars => Built'
  BY DEF Built, CompareNext, Compare, compareVars
<1> QED
  BY <1>1, <1>2, BuiltIsEarned, PTL DEF CompareSpec

-----------------------------------------------------------------------------
-----------------------------------------------------------------------------
(* What is read of the page results for a plan.                             *)

\* A set of numbers has a least one.
LEMMA LeastNatural ==
    ASSUME NEW S \in SUBSET Nat, S # {}
    PROVE  \E m \in S : \A k \in S : m <= k
<1>1. PICK m \in S : \A k \in S : <<k, m>> \notin OpToRel(<, Nat)
  BY WFMin, NatLessThanWellFounded, Zenon
<1>2. \A k \in S : ~(k < m)
  BY <1>1, Zenon DEF OpToRel
<1> QED
  BY <1>2

\* What a function makes of a finite set is finite.
LEMMA FiniteRange ==
    ASSUME NEW S, IsFiniteSet(S), NEW f, f = [x \in S |-> f[x]]
    PROVE  IsFiniteSet({f[x] : x \in S})
<1>1. f \in Surjection(S, {f[x] : x \in S})
  BY DEF Surjection
<1> QED
  BY <1>1, FS_Surjection

LEMMA SurveyIsList ==
    ASSUME NEW pageResults \in Surveys
    PROVE  Len(pageResults) \in Nat /\ DOMAIN pageResults = 1..Len(pageResults)
<1>1. pageResults \in Seq({pageResults[i] : i \in DOMAIN pageResults})
  BY ActionPlanAssumption
<1> DEFINE taken == {pageResults[i] : i \in DOMAIN pageResults}
<1>2. pageResults \in Seq(taken)
  BY <1>1
<1> HIDE DEF taken
<1> QED
  BY <1>2

LEMMA FaultsObserved ==
    ASSUME NEW pageResults \in Surveys, NEW i \in DOMAIN pageResults
    PROVE  Observed(pageResults[i]) \in Seq(Faults)
<1> DEFINE result == pageResults[i]
<1>1. result.deep \in Seq(Faults) /\ result.observed \in Seq(DOMAIN Mapping \cup Unmapped)
  BY ActionPlanAssumption
<1> HIDE DEF result
<1>2. Len(result.observed) \in Nat /\ DOMAIN result.observed = 1..Len(result.observed)
  BY <1>1
<1>3. \A j \in DOMAIN result.observed :
         [code |-> result.observed[j], percent |-> 100, evidence |-> TRUE] \in Faults
  BY <1>1 DEF Faults, Percents
<1>4. Recommended(result) \in Seq(Faults)
  BY <1>2, <1>3 DEF Recommended
<1>5. Observed(result) \in Seq(Faults)
  BY <1>1, <1>4 DEF Observed
<1> QED
  BY <1>5 DEF result

\* Every observation is a fault of one of the results, at its place.
LEMMA ObservationIs ==
    ASSUME NEW pageResults \in Surveys, NEW o
    PROVE  o \in Observations(pageResults) <=>
             \E i \in DOMAIN pageResults : \E j \in DOMAIN Observed(pageResults[i]) :
                o = [place |-> <<i, j>>, page |-> pageResults[i].page, of |-> Observed(pageResults[i])[j]]
  BY DEF Observations

LEMMA ObservationTyped ==
    ASSUME NEW pageResults \in Surveys, NEW o \in Observations(pageResults)
    PROVE  /\ o.of \in Faults /\ o.place \in Nat \X Nat
           /\ o = [place |-> o.place, page |-> o.page, of |-> o.of]
<1>1. PICK i \in DOMAIN pageResults : \E j \in DOMAIN Observed(pageResults[i]) :
         o = [place |-> <<i, j>>, page |-> pageResults[i].page, of |-> Observed(pageResults[i])[j]]
  BY ObservationIs
<1>2. PICK j \in DOMAIN Observed(pageResults[i]) :
         o = [place |-> <<i, j>>, page |-> pageResults[i].page, of |-> Observed(pageResults[i])[j]]
  BY <1>1
<1> DEFINE seen == Observed(pageResults[i])
<1>3. seen \in Seq(Faults)
  BY FaultsObserved
<1>4. o = [place |-> <<i, j>>, page |-> pageResults[i].page, of |-> seen[j]] /\ j \in DOMAIN seen
  BY <1>2
<1> HIDE DEF seen
<1>5. i \in Nat /\ j \in Nat /\ seen[j] \in Faults
  BY <1>3, <1>4, SurveyIsList
<1> QED
  BY <1>4, <1>5

LEMMA FewObservations ==
    ASSUME NEW pageResults \in Surveys
    PROVE  IsFiniteSet(Observations(pageResults))
<1> DEFINE At(i) == {[place |-> <<i, j>>, page |-> pageResults[i].page, of |-> Observed(pageResults[i])[j]] :
                        j \in DOMAIN Observed(pageResults[i])}
           all == [i \in DOMAIN pageResults |-> At(i)]
<1>1. ASSUME NEW i \in DOMAIN pageResults  PROVE IsFiniteSet(At(i))
  <2> DEFINE seen == Observed(pageResults[i])
             one == [j \in DOMAIN seen |->
                        [place |-> <<i, j>>, page |-> pageResults[i].page, of |-> seen[j]]]
  <2>1. seen \in Seq(Faults)
    BY FaultsObserved
  <2>2. IsFiniteSet(DOMAIN seen)
    <3> HIDE DEF seen
    <3>1. Len(seen) \in Nat /\ DOMAIN seen = 1..Len(seen)
      BY <2>1
    <3> QED
      BY <3>1, FS_Interval
  <2>3. At(i) = {one[j] : j \in DOMAIN seen} /\ one = [j \in DOMAIN seen |-> one[j]]
    OBVIOUS
  <2> HIDE DEF seen, one, At
  <2>4. IsFiniteSet({one[j] : j \in DOMAIN seen})
    BY <2>2, <2>3, FiniteRange
  <2> QED
    BY <2>3, <2>4
<1>2. IsFiniteSet(DOMAIN pageResults)
  BY SurveyIsList, FS_Interval
<1>3. all = [i \in DOMAIN pageResults |-> all[i]] /\ \A i \in DOMAIN pageResults : all[i] = At(i)
  OBVIOUS
<1>4. Observations(pageResults) = UNION {all[i] : i \in DOMAIN pageResults}
  BY DEF Observations
<1> HIDE DEF all, At
<1>5. IsFiniteSet({all[i] : i \in DOMAIN pageResults})
  BY <1>2, <1>3, FiniteRange
<1>6. \A T \in {all[i] : i \in DOMAIN pageResults} : IsFiniteSet(T)
  BY <1>1, <1>3
<1> QED
  BY <1>4, <1>5, <1>6, FS_UNION

\* Of some observations one is the first.
LEMMA FirstIsOne ==
    ASSUME NEW pageResults \in Surveys, NEW some \in SUBSET Observations(pageResults), some # {}
    PROVE  First(some) \in some
<1> DEFINE rows == {o.place[1] : o \in some}
<1>1. \A o \in some : o.place[1] \in Nat /\ o.place[2] \in Nat
  BY ObservationTyped
<1>2. rows \in SUBSET Nat /\ rows # {}
  BY <1>1
<1>3. PICK i \in rows : \A k \in rows : i <= k
  BY <1>2, LeastNatural
<1> DEFINE columns == {o.place[2] : o \in {p \in some : p.place[1] = i}}
<1>4. columns \in SUBSET Nat /\ columns # {}
  BY <1>1, <1>3
<1>5. PICK j \in columns : \A k \in columns : j <= k
  BY <1>4, LeastNatural
<1>6. PICK o \in some : o.place[1] = i /\ o.place[2] = j
  BY <1>5
<1>7. ASSUME NEW p \in some  PROVE NotAfter(o, p)
  <2>1. i <= p.place[1] /\ (p.place[1] = i => j <= p.place[2])
    BY <1>3, <1>5, <1>7
  <2>2. p.place[1] \in Nat /\ i \in Nat
    BY <1>1, <1>2, <1>3
  <2> QED
    BY <1>6, <2>1, <2>2 DEF NotAfter
<1> QED
  BY <1>6, <1>7 DEF First

-----------------------------------------------------------------------------
(* The actions of a plan: one for each code that is used on a page.         *)

Pairs(pageResults) == {<<o.of.code, o.page>> : o \in Used(pageResults)}
UsedAt(pageResults, m) == {o \in Used(pageResults) : o.of.code = m[1] /\ o.page = m[2]}
ActionAt(pageResults, m) ==
    [code |-> m[1], page |-> m[2], priority |-> FirstPrice(m[1], UsedAt(pageResults, m))]
CountedAt(pageResults, m) ==
    [code |-> m[1], page |-> m[2],
     priority |-> Reconciled(pageResults, m[1], FirstPrice(m[1], UsedAt(pageResults, m)))]

\* What is used: an observation of a known code that has a page and evidence.
LEMMA UsedIs ==
    ASSUME NEW pageResults \in Surveys, NEW o \in Observations(pageResults)
    PROVE  o \in Used(pageResults) <=> o.of.code \in DOMAIN Mapping /\ o.page # NoPage /\ o.of.evidence
<1>1. o.of.evidence \in BOOLEAN
  BY ObservationTyped DEF Faults
<1> QED
  BY <1>1 DEF Used, Usable, Unsupported, Insufficient

LEMMA PairsAreHeld ==
    ASSUME NEW pageResults \in Surveys
    PROVE  /\ Pairs(pageResults) = {m \in (DOMAIN Mapping) \X PlanPages(pageResults) : Holds(pageResults, m[2], m[1])}
           /\ \A o \in Used(pageResults) : o.of.code \in DOMAIN Mapping /\ o.page \in PlanPages(pageResults)
<1>1. ASSUME NEW o \in Used(pageResults)
      PROVE  /\ o.of.code \in DOMAIN Mapping /\ o.page \in PlanPages(pageResults)
             /\ Holds(pageResults, o.page, o.of.code)
  <2>1. o \in Observations(pageResults)
    BY DEF Used
  <2>2. PICK i \in DOMAIN pageResults : \E j \in DOMAIN Observed(pageResults[i]) :
           o = [place |-> <<i, j>>, page |-> pageResults[i].page, of |-> Observed(pageResults[i])[j]]
    BY <2>1, ObservationIs
  <2>3. PICK j \in DOMAIN Observed(pageResults[i]) :
           o = [place |-> <<i, j>>, page |-> pageResults[i].page, of |-> Observed(pageResults[i])[j]]
    BY <2>2
  <2>4. o.page = pageResults[i].page /\ o.of = Observed(pageResults[i])[j]
    BY <2>3
  <2>5. o.of.code \in DOMAIN Mapping /\ o.page # NoPage /\ o.of.evidence
    BY <2>1, UsedIs
  <2> QED
    BY <2>4, <2>5 DEF Holds, PlanPages
<1>2. ASSUME NEW m \in (DOMAIN Mapping) \X PlanPages(pageResults), Holds(pageResults, m[2], m[1])
      PROVE  m \in Pairs(pageResults)
  <2>1. PICK i \in DOMAIN pageResults : pageResults[i].page = m[2] /\ \E j \in DOMAIN Observed(pageResults[i]) :
           Observed(pageResults[i])[j].code = m[1] /\ Observed(pageResults[i])[j].evidence
    BY <1>2 DEF Holds
  <2>2. PICK j \in DOMAIN Observed(pageResults[i]) :
           Observed(pageResults[i])[j].code = m[1] /\ Observed(pageResults[i])[j].evidence
    BY <2>1
  <2> DEFINE o == [place |-> <<i, j>>, page |-> pageResults[i].page, of |-> Observed(pageResults[i])[j]]
  <2>3. o \in Observations(pageResults)
    BY ObservationIs
  <2>4. o.of.code = m[1] /\ o.page = m[2] /\ o.of.evidence
    BY <2>1, <2>2
  <2> HIDE DEF o
  <2>5. o.of.code \in DOMAIN Mapping /\ o.page # NoPage
    BY <2>4 DEF PlanPages
  <2>6. o \in Used(pageResults)
    BY <2>3, <2>4, <2>5, UsedIs
  <2>7. m = <<m[1], m[2]>>
    OBVIOUS
  <2> QED
    BY <2>4, <2>6, <2>7 DEF Pairs
<1>3. ASSUME NEW m \in Pairs(pageResults)
      PROVE  m \in (DOMAIN Mapping) \X PlanPages(pageResults) /\ Holds(pageResults, m[2], m[1])
  BY <1>1 DEF Pairs
<1> QED
  BY <1>1, <1>2, <1>3

LEMMA ActionsAre ==
    ASSUME NEW pageResults \in Surveys
    PROVE  /\ ActionsOf(pageResults) = {ActionAt(pageResults, m) : m \in Pairs(pageResults)}
           /\ PlanOf(pageResults).actions = {CountedAt(pageResults, m) : m \in Pairs(pageResults)}
<1>1. ActionsOf(pageResults) = {ActionAt(pageResults, m) : m \in Pairs(pageResults)}
  <2>1. \A o \in Used(pageResults) : UsedAt(pageResults, <<o.of.code, o.page>>)
           = {p \in Used(pageResults) : p.of.code = o.of.code /\ p.page = o.page}
    BY DEF UsedAt
  <2>2. ActionsOf(pageResults) = {ActionAt(pageResults, <<o.of.code, o.page>>) : o \in Used(pageResults)}
    BY <2>1 DEF ActionsOf, ActionAt
  <2> QED
    BY <2>2 DEF Pairs
<1>2. PlanOf(pageResults).actions =
         {[code |-> a.code, page |-> a.page,
           priority |-> Reconciled(pageResults, a.code, a.priority)] : a \in ActionsOf(pageResults)}
  BY DEF PlanOf
<1>3. \A m \in Pairs(pageResults) :
         CountedAt(pageResults, m) =
            [code |-> ActionAt(pageResults, m).code, page |-> ActionAt(pageResults, m).page,
             priority |-> Reconciled(pageResults, ActionAt(pageResults, m).code, ActionAt(pageResults, m).priority)]
  BY DEF CountedAt, ActionAt
<1> QED
  BY <1>1, <1>2, <1>3

LEMMA FewPairs ==
    ASSUME NEW pageResults \in Surveys
    PROVE  IsFiniteSet(Used(pageResults)) /\ IsFiniteSet(Pairs(pageResults))
<1> DEFINE pair == [o \in Used(pageResults) |-> <<o.of.code, o.page>>]
<1>1. IsFiniteSet(Used(pageResults))
  BY FewObservations, FS_Subset DEF Used
<1>2. pair = [o \in Used(pageResults) |-> pair[o]] /\ Pairs(pageResults) = {pair[o] : o \in Used(pageResults)}
  BY DEF Pairs
<1> HIDE DEF pair
<1> QED
  BY <1>1, <1>2, FiniteRange

\* A plan has one action for each of them.
LEMMA ActionsCounted ==
    ASSUME NEW pageResults \in Surveys
    PROVE  /\ {<<a.code, a.page>> : a \in PlanOf(pageResults).actions} = Pairs(pageResults)
           /\ Cardinality(PlanOf(pageResults).actions) = Cardinality(Pairs(pageResults))
<1> DEFINE actions == PlanOf(pageResults).actions
           f == [m \in Pairs(pageResults) |-> CountedAt(pageResults, m)]
<1>1. \A m \in Pairs(pageResults) : m = <<m[1], m[2]>>
  BY DEF Pairs
<1>2. \A m \in Pairs(pageResults) : CountedAt(pageResults, m).code = m[1] /\ CountedAt(pageResults, m).page = m[2]
  BY DEF CountedAt
<1>3. actions = {CountedAt(pageResults, m) : m \in Pairs(pageResults)}
  BY ActionsAre
<1> HIDE DEF actions
<1>4. {<<a.code, a.page>> : a \in actions} = Pairs(pageResults)
  BY <1>1, <1>2, <1>3
<1>5. f \in Bijection(Pairs(pageResults), actions)
  <2>1. f \in [Pairs(pageResults) -> actions] /\ \A m \in Pairs(pageResults) : f[m] = CountedAt(pageResults, m)
    BY <1>3
  <2>2. \A m, k \in Pairs(pageResults) : f[m] = f[k] => m = k
    BY <1>1, <1>2, <2>1
  <2>3. \A a \in actions : \E m \in Pairs(pageResults) : f[m] = a
    BY <1>3, <2>1
  <2> HIDE DEF f
  <2> QED
    BY <2>1, <2>2, <2>3 DEF Bijection, Injection, Surjection, IsInjective
<1> HIDE DEF f
<1>6. Cardinality(actions) = Cardinality(Pairs(pageResults))
  BY <1>5, FewPairs, FS_Bijection DEF ExistsBijection
<1> QED
  BY <1>4, <1>6 DEF actions

\* A code counts the pages it is held against.
LEMMA CountIsOfPages ==
    ASSUME NEW pageResults \in Surveys, NEW code \in DOMAIN Mapping
    PROVE  IsFiniteSet(With(pageResults, code)) /\ CountedOf(pageResults, code) = Cardinality(With(pageResults, code))
<1> DEFINE with == With(pageResults, code)
           actions == {a \in ActionsOf(pageResults) : a.code = code}
           f == [g \in with |-> ActionAt(pageResults, <<code, g>>)]
<1>1. \A g : g \in with <=> <<code, g>> \in Pairs(pageResults)
  BY PairsAreHeld DEF With
<1>2. \A m : ActionAt(pageResults, m).code = m[1] /\ ActionAt(pageResults, m).page = m[2]
  BY DEF ActionAt
<1>3. \A m \in Pairs(pageResults) : m = <<m[1], m[2]>>
  BY DEF Pairs
<1>4. ActionsOf(pageResults) = {ActionAt(pageResults, m) : m \in Pairs(pageResults)}
  BY ActionsAre
<1>5. \A g \in with : ActionAt(pageResults, <<code, g>>) \in actions
  BY <1>1, <1>2, <1>4
<1>6. \A a \in actions : \E g \in with : a = ActionAt(pageResults, <<code, g>>)
  BY <1>1, <1>2, <1>3, <1>4
<1>7. IsFiniteSet(with)
  <2> DEFINE page == [m \in Pairs(pageResults) |-> m[2]]
             all == {page[m] : m \in Pairs(pageResults)}
  <2>1. page = [m \in Pairs(pageResults) |-> page[m]] /\ \A m \in Pairs(pageResults) : page[m] = m[2]
    OBVIOUS
  <2>2. ASSUME NEW g \in with  PROVE g \in all
    <3>1. <<code, g>> \in Pairs(pageResults) /\ page[<<code, g>>] = g
      BY <1>1, <2>1, <2>2
    <3> HIDE DEF page, with
    <3> QED
      BY <3>1
  <2> HIDE DEF page, with
  <2>3. IsFiniteSet(all)
    BY <2>1, FewPairs, FiniteRange
  <2> QED
    BY <2>2, <2>3, FS_Subset
<1> HIDE DEF with, actions
<1>8. f \in Bijection(with, actions)
  <2>1. f \in [with -> actions] /\ \A g \in with : f[g] = ActionAt(pageResults, <<code, g>>)
    BY <1>5
  <2>2. \A g, h \in with : f[g] = f[h] => g = h
    BY <1>2, <2>1
  <2>3. \A a \in actions : \E g \in with : f[g] = a
    BY <1>6, <2>1
  <2> HIDE DEF f
  <2> QED
    BY <2>1, <2>2, <2>3 DEF Bijection, Injection, Surjection, IsInjective
<1> HIDE DEF f
<1>9. Cardinality(actions) = Cardinality(with)
  BY <1>7, <1>8, FS_Bijection DEF ExistsBijection
<1> QED
  BY <1>7, <1>9 DEF CountedOf, with, actions

\* What is processed is used, unsupported or insufficient.
LEMMA ProcessedIsShared ==
    ASSUME NEW pageResults \in Surveys
    PROVE  LET p == PlanOf(pageResults) IN p.processed = p.generated + p.unsupported + p.insufficient
<1> DEFINE all == Observations(pageResults)
           used == Used(pageResults)
           unsupported == {o \in all : Unsupported(o)}
           insufficient == {o \in all : Insufficient(o)}
           some == used \cup unsupported
<1>1. /\ used \cap unsupported = {} /\ some \cap insufficient = {}
      /\ some \cup insufficient = all
  BY DEF Used, Usable, Insufficient
<1>2. IsFiniteSet(used) /\ IsFiniteSet(unsupported) /\ IsFiniteSet(insufficient)
  BY FewObservations, FS_Subset DEF Used
<1>3. LET p == PlanOf(pageResults) IN
      /\ p.processed = Cardinality(all) /\ p.generated = Cardinality(used)
      /\ p.unsupported = Cardinality(unsupported) /\ p.insufficient = Cardinality(insufficient)
  BY DEF PlanOf
<1> HIDE DEF all, used, unsupported, insufficient
<1>4. /\ IsFiniteSet(some)
      /\ Cardinality(some) = Cardinality(used) + Cardinality(unsupported)
  BY <1>1, <1>2, TwoParts
<1> HIDE DEF some
<1>5. Cardinality(some \cup insufficient) = Cardinality(some) + Cardinality(insufficient)
  BY <1>1, <1>2, <1>4, TwoParts
<1> QED
  BY <1>1, <1>3, <1>4, <1>5

\* The formula is a sum of numbers, one of which counts the pages.
LEMMA RawAtOne ==
    ASSUME NEW code \in DOMAIN Mapping, NEW percent \in Percents, NEW count \in Nat
    PROVE  /\ RawPriority(code, percent, 1) \in Int /\ PagesScore(1) \in Int /\ PagesScore(count) \in Int
           /\ RawPriority(code, percent, 1) - PagesScore(1) + PagesScore(count)
                 = RawPriority(code, percent, count)
<1> DEFINE m == Mapping[code]
<1>1. /\ m.severity \in Severities /\ m.impact \in Percents /\ m.effort \in Efforts
      /\ m.business \in Businesses
  BY ActionPlanAssumption
<1> HIDE DEF m
<1>2. SeverityBase[m.severity] \in Int
  BY <1>1 DEF SeverityBase, Severities
<1>3. EffortScores[m.effort] \in Int
  BY <1>1 DEF EffortScores, Efforts
<1>4. BusinessScores[m.business] \in Int
  BY <1>1 DEF BusinessScores, Businesses
<1>5. ImpactScore(m.impact) \in Int
  <2>1. m.impact * 15 \in Int
    BY <1>1 DEF Percents
  <2>2. (m.impact * 15) \div 100 \in Int
    BY <2>1
  <2>3. RoundHalfEven(m.impact * 15, 100) \in Int
    BY <2>2 DEF RoundHalfEven
  <2> QED
    BY <2>3 DEF ImpactScore, Clamp
<1>6. ConfidenceScore(percent) \in Int
  BY DEF ConfidenceScore, Percents
<1>7. PagesScore(1) \in Int /\ PagesScore(count) \in Int
  BY DEF PagesScore
<1> DEFINE s == SeverityBase[m.severity]  i == ImpactScore(m.impact)  c == ConfidenceScore(percent)
           e == EffortScores[m.effort]  b == BusinessScores[m.business]
<1>8. \A n : RawPriority(code, percent, n) = s + PagesScore(n) + i + c + e + b
  BY DEF RawPriority, m
<1>9. s \in Int /\ i \in Int /\ c \in Int /\ e \in Int /\ b \in Int
  BY <1>2, <1>3, <1>4, <1>5, <1>6
<1> HIDE DEF s, i, c, e, b
<1> QED
  BY <1>7, <1>8, <1>9

\* Priced for one page and then for all of them, a code is priced for all of them.
LEMMA RepricedIsPriced ==
    ASSUME NEW pageResults \in Surveys, NEW some \in SUBSET Observations(pageResults), some # {},
           NEW code \in DOMAIN Mapping
    PROVE  LET priority == Reconciled(pageResults, code, FirstPrice(code, some))
               count == Cardinality(With(pageResults, code)) IN
           /\ priority.pages = PagesScore(count)
           /\ \E o \in some :
                 priority.score = Clamp(RawPriority(code, o.of.percent, count), 0, 100)
<1> DEFINE percent == First(some).of.percent
           count == Cardinality(With(pageResults, code))
           raw == RawPriority(code, percent, 1)
           old == FirstPrice(code, some)
<1>1. First(some) \in some /\ percent = First(some).of.percent /\ percent \in Percents
  <2>1. First(some) \in some
    BY FirstIsOne
  <2> QED
    BY <2>1, ObservationTyped DEF Faults
<1>2. count \in Nat /\ CountedOf(pageResults, code) = count
  BY CountIsOfPages, FS_CardinalityType
<1>3. old.raw = raw /\ old.pages = PagesScore(1)
  BY DEF FirstPrice, CalculatePriority, Priced
<1> HIDE DEF percent, count
<1>4. raw - PagesScore(1) + PagesScore(count) = RawPriority(code, percent, count)
  BY <1>1, <1>2, RawAtOne
<1> HIDE DEF raw
<1>5. Reconciled(pageResults, code, old) = Priced(RawPriority(code, percent, count), PagesScore(count))
  <2> HIDE DEF old
  <2> QED
    BY <1>2, <1>3, <1>4 DEF Reconciled, Reprice
<1> HIDE DEF old
<1>6. /\ Reconciled(pageResults, code, old).pages = PagesScore(count)
      /\ Reconciled(pageResults, code, old).score = Clamp(RawPriority(code, percent, count), 0, 100)
  BY <1>5 DEF Priced
<1> QED
  BY <1>1, <1>6 DEF old, count

LEMMA GroupsAre ==
    ASSUME NEW pageResults \in Surveys, NEW code \in DOMAIN PlanOf(pageResults).groups
    PROVE  LET some == {o \in Used(pageResults) : o.of.code = code}
               group == PlanOf(pageResults).groups[code] IN
           /\ code \in DOMAIN Mapping /\ some # {} /\ some \in SUBSET Observations(pageResults)
           /\ group.pages = CountedOf(pageResults, code)
           /\ group.priority = Reconciled(pageResults, code, FirstPrice(code, some))
           /\ With(pageResults, code) # {}
<1> DEFINE some == {o \in Used(pageResults) : o.of.code = code}
           groups == GroupsOf(pageResults)
<1>1. code \in DOMAIN groups /\ PlanOf(pageResults).groups[code] =
         [groups[code] EXCEPT !.pages = CountedOf(pageResults, code),
                              !.priority = Reconciled(pageResults, code, groups[code].priority)]
  BY DEF PlanOf
<1>2. groups[code] = [pages |-> 0, status |-> "open", priority |-> FirstPrice(code, some)]
  BY <1>1 DEF GroupsOf
<1>3. PICK o \in Used(pageResults) : o.of.code = code
  BY <1>1 DEF GroupsOf
<1>4. o.of.code \in DOMAIN Mapping /\ o.page \in PlanPages(pageResults) /\ <<o.of.code, o.page>> \in Pairs(pageResults)
  BY <1>3, PairsAreHeld DEF Pairs
<1>5. o.page \in With(pageResults, code)
  BY <1>3, <1>4, PairsAreHeld DEF With
<1>6. some # {} /\ some \in SUBSET Observations(pageResults)
  BY <1>3 DEF Used
<1> HIDE DEF some, groups
<1>7. /\ PlanOf(pageResults).groups[code].pages = CountedOf(pageResults, code)
      /\ PlanOf(pageResults).groups[code].priority = Reconciled(pageResults, code, FirstPrice(code, some))
  BY <1>1, <1>2
<1> QED
  BY <1>3, <1>4, <1>5, <1>6, <1>7 DEF some

LEMMA PlansAreGrounded ==
    ASSUME NEW pageResults \in Surveys
    PROVE  IsGrounded(PlanOf(pageResults))
<1> DEFINE p == PlanOf(pageResults)
<1>1. p.from = pageResults
  BY DEF PlanOf
<1>2. {<<a.code, a.page>> : a \in p.actions}
         = {m \in (DOMAIN Mapping) \X PlanPages(pageResults) : Holds(p.from, m[2], m[1])}
  BY <1>1, ActionsCounted, PairsAreHeld
<1>3. p.processed = p.generated + p.unsupported + p.insufficient
  BY ProcessedIsShared
<1>4. ASSUME NEW code \in DOMAIN p.groups
      PROVE  LET count == Cardinality(With(pageResults, code)) IN
             /\ p.groups[code].pages = count /\ p.groups[code].pages > 0
             /\ \E o \in Observations(pageResults) :
                   /\ o.of.code = code /\ o.of.evidence /\ o.page \in PlanPages(pageResults)
                   /\ p.groups[code].priority.score
                         = Clamp(RawPriority(code, o.of.percent, count), 0, 100)
  <2> DEFINE some == {o \in Used(pageResults) : o.of.code = code}
             count == Cardinality(With(pageResults, code))
             group == p.groups[code]
  <2>1. /\ code \in DOMAIN Mapping /\ some # {} /\ some \in SUBSET Observations(pageResults)
        /\ group.pages = CountedOf(pageResults, code)
        /\ group.priority = Reconciled(pageResults, code, FirstPrice(code, some))
        /\ With(pageResults, code) # {}
    BY GroupsAre
  <2>2. \A o \in some :
           o.of.code = code /\ o.of.evidence /\ o.page \in PlanPages(pageResults)
    BY UsedIs, PairsAreHeld DEF Used
  <2> HIDE DEF some, group
  <2>3. IsFiniteSet(With(pageResults, code)) /\ group.pages = count
    BY <2>1, CountIsOfPages
  <2>4. count \in Nat /\ count # 0
    BY <2>1, <2>3, FS_CardinalityType, FS_EmptySet
  <2>5. \E o \in some :
           group.priority.score = Clamp(RawPriority(code, o.of.percent, count), 0, 100)
    BY <2>1, RepricedIsPriced
  <2> HIDE DEF count
  <2>6. group.pages = count /\ group.pages > 0
    BY <2>3, <2>4
  <2> QED
    BY <2>1, <2>2, <2>5, <2>6 DEF group, count
<1>5. ASSUME NEW a \in p.actions
      PROVE  a.priority.pages = PagesScore(Cardinality(With(pageResults, a.code)))
  <2>1. PICK m \in Pairs(pageResults) : a = CountedAt(pageResults, m)
    BY ActionsAre
  <2>2. /\ a.code = m[1]
        /\ a.priority = Reconciled(pageResults, m[1], FirstPrice(m[1], UsedAt(pageResults, m)))
    BY <2>1 DEF CountedAt
  <2>3. m[1] \in DOMAIN Mapping
    BY PairsAreHeld
  <2>4. UsedAt(pageResults, m) # {} /\ UsedAt(pageResults, m) \in SUBSET Observations(pageResults)
    BY DEF UsedAt, Used, Pairs
  <2>5. Reconciled(pageResults, m[1], FirstPrice(m[1], UsedAt(pageResults, m))).pages
           = PagesScore(Cardinality(With(pageResults, m[1])))
    BY <2>3, <2>4, RepricedIsPriced
  <2> QED
    BY <2>2, <2>5
<1> HIDE DEF p
<1>6. IsGrounded(p)
  BY <1>1, <1>2, <1>3, <1>4, <1>5 DEF IsGrounded, CountedPages
<1> QED
  BY <1>6 DEF p

-----------------------------------------------------------------------------
(* How actions move.                                                        *)

Moves == [from : Statuses \cup {"none"}, to : Statuses]
LawfulHistory(h) ==
    /\ h \in Seq(Moves) /\ h # << >> /\ h[1] = [from |-> "none", to |-> "open"]
    /\ \A i \in 2..Len(h) : /\ Allowed(h[i].from, h[i].to)
                            /\ \E j \in 1..(i - 1) : h[j].to = h[i].from

\* A plan is that of a survey, with a history for each of its actions.
LawfulRow(row) ==
    \E pageResults \in Surveys :
       /\ row.plan = PlanOf(pageResults) /\ row = [plan |-> row.plan, history |-> row.history]
       /\ row.history = [m \in Pairs(pageResults) |-> row.history[m]]
       /\ \A m \in Pairs(pageResults) : LawfulHistory(row.history[m])
LawfulPlans ==
    /\ Len(plans) \in Nat /\ plans = [n \in 1..Len(plans) |-> plans[n]]
    /\ \A n \in 1..Len(plans) : LawfulRow(plans[n])

\* A move that a request holds: from a status the action has had, to the one it wishes.
History(item) == plans[item[1]].history[item[2]]
Had(h, status) == \E k \in 1..Len(h) : h[k].to = status
Within(h, move) == \E k \in 1..Len(h) : h[k] = move
Items(w) == {w.actions[i] : i \in DOMAIN w.actions}
MoveRow(w) == [item : Items(w), from : Statuses]
LawfulChange(row) ==
    LET w == row.wish IN
    /\ row = [at |-> row.at, wish |-> w, next |-> row.next, moves |-> row.moves]
    /\ w \in Wishes /\ row.next \in Nat /\ row.moves \in Seq(MoveRow(w))
    /\ row.at = "reading" => row.next \in DOMAIN w.actions
    /\ \A j \in 1..Len(row.moves) : LET m == row.moves[j] IN
          /\ Exists(m.item) /\ Allowed(m.from, w.to) /\ Had(History(m.item), m.from)
          /\ row.at = "done" => Within(History(m.item), [from |-> m.from, to |-> w.to])
          /\ \A k \in 1..Len(row.moves) : row.moves[k].item = m.item => k = j
LawfulChanges ==
    /\ change = [r \in Changes |-> change[r]]
    /\ \A r \in Changes : LawfulChange(change[r])

PlansLawful == LawfulPlans /\ LawfulChanges

LEMMA Appended ==
    ASSUME NEW T, NEW s \in Seq(T), NEW e \in T
    PROVE  LET t == Append(s, e) IN
           /\ t \in Seq(T) /\ Len(s) \in Nat /\ Len(t) = Len(s) + 1
           /\ t = [n \in 1..Len(t) |-> t[n]]
           /\ \A n \in 1..Len(s) : t[n] = s[n]
           /\ t[Len(t)] = e
<1> DEFINE t == Append(s, e)
<1>1. /\ t \in Seq(T) /\ Len(s) \in Nat /\ Len(t) = Len(s) + 1
      /\ \A n \in 1..Len(s) : t[n] = s[n]
  OBVIOUS
<1>2. t[Len(s) + 1] = e
  OBVIOUS
<1>3. t = [n \in 1..Len(t) |-> t[n]]
  <2> HIDE DEF t
  <2> QED
    BY <1>1
<1> QED
  BY <1>1, <1>2, <1>3

LEMMA LastOf ==
    ASSUME NEW T, NEW s \in Seq(T), s # << >>
    PROVE  Len(s) \in 1..Len(s) /\ s[Len(s)] \in T
<1>1. Len(s) \in Nat /\ DOMAIN s = 1..Len(s) /\ Len(s) # 0
  OBVIOUS
<1> QED
  BY <1>1

LEMMA ItemsArePairs ==
    ASSUME NEW w \in Wishes
    PROVE  /\ Len(w.actions) \in Nat \ {0} /\ DOMAIN w.actions = 1..Len(w.actions)
           /\ \A item \in Items(w) : item = <<item[1], item[2]>>
<1> DEFINE named == {w.actions[i][2] : i \in DOMAIN w.actions}
           actions == w.actions
<1>1. actions \in Seq(Nat \X named) \ {<< >>}
  BY ActionPlanAssumption
<1> HIDE DEF named
<1> SUFFICES /\ Len(actions) \in Nat \ {0} /\ DOMAIN actions = 1..Len(actions)
             /\ \A i \in DOMAIN actions : actions[i] = <<actions[i][1], actions[i][2]>>
  BY DEF Items
<1> HIDE DEF actions
<1>2. Len(actions) \in Nat /\ DOMAIN actions = 1..Len(actions) /\ Len(actions) # 0
  BY <1>1
<1>3. \A i \in DOMAIN actions : actions[i] \in Nat \X named
  BY <1>1
<1> QED
  BY <1>2, <1>3

\* No status leads to itself.
LEMMA NoSelfMove ==
    ASSUME NEW status \in Statuses
    PROVE  ~Allowed(status, status)
  BY DEF Allowed, Transitions, Statuses

LEMMA PlansLawfulInit == PlanInit => PlansLawful
<1> SUFFICES ASSUME PlanInit  PROVE PlansLawful
  OBVIOUS
<1>1. LawfulPlans
  BY DEF PlanInit, PlanWith, LawfulPlans
<1>2. PICK wish \in [Changes -> Wishes] : change = [r \in Changes |->
              [at |-> "reading", wish |-> wish[r], next |-> 1, moves |-> << >>]]
  BY DEF PlanInit, PlanWith
<1>3. ASSUME NEW r \in Changes  PROVE LawfulChange(change[r])
  <2>1. wish[r] \in Wishes /\ 1 \in DOMAIN wish[r].actions
    BY ItemsArePairs
  <2>2. change[r] = [at |-> "reading", wish |-> wish[r], next |-> 1, moves |-> << >>]
    BY <1>2
  <2>3. << >> \in Seq(MoveRow(wish[r])) /\ Len(<< >>) = 0
    OBVIOUS
  <2> QED
    BY <2>1, <2>2, <2>3 DEF LawfulChange
<1> QED
  BY <1>1, <1>2, <1>3 DEF PlansLawful, LawfulChanges

\* Histories only grow, and what a request holds then stays lawful.
Grows == \A n \in DOMAIN plans :
    /\ n \in DOMAIN plans'
    /\ \A a \in DOMAIN plans[n].history :
          /\ a \in DOMAIN plans'[n].history
          /\ \A k \in 1..Len(plans[n].history[a]) :
                /\ k \in 1..Len(plans'[n].history[a])
                /\ plans'[n].history[a][k] = plans[n].history[a][k]

LEMMA ChangesStay ==
    ASSUME LawfulPlans, Grows, NEW r \in Changes, LawfulChange(change[r]), change'[r] = change[r]
    PROVE  LawfulChange(change[r])'
<1> DEFINE row == change[r]
           w == row.wish
<1>1. ASSUME NEW j \in 1..Len(row.moves)
      PROVE  LET m == row.moves[j] IN
             /\ Exists(m.item)' /\ (Had(History(m.item), m.from))'
             /\ row.at = "done" => (Within(History(m.item), [from |-> m.from, to |-> w.to]))'
  <2> DEFINE m == row.moves[j]
             n == m.item[1]
             a == m.item[2]
  <2>1. /\ Exists(m.item) /\ Had(History(m.item), m.from)
        /\ row.at = "done" => Within(History(m.item), [from |-> m.from, to |-> w.to])
    BY <1>1 DEF LawfulChange
  <2>2. /\ n \in DOMAIN plans' /\ a \in DOMAIN plans'[n].history
        /\ \A k \in 1..Len(plans[n].history[a]) :
              /\ k \in 1..Len(plans'[n].history[a])
              /\ plans'[n].history[a][k] = plans[n].history[a][k]
    BY <2>1 DEF Exists, Grows
  <2> QED
    BY <2>1, <2>2 DEF Exists, Had, Within, History
<1> QED
  BY <1>1 DEF LawfulChange

LEMMA GenerateLawful ==
    ASSUME PlansLawful, NEW pageResults \in Surveys, GeneratePlan(pageResults)
    PROVE  PlansLawful'
<1> DEFINE begun == [from |-> "none", to |-> "open"]
           row == [plan |-> PlanOf(pageResults), history |-> [a \in Pairs(pageResults) |-> <<begun>>]]
<1>1. plans' = Append(plans, row) /\ change' = change
  BY ActionsCounted DEF GeneratePlan
<1>2. LawfulRow(row)
  <2>1. LawfulHistory(<<begun>>)
    <3>1. <<begun>> \in Seq(Moves) /\ Len(<<begun>>) = 1 /\ <<begun>>[1] = begun
      BY DEF Moves, Statuses
    <3> QED
      BY <3>1 DEF LawfulHistory
  <2>2. \A m \in Pairs(pageResults) : row.history[m] = <<begun>>
    OBVIOUS
  <2>3. row.plan = PlanOf(pageResults) /\ row.history = [a \in Pairs(pageResults) |-> <<begun>>]
    OBVIOUS
  <2>4. row = [plan |-> row.plan, history |-> row.history]
    OBVIOUS
  <2>5. row.history = [m \in Pairs(pageResults) |-> row.history[m]]
    BY <2>3
  <2> HIDE DEF row
  <2> QED
    BY <2>1, <2>2, <2>3, <2>4, <2>5 DEF LawfulRow
<1> HIDE DEF row
<1>3. /\ Len(plans') = Len(plans) + 1 /\ plans' = [n \in 1..Len(plans') |-> plans'[n]]
      /\ \A n \in 1..Len(plans) : plans'[n] = plans[n]
      /\ plans'[Len(plans')] = row /\ Len(plans) \in Nat /\ DOMAIN plans = 1..Len(plans)
  <2> DEFINE T == {plans[n] : n \in 1..Len(plans)} \cup {row}
  <2>1. plans \in Seq(T) /\ row \in T /\ DOMAIN plans = 1..Len(plans)
    BY DEF PlansLawful, LawfulPlans
  <2> HIDE DEF T
  <2> QED
    BY <1>1, <2>1, Appended
<1>4. LawfulPlans'
  <2>1. ASSUME NEW n \in 1..Len(plans')  PROVE LawfulRow(plans'[n])
    <3>1. n \in 1..Len(plans) \/ n = Len(plans')
      BY <1>3
    <3> QED
      BY <1>2, <1>3, <3>1 DEF PlansLawful, LawfulPlans
  <2> QED
    BY <1>3, <2>1 DEF LawfulPlans
<1>5. Grows
  BY <1>3 DEF Grows
<1>6. \A r \in Changes : LawfulChange(change[r])'
  BY <1>1, <1>5, ChangesStay DEF PlansLawful, LawfulChanges
<1> QED
  BY <1>1, <1>4, <1>6 DEF PlansLawful, LawfulChanges

LEMMA ReadLawful ==
    ASSUME PlansLawful, NEW r \in Changes, ReadStatus(r)
    PROVE  PlansLawful'
<1> DEFINE row == change[r]
           w == row.wish
           i == row.next
           item == Item(w, i)
           moves == row.moves
           mine == {j \in DOMAIN moves : moves[j].item = item}
           now == IF mine = {} THEN Status(item[1], item[2]) ELSE w.to
           moved == Exists(item) /\ Allowed(now, w.to)
           move == [item |-> item, from |-> now]
           after == IF moved THEN Append(moves, move) ELSE moves
           at == IF ~moved /\ ~w.bulk THEN "refused"
                 ELSE IF i = Len(w.actions) THEN "writing" ELSE "reading"
<1>1. /\ row = [at |-> "reading", wish |-> w, next |-> i, moves |-> moves]
      /\ w \in Wishes /\ moves \in Seq(MoveRow(w)) /\ i \in DOMAIN w.actions
      /\ \A j \in 1..Len(moves) : LET m == moves[j] IN
            /\ Exists(m.item) /\ Allowed(m.from, w.to) /\ Had(History(m.item), m.from)
            /\ \A k \in 1..Len(moves) : moves[k].item = m.item => k = j
  BY DEF ReadStatus, PlansLawful, LawfulChanges, LawfulChange
<1>2. plans' = plans
  BY DEF ReadStatus
<1>3. change' = [change EXCEPT ![r].moves = after, ![r].next = i + 1, ![r].at = at]
  BY DEF ReadStatus
<1>4. /\ change' = [s \in Changes |-> change'[s]] /\ \A s \in Changes : s # r => change'[s] = change[s]
      /\ change'[r] = [at |-> at, wish |-> w, next |-> i + 1, moves |-> after]
  <2>1. change = [s \in Changes |-> change[s]]
    BY DEF PlansLawful, LawfulChanges
  <2>2. change[r] = [at |-> "reading", wish |-> w, next |-> i, moves |-> moves]
    BY <1>1
  <2> HIDE DEF at, after, i, w, moves, mine
  <2> DEFINE one == [change EXCEPT ![r].moves = after]
             two == [one EXCEPT ![r].next = i + 1]
             three == [two EXCEPT ![r].at = at]
  <2>3. /\ one = [s \in Changes |-> one[s]] /\ \A s \in Changes : s # r => one[s] = change[s]
        /\ one[r] = [at |-> "reading", wish |-> w, next |-> i, moves |-> after]
    BY <2>1, <2>2
  <2>4. change' = three
    BY <1>3
  <2> HIDE DEF one
  <2>5. /\ two = [s \in Changes |-> two[s]] /\ \A s \in Changes : s # r => two[s] = change[s]
        /\ two[r] = [at |-> "reading", wish |-> w, next |-> i + 1, moves |-> after]
    BY <2>3
  <2> HIDE DEF two
  <2> QED
    BY <2>4, <2>5
<1>5. Len(moves) \in Nat /\ DOMAIN moves = 1..Len(moves) /\ Len(w.actions) \in Nat /\ i \in 1..Len(w.actions)
  BY <1>1, ItemsArePairs
<1>6. at = "reading" => i + 1 \in DOMAIN w.actions
  <2>1. DOMAIN w.actions = 1..Len(w.actions)
    BY <1>1, ItemsArePairs
  <2> QED
    BY <1>5, <2>1
<1>7. item \in Items(w) /\ w.to \in Statuses
  BY <1>1, ActionPlanAssumption DEF Item, Items
\* The status of an action that exists is one it has had.
<1>8. ASSUME moved
      PROVE  mine = {} /\ now \in Statuses /\ Had(History(item), now)
  <2>1. mine = {}
    BY <1>7, <1>8, NoSelfMove
  <2>2. LawfulHistory(History(item))
    <3>1. item[1] \in 1..Len(plans) /\ LawfulRow(plans[item[1]])
      BY <1>8 DEF Exists, PlansLawful, LawfulPlans
    <3>2. item[2] \in DOMAIN plans[item[1]].history
      BY <1>8 DEF Exists
    <3> QED
      BY <3>1, <3>2 DEF LawfulRow, History
  <2> DEFINE h == History(item)
  <2>3. h \in Seq(Moves) /\ h # << >>
    BY <2>2 DEF LawfulHistory
  <2>4. now = h[Len(h)].to
    BY <2>1 DEF Status, History
  <2> HIDE DEF h
  <2>5. Len(h) \in 1..Len(h) /\ h[Len(h)].to \in Statuses
    <3>1. Len(h) \in 1..Len(h) /\ h[Len(h)] \in Moves
      BY <2>3, LastOf
    <3> QED
      BY <3>1 DEF Moves
  <2>6. now \in Statuses /\ Had(h, now)
    <3> HIDE DEF now
    <3> QED
      BY <2>4, <2>5 DEF Had
  <2> QED
    BY <2>1, <2>6 DEF h
<1> HIDE DEF at, item, now
<1>9. LawfulChange(change[r])'
  <2>1. CASE moved
    <3>1. /\ mine = {} /\ Exists(item) /\ Allowed(now, w.to) /\ Had(History(item), now)
          /\ move \in MoveRow(w) /\ after = Append(moves, move)
      BY <1>7, <1>8, <2>1 DEF MoveRow
    <3>2. /\ after \in Seq(MoveRow(w)) /\ Len(after) = Len(moves) + 1
          /\ \A n \in 1..Len(moves) : after[n] = moves[n]
          /\ after[Len(after)] = move
      <4> HIDE DEF moves, move, after
      <4> QED
        BY <1>1, <3>1, Appended
    <3>3. \A n \in 1..Len(moves) : moves[n].item # item
      BY <1>5, <3>1
    <3>4. move.item = item /\ move.from = now
      OBVIOUS
    <3> HIDE DEF moves, after, move, mine
    <3>5. ASSUME NEW j \in 1..Len(after)
          PROVE  /\ Exists(after[j].item) /\ Allowed(after[j].from, w.to)
                 /\ Had(History(after[j].item), after[j].from)
                 /\ \A k \in 1..Len(after) : after[k].item = after[j].item => k = j
      <4>1. \A k \in 1..Len(after) : k \in 1..Len(moves) \/ k = Len(after)
        BY <1>5, <3>2
      <4> QED
        BY <1>1, <3>1, <3>2, <3>3, <3>4, <4>1
    <3>6. at # "done"
      BY DEF at
    <3> QED
      BY <1>1, <1>2, <1>4, <1>5, <1>6, <3>2, <3>5, <3>6 DEF LawfulChange, Exists, History
  <2>2. CASE ~moved
    <3>1. after = moves /\ at # "done"
      BY <2>2 DEF at
    <3> HIDE DEF moves, after
    <3> QED
      BY <1>1, <1>2, <1>4, <1>5, <1>6, <3>1 DEF LawfulChange, Exists, History
  <2> QED
    BY <2>1, <2>2
<1>10. Grows
  BY <1>2 DEF Grows
<1>11. \A s \in Changes : LawfulChange(change[s])'
  BY <1>4, <1>9, <1>10, ChangesStay DEF PlansLawful, LawfulChanges
<1> QED
  BY <1>2, <1>4, <1>11 DEF PlansLawful, LawfulChanges, LawfulPlans

\* A history that a lawful move is written to is lawful.
LEMMA WrittenIsLawful ==
    ASSUME NEW h, LawfulHistory(h), NEW from \in Statuses, NEW to \in Statuses,
           Allowed(from, to), Had(h, from)
    PROVE  LET g == Append(h, [from |-> from, to |-> to]) IN
           /\ LawfulHistory(g) /\ Within(g, [from |-> from, to |-> to])
           /\ Len(h) \in Nat /\ Len(g) = Len(h) + 1 /\ \A k \in 1..Len(h) : g[k] = h[k]
<1> DEFINE move == [from |-> from, to |-> to]
           g == Append(h, move)
<1>1. h \in Seq(Moves) /\ move \in Moves /\ move.from = from /\ move.to = to
  BY DEF LawfulHistory, Moves
<1> HIDE DEF move
<1>2. /\ g \in Seq(Moves) /\ Len(h) \in Nat /\ Len(g) = Len(h) + 1
      /\ \A n \in 1..Len(h) : g[n] = h[n]
      /\ g[Len(g)] = move
  BY <1>1, Appended
<1>3. 1 \in 1..Len(h)
  BY <1>1 DEF LawfulHistory
<1> HIDE DEF g
<1>4. ASSUME NEW i \in 2..Len(g)
      PROVE  Allowed(g[i].from, g[i].to) /\ \E j \in 1..(i - 1) : g[j].to = g[i].from
  <2>1. CASE i \in 2..Len(h)
    <3>1. Allowed(h[i].from, h[i].to) /\ \E j \in 1..(i - 1) : h[j].to = h[i].from
      BY <2>1 DEF LawfulHistory
    <3>2. PICK j \in 1..(i - 1) : h[j].to = h[i].from
      BY <3>1
    <3>3. g[i] = h[i] /\ g[j] = h[j]
      BY <1>2, <2>1
    <3> QED
      BY <3>1, <3>2, <3>3
  <2>2. CASE i = Len(g)
    <3>1. PICK k \in 1..Len(h) : h[k].to = from
      BY DEF Had
    <3>2. k \in 1..(i - 1) /\ g[k].to = from
      BY <1>2, <2>2, <3>1
    <3> QED
      BY <1>1, <1>2, <2>2, <3>2
  <2> QED
    BY <1>2, <2>1, <2>2
<1>5. LawfulHistory(g)
  BY <1>2, <1>3, <1>4 DEF LawfulHistory
<1>6. Within(g, move)
  BY <1>2 DEF Within
<1> QED
  BY <1>2, <1>5, <1>6 DEF g, move

LEMMA WriteLawful ==
    ASSUME PlansLawful, NEW r \in Changes, WriteStatuses(r)
    PROVE  PlansLawful'
<1> DEFINE row == change[r]
           w == row.wish
           moves == row.moves
           Mine(n, a) == {j \in DOMAIN moves : moves[j].item = <<n, a>>}
           Move(n, a) == [from |-> moves[CHOOSE j \in Mine(n, a) : TRUE].from, to |-> w.to]
           New(n, a) == IF Mine(n, a) = {} THEN plans[n].history[a]
                        ELSE Append(plans[n].history[a], Move(n, a))
<1>1. /\ row = [at |-> "writing", wish |-> w, next |-> row.next, moves |-> moves]
      /\ w \in Wishes /\ row.next \in Nat /\ moves \in Seq(MoveRow(w))
      /\ \A j \in 1..Len(moves) : LET m == moves[j] IN
            /\ Exists(m.item) /\ Allowed(m.from, w.to) /\ Had(History(m.item), m.from)
            /\ \A k \in 1..Len(moves) : moves[k].item = m.item => k = j
  BY DEF WriteStatuses, PlansLawful, LawfulChanges, LawfulChange
<1>2. /\ Len(moves) \in Nat /\ DOMAIN moves = 1..Len(moves) /\ w.to \in Statuses
      /\ \A j \in 1..Len(moves) :
            /\ moves[j].from \in Statuses /\ moves[j].item = <<moves[j].item[1], moves[j].item[2]>>
  <2>1. \A j \in 1..Len(moves) : moves[j] \in MoveRow(w)
    BY <1>1
  <2>2. \A item \in Items(w) : item = <<item[1], item[2]>>
    BY <1>1, ItemsArePairs
  <2>3. w.to \in Statuses
    BY <1>1, ActionPlanAssumption
  <2> HIDE DEF w, moves
  <2>4. \A j \in 1..Len(moves) : moves[j].item \in Items(w) /\ moves[j].from \in Statuses
    BY <2>1 DEF MoveRow
  <2>5. Len(moves) \in Nat /\ DOMAIN moves = 1..Len(moves)
    BY <1>1
  <2> QED
    BY <2>2, <2>3, <2>4, <2>5
<1>3. plans' = [n \in DOMAIN plans |->
                  [plans[n] EXCEPT !.history = [a \in DOMAIN plans[n].history |-> New(n, a)]]]
  BY DEF WriteStatuses
<1>4. change' = [change EXCEPT ![r].at = "done"]
  BY DEF WriteStatuses
<1> HIDE DEF moves, Mine, Move, New
<1>5. /\ Len(plans) \in Nat /\ DOMAIN plans = 1..Len(plans)
      /\ plans' = [n \in 1..Len(plans) |-> plans'[n]]
      /\ Len(plans') = Len(plans)
  <2>1. Len(plans) \in Nat /\ DOMAIN plans = 1..Len(plans)
    BY DEF PlansLawful, LawfulPlans
  <2>2. plans' = [n \in 1..Len(plans) |-> plans'[n]]
    BY <1>3, <2>1
  <2> QED
    BY <2>1, <2>2
<1>6. ASSUME NEW n \in 1..Len(plans)
      PROVE  /\ LawfulRow(plans[n])
             /\ plans'[n].plan = plans[n].plan
             /\ plans'[n] = [plan |-> plans'[n].plan, history |-> plans'[n].history]
             /\ plans'[n].history = [a \in DOMAIN plans[n].history |-> New(n, a)]
  <2>1. LawfulRow(plans[n])
    BY DEF PlansLawful, LawfulPlans
  <2>2. plans[n] = [plan |-> plans[n].plan, history |-> plans[n].history]
    BY <2>1 DEF LawfulRow
  <2> DEFINE new == [a \in DOMAIN plans[n].history |-> New(n, a)]
  <2>3. plans'[n] = [plans[n] EXCEPT !.history = new]
    BY <1>3, <1>5
  <2> HIDE DEF new
  <2>4. plans'[n] = [plan |-> plans[n].plan, history |-> new]
    BY <2>2, <2>3
  <2> QED
    BY <2>1, <2>4 DEF new
\* What becomes of the history of an action.
<1>7. ASSUME NEW n \in 1..Len(plans), NEW a \in DOMAIN plans[n].history
      PROVE  LET h == plans[n].history[a] IN
             /\ LawfulHistory(New(n, a))
             /\ \A k \in 1..Len(h) : k \in 1..Len(New(n, a)) /\ New(n, a)[k] = h[k]
             /\ \A j \in Mine(n, a) : Within(New(n, a), [from |-> moves[j].from, to |-> w.to])
  <2> DEFINE h == plans[n].history[a]
  <2>1. LawfulHistory(h)
    <3>1. LawfulRow(plans[n])
      BY DEF PlansLawful, LawfulPlans
    <3> QED
      BY <3>1 DEF LawfulRow
  <2>2. CASE Mine(n, a) = {}
    <3>1. New(n, a) = h
      BY <2>2 DEF New
    <3> HIDE DEF h
    <3>2. LawfulHistory(New(n, a)) /\ \A k \in 1..Len(h) : k \in 1..Len(New(n, a)) /\ New(n, a)[k] = h[k]
      BY <2>1, <3>1
    <3> QED
      BY <2>2, <3>2 DEF h
  <2>3. CASE Mine(n, a) # {}
    <3> DEFINE j == CHOOSE j \in Mine(n, a) : TRUE
    <3>1. j \in Mine(n, a) /\ Move(n, a) = [from |-> moves[j].from, to |-> w.to]
      BY <2>3 DEF Move
    <3>2. New(n, a) = Append(h, Move(n, a))
      BY <2>3 DEF New
    <3> HIDE DEF j
    <3>3. j \in 1..Len(moves) /\ moves[j].item = <<n, a>>
      BY <1>2, <3>1 DEF Mine
    <3>4. moves[j].from \in Statuses /\ Allowed(moves[j].from, w.to) /\ Had(h, moves[j].from)
      BY <1>1, <1>2, <3>3 DEF History
    <3>5. \A i \in Mine(n, a) : i = j
      BY <1>1, <1>2, <3>3 DEF Mine
    <3> HIDE DEF h, w, row
    <3>6. /\ LawfulHistory(New(n, a)) /\ Within(New(n, a), [from |-> moves[j].from, to |-> w.to])
          /\ Len(h) \in Nat /\ Len(New(n, a)) = Len(h) + 1
          /\ \A k \in 1..Len(h) : New(n, a)[k] = h[k]
      BY <1>2, <2>1, <3>1, <3>2, <3>4, WrittenIsLawful
    <3>7. \A k \in 1..Len(h) : k \in 1..Len(New(n, a))
      BY <3>6
    <3> QED
      BY <3>5, <3>6, <3>7 DEF h
  <2> QED
    BY <2>2, <2>3
<1>8. LawfulPlans'
  <2>1. ASSUME NEW n \in 1..Len(plans)  PROVE LawfulRow(plans'[n])
    <3>1. PICK pageResults \in Surveys :
             /\ plans[n].plan = PlanOf(pageResults)
             /\ plans[n].history = [m \in Pairs(pageResults) |-> plans[n].history[m]]
      BY <1>6 DEF LawfulRow
    <3>2. DOMAIN plans[n].history = Pairs(pageResults)
      BY <3>1
    <3>3. /\ plans'[n].plan = PlanOf(pageResults)
          /\ plans'[n] = [plan |-> plans'[n].plan, history |-> plans'[n].history]
      BY <1>6, <3>1
    <3>4. /\ plans'[n].history = [m \in Pairs(pageResults) |-> plans'[n].history[m]]
          /\ \A m \in Pairs(pageResults) : LawfulHistory(plans'[n].history[m])
      BY <1>6, <1>7, <3>2
    <3> QED
      BY <3>3, <3>4 DEF LawfulRow
  <2> QED
    BY <1>5, <2>1 DEF LawfulPlans
<1>9. Grows
  <2>1. ASSUME NEW n \in DOMAIN plans, NEW a \in DOMAIN plans[n].history
        PROVE  /\ n \in DOMAIN plans' /\ a \in DOMAIN plans'[n].history
               /\ \A k \in 1..Len(plans[n].history[a]) :
                     /\ k \in 1..Len(plans'[n].history[a])
                     /\ plans'[n].history[a][k] = plans[n].history[a][k]
    <3>1. n \in 1..Len(plans) /\ n \in DOMAIN plans'
      BY <1>5
    <3>2. a \in DOMAIN plans'[n].history /\ plans'[n].history[a] = New(n, a)
      BY <1>6, <3>1
    <3> QED
      BY <1>7, <3>1, <3>2
  <2>2. \A n \in DOMAIN plans : n \in DOMAIN plans'
    BY <1>5
  <2> QED
    BY <2>1, <2>2 DEF Grows
<1>10. /\ change' = [s \in Changes |-> change'[s]] /\ \A s \in Changes : s # r => change'[s] = change[s]
       /\ change'[r] = [at |-> "done", wish |-> w, next |-> row.next, moves |-> moves]
  BY <1>1, <1>4 DEF PlansLawful, LawfulChanges
<1>11. LawfulChange(change[r])'
  <2>1. ASSUME NEW j \in 1..Len(moves)
        PROVE  LET m == moves[j] IN
               /\ m.item[1] \in DOMAIN plans' /\ m.item[2] \in DOMAIN plans'[m.item[1]].history
               /\ Had(plans'[m.item[1]].history[m.item[2]], m.from)
               /\ Within(plans'[m.item[1]].history[m.item[2]], [from |-> m.from, to |-> w.to])
    <3> DEFINE m == moves[j]
               n == m.item[1]
               a == m.item[2]
    <3>1. n \in 1..Len(plans) /\ a \in DOMAIN plans[n].history /\ Had(plans[n].history[a], m.from)
      BY <1>1, <1>5 DEF Exists, History
    <3>2. j \in Mine(n, a)
      BY <1>2 DEF Mine
    <3>3. plans'[n].history[a] = New(n, a) /\ n \in DOMAIN plans' /\ a \in DOMAIN plans'[n].history
      BY <1>5, <1>6, <3>1
    <3>4. Within(plans'[n].history[a], [from |-> m.from, to |-> w.to])
      BY <1>7, <3>1, <3>2, <3>3
    <3>5. Had(plans'[n].history[a], m.from)
      BY <1>7, <3>1, <3>3 DEF Had
    <3> QED
      BY <3>3, <3>4, <3>5
  <2> HIDE DEF w, row
  <2> QED
    BY <1>1, <1>10, <2>1 DEF LawfulChange, Exists, History
<1>12. \A s \in Changes : LawfulChange(change[s])'
  BY <1>9, <1>10, <1>11, ChangesStay DEF PlansLawful, LawfulChanges
<1> QED
  BY <1>8, <1>10, <1>12 DEF PlansLawful, LawfulChanges

LEMMA PlansLawfulNext == PlansLawful /\ [PlanNext]_planVars => PlansLawful'
<1> SUFFICES ASSUME PlansLawful, [PlanNext]_planVars  PROVE PlansLawful'
  OBVIOUS
<1>1. ASSUME NEW pageResults \in Surveys, GeneratePlan(pageResults)  PROVE PlansLawful'
  BY <1>1, GenerateLawful
<1>2. ASSUME NEW r \in Changes, ReadStatus(r)  PROVE PlansLawful'
  BY <1>2, ReadLawful
<1>3. ASSUME NEW r \in Changes, WriteStatuses(r)  PROVE PlansLawful'
  BY <1>3, WriteLawful
<1>4. CASE UNCHANGED planVars
  BY <1>4 DEF planVars, PlansLawful, LawfulPlans, LawfulChanges, LawfulChange, Exists, History
<1> QED
  BY <1>1, <1>2, <1>3, <1>4 DEF PlanNext

LEMMA PlansLawfulIsExact == PlansLawful => PlanIsExact
<1> SUFFICES ASSUME PlansLawful  PROVE PlanIsExact
  OBVIOUS
<1>1. Len(plans) \in Nat /\ DOMAIN plans = 1..Len(plans)
  BY DEF PlansLawful, LawfulPlans
<1>2. ASSUME NEW n \in DOMAIN plans
      PROVE  /\ IsGrounded(plans[n].plan)
             /\ Cardinality(plans[n].plan.actions) = Cardinality(DOMAIN plans[n].history)
             /\ \A a \in DOMAIN plans[n].history : LawfulHistory(plans[n].history[a])
  <2>1. LawfulRow(plans[n])
    BY <1>1 DEF PlansLawful, LawfulPlans
  <2>2. PICK pageResults \in Surveys :
           /\ plans[n].plan = PlanOf(pageResults)
           /\ plans[n].history = [m \in Pairs(pageResults) |-> plans[n].history[m]]
           /\ \A m \in Pairs(pageResults) : LawfulHistory(plans[n].history[m])
    BY <2>1 DEF LawfulRow
  <2>3. DOMAIN plans[n].history = Pairs(pageResults)
    BY <2>2
  <2> QED
    BY <2>2, <2>3, PlansAreGrounded, ActionsCounted
<1>3. PlanIsGrounded
  BY <1>2 DEF PlanIsGrounded
<1>4. HistoryIsLawful
  <2>1. ASSUME NEW n \in DOMAIN plans, NEW a \in DOMAIN plans[n].history
        PROVE  LET h == plans[n].history[a] IN
               /\ h[1] = [from |-> "none", to |-> "open"]
               /\ \A i \in 2..Len(h) : Allowed(h[i].from, h[i].to)
                                       /\ \E j \in 1..(i - 1) : h[j].to = h[i].from
    BY <1>2 DEF LawfulHistory
  <2>2. ASSUME NEW r \in Changes, change[r].at = "done", NEW j \in DOMAIN change[r].moves
        PROVE  LET m == change[r].moves[j] IN
               \E i \in DOMAIN plans[m.item[1]].history[m.item[2]] :
                  plans[m.item[1]].history[m.item[2]][i] = [from |-> m.from, to |-> change[r].wish.to]
    <3> DEFINE moves == change[r].moves
               m == moves[j]
               h == plans[m.item[1]].history[m.item[2]]
               move == [from |-> m.from, to |-> change[r].wish.to]
    <3>1. LawfulChange(change[r])
      BY DEF PlansLawful, LawfulChanges
    <3>2. j \in 1..Len(moves)
      <4>1. moves \in Seq(MoveRow(change[r].wish))
        BY <3>1 DEF LawfulChange
      <4> HIDE DEF moves
      <4> QED
        BY <2>2, <4>1 DEF moves
    <3>3. Exists(m.item) /\ Within(h, move)
      BY <2>2, <3>1, <3>2 DEF LawfulChange, History
    <3>4. LawfulHistory(h)
      BY <1>2, <3>3 DEF Exists
    <3>5. h \in Seq(Moves)
      BY <3>4 DEF LawfulHistory
    <3> HIDE DEF h, move
    <3>6. \E i \in DOMAIN h : h[i] = move
      BY <3>3, <3>5 DEF Within
    <3> QED
      BY <3>6 DEF h, move
  <2> QED
    BY <2>1, <2>2 DEF HistoryIsLawful
<1> QED
  BY <1>3, <1>4 DEF PlanIsExact

\* Every plan is that of a survey, each of its actions has a history that begins open and
\* in which every move is allowed and starts from a status the action has had, and what a
\* request has read of an action it holds once (action_generation.py:683-842,
\* routes/action_plan.py:571-670).
THEOREM PlansAreLawful == PlanSpec => []PlansLawful
<1> QED
  BY PlansLawfulInit, PlansLawfulNext, PTL DEF PlanSpec

\* A plan counts, groups and prices exactly the usable findings of the page results it is
\* made from; statuses move as the table allows, and no move that was answered is lost.
THEOREM PlansHold == PlanSpec => []PlanIsExact
<1> QED
  BY PlansAreLawful, PlansLawfulIsExact, PTL

-----------------------------------------------------------------------------
(* The place of an opening.                                                 *)

LEMMA Products ==
    ASSUME NEW a \in Nat, NEW b \in Nat, NEW q \in Nat, a < b
    PROVE  a * q + q <= b * q /\ a * q \in Nat /\ b * q \in Nat
<1>1. PICK c \in Nat : b = a + 1 + c
  <2>1. b - a - 1 \in Nat /\ b = a + 1 + (b - a - 1)
    OBVIOUS
  <2> QED
    BY <2>1
<1>2. b * q = a * q + q + c * q /\ c * q \in Nat /\ a * q \in Nat
  BY <1>1
<1> QED
  BY <1>2

LEMMA Division ==
    ASSUME NEW n \in Nat, NEW q \in Nat \ {0}
    PROVE  /\ n \div q \in Nat /\ n % q \in Nat /\ n % q < q
           /\ n = (n \div q) * q + (n % q)
  OBVIOUS

LEMMA Quotient ==
    ASSUME NEW p \in Nat, NEW q \in Nat \ {0}, NEW r \in Nat, r < q
    PROVE  (p * q + r) \div q = p /\ (p * q + r) % q = r
<1> DEFINE n == p * q + r
           d == n \div q
           m == n % q
<1>1. n \in Nat
  BY Products
<1>2. d \in Nat /\ m \in Nat /\ m < q /\ n = d * q + m
  BY <1>1, Division
<1>3. ~(p < d)
  <2> SUFFICES ASSUME p < d PROVE FALSE
    OBVIOUS
  <2>1. p * q + q <= d * q /\ d * q \in Nat /\ p * q \in Nat
    BY <1>2, Products
  <2> QED
    BY <1>2, <2>1
<1>4. ~(d < p)
  <2> SUFFICES ASSUME d < p PROVE FALSE
    OBVIOUS
  <2>1. d * q + q <= p * q /\ d * q \in Nat /\ p * q \in Nat
    BY <1>2, Products
  <2> QED
    BY <1>2, <2>1
<1>5. d = p
  BY <1>2, <1>3, <1>4
<1> QED
  BY <1>1, <1>2, <1>5

LEMMA Sizes ==
    /\ Len(Driven) \in Nat \ {0} /\ DOMAIN Driven = 1..Len(Driven)
    /\ Len(Viewports) \in Nat \ {0} /\ PerPage \in Nat \ {0}
    /\ PerPage = Len(Driven) * Len(Viewports)
<1>1. /\ Driven \in Seq(Range2(Driven)) /\ Driven # << >>
      /\ Viewports \in Seq(Range2(Viewports)) /\ Viewports # << >>
  BY BrowserCompatibilityAssumption
<1>2. Len(Driven) \in Nat \ {0} /\ DOMAIN Driven = 1..Len(Driven)
  BY <1>1
<1>3. Len(Viewports) \in Nat \ {0}
  BY <1>1
<1> DEFINE d == Len(Driven)  v == Len(Viewports)
<1>4. PerPage = d * v
  BY DEF PerPage
<1>5. 0 * v + v <= d * v /\ d * v \in Nat
  <2> HIDE DEF d, v
  <2> QED
    BY <1>2, <1>3, Products DEF d, v
<1>6. PerPage \in Nat /\ PerPage >= v
  BY <1>3, <1>4, <1>5
<1> QED
  BY <1>2, <1>3, <1>4, <1>6

\* An opening has a page and an engine, and each page is opened in each engine.
LEMMA PlaceIs ==
    ASSUME NEW n \in Nat, NEW pages \in Nat, n < pages * PerPage
    PROVE  /\ n \div PerPage \in Nat /\ n \div PerPage < pages
           /\ 1 + ((n % PerPage) \div Len(Viewports)) \in DOMAIN Driven
<1> DEFINE d == Len(Driven)  v == Len(Viewports)  q == PerPage
           p == n \div q  m == n % q  k == m \div v
<1>1. d \in Nat /\ v \in Nat \ {0} /\ q \in Nat \ {0} /\ q = d * v /\ DOMAIN Driven = 1..d
  BY Sizes
<1> HIDE DEF d, v, q
<1>2. p \in Nat /\ m \in Nat /\ m < q /\ n = p * q + m
  BY <1>1, Division
<1>3. n < pages * q
  BY DEF q
<1> HIDE DEF p, m
<1>4. k \in Nat /\ m % v \in Nat /\ m = k * v + (m % v)
  BY <1>1, <1>2, Division
<1> HIDE DEF k
<1>5. ~(pages < p) /\ pages # p
  <2>1. pages < p => pages * q + q <= p * q /\ p * q \in Nat /\ pages * q \in Nat
    BY <1>1, <1>2, Products
  <2>2. p * q \in Nat
    BY <1>1, <1>2
  <2> QED
    BY <1>1, <1>2, <1>3, <2>1, <2>2
<1>6. ~(d < k) /\ d # k
  <2>1. d < k => d * v + v <= k * v /\ k * v \in Nat /\ d * v \in Nat
    BY <1>1, <1>4, Products
  <2>2. k * v \in Nat
    BY <1>1, <1>4
  <2> QED
    BY <1>1, <1>2, <1>4, <2>1, <2>2
<1>7. p < pages /\ 1 + k \in 1..d
  BY <1>1, <1>2, <1>4, <1>5, <1>6
<1> QED
  BY <1>1, <1>2, <1>7 DEF p, k, m, q, v

LEMMA PlaceAt ==
    ASSUME NEW p \in Nat, NEW pages \in Nat, p < pages, NEW k \in Nat, k < Len(Driven)
    PROVE  \E n \in Nat : /\ n < pages * PerPage /\ n \div PerPage = p
                          /\ (n % PerPage) \div Len(Viewports) = k
<1> DEFINE d == Len(Driven)  v == Len(Viewports)  q == PerPage  r == k * v
           n == p * q + r
<1>1. d \in Nat /\ v \in Nat \ {0} /\ q \in Nat \ {0} /\ q = d * v /\ k < d
  BY Sizes
<1> HIDE DEF d, v, q
<1>2. r + v <= q /\ r \in Nat /\ r < q
  BY <1>1, Products
<1>3. (r + 0) \div v = k
  BY <1>1, Quotient
<1> HIDE DEF r
<1>4. n \div q = p /\ n % q = r
  BY <1>1, <1>2, Quotient
<1>5. p * q + q <= pages * q /\ p * q \in Nat /\ pages * q \in Nat
  BY <1>1, Products
<1>6. n \in Nat /\ n < pages * q
  BY <1>1, <1>2, <1>5
<1>7. (n % q) \div v = k
  BY <1>2, <1>3, <1>4
<1> HIDE DEF n
<1> QED
  BY <1>4, <1>6, <1>7 DEF q, v

-----------------------------------------------------------------------------
(* The stage.                                                               *)

\* What the opening at a place has shown.
SeenLaw(i) ==
    LET o == shown[i]  n == i - 1 IN
    /\ n \div PerPage < Len(chosen)
    /\ o.url = Address[chosen[1 + (n \div PerPage)]]
    /\ o.engine = Driven[1 + ((n % PerPage) \div Len(Viewports))]
    /\ o.state \in {"tested", "inconclusive", "unavailable"} /\ o.fails \in BOOLEAN
    /\ o.ms # Nothing => o.ms \in Nat \ {0}

PublishedLaw ==
    \E eligible \in Nat, matrix \in {<< >>, verdicts} :
       /\ published = [e \in Range2(Driven) |-> Counted(shown, matrix, e, eligible)]
       /\ verdicts # Nothing => matrix = verdicts /\ eligible = Len(chosen)

StageLaw ==
    /\ offered \in PageLists /\ tier0Results \in Evidences
    /\ Len(shown) \in Nat /\ shown = [i \in 1..Len(shown) |-> shown[i]]
    /\ chosen = Nothing => shown = << >> /\ verdicts = Nothing
    /\ chosen # Nothing => chosen \in Seq(offered) /\ \A i \in 1..Len(shown) : SeenLaw(i)
    /\ verdicts # Nothing => ~Opening /\ verdicts = [i \in DOMAIN chosen |-> Row(chosen[i])]
    /\ PublishedLaw

LEMMA StageInit == CompatInit => StageLaw
<1> SUFFICES ASSUME CompatInit  PROVE StageLaw
  OBVIOUS
<1>1. PICK start \in [pages: PageLists, evidence: Evidences] :
         offered = start.pages /\ tier0Results = start.evidence
  BY DEF CompatInit, CompatWith
<1>2. /\ chosen = Nothing /\ shown = << >> /\ verdicts = Nothing
      /\ published = [e \in Range2(Driven) |-> Counted(<< >>, << >>, e, 0)]
  BY DEF CompatInit, CompatWith
<1>3. PublishedLaw
  BY <1>2 DEF PublishedLaw
<1> QED
  BY <1>1, <1>2, <1>3 DEF StageLaw

LEMMA FewOffered ==
    ASSUME NEW S \in PageLists
    PROVE  Cardinality(S) \in Nat /\ Selection(S) \subseteq S /\ Cardinality(Selection(S)) \in Nat
<1>1. IsFiniteSet(S)
  BY BrowserCompatibilityAssumption
<1>2. Selection(S) \subseteq S
  BY DEF Selection, Least
<1>3. IsFiniteSet(Selection(S))
  BY <1>1, <1>2, FS_Subset
<1> QED
  BY <1>1, <1>2, <1>3, FS_CardinalityType

LEMMA SelectStage ==
    ASSUME StageLaw, Select
    PROVE  StageLaw'
<1> DEFINE some == Selection(offered)  n == Cardinality(some)
<1>1. n \in Nat /\ some \subseteq offered /\ Cardinality(offered) \in Nat
  BY FewOffered DEF StageLaw
<1>2. chosen = Nothing /\ shown = << >> /\ verdicts = Nothing
  BY DEF Select, StageLaw
<1>3. PICK s \in [1..n -> some] : chosen' = s
  BY DEF Select
<1>4. /\ published' = [e \in Range2(Driven) |-> Counted(<< >>, << >>, e, Cardinality(offered))]
      /\ UNCHANGED <<offered, shown, verdicts, tier0Results>>
  BY DEF Select
<1> HIDE DEF n, some
<1>5. chosen' \in Seq(offered)
  BY <1>1, <1>3
<1>6. chosen' # Nothing
  <2>1. offered \subseteq UNION PageLists
    BY DEF StageLaw
  <2>2. Seq(offered) \subseteq Seq(UNION PageLists)
    BY <2>1
  <2> QED
    BY <1>5, <2>2, BrowserCompatibilityAssumption
<1>7. PublishedLaw'
  BY <1>1, <1>2, <1>4 DEF PublishedLaw
<1> QED
  BY <1>1, <1>2, <1>4, <1>5, <1>6, <1>7 DEF StageLaw


LEMMA TupleIsList ==
    ASSUME NEW R, NEW n \in Nat, NEW s \in [1..n -> R]
    PROVE  s \in Seq(R)
OBVIOUS

LEMMA LongerByOne ==
    ASSUME NEW R, NEW s \in Seq(R), NEW x \in R
    PROVE  LET t == Append(s, x) IN
           /\ Len(s) \in Nat /\ Len(t) = Len(s) + 1 /\ t = [i \in 1..(Len(s) + 1) |-> t[i]]
           /\ t[Len(s) + 1] = x /\ \A i \in 1..Len(s) : t[i] = s[i]
<1> DEFINE t == Append(s, x)
<1>1. t \in Seq(R) /\ Len(s) \in Nat /\ Len(t) = Len(s) + 1
  OBVIOUS
<1>2. t = [i \in 1..Len(t) |-> t[i]]
  <2> HIDE DEF t
  <2> QED
    BY <1>1
<1>3. t[Len(s) + 1] = x /\ \A i \in 1..Len(s) : t[i] = s[i]
  OBVIOUS
<1> HIDE DEF t
<1>4. t = [i \in 1..(Len(s) + 1) |-> t[i]]
  BY <1>1, <1>2
<1> QED
  BY <1>1, <1>3, <1>4 DEF t

LEMMA PlaceOfNext ==
    ASSUME StageLaw, Opening
    PROVE  /\ Len(shown) \in Nat /\ Len(chosen) \in Nat /\ verdicts = Nothing
           /\ Len(shown) < Len(chosen) * PerPage
           /\ Len(shown) \div PerPage \in Nat /\ Len(shown) \div PerPage < Len(chosen)
           /\ NextPage \in offered
<1>1. /\ Len(shown) \in Nat /\ verdicts = Nothing /\ chosen \in Seq(offered)
      /\ Len(shown) < Len(chosen) * PerPage
  BY DEF StageLaw, Opening
<1>2. Len(chosen) \in Nat
  BY <1>1
<1>3. Len(shown) \div PerPage \in Nat /\ Len(shown) \div PerPage < Len(chosen)
  BY <1>1, <1>2, PlaceIs
<1> DEFINE p == Len(shown) \div PerPage
<1>4. chosen[1 + p] \in offered
  <2> HIDE DEF p
  <2>1. 1 + p \in 1..Len(chosen)
    BY <1>2, <1>3 DEF p
  <2> QED
    BY <1>1, <2>1
<1> QED
  BY <1>1, <1>2, <1>3, <1>4 DEF NextPage

LEMMA RecordStage ==
    ASSUME StageLaw, Opening, NEW sight, Record(sight), DOMAIN sight = DOMAIN Unavailable,
           sight.state \in {"tested", "inconclusive", "unavailable"}, sight.fails \in BOOLEAN,
           sight.ms # Nothing => sight.ms \in Nat \ {0}
    PROVE  StageLaw'
<1> DEFINE o == Shown(sight)
           n == Len(shown)
<1>1. /\ n \in Nat /\ Len(chosen) \in Nat /\ verdicts = Nothing
      /\ n \div PerPage \in Nat /\ n \div PerPage < Len(chosen)
  BY PlaceOfNext
<1>2. /\ shown' = Append(shown, o) /\ UNCHANGED <<offered, chosen, verdicts, tier0Results>>
      /\ published' = [e \in Range2(Driven) |-> Counted(shown', << >>, e, Cardinality(offered))]
  BY DEF Record
<1>3. /\ o.url = Address[NextPage] /\ o.engine = NextEngine
      /\ o.state = sight.state /\ o.fails = sight.fails /\ o.ms = sight.ms
  BY DEF Shown
<1>4. /\ offered \in PageLists /\ tier0Results \in Evidences /\ chosen # Nothing
      /\ shown = [i \in 1..n |-> shown[i]] /\ chosen \in Seq(offered)
      /\ \A i \in 1..n : SeenLaw(i)
  BY DEF StageLaw, Opening
<1> HIDE DEF o, n
<1>5. /\ Len(shown') = n + 1 /\ shown' = [i \in 1..(n + 1) |-> shown'[i]]
      /\ shown'[n + 1] = o /\ \A i \in 1..n : shown'[i] = shown[i]
  <2> DEFINE R == {shown[i] : i \in 1..n} \cup {o}
  <2>1. shown \in Seq(R)
    <3>1. [i \in 1..n |-> shown[i]] \in [1..n -> R]
      OBVIOUS
    <3> HIDE DEF R
    <3>2. shown \in [1..n -> R]
      BY <1>4, <3>1
    <3> QED
      BY <1>1, <3>2, TupleIsList
  <2>2. o \in R
    OBVIOUS
  <2> HIDE DEF R
  <2> QED
    BY <1>2, <2>1, <2>2, LongerByOne DEF n
<1>6. \A i \in 1..(n + 1) : SeenLaw(i)'
  <2> SUFFICES ASSUME NEW i \in 1..(n + 1) PROVE SeenLaw(i)'
    OBVIOUS
  <2>1. CASE i = n + 1
    <3>1. i - 1 = n
      BY <1>1, <2>1
    <3>2. /\ Address[NextPage] = Address[chosen[1 + (n \div PerPage)]]
          /\ NextEngine = Driven[1 + ((n % PerPage) \div Len(Viewports))]
      BY DEF NextPage, NextEngine, n
    <3> QED
      BY <1>1, <1>2, <1>3, <1>5, <2>1, <3>1, <3>2 DEF SeenLaw
  <2>2. CASE i # n + 1
    <3>1. i \in 1..n
      BY <1>1, <2>2
    <3>2. SeenLaw(i) /\ shown'[i] = shown[i]
      BY <1>4, <1>5, <3>1
    <3> QED
      BY <1>2, <3>2 DEF SeenLaw
  <2> QED
    BY <2>1, <2>2
<1>7. Cardinality(offered) \in Nat
  BY <1>4, FewOffered
<1>8. PublishedLaw'
  BY <1>1, <1>2, <1>7 DEF PublishedLaw
<1> QED
  BY <1>1, <1>2, <1>4, <1>5, <1>6, <1>8 DEF StageLaw

LEMMA ConcludeStage ==
    ASSUME StageLaw, Conclude
    PROVE  StageLaw'
<1>1. /\ chosen # Nothing /\ ~Opening
      /\ verdicts' = [i \in DOMAIN chosen |-> Row(chosen[i])]
      /\ published' = [e \in Range2(Driven) |-> Counted(shown, verdicts', e, Len(chosen))]
      /\ UNCHANGED <<offered, chosen, shown, tier0Results>>
  BY DEF Conclude
<1>2. /\ offered \in PageLists /\ tier0Results \in Evidences
      /\ Len(shown) \in Nat /\ shown = [i \in 1..Len(shown) |-> shown[i]]
      /\ chosen \in Seq(offered) /\ \A i \in 1..Len(shown) : SeenLaw(i)
  BY <1>1 DEF StageLaw
<1>3. Len(chosen) \in Nat
  BY <1>2
<1>4. \A i : Row(chosen[i])' = Row(chosen[i])
  BY <1>1 DEF Row, Log
<1>5. (~Opening)'
  BY <1>1 DEF Opening
<1>6. (\A i \in 1..Len(shown) : SeenLaw(i))'
  BY <1>1, <1>2 DEF SeenLaw
<1>7. verdicts' = [i \in DOMAIN chosen' |-> Row(chosen[i])']
  BY <1>1, <1>4
<1>8. published' = [e \in Range2(Driven) |-> Counted(shown', verdicts', e, Len(chosen'))]
  BY <1>1
<1>9. PublishedLaw'
  BY <1>1, <1>3, <1>8 DEF PublishedLaw
<1> QED
  BY <1>1, <1>2, <1>5, <1>6, <1>7, <1>9 DEF StageLaw

LEMMA StageNext == StageLaw /\ [CompatNext]_compatVars => StageLaw'
<1> SUFFICES ASSUME StageLaw, [CompatNext]_compatVars PROVE StageLaw'
  OBVIOUS
<1>1. ASSUME Opening, Record(Unavailable) PROVE StageLaw'
  BY <1>1, RecordStage DEF Unavailable
<1>2. CASE Select
  BY <1>2, SelectStage
<1>3. CASE LaunchFails
  BY <1>1, <1>3 DEF LaunchFails
<1>4. CASE Open
  <2>1. Opening /\ NextPage \in offered /\ offered \in PageLists
    BY <1>4, PlaceOfNext DEF Open, StageLaw
  <2>2. PICK sight \in Sights[NextPage] : Record(sight)
    BY <1>4 DEF Open
  <2>3. /\ DOMAIN sight = DOMAIN Unavailable /\ sight.fails \in BOOLEAN
        /\ sight.state \in {"tested", "inconclusive", "unavailable"}
        /\ sight.ms # Nothing => sight.ms \in Nat \ {0}
    BY <2>1, <2>2, BrowserCompatibilityAssumption
  <2> QED
    BY <2>1, <2>2, <2>3, RecordStage
<1>5. CASE BrowserDies
  BY <1>1, <1>5 DEF BrowserDies
<1>6. CASE OpenInDead
  BY <1>1, <1>6 DEF OpenInDead
<1>7. CASE Conclude
  BY <1>7, ConcludeStage
<1>8. CASE UNCHANGED compatVars
  <2>1. UNCHANGED <<offered, chosen, shown, published, verdicts, tier0Results>>
    BY <1>8 DEF compatVars
  <2>2. \A i : SeenLaw(i)' = SeenLaw(i)
    BY <2>1 DEF SeenLaw
  <2>3. \A i : Row(chosen[i])' = Row(chosen[i])
    BY <2>1 DEF Row, Log
  <2>4. Opening' = Opening
    BY <2>1 DEF Opening
  <2>5. PublishedLaw' = PublishedLaw
    BY <2>1 DEF PublishedLaw
  <2>6. [i \in DOMAIN chosen |-> Row(chosen[i])]' = [i \in DOMAIN chosen |-> Row(chosen[i])]
    BY <2>1, <2>3
  <2>7. (\A i \in 1..Len(shown) : SeenLaw(i))' <=> \A i \in 1..Len(shown) : SeenLaw(i)
    BY <2>1, <2>2
  <2> QED
    BY <2>1, <2>4, <2>5, <2>6, <2>7 DEF StageLaw
<1> QED
  BY <1>2, <1>3, <1>4, <1>5, <1>6, <1>7, <1>8 DEF CompatNext

-----------------------------------------------------------------------------
(* What verdicts are made of.                                               *)

\* Observations as browsers make them.
Plain(log, some) ==
    /\ IsFiniteSet(some)
    /\ \A i \in some : /\ log[i].state \in {"tested", "inconclusive", "unavailable"}
                       /\ log[i].fails \in BOOLEAN
                       /\ log[i].ms # Nothing => log[i].ms \in Nat \ {0}

LEMMA FewTimed ==
    ASSUME NEW log, NEW some, Plain(log, some)
    PROVE  IsFiniteSet(Timed(log, some)) /\ Timed(log, some) \subseteq Nat \ {0}
<1> DEFINE heard == {i \in some : WasTested(log[i]) /\ log[i].ms # Nothing}
           f == [i \in heard |-> log[i].ms]
<1>1. IsFiniteSet(heard)
  BY FS_Subset DEF Plain
<1>2. f = [i \in heard |-> f[i]] /\ Timed(log, some) = {f[i] : i \in heard}
  BY DEF Timed
<1>3. Timed(log, some) \subseteq Nat \ {0}
  BY DEF Timed, Plain
<1> HIDE DEF heard, f
<1>4. IsFiniteSet({f[i] : i \in heard})
  BY <1>1, <1>2, FiniteRange
<1> QED
  BY <1>2, <1>3, <1>4

\* Of more openings the times vary no less.
LEMMA VariesMore ==
    ASSUME NEW log, NEW all, Plain(log, all), NEW some \in SUBSET all, Varies(log, some)
    PROVE  Varies(log, all)
<1> DEFINE S == Timed(log, all)  T == Timed(log, some)
<1>1. IsFiniteSet(S) /\ S \subseteq Nat \ {0}
  BY FewTimed
<1>2. T \subseteq S
  BY DEF Timed
<1>3. PICK a \in T, b \in T : (b - a) * 100 > Threshold * a
  BY DEF Varies
<1> HIDE DEF S, T
<1>4. PICK low \in S : \A c \in S : low <= c
  <2>1. S \in SUBSET Nat /\ S # {}
    BY <1>1, <1>2, <1>3
  <2> QED
    BY <2>1, LeastNatural
<1>5. PICK high \in S : \A c \in S : c <= high
  <2> DEFINE age == [c \in S |-> c]
  <2>1. \A c \in S : age[c] \in Nat /\ age[c] = c
    BY <1>1
  <2>2. S # {}
    BY <1>2, <1>3
  <2> HIDE DEF age
  <2>3. \E c \in S : \A d \in S : age[c] >= age[d]
    BY <1>1, <2>1, <2>2, NewestExists
  <2> QED
    BY <1>1, <2>1, <2>3
<1>6. /\ a \in Nat /\ b \in Nat /\ low \in Nat \ {0} /\ high \in Nat
      /\ low <= a /\ b <= high /\ Threshold \in Nat
  BY <1>1, <1>2, <1>3, <1>4, <1>5, BrowserCompatibilityAssumption
<1>7. Threshold * low <= Threshold * a
  <2>1. PICK c \in Nat : a = low + c
    <3>1. a - low \in Nat /\ a = low + (a - low)
      BY <1>6
    <3> QED
      BY <3>1
  <2>2. Threshold * a = Threshold * low + Threshold * c /\ Threshold * c \in Nat
    BY <1>6, <2>1
  <2>3. Threshold * low \in Nat
    BY <1>6
  <2> QED
    BY <2>2, <2>3
<1>8. (high - low) * 100 > Threshold * low
  <2>1. (high - low) * 100 >= (b - a) * 100
    BY <1>6
  <2>2. Threshold * low \in Nat /\ Threshold * a \in Nat
    BY <1>6
  <2> DEFINE x == Threshold * low  y == Threshold * a
  <2>3. x \in Nat /\ y \in Nat /\ x <= y /\ (b - a) * 100 > y
    BY <1>3, <1>7, <2>2
  <2> HIDE DEF x, y
  <2>4. (high - low) * 100 > x
    BY <1>6, <2>1, <2>3
  <2> QED
    BY <2>4 DEF x
<1>9. low > 0
  BY <1>6
<1> QED
  BY <1>4, <1>5, <1>8, <1>9 DEF Varies, S

LEMMA RemarkedIs ==
    ASSUME NEW log, NEW some
    PROVE  Remarked(log, some) \in {"compatible", "partially_compatible"}
BY DEF Remarked

LEMMA RemarkedMore ==
    ASSUME NEW log, NEW all, Plain(log, all), NEW some \in SUBSET all,
           Remarked(log, all) = "compatible"
    PROVE  Remarked(log, some) = "compatible"
BY VariesMore DEF Remarked

LEMMA ClassifyIs ==
    ASSUME NEW log, NEW some, Plain(log, some), some # {}
    PROVE  LET v == Classify(log, some) IN
           /\ v \in {"compatible", "partially_compatible"} =>
                 \A j \in some : WasTested(log[j]) => Works(log[j])
           /\ v \in {"incompatible", "inconclusive"} => \E j \in some : Fails(log[j])
           /\ v = "incompatible" => \E j \in some : Works(log[j])
           /\ v = "unavailable" <=> \A j \in some : ~WasTested(log[j])
           /\ v \in {"compatible", "partially_compatible", "incompatible", "inconclusive", "unavailable"}
<1>1. Remarked(log, some) \in {"compatible", "partially_compatible"}
  BY RemarkedIs
<1>2. ASSUME \A j \in some : ~Fails(log[j])
      PROVE  \A j \in some : WasTested(log[j]) => Works(log[j])
  BY <1>2 DEF Plain, Fails, Works, WasTested
<1>3. \A j \in some : log[j].state = "inconclusive" => Fails(log[j]) /\ WasTested(log[j])
  BY DEF Fails, WasTested
<1>4. \A j \in some : Fails(log[j]) \/ Works(log[j]) => WasTested(log[j])
  BY DEF Fails, WasTested, Works
<1> QED
  BY <1>1, <1>2, <1>3, <1>4 DEF Classify

\* The verdict over all openings of a page against that of the openings in one engine.
LEMMA OneOfAll ==
    ASSUME NEW log, NEW all, Plain(log, all), NEW e,
           NEW mine, mine = {j \in all : log[j].engine = e}, mine # {}
    PROVE  LET v == EngineVerdict(log, all, e)  result == Classify(log, all) IN
           /\ v \in {"compatible", "partially_compatible"} =>
                 \A j \in mine : WasTested(log[j]) => Works(log[j])
           /\ v = "incompatible" => (\E j \in mine : Fails(log[j])) /\ \E j \in all : Works(log[j])
           /\ v = "unavailable" <=> \A j \in mine : ~WasTested(log[j])
           /\ result \in {"compatible", "partially_compatible"} =>
                 v \in {"compatible", "partially_compatible", "unavailable"}
           /\ result = "compatible" => v \in {"compatible", "unavailable"}
           /\ v \in {"compatible", "partially_compatible", "incompatible", "inconclusive", "unavailable"}
<1> DEFINE own == Classify(log, mine)  v == EngineVerdict(log, all, e)
           result == Classify(log, all)
<1>1. mine \subseteq all /\ all # {} /\ Plain(log, mine)
  BY FS_Subset DEF Plain
<1>2. /\ own \in {"compatible", "partially_compatible"} =>
            \A j \in mine : WasTested(log[j]) => Works(log[j])
      /\ own \in {"incompatible", "inconclusive"} => \E j \in mine : Fails(log[j])
      /\ own = "incompatible" => \E j \in mine : Works(log[j])
      /\ own = "unavailable" <=> \A j \in mine : ~WasTested(log[j])
      /\ own \in {"compatible", "partially_compatible", "incompatible", "inconclusive", "unavailable"}
  BY <1>1, ClassifyIs
<1>3. /\ result \in {"compatible", "partially_compatible"} =>
            \A j \in all : WasTested(log[j]) => Works(log[j])
  BY <1>1, ClassifyIs
<1>4. v = own \/ (own = "inconclusive" /\ v = "incompatible" /\ \E j \in all : Works(log[j]))
  BY DEF EngineVerdict
<1>5. result = "compatible" => own # "partially_compatible"
  <2> SUFFICES ASSUME result = "compatible", own = "partially_compatible" PROVE FALSE
    OBVIOUS
  <2>1. Remarked(log, all) = "compatible" /\ Remarked(log, mine) = "partially_compatible"
    BY RemarkedIs DEF Classify
  <2> QED
    BY <1>1, <2>1, RemarkedMore
<1>6. \A j \in all : Works(log[j]) => ~Fails(log[j])
  BY DEF Works, Fails
<1>7. \A j \in all : Fails(log[j]) => WasTested(log[j])
  BY DEF Fails
<1> HIDE DEF own, v, result
<1>8. result \in {"compatible", "partially_compatible"} => own \notin {"incompatible", "inconclusive"}
  BY <1>1, <1>2, <1>3, <1>6, <1>7
<1>9. /\ v \in {"compatible", "partially_compatible"} =>
            \A j \in mine : WasTested(log[j]) => Works(log[j])
      /\ v = "incompatible" => (\E j \in mine : Fails(log[j])) /\ \E j \in all : Works(log[j])
      /\ v = "unavailable" <=> \A j \in mine : ~WasTested(log[j])
      /\ v \in {"compatible", "partially_compatible", "incompatible", "inconclusive", "unavailable"}
  BY <1>1, <1>2, <1>4
<1>10. /\ result \in {"compatible", "partially_compatible"} =>
            v \in {"compatible", "partially_compatible", "unavailable"}
       /\ result = "compatible" => v \in {"compatible", "unavailable"}
  BY <1>2, <1>4, <1>5, <1>8
<1> QED
  BY <1>9, <1>10 DEF v, result

\* What failed while something worked is the fault of an engine.
LEMMA BlameIsFound ==
    ASSUME NEW log, NEW all, Plain(log, all), Classify(log, all) = "incompatible"
    PROVE  \E j \in all : EngineVerdict(log, all, log[j].engine) = "incompatible"
<1>1. /\ all # {} /\ \A j \in all : log[j].state # "inconclusive"
      /\ \E j \in all : Fails(log[j]) /\ \E k \in all : Works(log[k])
  BY RemarkedIs DEF Classify
<1>2. PICK j \in all, k \in all : Fails(log[j]) /\ Works(log[k])
  BY <1>1
<1> DEFINE e == log[j].engine  mine == {i \in all : log[i].engine = e}
<1>3. j \in mine /\ WasTested(log[j]) /\ mine \subseteq all
  BY <1>2 DEF Fails
<1>4. Classify(log, mine) = IF \E i \in mine : Works(log[i]) THEN "incompatible" ELSE "inconclusive"
  <2> HIDE DEF mine
  <2> QED
    BY <1>1, <1>2, <1>3 DEF Classify
<1>5. CASE \E i \in mine : Works(log[i])
  BY <1>4, <1>5 DEF EngineVerdict
<1>6. CASE ~ \E i \in mine : Works(log[i])
  <2>1. log[k].engine # e
    BY <1>2, <1>6
  <2> QED
    BY <1>2, <1>4, <1>6, <2>1 DEF EngineVerdict
<1> QED
  BY <1>5, <1>6

-----------------------------------------------------------------------------
(* The matrix.                                                              *)

LEMMA LogIsPlain ==
    ASSUME StageLaw, chosen # Nothing
    PROVE  /\ Len(shown) \in Nat /\ DOMAIN shown = 1..Len(shown) /\ IsFiniteSet(DOMAIN shown)
           /\ \A some \in SUBSET DOMAIN shown : Plain(shown, some)
           /\ \A j \in DOMAIN shown : shown[j].engine \in Range2(Driven)
<1>1. Len(shown) \in Nat /\ DOMAIN shown = 1..Len(shown) /\ \A j \in 1..Len(shown) : SeenLaw(j)
  <2>1. Len(shown) \in Nat /\ shown = [j \in 1..Len(shown) |-> shown[j]]
    BY DEF StageLaw
  <2>2. DOMAIN shown = 1..Len(shown)
    BY <2>1
  <2> QED
    BY <2>1, <2>2 DEF StageLaw
<1>2. IsFiniteSet(DOMAIN shown)
  BY <1>1, FS_Interval
<1>3. ASSUME NEW some \in SUBSET DOMAIN shown  PROVE Plain(shown, some)
  <2>1. IsFiniteSet(some)
    BY <1>2, FS_Subset
  <2> QED
    BY <1>1, <2>1 DEF Plain, SeenLaw
<1>4. Len(chosen) \in Nat
  <2>1. chosen \in Seq(offered)
    BY DEF StageLaw
  <2> QED
    BY <2>1
<1>5. ASSUME NEW j \in DOMAIN shown  PROVE shown[j].engine \in Range2(Driven)
  <2> DEFINE n == j - 1
  <2>1. n \in Nat /\ j = n + 1 /\ Len(shown) \in Nat /\ n < Len(shown)
    BY <1>1
  <2>2. SeenLaw(j)
    BY <1>1
  <2>3. n \div PerPage < Len(chosen) /\ shown[j].engine = Driven[1 + ((n % PerPage) \div Len(Viewports))]
    BY <2>2 DEF SeenLaw
  <2> HIDE DEF n
  <2>4. 1 + ((n % PerPage) \div Len(Viewports)) \in DOMAIN Driven
    <3>1. n < (n \div PerPage + 1) * PerPage /\ n \div PerPage + 1 \in Nat
      <4> DEFINE q == PerPage  d == n \div q  m == n % q
      <4>1. q \in Nat \ {0}
        BY Sizes
      <4> HIDE DEF q
      <4>2. d \in Nat /\ m \in Nat /\ m < q /\ n = d * q + m
        BY <2>1, <4>1, Division
      <4> HIDE DEF d, m
      <4>3. (d + 1) * q = d * q + q /\ d * q \in Nat
        BY <4>1, <4>2
      <4> QED
        BY <4>1, <4>2, <4>3 DEF q, d
    <3> QED
      BY <2>1, <3>1, PlaceIs
  <2> QED
    BY <2>3, <2>4 DEF Range2
<1> QED
  BY <1>1, <1>2, <1>3, <1>5

\* When the verdicts are there every page has been opened in every engine.
LEMMA OpenedInEach ==
    ASSUME StageLaw, verdicts # Nothing, NEW i \in DOMAIN chosen, NEW e \in Range2(Driven)
    PROVE  \E j \in Log(Address[chosen[i]]) : shown[j].engine = e
<1>1. /\ chosen # Nothing /\ chosen \in Seq(offered) /\ ~Opening
      /\ Len(shown) \in Nat /\ DOMAIN shown = 1..Len(shown) /\ \A j \in DOMAIN shown : SeenLaw(j)
  BY LogIsPlain DEF StageLaw
<1>2. Len(chosen) \in Nat /\ i \in 1..Len(chosen)
  BY <1>1
<1>3. PICK k \in 1..Len(Driven) : Driven[k] = e
  BY Sizes DEF Range2
<1>4. PICK n \in Nat : /\ n < Len(chosen) * PerPage /\ n \div PerPage = i - 1
                       /\ (n % PerPage) \div Len(Viewports) = k - 1
  <2>1. i - 1 \in Nat /\ i - 1 < Len(chosen) /\ k - 1 \in Nat /\ k - 1 < Len(Driven)
    BY <1>2, <1>3, Sizes
  <2> QED
    BY <1>2, <2>1, PlaceAt
<1>5. n + 1 \in DOMAIN shown
  <2>1. Len(chosen) * PerPage <= Len(shown)
    <3>1. Len(chosen) * PerPage \in Nat
      BY <1>2, Sizes
    <3> QED
      BY <1>1, <3>1 DEF Opening
  <2>2. Len(chosen) * PerPage \in Nat
    BY <1>2, Sizes
  <2> QED
    BY <1>1, <1>4, <2>1, <2>2
<1>6. SeenLaw(n + 1) /\ (n + 1) - 1 = n
  BY <1>1, <1>5
<1>7. 1 + (i - 1) = i /\ 1 + (k - 1) = k
  BY <1>2, <1>3, Sizes
<1>8. shown[n + 1].url = Address[chosen[i]] /\ shown[n + 1].engine = e
  BY <1>3, <1>4, <1>6, <1>7 DEF SeenLaw
<1> QED
  BY <1>5, <1>8 DEF Log

LEMMA StageIsObserved == StageLaw => VerdictsAreObserved
<1> SUFFICES ASSUME StageLaw, verdicts # Nothing, NEW i \in DOMAIN verdicts
             PROVE  LET row == verdicts[i] IN
        /\ \A e \in Range2(Driven) :
              LET mine == {j \in Log(row.url) : shown[j].engine = e}  v == row.engines[e] IN
              /\ v \in {"compatible", "partially_compatible"} =>
                    \A j \in mine : WasTested(shown[j]) => Works(shown[j])
              /\ v = "incompatible" => /\ \E j \in mine : Fails(shown[j])
                                       /\ \E j \in Log(row.url) : Works(shown[j])
              /\ v = "unavailable" <=> \A j \in mine : ~WasTested(shown[j])
              /\ row.result \in {"compatible", "partially_compatible"} =>
                    v \in {"compatible", "partially_compatible", "unavailable"}
              /\ row.result = "compatible" => v \in {"compatible", "unavailable"}
        /\ row.result = "incompatible" => \E e \in Range2(Driven) : row.engines[e] = "incompatible"
  BY DEF VerdictsAreObserved
<1> DEFINE row == verdicts[i]  all == Log(row.url)
<1>1. chosen # Nothing /\ i \in DOMAIN chosen /\ row = Row(chosen[i])
  BY DEF StageLaw
<1>2. /\ row.url = Address[chosen[i]] /\ row.result = Classify(shown, all)
      /\ \A e \in Range2(Driven) : row.engines[e] = EngineVerdict(shown, all, e)
  BY <1>1 DEF Row
<1>3. all \subseteq DOMAIN shown
  BY DEF Log
<1>4. Plain(shown, all)
  BY <1>1, <1>3, LogIsPlain
<1> HIDE DEF row
<1>5. ASSUME NEW e \in Range2(Driven)
      PROVE  LET mine == {j \in all : shown[j].engine = e}  v == row.engines[e] IN
              /\ v \in {"compatible", "partially_compatible"} =>
                    \A j \in mine : WasTested(shown[j]) => Works(shown[j])
              /\ v = "incompatible" => /\ \E j \in mine : Fails(shown[j])
                                       /\ \E j \in all : Works(shown[j])
              /\ v = "unavailable" <=> \A j \in mine : ~WasTested(shown[j])
              /\ row.result \in {"compatible", "partially_compatible"} =>
                    v \in {"compatible", "partially_compatible", "unavailable"}
              /\ row.result = "compatible" => v \in {"compatible", "unavailable"}
  <2> DEFINE mine == {j \in all : shown[j].engine = e}
  <2>1. mine # {}
    BY <1>1, <1>2, OpenedInEach
  <2> HIDE DEF all
  <2>2. mine = {j \in all : shown[j].engine = e}
    OBVIOUS
  <2> HIDE DEF mine
  <2> QED
    BY <1>2, <1>4, <2>1, <2>2, OneOfAll
<1>6. row.result = "incompatible" => \E e \in Range2(Driven) : row.engines[e] = "incompatible"
  <2> SUFFICES ASSUME row.result = "incompatible" PROVE \E e \in Range2(Driven) : row.engines[e] = "incompatible"
    OBVIOUS
  <2>1. PICK j \in all : EngineVerdict(shown, all, shown[j].engine) = "incompatible"
    BY <1>2, <1>4, BlameIsFound
  <2>2. shown[j].engine \in Range2(Driven)
    BY <1>1, <1>3, LogIsPlain
  <2> QED
    BY <1>2, <2>1, <2>2
<1> QED
  BY <1>5, <1>6 DEF row

-----------------------------------------------------------------------------
(* The counters.                                                            *)

LEMMA FewAddresses ==
    ASSUME StageLaw, NEW some \in SUBSET DOMAIN shown
    PROVE  /\ IsFiniteSet({shown[j].url : j \in some})
           /\ Cardinality({shown[j].url : j \in some}) \in Nat
<1> DEFINE f == [j \in some |-> shown[j].url]
<1>1. IsFiniteSet(some)
  <2>1. Len(shown) \in Nat /\ shown = [j \in 1..Len(shown) |-> shown[j]]
    BY DEF StageLaw
  <2>2. DOMAIN shown = 1..Len(shown)
    BY <2>1
  <2>3. IsFiniteSet(DOMAIN shown)
    BY <2>1, <2>2, FS_Interval
  <2> QED
    BY <2>3, FS_Subset
<1>2. f = [j \in some |-> f[j]] /\ {shown[j].url : j \in some} = {f[j] : j \in some}
  OBVIOUS
<1> HIDE DEF f
<1>3. IsFiniteSet({f[j] : j \in some})
  BY <1>1, <1>2, FiniteRange
<1> QED
  BY <1>2, <1>3, FS_CardinalityType

\* The pages of a matrix on which an engine has a verdict.
Rated(S, matrix, e, v) == {i \in S : matrix[i].engines[e] = v}

LEMMA SharedOut ==
    ASSUME NEW S, IsFiniteSet(S), NEW matrix, NEW e,
           \A i \in S : matrix[i].engines[e] \in
              {"compatible", "partially_compatible", "incompatible", "inconclusive", "unavailable"}
    PROVE  Cardinality(Rated(S, matrix, e, "compatible"))
              + Cardinality(Rated(S, matrix, e, "partially_compatible"))
              + Cardinality(Rated(S, matrix, e, "incompatible"))
              + (Cardinality(Rated(S, matrix, e, "inconclusive"))
                 + Cardinality(Rated(S, matrix, e, "not_tested")))
              + Cardinality(Rated(S, matrix, e, "unavailable")) = Cardinality(S)
<1> DEFINE Those(v) == Rated(S, matrix, e, v)
           A == Those("compatible")  B == Those("partially_compatible")
           C == Those("incompatible")  D == Those("inconclusive")  E == Those("unavailable")
           rest == A \cup B \cup C \cup D
<1>1. IsFiniteSet(A) /\ IsFiniteSet(B) /\ IsFiniteSet(C) /\ IsFiniteSet(D) /\ IsFiniteSet(E)
  BY FS_Subset DEF Rated
<1>2. A \cap B = {} /\ (A \cup B) \cap C = {} /\ (A \cup B \cup C) \cap D = {}
  BY DEF Rated
<1>3. rest \cap E = {} /\ rest \cup E = S /\ rest \subseteq S
  BY DEF Rated
<1>4. Those("not_tested") = {}
  BY DEF Rated
<1>5. Cardinality(Those("not_tested")) = 0
  BY <1>4, FS_EmptySet
<1> HIDE DEF A, B, C, D, E
<1>6. Cardinality(A) + Cardinality(B) + Cardinality(C) + Cardinality(D) = Cardinality(rest)
  BY <1>1, <1>2, FourParts
<1> HIDE DEF rest
<1>7. IsFiniteSet(rest)
  BY <1>3, FS_Subset
<1>8. Cardinality(rest \cup E) = Cardinality(rest) + Cardinality(E)
  BY <1>1, <1>3, <1>7, TwoParts
<1>9. /\ Cardinality(A) \in Nat /\ Cardinality(B) \in Nat /\ Cardinality(C) \in Nat
      /\ Cardinality(D) \in Nat /\ Cardinality(E) \in Nat
  BY <1>1, FS_CardinalityType
<1> DEFINE zero == Cardinality(Those("not_tested"))
<1>10. Cardinality(A) + Cardinality(B) + Cardinality(C) + (Cardinality(D) + zero) + Cardinality(E)
          = Cardinality(S)
  <2>1. zero = 0
    BY <1>5
  <2>2. Cardinality(rest) + Cardinality(E) = Cardinality(S)
    BY <1>3, <1>8
  <2>3. Cardinality(rest) \in Nat
    BY <1>7, FS_CardinalityType
  <2> HIDE DEF zero
  <2> QED
    BY <1>6, <1>9, <2>1, <2>2, <2>3
<1> QED
  BY <1>10 DEF A, B, C, D, E

\* The verdict of an engine on a page, when the matrix is there.
LEMMA RowsAre ==
    ASSUME StageLaw, verdicts # Nothing, NEW e \in Range2(Driven), NEW i \in DOMAIN chosen
    PROVE  /\ verdicts[i].engines[e] \in
                {"compatible", "partially_compatible", "incompatible", "inconclusive", "unavailable"}
           /\ verdicts[i].engines[e] = "unavailable" <=>
                \A j \in Log(Address[chosen[i]]) : shown[j].engine = e => ~WasTested(shown[j])
<1> DEFINE all == Log(Address[chosen[i]])
           mine == {j \in all : shown[j].engine = e}
<1>1. chosen # Nothing /\ verdicts[i].engines[e] = EngineVerdict(shown, all, e)
  BY DEF StageLaw, Row
<1>2. Plain(shown, all)
  BY <1>1, LogIsPlain DEF Log
<1>3. mine # {}
  BY OpenedInEach
<1> HIDE DEF all
<1>4. mine = {j \in all : shown[j].engine = e}
  OBVIOUS
<1> HIDE DEF mine
<1>5. /\ verdicts[i].engines[e] \in
           {"compatible", "partially_compatible", "incompatible", "inconclusive", "unavailable"}
      /\ verdicts[i].engines[e] = "unavailable" <=> \A j \in mine : ~WasTested(shown[j])
  BY <1>1, <1>2, <1>3, <1>4, OneOfAll
<1> QED
  BY <1>4, <1>5 DEF all

LEMMA CountedUp ==
    ASSUME NEW n \in Nat
    PROVE  IsFiniteSet(1..n) /\ Cardinality(1..n) = n
<1>1. IsFiniteSet(1..n) /\ Cardinality(1..n) = IF 1 > n THEN 0 ELSE n - 1 + 1
  BY FS_Interval
<1> QED
  BY <1>1

\* Tally addresses of their own, the pages that could be opened in an engine are those whose
\* addresses were.
LEMMA AddressesOfPages ==
    ASSUME StageLaw, verdicts # Nothing, Distinct, NEW e \in Range2(Driven)
    PROVE  LET mine == OfEngine(shown, e)
               lost == {i \in DOMAIN verdicts : verdicts[i].engines[e] = "unavailable"} IN
           /\ Cardinality({shown[j].url : j \in mine}) = Len(chosen)
           /\ Cardinality({shown[j].url : j \in {j \in mine : WasTested(shown[j])}})
                = Len(chosen) - Cardinality(lost)
<1> DEFINE mine == OfEngine(shown, e)
           lost == {i \in DOMAIN chosen : verdicts[i].engines[e] = "unavailable"}
           kept == DOMAIN chosen \ lost
           all == {Address[chosen[i]] : i \in DOMAIN chosen}
           tested == {shown[j].url : j \in {j \in mine : WasTested(shown[j])}}
           f == [i \in DOMAIN chosen |-> Address[chosen[i]]]
           g == [i \in kept |-> f[i]]
<1>1. /\ chosen # Nothing /\ Len(chosen) \in Nat /\ DOMAIN chosen = 1..Len(chosen)
      /\ DOMAIN verdicts = DOMAIN chosen
  <2>1. chosen # Nothing /\ chosen \in Seq(offered) /\ verdicts = [i \in DOMAIN chosen |-> Row(chosen[i])]
    BY DEF StageLaw
  <2> QED
    BY <2>1
<1>2. IsFiniteSet(DOMAIN chosen) /\ Cardinality(DOMAIN chosen) = Len(chosen)
  BY <1>1, CountedUp
<1>3. \A j \in mine : \E i \in DOMAIN chosen : shown[j].url = Address[chosen[i]]
  <2> SUFFICES ASSUME NEW j \in mine PROVE \E i \in DOMAIN chosen : shown[j].url = Address[chosen[i]]
    OBVIOUS
  <2>1. j \in DOMAIN shown
    BY DEF OfEngine
  <2>2. Len(shown) \in Nat /\ j \in 1..Len(shown) /\ SeenLaw(j)
    BY <1>1, <2>1, LogIsPlain DEF StageLaw
  <2> DEFINE p == (j - 1) \div PerPage
  <2>3. p \in Nat
    <3>1. j - 1 \in Nat
      BY <2>2
    <3> QED
      BY <3>1, Sizes, Division
  <2>4. p < Len(chosen) /\ shown[j].url = Address[chosen[1 + p]]
    BY <2>2 DEF SeenLaw
  <2> HIDE DEF p
  <2>5. 1 + p \in DOMAIN chosen
    BY <1>1, <2>3, <2>4
  <2> QED
    BY <2>4, <2>5
<1>4. \A i \in DOMAIN chosen : \E j \in mine : shown[j].url = Address[chosen[i]]
  BY OpenedInEach DEF Log, OfEngine
<1>5. {shown[j].url : j \in mine} = all
  <2> HIDE DEF mine
  <2> QED
    BY <1>3, <1>4
<1>6. Cardinality(all) = Len(chosen)
  <2>1. all = AddressesOf(Range2(chosen))
    BY DEF AddressesOf, Range2
  <2> QED
    BY <2>1 DEF Distinct
<1>7. f \in Injection(DOMAIN chosen, all)
  <2>1. f \in Surjection(DOMAIN chosen, all)
    BY DEF Surjection
  <2> HIDE DEF f, all
  <2> QED
    BY <1>2, <1>6, <2>1, FS_SurjSameCardinalityImpliesInj
<1>8. \A i, k \in DOMAIN chosen : Address[chosen[i]] = Address[chosen[k]] => i = k
  BY <1>7 DEF Injection, IsInjective
<1>9. \A i \in DOMAIN chosen : i \in lost <=>
         \A j \in mine : shown[j].url = Address[chosen[i]] => ~WasTested(shown[j])
  <2> SUFFICES ASSUME NEW i \in DOMAIN chosen
               PROVE  i \in lost <=> \A j \in mine : shown[j].url = Address[chosen[i]] => ~WasTested(shown[j])
    OBVIOUS
  <2>1. i \in lost <=>
           \A j \in Log(Address[chosen[i]]) : shown[j].engine = e => ~WasTested(shown[j])
    BY RowsAre
  <2> QED
    BY <2>1 DEF Log, OfEngine
<1>10. tested = {Address[chosen[i]] : i \in kept}
  <2>1. ASSUME NEW u \in tested  PROVE u \in {Address[chosen[i]] : i \in kept}
    <3>1. PICK j \in mine : WasTested(shown[j]) /\ u = shown[j].url
      BY <2>1
    <3>2. PICK i \in DOMAIN chosen : u = Address[chosen[i]]
      BY <1>3, <3>1
    <3> QED
      BY <1>9, <3>1, <3>2
  <2>2. ASSUME NEW i \in kept  PROVE Address[chosen[i]] \in tested
    <3>1. i \in DOMAIN chosen /\ i \notin lost
      OBVIOUS
    <3>2. PICK j \in mine : shown[j].url = Address[chosen[i]] /\ WasTested(shown[j])
      BY <1>9, <3>1
    <3> QED
      BY <3>2
  <2> QED
    BY <2>1, <2>2
<1>11. g \in Bijection(kept, tested)
  <2>1. \A i \in kept : g[i] = Address[chosen[i]] /\ i \in DOMAIN chosen
    OBVIOUS
  <2>2. g = [i \in kept |-> g[i]]
    OBVIOUS
  <2> HIDE DEF g, kept, tested
  <2> QED
    BY <1>8, <1>10, <2>1, <2>2 DEF Bijection, Injection, Surjection, IsInjective
<1>12. IsFiniteSet(kept) /\ Cardinality(kept) = Len(chosen) - Cardinality(lost)
  <2>1. lost \subseteq DOMAIN chosen
    OBVIOUS
  <2>2. DOMAIN chosen \cap lost = lost
    BY <2>1
  <2> HIDE DEF lost
  <2> QED
    BY <1>2, <2>2, FS_Difference, ZenonT(60)
<1>13. Cardinality(tested) = Cardinality(kept)
  <2> HIDE DEF g, kept, tested
  <2> QED
    BY <1>11, <1>12, FS_Bijection DEF ExistsBijection
<1>14. lost = {i \in DOMAIN verdicts : verdicts[i].engines[e] = "unavailable"}
  BY <1>1
<1> QED
  BY <1>5, <1>6, <1>12, <1>13, <1>14

LEMMA StageAddsUp == StageLaw => CountersAddUp
<1> SUFFICES ASSUME StageLaw, NEW e \in DOMAIN published
             PROVE  LET c == published[e] IN
        /\ c.attempted + c.queued = c.eligible /\ c.tested <= c.attempted
        /\ verdicts # Nothing =>
              /\ c.passed + c.partial + c.failed + c.inconclusive + c.unavailable = c.eligible
              /\ Distinct => c.queued = 0 /\ c.tested = c.eligible - c.unavailable
  BY DEF CountersAddUp
<1>0. PICK eligible \in Nat : \E some :
         /\ published = [x \in Range2(Driven) |-> Counted(shown, some, x, eligible)]
         /\ verdicts # Nothing => some = verdicts /\ eligible = Len(chosen)
  BY DEF StageLaw, PublishedLaw
<1>1. PICK matrix :
         /\ published = [x \in Range2(Driven) |-> Counted(shown, matrix, x, eligible)]
         /\ verdicts # Nothing => matrix = verdicts /\ eligible = Len(chosen)
  BY <1>0
<1> DEFINE c == published[e]
           mine == OfEngine(shown, e)
           attempted == Cardinality({shown[j].url : j \in mine})
           tested == Cardinality({shown[j].url : j \in {j \in mine : WasTested(shown[j])}})
           Tally(v) == Cardinality({i \in DOMAIN matrix : matrix[i].engines[e] = v})
<1>2. /\ e \in Range2(Driven)
      /\ c.eligible = eligible /\ c.attempted = attempted /\ c.queued = eligible - attempted
      /\ c.tested = tested /\ c.passed = Tally("compatible") /\ c.partial = Tally("partially_compatible")
      /\ c.failed = Tally("incompatible") /\ c.unavailable = Tally("unavailable")
      /\ c.inconclusive = Tally("inconclusive") + Tally("not_tested")
  BY <1>1 DEF Counted
<1>3. attempted \in Nat /\ tested \in Nat /\ tested <= attempted
  <2>1. mine \subseteq DOMAIN shown /\ {j \in mine : WasTested(shown[j])} \subseteq DOMAIN shown
    BY DEF OfEngine
  <2> DEFINE some == {j \in mine : WasTested(shown[j])}
  <2>2. some \subseteq mine
    OBVIOUS
  <2> HIDE DEF some, mine
  <2>3. /\ IsFiniteSet({shown[j].url : j \in mine}) /\ Cardinality({shown[j].url : j \in mine}) \in Nat
        /\ Cardinality({shown[j].url : j \in some}) \in Nat
    BY <2>1, FewAddresses DEF some
  <2>4. {shown[j].url : j \in some} \subseteq {shown[j].url : j \in mine}
    BY <2>2
  <2>5. Cardinality({shown[j].url : j \in some}) <= Cardinality({shown[j].url : j \in mine})
    BY <2>3, <2>4, FS_Subset
  <2> QED
    BY <2>3, <2>5 DEF some
<1>4. ASSUME verdicts # Nothing
      PROVE  /\ Tally("compatible") + Tally("partially_compatible") + Tally("incompatible")
                  + (Tally("inconclusive") + Tally("not_tested")) + Tally("unavailable") = eligible
             /\ Distinct => attempted = eligible /\ tested = eligible - Tally("unavailable")
  <2>1. matrix = verdicts /\ eligible = Len(chosen)
    BY <1>1, <1>4
  <2>2. /\ DOMAIN verdicts = DOMAIN chosen /\ IsFiniteSet(DOMAIN chosen)
        /\ Cardinality(DOMAIN chosen) = Len(chosen)
    <3>1. chosen \in Seq(offered) /\ verdicts = [i \in DOMAIN chosen |-> Row(chosen[i])]
      BY <1>4 DEF StageLaw
    <3>2. Len(chosen) \in Nat /\ DOMAIN chosen = 1..Len(chosen) /\ DOMAIN verdicts = DOMAIN chosen
      BY <3>1
    <3> QED
      BY <3>2, CountedUp
  <2>3. \A i \in DOMAIN matrix : matrix[i].engines[e] \in
           {"compatible", "partially_compatible", "incompatible", "inconclusive", "unavailable"}
    BY <1>2, <1>4, <2>1, <2>2, RowsAre
  <2>4. IsFiniteSet(DOMAIN matrix) /\ Cardinality(DOMAIN matrix) = eligible
    BY <2>1, <2>2
  <2>5. Tally("compatible") + Tally("partially_compatible") + Tally("incompatible")
           + (Tally("inconclusive") + Tally("not_tested")) + Tally("unavailable") = eligible
    <3> DEFINE all == DOMAIN matrix
    <3>1. \A v : Tally(v) = Cardinality(Rated(all, matrix, e, v))
      BY DEF Rated
    <3>2. Cardinality(Rated(all, matrix, e, "compatible"))
             + Cardinality(Rated(all, matrix, e, "partially_compatible"))
             + Cardinality(Rated(all, matrix, e, "incompatible"))
             + (Cardinality(Rated(all, matrix, e, "inconclusive"))
                + Cardinality(Rated(all, matrix, e, "not_tested")))
             + Cardinality(Rated(all, matrix, e, "unavailable")) = eligible
      <4> HIDE DEF all, Tally
      <4> QED
        BY <2>3, <2>4, SharedOut DEF all
    <3> HIDE DEF all, Tally
    <3> QED
      BY <3>1, <3>2
  <2>6. ASSUME Distinct
        PROVE  attempted = eligible /\ tested = eligible - Tally("unavailable")
    <3>1. Tally("unavailable")
            = Cardinality({i \in DOMAIN verdicts : verdicts[i].engines[e] = "unavailable"})
      BY <2>1
    <3>2. /\ Cardinality({shown[j].url : j \in mine}) = Len(chosen)
          /\ Cardinality({shown[j].url : j \in {j \in mine : WasTested(shown[j])}})
               = Len(chosen) - Cardinality({i \in DOMAIN verdicts : verdicts[i].engines[e] = "unavailable"})
      BY <1>2, <1>4, <2>6, AddressesOfPages
    <3> QED
      BY <2>1, <3>1, <3>2
  <2> QED
    BY <2>5, <2>6
<1> HIDE DEF c, attempted, tested, Tally
<1>5. c.attempted + c.queued = c.eligible /\ c.tested <= c.attempted
  BY <1>2, <1>3
<1>6. ASSUME verdicts # Nothing
      PROVE  /\ c.passed + c.partial + c.failed + c.inconclusive + c.unavailable = c.eligible
             /\ Distinct => c.queued = 0 /\ c.tested = c.eligible - c.unavailable
  BY <1>2, <1>3, <1>4, <1>6
<1> QED
  BY <1>5, <1>6 DEF c

-----------------------------------------------------------------------------
(* The branded browsers.                                                    *)

\* A browser is verified when its clean platforms are as many as those it requires: they
\* are then the same.
LEMMA VerifiedOnEach ==
    ASSUME StageLaw, NEW b \in DOMAIN Scope, Branded[b].state = "VERIFIED"
    PROVE  /\ Results(b) # {}
           /\ \A p \in Scope[b].platforms :
                 LET rows == {r \in DOMAIN tier0Results : r.channel = Scope[b].channel /\ r.platform = p}
                 IN rows # {} /\ \A r \in rows : tier0Results[r] = "pass"
<1> DEFINE rows == Results(b)
           seen == {r.platform : r \in rows}
           clean == {p \in seen : OnPlatform(rows, p) = Passed(OnPlatform(rows, p))}
<1>1. /\ rows # {} /\ Cardinality(clean) = Cardinality(Scope[b].platforms)
  BY DEF Branded, BrandedRow, UnverifiedRow
<1>2. /\ IsFiniteSet(Scope[b].platforms) /\ Scope[b].platforms \subseteq KnownPlatforms
      /\ clean \subseteq Scope[b].platforms
  BY BrowserCompatibilityAssumption DEF StageLaw, Results
<1>3. clean = Scope[b].platforms
  <2> HIDE DEF clean
  <2> QED
    BY <1>1, <1>2, FS_Subset
<1>4. ASSUME NEW p \in Scope[b].platforms
      PROVE  LET own == {r \in DOMAIN tier0Results : r.channel = Scope[b].channel /\ r.platform = p}
             IN own # {} /\ \A r \in own : tier0Results[r] = "pass"
  <2> DEFINE own == {r \in DOMAIN tier0Results : r.channel = Scope[b].channel /\ r.platform = p}
  <2>1. p \in seen /\ OnPlatform(rows, p) = Passed(OnPlatform(rows, p))
    BY <1>3
  <2>2. own = OnPlatform(rows, p)
    BY <1>2 DEF OnPlatform, Results
  <2>3. own # {}
    BY <2>1, <2>2 DEF OnPlatform
  <2>4. \A r \in own : tier0Results[r] = "pass"
    BY <2>1, <2>2 DEF Passed
  <2> QED
    BY <2>3, <2>4
<1> QED
  BY <1>1, <1>4

LEMMA StageVerifies == StageLaw => VerifiedIsEarned
<1> SUFFICES ASSUME StageLaw PROVE VerifiedIsEarned
  OBVIOUS
<1>1. \A b \in DOMAIN Scope : Branded[b].state = "VERIFIED" =>
          \A p \in Scope[b].platforms :
             LET rows == {r \in DOMAIN tier0Results : r.channel = Scope[b].channel /\ r.platform = p}
             IN rows # {} /\ \A r \in rows : tier0Results[r] = "pass"
  BY VerifiedOnEach
<1>2. DOMAIN Branded = DOMAIN Scope /\ DOMAIN Scope # {}
  BY BrowserCompatibilityAssumption DEF Branded
<1>3. Completion(Branded) = "complete" <=> \A b \in DOMAIN Scope : Branded[b].state = "VERIFIED"
  BY <1>2 DEF Completion
<1>4. ASSUME DOMAIN tier0Results = {}
      PROVE  Completion(Branded) = "not_verified"
  <2>1. \A b \in DOMAIN Scope : Branded[b].state = "NOT_VERIFIED"
    BY <1>4 DEF Branded, BrandedRow, UnverifiedRow, Results
  <2> QED
    BY <1>2, <2>1 DEF Completion
<1> QED
  BY <1>1, <1>3, <1>4 DEF VerifiedIsEarned

\* MatrixIsEarned (browser_compatibility.py:306-400, 402-500, 598-720,
\* real_analysis.py:377-410): whatever the pages, the engines and the viewports, and
\* whatever each opening has shown or whenever a browser died, the verdicts on the pages
\* are those that the observations earn, the counters published at any moment add up, and
\* no report verifies a branded browser but by Tier 0 results on each platform it requires.
THEOREM MatrixHolds == CompatSpec => []MatrixIsEarned
<1>1. CompatInit => StageLaw
  BY StageInit
<1>2. StageLaw /\ [CompatNext]_compatVars => StageLaw'
  BY StageNext
<1>3. StageLaw => MatrixIsEarned
  BY StageIsObserved, StageAddsUp, StageVerifies DEF MatrixIsEarned
<1> QED
  BY <1>1, <1>2, <1>3, PTL DEF CompatSpec

-----------------------------------------------------------------------------
(* Loops over the pages.                                                    *)

\* A loop whose every turn makes a value of a set of one has a value after each turn.
Loop(m, T, base, step) ==
    \E f \in [0..m -> T] : f[0] = base /\ \A n \in 1..m : f[n] = step[n][f[n - 1]]

\* Each turn adds its value to those of the turns before.
LEMMA LoopRuns ==
    ASSUME NEW m \in Nat, NEW T, NEW base \in T, NEW step \in [1..m -> [T -> T]]
    PROVE  Loop(m, T, base, step)
<1> DEFINE Runs(k) == \E f \in [0..k -> T] : f[0] = base /\ \A n \in 1..k : f[n] = step[n][f[n - 1]]
           bad == {k \in 0..m : ~Runs(k)}
<1> SUFFICES \A k \in 0..m : Runs(k)
  <2>1. m \in 0..m
    OBVIOUS
  <2> HIDE DEF Runs
  <2>2. ASSUME \A k \in 0..m : Runs(k)  PROVE Runs(m)
    BY <2>1, <2>2
  <2> QED
    BY <2>2 DEF Runs, Loop
<1>1. SUFFICES ASSUME bad # {} PROVE FALSE
  OBVIOUS
<1>2. PICK k \in bad : \A j \in bad : k <= j
  <2>1. bad \in SUBSET Nat
    OBVIOUS
  <2> HIDE DEF bad
  <2> QED
    BY <1>1, <2>1, LeastNatural
<1>3. k \in 0..m /\ ~Runs(k)
  OBVIOUS
<1>4. k # 0
  <2> DEFINE f == [n \in 0..0 |-> base]
  <2>1. f \in [0..0 -> T] /\ f[0] = base /\ \A n \in 1..0 : f[n] = step[n][f[n - 1]]
    OBVIOUS
  <2>2. Runs(0)
    BY <2>1
  <2> HIDE DEF Runs
  <2> QED
    BY <1>3, <2>2
<1>5. Runs(k - 1)
  <2> HIDE DEF Runs
  <2>1. k - 1 \in 0..m /\ ~(k <= k - 1)
    BY <1>3, <1>4
  <2> QED
    BY <1>2, <2>1
<1>6. PICK f \in [0..(k - 1) -> T] : f[0] = base /\ \A n \in 1..(k - 1) : f[n] = step[n][f[n - 1]]
  BY <1>5
<1> DEFINE g == [n \in 0..k |-> IF n = k THEN step[k][f[k - 1]] ELSE f[n]]
<1>7. f[k - 1] \in T /\ step[k] \in [T -> T]
  BY <1>3, <1>4
<1>8. g \in [0..k -> T]
  BY <1>3, <1>4, <1>7
<1>9. g[0] = base
  BY <1>3, <1>4, <1>6
<1>10. \A n \in 1..k : g[n] = step[n][g[n - 1]]
  <2> SUFFICES ASSUME NEW n \in 1..k PROVE g[n] = step[n][g[n - 1]]
    OBVIOUS
  <2>1. CASE n = k
    BY <1>3, <1>4, <2>1
  <2>2. CASE n # k
    BY <1>3, <1>4, <1>6, <2>2
  <2> QED
    BY <2>1, <2>2
<1> QED
  BY <1>3, <1>8, <1>9, <1>10

-----------------------------------------------------------------------------
(* The diagnosis of a site.                                                 *)

\* A report is of one rule and subtype, and tells of the eligible pages it is about.
LEMMA ReportRules ==
    \A s, rule, subtype, occurrences, f :
        f \in From(s)!ReportOf(rule, subtype, occurrences) => f.rule = rule /\ f.subtype = subtype
<1> SUFFICES ASSUME NEW s, NEW rule, NEW subtype, NEW occurrences,
                    NEW f \in From(s)!ReportOf(rule, subtype, occurrences)
             PROVE  f.rule = rule /\ f.subtype = subtype
  OBVIOUS
<1> DEFINE own == {o \in occurrences : o.page \in From(s)!Eligible}
<1>1. f = [rule |-> rule, subtype |-> subtype, seen |-> own]
  BY DEF From!ReportOf
<1> HIDE DEF own
<1> QED
  BY <1>1

\* A report on pages tells of the eligible ones, if there are any.
LEMMA ReportPages ==
    ASSUME NEW s, NEW rule, NEW subtype, NEW S, NEW what
    PROVE  /\ \A f \in From(s)!ReportOf(rule, subtype, From(s)!OnPages(S, what)) :
                 From(s)!PagesIn(f) = S \cap From(s)!Eligible
           /\ S \cap From(s)!Eligible # {} => From(s)!ReportOf(rule, subtype, From(s)!OnPages(S, what)) # {}
<1> DEFINE occurrences == From(s)!OnPages(S, what)
           own == {o \in occurrences : o.page \in From(s)!Eligible}
<1>1. {o.page : o \in own} = S \cap From(s)!Eligible
  <2>1. \A i \in S : [page |-> i, what |-> <<what>>] \in occurrences
    BY DEF From!OnPages
  <2>2. \A o \in occurrences : o.page \in S
    BY DEF From!OnPages
  <2>3. ASSUME NEW i \in S \cap From(s)!Eligible PROVE i \in {o.page : o \in own}
    <3>1. [page |-> i, what |-> <<what>>].page = i
      OBVIOUS
    <3> HIDE DEF occurrences
    <3> QED
      BY <2>1, <3>1
  <2> HIDE DEF occurrences
  <2> QED
    BY <2>2, <2>3
<1>2. \A f \in From(s)!ReportOf(rule, subtype, occurrences) : f.seen = own
  <2> SUFFICES ASSUME NEW f \in From(s)!ReportOf(rule, subtype, occurrences) PROVE f.seen = own
    OBVIOUS
  <2>1. f = [rule |-> rule, subtype |-> subtype, seen |-> own]
    BY DEF From!ReportOf
  <2> HIDE DEF own
  <2> QED
    BY <2>1
<1>3. own # {} => From(s)!ReportOf(rule, subtype, occurrences) # {}
  BY DEF From!ReportOf
<1> HIDE DEF own, occurrences
<1>4. \A f \in From(s)!ReportOf(rule, subtype, occurrences) : From(s)!PagesIn(f) = S \cap From(s)!Eligible
  BY <1>1, <1>2 DEF From!PagesIn
<1> QED
  BY <1>1, <1>3, <1>4 DEF occurrences

\* A report under a name is of that one.
LEMMA NamedRules ==
    \A s, rule, name, occurrences, f :
        f \in From(s)!Report(rule, name, occurrences) => f.rule = rule /\ f.subtype = <<name>>
  BY ReportRules DEF From!Report

\* The module of the findings counts as others do.
LEMMA SameSize == \A s, S : From(s)!Cardinality(S) = Cardinality(S)
  BY DEF Cardinality, From!Cardinality, IsFiniteSet, From!IsFiniteSet

\* The names of subtypes are told apart from what a finding is about.
LEMMA NamesDiffer ==
    /\ \A a, b : <<a>> = <<b>> => a = b
    /\ \A a, b, c : <<a, b>> # <<c>>
    /\ \A a, b, c, d : <<a, b>> = <<c, d>> => a = c /\ b = d
<1>1. ASSUME NEW a, NEW b, <<a>> = <<b>> PROVE a = b
  <2>1. <<a>>[1] = a /\ <<b>>[1] = b
    OBVIOUS
  <2> QED
    BY <1>1, <2>1
<1>2. ASSUME NEW a, NEW b, NEW c PROVE <<a, b>> # <<c>>
  <2>1. DOMAIN <<a, b>> = 1..2 /\ DOMAIN <<c>> = 1..1
    OBVIOUS
  <2>2. 1..2 # 1..1
    OBVIOUS
  <2> QED
    BY <2>1, <2>2
<1>3. ASSUME NEW a, NEW b, NEW c, NEW d, <<a, b>> = <<c, d>> PROVE a = c /\ b = d
  <2>1. <<a, b>>[1] = a /\ <<c, d>>[1] = c /\ <<a, b>>[2] = b /\ <<c, d>>[2] = d
    OBVIOUS
  <2> QED
    BY <1>3, <2>1
<1> QED
  BY <1>1, <1>2, <1>3

\* The rules of each family of findings; only one finding is called a chain.
Chain == <<"canonical_chain">>

\* Metadata.
LEMMA MetadataRules ==
    ASSUME NEW s, NEW f \in From(s)!MetadataFindings
    PROVE  /\ f.rule \in {"missing_title", "duplicate_title_group", "missing_meta_description",
                          "duplicate_meta_description_group", "missing_h1", "multiple_h1"}
           /\ f.subtype # Chain
<1>1. \A rule, values : \A g \in From(s)!Shared(rule, values) : g.rule = rule /\ g.subtype # Chain
  <2> SUFFICES ASSUME NEW rule, NEW values, NEW g \in From(s)!Shared(rule, values)
               PROVE  g.rule = rule /\ g.subtype # Chain
    OBVIOUS
  <2>1. PICK S : g \in From(s)!ReportOf(rule, <<"shared", values[CHOOSE i \in S : TRUE]>>, From(s)!OnPages(S, "shared"))
    BY DEF From!Shared
  <2> QED
    BY <2>1, ReportRules, NamesDiffer DEF Chain
<1> QED
  BY <1>1, NamedRules, NamesDiffer DEF From!MetadataFindings, Chain

\* Copies.
LEMMA ContentRules ==
    ASSUME NEW s, NEW f \in From(s)!ContentFindings
    PROVE  /\ f.rule \in {"exact_duplicate_content_group", "near_duplicate_content_group"}
           /\ f.subtype # Chain
<1>1. PICK S : \/ f \in From(s)!ReportOf("exact_duplicate_content_group", <<"copies", S>>, From(s)!OnPages(S, "copy"))
               \/ f \in From(s)!ReportOf("near_duplicate_content_group", <<"similar", S>>, From(s)!OnPages(S, "near"))
  BY DEF From!ContentFindings
<1> QED
  BY <1>1, ReportRules, NamesDiffer DEF Chain

\* Patterns.
LEMMA PatternRules ==
    ASSUME NEW s, NEW groups, NEW f \in From(s)!Patterns(groups)
    PROVE  /\ f.rule \in {"template_issue_pattern", "section_issue_pattern", "repeated_issue_pattern"}
           /\ f.subtype # Chain
<1>1. PICK g \in groups :
        f \in From(s)!ReportOf(From(s)!PatternOf(From(s)!PagesIn(g)), <<g.rule, g.subtype>>,
                               From(s)!OnPages(From(s)!PagesIn(g), "pattern"))
  BY DEF From!Patterns
<1>2. From(s)!PatternOf(From(s)!PagesIn(g)) \in
        {"template_issue_pattern", "section_issue_pattern", "repeated_issue_pattern"}
  BY DEF From!PatternOf
<1> QED
  BY <1>1, <1>2, ReportRules, NamesDiffer DEF Chain

\* Languages.
LEMMA LanguageRules ==
    ASSUME NEW s \in Surveyed, NEW f \in From(s)!LanguageFindings
    PROVE  f.rule = "inconsistent_language_declaration" /\ f.subtype # Chain
<1>1. PICK i \in From(s)!Eligible :
        \E pages : f \in From(s)!Report("inconsistent_language_declaration", s.pages[i].type,
                                        From(s)!OnPages(pages, "mixed"))
  BY DEF From!LanguageFindings
<1>2. s.pages[i].type # "canonical_chain"
  BY SiteDiagnosisAssumption DEF From!Eligible, From!Places
<1> QED
  BY <1>1, <1>2, NamedRules, NamesDiffer DEF Chain

\* Links.
LEMMA LinkRules ==
    ASSUME NEW s, NEW f \in From(s)!LinkFindings
    PROVE  /\ f.rule \in {"broken_internal_link", "internal_redirect_link", "indexability_signal_conflict",
                          "inconsistent_url_protocol", "inconsistent_preferred_host",
                          "repeated_issue_pattern", "inconsistent_trailing_slash"}
           /\ f.subtype # Chain
  BY ReportRules, NamesDiffer DEF From!LinkFindings, From!Report, Chain

\* Reach.
LEMMA ReachRules ==
    ASSUME NEW s, NEW f \in From(s)!ReachFindings
    PROVE  f.rule \in {"orphan_page", "dead_end_page", "excessive_click_depth"} /\ f.subtype # Chain
<1>1. PICK pages, what :
        \/ f \in From(s)!Report("orphan_page", "orphan_page", From(s)!OnPages(pages, what))
        \/ f \in From(s)!Report("orphan_page", "no_inbound_link_page", From(s)!OnPages(pages, what))
        \/ f \in From(s)!Report("dead_end_page", "dead_end_page", From(s)!OnPages(pages, what))
        \/ f \in From(s)!Report("excessive_click_depth", "excessive_click_depth", From(s)!OnPages(pages, what))
  BY DEF From!ReachFindings
<1> QED
  BY <1>1, NamedRules, NamesDiffer DEF Chain

\* Canonical declarations.
LEMMA DeclarationRules ==
    ASSUME NEW s, NEW f \in From(s)!DeclarationFindings
    PROVE  /\ f.rule \in {"missing_canonical", "invalid_canonical", "conflicting_canonical",
                          "indexability_signal_conflict", "inconsistent_url_protocol",
                          "inconsistent_preferred_host"}
           /\ f.subtype # Chain
  BY ReportRules, NamesDiffer DEF From!DeclarationFindings, From!Declared, From!Report, Chain

\* Where they lead.
LEMMA CanonicalRules ==
    ASSUME NEW s, NEW f \in From(s)!CanonicalFindings
    PROVE  f.rule \in {"canonical_chain", "canonical_to_non_indexable"}
  BY ReportRules DEF From!CanonicalFindings, From!Report

\* Directives and identities.
LEMMA SignalRules ==
    ASSUME NEW s, NEW f \in From(s)!SignalFindings \cup From(s)!IdentityFindings
    PROVE  f.rule = "indexability_signal_conflict" /\ f.subtype # Chain
  BY ReportRules, NamesDiffer DEF From!SignalFindings, From!IdentityFindings, From!Report, Chain

\* Mixed content and headers.
LEMMA TechnicalRules ==
    ASSUME NEW s, NEW f \in From(s)!TechnicalFindings
    PROVE  f.rule \in {"inconsistent_url_protocol", "missing_security_header"} /\ f.subtype # Chain
<1>1. CASE \E pages : f \in From(s)!Report("inconsistent_url_protocol", "mixed_protocol_resources",
                                           From(s)!OnPages(pages, "mixed"))
  BY <1>1, NamedRules, NamesDiffer DEF Chain
<1>2. CASE \E h \in SecurityHeaders :
             f \in From(s)!Report("missing_security_header", h, From(s)!OnPages(From(s)!Absences(h), h))
  BY <1>2, NamedRules, NamesDiffer, SiteDiagnosisAssumption DEF Chain
<1> QED
  BY <1>1, <1>2 DEF From!TechnicalFindings

\* Pages of one type.
LEMMA CohortRules ==
    ASSUME NEW s, NEW f \in From(s)!CohortFindings
    PROVE  /\ f.rule \in {"inconsistent_structured_data", "inconsistent_security_header_policy",
                          "repeated_issue_pattern"}
           /\ f.subtype # Chain
<1>1. PICK t, signal : f \in From(s)!Mixed(t, signal)
  BY DEF From!CohortFindings
<1>2. PICK occurrences : f \in From(s)!ReportOf(From(s)!RuleOf(signal), <<signal, t>>, occurrences)
  BY <1>1 DEF From!Mixed
<1> QED
  BY <1>2, ReportRules, NamesDiffer DEF From!RuleOf, Chain

\* Repetitions.
LEMMA RepeatedRules ==
    ASSUME NEW s, NEW f \in From(s)!RepeatedFindings
    PROVE  f.rule = "repeated_issue_pattern" /\ f.subtype # Chain
<1>1. CASE \E error : f \in From(s)!ReportOf("repeated_issue_pattern", <<"error", error>>,
                                             From(s)!OnPages(From(s)!Met(error), error))
  BY <1>1, ReportRules, NamesDiffer DEF Chain
<1>2. CASE \E name : f \in From(s)!ReportedAs(name)
  <2>1. PICK name, occurrences : f \in From(s)!ReportOf("repeated_issue_pattern", <<"measured", name>>, occurrences)
    BY <1>2 DEF From!ReportedAs
  <2> QED
    BY <2>1, ReportRules, NamesDiffer DEF Chain
<1> QED
  BY <1>1, <1>2 DEF From!RepeatedFindings

\* What could not be judged.
LEMMA AvailabilityRules ==
    ASSUME NEW s, NEW f \in From(s)!AvailabilityFindings \cup From(s)!Unreadable
    PROVE  /\ f.rule \in {"insufficient_page_evidence", "unavailable_link_graph_evidence",
                          "partial_diagnostic_coverage", "unavailable_content_signature_evidence"}
           /\ f.subtype # Chain
  BY ReportRules, NamesDiffer DEF From!AvailabilityFindings, From!Unreadable, From!Report, Chain

\* Which family a finding is of, by its rule or subtype.
LEMMA FamiliesByRule ==
    ASSUME NEW s \in Surveyed, NEW f \in From(s)!Findings
    PROVE  /\ f.rule \in {"missing_title", "missing_meta_description", "missing_h1"} => f \in From(s)!MetadataFindings
           /\ f.rule = "missing_security_header" => f \in From(s)!TechnicalFindings
           /\ f.rule \in {"insufficient_page_evidence", "unavailable_link_graph_evidence"} =>
                 f \in From(s)!AvailabilityFindings \cup From(s)!Unreadable
           /\ f.rule \in {"orphan_page", "dead_end_page"} => f \in From(s)!ReachFindings
           /\ f.rule \in {"exact_duplicate_content_group", "near_duplicate_content_group"} =>
                 f \in From(s)!ContentFindings
           /\ f.rule \in {"template_issue_pattern", "section_issue_pattern"} =>
                 f \in From(s)!Patterns(From(s)!Grouped)
           /\ f.subtype = Chain => f \in From(s)!CanonicalFindings
<1>1. \/ f \in From(s)!MetadataFindings \/ f \in From(s)!ContentFindings \/ f \in From(s)!LanguageFindings
      \/ f \in From(s)!Patterns(From(s)!Grouped) \/ f \in From(s)!LinkFindings \/ f \in From(s)!ReachFindings
      \/ f \in From(s)!DeclarationFindings \/ f \in From(s)!CanonicalFindings
      \/ f \in From(s)!SignalFindings \cup From(s)!IdentityFindings \/ f \in From(s)!TechnicalFindings
      \/ f \in From(s)!CohortFindings \/ f \in From(s)!RepeatedFindings
      \/ f \in From(s)!AvailabilityFindings \cup From(s)!Unreadable
  BY DEF From!Findings, From!Grouped
<1>2. /\ f \in From(s)!MetadataFindings =>
           f.rule \in {"missing_title", "duplicate_title_group", "missing_meta_description",
                       "duplicate_meta_description_group", "missing_h1", "multiple_h1"} /\ f.subtype # Chain
      /\ f \in From(s)!ContentFindings =>
           f.rule \in {"exact_duplicate_content_group", "near_duplicate_content_group"} /\ f.subtype # Chain
      /\ f \in From(s)!Patterns(From(s)!Grouped) =>
           f.rule \in {"template_issue_pattern", "section_issue_pattern", "repeated_issue_pattern"} /\ f.subtype # Chain
  BY MetadataRules, ContentRules, PatternRules
<1>3. /\ f \in From(s)!LanguageFindings => f.rule = "inconsistent_language_declaration" /\ f.subtype # Chain
      /\ f \in From(s)!LinkFindings =>
           f.rule \in {"broken_internal_link", "internal_redirect_link", "indexability_signal_conflict",
                       "inconsistent_url_protocol", "inconsistent_preferred_host",
                       "repeated_issue_pattern", "inconsistent_trailing_slash"} /\ f.subtype # Chain
      /\ f \in From(s)!ReachFindings =>
           f.rule \in {"orphan_page", "dead_end_page", "excessive_click_depth"} /\ f.subtype # Chain
      /\ f \in From(s)!DeclarationFindings =>
           f.rule \in {"missing_canonical", "invalid_canonical", "conflicting_canonical",
                       "indexability_signal_conflict", "inconsistent_url_protocol",
                       "inconsistent_preferred_host"} /\ f.subtype # Chain
  BY LanguageRules, LinkRules, ReachRules, DeclarationRules
<1>4. /\ f \in From(s)!CanonicalFindings => f.rule \in {"canonical_chain", "canonical_to_non_indexable"}
      /\ f \in From(s)!SignalFindings \cup From(s)!IdentityFindings =>
           f.rule = "indexability_signal_conflict" /\ f.subtype # Chain
      /\ f \in From(s)!TechnicalFindings =>
           f.rule \in {"inconsistent_url_protocol", "missing_security_header"} /\ f.subtype # Chain
  BY CanonicalRules, SignalRules, TechnicalRules
<1>5. /\ f \in From(s)!CohortFindings =>
           f.rule \in {"inconsistent_structured_data", "inconsistent_security_header_policy",
                       "repeated_issue_pattern"} /\ f.subtype # Chain
      /\ f \in From(s)!RepeatedFindings => f.rule = "repeated_issue_pattern" /\ f.subtype # Chain
      /\ f \in From(s)!AvailabilityFindings \cup From(s)!Unreadable =>
           f.rule \in {"insufficient_page_evidence", "unavailable_link_graph_evidence",
                       "partial_diagnostic_coverage", "unavailable_content_signature_evidence"} /\ f.subtype # Chain
  BY CohortRules, RepeatedRules, AvailabilityRules
<1> QED
  BY <1>1, <1>2, <1>3, <1>4, <1>5

\* A named report on pages.
LEMMA NamedPages ==
    \A s, rule, name, S, what, f :
        f \in From(s)!Report(rule, name, From(s)!OnPages(S, what)) =>
            f.rule = rule /\ f.subtype = <<name>> /\ From(s)!PagesIn(f) = S \cap From(s)!Eligible
<1> SUFFICES ASSUME NEW s, NEW rule, NEW name, NEW S, NEW what,
                    NEW f \in From(s)!Report(rule, name, From(s)!OnPages(S, what))
             PROVE  f.rule = rule /\ f.subtype = <<name>> /\ From(s)!PagesIn(f) = S \cap From(s)!Eligible
  OBVIOUS
<1>1. f \in From(s)!ReportOf(rule, <<name>>, From(s)!OnPages(S, what))
  BY DEF From!Report
<1> QED
  BY <1>1, ReportPages, ReportRules

\* Each page that is told to lack something has evidence.
LEMMA LackingArePresent ==
    ASSUME NEW s \in Surveyed, NEW f \in From(s)!Findings, NEW i \in From(s)!PagesIn(f),
           f.rule \in {"missing_title", "missing_h1", "missing_meta_description", "missing_security_header"}
    PROVE  From(s)!HasFacts(i)
<1>1. CASE f.rule = "missing_security_header"
  <2>1. f \in From(s)!TechnicalFindings
    BY <1>1, FamiliesByRule
  <2>2. PICK h : f \in From(s)!Report("missing_security_header", h, From(s)!OnPages(From(s)!Absences(h), h))
    <3>1. CASE \E pages : f \in From(s)!Report("inconsistent_url_protocol", "mixed_protocol_resources",
                                               From(s)!OnPages(pages, "mixed"))
      BY <1>1, <3>1, NamedPages
    <3>2. CASE \E h : f \in From(s)!Report("missing_security_header", h, From(s)!OnPages(From(s)!Absences(h), h))
      BY <3>2
    <3> QED
      BY <2>1, <3>1, <3>2 DEF From!TechnicalFindings
  <2>3. i \in From(s)!Absences(h)
    BY <2>2, NamedPages
  <2> QED
    BY <2>3 DEF From!Absences
<1>2. CASE f.rule \in {"missing_title", "missing_h1", "missing_meta_description"}
  <2> DEFINE described == {j \in From(s)!Eligible : From(s)!HasFacts(j)}
             untitled == {j \in From(s)!Eligible : From(s)!HasTitle(j) /\ From(s)!TitleOf(j) = Absent}
             texts == [j \in {j \in described : From(s)!Facts(j).description # Absent} |-> From(s)!Facts(j).description]
             headless == {j \in described : From(s)!H1Of(j) = 0}
  <2>1. f \in From(s)!MetadataFindings
    BY <1>2, FamiliesByRule
  <2>2. \A rule, values : \A g \in From(s)!Shared(rule, values) : g.rule = rule
    <3> SUFFICES ASSUME NEW rule, NEW values, NEW g \in From(s)!Shared(rule, values) PROVE g.rule = rule
      OBVIOUS
    <3>1. PICK S : g \in From(s)!ReportOf(rule, <<"shared", values[CHOOSE j \in S : TRUE]>>, From(s)!OnPages(S, "shared"))
      BY DEF From!Shared
    <3> QED
      BY <3>1, ReportRules
  <2>3. \/ f \in From(s)!Report("missing_title", "missing", From(s)!OnPages(untitled, "absent"))
        \/ f \in From(s)!Report("missing_meta_description", "missing", From(s)!OnPages(described \ DOMAIN texts, "absent"))
        \/ f \in From(s)!Report("missing_h1", "count:0", From(s)!OnPages(headless, "0"))
    BY <1>2, <2>1, <2>2, NamedRules DEF From!MetadataFindings
  <2> HIDE DEF texts
  <2>4. i \in untitled \cup described \cup headless
    BY <2>3, NamedPages
  <2>5. \A j : From(s)!HasTitle(j) /\ From(s)!TitleOf(j) = Absent => From(s)!HasFacts(j)
    BY DEF From!HasTitle, From!TitleOf
  <2> QED
    BY <2>4, <2>5
<1> QED
  BY <1>1, <1>2

\* A page without facts is not reported for lacking something, one without links is no dead end.
LEMMA AbsencesAreObserved ==
    ASSUME NEW s \in Surveyed
    PROVE  From(s)!AbsenceIsObserved(From(s)!Findings)
<1>1. \A f \in From(s)!Findings : f.rule = "insufficient_page_evidence" =>
         \A i \in From(s)!PagesIn(f) : ~From(s)!HasFacts(i)
  <2> SUFFICES ASSUME NEW f \in From(s)!Findings, f.rule = "insufficient_page_evidence", NEW i \in From(s)!PagesIn(f)
               PROVE  ~From(s)!HasFacts(i)
    OBVIOUS
  <2>1. f \in From(s)!AvailabilityFindings \cup From(s)!Unreadable
    BY FamiliesByRule
  <2>2. f \in From(s)!Report("insufficient_page_evidence", "unavailable_canonical_or_technical_evidence",
                             From(s)!OnPages({j \in From(s)!Eligible : ~From(s)!HasFacts(j)}, "unavailable"))
    BY <2>1, NamedRules DEF From!AvailabilityFindings, From!Unreadable
  <2> QED
    BY <2>2, NamedPages
<1>2. \A f \in From(s)!Findings : f.rule = "unavailable_link_graph_evidence" =>
         \A i \in From(s)!PagesIn(f) : ~From(s)!HasLinks(i)
  <2> SUFFICES ASSUME NEW f \in From(s)!Findings, f.rule = "unavailable_link_graph_evidence", NEW i \in From(s)!PagesIn(f)
               PROVE  ~From(s)!HasLinks(i)
    OBVIOUS
  <2>1. f \in From(s)!AvailabilityFindings \cup From(s)!Unreadable
    BY FamiliesByRule
  <2>2. f \in From(s)!Report("unavailable_link_graph_evidence", "unavailable_link_graph_evidence",
                             From(s)!OnPages({j \in From(s)!Eligible : ~From(s)!HasLinks(j)}, "unavailable"))
    BY <2>1, NamedRules DEF From!AvailabilityFindings, From!Unreadable
  <2> QED
    BY <2>2, NamedPages
<1>3. \A f \in From(s)!Findings : f.rule = "dead_end_page" => \A i \in From(s)!PagesIn(f) : From(s)!HasLinks(i)
  <2> SUFFICES ASSUME NEW f \in From(s)!Findings, f.rule = "dead_end_page", NEW i \in From(s)!PagesIn(f)
               PROVE  From(s)!HasLinks(i)
    OBVIOUS
  <2>1. f \in From(s)!ReachFindings
    BY FamiliesByRule
  <2>2. f \in From(s)!Report("dead_end_page", "dead_end_page", From(s)!OnPages(From(s)!DeadEnds, "dead_end"))
    BY <2>1, NamedRules DEF From!ReachFindings
  <2>3. i \in From(s)!DeadEnds
    BY <2>2, NamedPages
  <2> QED
    BY <2>3 DEF From!DeadEnds
<1>4. \A f \in From(s)!Findings : f.rule = "orphan_page" => \A i \in From(s)!PagesIn(f) : s.complete
  <2> SUFFICES ASSUME NEW f \in From(s)!Findings, f.rule = "orphan_page", NEW i \in From(s)!PagesIn(f)
               PROVE  s.complete
    OBVIOUS
  <2>1. f \in From(s)!ReachFindings
    BY FamiliesByRule
  <2>2. \/ f \in From(s)!Report("orphan_page", "orphan_page", From(s)!OnPages(From(s)!Listed, "unlinked"))
        \/ f \in From(s)!Report("orphan_page", "no_inbound_link_page",
                                From(s)!OnPages(From(s)!Unlinked \ From(s)!Listed, "unlinked"))
    BY <2>1, NamedRules DEF From!ReachFindings
  <2>3. i \in From(s)!Unlinked
    BY <2>2, NamedPages DEF From!Listed
  <2> QED
    BY <2>3 DEF From!Unlinked
<1> QED
  BY <1>1, <1>2, <1>3, <1>4, LackingArePresent DEF From!AbsenceIsObserved, From!Told

\* The pages of a site, and those that are known by an address.
LEMMA SurveyPages ==
    ASSUME NEW s \in Surveyed
    PROVE  /\ Len(s.pages) \in Nat /\ From(s)!Places = 1..Len(s.pages)
           /\ Absent \notin From(s)!Places /\ From(s)!Eligible \subseteq From(s)!Places
           /\ \A i, j \in From(s)!Places : s.pages[i].at = s.pages[j].at => i = j
<1>1. s.pages \in Seq({s.pages[i] : i \in DOMAIN s.pages}) /\ Absent \notin Nat
  BY SiteDiagnosisAssumption
<1> DEFINE pages == s.pages
           kinds == {s.pages[i] : i \in DOMAIN s.pages}
<1>2. Len(pages) \in Nat /\ DOMAIN pages = 1..Len(pages)
  <2>1. pages \in Seq(kinds)
    BY <1>1
  <2> HIDE DEF pages, kinds
  <2> QED
    BY <2>1
<1>3. \A i, j \in DOMAIN s.pages : s.pages[i].at = s.pages[j].at => i = j
  BY SiteDiagnosisAssumption
<1> QED
  BY <1>1, <1>2, <1>3 DEF From!Places, From!Eligible

\* Where pages end apart and once, one address is known of one page,
LEMMA KnownOnce ==
    ASSUME NEW s \in Surveyed, From(s)!EndsApart, From(s)!EndsOnce, NEW u,
           NEW i \in From(s)!AtAddress(u), NEW j \in From(s)!AtAddress(u)
    PROVE  i = j
<1>1. /\ i \in From(s)!Places /\ (u = s.pages[i].at \/ (From(s)!EndOf(i) # Absent /\ u = From(s)!EndOf(i).at))
      /\ j \in From(s)!Places /\ (u = s.pages[j].at \/ (From(s)!EndOf(j) # Absent /\ u = From(s)!EndOf(j).at))
  BY DEF From!AtAddress
<1> QED
  BY <1>1, SurveyPages DEF From!EndsApart, From!EndsOnce

\* which is the page the address leads to.
LEMMA OnlyPageAt ==
    ASSUME NEW s \in Surveyed, NEW u, NEW i \in From(s)!AtAddress(u), \A j \in From(s)!AtAddress(u) : j = i
    PROVE  From(s)!PageAt(u) = i
<1>1. i \in Nat
  BY SurveyPages DEF From!AtAddress
<1>2. \A k \in From(s)!AtAddress(u) : (\A j \in From(s)!AtAddress(u) : j <= k) => k = i
  OBVIOUS
<1>3. \A j \in From(s)!AtAddress(u) : j <= i
  BY <1>1
<1> QED
  BY <1>2, <1>3 DEF From!PageAt

\* The pages reported without a link.
LEMMA OrphansAreTold ==
    ASSUME NEW s \in Surveyed
    PROVE  From(s)!Told("orphan_page", From(s)!Findings) = From(s)!Unlinked
<1>1. From(s)!Unlinked \subseteq From(s)!Eligible
  BY DEF From!Unlinked
<1>2. ASSUME NEW i \in From(s)!Told("orphan_page", From(s)!Findings) PROVE i \in From(s)!Unlinked
  <2>1. PICK f \in From(s)!Findings : f.rule = "orphan_page" /\ i \in From(s)!PagesIn(f)
    BY DEF From!Told
  <2>2. f \in From(s)!ReachFindings
    BY <2>1, FamiliesByRule
  <2>3. \/ f \in From(s)!Report("orphan_page", "orphan_page", From(s)!OnPages(From(s)!Listed, "unlinked"))
        \/ f \in From(s)!Report("orphan_page", "no_inbound_link_page",
                                From(s)!OnPages(From(s)!Unlinked \ From(s)!Listed, "unlinked"))
    BY <2>1, <2>2, NamedRules DEF From!ReachFindings
  <2> QED
    BY <2>1, <2>3, NamedPages DEF From!Listed
<1>3. ASSUME NEW i \in From(s)!Unlinked PROVE i \in From(s)!Told("orphan_page", From(s)!Findings)
  <2>1. PICK name, S : i \in S /\ From(s)!Report("orphan_page", name, From(s)!OnPages(S, "unlinked")) \subseteq From(s)!ReachFindings
    <3>1. CASE i \in From(s)!Listed
      BY <3>1 DEF From!ReachFindings
    <3>2. CASE i \in From(s)!Unlinked \ From(s)!Listed
      BY <3>2 DEF From!ReachFindings
    <3> QED
      BY <3>1, <3>2
  <2>2. PICK f : f \in From(s)!Report("orphan_page", name, From(s)!OnPages(S, "unlinked"))
    BY <1>1, <2>1, ReportPages DEF From!Report
  <2>3. f.rule = "orphan_page" /\ i \in From(s)!PagesIn(f)
    BY <1>1, <2>1, <2>2, NamedPages
  <2>4. f \in From(s)!Findings
    BY <2>1, <2>2 DEF From!Findings
  <2> QED
    BY <2>3, <2>4 DEF From!Told
<1> QED
  BY <1>2, <1>3

\* So an orphan is a page that no link leads to.
LEMMA OrphansHaveNoLink ==
    ASSUME NEW s \in Surveyed
    PROVE  From(s)!OrphansAreUnlinked(From(s)!Findings)
<1> SUFFICES ASSUME From(s)!EndsApart, From(s)!EndsOnce, s.complete
             PROVE  From(s)!Told("orphan_page", From(s)!Findings) =
                      {i \in From(s)!Eligible :
                         /\ s.pages[i].at # From(s)!Home
                         /\ \A l \in From(s)!Links \ From(s)!Malformed :
                              \/ FamilyOf[l.raw.at.host] # s.family
                              \/ /\ l.raw.at # s.pages[i].at
                                 /\ From(s)!EndOf(i) = Absent \/ l.raw.at # From(s)!EndOf(i).at}
  BY DEF From!OrphansAreUnlinked
<1>1. ASSUME NEW i \in From(s)!Eligible
      PROVE  From(s)!Inbound(i) = {} <=>
               \A l \in From(s)!Links \ From(s)!Malformed :
                 \/ FamilyOf[l.raw.at.host] # s.family
                 \/ /\ l.raw.at # s.pages[i].at
                    /\ From(s)!EndOf(i) = Absent \/ l.raw.at # From(s)!EndOf(i).at
  <2>1. i \in From(s)!Places /\ i # Absent
    BY SurveyPages
  <2>2. \A u : From(s)!PageAt(u) = i <=> i \in From(s)!AtAddress(u)
    <3> SUFFICES ASSUME NEW u PROVE From(s)!PageAt(u) = i <=> i \in From(s)!AtAddress(u)
      OBVIOUS
    <3>1. CASE From(s)!AtAddress(u) = {}
      BY <2>1, <3>1 DEF From!PageAt
    <3>2. ASSUME NEW j \in From(s)!AtAddress(u) PROVE From(s)!PageAt(u) = i <=> i \in From(s)!AtAddress(u)
      <4>1. \A k \in From(s)!AtAddress(u) : k = j
        BY KnownOnce
      <4>2. From(s)!PageAt(u) = j
        BY <4>1, OnlyPageAt
      <4> QED
        BY <4>1, <4>2
    <3> QED
      BY <3>1, <3>2
  <2>3. From(s)!Inbound(i) = {e \in From(s)!Edges : i \in From(s)!AtAddress(e.raw.at)}
    BY <2>2 DEF From!Inbound, From!EdgeTarget
  <2>4. \A u : i \in From(s)!AtAddress(u) <=>
          u = s.pages[i].at \/ (From(s)!EndOf(i) # Absent /\ u = From(s)!EndOf(i).at)
    BY <2>1 DEF From!AtAddress
  <2> QED
    BY <2>3, <2>4 DEF From!Edges
<1>2. From(s)!Unlinked = {i \in From(s)!Eligible : s.pages[i].at # From(s)!Home /\ From(s)!Inbound(i) = {}}
  BY DEF From!Unlinked
<1> QED
  BY <1>1, <1>2, OrphansAreTold

\* What is reported is about eligible pages.
LEMMA ReportedAreEligible ==
    \A s, rule, subtype, occurrences, f :
        f \in From(s)!ReportOf(rule, subtype, occurrences) => From(s)!PagesIn(f) \subseteq From(s)!Eligible
<1> SUFFICES ASSUME NEW s, NEW rule, NEW subtype, NEW occurrences,
                    NEW f \in From(s)!ReportOf(rule, subtype, occurrences)
             PROVE  From(s)!PagesIn(f) \subseteq From(s)!Eligible
  OBVIOUS
<1> DEFINE own == {o \in occurrences : o.page \in From(s)!Eligible}
<1>1. f = [rule |-> rule, subtype |-> subtype, seen |-> own]
  BY DEF From!ReportOf
<1>2. \A o \in own : o.page \in From(s)!Eligible
  OBVIOUS
<1> HIDE DEF own
<1>3. f.seen = own
  BY <1>1
<1> QED
  BY <1>2, <1>3 DEF From!PagesIn

\* What a pattern is sought in tells of eligible pages.
LEMMA GroupedAreEligible ==
    ASSUME NEW s, NEW g \in From(s)!Grouped
    PROVE  From(s)!PagesIn(g) \subseteq From(s)!Eligible
<1>1. CASE g \in From(s)!MetadataFindings
  <2>1. \A rule, values : \A f \in From(s)!Shared(rule, values) : From(s)!PagesIn(f) \subseteq From(s)!Eligible
    <3> SUFFICES ASSUME NEW rule, NEW values, NEW f \in From(s)!Shared(rule, values)
                 PROVE  From(s)!PagesIn(f) \subseteq From(s)!Eligible
      OBVIOUS
    <3>1. PICK S : f \in From(s)!ReportOf(rule, <<"shared", values[CHOOSE j \in S : TRUE]>>, From(s)!OnPages(S, "shared"))
      BY DEF From!Shared
    <3> QED
      BY <3>1, ReportedAreEligible
  <2>2. \A rule, name, occurrences : \A f \in From(s)!Report(rule, name, occurrences) :
          From(s)!PagesIn(f) \subseteq From(s)!Eligible
    BY ReportedAreEligible DEF From!Report
  <2> QED
    BY <1>1, <2>1, <2>2 DEF From!MetadataFindings
<1>2. CASE g \in From(s)!ContentFindings
  <2>1. PICK S : \/ g \in From(s)!ReportOf("exact_duplicate_content_group", <<"copies", S>>, From(s)!OnPages(S, "copy"))
                 \/ g \in From(s)!ReportOf("near_duplicate_content_group", <<"similar", S>>, From(s)!OnPages(S, "near"))
    BY <1>2 DEF From!ContentFindings
  <2> QED
    BY <2>1, ReportedAreEligible
<1> QED
  BY <1>1, <1>2 DEF From!Grouped

\* A set of one value of the pages of a group.
LEMMA OneValue ==
    ASSUME NEW s \in Surveyed, NEW S \in SUBSET From(s)!Places, NEW f,
           Cardinality({f[i] : i \in S}) = 1
    PROVE  \A i, j \in S : f[i] = f[j]
<1>1. IsFiniteSet(S)
  BY SurveyPages, FS_Interval, FS_Subset
<1> DEFINE values == {f[i] : i \in S}
<1>2. IsFiniteSet(values)
  <2> DEFINE g == [i \in S |-> f[i]]
  <2>1. IsFiniteSet({g[i] : i \in S})
    BY <1>1, FiniteRange
  <2> QED
    BY <2>1
<1>3. \A i \in S : f[i] \in values
  OBVIOUS
<1> HIDE DEF values
<1>4. PICK x : values = {x}
  BY <1>2, FS_Singleton DEF values
<1> QED
  BY <1>3, <1>4

\* A pattern is of the pages of one such finding, which agree on what it names.
LEMMA PatternsAreOfGroups ==
    ASSUME NEW s \in Surveyed
    PROVE  From(s)!PatternsAreShared(From(s)!Findings)
<1> SUFFICES ASSUME NEW f \in From(s)!Findings, f.rule \in {"template_issue_pattern", "section_issue_pattern"}
             PROVE  /\ \E g \in From(s)!Findings : <<g.rule, g.subtype>> = f.subtype /\ From(s)!PagesIn(g) = From(s)!PagesIn(f)
                    /\ \A i, j \in From(s)!PagesIn(f) :
                         IF f.rule = "section_issue_pattern"
                         THEN SectionOf[s.pages[i].at.path] = SectionOf[s.pages[j].at.path]
                         ELSE From(s)!Facts(i).template = From(s)!Facts(j).template
  BY DEF From!PatternsAreShared
<1>1. f \in From(s)!Patterns(From(s)!Grouped)
  BY FamiliesByRule
<1>2. PICK g \in From(s)!Grouped :
        f \in From(s)!ReportOf(From(s)!PatternOf(From(s)!PagesIn(g)), <<g.rule, g.subtype>>,
                               From(s)!OnPages(From(s)!PagesIn(g), "pattern"))
  BY <1>1 DEF From!Patterns
<1> DEFINE S == From(s)!PagesIn(g)
<1>3. S \subseteq From(s)!Eligible /\ S \subseteq From(s)!Places
  BY GroupedAreEligible, SurveyPages
<1>4. From(s)!PagesIn(f) = S
  BY <1>2, <1>3, ReportPages
<1>5. f.rule = From(s)!PatternOf(S) /\ f.subtype = <<g.rule, g.subtype>>
  BY <1>2, ReportRules
<1>6. g \in From(s)!Findings
  BY DEF From!Findings
<1> HIDE DEF S
<1> DEFINE template == [i \in S |-> IF From(s)!HasFacts(i) THEN From(s)!Facts(i).template ELSE Absent]
           section == [i \in S |-> SectionOf[s.pages[i].at.path]]
           templates == {IF From(s)!HasFacts(i) THEN From(s)!Facts(i).template ELSE Absent : i \in S}
           sections == {SectionOf[s.pages[i].at.path] : i \in S}
<1>7. f.rule = IF Absent \notin templates /\ Cardinality(templates) = 1 THEN "template_issue_pattern"
               ELSE IF Cardinality(sections) = 1 /\ "/" \notin sections THEN "section_issue_pattern"
               ELSE "repeated_issue_pattern"
  BY <1>5, SameSize DEF From!PatternOf
<1>8. templates = {template[i] : i \in S} /\ sections = {section[i] : i \in S}
  OBVIOUS
<1>9. ASSUME f.rule = "template_issue_pattern", NEW i \in S, NEW j \in S
      PROVE  From(s)!Facts(i).template = From(s)!Facts(j).template
  <2>1. Absent \notin templates /\ Cardinality(templates) = 1
    BY <1>7, <1>9
  <2>2. From(s)!HasFacts(i) /\ From(s)!HasFacts(j)
    BY <2>1
  <2>3. template[i] = template[j]
    <3> HIDE DEF template, templates
    <3> QED
      BY <1>3, <1>8, <2>1, OneValue
  <2> QED
    BY <2>2, <2>3
<1>10. ASSUME f.rule = "section_issue_pattern", NEW i \in S, NEW j \in S
       PROVE  SectionOf[s.pages[i].at.path] = SectionOf[s.pages[j].at.path]
  <2>1. Cardinality(sections) = 1
    BY <1>7, <1>10
  <2>2. section[i] = section[j]
    <3> HIDE DEF section, sections
    <3> QED
      BY <1>3, <1>8, <2>1, OneValue
  <2> QED
    BY <2>2
<1> HIDE DEF template, section, templates, sections
<1>11. \E h \in From(s)!Findings : <<h.rule, h.subtype>> = f.subtype /\ From(s)!PagesIn(h) = From(s)!PagesIn(f)
  BY <1>4, <1>5, <1>6 DEF S
<1>12. \A i, j \in S :
          IF f.rule = "section_issue_pattern"
          THEN SectionOf[s.pages[i].at.path] = SectionOf[s.pages[j].at.path]
          ELSE From(s)!Facts(i).template = From(s)!Facts(j).template
  BY <1>9, <1>10
<1> QED
  BY <1>4, <1>11, <1>12

\* A single canonical declaration leads to the page that is stored there, when no page ends
\* at the address of another one.
LEMMA TargetIsMet ==
    ASSUME NEW s \in Surveyed, From(s)!EndsApart, NEW i, NEW j \in From(s)!SingleTarget(i)
    PROVE  /\ j \in From(s)!Places /\ From(s)!LeadsTo(i) = j
           /\ Len(From(s)!Canonicals(i)) = 1 /\ From(s)!Canonicals(i)[1] = s.pages[j].at
<1>1. /\ j \in From(s)!Places /\ Len(From(s)!Canonicals(i)) = 1
      /\ From(s)!Canonicals(i)[1] = s.pages[j].at
  BY DEF From!SingleTarget
<1>2. j \in From(s)!AtAddress(s.pages[j].at)
  BY <1>1 DEF From!AtAddress
<1>3. \A k \in From(s)!AtAddress(s.pages[j].at) : k = j
  BY <1>1, SurveyPages DEF From!AtAddress, From!EndsApart
<1>4. From(s)!PageAt(s.pages[j].at) = j
  BY <1>2, <1>3, OnlyPageAt
<1> QED
  BY <1>1, <1>4 DEF From!LeadsTo

\* Pages that each lead to one of them.
Circle(s, S) ==
    /\ S \subseteq From(s)!Places
    /\ \A i \in S : From(s)!LeadsTo(i) \in S

\* A walk that begins in a circle stays in it,
LEMMA WalkStays ==
    ASSUME NEW s \in Surveyed, NEW S, Circle(s, S), NEW i \in S
    PROVE  From(s)!Walk(i) \in [0..Len(s.pages) + 1 -> S]
<1> DEFINE m == Len(s.pages) + 1
           Turn(f, n) == IF n = 0 THEN i ELSE IF f[n - 1] = Absent THEN Absent ELSE From(s)!LeadsTo(f[n - 1])
           Walks(f) == f = [n \in 0..m |-> Turn(f, n)]
           step == [n \in 1..m |-> [j \in S |-> From(s)!LeadsTo(j)]]
           walk == From(s)!Walk(i)
<1>1. walk = CHOOSE f : Walks(f)
  BY DEF From!Walk
<1>2. Absent \notin S /\ m \in Nat
  BY SurveyPages DEF Circle
<1>3. \E f : Walks(f)
  <2>1. step \in [1..m -> [S -> S]]
    BY DEF Circle
  <2>2. PICK f \in [0..m -> S] : f[0] = i /\ \A n \in 1..m : f[n] = step[n][f[n - 1]]
    <3>1. Loop(m, S, i, step)
      BY <1>2, <2>1, LoopRuns
    <3> HIDE DEF step, m
    <3> QED
      BY <3>1 DEF Loop
  <2>3. \A n \in 0..m : f[n] = Turn(f, n)
    <3> SUFFICES ASSUME NEW n \in 0..m PROVE f[n] = Turn(f, n)
      OBVIOUS
    <3>1. CASE n = 0
      BY <2>2, <3>1
    <3>2. CASE n # 0
      <4>1. n \in 1..m /\ n - 1 \in 0..m
        BY <1>2, <3>2
      <4>2. f[n - 1] \in S /\ f[n] = From(s)!LeadsTo(f[n - 1])
        BY <2>2, <4>1
      <4> QED
        BY <1>2, <3>2, <4>2
    <3> QED
      BY <3>1, <3>2
  <2>4. f = [n \in 0..m |-> f[n]]
    BY <2>2
  <2> HIDE DEF Turn
  <2> QED
    BY <2>3, <2>4
<1>4. Walks(walk)
  <2> HIDE DEF Walks, walk
  <2> QED
    BY <1>1, <1>3
<1>5. \A n \in 0..m : walk[n] = Turn(walk, n)
  BY <1>4
<1>6. DOMAIN walk = 0..m
  BY <1>4
<1> HIDE DEF walk
<1> DEFINE astray == {n \in 0..m : walk[n] \notin S}
<1>7. astray = {}
  <2> SUFFICES ASSUME astray # {} PROVE FALSE
    OBVIOUS
  <2>1. PICK n \in astray : \A k \in astray : n <= k
    <3>1. astray \in SUBSET Nat
      OBVIOUS
    <3> HIDE DEF astray
    <3> QED
      BY <3>1, LeastNatural
  <2>2. n # 0
    BY <1>2, <1>5
  <2>3. n - 1 \in 0..m /\ n - 1 \notin astray
    BY <1>2, <2>1, <2>2
  <2>4. walk[n - 1] \in S
    BY <2>3
  <2>5. walk[n] = From(s)!LeadsTo(walk[n - 1])
    BY <1>2, <1>5, <2>2, <2>4
  <2> QED
    BY <2>1, <2>4, <2>5 DEF Circle
<1>8. walk = [n \in 0..m |-> walk[n]]
  BY <1>4 DEF walk
<1> QED
  BY <1>7, <1>8 DEF walk

\* It has more steps than the circle has pages, so it meets a page again.
LEMMA WalkReturns ==
    ASSUME NEW s \in Surveyed, NEW S, Circle(s, S), NEW i \in S
    PROVE  From(s)!Circular(i)
<1> DEFINE N == Len(s.pages)
           walk == From(s)!Walk(i)
<1>1. N \in Nat /\ S \subseteq 1..N /\ Absent \notin S
  BY SurveyPages DEF Circle
<1>2. walk \in [0..N + 1 -> S]
  BY WalkStays
<1> HIDE DEF N, walk
<1>3. \E x, y \in 0..N + 1 : x # y /\ walk[x] = walk[y]
  <2>1. IsFiniteSet(0..N + 1) /\ Cardinality(0..N + 1) = N + 2
    <3>1. IsFiniteSet(0..N + 1) /\ Cardinality(0..N + 1) = IF 0 > N + 1 THEN 0 ELSE N + 1 - 0 + 1
      BY <1>1, FS_Interval
    <3> QED
      BY <1>1, <3>1
  <2>2. IsFiniteSet(S) /\ Cardinality(S) <= N /\ Cardinality(S) \in Nat
    <3>1. IsFiniteSet(1..N) /\ Cardinality(1..N) = N
      BY <1>1, CountedUp
    <3> QED
      BY <1>1, <3>1, FS_Subset, FS_CardinalityType
  <2>3. Cardinality(S) < Cardinality(0..N + 1)
    BY <1>1, <2>1, <2>2
  <2> QED
    BY <1>2, <2>1, <2>2, <2>3, FS_PigeonHole
<1>4. PICK m \in 0..N + 1, n \in 0..N + 1 : m < n /\ walk[m] = walk[n]
  <2>1. PICK x \in 0..N + 1, y \in 0..N + 1 : x # y /\ walk[x] = walk[y]
    BY <1>3
  <2>2. x < y \/ y < x
    BY <1>1, <2>1
  <2> QED
    BY <2>1, <2>2
<1>5. n \in 1..N + 1 /\ m \in 0..n - 1 /\ walk[n] # Absent
  BY <1>1, <1>2, <1>4
<1> QED
  BY <1>4, <1>5 DEF From!Circular, N, walk

\* and a walk longer than the circle comes back to a page: every circle is reported.
LEMMA CirclesAreTold ==
    ASSUME NEW s \in Surveyed
    PROVE  From(s)!CirclesAreReported(From(s)!Findings)
<1> SUFFICES ASSUME From(s)!EndsApart
             PROVE  /\ \A S \in SUBSET From(s)!Eligible :
                         (/\ From(s)!Cardinality(S) >= 2
                          /\ \A i \in S : From(s)!SingleTarget(i) # {} /\ From(s)!SingleTarget(i) \subseteq S \ {i}
                          /\ UNION {From(s)!SingleTarget(i) : i \in S} = S)
                         => S \subseteq From(s)!ToldAs("canonical_loop", From(s)!Findings)
                    /\ \A i \in From(s)!Eligible, j \in From(s)!Eligible :
                         From(s)!SingleTarget(i) = {j} /\ From(s)!SingleTarget(j) = {j} =>
                            i \notin From(s)!ToldAs("canonical_chain", From(s)!Findings)
  BY DEF From!CirclesAreReported
<1>1. ASSUME NEW S \in SUBSET From(s)!Eligible, NEW i \in S,
             \A k \in S : From(s)!SingleTarget(k) # {} /\ From(s)!SingleTarget(k) \subseteq S \ {k}
      PROVE  i \in From(s)!ToldAs("canonical_loop", From(s)!Findings)
  <2>1. Circle(s, S)
    <3>1. S \subseteq From(s)!Places
      BY SurveyPages
    <3>2. ASSUME NEW k \in S PROVE From(s)!LeadsTo(k) \in S
      <4>1. PICK j \in S : j \in From(s)!SingleTarget(k)
        BY <1>1
      <4> QED
        BY <4>1, TargetIsMet
    <3> QED
      BY <3>1, <3>2 DEF Circle
  <2>2. From(s)!Circular(i)
    BY <2>1, WalkReturns
  <2>3. i \in From(s)!Pointing
    <3>1. PICK j \in S \ {i} : j \in From(s)!SingleTarget(i)
      BY <1>1
    <3>2. /\ j \in From(s)!Places /\ From(s)!LeadsTo(i) = j
          /\ From(s)!Canonicals(i)[1] = s.pages[j].at
      BY <3>1, TargetIsMet
    <3> QED
      BY <1>1, <3>1, <3>2, SurveyPages DEF From!Pointing
  <2> DEFINE loop == {k \in From(s)!Pointing : From(s)!Circular(k)}
  <2>4. From(s)!Report("canonical_chain", "canonical_loop", From(s)!OnPages(loop, "loop")) \subseteq From(s)!CanonicalFindings
    BY DEF From!CanonicalFindings
  <2>5. i \in loop \cap From(s)!Eligible
    BY <2>2, <2>3
  <2> HIDE DEF loop
  <2>6. PICK f : f \in From(s)!Report("canonical_chain", "canonical_loop", From(s)!OnPages(loop, "loop"))
    BY <2>5, ReportPages DEF From!Report
  <2>7. f.subtype = <<"canonical_loop">> /\ i \in From(s)!PagesIn(f)
    BY <2>5, <2>6, NamedPages
  <2>8. f \in From(s)!Findings
    BY <2>4, <2>6 DEF From!Findings
  <2> QED
    BY <2>7, <2>8 DEF From!ToldAs
<1>2. ASSUME NEW i \in From(s)!Eligible, NEW j \in From(s)!Eligible,
             From(s)!SingleTarget(i) = {j}, From(s)!SingleTarget(j) = {j},
             i \in From(s)!ToldAs("canonical_chain", From(s)!Findings)
      PROVE  FALSE
  <2>1. PICK f \in From(s)!Findings : f.subtype = Chain /\ i \in From(s)!PagesIn(f)
    BY <1>2 DEF From!ToldAs, Chain
  <2>2. f \in From(s)!CanonicalFindings
    BY <2>1, FamiliesByRule
  <2>3. f \in From(s)!Report("canonical_chain", "canonical_chain",
                             From(s)!OnPages({k \in From(s)!Pointing : From(s)!Chained(k)}, "chain"))
    BY <2>1, <2>2, NamedRules, NamesDiffer DEF From!CanonicalFindings, Chain
  <2>4. From(s)!Chained(i)
    BY <2>1, <2>3, NamedPages
  <2>5. From(s)!LeadsTo(i) = j /\ From(s)!Canonicals(i)[1] = s.pages[j].at
    BY <1>2, TargetIsMet
  <2>6. From(s)!Canonicals(j)[1] = s.pages[j].at
    BY <1>2, TargetIsMet
  <2> QED
    BY <2>4, <2>5, <2>6 DEF From!Chained
<1> QED
  BY <1>1, <1>2

\* Similarity goes both ways.
LEMMA SimilarBothWays == \A s, i, j : From(s)!Similar(i, j) <=> From(s)!Similar(j, i)
<1> SUFFICES ASSUME NEW s, NEW i, NEW j, From(s)!Similar(i, j) PROVE From(s)!Similar(j, i)
  OBVIOUS
<1> DEFINE a == From(s)!ContentOf(i).words
           b == From(s)!ContentOf(j).words
<1>1. a \cap b = b \cap a /\ a \cup b = b \cup a
  OBVIOUS
<1>2. 100 * From(s)!Cardinality(a \cap b) >= SimilarPercent * From(s)!Cardinality(a \cup b) /\ a \cup b # {}
  BY DEF From!Similar
<1> HIDE DEF a, b
<1>3. 100 * From(s)!Cardinality(b \cap a) >= SimilarPercent * From(s)!Cardinality(b \cup a) /\ b \cup a # {}
  BY <1>1, <1>2
<1> QED
  BY <1>3 DEF From!Similar, a, b

\* A cluster of a pool around a page: its pages are similar two by two, and each other page
\* of the pool is not similar to one of them.
Clique(s, C) == \A i, j \in C : i # j => From(s)!Similar(i, j)
Cluster(s, seed, pool, C) ==
    /\ seed \in C /\ C \subseteq pool /\ Clique(s, C)
    /\ \A j \in pool \ C : \E k \in C : ~From(s)!Similar(k, j)
ClusterSoFar(s, seed, pool, C, n) ==
    /\ seed \in C /\ C \subseteq pool /\ Clique(s, C)
    /\ \A j \in pool \ C : j <= n => \E k \in C : ~From(s)!Similar(k, j)

\* The turn of the loop over the later pages keeps what is so of its cluster,
LEMMA ClusterGrows ==
    ASSUME NEW s, NEW pool \in SUBSET Nat, NEW seed \in pool, NEW C, NEW n \in Nat \ {0},
           ClusterSoFar(s, seed, pool, C, n - 1)
    PROVE  ClusterSoFar(s, seed, pool,
                        IF n \in pool /\ \A i \in C : From(s)!Similar(i, n) THEN C \cup {n} ELSE C, n)
<1>1. CASE n \in pool /\ \A i \in C : From(s)!Similar(i, n)
  <2>1. Clique(s, C \cup {n})
    <3> SUFFICES ASSUME NEW i \in C \cup {n}, NEW j \in C \cup {n}, i # j PROVE From(s)!Similar(i, j)
      BY DEF Clique
    <3>1. CASE i = n
      BY <1>1, <3>1, SimilarBothWays
    <3>2. CASE j = n
      BY <1>1, <3>2
    <3>3. CASE i # n /\ j # n
      BY <3>3 DEF ClusterSoFar, Clique
    <3> QED
      BY <3>1, <3>2, <3>3
  <2>2. ASSUME NEW j \in pool \ (C \cup {n}), j <= n PROVE \E k \in C \cup {n} : ~From(s)!Similar(k, j)
    <3>1. j \in Nat /\ j <= n - 1
      BY <2>2
    <3> QED
      BY <3>1 DEF ClusterSoFar
  <2> QED
    BY <1>1, <2>1, <2>2 DEF ClusterSoFar
<1>2. CASE ~(n \in pool /\ \A i \in C : From(s)!Similar(i, n))
  <2>1. ASSUME NEW j \in pool \ C, j <= n PROVE \E k \in C : ~From(s)!Similar(k, j)
    <3>1. CASE j = n
      BY <1>2, <3>1
    <3>2. CASE j # n
      <4>1. j \in Nat /\ j <= n - 1
        BY <2>1, <3>2
      <4> QED
        BY <4>1 DEF ClusterSoFar
    <3> QED
      BY <3>1, <3>2
  <2> QED
    BY <1>2, <2>1 DEF ClusterSoFar
<1> QED
  BY <1>1, <1>2

\* so it ends with a cluster.
LEMMA ClusterIsWhole ==
    ASSUME NEW s \in Surveyed, NEW pool \in SUBSET From(s)!Places, NEW seed \in pool
    PROVE  Cluster(s, seed, pool, From(s)!ClusterFrom(seed, pool))
<1> DEFINE m == Len(s.pages)
           T == SUBSET From(s)!Places
           Grown(C, n) == IF n \in pool /\ \A i \in C : From(s)!Similar(i, n) THEN C \cup {n} ELSE C
           Turn(f, n) == IF n = 0 THEN {seed} ELSE Grown(f[n - 1], n)
           Runs(f) == f = [n \in 0..m |-> Turn(f, n)]
           step == [n \in 1..m |-> [C \in T |-> Grown(C, n)]]
           taken == CHOOSE f : Runs(f)
<1>1. From(s)!ClusterFrom(seed, pool) = taken[m]
  BY DEF From!ClusterFrom
<1>2. m \in Nat /\ From(s)!Places = 1..m /\ pool \in SUBSET Nat
  BY SurveyPages
<1>3. \E f : Runs(f)
  <2>1. step \in [1..m -> [T -> T]]
    BY <1>2
  <2>2. PICK f \in [0..m -> T] : f[0] = {seed} /\ \A n \in 1..m : f[n] = step[n][f[n - 1]]
    <3>1. {seed} \in T
      OBVIOUS
    <3> HIDE DEF step, m, T
    <3>2. Loop(m, T, {seed}, step)
      BY <1>2, <2>1, <3>1, LoopRuns
    <3> QED
      BY <3>2 DEF Loop
  <2> HIDE DEF Grown
  <2>3. \A n \in 0..m : f[n] = Turn(f, n)
    <3> SUFFICES ASSUME NEW n \in 0..m PROVE f[n] = Turn(f, n)
      OBVIOUS
    <3>1. CASE n = 0
      BY <2>2, <3>1
    <3>2. CASE n # 0
      <4>1. n \in 1..m /\ n - 1 \in 0..m
        BY <1>2, <3>2
      <4> HIDE DEF T
      <4>2. f[n - 1] \in T /\ f[n] = Grown(f[n - 1], n)
        BY <2>2, <4>1
      <4> QED
        BY <3>2, <4>2
    <3> QED
      BY <3>1, <3>2
  <2>4. f = [n \in 0..m |-> f[n]]
    BY <2>2
  <2> HIDE DEF Turn
  <2> QED
    BY <2>3, <2>4
<1>4. Runs(taken)
  <2> HIDE DEF Runs
  <2> QED
    BY <1>3
<1> HIDE DEF taken
<1>5. \A n \in 0..m : taken[n] = Turn(taken, n)
  BY <1>4
<1> DEFINE bad == {n \in 0..m : ~ClusterSoFar(s, seed, pool, taken[n], n)}
<1>6. bad = {}
  <2> SUFFICES ASSUME bad # {} PROVE FALSE
    OBVIOUS
  <2>1. PICK n \in bad : \A k \in bad : n <= k
    <3>1. bad \in SUBSET Nat
      OBVIOUS
    <3> HIDE DEF bad
    <3> QED
      BY <3>1, LeastNatural
  <2>2. n # 0
    <3> SUFFICES ASSUME n = 0 PROVE FALSE
      OBVIOUS
    <3>1. taken[0] = {seed}
      BY <1>2, <1>5
    <3>2. \A j \in pool : ~(j <= 0)
      BY <1>2
    <3>3. ClusterSoFar(s, seed, pool, {seed}, 0)
      BY <3>2 DEF ClusterSoFar, Clique
    <3> QED
      BY <2>1, <3>1, <3>3
  <2>3. n \in Nat \ {0} /\ n - 1 \in 0..m /\ n - 1 \notin bad
    BY <1>2, <2>1, <2>2
  <2>4. ClusterSoFar(s, seed, pool, taken[n - 1], n - 1)
    BY <2>3
  <2>5. taken[n] = Grown(taken[n - 1], n)
    BY <1>5, <2>1, <2>2
  <2>6. ClusterSoFar(s, seed, pool, Grown(taken[n - 1], n), n)
    BY <1>2, <2>3, <2>4, ClusterGrows
  <2> QED
    BY <2>1, <2>5, <2>6
<1>7. ClusterSoFar(s, seed, pool, taken[m], m)
  BY <1>2, <1>6
<1>8. \A j \in pool : j <= m
  BY <1>2
<1> QED
  BY <1>1, <1>7, <1>8 DEF ClusterSoFar, Cluster

\* The groups of candidates: cliques without a common page. A page outside a group is not
\* similar to one of its pages, unless it was grouped before, with pages of which one is not.
GroupsOfCopies(s, candidates, found) ==
    /\ \A S \in found : S \subseteq candidates /\ S # {} /\ Clique(s, S)
    /\ \A S, T \in found : S = T \/ S \cap T = {}
    /\ \A S \in found, j \in candidates \ UNION found : \E k \in S : ~From(s)!Similar(k, j)
    /\ \A S \in found : \A i \in candidates \ S :
         \/ \E k \in S : ~From(s)!Similar(k, i)
         \/ \E T \in found : \E e \in S, k \in T : i \in T /\ ~From(s)!Similar(k, e)

\* One more cluster, of what is left, keeps the groups so,
LEMMA GroupAdded ==
    ASSUME NEW s, NEW candidates, NEW found, GroupsOfCopies(s, candidates, found),
           NEW n \in candidates \ UNION found, NEW C, Cluster(s, n, candidates \ UNION found, C)
    PROVE  GroupsOfCopies(s, candidates, found \cup {C})
<1>1. \A S \in found \cup {C} : S \subseteq candidates /\ S # {} /\ Clique(s, S)
  BY DEF GroupsOfCopies, Cluster
<1>2. \A S, T \in found \cup {C} : S = T \/ S \cap T = {}
  <2>1. \A S \in found : S \cap C = {}
    BY DEF Cluster
  <2> QED
    BY <2>1 DEF GroupsOfCopies
<1>3. \A S \in found \cup {C}, j \in candidates \ UNION (found \cup {C}) : \E k \in S : ~From(s)!Similar(k, j)
  BY DEF GroupsOfCopies, Cluster
<1>4. ASSUME NEW S \in found \cup {C}, NEW i \in candidates \ S
      PROVE  \/ \E k \in S : ~From(s)!Similar(k, i)
             \/ \E T \in found \cup {C} : \E e \in S, k \in T : i \in T /\ ~From(s)!Similar(k, e)
  <2>1. CASE S \in found
    BY <2>1 DEF GroupsOfCopies
  <2>2. CASE S = C /\ i \notin UNION found
    BY <2>2 DEF Cluster
  <2>3. CASE S = C /\ i \in UNION found
    <3>1. PICK T \in found : i \in T
      BY <2>3
    <3>2. PICK k \in T : ~From(s)!Similar(k, n)
      BY <3>1 DEF GroupsOfCopies
    <3>3. n \in S
      BY <2>3 DEF Cluster
    <3> QED
      BY <3>1, <3>2, <3>3
  <2> QED
    BY <2>1, <2>2, <2>3
<1> QED
  BY <1>1, <1>2, <1>3, <1>4 DEF GroupsOfCopies

\* and the loop over all pages ends with such groups.
LEMMA ClustersAreGroups ==
    ASSUME NEW s \in Surveyed, NEW candidates \in SUBSET From(s)!Places
    PROVE  GroupsOfCopies(s, candidates, From(s)!Clusters(candidates))
<1> DEFINE m == Len(s.pages)
           T == SUBSET SUBSET From(s)!Places
           Pool(F) == candidates \ UNION F
           More(F, n) == IF n \in Pool(F) THEN F \cup {From(s)!ClusterFrom(n, Pool(F))} ELSE F
           Turn(f, n) == IF n = 0 THEN {} ELSE More(f[n - 1], n)
           Runs(f) == f = [n \in 0..m |-> Turn(f, n)]
           step == [n \in 1..m |-> [F \in T |-> More(F, n)]]
           found == CHOOSE f : Runs(f)
<1>1. From(s)!Clusters(candidates) = found[m]
  BY DEF From!Clusters
<1>2. m \in Nat
  BY SurveyPages
<1>3. \A F, n : n \in Pool(F) => Cluster(s, n, Pool(F), From(s)!ClusterFrom(n, Pool(F)))
  BY ClusterIsWhole
<1>4. \E f : Runs(f)
  <2>1. ASSUME NEW F \in T, NEW n PROVE More(F, n) \in T
    <3>1. CASE n \in Pool(F)
      <4>1. From(s)!ClusterFrom(n, Pool(F)) \subseteq Pool(F)
        BY <1>3, <3>1 DEF Cluster
      <4> QED
        BY <3>1, <4>1
    <3>2. CASE n \notin Pool(F)
      BY <3>2
    <3> QED
      BY <3>1, <3>2
  <2> HIDE DEF More, T
  <2>2. step \in [1..m -> [T -> T]]
    BY <2>1
  <2>3. PICK f \in [0..m -> T] : f[0] = {} /\ \A n \in 1..m : f[n] = step[n][f[n - 1]]
    <3>1. {} \in T
      BY DEF T
    <3> HIDE DEF step, m
    <3>2. Loop(m, T, {}, step)
      BY <1>2, <2>2, <3>1, LoopRuns
    <3> QED
      BY <3>2 DEF Loop
  <2>4. \A n \in 0..m : f[n] = Turn(f, n)
    <3> SUFFICES ASSUME NEW n \in 0..m PROVE f[n] = Turn(f, n)
      OBVIOUS
    <3>1. CASE n = 0
      BY <2>3, <3>1
    <3>2. CASE n # 0
      <4>1. n \in 1..m /\ n - 1 \in 0..m
        BY <1>2, <3>2
      <4>2. f[n - 1] \in T /\ f[n] = More(f[n - 1], n)
        BY <2>3, <4>1
      <4> QED
        BY <3>2, <4>2
    <3> QED
      BY <3>1, <3>2
  <2>5. f = [n \in 0..m |-> f[n]]
    BY <2>3
  <2> HIDE DEF Turn
  <2> QED
    BY <2>4, <2>5
<1>5. Runs(found)
  <2> HIDE DEF Runs
  <2> QED
    BY <1>4
<1> HIDE DEF found
<1>6. \A n \in 0..m : found[n] = Turn(found, n)
  BY <1>5
<1> DEFINE bad == {n \in 0..m : ~GroupsOfCopies(s, candidates, found[n])}
<1>7. bad = {}
  <2> SUFFICES ASSUME bad # {} PROVE FALSE
    OBVIOUS
  <2>1. PICK n \in bad : \A k \in bad : n <= k
    <3>1. bad \in SUBSET Nat
      OBVIOUS
    <3> HIDE DEF bad
    <3> QED
      BY <3>1, LeastNatural
  <2>2. n # 0
    <3>1. found[0] = {}
      <4>1. 0 \in 0..m
        BY <1>2
      <4>2. found[0] = Turn(found, 0)
        BY <1>6, <4>1
      <4> HIDE DEF More
      <4> QED
        BY <4>2
    <3>2. GroupsOfCopies(s, candidates, {})
      BY DEF GroupsOfCopies
    <3> QED
      BY <2>1, <3>1, <3>2
  <2>3. n - 1 \in 0..m /\ n - 1 \notin bad
    BY <1>2, <2>1, <2>2
  <2> DEFINE F == found[n - 1]
  <2>4. GroupsOfCopies(s, candidates, F)
    BY <2>3
  <2>5. found[n] = More(F, n)
    BY <1>6, <2>1, <2>2
  <2> HIDE DEF F
  <2>6. GroupsOfCopies(s, candidates, More(F, n))
    <3>1. CASE n \in Pool(F)
      <4>1. Cluster(s, n, Pool(F), From(s)!ClusterFrom(n, Pool(F)))
        BY <1>3, <3>1
      <4> QED
        BY <2>4, <3>1, <4>1, GroupAdded
    <3>2. CASE n \notin Pool(F)
      BY <2>4, <3>2
    <3> QED
      BY <3>1, <3>2
  <2> QED
    BY <2>1, <2>5, <2>6
<1> QED
  BY <1>1, <1>2, <1>7

\* The groups of equal texts are apart, and of pages with a text.
LEMMA CopiesAreApart ==
    ASSUME NEW s
    PROVE  /\ \A S \in From(s)!ExactCopies : S \subseteq From(s)!HasText /\ S # {}
           /\ \A S, T \in From(s)!ExactCopies : S = T \/ S \cap T = {}
<1> DEFINE texts == [i \in From(s)!HasText |-> From(s)!ContentOf(i).text]
           Of(i) == {j \in DOMAIN texts : texts[j] = texts[i]}
<1>1. \A S \in From(s)!ExactCopies : \E i \in DOMAIN texts : S = Of(i)
  BY DEF From!ExactCopies, From!SharedBy
<1>2. \A i \in DOMAIN texts : i \in Of(i) /\ Of(i) \subseteq From(s)!HasText
  OBVIOUS
<1>3. \A i, j \in DOMAIN texts : Of(i) = Of(j) \/ Of(i) \cap Of(j) = {}
  BY DEF texts
<1> HIDE DEF texts, Of
<1> QED
  BY <1>1, <1>2, <1>3

\* What is reported of copies are these groups.
LEMMA CopiesAreTold ==
    ASSUME NEW s \in Surveyed
    PROVE  /\ \A S \in From(s)!NearCopies : S \subseteq From(s)!HasText /\ S # {}
           /\ {From(s)!PagesIn(f) : f \in {f \in From(s)!Findings : f.rule = "near_duplicate_content_group"}}
                = From(s)!NearCopies
           /\ {From(s)!PagesIn(f) : f \in {f \in From(s)!Findings : f.rule = "exact_duplicate_content_group"}}
                = From(s)!ExactCopies
<1>1. From(s)!HasText \subseteq From(s)!Eligible /\ From(s)!HasText \subseteq From(s)!Places
  BY SurveyPages DEF From!HasText
<1>2. \A S \in From(s)!NearCopies : S \subseteq From(s)!HasText /\ S # {}
  <2>1. From(s)!HasText \ UNION From(s)!ExactCopies \in SUBSET From(s)!Places
    BY <1>1
  <2>2. GroupsOfCopies(s, From(s)!HasText \ UNION From(s)!ExactCopies,
                 From(s)!Clusters(From(s)!HasText \ UNION From(s)!ExactCopies))
    BY <2>1, ClustersAreGroups
  <2> QED
    BY <2>2 DEF From!NearCopies, GroupsOfCopies
<1>3. \A S \in From(s)!ExactCopies : S \subseteq From(s)!HasText /\ S # {}
  BY CopiesAreApart
<1> DEFINE Exactly(S) == From(s)!ReportOf("exact_duplicate_content_group", <<"copies", S>>, From(s)!OnPages(S, "copy"))
           Nearly(S) == From(s)!ReportOf("near_duplicate_content_group", <<"similar", S>>, From(s)!OnPages(S, "near"))
<1>4. \A f : f \in From(s)!ContentFindings <=>
         (\E S \in From(s)!ExactCopies : f \in Exactly(S)) \/ (\E S \in From(s)!NearCopies : f \in Nearly(S))
  BY DEF From!ContentFindings
<1>5. \A S : \A f \in Exactly(S) : f.rule = "exact_duplicate_content_group"
  BY ReportRules
<1>6. \A S : \A f \in Nearly(S) : f.rule = "near_duplicate_content_group"
  BY ReportRules
<1>7. \A S \in SUBSET From(s)!HasText : S # {} =>
         Exactly(S) # {} /\ \A f \in Exactly(S) : From(s)!PagesIn(f) = S
  <2> SUFFICES ASSUME NEW S \in SUBSET From(s)!HasText, S # {}
               PROVE  Exactly(S) # {} /\ \A f \in Exactly(S) : From(s)!PagesIn(f) = S
    OBVIOUS
  <2>1. S \cap From(s)!Eligible = S
    BY <1>1
  <2> QED
    BY <2>1, ReportPages
<1>8. \A S \in SUBSET From(s)!HasText : S # {} =>
         Nearly(S) # {} /\ \A f \in Nearly(S) : From(s)!PagesIn(f) = S
  <2> SUFFICES ASSUME NEW S \in SUBSET From(s)!HasText, S # {}
               PROVE  Nearly(S) # {} /\ \A f \in Nearly(S) : From(s)!PagesIn(f) = S
    OBVIOUS
  <2>1. S \cap From(s)!Eligible = S
    BY <1>1
  <2> QED
    BY <2>1, ReportPages
<1> HIDE DEF Exactly, Nearly
<1>9. \A f \in From(s)!ContentFindings : f \in From(s)!Findings
  BY DEF From!Findings, From!Grouped
<1>10. \A f \in From(s)!Findings :
         f.rule \in {"exact_duplicate_content_group", "near_duplicate_content_group"} => f \in From(s)!ContentFindings
  BY FamiliesByRule
<1>11. \A S : S \in From(s)!NearCopies <=>
          \E f \in From(s)!Findings : f.rule = "near_duplicate_content_group" /\ From(s)!PagesIn(f) = S
  <2>1. ASSUME NEW S \in From(s)!NearCopies
        PROVE  \E f \in From(s)!Findings : f.rule = "near_duplicate_content_group" /\ From(s)!PagesIn(f) = S
    BY <1>2, <1>4, <1>6, <1>8, <1>9
  <2>2. ASSUME NEW f \in From(s)!Findings, f.rule = "near_duplicate_content_group"
        PROVE  From(s)!PagesIn(f) \in From(s)!NearCopies
    <3>1. f \in From(s)!ContentFindings
      BY <1>10, <2>2
    <3>2. PICK S \in From(s)!NearCopies : f \in Nearly(S)
      BY <1>4, <1>5, <2>2, <3>1
    <3> QED
      BY <1>2, <1>8, <3>2
  <2> QED
    BY <2>1, <2>2
<1>12. \A S : S \in From(s)!ExactCopies <=>
          \E f \in From(s)!Findings : f.rule = "exact_duplicate_content_group" /\ From(s)!PagesIn(f) = S
  <2>1. ASSUME NEW S \in From(s)!ExactCopies
        PROVE  \E f \in From(s)!Findings : f.rule = "exact_duplicate_content_group" /\ From(s)!PagesIn(f) = S
    BY <1>3, <1>4, <1>5, <1>7, <1>9
  <2>2. ASSUME NEW f \in From(s)!Findings, f.rule = "exact_duplicate_content_group"
        PROVE  From(s)!PagesIn(f) \in From(s)!ExactCopies
    <3>1. f \in From(s)!ContentFindings
      BY <1>10, <2>2
    <3>2. PICK S \in From(s)!ExactCopies : f \in Exactly(S)
      BY <1>4, <1>6, <2>2, <3>1
    <3> QED
      BY <1>3, <1>7, <3>2
  <2> QED
    BY <2>1, <2>2
<1> QED
  BY <1>2, <1>11, <1>12

\* A finite set of less than two has one element.
LEMMA FewAreOne ==
    ASSUME NEW S, IsFiniteSet(S), ~(Cardinality(S) >= 2), NEW i \in S, NEW k \in S
    PROVE  i = k
<1> SUFFICES ASSUME i # k PROVE FALSE
  OBVIOUS
<1>1. IsFiniteSet({i}) /\ Cardinality({i}) = 1
  BY FS_Singleton
<1>2. Cardinality({i} \cup {k}) = 2
  BY <1>1, FS_AddElement
<1>3. {i} \cup {k} \in SUBSET S
  OBVIOUS
<1>4. Cardinality({i} \cup {k}) <= Cardinality(S) /\ Cardinality(S) \in Nat
  BY <1>3, FS_Subset, FS_CardinalityType
<1> QED
  BY <1>2, <1>4

\* The groups of copies are apart and similar two by two, and no page left over fits in one.
LEMMA CopiesAreWhole ==
    ASSUME NEW s \in Surveyed
    PROVE  From(s)!CopiesAreGrouped(From(s)!Findings)
<1> DEFINE near == From(s)!NearCopies
           exact == From(s)!ExactCopies
           candidates == From(s)!HasText \ UNION exact
           found == From(s)!Clusters(candidates)
<1> SUFFICES /\ \A S \in near : \A i, j \in S : i # j => From(s)!Similar(i, j)
             /\ \A S, T \in near \cup exact : S = T \/ S \cap T = {}
             /\ \A i \in From(s)!HasText \ UNION (near \cup exact) : \A S \in near : \E j \in S : ~From(s)!Similar(i, j)
  <2> HIDE DEF candidates, found
  <2>1. /\ {From(s)!PagesIn(f) : f \in {f \in From(s)!Findings : f.rule = "near_duplicate_content_group"}} = near
        /\ {From(s)!PagesIn(f) : f \in {f \in From(s)!Findings : f.rule = "exact_duplicate_content_group"}} = exact
    BY CopiesAreTold, Zenon
  <2> HIDE DEF near, exact
  <2> QED
    BY <2>1, SMTT(60) DEF From!CopiesAreGrouped
<1>1. candidates \in SUBSET From(s)!Places
  BY SurveyPages DEF From!HasText
<1>2. GroupsOfCopies(s, candidates, found)
  BY <1>1, ClustersAreGroups
<1>3. near = {S \in found : Cardinality(S) >= 2}
  BY SameSize DEF From!NearCopies
<1>4. \A S, T \in exact : S = T \/ S \cap T = {}
  BY CopiesAreApart
<1>5. \A S \in found : IsFiniteSet(S)
  <2>1. IsFiniteSet(From(s)!Places)
    BY SurveyPages, FS_Interval
  <2> QED
    BY <1>1, <1>2, <2>1, FS_Subset DEF GroupsOfCopies
<1> HIDE DEF near, exact, found
<1>6. \A S \in near : \A i, j \in S : i # j => From(s)!Similar(i, j)
  BY <1>2, <1>3 DEF GroupsOfCopies, Clique
<1>7. \A S, T \in near \cup exact : S = T \/ S \cap T = {}
  <2>1. \A S \in near, T \in exact : S \cap T = {}
    BY <1>2, <1>3 DEF GroupsOfCopies
  <2>2. \A S, T \in near : S = T \/ S \cap T = {}
    BY <1>2, <1>3 DEF GroupsOfCopies
  <2> QED
    BY <1>4, <2>1, <2>2
<1>8. ASSUME NEW i \in From(s)!HasText \ UNION (near \cup exact), NEW S \in near
      PROVE  \E j \in S : ~From(s)!Similar(i, j)
  <2>1. i \in candidates \ S /\ S \in found
    BY <1>3
  <2>2. CASE \E k \in S : ~From(s)!Similar(k, i)
    BY <2>2, SimilarBothWays
  <2>3. CASE \E T \in found : \E e \in S, k \in T : i \in T /\ ~From(s)!Similar(k, e)
    <3>1. PICK T \in found, e \in S : \E k \in T : i \in T /\ ~From(s)!Similar(k, e)
      BY <2>3
    <3>2. PICK k \in T : i \in T /\ ~From(s)!Similar(k, e)
      BY <3>1
    <3>3. ~(Cardinality(T) >= 2)
      BY <1>3, <1>8, <3>2
    <3>4. k = i
      BY <1>5, <3>2, <3>3, FewAreOne
    <3> QED
      BY <3>2, <3>4
  <2> QED
    BY <1>2, <2>1, <2>2, <2>3 DEF GroupsOfCopies
<1> QED
  BY <1>6, <1>7, <1>8

\* The findings of a site are sound.
LEMMA FindingsAreSound ==
    ASSUME NEW s \in Surveyed
    PROVE  From(s)!AreSound(From(s)!Findings)
  BY AbsencesAreObserved, OrphansHaveNoLink, CirclesAreTold, CopiesAreWhole, PatternsAreOfGroups DEF From!AreSound

\* What is stored are the findings of the site.
FindingsAreKept == survey \in Surveyed /\ (Stored => diagnosis.findings = From(survey)!Findings)

\* A stored diagnosis reports as absent only what was observed, as orphans the pages no page
\* links to, every circle of canonicals, groups of copies that are apart and similar two by two,
\* and patterns of pages that share one problem (_content_findings, _near_duplicate_clusters,
\* _canonical_indexability_findings, _link_graph_findings and _pattern_findings).
THEOREM DiagnosisHolds == DiagnosisSpec => []DiagnosisIsSound
<1>1. DiagnosisInit => FindingsAreKept
  BY DEF DiagnosisInit, DiagnosisWith, FindingsAreKept, Stored
<1>2. FindingsAreKept /\ [DiagnosisNext]_diagnosisVars => FindingsAreKept'
  <2> SUFFICES ASSUME FindingsAreKept, [DiagnosisNext]_diagnosisVars PROVE FindingsAreKept'
    OBVIOUS
  <2>1. CASE Diagnose
    <3>1. diagnosis'.status # "raised" => diagnosis'.findings = From(survey)!Findings
      BY <2>1 DEF Diagnose
    <3>2. survey' = survey
      BY <2>1 DEF Diagnose
    <3> QED
      BY <3>1, <3>2 DEF FindingsAreKept, Stored
  <2>2. CASE UNCHANGED diagnosisVars
    BY <2>2 DEF FindingsAreKept, Stored, diagnosisVars
  <2> QED
    BY <2>1, <2>2 DEF DiagnosisNext
<1>3. FindingsAreKept => DiagnosisIsSound
  BY FindingsAreSound DEF FindingsAreKept, DiagnosisIsSound
<1> QED
  BY <1>1, <1>2, <1>3, PTL DEF DiagnosisSpec
=============================================================================
