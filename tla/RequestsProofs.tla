---------------------------- MODULE RequestsProofs ----------------------------
(***************************************************************************)
(* Proofs about the requests clients send. RequestLimits, for any numbers   *)
(* of requests and clients and any limits, windows and sizes: the limits    *)
(* are kept, and nobody is held to more than them. ExecutionStart, for any  *)
(* requests, asks and rows there before, and any number of requests that    *)
(* die: what a client may conclude from its answer. A lookup sees what has  *)
(* been committed, the constraint is settled at the commit, and nothing     *)
(* that was committed is taken back.                                        *)
(***************************************************************************)
EXTENDS RequestLimits, ExecutionStart, FiniteSetTheorems, WellFoundedInduction, TLAPS

SentForm == [client : Clients, expensive : BOOLEAN, declared : Nat \cup {Unsaid},
             chunks : Seq(Nat), cut : BOOLEAN]
IdleForm == [at : {"idle"}, next : Nat, read : Nat, verdict : {"none"}, time : Nat]
ServedForm ==
    [at : {"reading", "done"}, sent : SentForm, next : Nat \ {0}, read : Nat,
     verdict : {"none", "served", "too_many", "too_many_analyses", "too_large"}, time : Nat]

RequestTypes ==
    /\ clock \in Nat
    /\ request \in [Arrivals -> IdleForm \cup ServedForm]
    /\ \A r \in Arrivals :
          /\ request[r].time <= clock
          /\ request[r].at = "reading" => request[r].verdict = "none"

LimiterTypes(l) ==
    /\ DOMAIN tally[l] \subseteq Clients /\ IsFiniteSet(DOMAIN tally[l])
    /\ \A c \in DOMAIN tally[l] : /\ tally[l][c] \in [count : Nat \ {0}, since : Nat]
                                  /\ tally[l][c].since <= clock
    /\ forgotten[l] \in [Clients -> [times : Nat, since : Nat]]
    /\ \A c \in Clients : forgotten[l][c].since <= clock

TallyTypes == \A l \in Limiters : LimiterTypes(l)

\* While its body is read, a request is within the size.
BodiesSoFar == \A r \in Arrivals : request[r].at = "reading" => request[r].read <= MaxBytes

\* What a limiter has counted in a window it has let through, up to the limit.
Used ==
    \A l \in Limiters : \A c \in DOMAIN tally[l] :
        LET e == tally[l][c] IN
        Cardinality(Within(l, c, e.since, clock + 1))
            >= IF e.count <= Limit[l] THEN e.count ELSE Limit[l]

\* What a window may still let through.
Left(l, c) ==
    IF tally[l][c].count < Limit[l] THEN Limit[l] - tally[l][c].count ELSE 0

\* What has been let through in a minute from t, and what may still be: a window that was open
\* at t has let its first request through before; one that opened later is the only one, or
\* the minute is over.
SpentIn(l, c, t) ==
    LET n == Cardinality(Within(l, c, t, t + Window))  k == forgotten[l][c].times IN
    IF c \notin DOMAIN tally[l] THEN n < (1 + k) * Limit[l]
    ELSE IF t > tally[l][c].since THEN n + Left(l, c) < (1 + k) * Limit[l]
    ELSE n + (IF clock < t + Window THEN Left(l, c) ELSE 0) < (2 + k) * Limit[l]

Spent == \A l \in Limiters, c \in Clients, t \in Nat : SpentIn(l, c, t)

LimitsInv ==
    /\ RequestTypes /\ TallyTypes /\ BodiesSoFar /\ Used /\ Spent
    /\ RefusalIsEarned /\ MemoryIsBounded /\ BodiesAreBounded

-----------------------------------------------------------------------------
(* What the definitions say of states of the right types.                  *)

LEMMA LimiterNames == "general" # "expensive" /\ Limiters = {"expensive", "general"}
BY DEF Limiters

LEMMA LimitPositive == ASSUME NEW l \in Limiters PROVE Limit[l] \in Nat /\ Limit[l] >= 1
BY RequestLimitsAssumption

LEMMA TalliedWindow ==
    ASSUME RequestTypes, TallyTypes, NEW l \in Limiters, NEW c \in Clients
    PROVE  /\ Tallied(l, c) \in [count : Nat \ {0}, since : Nat] /\ Tallied(l, c).since <= clock
           /\ c \in DOMAIN tally[l] /\ clock - tally[l][c].since < Window =>
                 /\ Tallied(l, c).count = tally[l][c].count + 1
                 /\ Tallied(l, c).since = tally[l][c].since
           /\ ~(c \in DOMAIN tally[l] /\ clock - tally[l][c].since < Window) =>
                 Tallied(l, c) = [count |-> 1, since |-> clock]
BY DEF RequestTypes, TallyTypes, LimiterTypes, Tallied, OpenedAnew

LEMMA WithinFinite ==
    ASSUME NEW l, NEW c, NEW t, NEW u
    PROVE  IsFiniteSet(Within(l, c, t, u)) /\ Cardinality(Within(l, c, t, u)) \in Nat
<1>1. Within(l, c, t, u) \in SUBSET Arrivals
  BY DEF Within, LetThrough
<1>2. IsFiniteSet(Arrivals)
  BY RequestLimitsAssumption
<1> QED
  BY <1>1, <1>2, FS_Subset, FS_CardinalityType

\* Nothing has been let through in the future.
LEMMA NothingLater ==
    ASSUME RequestTypes, NEW l \in Limiters, NEW c, NEW t \in Nat, t > clock, NEW u
    PROVE  Cardinality(Within(l, c, t, u)) = 0
<1>1. Within(l, c, t, u) = {}
  BY DEF Within, LetThrough, RequestTypes, IdleForm, ServedForm
<1> QED
  BY <1>1, FS_EmptySet

LEMMA ActiveHasSent ==
    ASSUME RequestTypes, NEW r \in Arrivals, request[r].at # "idle"
    PROVE  request[r] \in ServedForm
BY DEF RequestTypes, IdleForm

-----------------------------------------------------------------------------
(* A request that is admitted or refused by the limiters.                  *)

Asker(r) == request[r].sent.client

Passes(l, r) ==
    /\ l \in Consulted(request[r].sent.client, request[r].sent.expensive)
    /\ Allows(l, request[r].sent.client)

\* The admitted request is let through by the limiters that count it and allow it.
LEMMA AdmitLets ==
    ASSUME RequestTypes, NEW r \in Arrivals, request[r].at = "reading", NEW read \in Nat,
           Done(r, Verdict(request[r].sent.client, request[r].sent.expensive), read)
    PROVE  /\ request' \in [Arrivals -> IdleForm \cup ServedForm]
           /\ \A q \in Arrivals \ {r} : request'[q] = request[q]
           /\ request'[r].sent = request[r].sent /\ request'[r].time = clock
           /\ request'[r].at = "done" /\ request'[r].read = read
           /\ request'[r].verdict = Verdict(request[r].sent.client, request[r].sent.expensive)
           /\ \A l \in Limiters :
                 /\ r \notin LetThrough(l)
                 /\ LetThrough(l)' = LetThrough(l) \cup (IF Passes(l, r) THEN {r} ELSE {})
<1>1. request[r] \in ServedForm /\ request[r].verdict = "none"
  BY ActiveHasSent DEF RequestTypes
<1>2. Verdict(request[r].sent.client, request[r].sent.expensive)
        \in {"served", "too_many", "too_many_analyses"}
  BY DEF Verdict
<1>3. /\ \A q \in Arrivals \ {r} : request'[q] = request[q]
      /\ request'[r].sent = request[r].sent /\ request'[r].time = clock
      /\ request'[r].at = "done" /\ request'[r].read = read
      /\ request'[r].verdict = Verdict(request[r].sent.client, request[r].sent.expensive)
      /\ request'[r] \in ServedForm
  BY <1>1, <1>2 DEF Done, RequestTypes, ServedForm
<1>4. request' \in [Arrivals -> IdleForm \cup ServedForm]
  BY <1>3 DEF Done, RequestTypes
<1>5. ASSUME NEW l \in Limiters
      PROVE  /\ r \notin LetThrough(l)
             /\ LetThrough(l)' = LetThrough(l) \cup (IF Passes(l, r) THEN {r} ELSE {})
  <2>1. r \notin LetThrough(l)
    BY <1>1 DEF LetThrough
  <2>2. r \in LetThrough(l)' <=> Passes(l, r)
    <3>1. CASE l = "general"
      BY <3>1, <1>1, <1>3, LimiterNames DEF LetThrough, Passes, Consulted, Verdict, ServedForm, SentForm
    <3>2. CASE l = "expensive"
      BY <3>2, <1>1, <1>3, LimiterNames DEF LetThrough, Passes, Consulted, Verdict, ServedForm, SentForm
    <3> QED
      BY <3>1, <3>2, LimiterNames
  <2>3. \A q \in Arrivals \ {r} : q \in LetThrough(l)' <=> q \in LetThrough(l)
    BY <1>3 DEF LetThrough
  <2>4. LetThrough(l) \subseteq Arrivals /\ LetThrough(l)' \subseteq Arrivals
    BY DEF LetThrough
  <2> QED
    BY <2>1, <2>2, <2>3, <2>4
<1> QED
  BY <1>3, <1>4, <1>5

LEMMA AdmitCounts ==
    ASSUME RequestTypes, NEW r \in Arrivals, request[r].at = "reading", NEW read \in Nat,
           Done(r, Verdict(request[r].sent.client, request[r].sent.expensive), read),
           NEW l \in Limiters, NEW c, NEW t \in Nat, NEW u \in Nat
    PROVE  Cardinality(Within(l, c, t, u)') =
             Cardinality(Within(l, c, t, u))
               + IF Passes(l, r) /\ request[r].sent.client = c /\ t <= clock /\ clock < u
                 THEN 1 ELSE 0
<1> DEFINE new == Passes(l, r) /\ request[r].sent.client = c /\ t <= clock /\ clock < u
<1>1. r \notin Within(l, c, t, u)
  BY AdmitLets DEF Within
<1>2. Within(l, c, t, u)' = Within(l, c, t, u) \cup (IF new THEN {r} ELSE {})
  <2>1. \A q \in Arrivals \ {r} : q \in Within(l, c, t, u)' <=> q \in Within(l, c, t, u)
    BY AdmitLets DEF Within
  <2>2. r \in Within(l, c, t, u)' <=> new
    BY AdmitLets DEF Within, RequestTypes
  <2>3. Within(l, c, t, u) \subseteq Arrivals /\ Within(l, c, t, u)' \subseteq Arrivals
    BY DEF Within, LetThrough
  <2> QED
    BY <2>1, <2>2, <2>3, <1>1
<1> HIDE DEF new
<1>3. CASE new
  BY <1>1, <1>2, <1>3, WithinFinite, FS_AddElement DEF new
<1>4. CASE ~new
  <2>1. Within(l, c, t, u)' = Within(l, c, t, u)
    BY <1>2, <1>4
  <2> QED
    BY <2>1, <1>4, WithinFinite DEF new
<1> QED
  BY <1>3, <1>4

\* A limiter that counts the request moves its client and may forget another, any other is left
\* alone.
LEMMA AdmitTallies ==
    ASSUME RequestTypes, TallyTypes, NEW r \in Arrivals, request[r].at = "reading",
           NEW read \in Nat, Admit(r, read), NEW l \in Limiters
    PROVE  \/ /\ ~Passes(l, r)
              /\ l \notin Consulted(Asker(r), request[r].sent.expensive)
              /\ tally'[l] = tally[l] /\ forgotten'[l] = forgotten[l]
           \/ /\ l \in Consulted(Asker(r), request[r].sent.expensive)
              /\ Passes(l, r) <=> Tallied(l, Asker(r)).count <= Limit[l]
              /\ \E g \in SUBSET DOMAIN tally[l] :
                   /\ \/ g = {} /\ (Asker(r) \in DOMAIN tally[l] \/ Cardinality(DOMAIN tally[l]) < MaxTracked)
                      \/ /\ Asker(r) \notin DOMAIN tally[l] /\ Cardinality(DOMAIN tally[l]) >= MaxTracked
                         /\ \E d \in OldestOf(l) : g = {d}
                   /\ DOMAIN tally'[l] = (DOMAIN tally[l] \ g) \cup {Asker(r)}
                   /\ \A d \in DOMAIN tally'[l] :
                         tally'[l][d] = IF d = Asker(r) THEN Tallied(l, Asker(r)) ELSE tally[l][d]
                   /\ forgotten'[l] = [d \in Clients |->
                        IF d \in g
                        THEN [times |-> forgotten[l][d].times + 1, since |-> tally[l][d].since]
                        ELSE forgotten[l][d]]
<1> DEFINE asked == Consulted(Asker(r), request[r].sent.expensive)
<1>1. PICK gone \in [Limiters -> SUBSET Clients] :
        /\ \A k \in Limiters : gone[k] \in IF k \in asked THEN MayForget(k, Asker(r)) ELSE {{}}
        /\ tally' = [k \in Limiters |->
              IF k \notin asked THEN tally[k]
              ELSE [d \in (DOMAIN tally[k] \ gone[k]) \cup {Asker(r)} |->
                       IF d = Asker(r) THEN Tallied(k, Asker(r)) ELSE tally[k][d]]]
        /\ forgotten' = [k \in Limiters |-> [d \in Clients |->
              IF d \in gone[k]
              THEN [times |-> forgotten[k][d].times + 1, since |-> tally[k][d].since]
              ELSE forgotten[k][d]]]
  BY DEF Admit, Asker
<1>2. CASE l \notin asked
  <2>1. tally'[l] = tally[l] /\ ~Passes(l, r) /\ gone[l] = {}
    BY <1>1, <1>2 DEF Passes, Asker
  <2>2. forgotten'[l] = [d \in Clients |-> forgotten[l][d]]
    BY <1>1, <2>1
  <2>3. forgotten'[l] = forgotten[l]
    BY <2>2 DEF TallyTypes, LimiterTypes
  <2> QED
    BY <1>2, <2>1, <2>3
<1>3. CASE l \in asked
  <2>1. gone[l] \in MayForget(l, Asker(r))
    BY <1>1, <1>3
  <2>2. Passes(l, r) <=> Tallied(l, Asker(r)).count <= Limit[l]
    BY <1>3 DEF Passes, Allows, Asker
  <2>3. \/ gone[l] = {} /\ (Asker(r) \in DOMAIN tally[l] \/ ~(Cardinality(DOMAIN tally[l]) >= MaxTracked))
        \/ /\ Asker(r) \notin DOMAIN tally[l] /\ Cardinality(DOMAIN tally[l]) >= MaxTracked
           /\ \E d \in OldestOf(l) : gone[l] = {d}
    BY <2>1 DEF MayForget
  <2>4. Cardinality(DOMAIN tally[l]) \in Nat
    BY FS_CardinalityType DEF TallyTypes, LimiterTypes
  <2>5. gone[l] \in SUBSET DOMAIN tally[l]
    BY <2>3 DEF OldestOf
  <2>6. /\ tally'[l] = [d \in (DOMAIN tally[l] \ gone[l]) \cup {Asker(r)} |->
                           IF d = Asker(r) THEN Tallied(l, Asker(r)) ELSE tally[l][d]]
        /\ forgotten'[l] = [d \in Clients |->
              IF d \in gone[l]
              THEN [times |-> forgotten[l][d].times + 1, since |-> tally[l][d].since]
              ELSE forgotten[l][d]]
    BY <1>1, <1>3
  <2>7. /\ DOMAIN tally'[l] = (DOMAIN tally[l] \ gone[l]) \cup {Asker(r)}
        /\ \A d \in DOMAIN tally'[l] :
              tally'[l][d] = IF d = Asker(r) THEN Tallied(l, Asker(r)) ELSE tally[l][d]
    BY <2>6
  <2>8. \/ gone[l] = {} /\ (Asker(r) \in DOMAIN tally[l] \/ Cardinality(DOMAIN tally[l]) < MaxTracked)
        \/ /\ Asker(r) \notin DOMAIN tally[l] /\ Cardinality(DOMAIN tally[l]) >= MaxTracked
           /\ \E d \in OldestOf(l) : gone[l] = {d}
    BY <2>3, <2>4, RequestLimitsAssumption
  <2> HIDE DEF asked
  <2> QED
    BY <1>3, <2>2, <2>5, <2>6, <2>7, <2>8, Zenon DEF asked
<1> QED
  BY <1>2, <1>3

LEMMA AdmitTypes ==
    ASSUME RequestTypes, TallyTypes, NEW r \in Arrivals, request[r].at = "reading",
           NEW read \in Nat, Admit(r, read), clock' = clock
    PROVE  RequestTypes' /\ TallyTypes'
<1>1. Asker(r) \in Clients
  BY ActiveHasSent DEF Asker, ServedForm, SentForm
<1>2. RequestTypes'
  BY AdmitLets DEF RequestTypes, Admit
<1>3. ASSUME NEW l \in Limiters
      PROVE  LimiterTypes(l)'
  <2>1. /\ Tallied(l, Asker(r)) \in [count : Nat \ {0}, since : Nat] /\ Tallied(l, Asker(r)).since <= clock
    BY <1>1, TalliedWindow
  <2>2. \A g \in SUBSET DOMAIN tally[l] : IsFiniteSet((DOMAIN tally[l] \ g) \cup {Asker(r)})
    <3> TAKE g \in SUBSET DOMAIN tally[l]
    <3>1. IsFiniteSet(DOMAIN tally[l] \ g)
      BY FS_Subset DEF TallyTypes, LimiterTypes
    <3> QED
      BY <3>1, FS_AddElement
  <2>3. LimiterTypes(l)
    BY DEF TallyTypes
  <2>4. CASE tally'[l] = tally[l] /\ forgotten'[l] = forgotten[l]
    BY <2>3, <2>4 DEF LimiterTypes
  <2>5. ASSUME NEW g \in SUBSET DOMAIN tally[l],
               DOMAIN tally'[l] = (DOMAIN tally[l] \ g) \cup {Asker(r)},
               \A d \in DOMAIN tally'[l] :
                   tally'[l][d] = IF d = Asker(r) THEN Tallied(l, Asker(r)) ELSE tally[l][d],
               forgotten'[l] = [d \in Clients |->
                   IF d \in g
                   THEN [times |-> forgotten[l][d].times + 1, since |-> tally[l][d].since]
                   ELSE forgotten[l][d]]
        PROVE  LimiterTypes(l)'
    <3>1. /\ forgotten'[l] \in [Clients -> [times : Nat, since : Nat]]
          /\ \A d \in Clients : forgotten'[l][d].since <= clock'
      BY <2>3, <2>5 DEF LimiterTypes
    <3>2. DOMAIN tally'[l] \subseteq Clients
      BY <2>3, <2>5, <1>1 DEF LimiterTypes
    <3>3. IsFiniteSet((DOMAIN tally[l] \ g) \cup {Asker(r)})
      BY <2>2
    <3>4. IsFiniteSet(DOMAIN tally'[l])
      BY <3>3, <2>5
    <3>5. ASSUME NEW d \in DOMAIN tally'[l]
          PROVE  /\ tally'[l][d] \in [count : Nat \ {0}, since : Nat]
                 /\ tally'[l][d].since <= clock'
      BY <2>1, <2>3, <2>5 DEF LimiterTypes
    <3> QED
      BY <3>1, <3>2, <3>4, <3>5 DEF LimiterTypes
  <2> QED
    BY <2>4, <2>5, AdmitTallies
<1> QED
  BY <1>2, <1>3 DEF TallyTypes, LimiterTypes

\* A full table stays full, and what it forgets is older than what it keeps.
LEMMA AdmitMemory ==
    ASSUME RequestTypes, TallyTypes, MemoryIsBounded, NEW r \in Arrivals,
           request[r].at = "reading", NEW read \in Nat, Admit(r, read), clock' = clock
    PROVE  MemoryIsBounded'
<1> DEFINE Bounded(l) ==
      /\ Cardinality(DOMAIN tally[l]) <= MaxTracked
      /\ (\E c \in Clients : forgotten[l][c].times > 0) => Cardinality(DOMAIN tally[l]) = MaxTracked
      /\ \A c \in Clients, d \in DOMAIN tally[l] : forgotten[l][c].since <= tally[l][d].since
<1>1. Asker(r) \in Clients
  BY ActiveHasSent DEF Asker, ServedForm, SentForm
<1>2. SUFFICES ASSUME NEW l \in Limiters PROVE Bounded(l)'
  BY DEF MemoryIsBounded
<1>3. LimiterTypes(l) /\ Bounded(l) /\ Cardinality(DOMAIN tally[l]) \in Nat /\ clock \in Nat
  BY FS_CardinalityType DEF TallyTypes, LimiterTypes, MemoryIsBounded, RequestTypes
<1>4. CASE tally'[l] = tally[l] /\ forgotten'[l] = forgotten[l]
  BY <1>3, <1>4
<1>5. ASSUME NEW g \in SUBSET DOMAIN tally[l],
             \/ g = {} /\ (Asker(r) \in DOMAIN tally[l] \/ Cardinality(DOMAIN tally[l]) < MaxTracked)
             \/ /\ Asker(r) \notin DOMAIN tally[l] /\ Cardinality(DOMAIN tally[l]) >= MaxTracked
                /\ \E d \in OldestOf(l) : g = {d},
             DOMAIN tally'[l] = (DOMAIN tally[l] \ g) \cup {Asker(r)},
             \A d \in DOMAIN tally'[l] :
                 tally'[l][d] = IF d = Asker(r) THEN Tallied(l, Asker(r)) ELSE tally[l][d],
             forgotten'[l] = [d \in Clients |->
                 IF d \in g
                 THEN [times |-> forgotten[l][d].times + 1, since |-> tally[l][d].since]
                 ELSE forgotten[l][d]]
      PROVE  Bounded(l)'
  <2>1. \A d \in DOMAIN tally'[l] : tally'[l][d].since \in Nat
    <3>1. LimiterTypes(l)'
      BY AdmitTypes DEF TallyTypes
    <3> QED
      BY <3>1 DEF LimiterTypes
  <2>2. \A c \in Clients : forgotten[l][c] \in [times : Nat, since : Nat]
    BY <1>3 DEF LimiterTypes
  <2>3. Asker(r) \in DOMAIN tally[l] => tally[l][Asker(r)].since <= Tallied(l, Asker(r)).since
    BY <1>1, <1>3, TalliedWindow DEF LimiterTypes
  <2>4. Asker(r) \notin DOMAIN tally[l] => Tallied(l, Asker(r)).since = clock
    BY <1>1, TalliedWindow
  <2>5. CASE g = {} /\ Asker(r) \in DOMAIN tally[l]
    <3>1. DOMAIN tally'[l] = DOMAIN tally[l]
      BY <1>5, <2>5
    <3>2. \A c \in Clients : forgotten'[l][c] = forgotten[l][c]
      BY <1>5, <2>5
    <3>3. \A d \in DOMAIN tally[l] : tally[l][d].since <= tally'[l][d].since
      BY <1>3, <1>5, <2>3, <3>1 DEF LimiterTypes
    <3>4. \A c \in Clients, d \in DOMAIN tally[l] : forgotten[l][c].since <= tally'[l][d].since
      BY <1>3, <2>1, <2>2, <3>1, <3>3 DEF LimiterTypes
    <3> QED
      BY <1>3, <3>1, <3>2, <3>4
  <2>6. CASE g = {} /\ Asker(r) \notin DOMAIN tally[l] /\ Cardinality(DOMAIN tally[l]) < MaxTracked
    <3>1. DOMAIN tally'[l] = DOMAIN tally[l] \cup {Asker(r)}
      BY <1>5, <2>6
    <3>2. Cardinality(DOMAIN tally[l] \cup {Asker(r)}) = Cardinality(DOMAIN tally[l]) + 1
      BY <1>3, <2>6, FS_AddElement DEF LimiterTypes
    <3>3. Cardinality(DOMAIN tally'[l]) = Cardinality(DOMAIN tally[l]) + 1
      BY <3>1, <3>2
    <3>4. \A c \in Clients : forgotten'[l][c] = forgotten[l][c]
      BY <1>5, <2>6
    <3>5. ~\E c \in Clients : forgotten[l][c].times > 0
      BY <1>3, <2>6, RequestLimitsAssumption
    <3>6. \A c \in Clients : forgotten[l][c].since <= clock
      BY <1>3 DEF LimiterTypes
    <3>7. \A c \in Clients, d \in DOMAIN tally'[l] : forgotten'[l][c].since <= tally'[l][d].since
      <4>1. TAKE c \in Clients, d \in DOMAIN tally'[l]
      <4>2. CASE d = Asker(r)
        <5>1. tally'[l][d].since = clock
          BY <1>5, <2>4, <2>6, <4>2
        <5> QED
          BY <3>4, <3>6, <5>1
      <4>3. CASE d # Asker(r)
        <5>1. d \in DOMAIN tally[l] /\ tally'[l][d] = tally[l][d]
          BY <1>5, <3>1, <4>3
        <5> QED
          BY <1>3, <3>4, <5>1
      <4> QED
        BY <4>2, <4>3
    <3>8. Cardinality(DOMAIN tally'[l]) <= MaxTracked
      <4>1. MaxTracked \in Nat
        BY RequestLimitsAssumption
      <4>2. Cardinality(DOMAIN tally[l]) \in Nat /\ Cardinality(DOMAIN tally[l]) < MaxTracked
        BY <1>3, <2>6
      <4> QED
        BY <3>3, <4>1, <4>2
    <3>9. ~\E c \in Clients : forgotten'[l][c].times > 0
      BY <3>4, <3>5
    <3> QED
      BY <3>7, <3>8, <3>9
  <2>7. ASSUME NEW o \in OldestOf(l), g = {o}, Asker(r) \notin DOMAIN tally[l],
               Cardinality(DOMAIN tally[l]) >= MaxTracked
        PROVE  Bounded(l)'
    <3>1. o \in DOMAIN tally[l] /\ \A d \in DOMAIN tally[l] : tally[l][o].since <= tally[l][d].since
      BY <2>7 DEF OldestOf
    <3>2. IsFiniteSet(DOMAIN tally[l] \ {o})
          /\ Cardinality(DOMAIN tally[l] \ {o}) = Cardinality(DOMAIN tally[l]) - 1
      BY <1>3, <3>1, FS_RemoveElement DEF LimiterTypes
    <3>3. Cardinality((DOMAIN tally[l] \ {o}) \cup {Asker(r)}) = Cardinality(DOMAIN tally[l])
      <4>1. Asker(r) \notin DOMAIN tally[l] \ {o}
        BY <2>7
      <4>2. Cardinality((DOMAIN tally[l] \ {o}) \cup {Asker(r)}) = Cardinality(DOMAIN tally[l] \ {o}) + 1
        BY <3>2, <4>1, FS_AddElement
      <4> QED
        BY <1>3, <3>2, <4>2
    <3>4. Cardinality(DOMAIN tally'[l]) = MaxTracked
      <4>1. DOMAIN tally'[l] = (DOMAIN tally[l] \ {o}) \cup {Asker(r)}
        BY <1>5, <2>7
      <4>2. Cardinality(DOMAIN tally[l]) = MaxTracked
        BY <1>3, <2>7, RequestLimitsAssumption
      <4> QED
        BY <4>1, <4>2, <3>3
    <3>5. \A c \in Clients : forgotten'[l][c].since <= tally[l][o].since
      BY <1>3, <1>5, <2>2, <2>7, <3>1 DEF LimiterTypes
    <3>6. \A d \in DOMAIN tally'[l] : tally[l][o].since <= tally'[l][d].since
      BY <1>3, <1>5, <2>4, <2>7, <3>1 DEF LimiterTypes
    <3>7. \A c \in Clients : forgotten'[l][c].since \in Nat
      BY <1>3, <1>5, <2>2, <2>7 DEF LimiterTypes
    <3>8. \A c \in Clients, d \in DOMAIN tally'[l] : forgotten'[l][c].since <= tally'[l][d].since
      BY <1>3, <2>1, <3>1, <3>5, <3>6, <3>7 DEF LimiterTypes
    <3> QED
      BY <3>4, <3>8, RequestLimitsAssumption
  <2> QED
    BY <1>5, <2>5, <2>6, <2>7
<1> QED
  BY <1>4, <1>5, AdmitTallies, ZenonT(60)

\* What a window has counted stays let through, and the next request too while there is room.
LEMMA AdmitUsed ==
    ASSUME RequestTypes, TallyTypes, Used, NEW r \in Arrivals,
           request[r].at = "reading", NEW read \in Nat, Admit(r, read), clock' = clock
    PROVE  Used'
<1>1. Asker(r) \in Clients /\ clock \in Nat
  BY ActiveHasSent DEF Asker, ServedForm, SentForm, RequestTypes
<1>2. Done(r, Verdict(request[r].sent.client, request[r].sent.expensive), read)
  BY DEF Admit
<1>3. ASSUME NEW l \in Limiters, NEW d \in DOMAIN tally'[l], NEW s \in Nat, s = tally'[l][d].since
      PROVE  Cardinality(Within(l, d, s, clock + 1)')
               >= IF tally'[l][d].count <= Limit[l] THEN tally'[l][d].count ELSE Limit[l]
  <2>1. Limit[l] \in Nat /\ Limit[l] >= 1
    BY LimitPositive
  <2>2. s <= clock /\ tally'[l][d].count \in Nat \ {0}
    BY <1>3, AdmitTypes DEF TallyTypes, LimiterTypes
  <2>3. Cardinality(Within(l, d, s, clock + 1)') =
             Cardinality(Within(l, d, s, clock + 1))
               + IF Passes(l, r) /\ Asker(r) = d THEN 1 ELSE 0
    <3>1. clock + 1 \in Nat /\ clock < clock + 1
      BY <1>1
    <3> QED
      BY <1>2, <2>2, <3>1, AdmitCounts DEF Asker
  <2>4. Cardinality(Within(l, d, s, clock + 1)) \in Nat
    BY WithinFinite
  <2>5. CASE d \in DOMAIN tally[l] /\ tally'[l][d] = tally[l][d]
    <3>1. Cardinality(Within(l, d, s, clock + 1))
               >= IF tally[l][d].count <= Limit[l] THEN tally[l][d].count ELSE Limit[l]
      BY <1>3, <2>5 DEF Used
    <3> QED
      BY <2>1, <2>2, <2>3, <2>4, <2>5, <3>1
  <2>6. CASE d = Asker(r) /\ tally'[l][d] = Tallied(l, d)
             /\ (Passes(l, r) <=> Tallied(l, d).count <= Limit[l])
    <3>1. CASE d \in DOMAIN tally[l] /\ clock - tally[l][d].since < Window
      <4>1. Tallied(l, d).count = tally[l][d].count + 1 /\ s = tally[l][d].since
        BY <1>1, <1>3, <2>6, <3>1, TalliedWindow
      <4>2. Cardinality(Within(l, d, s, clock + 1))
               >= IF tally[l][d].count <= Limit[l] THEN tally[l][d].count ELSE Limit[l]
        BY <3>1, <4>1 DEF Used
      <4>3. tally[l][d].count \in Nat
        BY <3>1 DEF TallyTypes, LimiterTypes
      <4> QED
        BY <2>1, <2>3, <2>4, <2>6, <4>1, <4>2, <4>3
    <3>2. CASE ~(d \in DOMAIN tally[l] /\ clock - tally[l][d].since < Window)
      <4>1. Tallied(l, d).count = 1
        BY <1>1, <2>6, <3>2, TalliedWindow
      <4> QED
        BY <2>1, <2>3, <2>4, <2>6, <4>1
    <3> QED
      BY <3>1, <3>2
  <2>7. CASE tally'[l] = tally[l]
    BY <1>3, <2>5, <2>7
  <2>8. ASSUME NEW g,
               DOMAIN tally'[l] = (DOMAIN tally[l] \ g) \cup {Asker(r)},
               \A c \in DOMAIN tally'[l] :
                   tally'[l][c] = IF c = Asker(r) THEN Tallied(l, Asker(r)) ELSE tally[l][c],
               Passes(l, r) <=> Tallied(l, Asker(r)).count <= Limit[l]
        PROVE  \/ d \in DOMAIN tally[l] /\ tally'[l][d] = tally[l][d]
               \/ /\ d = Asker(r) /\ tally'[l][d] = Tallied(l, d)
                  /\ (Passes(l, r) <=> Tallied(l, d).count <= Limit[l])
    BY <1>3, <2>8
  <2> QED
    BY <2>5, <2>6, <2>7, <2>8, AdmitTallies
<1>4. ASSUME NEW l \in Limiters, NEW d \in DOMAIN tally'[l]
      PROVE  Cardinality(Within(l, d, tally[l][d].since, clock + 1)')
               >= IF tally'[l][d].count <= Limit[l] THEN tally'[l][d].count ELSE Limit[l]
  <2>1. PICK s \in Nat : s = tally'[l][d].since
    BY AdmitTypes DEF TallyTypes, LimiterTypes
  <2>2. Within(l, d, tally[l][d].since, clock + 1)' = Within(l, d, s, clock + 1)'
    BY <2>1 DEF Within
  <2> QED
    BY <1>3, <2>1, <2>2
<1> QED
  BY <1>4 DEF Used

\* Whoever is refused now has used up its limit in its window, and what was true before stays so.
LEMMA AdmitRefusal ==
    ASSUME RequestTypes, TallyTypes, Used, RefusalIsEarned, NEW r \in Arrivals,
           request[r].at = "reading", NEW read \in Nat, Admit(r, read), clock' = clock
    PROVE  RefusalIsEarned'
<1>1. /\ Asker(r) \in Clients /\ clock \in Nat /\ Window \in Nat \ {0}
      /\ request[r].sent \in SentForm /\ request[r].verdict = "none"
  BY ActiveHasSent, RequestLimitsAssumption DEF Asker, ServedForm, SentForm, RequestTypes
<1>2. Done(r, Verdict(request[r].sent.client, request[r].sent.expensive), read)
  BY DEF Admit
<1>3. SUFFICES ASSUME NEW l \in Limiters, NEW q \in Arrivals, q \in RefusedBy(l)'
               PROVE  Cardinality(Within(l, request[q].sent.client,
                          WindowBefore(request[q].time), request[q].time + 1)') >= Limit[l]
  BY DEF RefusalIsEarned, RefusedBy
<1>4. Limit[l] \in Nat /\ Limit[l] >= 1
  BY LimitPositive
<1>5. CASE q # r
  <2>1. request'[q] = request[q] /\ q \in RefusedBy(l)
    BY <1>2, <1>3, <1>5, AdmitLets DEF RefusedBy
  <2>t. request[q].time \in Nat /\ WindowBefore(request[q].time) \in Nat
    BY <1>1 DEF RequestTypes, IdleForm, ServedForm, WindowBefore
  <2>c. PICK c : c = request[q].sent.client
    OBVIOUS
  <2>f. PICK t \in Nat : t = WindowBefore(request[q].time)
    BY <2>t
  <2>u. PICK u \in Nat : u = request[q].time + 1
    BY <2>t
  <2>2. c = request[q].sent.client /\ u = request[q].time + 1 /\ t = WindowBefore(request[q].time)
    BY <2>c, <2>f, <2>u
  <2>3. Cardinality(Within(l, c, t, u)) >= Limit[l]
    BY <2>1, <2>2 DEF RefusalIsEarned
  <2>4. Cardinality(Within(l, c, t, u)') >= Cardinality(Within(l, c, t, u))
    BY <1>2, AdmitCounts, WithinFinite
  <2>5. Within(l, request[q].sent.client, WindowBefore(request[q].time), request[q].time + 1)'
          = Within(l, c, t, u)'
    BY <2>1, <2>2 DEF Within, WindowBefore
  <2>6. Cardinality(Within(l, c, t, u)) \in Nat /\ Cardinality(Within(l, c, t, u)') \in Nat
    BY <1>2, AdmitCounts, WithinFinite
  <2> QED
    BY <1>4, <2>3, <2>4, <2>5, <2>6
<1>6. CASE q = r
  <2>1. /\ request'[r].time = clock /\ request'[r].sent.client = Asker(r)
        /\ Verdict(Asker(r), request[r].sent.expensive)
             = (IF l = "general" THEN "too_many" ELSE "too_many_analyses")
    BY <1>2, <1>3, <1>6, AdmitLets DEF RefusedBy, Asker
  <2>2. Tallied(l, Asker(r)).count > Limit[l]
    <3>1. ~(Tallied(l, Asker(r)).count <= Limit[l])
      BY <2>1, LimiterNames DEF Verdict, Allows
    <3> QED
      BY <1>1, <1>4, <3>1, TalliedWindow
  <2>3. /\ Asker(r) \in DOMAIN tally[l] /\ clock - tally[l][Asker(r)].since < Window
        /\ tally[l][Asker(r)].count >= Limit[l]
    <3>1. Asker(r) \in DOMAIN tally[l] /\ clock - tally[l][Asker(r)].since < Window
      BY <1>1, <1>4, <2>2, TalliedWindow
    <3>2. Tallied(l, Asker(r)).count = tally[l][Asker(r)].count + 1
      BY <1>1, <3>1, TalliedWindow
    <3>3. tally[l][Asker(r)].count \in Nat
      BY <3>1 DEF TallyTypes, LimiterTypes
    <3> QED
      BY <1>4, <2>2, <3>1, <3>2, <3>3
  <2>4. PICK s \in Nat : s = tally[l][Asker(r)].since
    BY <2>3 DEF TallyTypes, LimiterTypes
  <2>5. Cardinality(Within(l, Asker(r), s, clock + 1)) >= Limit[l]
    <3>1. tally[l][Asker(r)].count \in Nat
      BY <2>3 DEF TallyTypes, LimiterTypes
    <3> QED
      BY <1>4, <2>3, <2>4, <3>1 DEF Used
  <2>6. WindowBefore(clock) \in Nat /\ WindowBefore(clock) <= s
    BY <1>1, <2>3, <2>4 DEF WindowBefore
  <2>7. Cardinality(Within(l, Asker(r), WindowBefore(clock), clock + 1))
          >= Cardinality(Within(l, Asker(r), s, clock + 1))
    <3>1. Within(l, Asker(r), s, clock + 1) \subseteq Within(l, Asker(r), WindowBefore(clock), clock + 1)
      BY <2>6 DEF Within, LetThrough, RequestTypes, IdleForm, ServedForm
    <3> QED
      BY <3>1, WithinFinite, FS_Subset
  <2>c. PICK c : c = Asker(r)
    OBVIOUS
  <2>f. PICK t \in Nat : t = WindowBefore(clock)
    BY <2>6
  <2>u. PICK u \in Nat : u = clock + 1
    BY <1>1
  <2>8. c = Asker(r) /\ t = WindowBefore(clock) /\ u = clock + 1
    BY <2>c, <2>f, <2>u
  <2>9. Within(l, request[q].sent.client, WindowBefore(request[q].time), request[q].time + 1)'
          = Within(l, c, t, u)'
    BY <1>6, <2>1, <2>8 DEF Within, WindowBefore
  <2>10. Cardinality(Within(l, c, t, u)') >= Cardinality(Within(l, c, t, u))
    BY <1>2, AdmitCounts, WithinFinite
  <2>11. /\ Cardinality(Within(l, c, t, u)) \in Nat /\ Cardinality(Within(l, c, t, u)') \in Nat
         /\ Cardinality(Within(l, Asker(r), s, clock + 1)) \in Nat
    BY <1>2, AdmitCounts, WithinFinite
  <2> QED
    BY <1>4, <2>5, <2>7, <2>8, <2>9, <2>10, <2>11
<1> QED
  BY <1>5, <1>6

LEMMA Products ==
    ASSUME NEW k \in Nat, NEW m \in Nat, m >= 1
    PROVE  /\ (1 + k) * m \in Nat /\ (2 + k) * m \in Nat
           /\ (2 + k) * m = (1 + k) * m + m
           /\ (1 + (k + 1)) * m = (2 + k) * m
           /\ (1 + k) * m >= m
<1>1. k * m \in Nat
  OBVIOUS
<1>2. (1 + k) * m = k * m + m /\ (2 + k) * m = k * m + m + m /\ (1 + (k + 1)) * m = k * m + m + m
  OBVIOUS
<1> QED
  BY <1>1, <1>2

\* Neither a request that is let through nor a client that is forgotten exceeds the bound.
LEMMA AdmitSpent ==
    ASSUME RequestTypes, TallyTypes, Spent, NEW r \in Arrivals,
           request[r].at = "reading", NEW read \in Nat, Admit(r, read), clock' = clock
    PROVE  Spent'
<1>1. Asker(r) \in Clients /\ clock \in Nat /\ Window \in Nat \ {0}
  BY ActiveHasSent, RequestLimitsAssumption DEF Asker, ServedForm, SentForm, RequestTypes
<1>2. Done(r, Verdict(request[r].sent.client, request[r].sent.expensive), read)
  BY DEF Admit
<1>3. SUFFICES ASSUME NEW l \in Limiters, NEW c \in Clients, NEW t \in Nat
               PROVE  SpentIn(l, c, t)'
  BY DEF Spent
<1> DEFINE n == Cardinality(Within(l, c, t, t + Window))
           add == IF Passes(l, r) /\ Asker(r) = c /\ t <= clock /\ clock < t + Window THEN 1 ELSE 0
           k == forgotten[l][c].times
           one == (1 + k) * Limit[l]
           two == (2 + k) * Limit[l]
<1>4. Limit[l] \in Nat /\ Limit[l] >= 1
  BY LimitPositive
<1>5. n \in Nat /\ k \in Nat /\ n' = n + add
  <2>1. t + Window \in Nat
    BY <1>1
  <2>2. n' = n + add
    BY <1>2, <2>1, AdmitCounts DEF Asker
  <2> QED
    BY <2>2, WithinFinite DEF TallyTypes, LimiterTypes
<1>6. one \in Nat /\ two = one + Limit[l] /\ one >= Limit[l] /\ (1 + (k + 1)) * Limit[l] = two
  BY <1>4, <1>5, Products
<1>7. SpentIn(l, c, t)
  BY DEF Spent
<1>8. c \in DOMAIN tally[l] => /\ tally[l][c].count \in Nat /\ tally[l][c].since \in Nat
                               /\ tally[l][c].since <= clock /\ Left(l, c) \in Nat
  BY <1>4 DEF TallyTypes, LimiterTypes, Left
<1> HIDE DEF n, add, k
<1>9. CASE /\ tally'[l] = tally[l] /\ forgotten'[l] = forgotten[l] /\ (~Passes(l, r) \/ c # Asker(r))
  BY <1>5, <1>7, <1>9 DEF SpentIn, Left, n, add, k
<1>10. ASSUME NEW g \in SUBSET DOMAIN tally[l],
              Passes(l, r) <=> Tallied(l, Asker(r)).count <= Limit[l],
              g # {} => Asker(r) \notin DOMAIN tally[l],
              DOMAIN tally'[l] = (DOMAIN tally[l] \ g) \cup {Asker(r)},
              \A d \in DOMAIN tally'[l] :
                  tally'[l][d] = IF d = Asker(r) THEN Tallied(l, Asker(r)) ELSE tally[l][d],
              forgotten'[l] = [d \in Clients |->
                  IF d \in g
                  THEN [times |-> forgotten[l][d].times + 1, since |-> tally[l][d].since]
                  ELSE forgotten[l][d]]
       PROVE  SpentIn(l, c, t)'
  <2>1. CASE c # Asker(r) /\ c \notin g
    <3>1. /\ c \in DOMAIN tally[l] <=> c \in DOMAIN tally'[l]
          /\ c \in DOMAIN tally[l] => tally'[l][c] = tally[l][c]
          /\ forgotten'[l][c] = forgotten[l][c]
      BY <1>10, <2>1
    <3>2. n' = n
      BY <1>5, <2>1 DEF add
    <3> QED
      BY <1>7, <3>1, <3>2 DEF SpentIn, Left, n
  <2>2. CASE c # Asker(r) /\ c \in g
    <3>1. c \in DOMAIN tally[l] /\ c \notin DOMAIN tally'[l] /\ forgotten'[l][c].times = k + 1
      BY <1>10, <2>2 DEF k
    <3>2. n' = n
      BY <1>5, <2>2 DEF add
    <3>3. n < two
      BY <1>4, <1>5, <1>6, <1>7, <1>8, <3>1 DEF SpentIn, n, k
    <3>4. SpentIn(l, c, t)' <=> n' < (1 + (k + 1)) * Limit[l]
      BY <3>1 DEF SpentIn, n
    <3> QED
      BY <1>6, <3>2, <3>3, <3>4
  <2>3. CASE c = Asker(r)
    <3>1. /\ c \in DOMAIN tally'[l] /\ tally'[l][c] = Tallied(l, c) /\ c \notin g
          /\ forgotten'[l][c].times = k
      BY <1>10, <2>3 DEF k
    <3>2. SpentIn(l, c, t)' <=>
            IF t > Tallied(l, c).since
            THEN n' + (IF Tallied(l, c).count < Limit[l] THEN Limit[l] - Tallied(l, c).count ELSE 0) < one
            ELSE n' + (IF clock < t + Window
                       THEN IF Tallied(l, c).count < Limit[l] THEN Limit[l] - Tallied(l, c).count ELSE 0
                       ELSE 0) < two
      BY <3>1 DEF SpentIn, Left, n
    <3>3. Passes(l, r) <=> Tallied(l, c).count <= Limit[l]
      BY <1>10, <2>3
    <3> HIDE DEF one, two
    <3>4. CASE c \in DOMAIN tally[l] /\ clock - tally[l][c].since < Window
      <4>1. Tallied(l, c).count = tally[l][c].count + 1 /\ Tallied(l, c).since = tally[l][c].since
        BY <3>4, TalliedWindow
      <4>2. IF t > tally[l][c].since
            THEN n + (IF tally[l][c].count < Limit[l] THEN Limit[l] - tally[l][c].count ELSE 0) < one
            ELSE n + (IF clock < t + Window
                      THEN IF tally[l][c].count < Limit[l] THEN Limit[l] - tally[l][c].count ELSE 0
                      ELSE 0) < two
        BY <1>7, <3>4 DEF SpentIn, Left, n, k, one, two
      <4>3. /\ add \in {0, 1}
            /\ add = 1 => tally[l][c].count + 1 <= Limit[l] /\ clock < t + Window
        BY <3>3, <4>1 DEF add
      <4> QED
        BY <1>1, <1>4, <1>5, <1>6, <1>8, <3>2, <3>4, <4>1, <4>2, <4>3
    <3>5. CASE ~(c \in DOMAIN tally[l] /\ clock - tally[l][c].since < Window)
      <4>1. Tallied(l, c).count = 1 /\ Tallied(l, c).since = clock
        BY <3>5, TalliedWindow
      <4>2. add \in {0, 1} /\ (add = 1 => t <= clock /\ clock < t + Window)
        BY DEF add
      <4>3. CASE t > clock
        <5>1. n = 0
          BY <4>3, NothingLater DEF n
        <5> QED
          BY <1>1, <1>4, <1>5, <1>6, <3>2, <4>1, <4>2, <4>3, <5>1
      <4>4. CASE t <= clock /\ n < one
        BY <1>1, <1>4, <1>5, <1>6, <3>2, <4>1, <4>2, <4>4
      <4>5. CASE t <= clock /\ ~(n < one)
        <5>1. c \in DOMAIN tally[l] /\ t <= tally[l][c].since
          BY <1>1, <1>4, <1>5, <1>6, <1>7, <1>8, <4>5 DEF SpentIn, n, k, one
        <5>2. ~(clock < t + Window)
          BY <1>1, <1>8, <3>5, <5>1
        <5>3. n < two
          BY <1>1, <1>5, <1>7, <1>8, <5>1, <5>2 DEF SpentIn, n, k, two
        <5> QED
          BY <1>1, <1>5, <1>6, <3>2, <4>1, <4>2, <4>5, <5>2, <5>3
      <4> QED
        BY <1>1, <4>3, <4>4, <4>5
    <3> QED
      BY <3>4, <3>5
  <2> QED
    BY <2>1, <2>2, <2>3
<1> QED
  BY <1>9, <1>10, AdmitTallies

-----------------------------------------------------------------------------
(* Every other step: nobody is let through or refused by the limiters.     *)

Quiet ==
    /\ tally' = tally /\ forgotten' = forgotten /\ clock' \in {clock, clock + 1}
    /\ \A l \in Limiters : /\ LetThrough(l)' = LetThrough(l) /\ RefusedBy(l)' = RefusedBy(l)
                           /\ \A q \in LetThrough(l) \cup RefusedBy(l) : request'[q] = request[q]

\* A request that has no verdict yet, and gets none of the limiters.
LEMMA QuietRequest ==
    ASSUME RequestTypes, NEW r \in Arrivals, request[r].verdict = "none", NEW x,
           request' = [request EXCEPT ![r] = x], x.verdict \in {"none", "too_large"},
           tally' = tally, forgotten' = forgotten, clock' = clock
    PROVE  Quiet
<1>1. /\ \A q \in Arrivals \ {r} : request'[q] = request[q]
      /\ request'[r] = x
  BY DEF RequestTypes
<1>2. ASSUME NEW l \in Limiters
      PROVE  /\ LetThrough(l)' = LetThrough(l) /\ RefusedBy(l)' = RefusedBy(l)
             /\ r \notin LetThrough(l) \cup RefusedBy(l)
  <2>1. r \notin LetThrough(l) /\ r \notin LetThrough(l)'
    BY <1>1 DEF LetThrough
  <2>2. r \notin RefusedBy(l) /\ r \notin RefusedBy(l)'
    BY <1>1 DEF RefusedBy
  <2>3. /\ \A q \in Arrivals \ {r} : q \in LetThrough(l)' <=> q \in LetThrough(l)
        /\ \A q \in Arrivals \ {r} : q \in RefusedBy(l)' <=> q \in RefusedBy(l)
    BY <1>1 DEF LetThrough, RefusedBy
  <2>4. /\ LetThrough(l) \subseteq Arrivals /\ LetThrough(l)' \subseteq Arrivals
        /\ RefusedBy(l) \subseteq Arrivals /\ RefusedBy(l)' \subseteq Arrivals
    BY DEF LetThrough, RefusedBy
  <2> QED
    BY <2>1, <2>2, <2>3, <2>4
<1>3. \A l \in Limiters : LetThrough(l) \cup RefusedBy(l) \subseteq Arrivals
  BY DEF LetThrough, RefusedBy
<1>4. \A l \in Limiters : \A q \in LetThrough(l) \cup RefusedBy(l) : request'[q] = request[q]
  BY <1>1, <1>2, <1>3
<1> QED
  BY <1>2, <1>4 DEF Quiet

LEMMA QuietCounts ==
    ASSUME Quiet, NEW l \in Limiters, NEW c, NEW t, NEW u
    PROVE  Within(l, c, t, u)' = Within(l, c, t, u)
BY DEF Quiet, Within

LEMMA QuietTallies ==
    ASSUME RequestTypes, TallyTypes, MemoryIsBounded, Quiet
    PROVE  TallyTypes' /\ MemoryIsBounded'
<1>1. clock \in Nat /\ clock' >= clock
  BY DEF Quiet, RequestTypes
<1>2. MemoryIsBounded'
  BY DEF Quiet, MemoryIsBounded
<1>3. ASSUME NEW l \in Limiters
      PROVE  LimiterTypes(l)'
  <2>1. LimiterTypes(l)
    BY DEF TallyTypes
  <2>2. clock' \in Nat
    BY <1>1 DEF Quiet
  <2> QED
    BY <1>1, <2>1, <2>2 DEF Quiet, LimiterTypes
<1> QED
  BY <1>2, <1>3 DEF TallyTypes

LEMMA QuietUsed ==
    ASSUME RequestTypes, TallyTypes, Used, Quiet
    PROVE  Used'
<1>1. SUFFICES ASSUME NEW l \in Limiters, NEW c \in DOMAIN tally[l]
               PROVE  Cardinality(Within(l, c, tally[l][c].since, clock + 1)')
                        >= IF tally[l][c].count <= Limit[l] THEN tally[l][c].count ELSE Limit[l]
  BY DEF Used, Quiet
<1>2. PICK s \in Nat : s = tally[l][c].since
  BY DEF TallyTypes, LimiterTypes
<1>3. Within(l, c, tally[l][c].since, clock + 1)' = Within(l, c, s, clock + 1)
  <2>1. Within(l, c, tally[l][c].since, clock + 1)'
          = {r \in LetThrough(l) : /\ request[r].sent.client = c /\ request[r].time >= s
                                   /\ request[r].time < clock' + 1}
    BY <1>2 DEF Quiet, Within
  <2>2. \A r \in LetThrough(l) : request[r].time < clock' + 1 <=> request[r].time < clock + 1
    BY DEF Quiet, RequestTypes, IdleForm, ServedForm, LetThrough
  <2> QED
    BY <2>1, <2>2 DEF Within
<1> QED
  BY <1>2, <1>3 DEF Used

LEMMA QuietSpent ==
    ASSUME RequestTypes, TallyTypes, Spent, Quiet
    PROVE  Spent'
<1>1. SUFFICES ASSUME NEW l \in Limiters, NEW c \in Clients, NEW t \in Nat
               PROVE  SpentIn(l, c, t)'
  BY DEF Spent
<1>2. SpentIn(l, c, t)
  BY DEF Spent
<1>3. Within(l, c, t, t + Window)' = Within(l, c, t, t + Window)
  BY QuietCounts
<1>4. Limit[l] \in Nat /\ Window \in Nat /\ clock \in Nat /\ clock' \in {clock, clock + 1}
  BY LimitPositive, RequestLimitsAssumption DEF Quiet, RequestTypes
<1>5. Cardinality(Within(l, c, t, t + Window)) \in Nat
  BY WithinFinite
<1>6. CASE c \notin DOMAIN tally[l]
  BY <1>2, <1>3, <1>6 DEF SpentIn, Quiet
<1>7. CASE c \in DOMAIN tally[l]
  <2>1. tally[l][c].count \in Nat /\ tally[l][c].since \in Nat /\ forgotten[l][c].times \in Nat
    BY <1>7 DEF TallyTypes, LimiterTypes
  <2>2. Left(l, c) \in Nat /\ Left(l, c)' = Left(l, c)
    BY <1>4, <2>1 DEF Left, Quiet
  <2>3. (2 + forgotten[l][c].times) * Limit[l] \in Nat
    BY <1>4, <2>1
  <2>4. CASE t > tally[l][c].since
    BY <1>2, <1>3, <1>7, <2>2, <2>4 DEF SpentIn, Quiet
  <2>5. CASE ~(t > tally[l][c].since)
    <3> DEFINE n == Cardinality(Within(l, c, t, t + Window))
               bound == (2 + forgotten[l][c].times) * Limit[l]
    <3>1. n + (IF clock < t + Window THEN Left(l, c) ELSE 0) < bound
      BY <1>2, <1>7, <2>5 DEF SpentIn
    <3>2. SpentIn(l, c, t)' <=> n + (IF clock' < t + Window THEN Left(l, c) ELSE 0) < bound
      BY <1>3, <1>7, <2>2, <2>5 DEF SpentIn, Quiet
    <3>3. n \in Nat /\ bound \in Nat
      BY <1>5, <2>3
    <3> HIDE DEF n, bound
    <3> QED
      BY <1>4, <2>2, <3>1, <3>2, <3>3
  <2> QED
    BY <2>4, <2>5
<1> QED
  BY <1>6, <1>7

LEMMA QuietRefusal ==
    ASSUME RequestTypes, RefusalIsEarned, Quiet
    PROVE  RefusalIsEarned'
<1>1. SUFFICES ASSUME NEW l \in Limiters, NEW q \in RefusedBy(l)'
               PROVE  Cardinality(Within(l, request[q].sent.client,
                          WindowBefore(request[q].time), request[q].time + 1)') >= Limit[l]
  BY DEF RefusalIsEarned
<1>2. q \in RefusedBy(l) /\ request'[q] = request[q]
  BY DEF Quiet
<1>3. Within(l, request[q].sent.client, WindowBefore(request[q].time), request[q].time + 1)'
        = Within(l, request[q].sent.client, WindowBefore(request[q].time), request[q].time + 1)
  BY <1>2 DEF Quiet, Within, WindowBefore
<1> QED
  BY <1>2, <1>3 DEF RefusalIsEarned

-----------------------------------------------------------------------------
(* The bodies, and the invariant.                                          *)

\* One request moves on: what it is then decides.
LEMMA OneMoves ==
    ASSUME RequestTypes, BodiesSoFar, BodiesAreBounded, NEW r \in Arrivals, NEW x \in ServedForm,
           request' = [request EXCEPT ![r] = x], clock' = clock, x.time <= clock,
           x.at = "reading" => x.verdict = "none" /\ x.read <= MaxBytes,
           x.at = "done" /\ x.verdict # "too_large" => x.read <= MaxBytes,
           x.verdict = "too_large" => x.read > MaxBytes \/ TooLong(x.sent)
    PROVE  RequestTypes' /\ BodiesSoFar' /\ BodiesAreBounded'
<1>1. /\ request' \in [Arrivals -> IdleForm \cup ServedForm]
      /\ request'[r] = x /\ \A q \in Arrivals \ {r} : request'[q] = request[q]
  BY DEF RequestTypes
<1>2. RequestTypes'
  BY <1>1 DEF RequestTypes
<1>3. BodiesSoFar'
  BY <1>1 DEF BodiesSoFar
<1>4. BodiesAreBounded'
  BY <1>1 DEF BodiesAreBounded, TooLong
<1> QED
  BY <1>2, <1>3, <1>4

LEMMA AdmitKeeps ==
    ASSUME LimitsInv, NEW r \in Arrivals, request[r].at = "reading", NEW read \in Nat,
           read <= MaxBytes, Admit(r, read), clock' = clock
    PROVE  LimitsInv'
<1>1. RequestTypes /\ TallyTypes /\ BodiesSoFar /\ BodiesAreBounded
  BY DEF LimitsInv
<1>2. Done(r, Verdict(request[r].sent.client, request[r].sent.expensive), read)
  BY DEF Admit
<1>3. BodiesSoFar' /\ BodiesAreBounded'
  <2>1. /\ request'[r].at = "done" /\ request'[r].read = read
        /\ request'[r].verdict # "too_large"
        /\ \A q \in Arrivals \ {r} : request'[q] = request[q]
    <3>1. Verdict(request[r].sent.client, request[r].sent.expensive) # "too_large"
      BY DEF Verdict
    <3> QED
      BY <1>1, <1>2, <3>1, AdmitLets
  <2> QED
    BY <1>1, <2>1 DEF BodiesSoFar, BodiesAreBounded, TooLong
<1> QED
  BY <1>3, AdmitTypes, AdmitUsed, AdmitSpent, AdmitRefusal, AdmitMemory DEF LimitsInv

LEMMA QuietKeeps ==
    ASSUME LimitsInv, Quiet, RequestTypes', BodiesSoFar', BodiesAreBounded'
    PROVE  LimitsInv'
BY QuietTallies, QuietUsed, QuietSpent, QuietRefusal DEF LimitsInv

\* A request that is not counted by the limiters in this step.
LEMMA OthersKeep ==
    ASSUME LimitsInv, NEW r \in Arrivals, request[r].verdict = "none", NEW x \in ServedForm,
           request' = [request EXCEPT ![r] = x], x.verdict \in {"none", "too_large"},
           UNCHANGED <<clock, tally, forgotten>>, x.time <= clock,
           x.at = "reading" => x.verdict = "none" /\ x.read <= MaxBytes,
           x.at = "done" => x.verdict = "too_large",
           x.verdict = "too_large" => x.read > MaxBytes \/ TooLong(x.sent)
    PROVE  LimitsInv'
<1>1. RequestTypes /\ BodiesSoFar /\ BodiesAreBounded
  BY DEF LimitsInv
<1>2. Quiet
  BY <1>1, QuietRequest
<1>3. RequestTypes' /\ BodiesSoFar' /\ BodiesAreBounded'
  BY <1>1, OneMoves
<1> QED
  BY <1>2, <1>3, QuietKeeps

LEMMA ArrivalKeeps ==
    ASSUME LimitsInv, NEW r \in Arrivals, RequestArrives(r)
    PROVE  LimitsInv'
<1>1. RequestTypes /\ clock \in Nat /\ MaxBytes \in Nat
  BY RequestLimitsAssumption DEF LimitsInv, RequestTypes
<1>2. request[r].verdict = "none"
  BY <1>1 DEF RequestArrives, RequestTypes, IdleForm, ServedForm
<1>3. PICK s \in Sent[r] :
        request' = [request EXCEPT ![r] =
              IF TooLong(s)
              THEN [at |-> "done", sent |-> s, next |-> 1, read |-> 0, verdict |-> "too_large",
                    time |-> 0]
              ELSE [at |-> "reading", sent |-> s, next |-> 1, read |-> 0, verdict |-> "none",
                    time |-> 0]]
  BY DEF RequestArrives
<1>4. s \in SentForm
  BY RequestLimitsAssumption DEF SentForm
<1> DEFINE x == IF TooLong(s)
                THEN [at |-> "done", sent |-> s, next |-> 1, read |-> 0, verdict |-> "too_large",
                      time |-> 0]
                ELSE [at |-> "reading", sent |-> s, next |-> 1, read |-> 0, verdict |-> "none",
                      time |-> 0]
<1>5. /\ x \in ServedForm /\ x.verdict \in {"none", "too_large"} /\ x.time <= clock
      /\ x.at = "reading" => x.verdict = "none" /\ x.read <= MaxBytes
      /\ x.at = "done" => x.verdict = "too_large"
      /\ x.verdict = "too_large" => x.read > MaxBytes \/ TooLong(x.sent)
  BY <1>1, <1>4 DEF ServedForm
<1>6. request' = [request EXCEPT ![r] = x] /\ UNCHANGED <<clock, tally, forgotten>>
  BY <1>3 DEF RequestArrives
<1> HIDE DEF x
<1> QED
  BY <1>2, <1>5, <1>6, OthersKeep

LEMMA ChunkKeeps ==
    ASSUME LimitsInv, NEW r \in Arrivals, ReadChunk(r)
    PROVE  LimitsInv'
<1> DEFINE read == request[r].read + request[r].sent.chunks[request[r].next]
           last == request[r].next = Len(request[r].sent.chunks) /\ ~request[r].sent.cut
<1>1. RequestTypes /\ clock \in Nat /\ MaxBytes \in Nat
  BY RequestLimitsAssumption DEF LimitsInv, RequestTypes
<1>2. request[r].at = "reading" /\ request[r] \in ServedForm /\ request[r].verdict = "none"
  BY <1>1, ActiveHasSent DEF ReadChunk, RequestTypes
<1>3. read \in Nat
  <2>1. request[r].sent.chunks \in Seq(Nat) /\ request[r].next \in Nat \ {0} /\ request[r].read \in Nat
    BY <1>2 DEF ServedForm, SentForm
  <2>2. request[r].next \in 1..Len(request[r].sent.chunks)
    BY <2>1 DEF ReadChunk
  <2>3. request[r].sent.chunks[request[r].next] \in Nat
    BY <2>1, <2>2
  <2> QED
    BY <2>1, <2>3, SMTT(30)
<1>4. /\ \/ ~Fits(read) /\ Refuse(r, read)
         \/ Fits(read) /\ last /\ Admit(r, read)
         \/ /\ Fits(read) /\ ~last
            /\ request' = [request EXCEPT ![r].next = @ + 1, ![r].read = read]
            /\ UNCHANGED <<tally, forgotten>>
      /\ clock' = clock
  BY DEF ReadChunk
<1> HIDE DEF read, last
<1>5. CASE ~Fits(read) /\ Refuse(r, read)
  <2> DEFINE x == [request[r] EXCEPT !.at = "done", !.verdict = "too_large", !.read = read,
                                     !.time = clock]
  <2>1. request' = [request EXCEPT ![r] = x] /\ UNCHANGED <<clock, tally, forgotten>>
    BY <1>1, <1>4, <1>5 DEF Refuse, Done, RequestTypes
  <2>2. x \in ServedForm /\ x.at = "done" /\ x.verdict = "too_large" /\ x.time = clock /\ x.read = read
    BY <1>1, <1>2, <1>3 DEF ServedForm
  <2>3. read > MaxBytes
    BY <1>1, <1>3, <1>5 DEF Fits
  <2>4. x.time <= clock
    BY <1>1, <2>2
  <2> HIDE DEF x
  <2> QED
    BY <1>2, <2>1, <2>2, <2>3, <2>4, OthersKeep
<1>6. CASE Fits(read) /\ last /\ Admit(r, read)
  BY <1>2, <1>3, <1>4, <1>6, AdmitKeeps DEF Fits
<1>7. CASE /\ Fits(read) /\ ~last
           /\ request' = [request EXCEPT ![r].next = @ + 1, ![r].read = read]
           /\ UNCHANGED <<tally, forgotten>>
  <2> DEFINE x == [request[r] EXCEPT !.next = @ + 1, !.read = read]
  <2>1. request' = [request EXCEPT ![r] = x] /\ UNCHANGED <<clock, tally, forgotten>>
    BY <1>1, <1>4, <1>7 DEF RequestTypes
  <2>2. x \in ServedForm /\ x.at = "reading" /\ x.verdict = "none" /\ x.read = read
    <3>1. request[r].next + 1 \in Nat \ {0}
      BY <1>2 DEF ServedForm
    <3>2. x.at = "reading" /\ x.verdict = "none" /\ x.read = read /\ x.next = request[r].next + 1
      BY <1>2 DEF ServedForm
    <3> QED
      BY <1>2, <1>3, <3>1, <3>2 DEF ServedForm
  <2>3. x.time <= clock /\ read <= MaxBytes
    BY <1>1, <1>2, <1>7 DEF RequestTypes, ServedForm, Fits
  <2> HIDE DEF x
  <2> QED
    BY <1>2, <2>1, <2>2, <2>3, OthersKeep
<1> QED
  BY <1>4, <1>5, <1>6, <1>7

LEMMA DisconnectKeeps ==
    ASSUME LimitsInv, NEW r \in Arrivals, Disconnect(r)
    PROVE  LimitsInv'
<1>1. request[r].at = "reading" /\ Admit(r, request[r].read) /\ clock' = clock
  BY DEF Disconnect
<1>2. request[r].read \in Nat /\ request[r].read <= MaxBytes
  BY <1>1, ActiveHasSent DEF LimitsInv, BodiesSoFar, ServedForm
<1> QED
  BY <1>1, <1>2, AdmitKeeps

LEMMA TickKeeps ==
    ASSUME LimitsInv, Tick
    PROVE  LimitsInv'
<1>1. Quiet
  BY DEF Tick, Quiet, LetThrough, RefusedBy
<1>2. BodiesSoFar' /\ BodiesAreBounded'
  BY DEF LimitsInv, Tick, BodiesSoFar, BodiesAreBounded
<1>3. RequestTypes'
  BY DEF LimitsInv, Tick, RequestTypes, IdleForm, ServedForm
<1> QED
  BY <1>1, <1>2, <1>3, QuietKeeps

LEMMA LimitsInvStep == LimitsInv /\ [LimitsNext]_limitVars => LimitsInv'
<1> SUFFICES ASSUME LimitsInv, [LimitsNext]_limitVars PROVE LimitsInv'
  OBVIOUS
<1>1. CASE Tick
  BY <1>1, TickKeeps
<1>2. ASSUME NEW r \in Arrivals, RequestArrives(r) PROVE LimitsInv'
  BY <1>2, ArrivalKeeps
<1>3. ASSUME NEW r \in Arrivals, ReadChunk(r) PROVE LimitsInv'
  BY <1>3, ChunkKeeps
<1>4. ASSUME NEW r \in Arrivals, Disconnect(r) PROVE LimitsInv'
  BY <1>4, DisconnectKeeps
<1>5. CASE UNCHANGED limitVars
  <2>1. Quiet
    BY <1>5 DEF limitVars, Quiet, LetThrough, RefusedBy
  <2>2. RequestTypes' /\ BodiesSoFar' /\ BodiesAreBounded'
    BY <1>5 DEF LimitsInv, limitVars, RequestTypes, BodiesSoFar, BodiesAreBounded
  <2> QED
    BY <2>1, <2>2, QuietKeeps
<1> QED
  BY <1>1, <1>2, <1>3, <1>4, <1>5 DEF LimitsNext

LEMMA LimitsInvInit == LimitsInit => LimitsInv
<1> SUFFICES ASSUME LimitsInit PROVE LimitsInv
  OBVIOUS
<1>1. /\ clock = 0 /\ \A l \in Limiters : DOMAIN tally[l] = {}
      /\ \A l \in Limiters : forgotten[l] = [c \in Clients |-> [times |-> 0, since |-> 0]]
      /\ request = [r \in Arrivals |-> [at |-> "idle", next |-> 1, read |-> 0, verdict |-> "none",
                                        time |-> 0]]
  BY DEF LimitsInit
<1>2. RequestTypes
  BY <1>1 DEF RequestTypes, IdleForm
<1>3. \A l \in Limiters : LetThrough(l) = {} /\ RefusedBy(l) = {}
  BY <1>1 DEF LetThrough, RefusedBy
<1>4. IsFiniteSet({}) /\ Cardinality({}) = 0
  BY FS_EmptySet
<1>5. TallyTypes
  <2>1. \A l \in Limiters : /\ DOMAIN tally[l] \subseteq Clients /\ IsFiniteSet(DOMAIN tally[l])
                            /\ \A c \in DOMAIN tally[l] : FALSE
    BY <1>1, <1>4
  <2>2. \A l \in Limiters : /\ forgotten[l] \in [Clients -> [times : Nat, since : Nat]]
                            /\ \A c \in Clients : forgotten[l][c].since <= clock
    BY <1>1
  <2> QED
    BY <2>1, <2>2 DEF TallyTypes, LimiterTypes
<1>6. BodiesSoFar /\ BodiesAreBounded
  BY <1>1 DEF BodiesSoFar, BodiesAreBounded
<1>7. Used /\ RefusalIsEarned
  <2>1. Used
    BY <1>1 DEF Used
  <2>2. RefusalIsEarned
    BY <1>3 DEF RefusalIsEarned
  <2> QED
    BY <2>1, <2>2
<1>8. ASSUME NEW l \in Limiters, NEW c \in Clients, NEW t \in Nat
      PROVE  SpentIn(l, c, t)
  <2>1. Within(l, c, t, t + Window) = {}
    BY <1>3 DEF Within
  <2>2. Limit[l] \in Nat /\ Limit[l] >= 1
    BY LimitPositive
  <2>3. forgotten[l][c].times = 0 /\ c \notin DOMAIN tally[l]
    BY <1>1
  <2>4. SpentIn(l, c, t) <=> Cardinality({}) < (1 + 0) * Limit[l]
    BY <2>1, <2>3 DEF SpentIn
  <2> QED
    BY <1>4, <2>2, <2>4
<1>9. MemoryIsBounded
  <2>1. \A l \in Limiters : /\ Cardinality(DOMAIN tally[l]) = 0
                            /\ \A c \in Clients : forgotten[l][c].times = 0
    BY <1>1, <1>4
  <2>2. MaxTracked \in Nat /\ 0 <= MaxTracked
    BY RequestLimitsAssumption
  <2>3. \A l \in Limiters : ~\E c \in Clients : forgotten[l][c].times > 0
    BY <2>1
  <2>4. \A l \in Limiters : \A c \in Clients, d \in DOMAIN tally[l] :
            forgotten[l][c].since <= tally[l][d].since
    BY <1>1
  <2> QED
    BY <2>1, <2>2, <2>3, <2>4 DEF MemoryIsBounded
<1> QED
  BY <1>2, <1>5, <1>6, <1>7, <1>8, <1>9 DEF LimitsInv, Spent

LEMMA LimitsInvSuffices == LimitsInv => LimitsAreKept
<1> SUFFICES ASSUME LimitsInv, NEW l \in Limiters, NEW c \in Clients, NEW t \in 0..clock
             PROVE  Cardinality(Within(l, c, t, t + Window)) < (2 + forgotten[l][c].times) * Limit[l]
  BY DEF LimitsInv, LimitsAreKept, LimitsHold
<1> DEFINE n == Cardinality(Within(l, c, t, t + Window))
           one == (1 + forgotten[l][c].times) * Limit[l]
           two == (2 + forgotten[l][c].times) * Limit[l]
<1>1. t \in Nat /\ SpentIn(l, c, t)
  BY DEF LimitsInv, Spent, RequestTypes
<1>2. Limit[l] \in Nat /\ Limit[l] >= 1 /\ forgotten[l][c].times \in Nat
  BY LimitPositive DEF LimitsInv, TallyTypes, LimiterTypes
<1>3. one \in Nat /\ two = one + Limit[l]
  BY <1>2, Products
<1>4. n \in Nat
  BY WithinFinite
<1>5. c \in DOMAIN tally[l] => Left(l, c) \in Nat
  BY <1>2 DEF LimitsInv, TallyTypes, LimiterTypes, Left
<1> HIDE DEF n, one, two
<1>6. \/ c \notin DOMAIN tally[l] /\ n < one
      \/ c \in DOMAIN tally[l] /\ n + Left(l, c) < one
      \/ c \in DOMAIN tally[l] /\ n + (IF clock < t + Window THEN Left(l, c) ELSE 0) < two
  BY <1>1 DEF SpentIn, n, one, two
<1>7. n < two
  BY <1>2, <1>3, <1>4, <1>5, <1>6
<1> QED
  BY <1>7 DEF n, two

\* Theorem (rate_limiting.py:42-72, 94-128, 142-180). Whatever the limits, the numbers of clients
\* and requests and the size of the memory: who is refused has used up its limit within a
\* minute; no minute lets through as much of a client as two windows, and one more for each
\* time it was forgotten; the memory is bounded and forgets the oldest window only; and no
\* body that is larger than the limit is passed on.
THEOREM RequestsAreLimited == LimitsSpec => []LimitsAreKept
<1>1. LimitsSpec => []LimitsInv
  BY LimitsInvInit, LimitsInvStep, PTL DEF LimitsSpec
<1> QED
  BY <1>1, LimitsInvSuffices, PTL

-----------------------------------------------------------------------------
(* The requests that start executions.                                     *)

SiteIds  == DOMAIN KnownSites \cup Starts
Places   == {"waiting", "site", "create", "insert", "committed", "sent", "done", "dead"}
Verdicts == {"none", "invalid", "reused", "conflict", "refused", "unqueued", "started"}
Request  == [at: Places, asked: Asks, since: Nat, seen: SUBSET Starts, site: SiteIds \cup {NoId},
             verdict: Verdicts, execution: Starts \cup {NoId}]

Newest == Cardinality(Starts) + 1

\* The requests, and where each may be.
RequestsTyped ==
    /\ start \in [Starts -> Request] /\ queued \in [Starts -> Nat] /\ lost \in Nat
    /\ \A r \in Starts : /\ start[r].since <= Newest
                         /\ start[r].verdict # "none" => start[r].at = "done"
                         /\ start[r].at = "site" => start[r].asked.route = "real"
                         /\ start[r].at \in {"create", "insert"} =>
                               \/ start[r].site \in DOMAIN sites
                               \/ start[r].site = r /\ start[r].asked.route = "real"
                         /\ start[r].at \in {"create", "insert"} /\ start[r].asked.route = "journey"
                               => start[r].site = start[r].asked.site

\* The committed rows: what refers to a row refers to one that is there, and an
\* execution is what its request asked for.
Ledger ==
    /\ DOMAIN executions \subseteq Starts
    /\ DOMAIN KnownSites \subseteq DOMAIN sites
    /\ DOMAIN sites \subseteq DOMAIN KnownSites \cup DOMAIN executions
    /\ \A w \in DOMAIN sites : sites[w].since \in Nat
    /\ \A i \in DOMAIN runs : runs[i].site \in DOMAIN sites
    /\ \A i \in DOMAIN runs \ DOMAIN KnownRuns :
          /\ i \in DOMAIN executions /\ executions[i].input.run = i
          /\ DOMAIN runs[i] = {"site", "status"}
    /\ \A e \in DOMAIN executions :
          /\ DOMAIN executions[e] = {"project", "key", "input", "since", "status", "dispatched"}
          /\ executions[e].key = start[e].asked.key /\ executions[e].input = Input(e)
          /\ executions[e].project = Project(e) /\ executions[e].since = start[e].since
          /\ start[e].site \in DOMAIN sites
          /\ start[e].asked.route = "generic" \/ e \in DOMAIN runs
          /\ start[e].asked.route = "journey" => start[e].site = start[e].asked.site

\* Whose execution is committed, and how often its message was sent.
Sending ==
    \A r \in Starts :
       /\ start[r].at \in {"waiting", "site", "create", "insert"} => r \notin DOMAIN executions
       /\ start[r].at \in {"committed", "sent"} => r \in DOMAIN executions
       /\ start[r].verdict = "started" => r \in DOMAIN executions /\ start[r].execution = r
       /\ r \notin DOMAIN executions \/ start[r].at = "committed" => queued[r] = 0
       /\ start[r].at = "sent" \/ start[r].verdict = "started" => queued[r] = 1
       /\ start[r].at \in {"committed", "sent"} => executions[r].dispatched = 0
       /\ start[r].verdict = "started" => executions[r].dispatched = 1
       /\ queued[r] <= 1

\* What a request saw of its key when it began.
Mine(r) == {e \in start[r].seen : executions[e].key = start[r].asked.key}
Seeing ==
    \A r \in Starts :
       /\ start[r].seen \subseteq DOMAIN executions
       /\ /\ start[r].asked.route = "real"
          /\ start[r].at \in {"waiting", "site", "create", "insert", "committed", "sent"}
          => Mine(r) = {}

StartInv == RequestsTyped /\ Ledger /\ Sending /\ Seeing /\ AnswersAreMine /\ RetriesAreHeld

LEMMA LeastNatural ==
    ASSUME NEW S \in SUBSET Nat, S # {}
    PROVE  \E m \in S : \A k \in S : m <= k
<1>1. PICK m \in S : \A k \in S : <<k, m>> \notin OpToRel(<, Nat)
  BY WFMin, NatLessThanWellFounded, Zenon
<1>2. \A k \in S : ~(k < m)
  BY <1>1, Zenon DEF OpToRel
<1> QED
  BY <1>2

LEMMA NewestIsNatural == Newest \in Nat
BY ExecutionStartAssumption, FS_CardinalityType DEF Newest

\* The latest of some executions is one of them, and so is the oldest of some websites.
LEMMA LatestIn ==
    ASSUME RequestsTyped, Ledger, NEW es \in SUBSET DOMAIN executions, es # {}
    PROVE  Latest(es) \in es
<1> DEFINE age(e) == Newest - executions[e].since
           ages == {age(e) : e \in es}
<1>1. \A e \in es : executions[e].since \in Nat /\ executions[e].since <= Newest
  BY DEF RequestsTyped, Ledger, Request
<1>2. ages \in SUBSET Nat /\ ages # {}
  BY <1>1, NewestIsNatural
<1>3. PICK m \in ages : \A k \in ages : m <= k
  BY <1>2, LeastNatural
<1>4. PICK e \in es : \A f \in es : age(e) <= age(f)
  BY <1>3
<1>5. \A f \in es : executions[e].since >= executions[f].since
  BY <1>1, <1>4, NewestIsNatural
<1> QED
  BY <1>5 DEF Latest

LEMMA OldestIn ==
    ASSUME Ledger, NEW ws \in SUBSET DOMAIN sites, ws # {}
    PROVE  Oldest(ws) \in ws
<1> DEFINE ages == {sites[w].since : w \in ws}
<1>1. ages \in SUBSET Nat /\ ages # {}
  BY DEF Ledger
<1>2. PICK m \in ages : \A k \in ages : m <= k
  BY <1>1, LeastNatural
<1>3. PICK w \in ws : \A v \in ws : sites[w].since <= sites[v].since
  BY <1>2
<1> QED
  BY <1>3 DEF Oldest

\* The number of a request that begins.
LEMMA ArrivalIsCounted ==
    1 + Cardinality({q \in Starts : start[q].since > 0}) \in 1..Newest
<1> DEFINE begun == {q \in Starts : start[q].since > 0}
<1>1. IsFiniteSet(begun) /\ Cardinality(begun) <= Cardinality(Starts)
  BY ExecutionStartAssumption, FS_Subset
<1>2. Cardinality(begun) \in Nat /\ Cardinality(Starts) \in Nat
  BY <1>1, ExecutionStartAssumption, FS_CardinalityType
<1> QED
  BY <1>1, <1>2 DEF Newest

-----------------------------------------------------------------------------
(* What a step of a request does to the rows.                               *)

Step(r) ==
    \/ LookUp(r) \/ FindSite(r) \/ CreateLookup(r) \/ CommitExecution(r)
    \/ SendMessage(r) \/ SendFails(r) \/ RecordDispatch(r) \/ RequestDies(r)

Inserts(r) == CommitExecution(r) /\ Keyed(r, {Project(r)}) = {}

\* Only the commit of an execution adds rows, and the one it adds was not there.
LEMMA InsertAdds ==
    ASSUME StartInv, NEW r \in Starts, Inserts(r)
    PROVE  /\ InsertExecution(r) /\ start[r].at = "insert" /\ UNCHANGED <<queued, lost>>
           /\ start' = [start EXCEPT ![r].at = "committed"]
           /\ r \notin DOMAIN executions /\ r \notin DOMAIN runs
           /\ start[r].site \in DOMAIN sites \/ (start[r].site = r /\ r \notin DOMAIN sites)
<1>1. /\ InsertExecution(r) /\ start[r].at = "insert" /\ UNCHANGED <<queued, lost>>
      /\ start' = [start EXCEPT ![r].at = "committed"]
  BY DEF Inserts, CommitExecution, GoTo
<1>2. r \notin DOMAIN executions
  BY <1>1 DEF StartInv, Sending
<1>3. r \notin DOMAIN runs
  BY <1>2, ExecutionStartAssumption DEF StartInv, Ledger
<1>4. start[r].site \in DOMAIN sites \cup {r}
  BY <1>1 DEF StartInv, RequestsTyped
<1> QED
  BY <1>1, <1>2, <1>3, <1>4

\* Every other step leaves the rows alone, or records what became of the message.
LEMMA OtherStepsMark ==
    ASSUME StartInv, NEW r \in Starts, Step(r), ~Inserts(r)
    PROVE  /\ UNCHANGED sites
           /\ \/ UNCHANGED <<runs, executions>>
              \/ /\ start[r].at \in {"committed", "sent"} /\ r \in DOMAIN executions
                 /\ \/ executions' = [executions EXCEPT ![r].status = "failed"]
                    \/ executions' = [executions EXCEPT ![r].dispatched = @ + 1]
                 /\ runs' = runs \/ (r \in DOMAIN runs /\ runs' = [runs EXCEPT ![r].status = "failed"])
<1>1. CASE SendFails(r) \/ RecordDispatch(r)
  <2>1. start[r].at \in {"committed", "sent"}
    BY <1>1 DEF SendFails, RecordDispatch
  <2>2. r \in DOMAIN executions
    BY <2>1 DEF StartInv, Sending
  <2> QED
    BY <1>1, <2>1, <2>2 DEF SendFails, RecordDispatch
<1>2. CASE ~(SendFails(r) \/ RecordDispatch(r))
  BY <1>2 DEF Step, Inserts, LookUp, FindSite, CreateLookup, CommitExecution, SendMessage,
              RequestDies, store
<1> QED
  BY <1>1, <1>2

\* Nothing that was committed is taken back.
LEMMA RowsStay ==
    ASSUME StartInv, NEW r \in Starts, Step(r)
    PROVE  /\ DOMAIN sites \subseteq DOMAIN sites'
           /\ \A w \in DOMAIN sites : sites'[w] = sites[w]
           /\ DOMAIN runs \subseteq DOMAIN runs'
           /\ \A i \in DOMAIN runs : /\ runs'[i].site = runs[i].site
                                     /\ i \notin DOMAIN KnownRuns => DOMAIN runs'[i] = DOMAIN runs[i]
           /\ DOMAIN executions \subseteq DOMAIN executions'
           /\ \A e \in DOMAIN executions :
                 /\ DOMAIN executions'[e] = DOMAIN executions[e]
                 /\ executions'[e].key = executions[e].key
                 /\ executions'[e].project = executions[e].project
                 /\ executions'[e].input = executions[e].input
                 /\ executions'[e].since = executions[e].since
                 /\ e # r => executions'[e] = executions[e]
           /\ ~Inserts(r) => /\ DOMAIN executions' = DOMAIN executions
                             /\ DOMAIN runs' = DOMAIN runs /\ sites' = sites
<1>1. CASE Inserts(r)
  <2>1. /\ InsertExecution(r) /\ r \notin DOMAIN executions /\ r \notin DOMAIN runs
        /\ start[r].site \in DOMAIN sites \/ (start[r].site = r /\ r \notin DOMAIN sites)
    BY <1>1, InsertAdds
  <2>3. /\ DOMAIN executions \subseteq DOMAIN executions'
        /\ \A e \in DOMAIN executions : executions'[e] = executions[e]
    BY <2>1 DEF InsertExecution, Add
  <2>4. /\ DOMAIN runs \subseteq DOMAIN runs'
        /\ \A i \in DOMAIN runs : runs'[i] = runs[i]
    BY <2>1 DEF InsertExecution, Add
  <2>5. /\ DOMAIN sites \subseteq DOMAIN sites'
        /\ \A w \in DOMAIN sites : sites'[w] = sites[w]
    BY <2>1 DEF InsertExecution, Add
  <2> QED
    BY <1>1, <2>3, <2>4, <2>5
<1>2. CASE ~Inserts(r)
  <2>1. CASE UNCHANGED <<runs, executions>>
    BY <1>2, <2>1, OtherStepsMark
  <2>2. CASE ~UNCHANGED <<runs, executions>>
    <3>1. /\ r \in DOMAIN executions
          /\ \/ executions' = [executions EXCEPT ![r].status = "failed"]
             \/ executions' = [executions EXCEPT ![r].dispatched = @ + 1]
          /\ runs' = runs \/ (r \in DOMAIN runs /\ runs' = [runs EXCEPT ![r].status = "failed"])
      BY <1>2, <2>2, OtherStepsMark
    <3>2. DOMAIN executions[r] = {"project", "key", "input", "since", "status", "dispatched"}
      BY <3>1 DEF StartInv, Ledger
    <3>3. /\ DOMAIN executions' = DOMAIN executions
          /\ \A e \in DOMAIN executions : e # r => executions'[e] = executions[e]
      BY <3>1
    <3>4. /\ DOMAIN executions'[r] = DOMAIN executions[r]
          /\ executions'[r].key = executions[r].key
          /\ executions'[r].project = executions[r].project
          /\ executions'[r].input = executions[r].input
          /\ executions'[r].since = executions[r].since
      BY <3>1, <3>2
    <3>5. /\ DOMAIN runs' = DOMAIN runs
          /\ \A i \in DOMAIN runs : i # r => runs'[i] = runs[i]
      BY <3>1
    <3>6. r \in DOMAIN runs => runs'[r].site = runs[r].site /\ DOMAIN runs'[r] = DOMAIN runs[r]
      <4>1. r \in DOMAIN runs => DOMAIN runs[r] = {"site", "status"}
        BY ExecutionStartAssumption DEF StartInv, Ledger
      <4> QED
        BY <3>1, <4>1
    <3> QED
      BY <1>2, <3>3, <3>4, <3>5, <3>6, OtherStepsMark
  <2> QED
    BY <2>1, <2>2
<1> QED
  BY <1>1, <1>2

-----------------------------------------------------------------------------
(* How a request moves.                                                     *)

\* What the lookup of a route finds: the request is refused, answered with an
\* execution of its key that matches, refused for one that does not, or goes on.
LEMMA LookUpFinds ==
    ASSUME StartInv, NEW r \in Starts, LookUp(r)
    PROVE  /\ start[r].at = "waiting" /\ UNCHANGED <<store, queued, lost>>
           /\ start' = [start EXCEPT ![r] = start'[r]] /\ start'[r] \in Request
           /\ start'[r].asked = start[r].asked /\ start'[r].seen = DOMAIN executions
           /\ start'[r].since \in 1..Newest
           /\ \/ /\ start'[r].at = "done" /\ start'[r].verdict = "invalid"
                 /\ start[r].asked.route # "real"
              \/ /\ start'[r].at = "done" /\ start'[r].verdict = "reused"
                 /\ start'[r].execution \in Retained(r) /\ Matches(r, start'[r].execution)
              \/ /\ start'[r].at = "done" /\ start'[r].verdict = "conflict"
                 /\ \E e \in Retained(r) : ~Matches(r, e)
              \/ /\ start'[r].at = "site" /\ start'[r].verdict = "none"
                 /\ start[r].asked.route = "real" /\ Retained(r) = {}
              \/ /\ start'[r].at = "create" /\ start'[r].verdict = "none"
                 /\ start[r].asked.route # "real" /\ start'[r].site \in DOMAIN sites
                 /\ start[r].asked.route = "journey" => start'[r].site = start[r].asked.site
<1> DEFINE n == 1 + Cardinality({q \in Starts : start[q].since > 0})
           begun == [start[r] EXCEPT !.since = n, !.seen = DOMAIN executions]
           ends(v, e) == [begun EXCEPT !.at = "done", !.verdict = v, !.execution = e]
           latest == Latest(Retained(r))
           route == start[r].asked.route
<1>1. /\ start[r] \in Request /\ n \in 1..Newest /\ n \in Nat /\ DOMAIN executions \subseteq Starts
      /\ start[r].asked \in Asks /\ route \in Routes
      /\ start[r].at = "waiting" /\ start[r].verdict = "none"
      /\ UNCHANGED <<store, queued, lost>>
  BY ArrivalIsCounted, NewestIsNatural, ExecutionStartAssumption
     DEF LookUp, StartInv, RequestsTyped, Ledger, Request
<1>2. start' = [start EXCEPT ![r] =
            IF ~InScope(r) THEN ends("invalid", NoId)
            ELSE IF Retained(r) # {}
                 THEN IF Matches(r, latest) THEN ends("reused", latest)
                      ELSE ends("conflict", NoId)
            ELSE IF route = "real" THEN [begun EXCEPT !.at = "site"]
            ELSE [begun EXCEPT !.at = "create", !.site = AskedSite(r)]]
  BY DEF LookUp, Arrived
<1>3. Retained(r) \in SUBSET DOMAIN executions /\ (Retained(r) # {} => latest \in Retained(r))
  <2>1. Retained(r) \in SUBSET DOMAIN executions
    BY DEF Retained, Keyed
  <2> QED
    BY <2>1, LatestIn DEF StartInv
<1>4. InScope(r) /\ route # "real" =>
         /\ AskedSite(r) \in DOMAIN sites
         /\ route = "journey" => AskedSite(r) = start[r].asked.site
  <2>1. CASE route = "reanalysis"
    BY <2>1 DEF InScope, AskedSite, StartInv, Ledger
  <2>2. CASE route \in {"journey", "generic"}
    BY <2>2 DEF InScope, AskedSite
  <2> QED
    BY <1>1, <2>1, <2>2 DEF Routes
<1>5. ~InScope(r) => route # "real"
  BY DEF InScope
<1>6. DOMAIN sites \subseteq SiteIds
  BY <1>1 DEF StartInv, Ledger, SiteIds
<1> HIDE DEF n
<1>7. /\ begun \in Request /\ begun.asked = start[r].asked /\ begun.since = n
      /\ begun.seen = DOMAIN executions /\ begun.verdict = "none"
  BY <1>1 DEF Request
<1> HIDE DEF begun
<1>8. \A v \in Verdicts, e \in Starts \cup {NoId} :
         /\ ends(v, e) \in Request /\ ends(v, e).asked = start[r].asked /\ ends(v, e).since = n
         /\ ends(v, e).seen = DOMAIN executions /\ ends(v, e).at = "done"
         /\ ends(v, e).verdict = v /\ ends(v, e).execution = e
  BY <1>7 DEF Request, Places
<1> HIDE DEF ends, latest
<1>9. start' = [start EXCEPT ![r] = start'[r]] /\ r \in DOMAIN start
  BY <1>2 DEF StartInv, RequestsTyped
<1>10. CASE ~InScope(r)
  BY <1>1, <1>2, <1>5, <1>8, <1>9, <1>10 DEF Verdicts
<1>11. CASE InScope(r) /\ Retained(r) # {}
  <2>1. latest \in Starts
    BY <1>1, <1>3, <1>11
  <2>2. CASE Matches(r, latest)
    <3>1. start'[r] = ends("reused", latest)
      BY <1>2, <1>9, <1>11, <2>2
    <3> QED
      BY <1>1, <1>3, <1>8, <1>9, <1>11, <2>1, <2>2, <3>1 DEF Verdicts
  <2>3. CASE ~Matches(r, latest)
    <3>1. start'[r] = ends("conflict", NoId)
      BY <1>2, <1>9, <1>11, <2>3
    <3> QED
      BY <1>1, <1>3, <1>8, <1>9, <1>11, <2>1, <2>3, <3>1 DEF Verdicts
  <2> QED
    BY <2>2, <2>3
<1>12. CASE InScope(r) /\ Retained(r) = {} /\ route = "real"
  <2>1. start'[r] = [begun EXCEPT !.at = "site"]
    BY <1>2, <1>9, <1>12
  <2>2. /\ start'[r] \in Request /\ start'[r].asked = begun.asked /\ start'[r].since = n
        /\ start'[r].seen = begun.seen /\ start'[r].verdict = begun.verdict
        /\ start'[r].at = "site"
    BY <1>7, <2>1 DEF Request, Places
  <2> QED
    BY <1>1, <1>7, <1>9, <1>12, <2>2
<1>13. CASE InScope(r) /\ Retained(r) = {} /\ route # "real"
  <2>1. start'[r] = [begun EXCEPT !.at = "create", !.site = AskedSite(r)]
    BY <1>2, <1>9, <1>13
  <2>2. /\ start'[r] \in Request /\ start'[r].asked = begun.asked /\ start'[r].since = n
        /\ start'[r].seen = begun.seen /\ start'[r].verdict = begun.verdict
        /\ start'[r].at = "create" /\ start'[r].site = AskedSite(r)
    BY <1>4, <1>6, <1>7, <1>13, <2>1 DEF Request, Places
  <2> QED
    BY <1>1, <1>4, <1>7, <1>9, <1>13, <2>2
<1> QED
  BY <1>10, <1>11, <1>12, <1>13

\* The steps after the lookup. A request is answered with an execution whose document
\* is its own, or with its own execution.
LEMMA RequestMoves ==
    ASSUME StartInv, NEW r \in Starts, Step(r), ~LookUp(r)
    PROVE  /\ start' = [start EXCEPT ![r] = start'[r]] /\ start'[r] \in Request
           /\ start'[r].asked = start[r].asked /\ start'[r].seen = start[r].seen
           /\ start'[r].since = start[r].since
           /\ start[r].at \notin {"waiting", "done", "dead"} /\ start[r].verdict = "none"
           /\ FindSite(r) \/ start'[r].site = start[r].site
           /\ \/ /\ FindSite(r) /\ start[r].at = "site" /\ start'[r].at = "create"
                 /\ start'[r].verdict = "none" /\ start'[r].site \in DOMAIN sites \cup {r}
              \/ /\ CreateLookup(r) /\ start[r].at = "create" /\ start'[r].at = "insert"
                 /\ start'[r].verdict = "none"
              \/ /\ start[r].at \in {"create", "insert"} /\ start'[r].at = "done"
                 /\ start'[r].verdict = "reused" /\ start'[r].execution \in Keyed(r, {Project(r)})
                 /\ executions[start'[r].execution].input = Input(r) /\ ~Inserts(r)
              \/ /\ start[r].at \in {"create", "insert"} /\ start'[r].at = "done"
                 /\ start'[r].verdict \in {"conflict", "refused"} /\ ~Inserts(r)
              \/ /\ Inserts(r) /\ start[r].at = "insert" /\ start'[r].at = "committed"
                 /\ start'[r].verdict = "none"
              \/ /\ SendMessage(r) /\ start[r].at = "committed" /\ start'[r].at = "sent"
                 /\ start'[r].verdict = "none"
              \/ /\ SendFails(r) /\ start[r].at = "committed" /\ start'[r].at = "done"
                 /\ start'[r].verdict = "unqueued"
              \/ /\ RecordDispatch(r) /\ start[r].at = "sent" /\ start'[r].at = "done"
                 /\ start'[r].verdict = "started" /\ start'[r].execution = r
              \/ /\ RequestDies(r) /\ start'[r].at = "dead" /\ start'[r].verdict = "none"
<1> DEFINE goes(p) == [start[r] EXCEPT !.at = p]
           answers(v, e) == [start[r] EXCEPT !.at = "done", !.verdict = v, !.execution = e]
           rivals == Keyed(r, {Project(r)})
<1>1. start[r] \in Request /\ DOMAIN start = Starts
  BY DEF StartInv, RequestsTyped
<1>2. /\ start[r].at \notin {"waiting", "done", "dead"}
  BY DEF Step, FindSite, CreateLookup, CommitExecution, SendMessage, SendFails, RecordDispatch,
         RequestDies
<1>3. start[r].verdict = "none"
  BY <1>2 DEF StartInv, RequestsTyped
<1>4. \A p \in Places :
         /\ goes(p) \in Request /\ goes(p).at = p /\ goes(p).asked = start[r].asked
         /\ goes(p).seen = start[r].seen /\ goes(p).since = start[r].since
         /\ goes(p).site = start[r].site /\ goes(p).verdict = start[r].verdict
  BY <1>1 DEF Request
<1>5. \A v \in Verdicts, e \in Starts \cup {NoId} :
         /\ answers(v, e) \in Request /\ answers(v, e).at = "done"
         /\ answers(v, e).asked = start[r].asked /\ answers(v, e).seen = start[r].seen
         /\ answers(v, e).since = start[r].since /\ answers(v, e).site = start[r].site
         /\ answers(v, e).verdict = v /\ answers(v, e).execution = e
  BY <1>1 DEF Request, Places
<1>6. rivals \in SUBSET DOMAIN executions /\ DOMAIN executions \subseteq Starts
  BY DEF Keyed, StartInv, Ledger
<1>7. rivals # {} => Latest(rivals) \in rivals /\ Latest(rivals) \in Starts
  BY <1>6, LatestIn DEF StartInv
<1>8. \A p : GoTo(r, p) => start' = [start EXCEPT ![r] = goes(p)]
  BY <1>1 DEF GoTo
<1>9. \A v, e : Answer(r, v, e) => start' = [start EXCEPT ![r] = answers(v, e)]
  BY <1>1 DEF Answer
<1> HIDE DEF goes, answers, rivals
<1>10. CASE FindSite(r)
  <2> DEFINE known == {w \in DOMAIN sites : sites[w].url = start[r].asked.url}
             site == IF known = {} THEN r ELSE Oldest(known)
  <2>1. start' = [start EXCEPT ![r].at = "create", ![r].site = site] /\ start[r].at = "site"
    BY <1>10 DEF FindSite
  <2>2. site \in DOMAIN sites \cup {r}
    BY OldestIn DEF StartInv
  <2>3. site \in SiteIds
    BY <2>2 DEF StartInv, Ledger, SiteIds
  <2> HIDE DEF site
  <2>4. start' = [start EXCEPT ![r] = [start[r] EXCEPT !.at = "create", !.site = site]]
    BY <1>1, <2>1
  <2>5. /\ start' = [start EXCEPT ![r] = start'[r]]
        /\ start'[r] = [start[r] EXCEPT !.at = "create", !.site = site]
    BY <1>1, <2>4
  <2>6. /\ start'[r] \in Request /\ start'[r].at = "create" /\ start'[r].asked = start[r].asked
        /\ start'[r].seen = start[r].seen /\ start'[r].since = start[r].since
        /\ start'[r].site = site /\ start'[r].verdict = start[r].verdict
    BY <1>1, <2>3, <2>5 DEF Request, Places
  <2> QED
    BY <1>2, <1>3, <1>10, <2>1, <2>2, <2>5, <2>6
<1>11. CASE CreateLookup(r) \/ (CommitExecution(r) /\ ~Inserts(r))
  <2>1. start[r].at \in {"create", "insert"}
    BY <1>11 DEF CreateLookup, CommitExecution
  <2>2. \/ CreateLookup(r) /\ start[r].at = "create" /\ GoTo(r, "insert")
        \/ /\ rivals # {} /\ executions[Latest(rivals)].input = Input(r)
           /\ Answer(r, "reused", Latest(rivals))
        \/ \E v \in {"conflict", "refused"} : Answer(r, v, NoId)
    BY <1>11 DEF CreateLookup, CommitExecution, Inserts, Settled, rivals
  <2>3. ~Inserts(r) \/ CreateLookup(r)
    BY <1>11
  <2>4. CreateLookup(r) => ~Inserts(r)
    BY DEF CreateLookup, Inserts, CommitExecution
  <2>5. CASE CreateLookup(r) /\ start[r].at = "create" /\ GoTo(r, "insert")
    <3>1. start' = [start EXCEPT ![r] = goes("insert")] /\ "insert" \in Places
      BY <1>8, <2>5 DEF Places
    <3> QED
      BY <1>1, <1>2, <1>3, <1>4, <2>5, <3>1
  <2>6. CASE /\ rivals # {} /\ executions[Latest(rivals)].input = Input(r)
             /\ Answer(r, "reused", Latest(rivals))
    <3>1. start' = [start EXCEPT ![r] = answers("reused", Latest(rivals))] /\ "reused" \in Verdicts
      BY <1>9, <2>6 DEF Verdicts
    <3>2. start'[r] = answers("reused", Latest(rivals)) /\ start' = [start EXCEPT ![r] = start'[r]]
      BY <1>1, <3>1
    <3>3. start'[r].execution \in rivals /\ executions[start'[r].execution].input = Input(r)
      BY <1>5, <1>7, <2>6, <3>1, <3>2
    <3>4. start'[r].execution \in Keyed(r, {Project(r)})
      BY <3>3 DEF rivals
    <3>5. /\ start'[r] \in Request /\ start'[r].at = "done" /\ start'[r].verdict = "reused"
          /\ start'[r].asked = start[r].asked /\ start'[r].seen = start[r].seen
          /\ start'[r].since = start[r].since /\ start'[r].site = start[r].site
      BY <1>5, <1>7, <2>6, <3>1, <3>2
    <3> QED
      BY <1>2, <1>3, <2>1, <2>3, <2>4, <3>2, <3>3, <3>4, <3>5
  <2>7. CASE \E v \in {"conflict", "refused"} : Answer(r, v, NoId)
    <3>1. PICK v \in {"conflict", "refused"} : Answer(r, v, NoId)
      BY <2>7
    <3>2. start' = [start EXCEPT ![r] = answers(v, NoId)] /\ v \in Verdicts
      BY <1>9, <3>1 DEF Verdicts
    <3>3. start'[r] = answers(v, NoId) /\ start' = [start EXCEPT ![r] = start'[r]]
      BY <1>1, <3>2
    <3> QED
      BY <1>2, <1>3, <1>5, <2>1, <2>3, <2>4, <3>2, <3>3
  <2> QED
    BY <2>2, <2>5, <2>6, <2>7
<1>12. CASE Inserts(r) \/ SendMessage(r) \/ RequestDies(r)
  <2>1. PICK p \in Places : /\ GoTo(r, p)
                            /\ \/ Inserts(r) /\ start[r].at = "insert" /\ p = "committed"
                               \/ SendMessage(r) /\ start[r].at = "committed" /\ p = "sent"
                               \/ RequestDies(r) /\ p = "dead"
    BY <1>12 DEF Inserts, CommitExecution, SendMessage, RequestDies, Places
  <2>2. start' = [start EXCEPT ![r] = goes(p)]
    BY <1>8, <2>1
  <2>3. start'[r] = goes(p) /\ start' = [start EXCEPT ![r] = start'[r]]
    BY <1>1, <2>2
  <2> QED
    BY <1>2, <1>3, <1>4, <2>1, <2>3
<1>13. CASE SendFails(r) \/ RecordDispatch(r)
  <2>1. PICK v \in Verdicts :
           /\ Answer(r, v, r)
           /\ \/ SendFails(r) /\ start[r].at = "committed" /\ v = "unqueued"
              \/ RecordDispatch(r) /\ start[r].at = "sent" /\ v = "started"
    BY <1>13 DEF SendFails, RecordDispatch, Verdicts
  <2>2. start' = [start EXCEPT ![r] = answers(v, r)]
    BY <1>9, <2>1
  <2>3. start'[r] = answers(v, r) /\ start' = [start EXCEPT ![r] = start'[r]]
    BY <1>1, <2>2
  <2> QED
    BY <1>2, <1>3, <1>5, <2>1, <2>3
<1> QED
  BY <1>10, <1>11, <1>12, <1>13 DEF Step

LEMMA Moved ==
    ASSUME StartInv, NEW r \in Starts, Step(r)
    PROVE  /\ start' \in [Starts -> Request]
           /\ \A q \in Starts : start'[q].asked = start[q].asked
           /\ \A q \in Starts \ {r} : start'[q] = start[q]
           /\ \A q \in Starts : start[q].at \notin {"waiting", "site"} =>
                 /\ start'[q].site = start[q].site /\ start'[q].seen = start[q].seen
                 /\ start'[q].since = start[q].since
           /\ r \in DOMAIN executions' => start[r].at \notin {"waiting", "site"}
<1>1. start \in [Starts -> Request]
  BY DEF StartInv, RequestsTyped
<1>2. start' = [start EXCEPT ![r] = start'[r]] /\ start'[r] \in Request
      /\ start'[r].asked = start[r].asked
  BY LookUpFinds, RequestMoves
<1>3. start' \in [Starts -> Request] /\ \A q \in Starts \ {r} : start'[q] = start[q]
  BY <1>1, <1>2
<1>4. start[r].at \notin {"waiting", "site"} =>
         /\ start'[r].site = start[r].site /\ start'[r].seen = start[r].seen
         /\ start'[r].since = start[r].since
  BY RequestMoves DEF FindSite, LookUp
<1>5. r \in DOMAIN executions' => start[r].at \notin {"waiting", "site"}
  <2>1. CASE Inserts(r)
    BY <2>1, InsertAdds
  <2>2. CASE ~Inserts(r)
    BY <2>2, RowsStay DEF StartInv, Sending
  <2> QED
    BY <2>1, <2>2
<1> QED
  BY <1>2, <1>3, <1>4, <1>5

LEMMA TypedStep ==
    ASSUME StartInv, NEW r \in Starts, Step(r)
    PROVE  RequestsTyped'
<1>1. queued' \in [Starts -> Nat] /\ lost' \in Nat
  BY DEF Step, LookUp, FindSite, CreateLookup, CommitExecution, SendMessage, SendFails,
         RecordDispatch, RequestDies, StartInv, RequestsTyped
<1>2. start'[r].since <= Newest
  <2>1. CASE LookUp(r)
    BY <2>1, LookUpFinds, NewestIsNatural
  <2>2. CASE ~LookUp(r)
    BY <2>2, RequestMoves DEF StartInv, RequestsTyped
  <2> QED
    BY <2>1, <2>2
<1>3. start'[r].verdict # "none" => start'[r].at = "done"
  BY LookUpFinds, RequestMoves
<1>4. start'[r].at = "site" => start'[r].asked.route = "real"
  BY LookUpFinds, RequestMoves
<1>5. ASSUME start'[r].at \in {"create", "insert"}
      PROVE  /\ \/ start'[r].site \in DOMAIN sites'
                \/ start'[r].site = r /\ start'[r].asked.route = "real"
             /\ start'[r].asked.route = "journey" => start'[r].site = start'[r].asked.site
  <2>1. ~Inserts(r)
    <3>1. Inserts(r) => start'[r].at = "committed"
      BY InsertAdds DEF StartInv, RequestsTyped, Request
    <3> QED
      BY <1>5, <3>1
  <2>2. UNCHANGED sites
    BY <2>1, OtherStepsMark
  <2>3. CASE LookUp(r)
    BY <1>5, <2>2, <2>3, LookUpFinds
  <2>4. CASE FindSite(r)
    <3>1. ~LookUp(r) /\ start[r].asked.route = "real" /\ start'[r].asked = start[r].asked
      BY <2>4, RequestMoves DEF FindSite, LookUp, StartInv, RequestsTyped
    <3>2. start'[r].site \in DOMAIN sites \cup {r}
      BY <1>5, <2>4, <3>1, RequestMoves DEF FindSite, CreateLookup
    <3> QED
      BY <2>2, <3>1, <3>2
  <2>5. CASE ~LookUp(r) /\ ~FindSite(r)
    <3>1. /\ start[r].at = "create" /\ start'[r].asked = start[r].asked
          /\ start'[r].site = start[r].site
      BY <1>5, <2>5, RequestMoves
    <3> QED
      BY <2>2, <3>1 DEF StartInv, RequestsTyped
  <2> QED
    BY <2>3, <2>4, <2>5
<1>6. \A q \in Starts \ {r} :
         /\ start'[q] = start[q] /\ DOMAIN sites \subseteq DOMAIN sites'
  BY Moved, RowsStay
<1>7. start' \in [Starts -> Request]
  BY Moved
<1> QED
  BY <1>1, <1>2, <1>3, <1>4, <1>5, <1>6, <1>7 DEF RequestsTyped, StartInv

\* The document of a request that has one, and what it is compared with, stay.
LEMMA InputStays ==
    ASSUME StartInv, NEW r \in Starts, Step(r), NEW q \in Starts,
           start[q].at \notin {"waiting", "site"},
           start[q].site \in DOMAIN sites \/ start[q].asked.route # "reanalysis"
    PROVE  Input(q)' = Input(q)
<1>1. start'[q].asked = start[q].asked /\ start'[q].site = start[q].site
  BY Moved
<1>2. \A w \in DOMAIN sites : sites'[w] = sites[w]
  BY RowsStay
<1> QED
  BY <1>1, <1>2 DEF Input

LEMMA MatchStays ==
    ASSUME StartInv, NEW r \in Starts, Step(r), NEW q \in Starts, NEW e \in DOMAIN executions
    PROVE  Matches(q, e)' = Matches(q, e)
<1>1. start'[q].asked = start[q].asked /\ executions'[e].input = executions[e].input
  BY Moved, RowsStay
<1> QED
  BY <1>1 DEF Matches

\* What the commit adds: the execution, its run and, for a new address, its website.
LEMMA Inserted ==
    ASSUME StartInv, NEW r \in Starts, Inserts(r)
    PROVE  /\ DOMAIN executions' = DOMAIN executions \cup {r}
           /\ executions'[r] = [project |-> Project(r), key |-> start[r].asked.key,
                 input |-> Input(r), since |-> start[r].since, status |-> "pending",
                 dispatched |-> 0]
           /\ DOMAIN sites' = DOMAIN sites \cup {start[r].site}
           /\ start[r].site \notin DOMAIN sites =>
                 start[r].site = r /\ sites'[r].project = r /\ sites'[r].since = start[r].since
           /\ start[r].asked.route = "generic" => runs' = runs
           /\ start[r].asked.route # "generic" =>
                 /\ DOMAIN runs' = DOMAIN runs \cup {r}
                 /\ runs'[r].site = start[r].site /\ DOMAIN runs'[r] = {"site", "status"}
<1>1. /\ InsertExecution(r)
      /\ start[r].site \in DOMAIN sites \/ (start[r].site = r /\ r \notin DOMAIN sites)
  BY InsertAdds
<1>2. /\ DOMAIN executions' = DOMAIN executions \cup {r}
      /\ executions'[r] = [project |-> Project(r), key |-> start[r].asked.key,
            input |-> Input(r), since |-> start[r].since, status |-> "pending", dispatched |-> 0]
  BY <1>1 DEF InsertExecution, Add
<1>3. /\ DOMAIN sites' = DOMAIN sites \cup {start[r].site}
      /\ start[r].site \notin DOMAIN sites =>
            start[r].site = r /\ sites'[r].project = r /\ sites'[r].since = start[r].since
  BY <1>1 DEF InsertExecution, Add
<1>4. /\ start[r].asked.route = "generic" => runs' = runs
      /\ start[r].asked.route # "generic" =>
            /\ DOMAIN runs' = DOMAIN runs \cup {r}
            /\ runs'[r].site = start[r].site /\ DOMAIN runs'[r] = {"site", "status"}
  BY <1>1 DEF InsertExecution, Add
<1> QED
  BY <1>2, <1>3, <1>4

LEMMA LedgerStep ==
    ASSUME StartInv, NEW r \in Starts, Step(r)
    PROVE  Ledger'
<1>1. ASSUME NEW e \in DOMAIN executions
      PROVE  /\ DOMAIN executions'[e] = {"project", "key", "input", "since", "status", "dispatched"}
             /\ executions'[e].key = start'[e].asked.key /\ executions'[e].input = Input(e)'
             /\ executions'[e].project = Project(e)' /\ executions'[e].since = start'[e].since
             /\ start'[e].site \in DOMAIN sites'
             /\ start'[e].asked.route = "generic" \/ e \in DOMAIN runs'
             /\ start'[e].asked.route = "journey" => start'[e].site = start'[e].asked.site
  <2>1. e \in Starts /\ start[e].at \notin {"waiting", "site"} /\ start[e].site \in DOMAIN sites
    BY DEF StartInv, Ledger, Sending
  <2>2. Input(e)' = Input(e)
    BY <2>1, InputStays
  <2>3. /\ start'[e].asked = start[e].asked /\ start'[e].site = start[e].site
        /\ start'[e].since = start[e].since
    BY <2>1, Moved
  <2>4. Project(e)' = Project(e)
    BY <2>1, <2>3, RowsStay DEF Project
  <2> QED
    BY <2>1, <2>2, <2>3, <2>4, RowsStay DEF StartInv, Ledger
<1>2. CASE ~Inserts(r)
  BY <1>1, <1>2, RowsStay DEF StartInv, Ledger
<1>3. CASE Inserts(r)
  <2>1. /\ start[r].at = "insert" /\ r \notin DOMAIN executions /\ r \notin DOMAIN runs
        /\ start'[r].asked = start[r].asked /\ start'[r].site = start[r].site
        /\ start'[r].since = start[r].since
    BY <1>3, InsertAdds, Moved
  <2>2. /\ \/ start[r].site \in DOMAIN sites \/ start[r].asked.route = "real"
        /\ start[r].asked.route = "journey" => start[r].site = start[r].asked.site
        /\ start[r].since \in Nat
    BY <2>1 DEF StartInv, RequestsTyped, Request
  <2>3. Input(r)' = Input(r)
    BY <2>1, <2>2, InputStays
  <2>4. Project(r)' = Project(r)
    <3>1. CASE start[r].site \in DOMAIN sites
      BY <2>1, <3>1, RowsStay DEF Project
    <3>2. CASE start[r].site \notin DOMAIN sites
      BY <1>3, <2>1, <3>2, Inserted DEF Project
    <3> QED
      BY <3>1, <3>2
  <2>5. start[r].asked.route # "generic" => Input(r).run = r
    BY DEF Input
  <2> DEFINE row == [project |-> Project(r), key |-> start[r].asked.key, input |-> Input(r),
                     since |-> start[r].since, status |-> "pending", dispatched |-> 0]
             generic == start[r].asked.route = "generic"
  <2>11. /\ DOMAIN executions' = DOMAIN executions \cup {r} /\ executions'[r] = row
         /\ DOMAIN sites' = DOMAIN sites \cup {start[r].site}
         /\ start[r].site \notin DOMAIN sites =>
               start[r].site = r /\ sites'[r].since = start[r].since
         /\ generic => runs' = runs
         /\ ~generic => /\ DOMAIN runs' = DOMAIN runs \cup {r} /\ runs'[r].site = start[r].site
                        /\ DOMAIN runs'[r] = {"site", "status"}
    BY <1>3, Inserted
  <2>12. /\ \A w \in DOMAIN sites : sites'[w] = sites[w]
         /\ \A i \in DOMAIN runs : runs'[i].site = runs[i].site
         /\ \A i \in DOMAIN runs \ DOMAIN KnownRuns :
               /\ i \in DOMAIN executions' /\ executions'[i].input.run = i
               /\ DOMAIN runs'[i] = {"site", "status"}
    BY RowsStay DEF StartInv, Ledger
  <2>13. /\ row.key = start[r].asked.key /\ row.input = Input(r) /\ row.project = Project(r)
         /\ row.since = start[r].since
         /\ DOMAIN row = {"project", "key", "input", "since", "status", "dispatched"}
    OBVIOUS
  <2> HIDE DEF row, generic
  <2>6. /\ DOMAIN executions'[r] = {"project", "key", "input", "since", "status", "dispatched"}
        /\ executions'[r].key = start'[r].asked.key /\ executions'[r].input = Input(r)'
        /\ executions'[r].project = Project(r)' /\ executions'[r].since = start'[r].since
        /\ start'[r].site \in DOMAIN sites'
        /\ start'[r].asked.route = "generic" \/ r \in DOMAIN runs'
        /\ start'[r].asked.route = "journey" => start'[r].site = start'[r].asked.site
    BY <2>1, <2>2, <2>3, <2>4, <2>11, <2>13 DEF generic
  <2>7. \A w \in DOMAIN sites' : sites'[w].since \in Nat
    BY <2>2, <2>11, <2>12 DEF StartInv, Ledger
  <2>8. \A i \in DOMAIN runs' : runs'[i].site \in DOMAIN sites'
    BY <2>1, <2>11, <2>12 DEF StartInv, Ledger
  <2>9. \A i \in DOMAIN runs' \ DOMAIN KnownRuns :
          /\ i \in DOMAIN executions' /\ executions'[i].input.run = i
          /\ DOMAIN runs'[i] = {"site", "status"}
    <3>1. CASE generic
      BY <2>11, <2>12, <3>1
    <3>2. CASE ~generic
      <4>1. r \in DOMAIN executions' /\ executions'[r].input.run = r
        BY <2>5, <2>11, <2>13, <3>2 DEF generic
      <4>2. DOMAIN runs' = DOMAIN runs \cup {r} /\ DOMAIN runs'[r] = {"site", "status"}
        BY <2>11, <3>2
      <4>3. \A i \in DOMAIN runs \ DOMAIN KnownRuns :
               /\ i \in DOMAIN executions' /\ executions'[i].input.run = i
               /\ DOMAIN runs'[i] = {"site", "status"}
        BY <2>12
      <4> QED
        BY <4>1, <4>2, <4>3
    <3> QED
      BY <3>1, <3>2
  <2>10. /\ DOMAIN executions' \subseteq Starts /\ DOMAIN KnownSites \subseteq DOMAIN sites'
         /\ DOMAIN sites' \subseteq DOMAIN KnownSites \cup DOMAIN executions'
    BY <2>11 DEF StartInv, Ledger
  <2> QED
    BY <1>1, <2>6, <2>7, <2>8, <2>9, <2>10, <2>11 DEF Ledger
<1> QED
  BY <1>2, <1>3

LEMMA SendingStep ==
    ASSUME StartInv, NEW r \in Starts, Step(r)
    PROVE  Sending'
<1>1. \A q \in Starts \ {r} :
         /\ start'[q] = start[q] /\ queued'[q] = queued[q]
         /\ q \in DOMAIN executions' <=> q \in DOMAIN executions
         /\ q \in DOMAIN executions => executions'[q] = executions[q]
  <2>1. \A q \in Starts \ {r} : queued'[q] = queued[q]
    BY DEF Step, LookUp, FindSite, CreateLookup, CommitExecution, SendMessage, SendFails,
           RecordDispatch, RequestDies, StartInv, RequestsTyped
  <2>2. \A q \in Starts \ {r} : q \in DOMAIN executions' <=> q \in DOMAIN executions
    <3>1. CASE Inserts(r)
      <4>1. DOMAIN executions' = DOMAIN executions \cup {r}
        BY <3>1, Inserted
      <4> QED
        BY <4>1
    <3>2. CASE ~Inserts(r)
      BY <3>2, RowsStay
    <3> QED
      BY <3>1, <3>2
  <2> QED
    BY <2>1, <2>2, Moved, RowsStay
<1>2. /\ start'[r].at \in {"waiting", "site", "create", "insert"} => r \notin DOMAIN executions'
      /\ start'[r].at \in {"committed", "sent"} => r \in DOMAIN executions'
      /\ start'[r].verdict = "started" => r \in DOMAIN executions' /\ start'[r].execution = r
      /\ r \notin DOMAIN executions' \/ start'[r].at = "committed" => queued'[r] = 0
      /\ start'[r].at = "sent" \/ start'[r].verdict = "started" => queued'[r] = 1
      /\ start'[r].at \in {"committed", "sent"} => executions'[r].dispatched = 0
      /\ start'[r].verdict = "started" => executions'[r].dispatched = 1
      /\ queued'[r] <= 1
  <2>0. /\ start[r].at \in {"waiting", "site", "create", "insert"} => r \notin DOMAIN executions
        /\ start[r].at \in {"committed", "sent"} => r \in DOMAIN executions
        /\ r \notin DOMAIN executions \/ start[r].at = "committed" => queued[r] = 0
        /\ start[r].at = "sent" => queued[r] = 1
        /\ start[r].at \in {"committed", "sent"} => executions[r].dispatched = 0
        /\ queued[r] \in Nat /\ queued[r] <= 1
    BY DEF StartInv, Sending, RequestsTyped
  <2>1. CASE LookUp(r)
    <3>1. /\ start'[r].at \in {"done", "site", "create"} /\ start'[r].verdict # "started"
          /\ start[r].at = "waiting" /\ UNCHANGED <<executions, queued>>
      BY <2>1, LookUpFinds DEF store
    <3> QED
      BY <2>0, <3>1
  <2>2. CASE FindSite(r) \/ CreateLookup(r) \/ (CommitExecution(r) /\ ~Inserts(r))
    <3>1. /\ start[r].at \in {"site", "create", "insert"} /\ UNCHANGED <<executions, queued>>
          /\ ~LookUp(r) /\ ~Inserts(r) /\ ~SendMessage(r) /\ ~SendFails(r) /\ ~RecordDispatch(r)
      BY <2>2 DEF FindSite, CreateLookup, CommitExecution, Inserts, LookUp, SendMessage, SendFails,
                  RecordDispatch, store
    <3>2. start'[r].at \in {"create", "insert", "done", "dead"} /\ start'[r].verdict # "started"
      BY <3>1, RequestMoves
    <3> QED
      BY <2>0, <3>1, <3>2
  <2>3. CASE Inserts(r)
    <3>1. /\ start[r].at = "insert" /\ start' = [start EXCEPT ![r].at = "committed"]
          /\ UNCHANGED queued
      BY <2>3, InsertAdds
    <3>2. start'[r].at = "committed" /\ start'[r].verdict = start[r].verdict
      BY <3>1 DEF StartInv, RequestsTyped, Request
    <3>3. start[r].verdict # "started"
      BY <3>1 DEF StartInv, RequestsTyped
    <3>4. r \in DOMAIN executions' /\ executions'[r].dispatched = 0
      <4>1. /\ DOMAIN executions' = DOMAIN executions \cup {r}
            /\ executions'[r] = [project |-> Project(r), key |-> start[r].asked.key,
                  input |-> Input(r), since |-> start[r].since, status |-> "pending",
                  dispatched |-> 0]
        BY <2>3, Inserted
      <4> QED
        BY <4>1
    <3> QED
      BY <2>0, <3>1, <3>2, <3>3, <3>4
  <2>4. CASE SendMessage(r)
    <3>1. /\ start[r].at = "committed" /\ queued' = [queued EXCEPT ![r] = @ + 1]
          /\ UNCHANGED executions /\ start' = [start EXCEPT ![r].at = "sent"]
      BY <2>4 DEF SendMessage, GoTo, store
    <3>2. start'[r].at = "sent" /\ start'[r].verdict = start[r].verdict
      BY <3>1 DEF StartInv, RequestsTyped, Request
    <3>3. start[r].verdict # "started"
      BY <3>1 DEF StartInv, RequestsTyped
    <3>4. queued'[r] = queued[r] + 1
      BY <3>1 DEF StartInv, RequestsTyped
    <3> QED
      BY <2>0, <3>1, <3>2, <3>3, <3>4
  <2>5. CASE SendFails(r)
    <3>1. PICK n \in {0, 1} : queued' = [queued EXCEPT ![r] = @ + n]
      BY <2>5 DEF SendFails
    <3>2. start[r].at = "committed" /\ DOMAIN executions' = DOMAIN executions
      BY <2>5 DEF SendFails
    <3>3. start'[r].at = "done" /\ start'[r].verdict = "unqueued"
      BY <2>5 DEF SendFails, Answer, StartInv, RequestsTyped, Request
    <3>4. queued'[r] = queued[r] + n
      BY <3>1 DEF StartInv, RequestsTyped
    <3> QED
      BY <2>0, <3>1, <3>2, <3>3, <3>4
  <2>6. CASE RecordDispatch(r)
    <3>1. /\ start[r].at = "sent" /\ UNCHANGED queued
          /\ executions' = [executions EXCEPT ![r].dispatched = @ + 1]
      BY <2>6 DEF RecordDispatch
    <3>2. start'[r].at = "done" /\ start'[r].verdict = "started" /\ start'[r].execution = r
      BY <2>6 DEF RecordDispatch, Answer, StartInv, RequestsTyped, Request
    <3>3. r \in DOMAIN executions' /\ executions'[r].dispatched = 1
      <4>1. /\ r \in DOMAIN executions /\ executions[r].dispatched = 0
            /\ DOMAIN executions[r]
                 = {"project", "key", "input", "since", "status", "dispatched"}
        BY <2>0, <3>1 DEF StartInv, Ledger
      <4> QED
        BY <3>1, <4>1
    <3> QED
      BY <2>0, <3>1, <3>2, <3>3
  <2>7. CASE RequestDies(r)
    <3>1. UNCHANGED <<executions, queued>> /\ start' = [start EXCEPT ![r].at = "dead"]
          /\ start[r].at # "done"
      BY <2>7 DEF RequestDies, GoTo, store
    <3>2. start'[r].at = "dead" /\ start'[r].verdict = start[r].verdict
      BY <3>1 DEF StartInv, RequestsTyped, Request
    <3>3. start[r].verdict # "started"
      BY <3>1 DEF StartInv, RequestsTyped
    <3> QED
      BY <2>0, <3>1, <3>2, <3>3
  <2> QED
    BY <2>1, <2>2, <2>3, <2>4, <2>5, <2>6, <2>7 DEF Step
<1> QED
  BY <1>1, <1>2 DEF Sending, StartInv

\* What a request saw of its key does not change once it has looked, whatever is committed.
LEMMA MineStays ==
    ASSUME StartInv, NEW r \in Starts, Step(r), NEW q \in Starts
    PROVE  ~(q = r /\ LookUp(r)) => Mine(q)' = Mine(q)
<1> SUFFICES ASSUME ~(q = r /\ LookUp(r)) PROVE Mine(q)' = Mine(q)
  OBVIOUS
<1>1. start'[q].seen = start[q].seen /\ start'[q].asked = start[q].asked
  BY Moved, RequestMoves
<1>2. \A e \in start[q].seen : executions'[e].key = executions[e].key
  BY RowsStay DEF StartInv, Seeing
<1> QED
  BY <1>1, <1>2 DEF Mine

\* A real start compares with everything of its key there is.
LEMMA MineLooked ==
    ASSUME StartInv, NEW r \in Starts, LookUp(r)
    PROVE  /\ start'[r].seen = DOMAIN executions /\ UNCHANGED executions
           /\ start[r].asked.route = "real" => Mine(r)' = Retained(r)
<1>1. /\ start'[r].seen = DOMAIN executions /\ UNCHANGED executions
      /\ start'[r].asked = start[r].asked
  BY LookUpFinds DEF store
<1>2. start[r].asked.route = "real" => Retained(r) = Keyed(r, Projects)
  BY DEF Retained
<1>3. Keyed(r, Projects) = {e \in DOMAIN executions : executions[e].key = start[r].asked.key}
  BY DEF Keyed, Projects
<1> QED
  BY <1>1, <1>2, <1>3 DEF Mine

LEMMA SeeingStep ==
    ASSUME StartInv, NEW r \in Starts, Step(r)
    PROVE  Seeing'
<1> SUFFICES ASSUME NEW q \in Starts
             PROVE  /\ start'[q].seen \subseteq DOMAIN executions'
                    /\ /\ start'[q].asked.route = "real"
                       /\ start'[q].at \in {"waiting", "site", "create", "insert", "committed", "sent"}
                       => Mine(q)' = {}
  BY DEF Seeing
<1>1. CASE q = r /\ LookUp(r)
  <2>1. start'[r].seen = DOMAIN executions /\ UNCHANGED executions
    BY <1>1, MineLooked
  <2>2. ASSUME start'[r].asked.route = "real",
               start'[r].at \in {"waiting", "site", "create", "insert", "committed", "sent"}
        PROVE  Mine(r)' = {}
    <3>1. start[r].asked.route = "real" /\ Retained(r) = {}
      BY <1>1, <2>2, LookUpFinds
    <3> QED
      BY <1>1, <3>1, MineLooked
  <2> QED
    BY <1>1, <2>1, <2>2
<1>2. CASE ~(q = r /\ LookUp(r))
  <2>1. Mine(q)' = Mine(q) /\ start'[q].seen = start[q].seen /\ start'[q].asked = start[q].asked
    BY <1>2, MineStays, Moved, RequestMoves
  <2>2. start'[q].seen \subseteq DOMAIN executions'
    BY <2>1, RowsStay DEF StartInv, Seeing
  <2>3. start'[q].at \in {"waiting", "site", "create", "insert", "committed", "sent"}
          => start[q].at \in {"waiting", "site", "create", "insert", "committed", "sent"}
    BY <1>2, Moved, RequestMoves
  <2> QED
    BY <2>1, <2>2, <2>3 DEF StartInv, Seeing
<1> QED
  BY <1>1, <1>2

-----------------------------------------------------------------------------
(* What a client may conclude.                                              *)

\* The rows an execution refers to are there.
LEMMA Referred ==
    Ledger => \A e \in DOMAIN executions :
                 /\ executions[e].input.site \in DOMAIN sites
                 /\ executions[e].input.run # NoId => executions[e].input.run \in DOMAIN runs
<1> SUFFICES ASSUME Ledger, NEW e \in DOMAIN executions
             PROVE  /\ executions[e].input.site \in DOMAIN sites
                    /\ executions[e].input.run # NoId => executions[e].input.run \in DOMAIN runs
  OBVIOUS
<1>1. executions[e].input = Input(e) /\ start[e].site \in DOMAIN sites
      /\ (start[e].asked.route = "generic" \/ e \in DOMAIN runs)
  BY DEF Ledger
<1>2. /\ Input(e).site = start[e].site
      /\ Input(e).run = NoId \/ (Input(e).run = e /\ start[e].asked.route # "generic")
  BY DEF Input
<1> QED
  BY <1>1, <1>2

\* A request that inserts rows of its own finds its document nowhere but in its own
\* execution, and that one is what it asked for.
LEMMA OwnDocument ==
    ASSUME StartInv, NEW r \in Starts, start[r].asked.route # "generic"
    PROVE  /\ \A e \in DOMAIN executions : executions[e].input = Input(r) => e = r
           /\ r \in DOMAIN executions => Matches(r, r)
<1>1. Input(r).run = r /\ r # NoId
  BY ExecutionStartAssumption DEF Input
<1>2. \A e \in DOMAIN executions : Input(e).run \in {NoId, e} /\ executions[e].input = Input(e)
  BY DEF Input, StartInv, Ledger
<1>3. \A e \in DOMAIN executions : executions[e].input = Input(r) => e = r
  BY <1>1, <1>2
<1>4. ASSUME r \in DOMAIN executions PROVE Matches(r, r)
  <2>1. executions[r].input = Input(r)
        /\ (start[r].asked.route = "journey" => start[r].site = start[r].asked.site)
    BY <1>4 DEF StartInv, Ledger
  <2>2. CASE start[r].asked.route = "real"
    <3>1. Input(r).run = r /\ Input(r).url = start[r].asked.url /\ Input(r).discovery = r
      BY <2>2 DEF Input
    <3> QED
      BY <1>1, <2>1, <2>2, <3>1 DEF Matches
  <2>3. CASE start[r].asked.route = "journey"
    <3>1. Input(r).run = r /\ Input(r).site = start[r].site
      BY <2>3 DEF Input
    <3> QED
      BY <1>1, <2>1, <2>3, <3>1 DEF Matches
  <2>4. CASE start[r].asked.route = "reanalysis"
    <3>1. /\ Input(r).run = r /\ Input(r).baseline = start[r].asked.baseline
          /\ Input(r).settings = start[r].asked.settings
      BY <2>4 DEF Input
    <3> QED
      BY <1>1, <2>1, <2>4, <3>1 DEF Matches
  <2>5. CASE start[r].asked.route \notin {"real", "journey", "reanalysis"}
    BY <1>1, <2>1, <2>5 DEF Matches
  <2> QED
    BY <2>2, <2>3, <2>4, <2>5
<1> QED
  BY <1>3, <1>4

LEMMA AnswersStep ==
    ASSUME StartInv, NEW r \in Starts, Step(r)
    PROVE  AnswersAreMine'
<1> DEFINE mine(q, e) ==
      /\ e \in DOMAIN executions /\ executions[e].key = start[q].asked.key
      /\ IF start[q].asked.route = "generic" THEN executions[e].input = Input(q) ELSE Matches(q, e)
<1>0. Ledger'
  BY LedgerStep
<1>1. (\A e \in DOMAIN executions :
           /\ executions[e].input.site \in DOMAIN sites
           /\ executions[e].input.run # NoId => executions[e].input.run \in DOMAIN runs)'
  BY <1>0, Referred, PTL
<1>2. SUFFICES ASSUME NEW q \in Starts, start'[q].verdict \in {"started", "reused"}
               PROVE  mine(q, start[q].execution)'
  <2>1. \A q \in Starts : start'[q].verdict \in {"started", "reused"}
                             => mine(q, start[q].execution)'
    BY <1>2
  <2> QED
    BY <1>1, <2>1 DEF AnswersAreMine
\* What was its own stays its own.
<1>3. ASSUME NEW e \in DOMAIN executions, mine(q, e), start[q].at \notin {"waiting", "site"}
      PROVE  mine(q, e)'
  <2>1. /\ e \in DOMAIN executions' /\ executions'[e].key = executions[e].key
        /\ executions'[e].input = executions[e].input /\ start'[q].asked = start[q].asked
        /\ Matches(q, e)' = Matches(q, e)
    BY MatchStays, Moved, RowsStay
  <2>2. CASE start[q].asked.route = "generic"
    <3>1. Input(q)' = Input(q)
      BY <1>3, <2>2, InputStays
    <3> QED
      BY <1>3, <2>1, <2>2, <3>1
  <2>3. CASE start[q].asked.route # "generic"
    BY <1>3, <2>1, <2>3
  <2> QED
    BY <2>2, <2>3
<1>4. CASE q # r
  <2>1. start'[q] = start[q]
    BY <1>4, Moved
  <2>2. start[q].at = "done" /\ mine(q, start[q].execution)
    BY <1>2, <2>1 DEF StartInv, RequestsTyped, AnswersAreMine
  <2> QED
    BY <1>3, <2>1, <2>2
<1>5. CASE q = r /\ LookUp(r)
  <2>1. PICK e : e = start'[r].execution /\ e \in Retained(r) /\ Matches(r, e)
    BY <1>2, <1>5, LookUpFinds
  <2>2. /\ start[r].asked.route # "generic" /\ e \in DOMAIN executions
        /\ executions[e].key = start[r].asked.key
    BY <2>1 DEF Retained, Keyed
  <2>3. Matches(r, e)' = Matches(r, e)
    BY <2>2, MatchStays
  <2>4. /\ e \in DOMAIN executions' /\ executions'[e].key = executions[e].key
        /\ start'[r].asked = start[r].asked
    BY <2>2, Moved, RowsStay
  <2> QED
    BY <1>5, <2>1, <2>2, <2>3, <2>4
<1>6. CASE q = r /\ ~LookUp(r)
  <2>1. PICK e : /\ e = start'[r].execution
                 /\ \/ /\ start[r].at \in {"create", "insert"} /\ e \in Keyed(r, {Project(r)})
                       /\ executions[e].input = Input(r)
                    \/ RecordDispatch(r) /\ start[r].at = "sent" /\ e = r
    BY <1>2, <1>6, RequestMoves
  <2>2. CASE /\ start[r].at \in {"create", "insert"} /\ e \in Keyed(r, {Project(r)})
             /\ executions[e].input = Input(r)
    <3>1. e \in DOMAIN executions /\ executions[e].key = start[r].asked.key
      BY <2>2 DEF Keyed
    <3>2. r \notin DOMAIN executions
      BY <2>2 DEF StartInv, Sending
    <3>3. start[r].asked.route = "generic"
      <4>1. executions[e].input = Input(r)
        BY <2>2
      <4>2. start[r].asked.route # "generic" => e = r
        BY <3>1, <4>1, OwnDocument
      <4> QED
        BY <3>1, <3>2, <4>2
    <3>4. mine(r, e)
      BY <2>2, <3>1, <3>3
    <3> QED
      BY <1>3, <1>6, <2>1, <2>2, <3>1, <3>4
  <2>3. CASE RecordDispatch(r) /\ start[r].at = "sent" /\ e = r
    <3>1. r \in DOMAIN executions /\ executions[r].key = start[r].asked.key
          /\ executions[r].input = Input(r)
      BY <2>3 DEF StartInv, Sending, Ledger
    <3>2. mine(r, r)
      BY <3>1, OwnDocument
    <3> QED
      BY <1>3, <1>6, <2>1, <2>3, <3>1, <3>2
  <2> QED
    BY <2>1, <2>2, <2>3
<1> QED
  BY <1>4, <1>5, <1>6

LEMMA RetriesStep ==
    ASSUME StartInv, NEW r \in Starts, Step(r)
    PROVE  RetriesAreHeld'
<1>1. SUFFICES ASSUME NEW q \in Starts
      PROVE  /\ q \in DOMAIN executions' =>
                   /\ \A e \in Mine(q)' : executions'[e].project # executions'[q].project
                   /\ start'[q].asked.route = "real" => Mine(q)' = {}
             /\ /\ start'[q].asked.route = "real" /\ start'[q].verdict # "none" /\ Mine(q)' # {}
                => \/ start'[q].verdict = "reused"
                   \/ \E e \in Mine(q)' : ~Matches(q, e)'
  BY <1>1 DEF RetriesAreHeld, Mine
<1>2. \A e \in DOMAIN executions : executions'[e].project = executions[e].project
  BY RowsStay
<1>3. Mine(q) \in SUBSET DOMAIN executions
  BY DEF Mine, StartInv, Seeing
<1>4. start'[q].asked = start[q].asked
  BY Moved
<1>5. ~(q = r /\ LookUp(r)) => Mine(q)' = Mine(q)
  BY MineStays
<1>6. ASSUME q \in DOMAIN executions'
      PROVE  /\ \A e \in Mine(q)' : executions'[e].project # executions'[q].project
             /\ start'[q].asked.route = "real" => Mine(q)' = {}
  <2>1. Mine(q)' = Mine(q)
    BY <1>5, <1>6, Moved DEF LookUp
  <2>2. CASE q \in DOMAIN executions
    <3>1. /\ \A e \in Mine(q) : executions[e].project # executions[q].project
          /\ start[q].asked.route = "real" => Mine(q) = {}
      BY <2>2 DEF StartInv, RetriesAreHeld, Mine
    <3> QED
      BY <1>2, <1>3, <1>4, <2>1, <2>2, <3>1
  <2>3. CASE q \notin DOMAIN executions
    <3>1. q = r /\ Inserts(r)
      <4>1. ~Inserts(r) => DOMAIN executions' = DOMAIN executions
        BY RowsStay
      <4>2. Inserts(r) => DOMAIN executions' = DOMAIN executions \cup {r}
        BY Inserted
      <4> QED
        BY <1>6, <2>3, <4>1, <4>2
    <3>2. executions'[r].project = Project(r)
      <4>1. executions'[r] = [project |-> Project(r), key |-> start[r].asked.key,
                 input |-> Input(r), since |-> start[r].since, status |-> "pending",
                 dispatched |-> 0]
        BY <3>1, Inserted
      <4> QED
        BY <4>1
    <3>3. \A e \in DOMAIN executions :
             executions[e].key = start[r].asked.key => executions[e].project # Project(r)
      BY <3>1 DEF Inserts, Keyed
    <3>4. \A e \in Mine(r) : executions'[e].project # executions'[r].project
      BY <1>2, <1>3, <3>1, <3>2, <3>3 DEF Mine
    <3>5. start[r].asked.route = "real" => Mine(r) = {}
      BY <3>1, InsertAdds DEF StartInv, Seeing
    <3> QED
      BY <1>4, <2>1, <3>1, <3>4, <3>5
  <2> QED
    BY <2>2, <2>3
<1>7. ASSUME start'[q].asked.route = "real", start'[q].verdict # "none", Mine(q)' # {}
      PROVE  \/ start'[q].verdict = "reused"
             \/ \E e \in Mine(q)' : ~Matches(q, e)'
  <2>1. \A e \in DOMAIN executions : Matches(q, e)' = Matches(q, e)
    BY MatchStays
  <2>2. CASE q # r
    <3>1. start'[q] = start[q] /\ Mine(q)' = Mine(q)
      BY <1>5, <2>2, Moved
    <3>2. start[q].verdict = "reused" \/ \E e \in Mine(q) : ~Matches(q, e)
      BY <1>7, <3>1 DEF StartInv, RetriesAreHeld, Mine
    <3> QED
      BY <1>3, <2>1, <3>1, <3>2
  <2>3. CASE q = r /\ LookUp(r)
    <3>1. Mine(r)' = Retained(r) /\ start[r].asked.route = "real"
      BY <1>4, <1>7, <2>3, MineLooked
    <3>2. start'[r].verdict = "reused" \/ \E e \in Retained(r) : ~Matches(r, e)
      BY <1>7, <2>3, <3>1, LookUpFinds
    <3>3. Retained(r) \in SUBSET DOMAIN executions
      BY <3>1 DEF Retained, Keyed
    <3> QED
      BY <2>1, <2>3, <3>1, <3>2, <3>3
  <2>4. CASE q = r /\ ~LookUp(r)
    <3>1. start[r].at \notin {"waiting", "done", "dead"} /\ start[r] \in Request
      BY <2>4, RequestMoves DEF StartInv, RequestsTyped
    <3>2. start[r].at \in {"site", "create", "insert", "committed", "sent"}
      BY <3>1 DEF Request, Places
    <3>3. Mine(r) = {}
      BY <1>4, <1>7, <2>4, <3>2 DEF StartInv, Seeing
    <3> QED
      BY <1>5, <1>7, <2>4, <3>3
  <2> QED
    BY <2>2, <2>3, <2>4
<1> QED
  BY <1>6, <1>7

LEMMA StartInvInit == StartInit => StartInv
<1> SUFFICES ASSUME StartInit PROVE StartInv
  OBVIOUS
<1>1. /\ sites = KnownSites /\ runs = KnownRuns /\ executions = << >> /\ lost = 0
      /\ queued = [r \in Starts |-> 0]
  BY DEF StartInit, StartWith
<1>2. PICK asked \in [Starts -> Asks] :
         start = [r \in Starts |->
              [at |-> "waiting", asked |-> asked[r], since |-> 0, seen |-> {}, site |-> NoId,
               verdict |-> "none", execution |-> NoId]]
  BY DEF StartInit, StartWith
<1>3. DOMAIN executions = {}
  BY <1>1
<1>4. start \in [Starts -> Request]
  BY <1>2 DEF Request, Places, Verdicts
<1>5. \A r \in Starts : /\ start[r].at = "waiting" /\ start[r].verdict = "none"
                        /\ start[r].since = 0 /\ start[r].seen = {}
  BY <1>2
<1>6. RequestsTyped
  BY <1>1, <1>4, <1>5, NewestIsNatural DEF RequestsTyped
<1>7. Ledger
  BY <1>1, <1>3, ExecutionStartAssumption DEF Ledger
<1>8. Sending /\ Seeing /\ AnswersAreMine /\ RetriesAreHeld
  <2>1. Sending
    BY <1>1, <1>3, <1>5 DEF Sending
  <2>2. Seeing
    BY <1>5 DEF Seeing, Mine
  <2>3. AnswersAreMine
    BY <1>5 DEF AnswersAreMine
  <2>4. RetriesAreHeld
    BY <1>3, <1>5 DEF RetriesAreHeld
  <2> QED
    BY <2>1, <2>2, <2>3, <2>4
<1> QED
  BY <1>6, <1>7, <1>8 DEF StartInv

LEMMA StartInvNext == StartInv /\ [StartNext]_startVars => StartInv'
<1> SUFFICES ASSUME StartInv, [StartNext]_startVars PROVE StartInv'
  OBVIOUS
<1>1. ASSUME NEW r \in Starts, Step(r) PROVE StartInv'
  BY <1>1, TypedStep, LedgerStep, SendingStep, SeeingStep, AnswersStep, RetriesStep DEF StartInv
<1>2. CASE UNCHANGED startVars
  BY <1>2 DEF startVars, store, StartInv, RequestsTyped, Ledger, Sending, Seeing, Mine,
              AnswersAreMine, RetriesAreHeld, Matches, Input, Project
<1>3. StartNext => \E r \in Starts : Step(r)
  BY DEF StartNext, Step
<1> QED
  BY <1>1, <1>2, <1>3

\* What a client may conclude from its answer, whatever requests race, repeat or die: an
\* execution it is given is committed, of its key and what it asked for; an execution is
\* sent once at the most, and not before it can be read; a retry that begins when the
\* execution of its key can be read creates no other; and a request that is refused or
\* dies leaves nothing.
THEOREM StartsHold == StartSpec => []StartsAreExact
<1>1. StartInv => StartsAreExact
  <2> SUFFICES ASSUME StartInv PROVE StartsAreExact
    OBVIOUS
  <2>1. SentOnce
    <3> SUFFICES ASSUME NEW r \in Starts
                 PROVE  /\ queued[r] <= 1
                        /\ queued[r] = 1 => r \in DOMAIN executions
                        /\ start[r].verdict = "started" =>
                              queued[r] = 1 /\ executions[r].dispatched = 1
      BY DEF SentOnce
    <3> QED
      BY DEF StartInv, Sending
  <2>2. NothingLeftOver
    BY DEF NothingLeftOver, StartInv, Ledger
  <2> QED
    BY <2>1, <2>2 DEF StartsAreExact, StartInv
<1> QED
  BY <1>1, StartInvInit, StartInvNext, PTL DEF StartSpec
=============================================================================
