---------------------------- MODULE RequestLimits ----------------------------
(***************************************************************************)
(* The two limits every request passes before a route (middleware/          *)
(* rate_limiting.py): its body is read up to a number of bytes, and then    *)
(* its client is counted in windows of a minute, once for the requests that *)
(* start an analysis and once for all. The counts are in the memory of the  *)
(* one process and of so many clients at most: for another, the client whose *)
(* window is the oldest is forgotten. Requests wait for their chunks, and   *)
(* others run meanwhile; from the last chunk to the verdict nothing waits.   *)
(***************************************************************************)
EXTENDS Naturals, Sequences, FiniteSets

CONSTANTS
    Arrivals, Clients,
    Sent,           \* what may come as a request: [client, expensive, declared, chunks, cut]
    Limit,          \* of each limiter, in a window
    MaxTracked, MaxBytes,
    Window, MaxTime,    \* in ticks; MaxTime bounds the model, the code's clock runs on
    Unsaid          \* a length that is not declared or not a number

Limiters == {"expensive", "general"}

ASSUME RequestLimitsAssumption ==
    /\ IsFiniteSet(Arrivals)
    /\ Limit \in [Limiters -> Nat \ {0}]
    /\ MaxTracked \in Nat \ {0} /\ MaxBytes \in Nat
    /\ Window \in Nat \ {0} /\ MaxTime \in Nat
    /\ Unsaid \notin Nat
    /\ \A r \in Arrivals :
          Sent[r] \subseteq [client : Clients, expensive : BOOLEAN, declared : Nat \cup {Unsaid},
                            chunks : Seq(Nat), cut : BOOLEAN]

VARIABLES
    clock,
    tally,      \* of each limiter, what it keeps of the clients it tracks
    forgotten,  \* how often it has forgotten a client, and the window it forgot last (history)
    request     \* the requests, with their verdicts (history)

limitVars == <<clock, tally, forgotten, request>>

\* The window a client is in with the request that is counted now.
OpenedAnew(l, c) == [count |-> 1, since |-> clock]
EntryMoved(l, c) ==  \* mutant
    IF c \in DOMAIN tally[l] /\ clock - tally[l][c].since < Window
    THEN [count |-> tally[l][c].count + 1, since |-> clock]
    ELSE OpenedAnew(l, c)
Tallied(l, c) ==
    IF c \in DOMAIN tally[l] /\ clock - tally[l][c].since < Window
    THEN [tally[l][c] EXCEPT !.count = @ + 1]
    ELSE OpenedAnew(l, c)

Allows(l, c) == Tallied(l, c).count <= Limit[l]

\* Whom the limiter may forget: of equally old windows the code takes the one first in its
\* dictionary, here any.
OldestOf(l) ==
    {c \in DOMAIN tally[l] : \A d \in DOMAIN tally[l] : tally[l][c].since <= tally[l][d].since}
ForgetsNobody(l, c) == {{}}  \* mutant
MayForget(l, c) ==
    IF c \notin DOMAIN tally[l] /\ Cardinality(DOMAIN tally[l]) >= MaxTracked
    THEN {{d} : d \in OldestOf(l)} ELSE {{}}

\* The limiters that count a request: the general one is not asked about a request the other
\* has refused.
BothConsulted(c, expensive) == IF expensive THEN Limiters ELSE {"general"}  \* mutant
Consulted(c, expensive) ==
    IF ~expensive THEN {"general"}
    ELSE IF Allows("expensive", c) THEN Limiters ELSE {"expensive"}

Verdict(c, expensive) ==
    IF expensive /\ ~Allows("expensive", c) THEN "too_many_analyses"
    ELSE IF ~Allows("general", c) THEN "too_many" ELSE "served"

Done(r, verdict, read) ==
    request' = [request EXCEPT ![r].at = "done", ![r].verdict = verdict, ![r].read = read,
                               ![r].time = clock]

\* What becomes of a request whose body has been read, or cut off.
Admit(r, read) ==
    LET c == request[r].sent.client  asked == Consulted(c, request[r].sent.expensive) IN
    \E gone \in [Limiters -> SUBSET Clients] :
        /\ \A l \in Limiters : gone[l] \in IF l \in asked THEN MayForget(l, c) ELSE {{}}
        /\ tally' = [l \in Limiters |->
              IF l \notin asked THEN tally[l]
              ELSE [d \in (DOMAIN tally[l] \ gone[l]) \cup {c} |->
                       IF d = c THEN Tallied(l, c) ELSE tally[l][d]]]
        /\ forgotten' = [l \in Limiters |-> [d \in Clients |->
              IF d \in gone[l]
              THEN [times |-> forgotten[l][d].times + 1, since |-> tally[l][d].since]
              ELSE forgotten[l][d]]]
        /\ Done(r, Verdict(c, request[r].sent.expensive), read)

Refuse(r, read) == Done(r, "too_large", read) /\ UNCHANGED <<tally, forgotten>>

-----------------------------------------------------------------------------
\* A length that says too much is believed, any other is not.
TooLong(s) == s.declared \in Nat /\ s.declared > MaxBytes

RequestArrives(r) ==
    /\ request[r].at = "idle"
    /\ \E s \in Sent[r] :
          request' = [request EXCEPT ![r] =
              IF TooLong(s)
              THEN [at |-> "done", sent |-> s, next |-> 1, read |-> 0, verdict |-> "too_large",
                    time |-> 0]
              ELSE [at |-> "reading", sent |-> s, next |-> 1, read |-> 0, verdict |-> "none",
                    time |-> 0]]
    /\ UNCHANGED <<clock, tally, forgotten>>

Fits(read) == read <= MaxBytes

ReadChunk(r) ==
    /\ request[r].at = "reading" /\ request[r].next <= Len(request[r].sent.chunks)
    /\ LET read == request[r].read + request[r].sent.chunks[request[r].next]
           last == request[r].next = Len(request[r].sent.chunks) /\ ~request[r].sent.cut
       IN \/ ~Fits(read) /\ Refuse(r, read)
          \/ Fits(read) /\ last /\ Admit(r, read)
          \/ /\ Fits(read) /\ ~last
             /\ request' = [request EXCEPT ![r].next = @ + 1, ![r].read = read]
             /\ UNCHANGED <<tally, forgotten>>
    /\ UNCHANGED clock

\* The client goes away: what has arrived is passed on, and if anything has, as a whole body.
Disconnect(r) ==
    /\ request[r].at = "reading" /\ request[r].next > Len(request[r].sent.chunks)
    /\ Admit(r, request[r].read)
    /\ UNCHANGED clock

Tick == clock < MaxTime /\ clock' = clock + 1 /\ UNCHANGED <<tally, forgotten, request>>

-----------------------------------------------------------------------------
LimitsInit ==
    /\ clock = 0
    /\ tally = [l \in Limiters |-> << >>]
    /\ forgotten = [l \in Limiters |-> [c \in Clients |-> [times |-> 0, since |-> 0]]]
    /\ request = [r \in Arrivals |-> [at |-> "idle", next |-> 1, read |-> 0, verdict |-> "none",
                                      time |-> 0]]

LimitsNext == Tick \/ \E r \in Arrivals : RequestArrives(r) \/ ReadChunk(r) \/ Disconnect(r)

LimitsSpec == LimitsInit /\ [][LimitsNext]_limitVars

-----------------------------------------------------------------------------
\* What a limiter has let through; the general limiter is the last, so that is what was served.
LetThrough(l) ==
    {r \in Arrivals :
        IF l = "general" THEN request[r].verdict = "served"
        ELSE request[r].verdict \in {"served", "too_many"} /\ request[r].sent.expensive}
Within(l, c, from, to) ==
    {r \in LetThrough(l) :
        request[r].sent.client = c /\ request[r].time >= from /\ request[r].time < to}

RefusedBy(l) ==
    {r \in Arrivals :
        request[r].verdict = (IF l = "general" THEN "too_many" ELSE "too_many_analyses")}

WindowBefore(t) == IF t < Window THEN 0 ELSE (t + 1) - Window
\* A refused client has itself used up its limit, within the last minute, with requests that
\* were let through: neither those of others, nor refused ones, nor older ones count.
RefusalIsEarned ==
    \A l \in Limiters : \A r \in RefusedBy(l) :
        Cardinality(Within(l, request[r].sent.client,
                           WindowBefore(request[r].time), request[r].time + 1)) >= Limit[l]

\* In no minute, wherever it begins, has a client had as much as the limits of two windows,
\* and of one more for each time it was forgotten.
LimitsHold ==
    \A l \in Limiters, c \in Clients, t \in 0..clock :
        Cardinality(Within(l, c, t, t + Window)) < (2 + forgotten[l][c].times) * Limit[l]

\* The memory of a limiter is bounded; it forgets only when it is full, and no window newer
\* than one it keeps.
MemoryIsBounded ==
    \A l \in Limiters :
        /\ Cardinality(DOMAIN tally[l]) <= MaxTracked
        /\ (\E c \in Clients : forgotten[l][c].times > 0) => Cardinality(DOMAIN tally[l]) = MaxTracked
        /\ \A c \in Clients, d \in DOMAIN tally[l] : forgotten[l][c].since <= tally[l][d].since

\* No route reads more than the limit; a body that is whole and fits is read whole, and one
\* that is too large takes nothing of its client's allowance.
BodiesAreBounded ==
    \A r \in Arrivals : request[r].at = "done" =>
        /\ request[r].verdict # "too_large" => request[r].read <= MaxBytes
        /\ request[r].verdict = "too_large" => request[r].read > MaxBytes \/ TooLong(request[r].sent)

\* Property (rate_limiting.py:42-72, 94-128, 142-180): the limits are kept, and nobody is held
\* to more than them.
LimitsAreKept == RefusalIsEarned /\ LimitsHold /\ MemoryIsBounded /\ BodiesAreBounded

\* Not kept by the code. A client that is forgotten starts anew, and the client whose window is
\* the oldest may be the one seen last ("oldest-seen client", 41); the body of a client
\* that went away is passed on as a whole one.
NobodyIsForgotten ==
    \A l \in Limiters, c \in Clients, t \in 0..clock :
        Cardinality(Within(l, c, t, t + Window)) < 2 * Limit[l]
WholeBodies ==
    \A r \in Arrivals :
        request[r].verdict = "served" /\ request[r].read > 0 => ~request[r].sent.cut
=============================================================================
