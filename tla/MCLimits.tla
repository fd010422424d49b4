------------------------------- MODULE MCLimits -------------------------------
(***************************************************************************)
(* Four requests of three clients, of whom two are remembered, in two       *)
(* windows of two ticks; one analysis and two requests to a window. One of  *)
(* the requests starts an analysis or has a body, the others are empty.     *)
(***************************************************************************)
EXTENDS RequestLimits, TLC

CONSTANTS odd, stranger   \* the request that may have a body, and its client

Empty(c, expensive) ==
    [client |-> c, expensive |-> expensive, declared |-> Unsaid, chunks |-> <<0>>, cut |-> FALSE]
Body(declared, chunks, cut) == [declared |-> declared, chunks |-> chunks, cut |-> cut]
Bodies == {Body(3, <<2>>, FALSE), Body(1, <<2, 1>>, FALSE), Body(2, <<1, 1>>, FALSE),
           Body(Unsaid, <<1>>, TRUE)}
MCSent ==
    [r \in Arrivals |->
        {Empty(c, expensive) : c \in Clients, expensive \in IF r = odd THEN {TRUE} ELSE BOOLEAN}
        \cup IF r # odd THEN {}
             ELSE {b @@ [client |-> stranger, expensive |-> FALSE] : b \in Bodies}]
MCLimit == [expensive |-> 1, general |-> 2]
=============================================================================
