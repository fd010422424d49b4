--------------------------- MODULE MCAgentWorkflow ---------------------------
(* The agent workflow on small graphs.                                      *)
EXTENDS AgentWorkflow, TLC

\* One agent and one that requires it.
PairRequires == [a |-> {}, b |-> {"a"}]
PairPrefers  == [a |-> {}, b |-> {}]

\* Two first agents, and one that requires the first and may use the second:
\* evidence validation, repository intelligence and remediation.
JoinRequires == [a |-> {}, b |-> {}, c |-> {"a"}]
JoinPrefers  == [a |-> {}, b |-> {}, c |-> {"b"}]

DeliverySymmetry == Permutations(Deliveries)
=============================================================================
