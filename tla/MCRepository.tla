----------------------------- MODULE MCRepository -----------------------------
(* A repository with one checkout, on small sets of calls.                  *)
EXTENDS RepositoryScan, TLC

CONSTANT first

Agent == [op |-> "agent", execution |-> "x"]
MCRepoErrands ==
    {[op |-> "connect", root |-> root, remote |-> root = "outside"] :
        root \in {"git", "subdirectory", "outside"}}
    \cup {[op |-> "update", set |-> set] :
             set \in {[root |-> "plain"], [root |-> "outside", status |-> "active"]}}
    \cup {[op |-> op] : op \in {"disconnect", "scan", "match"}} \cup {Agent}

\* An empty file with a secret name, one below an ignored directory and a source.
MCFileKind == "e" :> "sensitive" @@ "i" :> "ignored" @@ "s" :> "source"

\* Two agents of one execution meet only with a call that deletes the connection, which is
\* there or not yet; one agent meets at most one call that writes a connection and one route.
MCConnections ==
    {NoConnection, [number |-> first, root |-> "git", status |-> "active", last |-> NoScan]}
MCRepoInit ==
    RepoWith({e \in [RepoCalls -> RepoErrands] :
                 LET agents == {c \in RepoCalls : e[c] = Agent}
                     Asking(ops) == Cardinality({c \in RepoCalls : e[c].op \in ops}) IN
                 \/ agents = {}
                 \/ /\ Cardinality(agents) = 1
                    /\ Asking({"connect", "update"}) <= 1 /\ Asking({"scan", "match"}) <= 1
                 \/ \E c \in RepoCalls : agents = RepoCalls \ {c} /\ e[c].op = "disconnect"},
             KnownConnections)
MCRepoSpec == MCRepoInit /\ [][RepoNext]_repoVars
RepoSymmetry == Permutations(RepoCalls)
=============================================================================
