-------------------------- MODULE MCBrowserUatTier0 --------------------------
(* Two checks of one analysis run, one of them made by hand: its script is   *)
(* run up to three times with one key, the second time only where no worker  *)
(* died and the third only where no call raised.                             *)
EXTENDS BrowserUatTier0, TLC

OneRun == [e1 |-> "run", e2 |-> "run"]
OneSite == [run |-> "site"]

ByTurns ==
    /\ \A r \in Manual : wanted[r] = "e2"
    /\ rpc["s2"] # "new" => rpc["s1"] # "new" /\ crashes = 0
    /\ rpc["s3"] # "new" => rpc["s2"] # "new" /\ errors = 0
=============================================================================
