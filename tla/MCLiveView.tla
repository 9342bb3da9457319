----------------------------- MODULE MCLiveView -----------------------------
(* A page with the balances region, whose handler reads the ledger twice,  *)
(* and the activity feed.  Liveness is checked, hence no symmetry.         *)
EXTENDS LiveView, TLC

CONSTANTS balances, activity

PageQueries == (balances :> <<"ledger", "ledger">>) @@ (activity :> <<"log">>)
=============================================================================
