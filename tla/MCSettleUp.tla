----------------------------- MODULE MCSettleUp -----------------------------
(* The plans of Simplify for small balances, and the payments they lead to. *)
EXTENDS MCSimplify, SettleUp
=============================================================================
