----------------------------- MODULE MCReceipts -----------------------------
(* Three requests for one expense, two picture types, pictures of one or    *)
(* two parts, and one crash.                                                *)
EXTENDS Receipts, TLC

Symmetry == Permutations(Requests) \cup Permutations(Exts)
=============================================================================
