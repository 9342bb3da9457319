----------------------------- MODULE MCEditForm -----------------------------
(* Compute on small inputs, and again on the edit forms of its results.     *)
EXTENDS MCSplits, EditForm
=============================================================================
