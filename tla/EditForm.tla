------------------------------ MODULE EditForm ------------------------------
(***************************************************************************)
(* The edit form around splits.Compute (handlers/expense_edit.go,          *)
(* expense_form.html, buildInputs of handlers/actions.go).                 *)
(*                                                                         *)
(* An expense is stored with the shares that Compute returned and without  *)
(* what they were computed from.  Its edit form shows the shares' amounts  *)
(* in the value fields, whatever the split method, and submitting it calls *)
(* Compute again.                                                          *)
(***************************************************************************)
EXTENDS Splits

CONSTANTS
    MinorUnits,     \* cents in a unit of money (100 in the code)
    NotStored       \* the expense is being created

ASSUME MinorUnitsAssumption == MinorUnits \in Nat \ {0}

VARIABLE stored     \* the expense that is edited: its split type and amounts, and
                    \* (history) whether they were computed from a sum that wrapped

editVars == <<vars, stored>>

\* Mutant: what is behind the point is lost.
PrefilledTruncated(st, amount) ==
    CASE st = "equal" -> 0
      [] st \in {"exact", "percentage"} -> (amount \div MinorUnits) * MinorUnits
      [] st = "shares" -> (2 * amount + MinorUnits) \div (2 * MinorUnits)

\* What buildInputs reads from a field that shows an amount with two decimals:
\* cents become basis points, and weights are rounded to whole units.
Prefilled(st, amount) ==
    CASE st = "equal" -> 0
      [] st \in {"exact", "percentage"} -> amount
      [] st = "shares" -> (2 * amount + MinorUnits) \div (2 * MinorUnits)

EditInit == Init /\ stored = NotStored

\* The stored expense's form is opened and submitted with nothing changed but,
\* perhaps, the split method.
Resubmit(st) ==
    /\ pc = "done"
    /\ stored' = [st |-> call.st, amounts |-> out, wrapped |-> Wrapped]
    /\ call' = [total |-> call.total, st |-> st,
                in |-> [j \in 1..N |-> [user |-> call.in[j].user,
                                        value |-> Prefilled(st, out[j])]]]
    /\ pc' = "enter" /\ err' = "none"
    /\ i' = 0 /\ sum' = 0 /\ denom' = 0 /\ assigned' = 0 /\ k' = 0
    /\ out' = [j \in 1..N |-> 0]
    /\ remainder' = [j \in 1..N |-> 0]
    /\ consumed' = {}
    /\ prefix' = << >> /\ given' = 0

EditNext == \/ Next /\ UNCHANGED stored
            \/ \E st \in SplitTypes \ {"unknown"} : Resubmit(st)

EditSpec == EditInit /\ [][EditNext]_editVars

-----------------------------------------------------------------------------

Refused == pc = "failed"

Kept == pc = "done" /\ out = stored.amounts

(***************************************************************************)
(* Saving an edit form with nothing changed never divides the expense      *)
(* anew behind the user's back, as long as the values are not read as      *)
(* weights: the exact form takes over any expense ("perfect for exact",    *)
(* expense_edit.go:46), an equal split stays the same equal split, and     *)
(* under percentages the form is refused, except for a total of 100.00,    *)
(* where the amounts mean the same shares.  (Shares that came of a sum     *)
(* that wrapped around do not add up to begin with.)                       *)
(***************************************************************************)
UnweightedFormKeepsShares ==
    stored # NotStored /\ ~stored.wrapped /\ pc \in {"done", "failed"} =>
        /\ call.st = "exact" => Kept
        /\ call.st = "equal" /\ stored.st = "equal" => Kept
        /\ call.st = "percentage" => Refused \/ (Kept /\ call.total = FullBps)

(***************************************************************************)
(* Read as weights the amounts are rounded to whole units of money and the *)
(* expense is divided anew (expense_edit.go:46, actions.go:129-134).  All  *)
(* that this keeps is the order: who owed more does not owe less now, but  *)
(* for a cent.  The shares are kept, unless the form is refused, where all *)
(* are whole units.  Others may be lost: 0.67 and 0.34 become the weights  *)
(* 1 and 0, and then 1.01 and nothing.                                     *)
(***************************************************************************)
WeightsFormKeepsOrder ==
    stored # NotStored /\ ~stored.wrapped /\ call.st = "shares"
    /\ pc \in {"done", "failed"} =>
        /\ pc = "done" =>
              \A j, l \in 1..N :
                 stored.amounts[j] > stored.amounts[l] => out[j] >= out[l] - 1
        /\ (\A j \in 1..N : stored.amounts[j] % MinorUnits = 0) => Refused \/ Kept
=============================================================================
