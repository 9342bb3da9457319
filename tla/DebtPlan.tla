------------------------------ MODULE DebtPlan ------------------------------
(***************************************************************************)
(* What a settle-up plan promises, whatever algorithm computes it: every   *)
(* transfer moves money from somebody who still owes to somebody who is    *)
(* still owed, and never more than either of them has outstanding.  The    *)
(* plan is over once one of the two sides is exhausted.                    *)
(***************************************************************************)
EXTENDS Integers, Sequences

CONSTANT Users

VARIABLES
    position,   \* position[u] > 0: u is still owed; < 0: u still owes
    plan        \* the transfers decided so far

vars == <<position, plan>>

Init ==
    /\ position \in [Users -> Int]
    /\ plan = << >>

Transfer(d, c, pay) ==
    /\ 0 < pay /\ pay <= -position[d] /\ pay <= position[c]
    /\ position' = [position EXCEPT ![d] = @ + pay, ![c] = @ - pay]
    /\ plan' = Append(plan, [from |-> d, to |-> c, amount |-> pay])

Next == \E d, c \in Users : \E pay \in 1..position[c] : Transfer(d, c, pay)

Spec == Init /\ [][Next]_vars
=============================================================================
