------------------------------ MODULE SettleUp ------------------------------
(***************************************************************************)
(* Settling up from the plan that Simplify returned: balances.html turns   *)
(* each transfer into a form, and posting a form records a payment         *)
(* (Handlers.settle of handlers/actions.go), which the next computation of *)
(* the balances counts (store/balances.go).                                *)
(*                                                                         *)
(* Nothing ties a payment to the plan it comes from: forms are posted in   *)
(* any order and by anybody who has the page, a second time by a second    *)
(* click or the back button, and also after others have changed an expense *)
(* or paid from a page of their own.                                       *)
(***************************************************************************)
EXTENDS Simplify

VARIABLES
    due,        \* the balances that the database amounts to now
    posted,     \* the forms of the page that have been posted
    outdated    \* history: somebody else's commit, or a form posted again, has
                \* changed the balances since they were read

settleVars == <<due, posted, outdated>>

SettleInit == Init /\ due = net /\ posted = {} /\ outdated = FALSE

\* Mutant: a payment is counted the other way round.
MovedBack(b, from, to, amount) == [b EXCEPT ![from] = @ - amount, ![to] = @ + amount]

\* Balances: m[FromUser] += Amount and m[ToUser] -= Amount; the same for an
\* expense that "from" paid and "to" consumed.
Moved(b, from, to, amount) == [b EXCEPT ![from] = @ + amount, ![to] = @ - amount]

\* The form of the k-th transfer is posted.  Of an outdated page, only forms
\* not yet posted are followed.
Settle(k) ==
    /\ pc = "returned" /\ k \in DOMAIN transfers
    /\ k \in posted => ~outdated
    /\ due' = Moved(due, transfers[k].from, transfers[k].to, transfers[k].amount)
    /\ posted' = posted \cup {k}
    /\ outdated' = (outdated \/ k \in posted)
    /\ UNCHANGED vars

\* A cent of an expense or a payment by somebody else; one suffices.
OtherCommit ==
    /\ ~outdated
    /\ \E u, w \in Users : u # w /\ due' = Moved(due, u, w, 1)
    /\ outdated' = TRUE
    /\ UNCHANGED <<vars, posted>>

SettleNext ==
    \/ Next /\ UNCHANGED settleVars
    \/ \E k \in DOMAIN transfers : Settle(k)
    \/ OtherCommit

SettleSpec == SettleInit /\ [][SettleNext]_<<vars, settleVars>> /\ WF_vars(Next)

-----------------------------------------------------------------------------

\* What paying a transfer adds to u's balance, and paying all the forms K.
Change(t, u) == IF t.from = u THEN t.amount ELSE IF t.to = u THEN -t.amount ELSE 0

Changes(u) == [k \in DOMAIN transfers |-> Change(transfers[k], u)]

Effect(K, u) == SumOver(Changes(u), K)

(***************************************************************************)
(* The forms of a page can be paid one by one, in any order and by         *)
(* anybody: at every moment those not yet posted lead to the positions     *)
(* that Simplify had in mind (everybody even, when the balances sum to     *)
(* zero), and none of them pays more than its sender still owes or its     *)
(* receiver is still owed.  Not so when the page is outdated: a form       *)
(* posted twice is counted twice (actions.go:143-176, balances.go:43-47).  *)
(***************************************************************************)
PlanStaysGood ==
    pc = "returned" /\ ~outdated =>
        LET rest == DOMAIN transfers \ posted
        IN  /\ \A u \in Users : due[u] + Effect(rest, u) = cred[u] - deb[u]
            /\ \A k \in rest : /\ transfers[k].amount <= -due[transfers[k].from]
                               /\ transfers[k].amount <= due[transfers[k].to]
=============================================================================
