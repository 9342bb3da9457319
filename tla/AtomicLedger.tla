---------------------------- MODULE AtomicLedger ----------------------------
(***************************************************************************)
(* What the store promises about a group's ledger: every request that is   *)
(* answered took effect in one instant, whole, and a request that is not   *)
(* answered either took effect or left no trace.  There are no statements, *)
(* transactions, locks or crashes here.                                    *)
(***************************************************************************)
CONSTANTS Expenses, Bills, Payments, Requests, NoRow

VARIABLES
    ledger,     \* expense id -> the bill recorded under it, or NoRow
    payments,   \* <<request, payment>> for every settlement recorded
    done        \* the requests that have taken effect

vars == <<ledger, payments, done>>

Init ==
    /\ ledger = [e \in Expenses |-> NoRow]
    /\ payments = {}
    /\ done = {}

\* A request takes effect once.
Once(r) == r \notin done /\ done' = done \cup {r}

Record(r, e, b) ==
    /\ Once(r)
    /\ ledger[e] = NoRow
    /\ ledger' = [ledger EXCEPT ![e] = b]
    /\ UNCHANGED payments

Replace(r, e, b) ==
    /\ Once(r)
    /\ ledger[e] # NoRow
    /\ ledger' = [ledger EXCEPT ![e] = b]
    /\ UNCHANGED payments

Remove(r, e) ==
    /\ Once(r)
    /\ ledger' = [ledger EXCEPT ![e] = NoRow]
    /\ UNCHANGED payments

Pay(r, p) ==
    /\ Once(r)
    /\ payments' = payments \cup {<<r, p>>}
    /\ UNCHANGED ledger

Next ==
    \E r \in Requests :
        \/ \E e \in Expenses, b \in Bills : Record(r, e, b) \/ Replace(r, e, b)
        \/ \E e \in Expenses : Remove(r, e)
        \/ \E p \in Payments : Pay(r, p)

Spec == Init /\ [][Next]_vars
=============================================================================
