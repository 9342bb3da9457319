------------------------------ MODULE Simplify ------------------------------
(***************************************************************************)
(* internal/splits/simplify.go: the greedy settle-up algorithm.            *)
(*                                                                         *)
(* The input is one currency's net balances.  Creditors and debtors sit in *)
(* two max-heaps; each iteration pairs the two largest, settles the        *)
(* smaller amount and pushes back whoever has something left.              *)
(*                                                                         *)
(* container/heap is external: a heap is modelled by what it promises, Pop *)
(* returns SOME largest element.  Which one is left open, because the      *)
(* balances come out of a Go map in random order (balances.go:52).         *)
(***************************************************************************)
EXTENDS Integers, Sequences, FiniteSets, Sums

CONSTANTS
    Users,      \* the people who may have a balance
    NetBalances \* the inputs considered: functions from Users to integers

ASSUME UsersAssumption == IsFiniteSet(Users)
ASSUME NetBalancesAssumption == NetBalances \subseteq [Users -> Int]

VARIABLES
    net,        \* the argument, never changed; net[u] = 0: u is skipped
    cred,       \* cred[u] > 0: u is in the creditor heap with that amount
    deb,        \* deb[u] > 0: u is in the debtor heap with that amount
    transfers,  \* the slice that will be returned
    pc          \* "pairing" inside the loop, "returned" afterwards

vars == <<net, cred, deb, transfers, pc>>

Transfers == [from : Users, to : Users, amount : Nat \ {0}]

\* Mutant: both signs land among the creditors.
CredSliceUnsigned(b) == [u \in Users |-> IF b[u] < 0 THEN -b[u] ELSE b[u]]

CredSlice(b) == [u \in Users |-> IF b[u] > 0 THEN b[u] ELSE 0]

\* Mutant: an off-by-one skips debts of one cent.
DebSliceOffByOne(b) == [u \in Users |-> IF b[u] < -1 THEN -b[u] ELSE 0]

DebSlice(b) == [u \in Users |-> IF b[u] < 0 THEN -b[u] ELSE 0]

\* The elements of a heap, and those that Pop may return.
Heap(h) == {u \in Users : h[u] > 0}

\* Mutant: the heap order is not restored after a push.
LargestUnordered(h) == Heap(h)

Largest(h) == {u \in Heap(h) : \A v \in Heap(h) : h[v] <= h[u]}

\* Mutants: the larger of the two obligations; one cent at a time.
SettledLarger(d, c) == IF deb[d] >= cred[c] THEN deb[d] ELSE cred[c]

SettledOneCent(d, c) == 1

Settled(d, c) == IF deb[d] <= cred[c] THEN deb[d] ELSE cred[c]

-----------------------------------------------------------------------------

Init ==
    /\ net \in NetBalances
    /\ cred = CredSlice(net)
    /\ deb = DebSlice(net)
    /\ transfers = << >>
    /\ pc = "pairing"

\* Mutant: the debtor's remainder is pushed back unreduced.
PairKeepingDebt(d, c) ==
    LET pay == Settled(d, c)
    IN  /\ transfers' = Append(transfers, [from |-> d, to |-> c, amount |-> pay])
        /\ cred' = [cred EXCEPT ![c] = @ - pay]
        /\ deb' = deb

\* One iteration of the loop (its pay > 0 test always holds).
PairLargest(d, c) ==
    LET pay == Settled(d, c)
    IN  /\ transfers' = Append(transfers, [from |-> d, to |-> c, amount |-> pay])
        /\ cred' = [cred EXCEPT ![c] = @ - pay]
        /\ deb' = [deb EXCEPT ![d] = @ - pay]

Pair ==
    /\ pc = "pairing"
    /\ \E c \in Largest(cred), d \in Largest(deb) : PairLargest(d, c)
    /\ UNCHANGED <<net, pc>>

\* Mutant: the loop runs until both heaps are empty.
ReturnWhenBothEmpty ==
    /\ pc = "pairing"
    /\ Heap(cred) = {} /\ Heap(deb) = {}
    /\ pc' = "returned"
    /\ UNCHANGED <<net, cred, deb, transfers>>

Return ==
    /\ pc = "pairing"
    /\ Heap(cred) = {} \/ Heap(deb) = {}
    /\ pc' = "returned"
    /\ UNCHANGED <<net, cred, deb, transfers>>

Next == Pair \/ Return

Spec == Init /\ [][Next]_vars /\ WF_vars(Next)

-----------------------------------------------------------------------------

\* Amounts in the heaps are never negative (simplify.go:53-62, 100-106).
TypeOK ==
    /\ net \in NetBalances
    /\ cred \in [Users -> Nat]
    /\ deb \in [Users -> Nat]
    /\ transfers \in Seq(Transfers)
    /\ pc \in {"pairing", "returned"}

(***************************************************************************)
(* Sides are never mixed: whoever pays in the plan was a debtor of the     *)
(* input and whoever receives was a creditor, so nobody is told to pay and *)
(* to be paid, not even after partial payments (simplify.go:78-107).       *)
(***************************************************************************)
OneSided ==
    \A k \in DOMAIN transfers :
        /\ net[transfers[k].from] < 0
        /\ net[transfers[k].to] > 0

(***************************************************************************)
(* Two people are paired at most once: every iteration exhausts one of the *)
(* two, and an exhausted account is not pushed back (simplify.go:100-106). *)
(***************************************************************************)
NoPairTwice ==
    \A j, k \in DOMAIN transfers :
        j # k => \/ transfers[j].from # transfers[k].from
                 \/ transfers[j].to # transfers[k].to

Total(b) == SumOver(b, Users)

(***************************************************************************)
(* A plan for balances that sum to zero leaves nobody owing or owed, and   *)
(* when they do not sum to zero the smaller side is still cleared          *)
(* completely ("clear as much debt as possible", simplify.go:64-67).       *)
(***************************************************************************)
ClearsDebt ==
    pc = "returned" =>
        /\ Total(net) >= 0 => Heap(deb) = {}
        /\ Total(net) <= 0 => Heap(cred) = {}
        /\ Total(cred) - Total(deb) = Total(net)

Creditors == Heap(CredSlice(net))

Debtors == Heap(DebSlice(net))

(***************************************************************************)
(* At most n+m-1 transfers for n debtors and m creditors (simplify.go:39), *)
(* also when the two sides do not balance.                                 *)
(***************************************************************************)
TransferBound ==
    Len(transfers) > 0 =>
        Len(transfers) <= Cardinality(Creditors) + Cardinality(Debtors) - 1

(***************************************************************************)
(* The plan proceeds from the largest payment to the smallest, although    *)
(* partially paid accounts re-enter the heaps (simplify.go:36-38).         *)
(***************************************************************************)
LargestFirst ==
    \A j, k \in DOMAIN transfers :
        j < k => transfers[j].amount >= transfers[k].amount

\* What is left of everybody's position: the mapping to DebtPlan.
Outstanding == [u \in Users |-> cred[u] - deb[u]]

Plan == INSTANCE DebtPlan WITH position <- Outstanding, plan <- transfers

(***************************************************************************)
(* Every transfer shrinks one debt and one credit by the same amount and   *)
(* overshoots neither: the loop implements DebtPlan.                       *)
(***************************************************************************)
ImplementsPlan == Plan!Spec

(***************************************************************************)
(* The loop ends: Simplify returns for every input, balanced or not.       *)
(***************************************************************************)
Terminates == <>(pc = "returned")
=============================================================================
