--------------------------- MODULE SimplifyProofs ---------------------------
(***************************************************************************)
(* What holds of Simplify for every finite set of people and every input.  *)
(* The loop invariant is Ind: types, where the money that left an account  *)
(* went, and the number of transfers against the accounts still open.      *)
(***************************************************************************)
EXTENDS SettleUp, SumProofs, FiniteSetTheorems, TLAPS

\* An account still in a heap has its input balance or less, on its own side.
SidesKept ==
    \A u \in Users : /\ cred[u] > 0 => net[u] > 0
                     /\ deb[u] > 0 => net[u] < 0

\* Once paired, at least one of the two accounts is exhausted.
OneExhausted ==
    \A k \in DOMAIN transfers :
        deb[transfers[k].from] = 0 \/ cred[transfers[k].to] = 0

\* Each transfer empties at least one account.
TransferBudget ==
    Len(transfers) + Cardinality(Heap(cred)) + Cardinality(Heap(deb))
        <= Cardinality(Creditors) + Cardinality(Debtors)

Ind == /\ TypeOK /\ SidesKept /\ OneSided /\ OneExhausted /\ NoPairTwice
       /\ TransferBudget /\ TransferBound

-----------------------------------------------------------------------------

\* Heaps are finite, and removing an element makes them smaller by one.
LEMMA HeapCard ==
    ASSUME NEW h \in [Users -> Nat]
    PROVE  /\ IsFiniteSet(Heap(h))
           /\ Cardinality(Heap(h)) \in Nat
           /\ Heap(h) # {} => Cardinality(Heap(h)) >= 1
           /\ \A u \in Heap(h) :
                 Cardinality(Heap(h) \ {u}) = Cardinality(Heap(h)) - 1
<1>1. Heap(h) \subseteq Users
  BY DEF Heap
<1>2. IsFiniteSet(Heap(h))
  BY <1>1, UsersAssumption, FS_Subset
<1>3. Cardinality(Heap(h)) \in Nat
  BY <1>2, FS_CardinalityType
<1>4. \A u \in Heap(h) : Cardinality(Heap(h) \ {u}) = Cardinality(Heap(h)) - 1
  BY <1>2, FS_RemoveElement
<1>5. Heap(h) # {} => Cardinality(Heap(h)) >= 1
  BY <1>2, <1>3, FS_EmptySet
<1> QED
  BY <1>2, <1>3, <1>4, <1>5

\* The amount of one iteration is positive and within both accounts, and it
\* exhausts one of them.
LEMMA SettledBounds ==
    ASSUME TypeOK, NEW c \in Largest(cred), NEW d \in Largest(deb)
    PROVE  /\ c \in Heap(cred) /\ d \in Heap(deb)
           /\ Settled(d, c) \in 1..cred[c]
           /\ Settled(d, c) \in 1..deb[d]
           /\ Settled(d, c) = cred[c] \/ Settled(d, c) = deb[d]
  BY DEF TypeOK, Largest, Heap, Settled

LEMMA InputSlices ==
    ASSUME NEW b \in NetBalances
    PROVE  /\ CredSlice(b) \in [Users -> Nat]
           /\ DebSlice(b) \in [Users -> Nat]
<1>1. b \in [Users -> Int]
  BY NetBalancesAssumption
<1> QED
  BY <1>1 DEF CredSlice, DebSlice

-----------------------------------------------------------------------------

LEMMA InitInd == Init => Ind
<1> SUFFICES ASSUME Init PROVE Ind
  OBVIOUS
<1>1. TypeOK
  BY InputSlices DEF Init, TypeOK
<1>2. net \in [Users -> Int]
  BY NetBalancesAssumption DEF Init
<1>3. SidesKept
  BY <1>2 DEF Init, SidesKept, CredSlice, DebSlice
<1>4. OneSided /\ OneExhausted /\ NoPairTwice /\ TransferBound
  BY DEF Init, OneSided, OneExhausted, NoPairTwice, TransferBound
<1>5. TransferBudget
  BY <1>1, HeapCard DEF Init, TransferBudget, Creditors, Debtors, TypeOK
<1> QED
  BY <1>1, <1>3, <1>4, <1>5 DEF Ind

LEMMA PairInd ==
    ASSUME Ind, pc = "pairing", NEW c \in Largest(cred), NEW d \in Largest(deb),
           PairLargest(d, c), UNCHANGED <<net, pc>>
    PROVE  Ind'
<1> DEFINE pay == Settled(d, c)
           t == [from |-> d, to |-> c, amount |-> pay]
<1>1. /\ c \in Heap(cred) /\ d \in Heap(deb)
      /\ pay \in 1..cred[c] /\ pay \in 1..deb[d]
      /\ pay = cred[c] \/ pay = deb[d]
  BY SettledBounds DEF Ind
<1>2. /\ cred \in [Users -> Nat] /\ deb \in [Users -> Nat]
      /\ c \in Users /\ d \in Users
  BY <1>1 DEF Ind, TypeOK, Heap
<1>3. /\ cred' = [cred EXCEPT ![c] = @ - pay]
      /\ deb' = [deb EXCEPT ![d] = @ - pay]
      /\ transfers' = Append(transfers, t)
  BY DEF PairLargest
<1> HIDE DEF pay
<1>4. /\ cred' \in [Users -> Nat]
      /\ \A v \in Users : cred'[v] <= cred[v]
      /\ pay = cred[c] => Heap(cred') = Heap(cred) \ {c}
      /\ pay < cred[c] => Heap(cred') = Heap(cred)
  BY <1>1, <1>2, <1>3 DEF Heap
<1>5. /\ deb' \in [Users -> Nat]
      /\ \A v \in Users : deb'[v] <= deb[v]
      /\ pay = deb[d] => Heap(deb') = Heap(deb) \ {d}
      /\ pay < deb[d] => Heap(deb') = Heap(deb)
  BY <1>1, <1>2, <1>3 DEF Heap
<1>6. t \in Transfers
  BY <1>1, <1>2 DEF Transfers
<1>7. TypeOK'
  BY <1>3, <1>4, <1>5, <1>6 DEF Ind, TypeOK
<1>8. SidesKept'
  BY <1>2, <1>4, <1>5 DEF Ind, SidesKept
<1>9. /\ Len(transfers') = Len(transfers) + 1
      /\ DOMAIN transfers' = DOMAIN transfers \cup {Len(transfers) + 1}
      /\ transfers'[Len(transfers) + 1] = t
      /\ \A k \in DOMAIN transfers : /\ transfers'[k] = transfers[k]
                                     /\ transfers[k] \in Transfers
      /\ Len(transfers) \in Nat
  BY <1>3, <1>6 DEF Ind, TypeOK
<1>10. OneSided'
  <2>1. net[d] < 0 /\ net[c] > 0
    BY <1>1, <1>2 DEF Ind, SidesKept, Heap
  <2> QED
    BY <2>1, <1>9 DEF Ind, OneSided
<1>11. OneExhausted'
  <2>1. cred'[c] = 0 \/ deb'[d] = 0
    BY <1>1, <1>2, <1>3
  <2>2. ASSUME NEW k \in DOMAIN transfers
        PROVE  deb'[transfers[k].from] = 0 \/ cred'[transfers[k].to] = 0
    <3>1. transfers[k] \in Transfers
      BY <1>9
    <3>2. transfers[k].from \in Users /\ transfers[k].to \in Users
      BY <3>1 DEF Transfers
    <3>3. deb[transfers[k].from] = 0 \/ cred[transfers[k].to] = 0
      BY DEF Ind, OneExhausted
    <3>4. /\ deb[transfers[k].from] \in Nat /\ deb'[transfers[k].from] \in Nat
          /\ deb'[transfers[k].from] <= deb[transfers[k].from]
      BY <1>2, <1>5, <3>2
    <3>5. /\ cred[transfers[k].to] \in Nat /\ cred'[transfers[k].to] \in Nat
          /\ cred'[transfers[k].to] <= cred[transfers[k].to]
      BY <1>2, <1>4, <3>2
    <3> QED
      BY <3>3, <3>4, <3>5
  <2> QED
    BY <2>1, <2>2, <1>9 DEF OneExhausted
<1>12. NoPairTwice'
  <2>1. cred[c] > 0 /\ deb[d] > 0
    BY <1>1 DEF Heap
  <2>2. \A k \in DOMAIN transfers : transfers[k].from # d \/ transfers[k].to # c
    BY <2>1 DEF Ind, OneExhausted
  <2> QED
    BY <2>2, <1>9 DEF Ind, NoPairTwice
<1>13. /\ Cardinality(Heap(cred)) \in Nat /\ Cardinality(Heap(deb)) \in Nat
       /\ Cardinality(Heap(cred)) >= 1 /\ Cardinality(Heap(deb)) >= 1
       /\ Cardinality(Heap(cred) \ {c}) = Cardinality(Heap(cred)) - 1
       /\ Cardinality(Heap(deb) \ {d}) = Cardinality(Heap(deb)) - 1
  BY <1>1, <1>2, HeapCard
<1>14. /\ Cardinality(Heap(cred')) \in Nat /\ Cardinality(Heap(deb')) \in Nat
       /\ Cardinality(Heap(cred')) + Cardinality(Heap(deb'))
            <= Cardinality(Heap(cred)) + Cardinality(Heap(deb)) - 1
  <2>1. /\ pay = cred[c] =>
              Cardinality(Heap(cred')) = Cardinality(Heap(cred) \ {c})
        /\ pay < cred[c] => Cardinality(Heap(cred')) = Cardinality(Heap(cred))
    BY <1>4, Zenon
  <2>2. /\ pay = deb[d] =>
              Cardinality(Heap(deb')) = Cardinality(Heap(deb) \ {d})
        /\ pay < deb[d] => Cardinality(Heap(deb')) = Cardinality(Heap(deb))
    BY <1>5, Zenon
  <2> QED
    BY <1>1, <1>2, <1>13, <2>1, <2>2
<1>15. /\ Creditors' = Creditors /\ Debtors' = Debtors
       /\ Cardinality(Creditors) \in Nat /\ Cardinality(Debtors) \in Nat
  BY InputSlices, HeapCard DEF Creditors, Debtors, Ind, TypeOK
<1>16. TransferBudget' /\ TransferBound'
  <2>1. Len(transfers) + Cardinality(Heap(cred)) + Cardinality(Heap(deb))
           <= Cardinality(Creditors) + Cardinality(Debtors)
    BY DEF Ind, TransferBudget
  <2>2. Len(transfers) + 1 + Cardinality(Heap(cred')) + Cardinality(Heap(deb'))
           <= Cardinality(Creditors) + Cardinality(Debtors)
    BY <2>1, <1>9, <1>13, <1>14, <1>15, SMTT(30)
  <2>3. Len(transfers) + 1 <= Cardinality(Creditors) + Cardinality(Debtors) - 1
    BY <2>1, <1>9, <1>13, <1>15
  <2> HIDE DEF t
  <2>4. TransferBudget'
    BY <2>2, <1>9, <1>15 DEF TransferBudget
  <2> QED
    BY <2>3, <2>4, <1>9, <1>15 DEF TransferBound
<1> QED
  BY <1>7, <1>8, <1>10, <1>11, <1>12, <1>16 DEF Ind

LEMMA StepInd == Ind /\ [Next]_vars => Ind'
<1> SUFFICES ASSUME Ind, [Next]_vars PROVE Ind'
  OBVIOUS
<1>1. CASE Pair
  BY <1>1, PairInd DEF Pair
<1>2. ASSUME UNCHANGED <<net, cred, deb, transfers>>, pc' \in {"pairing", "returned"}
      PROVE  Ind'
  BY <1>2 DEF Ind, TypeOK, SidesKept, OneSided, OneExhausted, NoPairTwice,
              TransferBudget, TransferBound, Creditors, Debtors
<1>3. CASE Return
  BY <1>2, <1>3 DEF Return
<1>4. CASE UNCHANGED vars
  BY <1>2, <1>4 DEF vars, Ind, TypeOK
<1> QED
  BY <1>1, <1>3, <1>4 DEF Next

\* The loop invariant holds after every iteration of the pairing loop.
THEOREM IndAlways == Spec => []Ind
  BY InitInd, StepInd, PTL DEF Spec

(***************************************************************************)
(* The variables keep their types for every input.                         *)
(***************************************************************************)
THEOREM TypeCorrect == Spec => []TypeOK
<1>1. Ind => TypeOK
  BY DEF Ind
<1> QED
  BY <1>1, IndAlways, PTL

(***************************************************************************)
(* Nobody both pays and is paid, and no two people are paired twice.       *)
(***************************************************************************)
THEOREM PlanIsClean == Spec => [](OneSided /\ NoPairTwice)
<1>1. Ind => OneSided /\ NoPairTwice
  BY DEF Ind
<1> QED
  BY <1>1, IndAlways, PTL

(***************************************************************************)
(* Never more than n+m-1 transfers, balanced input or not.                 *)
(***************************************************************************)
THEOREM BoundHolds == Spec => []TransferBound
<1>1. Ind => TransferBound
  BY DEF Ind
<1> QED
  BY <1>1, IndAlways, PTL

-----------------------------------------------------------------------------
(* The order of the transfers *)

\* No creditor and debtor still open could settle more between them than any
\* transfer so far.
Falling ==
    \A k \in DOMAIN transfers, c \in Heap(cred), d \in Heap(deb) :
        cred[c] <= transfers[k].amount \/ deb[d] <= transfers[k].amount

LEMMA PairFalls ==
    ASSUME Ind, Falling, LargestFirst,
           NEW c \in Largest(cred), NEW d \in Largest(deb), PairLargest(d, c)
    PROVE  Falling' /\ LargestFirst'
<1> DEFINE pay == Settled(d, c)
           t == [from |-> d, to |-> c, amount |-> pay]
           n == Len(transfers)
<1>1. /\ c \in Heap(cred) /\ d \in Heap(deb)
      /\ pay \in 1..cred[c] /\ pay \in 1..deb[d]
      /\ pay = cred[c] \/ pay = deb[d]
  BY SettledBounds DEF Ind
<1>2. /\ cred \in [Users -> Nat] /\ deb \in [Users -> Nat]
      /\ c \in Users /\ d \in Users
      /\ \A u \in Heap(cred) : u \in Users /\ cred[u] <= cred[c]
      /\ \A u \in Heap(deb) : u \in Users /\ deb[u] <= deb[d]
  BY <1>1 DEF Ind, TypeOK, Heap, Largest
<1>3. /\ cred' = [cred EXCEPT ![c] = @ - pay]
      /\ deb' = [deb EXCEPT ![d] = @ - pay]
      /\ transfers' = Append(transfers, t)
  BY DEF PairLargest
<1> HIDE DEF pay
<1>4. /\ t \in Transfers /\ transfers \in Seq(Transfers) /\ t.amount = pay /\ pay \in Nat
  BY <1>1, <1>2 DEF Ind, TypeOK, Transfers
<1> HIDE DEF t
<1>5. /\ n \in Nat /\ DOMAIN transfers = 1..n /\ DOMAIN transfers' = 1..(n + 1)
      /\ transfers'[n + 1] = t
      /\ \A k \in 1..n : /\ transfers'[k] = transfers[k]
                         /\ transfers[k].amount \in Nat
  <2>1. /\ n \in Nat /\ DOMAIN transfers = 1..n /\ DOMAIN transfers' = 1..(n + 1)
        /\ transfers'[n + 1] = t
        /\ \A k \in 1..n : transfers'[k] = transfers[k] /\ transfers[k] \in Transfers
    BY <1>3, <1>4
  <2>2. \A x \in Transfers : x.amount \in Nat
    BY DEF Transfers
  <2> QED
    BY <2>1, <2>2
<1> HIDE DEF n
<1>6. \A k \in 1..n : pay <= transfers[k].amount
  <2> SUFFICES ASSUME NEW k \in 1..n PROVE pay <= transfers[k].amount
    OBVIOUS
  <2>1. cred[c] <= transfers[k].amount \/ deb[d] <= transfers[k].amount
    BY <1>1, <1>5 DEF Falling
  <2>2. /\ transfers[k].amount \in Nat /\ cred[c] \in Nat /\ deb[d] \in Nat
        /\ pay <= cred[c] /\ pay <= deb[d] /\ pay \in Nat
    BY <1>1, <1>2, <1>5
  <2> QED
    BY <2>1, <2>2
<1>7. ASSUME NEW u \in Heap(cred'), NEW v \in Heap(deb')
      PROVE  /\ u \in Heap(cred) /\ cred'[u] \in Nat /\ cred'[u] <= cred[u]
             /\ v \in Heap(deb) /\ deb'[v] \in Nat /\ deb'[v] <= deb[v]
  <2>1. u \in Users /\ cred'[u] > 0 /\ v \in Users /\ deb'[v] > 0
    BY DEF Heap
  <2>2. cred'[u] \in Nat /\ cred'[u] <= cred[u] /\ cred[u] \in Nat
    BY <1>1, <1>2, <1>3, <2>1
  <2>3. deb'[v] \in Nat /\ deb'[v] <= deb[v] /\ deb[v] \in Nat
    BY <1>1, <1>2, <1>3, <2>1
  <2> QED
    BY <2>1, <2>2, <2>3 DEF Heap
<1>8. ASSUME NEW k \in 1..(n + 1), NEW u \in Heap(cred'), NEW v \in Heap(deb')
      PROVE  cred'[u] <= transfers'[k].amount \/ deb'[v] <= transfers'[k].amount
  <2>1. cred'[u] <= pay \/ deb'[v] <= pay
    BY <1>1, <1>2, <1>4, <1>7
  <2>2. pay <= transfers'[k].amount /\ transfers'[k].amount \in Nat
    BY <1>4, <1>5, <1>6
  <2> QED
    BY <1>4, <1>7, <2>1, <2>2
<1>9. Falling'
  BY <1>5, <1>8 DEF Falling
<1>10. LargestFirst'
  <2> SUFFICES ASSUME NEW j \in 1..(n + 1), NEW k \in 1..(n + 1), j < k
               PROVE  transfers'[j].amount >= transfers'[k].amount
    BY <1>5 DEF LargestFirst
  <2>1. j \in 1..n
    BY <1>5
  <2>2. CASE k \in 1..n
    BY <1>5, <2>1, <2>2 DEF LargestFirst
  <2>3. CASE k = n + 1
    BY <1>4, <1>5, <1>6, <2>1, <2>3
  <2> QED
    BY <1>5, <2>2, <2>3
<1> QED
  BY <1>9, <1>10

(***************************************************************************)
(* The plan proceeds from the largest payment to the smallest, although    *)
(* partially paid accounts go back into the heaps (simplify.go:78-107).    *)
(***************************************************************************)
THEOREM PlanFalls == Spec => []LargestFirst
<1>1. Init => Falling /\ LargestFirst
  BY DEF Init, Falling, LargestFirst
<1>2. Ind /\ Falling /\ LargestFirst /\ [Next]_vars => Falling' /\ LargestFirst'
  <2> SUFFICES ASSUME Ind, Falling, LargestFirst, [Next]_vars
               PROVE  Falling' /\ LargestFirst'
    OBVIOUS
  <2>1. CASE Pair
    BY <2>1, PairFalls DEF Pair
  <2>2. CASE UNCHANGED <<cred, deb, transfers>>
    BY <2>2 DEF Falling, LargestFirst, Heap
  <2> QED
    BY <2>1, <2>2 DEF Next, Return, vars
<1> QED
  BY <1>1, <1>2, IndAlways, PTL DEF Spec

(***************************************************************************)
(* The loop implements DebtPlan: every transfer is justified by what both  *)
(* sides have outstanding at that moment.                                  *)
(***************************************************************************)
THEOREM PlanRefined == Spec => ImplementsPlan
<1>1. Init => Plan!Init
  <2> SUFFICES ASSUME Init PROVE Plan!Init
    OBVIOUS
  <2>1. TypeOK
    BY InitInd DEF Ind
  <2> QED
    BY <2>1 DEF Init, Plan!Init, Outstanding, TypeOK
<1>2. Ind /\ [Next]_vars => [Plan!Next]_(Plan!vars)
  <2> SUFFICES ASSUME Ind, [Next]_vars PROVE [Plan!Next]_(Plan!vars)
    OBVIOUS
  <2>1. CASE Pair
    <3>1. PICK c \in Largest(cred), d \in Largest(deb) : PairLargest(d, c)
      BY <2>1 DEF Pair
    <3> DEFINE pay == Settled(d, c)
    <3>2. /\ c \in Heap(cred) /\ d \in Heap(deb)
          /\ pay \in 1..cred[c] /\ pay \in 1..deb[d]
      BY SettledBounds DEF Ind
    <3>3. /\ cred \in [Users -> Nat] /\ deb \in [Users -> Nat]
          /\ c \in Users /\ d \in Users /\ net[c] > 0 /\ net[d] < 0
          /\ net \in [Users -> Int]
      BY <3>2, NetBalancesAssumption DEF Ind, TypeOK, SidesKept, Heap
    <3>4. deb[c] = 0 /\ cred[d] = 0 /\ c # d
      BY <3>3 DEF Ind, SidesKept
    <3>5. /\ cred' = [cred EXCEPT ![c] = @ - pay]
          /\ deb' = [deb EXCEPT ![d] = @ - pay]
          /\ transfers' = Append(transfers, [from |-> d, to |-> c, amount |-> pay])
      BY <3>1 DEF PairLargest
    <3> HIDE DEF pay
    <3>6. Outstanding' = [Outstanding EXCEPT ![d] = @ + pay, ![c] = @ - pay]
      <4>1. pay \in Int
        BY <3>2
      <4>2. \A u \in Users : cred'[u] - deb'[u] =
                IF u = c THEN cred[c] - deb[c] - pay
                ELSE IF u = d THEN cred[d] - deb[d] + pay
                ELSE cred[u] - deb[u]
        BY <4>1, <3>3, <3>4, <3>5
      <4> QED
        BY <4>1, <4>2, <3>3, <3>4 DEF Outstanding
    <3>7. pay \in 1..Outstanding[c] /\ pay <= -Outstanding[d]
      BY <3>2, <3>3, <3>4 DEF Outstanding
    <3>8. Plan!Transfer(d, c, pay)
      BY <3>5, <3>6, <3>7 DEF Plan!Transfer
    <3> QED
      BY <3>3, <3>7, <3>8 DEF Plan!Next
  <2>2. CASE Return
    BY <2>2 DEF Return, Plan!vars, Outstanding
  <2>3. CASE UNCHANGED vars
    BY <2>3 DEF vars, Plan!vars, Outstanding
  <2> QED
    BY <2>1, <2>2, <2>3 DEF Next
<1> QED
  BY <1>1, <1>2, IndAlways, PTL DEF Spec, ImplementsPlan, Plan!Spec

-----------------------------------------------------------------------------
(* What the plan clears.  An iteration takes the same amount from both     *)
(* sides, so the difference of the two sides stays what the input had.     *)

Balance == Total(cred) - Total(deb) = Total(net)

Exhausted == pc = "returned" => Heap(cred) = {} \/ Heap(deb) = {}

LEMMA TotalType ==
    ASSUME NEW b \in [Users -> Int]
    PROVE  Total(b) \in Int /\ Users \in SUBSET Users
  BY UsersAssumption, SumType DEF Total

LEMMA TotalExcept ==
    ASSUME NEW b \in [Users -> Int], NEW u \in Users, NEW v \in Int
    PROVE  Total([b EXCEPT ![u] = v]) = Total(b) - b[u] + v
<1> DEFINE g == [b EXCEPT ![u] = v]
<1>1. /\ g \in [Users -> Int] /\ g[u] = v /\ Users \in SUBSET Users
      /\ \A y \in Users \ {u} : g[y] = b[y]
  OBVIOUS
<1> HIDE DEF g
<1>2. SumOver(g, Users) = SumOver(b, Users) - b[u] + g[u]
  BY <1>1, UsersAssumption, SumUpdate
<1> QED
  BY <1>1, <1>2, Zenon DEF g, Total

\* Amounts that are not negative have a total of zero only when none is left,
\* and an empty heap holds nothing.
LEMMA TotalOfHeap ==
    ASSUME NEW h \in [Users -> Nat]
    PROVE  /\ Total(h) \in Nat
           /\ Heap(h) = {} <=> Total(h) = 0
<1>1. h \in [Users -> Int] /\ Users \in SUBSET Users /\ \A u \in Users : h[u] >= 0
  OBVIOUS
<1>2. /\ Total(h) \in Int /\ Total(h) >= 0
      /\ \A u \in Users : h[u] <= Total(h)
  BY <1>1, UsersAssumption, SumType, SumTerm DEF Total
<1>3. ASSUME Heap(h) = {} PROVE Total(h) = 0
  <2>1. \A u \in Users : h[u] = 0
    BY <1>3 DEF Heap
  <2> QED
    BY <1>1, <2>1, UsersAssumption, SumZero DEF Total
<1>4. ASSUME Total(h) = 0 PROVE Heap(h) = {}
  BY <1>2, <1>4 DEF Heap
<1> QED
  BY <1>2, <1>3, <1>4

LEMMA InitBalance == Init => Balance /\ Exhausted
<1> SUFFICES ASSUME Init PROVE Balance
  BY DEF Init, Exhausted
<1>1. net \in [Users -> Int]
  BY NetBalancesAssumption DEF Init
<1>2. /\ cred \in [Users -> Int] /\ deb \in [Users -> Int]
      /\ \A u \in Users : cred[u] = net[u] + deb[u]
  BY <1>1 DEF Init, CredSlice, DebSlice
<1>3. Users \in SUBSET Users /\ IsFiniteSet(Users)
  BY UsersAssumption
<1>4. Total(cred) = Total(net) + Total(deb)
  BY <1>1, <1>2, <1>3, SumPlus DEF Total
<1> QED
  BY <1>1, <1>2, <1>4, TotalType DEF Balance

LEMMA PairBalance == Ind /\ Balance /\ Pair => Balance'
<1> SUFFICES ASSUME Ind, Balance, NEW c \in Largest(cred), NEW d \in Largest(deb),
                    PairLargest(d, c), UNCHANGED <<net, pc>>
             PROVE  Balance'
  BY DEF Pair
<1> DEFINE pay == Settled(d, c)
<1>1. /\ cred \in [Users -> Int] /\ deb \in [Users -> Int] /\ net \in [Users -> Int]
      /\ c \in Users /\ d \in Users /\ pay \in Int
  BY SettledBounds, NetBalancesAssumption DEF Ind, TypeOK, Heap
<1>2. /\ cred' = [cred EXCEPT ![c] = cred[c] - pay]
      /\ deb' = [deb EXCEPT ![d] = deb[d] - pay]
  BY <1>1 DEF PairLargest
<1> HIDE DEF pay
<1>3. cred[c] - pay \in Int /\ deb[d] - pay \in Int
  BY <1>1
<1>4. /\ Total(cred') = Total(cred) - cred[c] + (cred[c] - pay)
      /\ Total(deb') = Total(deb) - deb[d] + (deb[d] - pay)
  <2>1. Total([cred EXCEPT ![c] = cred[c] - pay])
            = Total(cred) - cred[c] + (cred[c] - pay)
    BY <1>1, <1>3, TotalExcept, Zenon
  <2>2. Total([deb EXCEPT ![d] = deb[d] - pay])
            = Total(deb) - deb[d] + (deb[d] - pay)
    BY <1>1, <1>3, TotalExcept, Zenon
  <2> QED
    BY <1>2, <2>1, <2>2, Zenon
<1>5. Total(cred) \in Int /\ Total(deb) \in Int /\ cred[c] \in Int /\ deb[d] \in Int
  BY <1>1, TotalType
<1>6. Total(cred)' - Total(deb)' = Total(net)
  BY <1>1, <1>4, <1>5 DEF Balance, Total
<1> QED
  BY <1>6, Zenon DEF Balance, Total

LEMMA StepBalance ==
    Ind /\ Balance /\ Exhausted /\ [Next]_vars => Balance' /\ Exhausted'
<1> SUFFICES ASSUME Ind, Balance, Exhausted, [Next]_vars PROVE Balance' /\ Exhausted'
  OBVIOUS
<1>1. CASE Pair
  BY <1>1, PairBalance DEF Pair, Exhausted
<1>2. ASSUME UNCHANGED <<net, cred, deb>> PROVE Balance'
  BY <1>2, Zenon DEF Balance, Total
<1>3. CASE Return \/ UNCHANGED vars
  BY <1>2, <1>3 DEF Return, vars, Exhausted, Heap
<1> QED
  BY <1>1, <1>3 DEF Next

LEMMA BalanceAlways == Spec => [](Ind /\ Balance /\ Exhausted)
  BY InitBalance, StepBalance, IndAlways, PTL DEF Spec

(***************************************************************************)
(* Settled plans settle: when the balances sum to zero nobody owes or is   *)
(* owed any more, and otherwise the smaller side is cleared completely, so *)
(* "as much debt as possible" (simplify.go:64-67).                         *)
(***************************************************************************)
THEOREM PlanClearsDebt == Spec => []ClearsDebt
<1>1. Ind /\ Balance /\ Exhausted => ClearsDebt
  <2> SUFFICES ASSUME Ind, Balance, Exhausted, pc = "returned"
               PROVE  /\ Total(net) >= 0 => Heap(deb) = {}
                      /\ Total(net) <= 0 => Heap(cred) = {}
                      /\ Total(cred) - Total(deb) = Total(net)
    BY DEF ClearsDebt
  <2>1. cred \in [Users -> Nat] /\ deb \in [Users -> Nat]
    BY DEF Ind, TypeOK
  <2>2. /\ Total(cred) \in Nat /\ Total(deb) \in Nat
        /\ Heap(cred) = {} <=> Total(cred) = 0
        /\ Heap(deb) = {} <=> Total(deb) = 0
    BY <2>1, TotalOfHeap
  <2>3. Total(cred) = 0 \/ Total(deb) = 0
    BY <2>2, Zenon DEF Exhausted
  <2>4. /\ Total(cred) - Total(deb) = Total(net)
        /\ Total(net) >= 0 => Total(deb) = 0
        /\ Total(net) <= 0 => Total(cred) = 0
    BY <2>2, <2>3 DEF Balance
  <2> QED
    BY <2>2, <2>4, Zenon
<1> QED
  BY <1>1, BalanceAlways, PTL

-----------------------------------------------------------------------------
(* Paying the plan.  Users post payments and other commits happen around   *)
(* the computation; Simplify itself only sees its argument, so all that    *)
(* was proved of Spec holds of SettleSpec too.                             *)

\* The transfers so far account for what the heaps no longer hold.
Positions ==
    \A u \in Users : net[u] + Effect(DOMAIN transfers, u) = cred[u] - deb[u]

FormsOfThePage ==
    /\ due \in [Users -> Int] /\ outdated \in BOOLEAN
    /\ posted \subseteq DOMAIN transfers
    /\ pc = "pairing" => posted = {}

\* Unless somebody interfered, the balances are those that were read, moved
\* by the forms posted so far.
Followed ==
    ~outdated => \A u \in Users : due[u] = net[u] + Effect(posted, u)

SettleInv == Positions /\ FormsOfThePage /\ Followed

LEMMA PlanTypes ==
    ASSUME TypeOK
    PROVE  /\ IsFiniteSet(DOMAIN transfers)
           /\ DOMAIN transfers = 1..Len(transfers) /\ Len(transfers) \in Nat
           /\ \A k \in DOMAIN transfers : /\ transfers[k] \in Transfers
                                          /\ transfers[k].from \in Users
                                          /\ transfers[k].to \in Users
                                          /\ transfers[k].amount \in Nat \ {0}
           /\ \A u : Changes(u) \in [DOMAIN transfers -> Int]
<1>1. transfers \in Seq(Transfers)
  BY DEF TypeOK
<1>2. DOMAIN transfers = 1..Len(transfers) /\ Len(transfers) \in Nat
  BY <1>1
<1>3. IsFiniteSet(DOMAIN transfers)
  <2>1. IsFiniteSet(1..Len(transfers))
    BY <1>2, FS_Interval
  <2> QED
    BY <1>2, <2>1, Zenon
<1>4. \A k \in DOMAIN transfers : transfers[k] \in Transfers
  BY <1>1
<1>5. \A t \in Transfers : t.from \in Users /\ t.to \in Users /\ t.amount \in Nat \ {0}
  BY DEF Transfers
<1>6. \A t \in Transfers : \A u : Change(t, u) \in Int
  BY <1>5 DEF Change
<1>7. \A u : Changes(u) \in [DOMAIN transfers -> Int]
  BY <1>4, <1>6 DEF Changes
<1> QED
  BY <1>2, <1>3, <1>4, <1>5, <1>7

\* The forms posted and those still to be posted make up the plan.
LEMMA EffectParts ==
    ASSUME TypeOK, NEW u, NEW K \in SUBSET (DOMAIN transfers)
    PROVE  /\ Effect(K, u) \in Int /\ Effect(DOMAIN transfers \ K, u) \in Int
           /\ Effect({}, u) = 0
           /\ Effect(DOMAIN transfers, u)
                 = Effect(K, u) + Effect(DOMAIN transfers \ K, u)
           /\ \A k \in DOMAIN transfers \ K :
                 Effect(K \cup {k}, u) = Effect(K, u) + Change(transfers[k], u)
<1>1. IsFiniteSet(DOMAIN transfers) /\ Changes(u) \in [DOMAIN transfers -> Int]
  BY PlanTypes
<1>2. PICK D : D = DOMAIN transfers
  OBVIOUS
<1>3. PICK f : f = Changes(u)
  OBVIOUS
<1>4. IsFiniteSet(D) /\ f \in [D -> Int] /\ K \in SUBSET D
  BY <1>1, <1>2, <1>3, Zenon
<1>5. /\ SumOver(f, K) \in Int /\ SumOver(f, D \ K) \in Int
      /\ SumOver(f, {}) = 0
  <2>1. D \ K \in SUBSET D
    OBVIOUS
  <2> QED
    BY <1>4, <2>1, SumType, SumEmpty, Zenon
<1>6. SumOver(f, D) = SumOver(f, K) + SumOver(f, D \ K)
  <2>1. D \in SUBSET D
    OBVIOUS
  <2> QED
    BY <1>4, <2>1, SumSplit
<1>7. \A k \in D \ K : SumOver(f, K \cup {k}) = SumOver(f, K) + f[k]
  BY <1>4, SumAdd, Zenon
<1>8. \A k \in D : f[k] = Change(transfers[k], u)
  BY <1>2, <1>3 DEF Changes
<1>9. ASSUME NEW k \in D \ K
      PROVE  SumOver(f, K \cup {k}) = SumOver(f, K) + Change(transfers[k], u)
  <2>1. f[k] = Change(transfers[k], u)
    BY <1>8
  <2>2. SumOver(f, K \cup {k}) = SumOver(f, K) + f[k]
    BY <1>7, Zenon
  <2> QED
    BY <2>1, <2>2, Zenon
<1> QED
  BY <1>2, <1>3, <1>5, <1>6, <1>9, Zenon DEF Effect

\* Appending a transfer adds what it changes.
LEMMA EffectAppend ==
    ASSUME TypeOK, NEW t \in Transfers, NEW u, transfers' = Append(transfers, t)
    PROVE  Effect(DOMAIN transfers, u)'
              = Effect(DOMAIN transfers, u) + Change(t, u)
<1> DEFINE D == DOMAIN transfers
           n == Len(transfers)
           E == DOMAIN transfers'
           f == Changes(u)
           g == [k \in E |-> Change(transfers'[k], u)]
<1>1. /\ IsFiniteSet(D) /\ f \in [D -> Int] /\ D = 1..n /\ n \in Nat
      /\ \A k \in D : transfers[k] \in Transfers
  BY PlanTypes
<1>2. /\ E = D \cup {n + 1} /\ n + 1 \notin D /\ transfers'[n + 1] = t
      /\ \A k \in D : transfers'[k] = transfers[k]
  BY <1>1 DEF TypeOK
<1>3. Change(t, u) \in Int /\ \A k \in D : Change(transfers[k], u) \in Int
  <2>1. \A x \in Transfers : x.amount \in Int
    BY DEF Transfers
  <2>2. \A x \in Transfers : Change(x, u) \in Int
    BY <2>1 DEF Change
  <2> QED
    BY <1>1, <2>2
<1>4. /\ \A k \in D : g[k] = f[k]
      /\ g[n + 1] = Change(t, u)
      /\ g \in [E -> Int]
  BY <1>2, <1>3 DEF Changes
<1>5. Effect(DOMAIN transfers, u) = SumOver(f, D)
  BY DEF Effect
<1>6. Effect(DOMAIN transfers, u)' = SumOver(g, E)
  BY DEF Effect, Changes
<1> HIDE DEF f, g, D, E, n
<1>7. PICK m : m = n + 1
  OBVIOUS
<1>8. E = D \cup {m} /\ m \in E \ D /\ D \in SUBSET E
  BY <1>2, <1>7
<1>9. IsFiniteSet(E)
  BY <1>1, <1>8, FS_AddElement, Zenon
<1>10. SumOver(g, D \cup {m}) = SumOver(g, D) + g[m]
  BY <1>4, <1>8, <1>9, SumAdd
<1>11. SumOver(g, D) = SumOver(f, D)
  BY <1>4, SumEqual
<1> QED
  BY <1>4, <1>5, <1>6, <1>7, <1>8, <1>10, <1>11, Zenon

LEMMA SettleStart == SettleInit => SettleInv
<1> SUFFICES ASSUME SettleInit PROVE SettleInv
  OBVIOUS
<1>1. Ind /\ TypeOK /\ transfers = << >> /\ posted = {} /\ due = net /\ outdated = FALSE
  BY InitInd DEF SettleInit, Init, Ind
<1>2. net \in [Users -> Int] /\ pc = "pairing"
  BY NetBalancesAssumption DEF SettleInit, Init
<1>3. {} \in SUBSET (DOMAIN transfers) /\ DOMAIN transfers = {}
  BY <1>1
<1>4. \A u : Effect({}, u) = 0
  BY <1>1, <1>3, EffectParts
<1>5. \A u \in Users : cred[u] - deb[u] = net[u]
  BY <1>2 DEF SettleInit, Init, CredSlice, DebSlice
<1>6. \A u : Effect(DOMAIN transfers, u) = 0
  BY <1>3, <1>4, Zenon
<1>7. \A u : Effect(posted, u) = 0
  BY <1>1, <1>4, Zenon
<1>8. Positions
  BY <1>2, <1>5, <1>6 DEF Positions
<1>9. Followed
  BY <1>1, <1>2, <1>7 DEF Followed
<1> QED
  BY <1>1, <1>2, <1>8, <1>9 DEF SettleInv, FormsOfThePage

\* The positions move with the plan.
LEMMA PairPositions ==
    ASSUME Ind, Positions, NEW c \in Largest(cred), NEW d \in Largest(deb),
           PairLargest(d, c), net' = net
    PROVE  Positions'
<1> DEFINE pay == Settled(d, c)
           t == [from |-> d, to |-> c, amount |-> pay]
<1>1. /\ c \in Heap(cred) /\ d \in Heap(deb) /\ pay \in Nat \ {0}
      /\ TypeOK /\ SidesKept
  BY SettledBounds DEF Ind, TypeOK, Heap
<1>2. /\ cred \in [Users -> Int] /\ deb \in [Users -> Int]
      /\ c \in Users /\ d \in Users /\ net \in [Users -> Int] /\ c # d
  BY <1>1, NetBalancesAssumption DEF TypeOK, SidesKept, Heap
<1>3. /\ cred' = [cred EXCEPT ![c] = @ - pay]
      /\ deb' = [deb EXCEPT ![d] = @ - pay]
      /\ transfers' = Append(transfers, t)
  BY DEF PairLargest
<1>4. t \in Transfers /\ t.from = d /\ t.to = c /\ t.amount = pay
  BY <1>1, <1>2 DEF Transfers
<1> HIDE DEF pay, t
<1>5. ASSUME NEW u \in Users
      PROVE  net[u] + Effect(DOMAIN transfers, u)' = cred'[u] - deb'[u]
  <2>1. Effect(DOMAIN transfers, u)' = Effect(DOMAIN transfers, u) + Change(t, u)
    BY <1>1, <1>3, <1>4, EffectAppend
  <2>2. net[u] + Effect(DOMAIN transfers, u) = cred[u] - deb[u]
    BY DEF Positions
  <2>3. DOMAIN transfers \in SUBSET (DOMAIN transfers)
    OBVIOUS
  <2>4. Effect(DOMAIN transfers, u) \in Int
    BY <1>1, <2>3, EffectParts
  <2>5. /\ Change(t, u) \in Int
        /\ cred'[u] - deb'[u] = cred[u] - deb[u] + Change(t, u)
    BY <1>1, <1>2, <1>3, <1>4 DEF Change
  <2>6. net[u] \in Int /\ cred[u] - deb[u] \in Int
    BY <1>2
  <2> QED
    BY <2>1, <2>2, <2>4, <2>5, <2>6
<1> QED
  BY <1>5, Zenon DEF Positions

\* Forms are posted only once the plan has been returned.
LEMMA NextSettleInv ==
    Ind /\ SettleInv /\ Next /\ UNCHANGED settleVars => SettleInv'
<1> SUFFICES ASSUME Ind, SettleInv, Next, UNCHANGED settleVars PROVE SettleInv'
  OBVIOUS
<1>1. due' = due /\ posted' = posted /\ outdated' = outdated /\ TypeOK
  BY DEF settleVars, Ind
<1>2. CASE Pair
  <2>1. PICK c \in Largest(cred), d \in Largest(deb) :
            PairLargest(d, c) /\ net' = net /\ pc' = pc /\ pc = "pairing"
    BY <1>2 DEF Pair
  <2>2. Positions'
    BY <2>1, PairPositions DEF SettleInv
  <2>3. posted = {}
    BY <2>1 DEF SettleInv, FormsOfThePage
  <2>4. FormsOfThePage'
    BY <1>1, <2>3 DEF SettleInv, FormsOfThePage
  <2>5. ASSUME ~outdated, NEW u \in Users PROVE due[u] = net[u] + Effect({}, u)'
    <3>1. Effect({}, u)' = 0 /\ Effect({}, u) = 0
      BY SumEmpty DEF Effect
    <3>2. due[u] = net[u] + Effect(posted, u)
      BY <2>5 DEF SettleInv, Followed
    <3>3. due[u] = net[u] + Effect({}, u)
      BY <2>3, <3>2, Zenon
    <3> QED
      BY <3>1, <3>3, Zenon
  <2>6. Followed'
    <3>1. ASSUME ~outdated, NEW u \in Users PROVE due[u] = net[u] + Effect(posted, u)'
      BY <1>1, <2>3, <2>5, <3>1, Zenon DEF Effect
    <3> QED
      BY <1>1, <2>1, <3>1, Zenon DEF Followed
  <2> QED
    BY <2>2, <2>4, <2>6 DEF SettleInv
<1>3. CASE Return
  <2>1. UNCHANGED <<net, cred, deb, transfers>>
    BY <1>3 DEF Return
  <2>2. Positions' /\ Followed'
    BY <1>1, <2>1, Zenon DEF SettleInv, Positions, Followed, Effect, Changes
  <2>3. FormsOfThePage'
    BY <1>1, <1>3 DEF Return, SettleInv, FormsOfThePage
  <2> QED
    BY <2>2, <2>3 DEF SettleInv
<1> QED
  BY <1>2, <1>3 DEF Next

\* A form posted for the first time does what the plan says.
LEMMA SettlePosts ==
    ASSUME Ind, SettleInv, NEW k \in DOMAIN transfers, Settle(k)
    PROVE  SettleInv'
<1> DEFINE t == transfers[k]
<1>1. /\ UNCHANGED <<net, cred, deb, transfers, pc>>
      /\ posted' = posted \cup {k} /\ outdated' = (outdated \/ k \in posted)
      /\ due' = Moved(due, t.from, t.to, t.amount)
      /\ pc = "returned"
  BY DEF Settle, vars
<1>2. /\ TypeOK /\ t.from \in Users /\ t.to \in Users /\ t.amount \in Nat \ {0}
      /\ posted \in SUBSET (DOMAIN transfers) /\ due \in [Users -> Int]
  BY PlanTypes DEF Ind, SettleInv, FormsOfThePage
<1>3. t.from # t.to
  <2>1. net[t.from] < 0 /\ net[t.to] > 0 /\ net \in [Users -> Int]
    BY NetBalancesAssumption DEF Ind, TypeOK, OneSided
  <2> QED
    BY <1>2, <2>1
<1> HIDE DEF t
<1>4. /\ due' \in [Users -> Int]
      /\ \A u \in Users : due'[u] = due[u] + Change(t, u)
      /\ \A u \in Users : Change(t, u) \in Int
  BY <1>1, <1>2, <1>3 DEF Moved, Change
<1>5. Positions'
  BY <1>1, Zenon DEF SettleInv, Positions, Effect, Changes
<1>6. FormsOfThePage'
  <2>1. outdated' \in BOOLEAN
    BY <1>1 DEF SettleInv, FormsOfThePage
  <2>2. posted' \subseteq DOMAIN transfers'
    BY <1>1, <1>2
  <2> QED
    BY <1>1, <1>4, <2>1, <2>2 DEF FormsOfThePage
<1>7. ASSUME ~outdated', NEW u \in Users
      PROVE  due'[u] = net[u] + Effect(posted \cup {k}, u)
  <2>1. ~outdated /\ k \in DOMAIN transfers \ posted
    BY <1>1, <1>7
  <2>2. Effect(posted \cup {k}, u) = Effect(posted, u) + Change(t, u)
    BY <1>2, <2>1, EffectParts DEF t
  <2>3. due[u] = net[u] + Effect(posted, u)
    BY <2>1 DEF SettleInv, Followed
  <2>4. Effect(posted, u) \in Int
    BY <1>2, EffectParts
  <2>5. net[u] \in Int
    BY NetBalancesAssumption DEF Ind, TypeOK
  <2> QED
    BY <1>4, <2>2, <2>3, <2>4, <2>5
<1>8. Followed'
  <2>1. ASSUME NEW u \in Users
        PROVE  (Effect(posted, u))' = Effect(posted \cup {k}, u)
    BY <1>1, Zenon DEF Effect, Changes
  <2> QED
    BY <1>1, <1>7, <2>1, Zenon DEF Followed
<1> QED
  BY <1>5, <1>6, <1>8 DEF SettleInv

LEMMA OtherCommitSettleInv == Ind /\ SettleInv /\ OtherCommit => SettleInv'
<1> SUFFICES ASSUME Ind, SettleInv, OtherCommit PROVE SettleInv'
  OBVIOUS
<1>1. /\ UNCHANGED <<net, cred, deb, transfers, pc, posted>>
      /\ outdated' = TRUE
  BY DEF OtherCommit, vars
<1>2. due' \in [Users -> Int]
  BY DEF OtherCommit, Moved, SettleInv, FormsOfThePage
<1>3. Positions'
  BY <1>1, Zenon DEF SettleInv, Positions, Effect, Changes
<1> QED
  BY <1>1, <1>2, <1>3 DEF SettleInv, FormsOfThePage, Followed

LEMMA SettleStep ==
    Ind /\ SettleInv /\ [SettleNext]_<<vars, settleVars>> => SettleInv'
<1> SUFFICES ASSUME Ind, SettleInv, [SettleNext]_<<vars, settleVars>> PROVE SettleInv'
  OBVIOUS
<1>1. CASE UNCHANGED <<vars, settleVars>>
  <2>1. UNCHANGED <<net, cred, deb, transfers, pc, due, posted, outdated>>
    BY <1>1 DEF vars, settleVars
  <2>2. Positions' /\ Followed'
    BY <2>1, Zenon DEF SettleInv, Positions, Followed, Effect, Changes
  <2>3. FormsOfThePage'
    BY <2>1 DEF SettleInv, FormsOfThePage
  <2> QED
    BY <2>2, <2>3 DEF SettleInv
<1> QED
  BY <1>1, NextSettleInv, SettlePosts, OtherCommitSettleInv DEF SettleNext

\* What the users do leaves the plan alone, so every theorem above about Spec
\* is one about SettleSpec.
THEOREM SettlingKeepsThePlan == SettleSpec => Spec
<1>1. SettleInit => Init
  BY DEF SettleInit
<1>2. [SettleNext]_<<vars, settleVars>> => [Next]_vars
  BY DEF SettleNext, Settle, OtherCommit
<1> QED
  BY <1>1, <1>2, PTL DEF SettleSpec, Spec

LEMMA SettleAlways == SettleSpec => [](Ind /\ SettleInv)
<1>1. SettleSpec => []Ind
  BY SettlingKeepsThePlan, IndAlways, PTL
<1> QED
  BY <1>1, SettleStart, SettleStep, PTL DEF SettleSpec

\* What the forms not yet posted still add to the two people of one of them.
LEMMA RestBounds ==
    ASSUME Ind, NEW R \in SUBSET (DOMAIN transfers), NEW k \in R
    PROVE  /\ transfers[k].amount <= Effect(R, transfers[k].from)
           /\ transfers[k].amount <= -Effect(R, transfers[k].to)
<1>1. /\ TypeOK /\ IsFiniteSet(DOMAIN transfers)
      /\ \A j \in DOMAIN transfers : /\ transfers[j].from \in Users
                                     /\ transfers[j].to \in Users
                                     /\ transfers[j].amount \in Nat
                                     /\ net[transfers[j].from] < 0
                                     /\ net[transfers[j].to] > 0
      /\ net \in [Users -> Int]
  BY PlanTypes, NetBalancesAssumption DEF Ind, TypeOK, OneSided
<1> DEFINE D == DOMAIN transfers
           d == transfers[k].from
           c == transfers[k].to
           f == Changes(d)
           g == Changes(c)
           h == [j \in D |-> -g[j]]
<1>2. f \in [D -> Int] /\ g \in [D -> Int]
  BY <1>1, PlanTypes
<1>3. /\ \A j \in R : f[j] >= 0
      /\ f[k] = transfers[k].amount
  BY <1>1 DEF Changes, Change
<1>4. /\ \A j \in R : g[j] <= 0
      /\ g[k] = -transfers[k].amount
  BY <1>1 DEF Changes, Change
<1>5. Effect(R, d) = SumOver(f, R) /\ Effect(R, c) = SumOver(g, R)
  BY DEF Effect
<1>6. transfers[k].amount \in Int
  BY <1>1
<1> HIDE DEF f, g
<1>7. /\ h \in [D -> Int] /\ \A j \in R : h[j] >= 0 /\ h[j] = -g[j]
      /\ h[k] = transfers[k].amount
  BY <1>2, <1>4, <1>6
<1> HIDE DEF h, D
<1>8. R \in SUBSET D /\ IsFiniteSet(D)
  BY <1>1 DEF D
<1>9. f[k] <= SumOver(f, R)
  BY <1>2, <1>3, <1>8, SumTerm
<1>10. h[k] <= SumOver(h, R)
  BY <1>7, <1>8, SumTerm
<1>11. SumOver(h, R) = -SumOver(g, R)
  BY <1>2, <1>7, <1>8, SumNegate
<1> QED
  BY <1>3, <1>5, <1>7, <1>9, <1>10, <1>11, Zenon

(***************************************************************************)
(* The forms of a page can be paid one by one, in any order: what is still *)
(* unpaid leads exactly to the positions Simplify had in mind, and no form *)
(* asks for more than its sender owes or its receiver is owed, as long as  *)
(* nobody posts a form twice or changes the balances (actions.go:143-176). *)
(***************************************************************************)
THEOREM FormsStayGood == SettleSpec => []PlanStaysGood
<1>1. Ind /\ SettleInv => PlanStaysGood
  <2> SUFFICES ASSUME Ind, SettleInv, ~outdated
               PROVE  LET rest == DOMAIN transfers \ posted
                      IN  /\ \A u \in Users : due[u] + Effect(rest, u) = cred[u] - deb[u]
                          /\ \A k \in rest :
                                /\ transfers[k].amount <= -due[transfers[k].from]
                                /\ transfers[k].amount <= due[transfers[k].to]
    BY DEF PlanStaysGood
  <2> DEFINE rest == DOMAIN transfers \ posted
  <2>1. /\ TypeOK /\ posted \in SUBSET (DOMAIN transfers)
        /\ net \in [Users -> Int] /\ due \in [Users -> Int]
        /\ cred \in [Users -> Nat] /\ deb \in [Users -> Nat]
    BY NetBalancesAssumption DEF Ind, TypeOK, SettleInv, FormsOfThePage
  <2>2. ASSUME NEW u \in Users PROVE due[u] + Effect(rest, u) = cred[u] - deb[u]
    <3>1. /\ Effect(posted, u) \in Int /\ Effect(rest, u) \in Int
          /\ Effect(DOMAIN transfers, u) = Effect(posted, u) + Effect(rest, u)
      BY <2>1, EffectParts
    <3>2. /\ due[u] = net[u] + Effect(posted, u)
          /\ net[u] + Effect(DOMAIN transfers, u) = cred[u] - deb[u]
      BY DEF SettleInv, Followed, Positions
    <3>3. net[u] \in Int
      BY <2>1
    <3> HIDE DEF rest
    <3> QED
      BY <3>1, <3>2, <3>3
  <2>3. ASSUME NEW k \in rest
        PROVE  /\ transfers[k].amount <= -due[transfers[k].from]
               /\ transfers[k].amount <= due[transfers[k].to]
    <3> DEFINE d == transfers[k].from
               c == transfers[k].to
               a == transfers[k].amount
    <3>1. a <= Effect(rest, d) /\ a <= -Effect(rest, c)
      <4>1. rest \in SUBSET (DOMAIN transfers)
        OBVIOUS
      <4> QED
        BY <4>1, RestBounds
    <3>2. d \in Users /\ c \in Users /\ a \in Nat
      BY <2>1, PlanTypes
    <3>3. net[d] < 0 /\ net[c] > 0
      BY DEF Ind, OneSided
    <3> HIDE DEF a, c, d
    <3>4. cred[d] = 0 /\ deb[c] = 0 /\ deb[d] \in Nat /\ cred[c] \in Nat
      BY <2>1, <3>2, <3>3 DEF Ind, SidesKept
    <3>5. /\ due[d] + Effect(rest, d) = cred[d] - deb[d]
          /\ due[c] + Effect(rest, c) = cred[c] - deb[c]
      BY <2>2, <3>2
    <3>6. /\ Effect(rest, d) \in Int /\ Effect(rest, c) \in Int
          /\ due[d] \in Int /\ due[c] \in Int
      BY <2>1, <3>2, EffectParts
    <3> HIDE DEF rest
    <3>7. a <= -due[d] /\ a <= due[c]
      BY <3>1, <3>2, <3>4, <3>5, <3>6
    <3> QED
      BY <3>7 DEF a, c, d
  <2> QED
    BY <2>2, <2>3
<1> QED
  BY <1>1, SettleAlways, PTL
=============================================================================
