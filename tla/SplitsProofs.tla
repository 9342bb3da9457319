---------------------------- MODULE SplitsProofs ----------------------------
(***************************************************************************)
(* What holds of Compute for every total, every list of participants and   *)
(* every width of the integers.                                            *)
(***************************************************************************)
EXTENDS EditForm, SumProofs, FiniteSetTheorems, TLAPS

LEMMA DivBounds ==
    ASSUME NEW a \in Int, NEW b \in Nat \ {0}
    PROVE  /\ a \div b \in Int
           /\ a % b \in 0..b-1
           /\ a = b * (a \div b) + (a % b)
  OBVIOUS

LEMMA ProductMonotone ==
    ASSUME NEW x \in Int, NEW y \in Int, NEW b \in Nat, x <= y
    PROVE  b * x <= b * y
  OBVIOUS

LEMMA WrapType ==
    ASSUME NEW x \in Int
    PROVE  Wrap(x) \in Int64
  BY MaxIntAssumption DEF Wrap, Int64

LEMMA WrapInRange ==
    ASSUME NEW x \in Int64
    PROVE  Wrap(x) = x
<1> DEFINE m == 2 * (MaxInt + 1)
           y == x + MaxInt + 1
           q == y \div m
           r == y % m
<1>1. m \in Nat \ {0} /\ y \in 0..m-1
  BY MaxIntAssumption DEF Int64
<1> HIDE DEF m, y
<1>2. q \in Int /\ r \in 0..m-1 /\ y = m * q + r
  BY <1>1, DivBounds
<1> HIDE DEF q, r
<1>3. ~(q >= 1)
  <2> SUFFICES ASSUME q >= 1 PROVE FALSE
    OBVIOUS
  <2>1. m * 1 <= m * q
    BY <1>1, <1>2, ProductMonotone
  <2> QED
    BY <2>1, <1>1, <1>2
<1>4. ~(q <= -1)
  <2> SUFFICES ASSUME q <= -1 PROVE FALSE
    OBVIOUS
  <2>1. m * q <= m * (-1)
    BY <1>1, <1>2, ProductMonotone
  <2> QED
    BY <2>1, <1>1, <1>2
<1>5. q = 0
  BY <1>2, <1>3, <1>4
<1>6. r = y
  BY <1>1, <1>2, <1>5
<1> QED
  BY <1>6, MaxIntAssumption DEF Wrap, m, y, r, Int64

\* The quotient is within one of the exact fraction.
LEMMA QuotientBounds ==
    ASSUME NEW a \in Nat, NEW b \in Nat \ {0}
    PROVE  /\ a \div b \in Nat
           /\ b * (a \div b) <= a
           /\ a - (b - 1) <= b * (a \div b)
<1>1. /\ a \div b \in Int /\ a % b \in 0..b-1
      /\ a = b * (a \div b) + (a % b)
  BY DivBounds
<1>2. ASSUME a \div b <= -1 PROVE FALSE
  <2>1. b * (a \div b) <= b * (-1)
    BY <1>1, <1>2, ProductMonotone
  <2> QED
    BY <2>1, <1>1
<1>3. a \div b \in Nat
  BY <1>1, <1>2
<1>4. b * (a \div b) \in Int
  BY <1>1
<1> QED
  BY <1>1, <1>3, <1>4

(***************************************************************************)
(* The overflow guard is exact enough: a product it lets through is        *)
(* representable, so num never wraps (compute.go:179-183).                 *)
(***************************************************************************)
THEOREM GuardedProductFits ==
    ASSUME call.total \in Nat \ {0}, NEW v \in Nat, ~Overflows(v)
    PROVE  /\ call.total * v \in 0..MaxInt
           /\ Wrap(call.total * v) = call.total * v
<1> DEFINE t == call.total
<1>1. t * v \in 0..MaxInt
  <2>1. CASE v = 0
    BY <2>1, MaxIntAssumption
  <2>2. CASE v > 0
    <3>1. t <= MaxInt \div v
      BY <2>2, MaxIntAssumption, DivBounds DEF Overflows
    <3>2. v * (MaxInt \div v) <= MaxInt /\ MaxInt \div v \in Nat
      <4>1. v \in Nat \ {0} /\ MaxInt \in Nat
        BY <2>2, MaxIntAssumption
      <4> QED
        BY <4>1, QuotientBounds, Zenon
    <3> DEFINE q == MaxInt \div v
    <3>3. v * t <= v * q
      BY <3>1, <3>2, ProductMonotone
    <3>4. v * t <= MaxInt
      <4> HIDE DEF q
      <4>1. q \in Nat /\ v * q <= MaxInt
        BY <3>2 DEF q
      <4>2. v * q \in Int /\ v * t \in Int
        BY <4>1
      <4> QED
        BY <4>1, <4>2, <3>3, MaxIntAssumption
    <3> QED
      BY <3>4, MaxIntAssumption
  <2> QED
    BY <2>1, <2>2
<1>2. t * v \in Int64
  BY <1>1, MaxIntAssumption DEF Int64
<1> QED
  BY <1>1, <1>2, WrapInRange

LEMMA QuotientType ==
    ASSUME NEW a \in Int, NEW b \in Int \ {0}
    PROVE  Quotient(a, b) \in Int /\ Remainder(a, b) \in Int
<1>1. CASE b > 0
  BY <1>1, DivBounds DEF Quotient, Remainder
<1>2. CASE b < 0
  <2> DEFINE c == -b
  <2>1. c \in Nat \ {0}
    BY <1>2
  <2> HIDE DEF c
  <2>2. a \div c \in Int /\ a % c \in Int
    BY <2>1, DivBounds
  <2> QED
    BY <2>2, <1>2 DEF Quotient, Remainder, c
<1> QED
  BY <1>1, <1>2

-----------------------------------------------------------------------------
(* The inductive invariant *)

\* The true sum of the first j values, and how many leftover cents the first
\* j participants of an equal split take.
UpTo(j) == IF j = 0 THEN 0 ELSE prefix[j]

Leftover == call.total - Base * N

Taken(j) == IF j <= Leftover THEN j ELSE Leftover

EnterInv ==
    pc = "enter" => /\ i = 0 /\ sum = 0 /\ given = 0 /\ assigned = 0 /\ k = 0
                    /\ consumed = {} /\ prefix = << >>

Guarded ==
    pc \in {"equal", "sum", "divide", "pennies"} =>
        call.total \in Nat \ {0} /\ N \in Nat \ {0}

EqualInv ==
    pc = "equal" => sum = 0 /\ prefix = << >> /\ given = Base * i + Taken(i)

\* The running sums grow from value to value.
PrefixInv ==
    \A j \in 1..Len(prefix) :
        /\ j <= N
        /\ Value(j) \in Nat
        /\ prefix[j] \in Nat
        /\ prefix[j] = UpTo(j - 1) + Value(j)
        /\ prefix[j] <= TrueSum

SumInv ==
    pc = "sum" => /\ Len(prefix) = i /\ assigned = 0 /\ k = 0 /\ consumed = {}
                  /\ given = IF call.st = "exact" THEN TrueSum ELSE 0

DivideInv ==
    pc \in {"divide", "pennies"} =>
        Len(prefix) = N /\ denom = sum /\ denom # 0

\* What has been assigned is within i of the exact share of the first i values.
AllotInv ==
    pc = "divide" =>
        /\ consumed = {} /\ k = 0
        /\ ~Wrapped =>
              /\ assigned = given /\ given \in Nat
              /\ denom * given <= call.total * UpTo(i)
              /\ call.total * UpTo(i) - (denom - 1) * i <= denom * given

PennyInv ==
    pc = "pennies" =>
        /\ IsFiniteSet(consumed) /\ Cardinality(consumed) \in Nat
        /\ ~Wrapped => /\ assigned \in 0..call.total
                       /\ call.total - assigned \in 0..N-1
                       /\ k \in 0..(call.total - assigned)
                       /\ Cardinality(consumed) = k
                       /\ given = assigned + k

Phases == /\ EnterInv /\ Guarded /\ EqualInv /\ PrefixInv /\ SumInv
          /\ DivideInv /\ AllotInv /\ PennyInv

\* What is handed out is the total; SharesInv below turns it into the sum of out.
Reconciled == pc = "done" /\ ~Wrapped => given = call.total

Ind == TypeOK /\ Phases /\ Reconciled

-----------------------------------------------------------------------------

\* What TypeOK says of the arguments.
LEMMA ArgumentTypes ==
    ASSUME TypeOK
    PROVE  /\ N \in Nat /\ DOMAIN call.in = 1..N
           /\ call.total \in Int64 /\ call.total \in Int
           /\ \A j \in 1..N : Value(j) \in Int64 /\ Value(j) \in Int
<1>1. call.in \in Seq(Inputs) /\ call.total \in Int64
  BY DEF TypeOK, Arguments
<1>2. N \in Nat /\ DOMAIN call.in = 1..N
  BY <1>1 DEF N
<1>3. \A j \in 1..N : call.in[j] \in Inputs
  BY <1>1, <1>2 DEF N
<1>4. \A n \in Int64 : n \in Int
  BY MaxIntAssumption DEF Int64
<1> QED
  BY <1>1, <1>2, <1>3, <1>4 DEF Value, Inputs

\* The last running sum, and how appending a value moves it.
LEMMA TrueSumType ==
    ASSUME TypeOK, PrefixInv
    PROVE  TrueSum \in Nat /\ TrueSum = UpTo(Len(prefix)) /\ UpTo(0) = 0
<1>1. prefix \in Seq(Int) /\ Len(prefix) \in Nat
  BY DEF TypeOK
<1>2. CASE prefix = << >>
  BY <1>2 DEF TrueSum, UpTo
<1>3. CASE prefix # << >>
  <2>1. Len(prefix) \in 1..Len(prefix)
    BY <1>1, <1>3
  <2> QED
    BY <2>1, <1>3 DEF PrefixInv, TrueSum, UpTo
<1> QED
  BY <1>2, <1>3

\* How a call of Compute starts, the first one and any later one.
Start ==
    /\ call \in Arguments
    /\ pc = "enter" /\ err = "none"
    /\ i = 0 /\ sum = 0 /\ denom = 0 /\ assigned = 0 /\ k = 0
    /\ out = [j \in 1..N |-> 0]
    /\ remainder = [j \in 1..N |-> 0]
    /\ consumed = {}
    /\ prefix = << >> /\ given = 0

LEMMA InitStart == Init => Start
  BY CallsAssumption DEF Init, Start

LEMMA StartInd == Start => Ind
<1> SUFFICES ASSUME Start PROVE Ind
  OBVIOUS
<1>1. call \in Arguments
  BY DEF Start
<1>2. N \in Nat
  BY <1>1 DEF Arguments, N
<1>3. 0 \in Int64
  BY MaxIntAssumption DEF Int64
<1>4. TypeOK
  BY <1>1, <1>2, <1>3 DEF Start, TypeOK
<1>5. Phases
  BY DEF Start, Phases, EnterInv, Guarded, EqualInv, PrefixInv, SumInv, DivideInv,
         AllotInv, PennyInv
<1>6. Reconciled
  BY DEF Start, Reconciled
<1> QED
  BY <1>4, <1>5, <1>6 DEF Ind

LEMMA FailInd ==
    ASSUME Ind, NEW e, Fail(e),
           e \in {"ErrNonPositiveTotal", "ErrEmptyInputs", "ErrDuplicateUser",
                  "ErrInvalidSplitType", "ErrNegativeValue", "ErrBadSplit", "ErrOverflow"}
    PROVE  Ind'
<1> USE DEF Fail, inVars, sumVars, outVars
<1>1. TypeOK'
  BY DEF Ind, TypeOK, N
<1>2. Phases'
  BY DEF Ind, Phases, EnterInv, Guarded, EqualInv, PrefixInv, SumInv, DivideInv,
         AllotInv, PennyInv, UpTo, TrueSum, N, Value
<1>3. Reconciled'
  BY DEF Ind, Reconciled
<1> QED
  BY <1>1, <1>2, <1>3 DEF Ind

\* A loop that has handed out the total may return.
LEMMA ReturnInd ==
    ASSUME Ind, Return, ~Wrapped => given = call.total
    PROVE  Ind'
<1> USE DEF Return, inVars, sumVars, outVars
<1>1. TypeOK'
  BY DEF Ind, TypeOK, N
<1>2. Phases'
  BY DEF Ind, Phases, EnterInv, Guarded, EqualInv, PrefixInv, SumInv, DivideInv,
         AllotInv, PennyInv, UpTo, TrueSum, N, Value
<1>3. Reconciled'
  BY DEF Ind, Reconciled, Wrapped, TrueSum
<1> QED
  BY <1>1, <1>2, <1>3 DEF Ind

LEMMA EnterInd == Ind /\ Enter => Ind'
<1> SUFFICES ASSUME Ind, Enter PROVE Ind'
  OBVIOUS
<1>1. CASE \E e : Fail(e) /\ e \in {"ErrNonPositiveTotal", "ErrEmptyInputs",
                                    "ErrDuplicateUser", "ErrInvalidSplitType"}
  BY <1>1, FailInd
<1>2. CASE /\ call.total > 0 /\ N # 0 /\ pc' \in {"equal", "sum"}
           /\ UNCHANGED <<inVars, err, i, sumVars, outVars>>
  <2> USE <1>2 DEF inVars, sumVars, outVars
  <2>1. TypeOK'
    BY DEF Ind, TypeOK, N
  <2>2. N \in Nat /\ call.total \in Int
    BY ArgumentTypes DEF Ind
  <2>3. Base \in Int /\ Leftover \in Nat
    <3>1. Base \in Nat /\ N * Base <= call.total
      <4>1. N \in Nat \ {0} /\ call.total \in Nat
        BY <1>2, <2>2
      <4> QED
        BY <4>1, QuotientBounds, Zenon DEF Base
    <3>2. N * Base = Base * N
      BY <3>1, <2>2
    <3> QED
      BY <3>1, <3>2, <2>2 DEF Leftover
  <2>4. Base * 0 + Taken(0) = 0
    BY <2>3 DEF Taken
  <2>5. EqualInv'
    BY <2>4, Zenon DEF Ind, Phases, EnterInv, EqualInv, Enter, Taken, Leftover, Base, N
  <2>6. /\ EnterInv' /\ Guarded' /\ PrefixInv' /\ SumInv' /\ DivideInv'
        /\ AllotInv' /\ PennyInv'
    BY <2>2 DEF Enter, Ind, Phases, EnterInv, Guarded, PrefixInv, SumInv, DivideInv,
         AllotInv, PennyInv, UpTo, TrueSum, N, Value
  <2>7. Reconciled'
    BY DEF Reconciled
  <2> QED
    BY <2>1, <2>5, <2>6, <2>7 DEF Ind, Phases
<1> QED
  BY <1>1, <1>2, ArgumentTypes DEF Enter, Ind

\* The remainder of an equal split is smaller than the number of participants.
LEMMA LeftoverBounds ==
    ASSUME call.total \in Nat, N \in Nat \ {0}
    PROVE  Base \in Nat /\ Leftover \in 0..N-1
<1>1. /\ call.total \div N \in Int /\ call.total % N \in 0..N-1
      /\ call.total = N * (call.total \div N) + (call.total % N)
  <2>1. call.total \in Int
    OBVIOUS
  <2> QED
    BY <2>1, DivBounds, Zenon
<1>2. call.total \div N \in Nat
  BY QuotientBounds, Zenon
<1>3. N * Base = Base * N /\ Base \in Nat
  BY <1>2 DEF Base
<1> QED
  BY <1>1, <1>3 DEF Base, Leftover

LEMMA EqualShareInd == Ind /\ EqualShare => Ind'
<1> SUFFICES ASSUME Ind, EqualShare PROVE Ind'
  OBVIOUS
<1> USE DEF inVars, sumVars, outVars
<1>1. /\ call.total \in Nat \ {0} /\ N \in Nat \ {0} /\ i \in 0..N-1
      /\ given = Base * i + Taken(i) /\ pc = "equal"
  BY DEF Ind, Phases, Guarded, EqualInv, EqualShare, TypeOK
<1>2. Base \in Nat /\ Leftover \in 0..N-1
  BY <1>1, LeftoverBounds
<1>3. EqualAmount(i + 1) = Base + (IF i + 1 <= Leftover THEN 1 ELSE 0)
  BY DEF EqualAmount, Leftover
<1>4. EqualAmount(i + 1) \in Int
  BY <1>2, <1>3
<1>5. TypeOK'
  BY <1>1, <1>4 DEF EqualShare, Ind, TypeOK, N
<1>6. given' = Base * (i + 1) + Taken(i + 1)
  <2>1. Base * (i + 1) = Base * i + Base
    BY <1>1, <1>2
  <2>2. Base * i \in Int
    BY <1>1, <1>2
  <2>3. given' = given + EqualAmount(i + 1)
    BY DEF EqualShare
  <2> QED
    BY <2>1, <2>2, <2>3, <1>1, <1>2, <1>3 DEF Taken
<1>7. EqualInv'
  <2>1. i' = i + 1 /\ call' = call
    BY DEF EqualShare
  <2>2. (Base * i + Taken(i))' = Base * (i + 1) + Taken(i + 1)
    BY <2>1, Zenon DEF Base, Taken, Leftover, N
  <2> QED
    BY <1>1, <1>6, <2>2 DEF EqualShare, EqualInv, Ind, Phases
<1>8. /\ EnterInv' /\ Guarded' /\ PrefixInv' /\ SumInv' /\ DivideInv'
      /\ AllotInv' /\ PennyInv'
  BY <1>1 DEF EqualShare, Ind, Phases, EnterInv, Guarded, PrefixInv, SumInv, DivideInv,
       AllotInv, PennyInv, UpTo, TrueSum, N, Value
<1>9. Reconciled'
  BY DEF Reconciled, EqualShare
<1> QED
  BY <1>5, <1>7, <1>8, <1>9 DEF Ind, Phases

LEMMA EqualEndInd == Ind /\ EqualEnd => Ind'
<1> SUFFICES ASSUME Ind, EqualEnd PROVE Ind'
  OBVIOUS
<1>1. /\ call.total \in Nat \ {0} /\ N \in Nat \ {0}
      /\ given = Base * N + Taken(N)
  BY DEF Ind, Phases, Guarded, EqualInv, EqualEnd
<1>2. Base \in Nat /\ Leftover \in 0..N-1
  BY <1>1, LeftoverBounds
<1>3. Taken(N) = Leftover
  BY <1>1, <1>2 DEF Taken
<1>4. given = call.total
  <2>1. Base * N \in Int
    BY <1>1, <1>2
  <2> QED
    BY <2>1, <1>1, <1>3 DEF Leftover
<1> QED
  BY <1>4, ReturnInd DEF EqualEnd

LEMMA AddValueInd == Ind /\ AddValue => Ind'
<1> SUFFICES ASSUME Ind, AddValue PROVE Ind'
  OBVIOUS
<1>1. CASE Fail("ErrNegativeValue")
  BY <1>1, FailInd
<1>2. CASE ~(Value(i + 1) < 0)
  <2> DEFINE v == Value(i + 1)
  <2>1. /\ sum' = Wrap(sum + v)
        /\ prefix' = Append(prefix, TrueSum + v)
        /\ i' = i + 1
        /\ IF call.st = "exact"
           THEN out' = [out EXCEPT ![i + 1] = v] /\ given' = given + v
           ELSE UNCHANGED <<out, given>>
        /\ UNCHANGED <<inVars, pc, err, denom, remainder, assigned, consumed, k>>
        /\ pc = "sum" /\ i < N
    BY <1>2 DEF AddValue
  <2>2. /\ N \in Nat \ {0} /\ i \in 0..N-1 /\ v \in Nat
        /\ \A x \in Int64 : x \in Int
    BY <1>2, <2>1, ArgumentTypes, MaxIntAssumption, SMTT(30) DEF Ind, TypeOK, Int64
  <2>3. /\ TrueSum \in Nat /\ TrueSum = UpTo(Len(prefix)) /\ Len(prefix) = i
        /\ prefix \in Seq(Int) /\ sum \in Int64
    BY <2>1, TrueSumType DEF Ind, Phases, SumInv, TypeOK
  <2>4. /\ Len(prefix') = i + 1
        /\ \A j \in 1..i : prefix'[j] = prefix[j]
        /\ prefix'[i + 1] = TrueSum + v
        /\ prefix' \in Seq(Int)
    BY <2>1, <2>2, <2>3
  <2>5. TrueSum' = TrueSum + v
    BY <2>2, <2>4 DEF TrueSum
  <2>6. call' = call /\ N' = N /\ \A j \in 1..N : Value(j)' = Value(j)
    BY <2>1 DEF inVars, N, Value
  <2>7. TypeOK'
    <3>1. sum' \in Int64
      BY <2>1, <2>2, <2>3, WrapType
    <3>2. out' \in [1..N -> Int] /\ given' \in Int
      <4>1. out \in [1..N -> Int] /\ given \in Int
        BY DEF Ind, TypeOK
      <4> HIDE DEF v
      <4>2. CASE call.st = "exact"
        BY <4>1, <4>2, <2>1, <2>2
      <4>3. CASE call.st # "exact"
        BY <4>1, <4>3, <2>1
      <4> QED
        BY <4>2, <4>3
    <3>3. i' \in 0..N
      BY <2>1, <2>2
    <3> QED
      BY <3>1, <3>2, <3>3, <2>1, <2>4, <2>6 DEF Ind, TypeOK, inVars
  <2>8. PrefixInv'
    <3> SUFFICES ASSUME NEW j \in 1..(i + 1)
                 PROVE  /\ j <= N /\ Value(j)' \in Nat /\ prefix'[j] \in Nat
                        /\ prefix'[j] = UpTo(j - 1)' + Value(j)'
                        /\ prefix'[j] <= TrueSum'
      BY <2>4, <2>6 DEF PrefixInv
    <3>1. UpTo(j - 1)' = UpTo(j - 1)
      BY <2>2, <2>4 DEF UpTo
    <3>2. j \in 1..N
      BY <2>2
    <3>3. CASE j = i + 1
      BY <3>1, <3>2, <3>3, <2>2, <2>3, <2>4, <2>5, <2>6
    <3>4. CASE j \in 1..i
      <4>1. /\ Value(j) \in Nat /\ prefix[j] \in Nat
            /\ prefix[j] = UpTo(j - 1) + Value(j) /\ prefix[j] <= TrueSum
        BY <3>4, <2>3 DEF Ind, Phases, PrefixInv
      <4> QED
        BY <4>1, <3>1, <3>2, <3>4, <2>2, <2>3, <2>4, <2>5, <2>6
    <3> QED
      BY <3>3, <3>4, <2>2
  <2>9. SumInv'
    BY <2>1, <2>2, <2>3, <2>4, <2>5, <2>6 DEF Ind, Phases, SumInv
  <2>10. /\ EnterInv' /\ Guarded' /\ EqualInv' /\ DivideInv' /\ AllotInv' /\ PennyInv'
         /\ Reconciled'
    BY <2>1, <2>6 DEF Ind, Phases, EnterInv, Guarded, EqualInv, DivideInv, AllotInv,
         PennyInv, Reconciled
  <2> QED
    BY <2>7, <2>8, <2>9, <2>10 DEF Ind, Phases
<1> QED
  BY <1>1, <1>2 DEF AddValue

LEMMA ExactEndInd == Ind /\ ExactEnd => Ind'
<1> SUFFICES ASSUME Ind, ExactEnd PROVE Ind'
  OBVIOUS
<1>1. CASE Fail("ErrBadSplit")
  BY <1>1, FailInd
<1>2. CASE sum = call.total /\ Return
  <2>1. ~Wrapped => given = call.total
    BY <1>2 DEF ExactEnd, Added, Ind, Phases, SumInv, Wrapped
  <2> QED
    BY <2>1, <1>2, ReturnInd
<1> QED
  BY <1>1, <1>2 DEF ExactEnd

\* The division starts with nothing assigned.
LEMMA DivideInd ==
    ASSUME Ind, pc = "sum", i = N, call.st # "exact", sum # 0, Divide(sum)
    PROVE  Ind'
<1> USE DEF Divide, inVars, sumVars
<1>1. /\ call.total \in Nat \ {0} /\ N \in Nat \ {0} /\ given = 0
      /\ Len(prefix) = N /\ assigned = 0 /\ k = 0 /\ consumed = {} /\ sum \in Int
  BY MaxIntAssumption
     DEF Ind, Phases, Guarded, SumInv, TypeOK, Int64
<1>2. TypeOK'
  BY <1>1 DEF Ind, TypeOK, N
<1>3. AllotInv'
  <2>1. sum * 0 = 0 /\ call.total * 0 = 0 /\ (sum - 1) * 0 = 0
    BY <1>1
  <2>2. /\ i' = 0 /\ denom' = sum /\ given' = 0 /\ assigned' = 0 /\ call' = call
        /\ UpTo(i)' = 0 /\ consumed' = {} /\ k' = 0
    BY <1>1 DEF UpTo
  <2> QED
    BY <2>1, <2>2 DEF AllotInv
<1>4. PrefixInv'
  BY DEF Ind, Phases, PrefixInv, UpTo, TrueSum, N, Value
<1>5. /\ EnterInv' /\ Guarded' /\ EqualInv' /\ SumInv' /\ DivideInv' /\ PennyInv'
      /\ Reconciled'
  BY <1>1 DEF EnterInv, Guarded, EqualInv, SumInv, DivideInv, PennyInv, Reconciled, N
<1> QED
  BY <1>2, <1>3, <1>4, <1>5 DEF Ind, Phases

LEMMA PercentageEndInd == Ind /\ PercentageEnd => Ind'
<1> SUFFICES ASSUME Ind, PercentageEnd PROVE Ind'
  OBVIOUS
<1>1. CASE Fail("ErrBadSplit")
  BY <1>1, FailInd
<1>2. CASE sum = FullBps /\ Divide(FullBps)
  <2>1. sum # 0
    BY <1>2, FullBpsAssumption, MaxIntAssumption
  <2> QED
    BY <2>1, <1>2, DivideInd DEF PercentageEnd, Added
<1> QED
  BY <1>1, <1>2 DEF PercentageEnd

LEMMA SharesEndInd == Ind /\ SharesEnd => Ind'
<1> SUFFICES ASSUME Ind, SharesEnd PROVE Ind'
  OBVIOUS
<1>1. CASE Fail("ErrBadSplit")
  BY <1>1, FailInd
<1>2. CASE sum # 0 /\ Divide(sum)
  BY <1>2, DivideInd DEF SharesEnd, Added
<1> QED
  BY <1>1, <1>2 DEF SharesEnd

\* One more quotient keeps the assigned cents within i + 1 of the exact share.
LEMMA AllotArithmetic ==
    ASSUME NEW t \in Nat, NEW D \in Nat \ {0}, NEW g \in Nat, NEW p \in Nat,
           NEW v \in Nat, NEW n \in Nat,
           D * g <= t * p, t * p - (D - 1) * n <= D * g
    PROVE  LET q == (t * v) \div D
           IN  /\ q \in Nat
               /\ D * (g + q) <= t * (p + v)
               /\ t * (p + v) - (D - 1) * (n + 1) <= D * (g + q)
<1> DEFINE a == t * v
           q == a \div D
<1>1. a \in Nat
  OBVIOUS
<1> HIDE DEF a
<1>2. q \in Nat /\ D * q <= a /\ a - (D - 1) <= D * q
  BY <1>1, QuotientBounds, Zenon
<1> HIDE DEF q
<1>3. /\ D * (g + q) = D * g + D * q
      /\ D * g \in Int /\ D * q \in Int /\ t * p \in Int
  BY <1>2
<1>4. t * (p + v) = t * p + a
  BY DEF a
<1>5. /\ (D - 1) * (n + 1) = (D - 1) * n + (D - 1)
      /\ (D - 1) * n \in Int
  OBVIOUS
<1> QED
  BY <1>1, <1>2, <1>3, <1>4, <1>5 DEF q, a

\* What is not above the product of a positive D by t is not above t.
LEMMA DivideOut ==
    ASSUME NEW t \in Int, NEW D \in Nat \ {0}, NEW g \in Int, D * g <= D * t
    PROVE  g <= t
<1> SUFFICES ASSUME g >= t + 1 PROVE FALSE
  OBVIOUS
<1>1. D * (t + 1) <= D * g
  BY ProductMonotone
<1>2. D * (t + 1) = D * t + D /\ D * t \in Int /\ D * g \in Int
  OBVIOUS
<1> QED
  BY <1>1, <1>2

LEMMA AllotInd == Ind /\ Allot => Ind'
<1> SUFFICES ASSUME Ind, Allot PROVE Ind'
  OBVIOUS
<1> DEFINE v == Value(i + 1)
           num == Wrap(call.total * v)
           amt == Quotient(num, denom)
<1>1. CASE Fail("ErrOverflow")
  BY <1>1, FailInd
<1>2. CASE ~Overflows(v)
  <2>1. /\ out' = [out EXCEPT ![i + 1] = amt]
        /\ remainder' = [remainder EXCEPT ![i + 1] = Remainder(num, denom)]
        /\ assigned' = Wrap(assigned + amt)
        /\ given' = given + amt
        /\ i' = i + 1
        /\ call' = call /\ pc' = pc /\ err' = err /\ sum' = sum /\ prefix' = prefix
        /\ denom' = denom /\ consumed' = consumed /\ k' = k
        /\ pc = "divide" /\ i < N
    BY <1>2 DEF Allot, inVars, sumVars
  <2>2. /\ call.total \in Nat \ {0} /\ N \in Nat \ {0} /\ i \in 0..N-1
        /\ Len(prefix) = N /\ denom = sum /\ denom \in Int \ {0}
        /\ consumed = {} /\ k = 0
    BY <2>1, MaxIntAssumption
       DEF Ind, TypeOK, Phases, Guarded, DivideInv, AllotInv, Int64
  <2>3. /\ v \in Nat /\ prefix[i + 1] = UpTo(i) + v /\ prefix[i + 1] \in Nat
    BY <2>2 DEF Ind, Phases, PrefixInv
  <2>4. num \in 0..MaxInt /\ num = call.total * v
    BY <1>2, <2>2, <2>3, GuardedProductFits
  <2>5. amt \in Int /\ Remainder(num, denom) \in Int
    <3>1. num \in Int /\ denom \in Int \ {0}
      BY <2>2, <2>4, MaxIntAssumption
    <3> QED
      BY <3>1, QuotientType, Zenon
  <2>6. /\ assigned \in Int /\ given \in Int /\ out \in [1..N -> Int]
        /\ remainder \in [1..N -> Int]
    BY MaxIntAssumption DEF Ind, TypeOK, Int64
  <2>7. UpTo(i + 1) = UpTo(i) + v /\ UpTo(i) \in Nat
    <3>1. i = 0 \/ i \in 1..N
      BY <2>2
    <3>2. i \in 1..N => prefix[i] \in Nat
      BY <2>2 DEF Ind, Phases, PrefixInv
    <3> QED
      BY <3>1, <3>2, <2>2, <2>3 DEF UpTo
  <2> HIDE DEF num, v
  <2>8. assigned' \in Int64
    BY <2>1, <2>5, <2>6, WrapType
  <2>9. TypeOK'
    <3> HIDE DEF amt
    <3>1. /\ out' \in [1..N -> Int] /\ remainder' \in [1..N -> Int]
          /\ given' \in Int /\ i' \in 0..N
      BY <2>1, <2>2, <2>5, <2>6
    <3> QED
      BY <2>1, <2>8, <3>1 DEF Ind, TypeOK, N
  <2>10. ASSUME ~Wrapped
         PROVE  /\ assigned' = given' /\ given' \in Nat
                /\ denom * given' <= call.total * UpTo(i + 1)
                /\ call.total * UpTo(i + 1) - (denom - 1) * (i + 1) <= denom * given'
    <3>1. /\ assigned = given /\ given \in Nat /\ denom \in Nat \ {0}
          /\ denom = TrueSum
          /\ denom * given <= call.total * UpTo(i)
          /\ call.total * UpTo(i) - (denom - 1) * i <= denom * given
      BY <2>1, <2>2, <2>10, TrueSumType DEF Ind, Phases, AllotInv, Wrapped
    <3>2. amt = (call.total * v) \div denom
      BY <3>1, <2>4 DEF Quotient
    <3> HIDE DEF amt
    <3> DEFINE q == (call.total * v) \div denom
    <3>3. /\ q \in Nat
          /\ denom * (given + q) <= call.total * (UpTo(i) + v)
          /\ call.total * (UpTo(i) + v) - (denom - 1) * (i + 1) <= denom * (given + q)
      <4>1. call.total \in Nat /\ i \in Nat /\ v \in Nat /\ UpTo(i) \in Nat
        BY <2>2, <2>3, <2>7 DEF v
      <4> QED
        BY <3>1, <4>1, AllotArithmetic, Zenon
    <3>4. q = amt
      BY <3>2
    <3> HIDE DEF q
    <3>5. given' = given + q
      BY <2>1, <3>4
    <3>6. given' <= call.total
      <4>1. UpTo(i + 1) <= denom /\ UpTo(i + 1) \in Nat
        BY <2>2, <3>1 DEF Ind, Phases, PrefixInv, UpTo
      <4>2. call.total * UpTo(i + 1) <= call.total * denom
        BY <2>2, <3>1, <4>1, ProductMonotone, SMTT(30)
      <4>3. call.total * denom = denom * call.total
        BY <2>2, <3>1, SMTT(30)
      <4>4. denom * (given + q) <= denom * call.total
        <5>1. denom * (given + q) <= call.total * UpTo(i + 1)
          BY <3>3, <2>7
        <5>2. /\ denom * (given + q) \in Int /\ call.total * UpTo(i + 1) \in Int
              /\ denom * call.total \in Int
          BY <2>2, <3>1, <3>3, <4>1
        <5> QED
          BY <5>1, <5>2, <4>2, <4>3
      <4> QED
        BY <4>4, <2>2, <3>1, <3>3, <3>5, DivideOut
    <3>7. given + q \in Int64
      BY <3>1, <3>3, <3>5, <3>6, <2>2, MaxIntAssumption DEF Int64, Ind, TypeOK, Arguments
    <3>8. assigned' = given + q
      BY <2>1, <3>1, <3>4, <3>7, WrapInRange
    <3> QED
      BY <3>1, <3>3, <3>5, <3>8, <2>7
  <2>11. AllotInv'
    <3>1. Wrapped' = Wrapped /\ UpTo(i)' = UpTo(i + 1)
      BY <2>1 DEF Wrapped, TrueSum, UpTo
    <3> QED
      BY <3>1, <2>1, <2>2, <2>10 DEF AllotInv
  <2>12. PrefixInv' /\ DivideInv'
    BY <2>1 DEF Ind, Phases, PrefixInv, DivideInv, UpTo, TrueSum, N, Value
  <2>13. EnterInv' /\ Guarded' /\ EqualInv' /\ SumInv' /\ PennyInv' /\ Reconciled'
    BY <2>1, <2>2 DEF EnterInv, Guarded, EqualInv, SumInv, PennyInv, Reconciled, N
  <2> QED
    BY <2>9, <2>11, <2>12, <2>13 DEF Ind, Phases
<1> QED
  BY <1>1, <1>2 DEF Allot


\* All participants are done: what is left is smaller than their number.
LEMMA AllotEndInd == Ind /\ AllotEnd => Ind'
<1> SUFFICES ASSUME Ind, AllotEnd PROVE Ind'
  OBVIOUS
<1> USE DEF AllotEnd, inVars, sumVars, outVars
<1>1. /\ call.total \in Nat \ {0} /\ N \in Nat \ {0} /\ Len(prefix) = N
      /\ consumed = {} /\ k = 0 /\ denom = sum /\ denom # 0
  BY DEF Ind, Phases, Guarded, DivideInv, AllotInv
<1>2. TypeOK'
  BY DEF Ind, TypeOK, N
<1>3. ASSUME ~Wrapped
      PROVE  /\ assigned = given /\ assigned \in 0..call.total
             /\ call.total - assigned \in 0..N-1
  <2> DEFINE t == call.total
  <2>1. /\ assigned = given /\ given \in Nat /\ denom \in Nat \ {0}
        /\ UpTo(N) = denom
        /\ denom * given <= t * denom
        /\ t * denom - (denom - 1) * N <= denom * given
    BY <1>1, <1>3, TrueSumType DEF Ind, Phases, AllotInv, Wrapped
  <2>2. t \in Nat \ {0} /\ t * denom = denom * t
    BY <1>1, <2>1
  <2>3. given <= t
    BY <2>1, <2>2, DivideOut
  <2> HIDE DEF t
  <2>4. ~(t - given >= N)
    <3> SUFFICES ASSUME t - given >= N PROVE FALSE
      OBVIOUS
    <3>1. denom * (given + N) <= denom * t
      BY <1>1, <2>1, <2>2, ProductMonotone
    <3>2. /\ denom * (given + N) = denom * given + denom * N
          /\ (denom - 1) * N = denom * N - N
          /\ denom * given \in Int /\ denom * N \in Int /\ denom * t \in Int
      BY <1>1, <2>1, <2>2
    <3> QED
      BY <3>1, <3>2, <2>1, <2>2, <1>1
  <2> QED
    BY <1>1, <2>1, <2>2, <2>3, <2>4 DEF t
<1>4. IsFiniteSet({}) /\ Cardinality({}) = 0
  BY FS_EmptySet
<1>5. PennyInv'
  BY <1>1, <1>3, <1>4 DEF PennyInv, Wrapped, TrueSum, N
<1>6. /\ EnterInv' /\ Guarded' /\ EqualInv' /\ PrefixInv' /\ SumInv' /\ DivideInv'
      /\ AllotInv' /\ Reconciled'
  BY <1>1 DEF Ind, Phases, EnterInv, Guarded, EqualInv, PrefixInv, SumInv, DivideInv,
       AllotInv, Reconciled, UpTo, TrueSum, N, Value
<1> QED
  BY <1>2, <1>5, <1>6 DEF Ind, Phases

\* In the penny loop the leftover is a small natural number.
LEMMA LeftInPennies ==
    ASSUME Ind, pc = "pennies", ~Wrapped
    PROVE  /\ Left = call.total - assigned
           /\ Left \in 0..N-1 /\ k \in 0..Left
           /\ Cardinality(consumed) = k /\ given = assigned + k
           /\ assigned \in Int /\ call.total \in Int /\ N \in Nat
<1>1. /\ assigned \in 0..call.total /\ call.total - assigned \in 0..N-1
      /\ k \in 0..(call.total - assigned) /\ Cardinality(consumed) = k
      /\ given = assigned + k
  BY DEF Ind, Phases, PennyInv
<1>2. call.total \in Int64 /\ call.total \in Nat \ {0} /\ N \in Nat
  BY ArgumentTypes DEF Ind, Phases, Guarded
<1>3. call.total - assigned \in Int64
  BY <1>1, <1>2, MaxIntAssumption DEF Int64
<1>4. Left = call.total - assigned
  BY <1>3, WrapInRange DEF Left
<1> QED
  BY <1>1, <1>2, <1>4

(***************************************************************************)
(* Whoever was given a cent is one of at most Left < N participants, so    *)
(* somebody remains (compute.go:195-209).                                  *)
(***************************************************************************)
LEMMA IndTaker == Ind => EveryPennyHasATaker
<1> SUFFICES ASSUME Ind, pc = "pennies", ~Wrapped, k < Left, Unconsumed = {}
             PROVE  FALSE
  BY DEF EveryPennyHasATaker
<1>1. /\ Left \in 0..N-1 /\ k \in 0..Left /\ Cardinality(consumed) = k /\ N \in Nat
  BY LeftInPennies
<1>2. consumed = 1..N
  BY DEF Unconsumed, Ind, TypeOK
<1>3. Cardinality(1..N) = N
  BY <1>1, FS_Interval
<1> QED
  BY <1>1, <1>2, <1>3

LEMMA GivePennyInd == Ind /\ GivePenny => Ind'
<1> SUFFICES ASSUME Ind, GivePenny PROVE Ind'
  OBVIOUS
<1>1. /\ pc = "pennies" /\ k < Left /\ k' = k + 1 /\ k \in Nat
      /\ call' = call /\ pc' = pc /\ err' = err /\ i' = i /\ sum' = sum
      /\ prefix' = prefix /\ denom' = denom /\ remainder' = remainder
      /\ assigned' = assigned
  BY DEF GivePenny, inVars, sumVars, Ind, TypeOK
<1>2. IsFiniteSet(consumed) /\ consumed \subseteq 1..N /\ Cardinality(consumed) \in Nat
  BY <1>1 DEF Ind, Phases, TypeOK, PennyInv
<1>3. /\ EnterInv' /\ Guarded' /\ EqualInv' /\ PrefixInv' /\ SumInv' /\ DivideInv'
      /\ AllotInv' /\ Reconciled'
  BY <1>1 DEF Ind, Phases, EnterInv, Guarded, EqualInv, PrefixInv, SumInv, DivideInv,
       AllotInv, Reconciled, UpTo, TrueSum, N, Value
<1>4. CASE Unconsumed = {}
  <2>1. UNCHANGED <<out, consumed, given>>
    BY <1>4 DEF GivePenny
  <2>2. TypeOK'
    BY <1>1, <2>1 DEF Ind, TypeOK, N
  <2>3. Wrapped
    BY <1>1, <1>4, IndTaker DEF EveryPennyHasATaker
  <2>4. Wrapped'
    BY <1>1, <2>3 DEF Wrapped, TrueSum
  <2>5. PennyInv'
    BY <2>1, <2>4, <1>2 DEF PennyInv
  <2> QED
    BY <1>3, <2>2, <2>5 DEF Ind, Phases
<1>5. ASSUME NEW j \in 1..N, IsBest(j),
             out' = [out EXCEPT ![j] = @ + 1],
             consumed' = consumed \cup {j},
             given' = given + 1
      PROVE  Ind'
  <2>1. j \notin consumed
    BY <1>5 DEF IsBest, Unconsumed
  <2>2. TypeOK'
    BY <1>1, <1>5 DEF Ind, TypeOK, N
  <2>3. IsFiniteSet(consumed') /\ Cardinality(consumed') = Cardinality(consumed) + 1
    BY <1>2, <1>5, <2>1, FS_AddElement
  <2>4. ASSUME ~Wrapped
        PROVE  /\ assigned' \in 0..call.total' /\ call'.total - assigned' \in 0..N'-1
               /\ k' \in 0..(call'.total - assigned') /\ Cardinality(consumed') = k'
               /\ given' = assigned' + k'
    <3>1. /\ Left = call.total - assigned /\ k \in 0..Left
          /\ Cardinality(consumed) = k /\ given = assigned + k
          /\ assigned \in Int /\ call.total \in Int
      BY <1>1, <2>4, LeftInPennies
    <3>2. assigned \in 0..call.total /\ call.total - assigned \in 0..N-1
      BY <1>1, <2>4 DEF Ind, Phases, PennyInv
    <3> QED
      BY <3>1, <3>2, <1>1, <1>5, <2>3 DEF N
  <2>5. PennyInv'
    BY <1>1, <1>2, <2>3, <2>4 DEF PennyInv, Wrapped, TrueSum
  <2> QED
    BY <1>3, <2>2, <2>5 DEF Ind, Phases
<1> QED
  BY <1>4, <1>5 DEF GivePenny

LEMMA PenniesEndInd == Ind /\ PenniesEnd => Ind'
<1> SUFFICES ASSUME Ind, PenniesEnd PROVE Ind'
  OBVIOUS
<1>1. ~Wrapped => given = call.total
  BY LeftInPennies DEF PenniesEnd
<1> QED
  BY <1>1, ReturnInd DEF PenniesEnd

LEMMA StutterInd == Ind /\ UNCHANGED vars => Ind'
<1> SUFFICES ASSUME Ind, UNCHANGED vars PROVE Ind'
  OBVIOUS
<1> USE DEF vars
<1>1. TypeOK'
  BY DEF Ind, TypeOK, N
<1>2. Phases'
  BY DEF Ind, Phases, EnterInv, Guarded, EqualInv, PrefixInv, SumInv, DivideInv,
         AllotInv, PennyInv, Base, Taken, Leftover, UpTo, TrueSum, N, Value, Wrapped
<1>3. Reconciled'
  BY DEF Ind, Reconciled, Wrapped, TrueSum
<1> QED
  BY <1>1, <1>2, <1>3 DEF Ind

-----------------------------------------------------------------------------

LEMMA IndStep == Ind /\ [Next]_vars => Ind'
  BY EnterInd, EqualShareInd, EqualEndInd, AddValueInd, ExactEndInd, PercentageEndInd,
     SharesEndInd, AllotInd, AllotEndInd, GivePennyInd, PenniesEndInd, StutterInd
     DEF Next

\* The loop invariant holds throughout every call of Compute.
THEOREM IndAlways == Spec => []Ind
  BY InitStart, StartInd, IndStep, PTL DEF Spec

\* Types, for every Calls, MaxInt and FullBps.
THEOREM TypeCorrect == Spec => []TypeOK
<1>1. Ind => TypeOK
  BY DEF Ind
<1> QED
  BY <1>1, IndAlways, PTL

(***************************************************************************)
(* The penny loop never looks for a participant in vain (compute.go:205).  *)
(***************************************************************************)
THEOREM PenniesAreTaken == Spec => []EveryPennyHasATaker
  BY IndTaker, IndAlways, PTL

-----------------------------------------------------------------------------
(* Rounding: who gets the leftover cents *)

Extra(j) == IF j \in consumed THEN 1 ELSE 0

\* The order in which the linear scans find the participants.
Before(j, l) == remainder[l] < remainder[j] \/ (remainder[l] = remainder[j] /\ j < l)

\* The participants so far whose exact share is not a whole number of cents.
Positive == {j \in 1..i : remainder[j] > 0}

\* Each loop belongs to its split types.
KindInv == /\ pc = "equal" => call.st = "equal"
           /\ pc = "sum" => call.st # "equal"
           /\ pc \in {"divide", "pennies"} => Proportional

EqualOut ==
    call.st = "equal" /\ pc \in {"equal", "done"} =>
        /\ N \in Nat \ {0} /\ call.total \in Nat
        /\ \A j \in 1..i : out[j] = EqualAmount(j)
        /\ pc = "done" => i = N

Dividing ==
    /\ call.total \in Nat \ {0} /\ N \in Nat \ {0} /\ Len(prefix) = N
    /\ denom = TrueSum /\ denom \in Nat \ {0}

Rounded == \A j \in 1..i : remainder[j] = Fraction(j) /\ out[j] = Quota(j) + Extra(j)

\* There are enough participants with a fraction for the cents that are left.
RoundInv ==
    ~Wrapped /\ Proportional /\ pc \in {"divide", "pennies", "done"} =>
        /\ Dividing /\ Rounded
        /\ consumed \subseteq Positive
        /\ pc = "divide" =>
              call.total * UpTo(i) - (denom - 1) * Cardinality(Positive) <= denom * given
        /\ pc # "divide" =>
              i = N /\ \A j \in consumed, l \in Unconsumed : Before(j, l)
        /\ pc = "pennies" => Left <= Cardinality(Positive)

Fairness == KindInv /\ EqualOut /\ RoundInv

LEMMA PositiveFinite ==
    ASSUME TypeOK
    PROVE  IsFiniteSet(Positive) /\ Cardinality(Positive) \in Nat
<1>1. i \in Nat
  BY ArgumentTypes DEF TypeOK
<1>2. IsFiniteSet(1..i) /\ Positive \subseteq 1..i
  BY <1>1, FS_Interval DEF Positive
<1> QED
  BY <1>2, FS_Subset, FS_CardinalityType

LEMMA StartFair == Start => Fairness
  BY DEF Start, Fairness, KindInv, EqualOut, RoundInv

\* Steps outside the division, and those that end or leave it.
LEMMA OtherFair ==
    ASSUME Ind, Fairness,
           \/ Enter \/ EqualShare \/ EqualEnd \/ AddValue \/ ExactEnd
           \/ PenniesEnd \/ UNCHANGED vars
    PROVE  Fairness'
<1> USE DEF inVars, sumVars, outVars, Fail, Return
<1>1. KindInv'
  BY DEF Fairness, KindInv, Enter, EqualShare, EqualEnd, AddValue, ExactEnd, Added,
         PenniesEnd, vars, Proportional
<1>2. EqualOut'
  <2>1. CASE Enter
    BY <2>1, ArgumentTypes
       DEF Enter, EqualOut, Ind, Phases, EnterInv, Guarded, TypeOK, N
  <2>2. CASE EqualShare
    <3>1. /\ N \in Nat /\ i \in 0..N-1 /\ out \in [1..N -> Int]
          /\ out' = [out EXCEPT ![i + 1] = EqualAmount(i + 1)]
          /\ i' = i + 1 /\ call' = call /\ pc' = pc /\ pc = "equal"
      BY <2>2, ArgumentTypes DEF EqualShare, Ind, TypeOK
    <3>2. N' = N /\ \A j : EqualAmount(j)' = EqualAmount(j)
      BY <3>1 DEF EqualAmount, Base, N
    <3>3. \A j \in 1..i+1 : out'[j] = EqualAmount(j) \/ (j \in 1..i /\ out'[j] = out[j])
      BY <3>1
    <3> QED
      BY <3>1, <3>2, <3>3 DEF EqualOut, Fairness
  <2>3. CASE EqualEnd \/ UNCHANGED vars
    BY <2>3 DEF EqualEnd, vars, EqualOut, Fairness, EqualAmount, Base, N
  <2>4. CASE AddValue \/ ExactEnd \/ PenniesEnd
    BY <2>4 DEF AddValue, ExactEnd, Added, PenniesEnd, EqualOut, Fairness, KindInv,
                Proportional
  <2> QED
    BY <2>1, <2>2, <2>3, <2>4
<1>3. RoundInv'
  <2>1. CASE Enter \/ EqualShare \/ EqualEnd \/ AddValue \/ ExactEnd
    BY <2>1
       DEF Enter, EqualShare, EqualEnd, AddValue, ExactEnd, Added, RoundInv,
           Fairness, KindInv, Proportional
  <2>2. CASE PenniesEnd \/ UNCHANGED vars
    <3>1. /\ call' = call /\ i' = i /\ sum' = sum /\ denom' = denom /\ out' = out
          /\ remainder' = remainder /\ assigned' = assigned /\ consumed' = consumed
          /\ prefix' = prefix /\ given' = given
          /\ pc' = pc \/ (pc = "pennies" /\ pc' = "done")
      BY <2>2 DEF PenniesEnd, vars
    <3>2. UNCHANGED <<N, TrueSum, Left, Unconsumed, Positive, Wrapped, Proportional>>
      BY <3>1 DEF N, TrueSum, Left, Unconsumed, Positive, Wrapped, Proportional
    <3>3. Dividing' <=> Dividing
      BY <3>1, <3>2, Zenon DEF Dividing
    <3>4. Rounded' <=> Rounded
      BY <3>1, <3>2, Zenon DEF Rounded, Extra, Quota, Fraction, Value, UpTo
    <3>5. UpTo(i)' = UpTo(i) /\ \A j, l : Before(j, l)' <=> Before(j, l)
      BY <3>1, Zenon DEF UpTo, Before
    <3> QED
      BY <3>1, <3>2, <3>3, <3>4, <3>5, Zenon DEF RoundInv, Fairness
  <2> QED
    BY <2>1, <2>2
<1> QED
  BY <1>1, <1>2, <1>3 DEF Fairness

LEMMA FailFair ==
    ASSUME Fairness, NEW e, Fail(e)
    PROVE  Fairness'
BY DEF Fail, Fairness, KindInv, EqualOut, RoundInv

LEMMA DivideFair ==
    ASSUME Ind, Fairness, pc = "sum", i = N, Proportional, sum # 0, Divide(sum)
    PROVE  Fairness'
<1> USE DEF Divide, inVars, sumVars
<1>1. KindInv' /\ EqualOut'
  BY DEF KindInv, EqualOut, Proportional
<1>2. /\ call.total \in Nat \ {0} /\ N \in Nat \ {0} /\ given = 0
      /\ Len(prefix) = N /\ consumed = {} /\ TrueSum \in Nat
  BY TrueSumType DEF Ind, Phases, Guarded, SumInv, Proportional
<1>3. /\ i' = 0 /\ denom' = sum /\ given' = 0 /\ consumed' = {} /\ call' = call
      /\ pc' = "divide" /\ prefix' = prefix /\ sum' = sum
  BY <1>2
<1>4. Positive' = {} /\ Cardinality(Positive)' = 0
  <2>1. Positive' = {}
    BY <1>3 DEF Positive
  <2> QED
    BY <2>1, FS_EmptySet
<1>5. ASSUME ~Wrapped'
      PROVE  Dividing' /\ Rounded'
  <2>1. sum = TrueSum
    BY <1>3, <1>5 DEF Wrapped, TrueSum
  <2> QED
    BY <1>2, <1>3, <2>1 DEF Dividing, Rounded, TrueSum, N
<1>6. ASSUME ~Wrapped'
      PROVE  (call.total * UpTo(i) - (denom - 1) * Cardinality(Positive) <= denom * given)'
  <2>1. sum \in Nat
    BY <1>2, <1>3, <1>6 DEF Wrapped, TrueSum
  <2>2. UpTo(i)' = 0
    BY <1>3 DEF UpTo
  <2>3. call.total * 0 - (sum - 1) * 0 <= sum * 0
    BY <1>2, <2>1
  <2> QED
    BY <1>3, <1>4, <2>2, <2>3
<1>7. RoundInv'
  BY <1>3, <1>5, <1>6 DEF RoundInv
<1> QED
  BY <1>1, <1>7 DEF Fairness

\* One more quotient costs less than a cent, and nothing when it is exact.
LEMMA AllotLoss ==
    ASSUME NEW t \in Nat, NEW D \in Nat \ {0}, NEW g \in Nat, NEW p \in Nat,
           NEW v \in Nat, NEW c \in Nat, NEW d \in Nat,
           t * p - (D - 1) * c <= D * g,
           (t * v) % D > 0 => d = c + 1,
           (t * v) % D = 0 => d = c
    PROVE  t * (p + v) - (D - 1) * d <= D * (g + (t * v) \div D)
<1> DEFINE a == t * v
           q == a \div D
           r == a % D
<1>1. a \in Nat
  OBVIOUS
<1> HIDE DEF a
<1>2. q \in Int /\ r \in 0..D-1 /\ a = D * q + r
  BY <1>1, DivBounds
<1>3. (r > 0 => d = c + 1) /\ (r = 0 => d = c)
  BY DEF a
<1> HIDE DEF q, r
<1>4. /\ D * (g + q) = D * g + D * q
      /\ D * g \in Int /\ D * q \in Int /\ t * p \in Int
  BY <1>2
<1>5. t * (p + v) = t * p + a
  BY DEF a
<1>6. /\ (D - 1) * (c + 1) = (D - 1) * c + (D - 1)
      /\ (D - 1) * c \in Int
  OBVIOUS
<1>7. (D - 1) * d = IF r = 0 THEN (D - 1) * c ELSE (D - 1) * c + (D - 1)
  BY <1>2, <1>3, <1>6
<1>8. t * (p + v) - (D - 1) * d <= D * (g + q)
  BY <1>1, <1>2, <1>4, <1>5, <1>6, <1>7
<1> QED
  BY <1>8 DEF q, a

LEMMA AllotFair == Ind /\ Fairness /\ Allot => Fairness'
<1> SUFFICES ASSUME Ind, Fairness, Allot PROVE Fairness'
  OBVIOUS
<1> DEFINE v == Value(i + 1)
<1>1. CASE Fail("ErrOverflow")
  BY <1>1, FailFair
<1>2. CASE ~Overflows(v)
  <2> DEFINE num == Wrap(call.total * v)
             amt == Quotient(num, denom)
  <2>1. /\ out' = [out EXCEPT ![i + 1] = amt]
        /\ remainder' = [remainder EXCEPT ![i + 1] = Remainder(num, denom)]
        /\ given' = given + amt
        /\ i' = i + 1
        /\ call' = call /\ pc' = pc /\ sum' = sum /\ prefix' = prefix
        /\ denom' = denom /\ consumed' = consumed
        /\ pc = "divide" /\ i < N
    BY <1>2 DEF Allot, inVars, sumVars
  <2>2. KindInv' /\ EqualOut'
    BY <2>1 DEF Fairness, KindInv, EqualOut, Proportional
  <2>3. ASSUME ~Wrapped', Proportional'
        PROVE  /\ Dividing' /\ Rounded' /\ (consumed \subseteq Positive)'
               /\ (call.total * UpTo(i) - (denom - 1) * Cardinality(Positive)
                        <= denom * given)'
    <3>1. /\ ~Wrapped /\ Proportional /\ TrueSum' = TrueSum /\ N' = N
          /\ \A j : Value(j)' = Value(j) /\ Quota(j)' = Quota(j)
                    /\ Fraction(j)' = Fraction(j)
      BY <2>1, <2>3 DEF Wrapped, TrueSum, Proportional, N, Value, Quota, Fraction
    <3>2. /\ Dividing /\ Rounded /\ consumed \subseteq Positive
          /\ call.total * UpTo(i) - (denom - 1) * Cardinality(Positive) <= denom * given
      BY <2>1, <3>1 DEF Fairness, RoundInv
    <3>3. /\ i \in 0..N-1 /\ i + 1 \in 1..N /\ consumed = {} /\ given \in Nat
          /\ N \in Nat
          /\ out \in [1..N -> Int] /\ remainder \in [1..N -> Int]
      <4>1. /\ i \in 0..N /\ out \in [1..N -> Int] /\ remainder \in [1..N -> Int]
            /\ consumed = {} /\ given \in Nat /\ N \in Nat
        BY <2>1, <3>1, <3>2 DEF Ind, TypeOK, Phases, AllotInv, Dividing
      <4> QED
        BY <2>1, <4>1
    <3>4. v \in Nat /\ prefix[i + 1] = UpTo(i) + v /\ prefix[i + 1] \in Nat
      BY <3>2, <3>3 DEF Ind, Phases, PrefixInv, Dividing
    <3>5. UpTo(i + 1) = UpTo(i) + v /\ UpTo(i) \in Nat
      <4>1. i = 0 \/ i \in 1..N
        BY <3>3
      <4>2. i \in 1..N => prefix[i] \in Nat
        BY <3>2, <3>3 DEF Ind, Phases, PrefixInv, Dividing
      <4> QED
        BY <4>1, <4>2, <3>3, <3>4 DEF UpTo
    <3>6. num = call.total * v
      BY <1>2, <3>2, <3>4, GuardedProductFits DEF Dividing
    <3>7. /\ amt = Quota(i + 1) /\ Remainder(num, denom) = Fraction(i + 1)
          /\ amt = (call.total * v) \div denom
          /\ Fraction(i + 1) = (call.total * v) % denom
      BY <3>2, <3>6 DEF Quotient, Remainder, Quota, Fraction, Dividing
    <3> HIDE DEF amt, num, v
    <3>8. Dividing'
      BY <2>1, <3>1, <3>2 DEF Dividing
    <3>9. /\ \A j \in 1..i : out'[j] = out[j] /\ remainder'[j] = remainder[j]
          /\ out'[i + 1] = amt /\ remainder'[i + 1] = Fraction(i + 1)
      BY <2>1, <3>3, <3>7
    <3>10. Fraction(i + 1) \in Nat
      <4>1. call.total * v \in Int /\ denom \in Nat \ {0}
        BY <3>2, <3>4 DEF Dividing
      <4>2. (call.total * v) % denom \in 0..denom-1
        BY <4>1, DivBounds
      <4> QED
        BY <4>1, <4>2, <3>7
    <3>11. amt \in Int
      <4>1. call.total * v \in Int /\ denom \in Nat \ {0}
        BY <3>2, <3>4 DEF Dividing
      <4> QED
        BY <4>1, <3>7, DivBounds
    <3>12. Rounded'
      <4> SUFFICES ASSUME NEW j \in 1..(i + 1)
                   PROVE  /\ remainder'[j] = Fraction(j)
                          /\ out'[j] = Quota(j) + 0
        BY <2>1, <3>1, <3>3 DEF Rounded, Extra
      <4>1. CASE j = i + 1
        BY <4>1, <3>7, <3>9, <3>11
      <4>2. CASE j \in 1..i
        BY <4>2, <3>2, <3>3, <3>9 DEF Rounded, Extra
      <4> QED
        BY <4>1, <4>2, <3>3
    <3>13. Positive' = IF Fraction(i + 1) > 0 THEN Positive \cup {i + 1} ELSE Positive
      <4>1. i' = i + 1 /\ \A j \in 1..(i + 1) : j = i + 1 \/ j \in 1..i
        BY <2>1, <3>3
      <4>2. \A j \in 1..(i + 1) : remainder'[j] > 0 <=>
                  \/ j = i + 1 /\ Fraction(i + 1) > 0
                  \/ j \in 1..i /\ remainder[j] > 0
        BY <3>3, <3>9, <4>1
      <4>3. i + 1 \in 1..(i + 1) /\ \A j \in 1..i : j \in 1..(i + 1)
        BY <3>3
      <4>4. Positive' = {j \in 1..(i + 1) : remainder'[j] > 0}
        BY <4>1 DEF Positive
      <4> QED
        BY <4>2, <4>3, <4>4 DEF Positive
    <3>14. IsFiniteSet(Positive) /\ Cardinality(Positive) \in Nat /\ i + 1 \notin Positive
      BY <3>3, PositiveFinite DEF Ind, Positive
    <3>15. /\ Fraction(i + 1) > 0 => Cardinality(Positive') = Cardinality(Positive) + 1
           /\ Fraction(i + 1) = 0 => Cardinality(Positive') = Cardinality(Positive)
      BY <3>13, <3>14, FS_AddElement
    <3> DEFINE t == call.total
               p == UpTo(i)
               c == Cardinality(Positive)
               d == Cardinality(Positive')
    <3>16. t * (p + v) - (denom - 1) * d <= denom * (given + (t * v) \div denom)
      <4>1. /\ t \in Nat /\ denom \in Nat \ {0} /\ given \in Nat /\ p \in Nat
            /\ v \in Nat /\ c \in Nat
        BY <3>2, <3>3, <3>4, <3>5, <3>14 DEF Dividing
      <4>2. d \in Nat
        BY <3>10, <3>14, <3>15
      <4>3. /\ t * p - (denom - 1) * c <= denom * given
            /\ (t * v) % denom > 0 => d = c + 1
            /\ (t * v) % denom = 0 => d = c
        BY <3>2, <3>7, <3>15
      <4> HIDE DEF t, p, c, d
      <4> QED
        BY <4>1, <4>2, <4>3, AllotLoss, Zenon
    <3>17. (consumed \subseteq Positive)'
      BY <2>1, <3>3
    <3>18. UpTo(i)' = p + v
      BY <2>1, <3>5 DEF UpTo
    <3> QED
      BY <2>1, <3>7, <3>8, <3>12, <3>16, <3>17, <3>18
  <2>4. RoundInv'
    <3> HIDE DEF v, num, amt
    <3> QED
      BY <2>1, <2>3 DEF RoundInv
  <2> QED
    BY <2>2, <2>4 DEF Fairness
<1> QED
  BY <1>1, <1>2 DEF Allot

\* The cents that are left are fewer than the participants with a fraction.
LEMMA AllotEndFair == Ind /\ Fairness /\ AllotEnd => Fairness'
<1> SUFFICES ASSUME Ind, Fairness, AllotEnd PROVE Fairness'
  OBVIOUS
<1> USE DEF AllotEnd, inVars, sumVars, outVars
<1>1. KindInv' /\ EqualOut'
  BY DEF Fairness, KindInv, EqualOut, Proportional
<1>2. ASSUME ~Wrapped, Proportional
      PROVE  /\ Dividing /\ Rounded /\ consumed \subseteq Positive /\ consumed = {}
             /\ Left <= Cardinality(Positive)
  <2> DEFINE t == call.total
             c == Cardinality(Positive)
  <2>1. /\ Dividing /\ Rounded /\ consumed \subseteq Positive /\ consumed = {}
        /\ t * UpTo(i) - (denom - 1) * c <= denom * given
        /\ i = N /\ assigned = given /\ given \in Nat
    BY <1>2 DEF Fairness, RoundInv, Ind, Phases, AllotInv
  <2>2. UpTo(i) = denom
    BY <2>1, TrueSumType DEF Ind, Phases, Dividing
  <2>3. Left = t - given
    <3>1. AllotEnd /\ Ind
      OBVIOUS
    <3>2. PennyInv'
      BY AllotEndInd DEF Ind, Phases
    <3>3. Wrapped' = Wrapped
      BY DEF Wrapped, TrueSum
    <3>4. t - assigned \in 0..N-1
      BY <1>2, <3>2, <3>3 DEF PennyInv, N
    <3>5. t \in Int64 /\ t \in Nat
      BY <2>1, ArgumentTypes DEF Ind, Dividing
    <3>6. t - assigned \in Int64
      BY <2>1, <3>4, <3>5, MaxIntAssumption DEF Int64
    <3> QED
      BY <2>1, <3>6, WrapInRange DEF Left
  <2>4. c \in Nat /\ t \in Nat /\ denom \in Nat \ {0}
    BY <2>1, PositiveFinite DEF Ind, Dividing
  <2>5. t - given <= c
    <3> HIDE DEF t, c
    <3> SUFFICES ASSUME t - given >= c + 1 PROVE FALSE
      BY <2>1, <2>4
    <3>1. denom * (c + 1 + given) <= denom * t
      BY <2>1, <2>4, ProductMonotone
    <3>2. /\ denom * (c + 1 + given) = denom * c + denom + denom * given
          /\ (denom - 1) * c = denom * c - c
          /\ t * denom = denom * t
          /\ denom * c \in Int /\ denom * given \in Int /\ denom * t \in Int
      BY <2>1, <2>4
    <3> QED
      BY <3>1, <3>2, <2>1, <2>2, <2>4
  <2> QED
    BY <2>1, <2>3, <2>5
<1>3. RoundInv'
  <2> SUFFICES ASSUME ~Wrapped', Proportional' PROVE RoundInv'
    BY DEF RoundInv
  <2>1. ~Wrapped /\ Proportional
    BY DEF Wrapped, TrueSum, Proportional
  <2>2. Dividing' /\ Rounded' /\ (consumed \subseteq Positive)' /\ consumed' = {}
        /\ Left' <= Cardinality(Positive)' /\ i' = N'
    BY <1>2, <2>1
       DEF Dividing, Rounded, Positive, Left, TrueSum, Extra, Quota, Fraction, Value, N
  <2> QED
    BY <2>2 DEF RoundInv
<1> QED
  BY <1>1, <1>3 DEF Fairness

\* The next taker is before everybody else who is left, and has a fraction.
LEMMA BestTaker ==
    ASSUME Ind, Fairness, ~Wrapped, Proportional, pc = "pennies", k < Left,
           NEW j \in 1..N, IsBest(j)
    PROVE  remainder[j] > 0 /\ \A l \in Unconsumed \ {j} : Before(j, l)
<1>1. /\ Dividing /\ Rounded /\ consumed \subseteq Positive /\ i = N
      /\ Left <= Cardinality(Positive)
  BY DEF Fairness, RoundInv
<1>2. remainder \in [1..N -> Int] /\ N \in Nat
  BY ArgumentTypes DEF Ind, TypeOK
<1>3. Cardinality(consumed) = k /\ k \in Int /\ Left \in Int
  BY LeftInPennies
<1>4. IsFiniteSet(Positive) /\ Cardinality(Positive) \in Nat
  BY PositiveFinite DEF Ind
<1>5. consumed # Positive
  BY <1>1, <1>3, <1>4
<1>6. PICK m \in Positive : m \notin consumed
  BY <1>1, <1>5
<1>7. m \in Unconsumed /\ remainder[m] > 0
  BY <1>1, <1>6 DEF Positive, Unconsumed
<1>8. remainder[m] \in Int /\ remainder[j] \in Int
  BY <1>2, <1>7 DEF Unconsumed
<1>9. remainder[m] < remainder[j] \/ remainder[m] = remainder[j]
  BY <1>7 DEF IsBest
<1>10. remainder[j] > 0
  BY <1>7, <1>8, <1>9
<1>11. ASSUME NEW l \in Unconsumed \ {j} PROVE Before(j, l)
  <2>1. remainder[l] < remainder[j] \/ (remainder[l] = remainder[j] /\ j <= l)
    BY <1>11 DEF IsBest
  <2>2. j \in Int /\ l \in Int /\ j # l
    BY <1>2, <1>11 DEF Unconsumed
  <2> QED
    BY <2>1, <2>2 DEF Before
<1> QED
  BY <1>10, <1>11

LEMMA GivePennyFair == Ind /\ Fairness /\ GivePenny => Fairness'
<1> SUFFICES ASSUME Ind, Fairness, GivePenny PROVE Fairness'
  OBVIOUS
<1>1. /\ pc = "pennies" /\ k < Left
      /\ call' = call /\ pc' = pc /\ i' = i /\ sum' = sum
      /\ prefix' = prefix /\ denom' = denom /\ remainder' = remainder
      /\ assigned' = assigned
  BY DEF GivePenny, inVars, sumVars
<1>2. KindInv' /\ EqualOut'
  BY <1>1 DEF Fairness, KindInv, EqualOut, Proportional
<1>3. RoundInv'
  <2> SUFFICES ASSUME ~Wrapped', Proportional' PROVE RoundInv'
    BY DEF RoundInv
  <2>1. ~Wrapped /\ Proportional
    BY <1>1 DEF Wrapped, TrueSum, Proportional
  <2>2. Unconsumed # {}
    BY <1>1, <2>1, IndTaker DEF EveryPennyHasATaker
  <2>3. PICK j \in 1..N : /\ IsBest(j)
                          /\ out' = [out EXCEPT ![j] = @ + 1]
                          /\ consumed' = consumed \cup {j}
    BY <2>2 DEF GivePenny
  <2>4. j \in Unconsumed
    BY <2>3 DEF IsBest
  <2>5. remainder[j] > 0 /\ \A l \in Unconsumed \ {j} : Before(j, l)
    BY <1>1, <2>1, <2>3, BestTaker
  <2>6. /\ Dividing /\ Rounded /\ consumed \subseteq Positive /\ i = N
        /\ \A m \in consumed, l \in Unconsumed : Before(m, l)
        /\ Left <= Cardinality(Positive)
    BY <1>1, <2>1 DEF Fairness, RoundInv
  <2>7. Dividing' /\ Left' <= Cardinality(Positive)' /\ Positive' = Positive /\ N' = N
    BY <1>1, <2>6 DEF Dividing, TrueSum, Left, Positive, N
  <2>8. consumed' \subseteq Positive'
    BY <2>3, <2>5, <2>6, <2>7 DEF Positive
  <2>9. Rounded'
    <3>1. /\ out \in [1..N -> Int]
          /\ \A l \in 1..N : remainder[l] = Fraction(l) /\ out[l] = Quota(l) + Extra(l)
      BY <2>6 DEF Rounded, Ind, TypeOK
    <3>2. \A l \in 1..N : Quota(l)' = Quota(l) /\ Fraction(l)' = Fraction(l)
      BY <1>1 DEF Quota, Fraction, Value, TrueSum
    <3>3. ASSUME NEW l \in 1..N PROVE out'[l] = Quota(l) + Extra(l)'
      <4>1. CASE l = j
        <5>1. /\ out'[l] = out[l] + 1 /\ out[l] = Quota(l) + 0
              /\ Extra(l)' = 1 /\ out[l] \in Int
          BY <4>1, <2>3, <2>4, <3>1 DEF Extra, Unconsumed
        <5>2. Quota(l) \in Int
          <6>1. call.total * Value(l) \in Int /\ TrueSum \in Nat \ {0}
            BY <2>6, ArgumentTypes DEF Ind, Dividing
          <6> QED
            BY <6>1, DivBounds DEF Quota
        <5> QED
          BY <5>1, <5>2
      <4>2. CASE l # j
        BY <4>2, <2>3, <3>1, <3>3 DEF Extra
      <4> QED
        BY <4>1, <4>2
    <3> QED
      BY <1>1, <2>6, <3>1, <3>2, <3>3 DEF Rounded
  <2>10. ASSUME NEW m \in consumed', NEW l \in Unconsumed' PROVE Before(m, l)'
    <3>1. l \in Unconsumed /\ l # j
      BY <2>3, <2>7 DEF Unconsumed
    <3>2. Before(m, l)
      BY <2>3, <2>5, <2>6, <3>1
    <3> QED
      BY <1>1, <3>2 DEF Before
  <2> QED
    BY <1>1, <2>6, <2>7, <2>8, <2>9, <2>10 DEF RoundInv
<1> QED
  BY <1>2, <1>3 DEF Fairness

LEMMA FairStep == Ind /\ Fairness /\ [Next]_vars => Fairness'
<1>1. Ind /\ Fairness /\ PercentageEnd => Fairness'
  <2> SUFFICES ASSUME Ind, Fairness, PercentageEnd PROVE Fairness'
    OBVIOUS
  <2>1. sum # FullBps => Fairness'
    BY FailFair DEF PercentageEnd
  <2>2. sum = FullBps => Fairness'
    <3>1. FullBps # 0
      BY FullBpsAssumption, MaxIntAssumption
    <3> QED
      BY <3>1, DivideFair DEF PercentageEnd, Added, Proportional
  <2> QED
    BY <2>1, <2>2
<1>2. Ind /\ Fairness /\ SharesEnd => Fairness'
  BY FailFair, DivideFair DEF SharesEnd, Added, Proportional
<1> QED
  BY <1>1, <1>2, OtherFair, AllotFair, AllotEndFair, GivePennyFair DEF Next

LEMMA FairAlways == Spec => [](Ind /\ Fairness)
  BY InitStart, StartFair, FairStep, IndAlways, PTL DEF Spec

\* Quotas and fractions of larger, of equal and of no weight.
LEMMA QuotaOrder ==
    ASSUME NEW t \in Nat \ {0}, NEW D \in Nat \ {0}, NEW v \in Nat, NEW w \in Nat
    PROVE  /\ (t * v) \div D \in Nat /\ (t * v) % D \in 0..D-1
           /\ v = 0 => (t * v) \div D = 0 /\ (t * v) % D = 0
           /\ v > w => \/ (t * v) \div D > (t * w) \div D
                       \/ /\ (t * v) \div D = (t * w) \div D
                          /\ (t * v) % D > (t * w) % D
<1> DEFINE a == t * v
           b == t * w
           x == a \div D
           y == b \div D
<1>1. /\ a \in Nat /\ b \in Nat
      /\ v > w => a > b
      /\ v = 0 => a = 0
  <2>1. v > w => t * (w + 1) <= t * v
    BY ProductMonotone
  <2>2. t * (w + 1) = t * w + t
    OBVIOUS
  <2> QED
    BY <2>1, <2>2
<1> HIDE DEF a, b
<1>2. /\ x \in Nat /\ a % D \in 0..D-1 /\ a = D * x + (a % D)
      /\ y \in Nat /\ b % D \in 0..D-1 /\ b = D * y + (b % D)
  <2>1. x \in Nat /\ y \in Nat
    BY <1>1, QuotientBounds, Zenon
  <2>2. a % D \in 0..D-1 /\ a = D * x + (a % D)
    BY <1>1, DivBounds
  <2>3. b % D \in 0..D-1 /\ b = D * y + (b % D)
    BY <1>1, DivBounds
  <2> QED
    BY <2>1, <2>2, <2>3
<1>3. v = 0 => x = 0 /\ a % D = 0
  BY <1>1, <1>2
<1> DEFINE p == a % D
           q == b % D
<1>4. ASSUME v > w PROVE x > y \/ (x = y /\ p > q)
  <2> HIDE DEF x, y, p, q
  <2>1. /\ x \in Nat /\ y \in Nat /\ p \in 0..D-1 /\ q \in 0..D-1
        /\ D * x + p > D * y + q
    BY <1>1, <1>2, <1>4 DEF x, y, p, q
  <2>2. ~(x + 1 <= y)
    <3> SUFFICES ASSUME x + 1 <= y PROVE FALSE
      OBVIOUS
    <3>1. D * (x + 1) <= D * y
      BY <2>1, ProductMonotone
    <3>2. D * (x + 1) = D * x + D /\ D * x \in Int /\ D * y \in Int
      BY <2>1
    <3> QED
      BY <2>1, <3>1, <3>2
  <2> QED
    BY <2>1, <2>2
<1> QED
  BY <1>2, <1>3, <1>4 DEF a, b

\* What the quotas and the takers of the cents are when Compute returns.
LEMMA DoneFacts ==
    ASSUME Ind, Fairness, pc = "done", ~Wrapped, Proportional
    PROVE  /\ call.total \in Nat \ {0} /\ TrueSum \in Nat \ {0} /\ consumed \subseteq 1..N
           /\ \A j \in 1..N :
                /\ Value(j) \in Nat /\ Quota(j) \in Nat /\ Fraction(j) \in Nat
                /\ out[j] = Quota(j) + Extra(j)
                /\ j \in consumed => Fraction(j) > 0
           /\ \A j \in consumed, l \in 1..N \ consumed :
                Fraction(l) < Fraction(j) \/ (Fraction(l) = Fraction(j) /\ j < l)
<1>1. /\ Dividing /\ Rounded /\ consumed \subseteq Positive /\ i = N
      /\ \A j \in consumed, l \in Unconsumed : Before(j, l)
  BY DEF Fairness, RoundInv
<1>2. \A j \in 1..N : Value(j) \in Nat
  BY <1>1 DEF Ind, Phases, PrefixInv, Dividing
<1>3. ASSUME NEW j \in 1..N PROVE Quota(j) \in Nat /\ Fraction(j) \in Nat
  <2>1. call.total * Value(j) \in Nat /\ TrueSum \in Nat \ {0}
    BY <1>1, <1>2 DEF Dividing
  <2>2. Quota(j) \in Nat
    BY <2>1, QuotientBounds, Zenon DEF Quota
  <2> DEFINE a == call.total * Value(j)
  <2>3. a % TrueSum \in 0..TrueSum-1
    <3>1. a \in Nat
      BY <2>1
    <3>2. TrueSum \in Nat \ {0}
      BY <2>1
    <3> HIDE DEF a
    <3> QED
      BY <3>1, <3>2, DivBounds, SMTT(30)
  <2>4. Fraction(j) = a % TrueSum
    BY DEF Fraction
  <2>5. TrueSum \in Nat \ {0}
    BY <2>1
  <2> HIDE DEF a
  <2>6. Fraction(j) \in Nat
    BY <2>3, <2>4, <2>5
  <2> QED
    BY <2>2, <2>6
<1>4. consumed \subseteq 1..N
  BY <1>1 DEF Positive
<1> QED
  BY <1>1, <1>2, <1>3, <1>4, ZenonT(60)
     DEF Dividing, Rounded, Positive, Unconsumed, Before

LEMMA IndLargest == Ind /\ Fairness => LargestRemainder
<1> SUFFICES ASSUME Ind, Fairness, pc = "done", Proportional, ~Wrapped
             PROVE  /\ \A j \in 1..N : out[j] \in {Quota(j), Quota(j) + 1}
                    /\ \A j, l \in 1..N :
                          out[j] = Quota(j) + 1 /\ out[l] = Quota(l) =>
                              \/ Fraction(j) > Fraction(l)
                              \/ Fraction(j) = Fraction(l) /\ j < l
  BY DEF LargestRemainder
<1>1. ASSUME NEW j \in 1..N
      PROVE  /\ out[j] \in {Quota(j), Quota(j) + 1}
             /\ out[j] = Quota(j) + 1 <=> j \in consumed
             /\ out[j] = Quota(j) <=> j \notin consumed
  BY DoneFacts DEF Extra
<1>2. ASSUME NEW j \in 1..N, NEW l \in 1..N, j \in consumed, l \notin consumed
      PROVE  Fraction(j) > Fraction(l) \/ (Fraction(j) = Fraction(l) /\ j < l)
  BY <1>2, DoneFacts
<1> QED
  BY <1>1, <1>2

(***************************************************************************)
(* Largest remainder (compute.go:54-55, 195-209): the cents left over by   *)
(* the divisions go, one each, to the largest fractions, the earlier       *)
(* participant among equals, for any number of participants.               *)
(***************************************************************************)
THEOREM RoundingIsLargestRemainder == Spec => []LargestRemainder
  BY IndLargest, FairAlways, PTL

LEMMA IndFairRounding == Ind /\ Fairness => FairRounding
<1> SUFFICES ASSUME Ind, Fairness, pc = "done", ~Wrapped
             PROVE  /\ Proportional => \A j, l \in 1..N :
                          /\ Value(j) = 0 => out[j] = 0
                          /\ Value(j) > Value(l) => out[j] >= out[l]
                          /\ Value(j) = Value(l) => out[j] - out[l] \in -1..1
                    /\ call.st = "equal" =>
                          \A j, l \in 1..N : out[j] - out[l] \in -1..1
  BY DEF FairRounding
<1>1. ASSUME Proportional, NEW j \in 1..N, NEW l \in 1..N
      PROVE  /\ Value(j) = 0 => out[j] = 0
             /\ Value(j) > Value(l) => out[j] >= out[l]
             /\ Value(j) = Value(l) => out[j] - out[l] \in -1..1
  <2>1. /\ out[j] = Quota(j) + Extra(j) /\ out[l] = Quota(l) + Extra(l)
        /\ Quota(j) \in Nat /\ Quota(l) \in Nat
        /\ Fraction(j) \in Nat /\ Fraction(l) \in Nat
        /\ Extra(j) \in 0..1 /\ Extra(l) \in 0..1
        /\ j \in consumed => Fraction(j) > 0
    BY <1>1, DoneFacts DEF Extra
  <2>2. /\ Value(j) = 0 => Quota(j) = 0 /\ Fraction(j) = 0
        /\ Value(j) > Value(l) => \/ Quota(j) > Quota(l)
                                  \/ Quota(j) = Quota(l) /\ Fraction(j) > Fraction(l)
        /\ Value(j) = Value(l) => Quota(j) = Quota(l)
    <3>1. /\ call.total \in Nat \ {0} /\ TrueSum \in Nat \ {0}
          /\ Value(j) \in Nat /\ Value(l) \in Nat
      BY <1>1, DoneFacts
    <3> QED
      BY <3>1, QuotaOrder, Zenon DEF Quota, Fraction
  <2>3. Value(j) = 0 => out[j] = 0
    BY <2>1, <2>2 DEF Extra
  <2>4. Value(j) > Value(l) => out[j] >= out[l]
    <3>1. l \in consumed /\ j \notin consumed => Fraction(j) <= Fraction(l)
      BY <1>1, <2>1, DoneFacts
    <3>2. Extra(l) = 1 /\ Extra(j) = 0 => Fraction(j) <= Fraction(l)
      BY <3>1 DEF Extra
    <3> QED
      BY <2>1, <2>2, <3>2
  <2> QED
    BY <2>1, <2>2, <2>3, <2>4
<1>2. ASSUME call.st = "equal", NEW j \in 1..N, NEW l \in 1..N
      PROVE  out[j] - out[l] \in -1..1
  <2>1. /\ N \in Nat \ {0} /\ call.total \in Nat /\ i = N
        /\ out[j] = EqualAmount(j) /\ out[l] = EqualAmount(l)
    BY <1>2 DEF Fairness, EqualOut
  <2>2. Base \in Nat
    BY <2>1, LeftoverBounds
  <2> QED
    BY <2>1, <2>2 DEF EqualAmount
<1> QED
  BY <1>1, <1>2

(***************************************************************************)
(* Rounding is fair for any number of participants: nobody pays for a      *)
(* weight of zero, a larger weight never pays less, and equal weights are  *)
(* within a cent.  A fraction is needed to get a cent, and there are       *)
(* enough of them: the loss of each division is less than a cent.          *)
(***************************************************************************)
THEOREM RoundingIsFair == Spec => []FairRounding
  BY IndFairRounding, FairAlways, PTL

-----------------------------------------------------------------------------
(* The shares themselves: what out holds adds up to given, because every   *)
(* assignment to a share is also counted there and goes to a share that    *)
(* was still zero.                                                         *)

\* Nothing has been written to the shares that the loop has not reached.
Untouched ==
    /\ pc \in {"enter", "equal", "sum", "divide"} =>
          \A j \in 1..N : j > i => out[j] = 0
    /\ pc = "sum" /\ call.st # "exact" => \A j \in 1..N : out[j] = 0

OutSum == SumOver(out, 1..N) = given

SharesInv == Untouched /\ OutSum

LEMMA IndexSet ==
    ASSUME TypeOK
    PROVE  /\ IsFiniteSet(1..N) /\ 1..N \in SUBSET (1..N)
           /\ i \in Nat /\ N \in Nat /\ (i < N => i + 1 \in 1..N)
           /\ out \in [1..N -> Int] /\ given \in Int
<1>1. i \in 0..N /\ N \in Nat /\ out \in [1..N -> Int] /\ given \in Int
  BY ArgumentTypes DEF TypeOK
<1>2. IsFiniteSet(1..N)
  BY <1>1, FS_Interval
<1> QED
  BY <1>1, <1>2

LEMMA ShareUpdate ==
    ASSUME NEW n \in Nat, NEW f \in [1..n -> Int], NEW j \in 1..n, NEW v \in Int
    PROVE  SumOver([f EXCEPT ![j] = v], 1..n) = SumOver(f, 1..n) - f[j] + v
<1> DEFINE g == [f EXCEPT ![j] = v]
<1>1. /\ g \in [1..n -> Int] /\ g[j] = v /\ \A y \in (1..n) \ {j} : g[y] = f[y]
      /\ IsFiniteSet(1..n) /\ 1..n \in SUBSET (1..n)
  BY FS_Interval
<1> HIDE DEF g
<1>2. SumOver(g, 1..n) = SumOver(f, 1..n) - f[j] + g[j]
  BY <1>1, SumUpdate
<1> QED
  BY <1>1, <1>2, Zenon DEF g

\* One share is set, and given counts the difference.
LEMMA SetShare ==
    ASSUME TypeOK, OutSum, call' = call,
           NEW j \in 1..N, NEW v \in Int, out' = [out EXCEPT ![j] = v],
           given' = given - out[j] + v
    PROVE  OutSum'
<1>1. N \in Nat /\ out \in [1..N -> Int] /\ N' = N
  BY IndexSet DEF N
<1>2. SumOver([out EXCEPT ![j] = v], 1..N) = SumOver(out, 1..N) - out[j] + v
  BY <1>1, ShareUpdate, Zenon
<1> QED
  BY <1>1, <1>2 DEF OutSum

LEMMA StartShares == Start => SharesInv
<1> SUFFICES ASSUME Start PROVE SharesInv
  OBVIOUS
<1>1. TypeOK
  BY StartInd DEF Ind
<1>2. /\ IsFiniteSet(1..N) /\ out \in [1..N -> Int] /\ 1..N \in SUBSET (1..N)
      /\ \A j \in 1..N : out[j] = 0
  BY <1>1, IndexSet DEF Start
<1>3. SumOver(out, 1..N) = 0
  BY <1>2, SumZero
<1> QED
  BY <1>2, <1>3 DEF Start, SharesInv, Untouched, OutSum

\* Steps that leave the shares alone and do not start a loop before its end.
LEMMA OtherShares ==
    ASSUME TypeOK, SharesInv, UNCHANGED <<call, out, given>>,
           pc' \in {"enter", "equal", "sum", "divide"} =>
               /\ i' = i /\ pc \in {"enter", "equal", "sum", "divide"}
               /\ pc' = "sum" /\ pc # "sum" => i = 0
    PROVE  SharesInv'
<1>1. N' = N /\ i \in 0..N /\ N \in Nat
  BY ArgumentTypes DEF TypeOK, N
<1>2. Untouched'
  BY <1>1 DEF SharesInv, Untouched
<1>3. OutSum'
  BY <1>1, Zenon DEF SharesInv, OutSum
<1> QED
  BY <1>2, <1>3 DEF SharesInv

LEMMA FailShares ==
    ASSUME TypeOK, SharesInv, NEW e, Fail(e)
    PROVE  SharesInv'
  BY OtherShares DEF Fail, inVars, outVars

LEMMA ReturnShares ==
    ASSUME TypeOK, SharesInv, Return
    PROVE  SharesInv'
  BY OtherShares DEF Return, inVars, outVars

LEMMA EnterShares == Ind /\ SharesInv /\ Enter => SharesInv'
<1> SUFFICES ASSUME Ind, SharesInv, Enter PROVE SharesInv'
  OBVIOUS
<1>1. TypeOK /\ pc = "enter" /\ i = 0
  BY DEF Ind, Phases, EnterInv, Enter
<1>2. CASE \E e : Fail(e)
  BY <1>1, <1>2, FailShares
<1>3. CASE UNCHANGED <<inVars, err, i, sumVars, outVars>>
  BY <1>1, <1>3, OtherShares DEF inVars, outVars
<1> QED
  BY <1>2, <1>3 DEF Enter

\* The next participant's share is set for the first time.
LEMMA NextShare ==
    ASSUME TypeOK, SharesInv, pc \in {"equal", "sum", "divide"}, i < N, NEW v \in Int,
           pc = "sum" => call.st = "exact",
           call' = call, pc' = pc, i' = i + 1,
           out' = [out EXCEPT ![i + 1] = v], given' = given + v
    PROVE  SharesInv'
<1>1. /\ i + 1 \in 1..N /\ i \in Nat /\ N \in Nat /\ N' = N
      /\ out \in [1..N -> Int] /\ given \in Int
  BY IndexSet DEF N
<1>2. out[i + 1] = 0
  BY <1>1 DEF SharesInv, Untouched
<1>3. given' = given - out[i + 1] + v
  BY <1>1, <1>2
<1>4. OutSum'
  BY <1>1, <1>3, SetShare DEF SharesInv
<1>5. Untouched'
  BY <1>1 DEF SharesInv, Untouched
<1> QED
  BY <1>4, <1>5 DEF SharesInv

LEMMA EqualShareShares == Ind /\ SharesInv /\ EqualShare => SharesInv'
<1> SUFFICES ASSUME Ind, SharesInv, EqualShare PROVE SharesInv'
  OBVIOUS
<1>1. TypeOK /\ call.total \in Nat /\ N \in Nat \ {0} /\ i \in 0..N
  BY DEF Ind, TypeOK, Phases, Guarded, EqualShare
<1>2. Base \in Nat
  BY <1>1, LeftoverBounds
<1>3. EqualAmount(i + 1) \in Int
  BY <1>2 DEF EqualAmount
<1> HIDE DEF EqualAmount
<1> QED
  BY <1>1, <1>3, NextShare DEF EqualShare, inVars

LEMMA AddValueShares == Ind /\ SharesInv /\ AddValue => SharesInv'
<1> SUFFICES ASSUME Ind, SharesInv, AddValue PROVE SharesInv'
  OBVIOUS
<1>1. TypeOK /\ pc = "sum" /\ i < N /\ i + 1 \in 1..N /\ i \in Nat /\ N \in Nat
  BY IndexSet DEF Ind, AddValue
<1>2. Value(i + 1) \in Int
  BY <1>1, ArgumentTypes
<1>3. CASE Fail("ErrNegativeValue")
  BY <1>1, <1>3, FailShares
<1>4. CASE /\ UNCHANGED <<inVars, pc>> /\ call.st = "exact" /\ i' = i + 1
           /\ out' = [out EXCEPT ![i + 1] = Value(i + 1)]
           /\ given' = given + Value(i + 1)
  BY <1>1, <1>2, <1>4, NextShare DEF inVars
<1>5. CASE UNCHANGED <<inVars, pc, out, given>> /\ call.st # "exact" /\ i' = i + 1
  <2>1. N' = N
    BY <1>5 DEF N, inVars
  <2>2. Untouched'
    BY <1>1, <1>5, <2>1 DEF SharesInv, Untouched, inVars
  <2>3. OutSum'
    BY <1>5, <2>1, Zenon DEF SharesInv, OutSum
  <2> QED
    BY <2>2, <2>3 DEF SharesInv
<1> QED
  BY <1>3, <1>4, <1>5 DEF AddValue

\* Percentages and weights have written no share when the division starts.
LEMMA DivideShares ==
    ASSUME TypeOK, SharesInv, NEW d, Divide(d), pc = "sum", call.st # "exact"
    PROVE  SharesInv'
<1>1. N' = N /\ out' = out /\ given' = given /\ call' = call /\ pc' = "divide"
  BY DEF N, Divide, inVars
<1>2. Untouched'
  BY <1>1 DEF SharesInv, Untouched
<1>3. OutSum'
  BY <1>1, Zenon DEF SharesInv, OutSum
<1> QED
  BY <1>2, <1>3 DEF SharesInv

LEMMA SumEndShares ==
    Ind /\ SharesInv /\ (ExactEnd \/ PercentageEnd \/ SharesEnd) => SharesInv'
<1> SUFFICES ASSUME Ind, SharesInv, ExactEnd \/ PercentageEnd \/ SharesEnd
             PROVE  SharesInv'
  OBVIOUS
<1>1. TypeOK
  BY DEF Ind
<1>2. CASE ExactEnd
  BY <1>1, <1>2, FailShares, ReturnShares DEF ExactEnd
<1>3. CASE PercentageEnd
  BY <1>1, <1>3, FailShares, DivideShares DEF PercentageEnd, Added
<1>4. CASE SharesEnd
  BY <1>1, <1>4, FailShares, DivideShares DEF SharesEnd, Added
<1> QED
  BY <1>2, <1>3, <1>4

LEMMA AllotShares == Ind /\ SharesInv /\ Allot => SharesInv'
<1> SUFFICES ASSUME Ind, SharesInv, Allot PROVE SharesInv'
  OBVIOUS
<1> DEFINE num == Wrap(call.total * Value(i + 1))
           amt == Quotient(num, denom)
<1>1. TypeOK /\ pc = "divide" /\ i < N /\ i + 1 \in 1..N
  BY IndexSet DEF Ind, Allot
<1>2. amt \in Int
  <2>1. call.total \in Int /\ Value(i + 1) \in Int
    BY <1>1, ArgumentTypes
  <2>2. call.total * Value(i + 1) \in Int
    BY <2>1
  <2>3. num \in Int
    BY <2>2, WrapType, MaxIntAssumption DEF Int64
  <2>4. denom \in Int \ {0}
    BY <1>1, MaxIntAssumption DEF Ind, TypeOK, Phases, DivideInv, Int64
  <2> HIDE DEF num
  <2> QED
    BY <2>3, <2>4, QuotientType, Zenon
<1>3. CASE Fail("ErrOverflow")
  BY <1>1, <1>3, FailShares
<1>4. CASE /\ UNCHANGED <<inVars, pc>> /\ i' = i + 1
           /\ out' = [out EXCEPT ![i + 1] = amt] /\ given' = given + amt
  <2> HIDE DEF amt
  <2> QED
    BY <1>1, <1>2, <1>4, NextShare DEF inVars
<1> QED
  BY <1>3, <1>4 DEF Allot

LEMMA GivePennyShares == Ind /\ SharesInv /\ GivePenny => SharesInv'
<1> SUFFICES ASSUME Ind, SharesInv, GivePenny PROVE SharesInv'
  OBVIOUS
<1>1. TypeOK /\ call' = call /\ pc' = "pennies"
  BY DEF Ind, GivePenny, inVars
<1>2. CASE UNCHANGED <<out, consumed, given>>
  BY <1>1, <1>2, OtherShares
<1>3. ASSUME NEW j \in 1..N, out' = [out EXCEPT ![j] = @ + 1], given' = given + 1
      PROVE  SharesInv'
  <2>1. out \in [1..N -> Int] /\ given \in Int
    BY <1>1, IndexSet
  <2>2. /\ out[j] + 1 \in Int /\ out' = [out EXCEPT ![j] = out[j] + 1]
        /\ given' = given - out[j] + (out[j] + 1)
    BY <1>3, <2>1
  <2>3. OutSum'
    BY <1>1, <2>2, SetShare DEF SharesInv
  <2> QED
    BY <1>1, <2>3 DEF SharesInv, Untouched
<1> QED
  BY <1>2, <1>3 DEF GivePenny

LEMMA SharesNext == Ind /\ SharesInv /\ Next => SharesInv'
<1> SUFFICES ASSUME Ind, SharesInv, Next PROVE SharesInv'
  OBVIOUS
<1>1. TypeOK
  BY DEF Ind
<1>2. CASE EqualEnd \/ PenniesEnd
  BY <1>1, <1>2, ReturnShares DEF EqualEnd, PenniesEnd
<1>3. CASE AllotEnd
  BY <1>1, <1>3, OtherShares DEF AllotEnd, inVars, outVars
<1> QED
  BY <1>2, <1>3, EnterShares, EqualShareShares, AddValueShares, SumEndShares,
     AllotShares, GivePennyShares DEF Next

LEMMA SharesStutter == SharesInv /\ UNCHANGED vars => SharesInv'
<1> SUFFICES ASSUME SharesInv, UNCHANGED vars PROVE SharesInv'
  OBVIOUS
<1>1. N' = N /\ out' = out /\ given' = given
  BY DEF vars, N
<1>2. OutSum'
  BY <1>1, Zenon DEF SharesInv, OutSum
<1> QED
  BY <1>1, <1>2 DEF SharesInv, Untouched, vars

LEMMA SharesStep == Ind /\ SharesInv /\ [Next]_vars => SharesInv'
  BY SharesNext, SharesStutter

LEMMA SharesAlways == Spec => [](Ind /\ SharesInv)
  BY InitStart, StartShares, SharesStep, IndAlways, PTL DEF Spec

LEMMA IndSharesSum == Ind /\ SharesInv => SharesSumToTotal
  BY Zenon DEF Ind, Reconciled, SharesInv, OutSum, SharesSumToTotal

(***************************************************************************)
(* "Shares always sum exactly to total" (compute.go:53), said of the       *)
(* returned slice itself: its amounts add up to the total for every list   *)
(* of participants whose values an int64 can add up.                       *)
(***************************************************************************)
THEOREM ReturnedSharesSum == Spec => []SharesSumToTotal
  BY IndSharesSum, SharesAlways, PTL

-----------------------------------------------------------------------------
(* Shares fit an int64, also when the sum of the values has wrapped: the   *)
(* penny loop increments shares unchecked (compute.go:207), and a share    *)
(* leaves no room for that only when the denominator is 1 or -1; but then  *)
(* the divisions are exact and no cent is left over.                       *)

Span == 2 * (MaxInt + 1)

LEMMA WrapDiffers ==
    ASSUME NEW x \in Int
    PROVE  \E q \in Int : x = Wrap(x) + Span * q
<1> DEFINE y == x + MaxInt + 1
<1>1. Span \in Nat \ {0} /\ y \in Int
  BY MaxIntAssumption DEF Span
<1>2. Wrap(x) = (y % Span) - (MaxInt + 1)
  BY DEF Wrap, Span
<1> HIDE DEF y
<1>3. y \div Span \in Int /\ y % Span \in 0..Span-1 /\ y = Span * (y \div Span) + (y % Span)
  BY <1>1, DivBounds
<1> DEFINE q == y \div Span
           r == y % Span
<1>4. q \in Int /\ r \in Int /\ y = Span * q + r /\ Span * q \in Int
  BY <1>1, <1>3
<1>5. Wrap(x) = r - (MaxInt + 1)
  BY <1>2
<1> HIDE DEF q, r
<1>6. x = Wrap(x) + Span * q
  BY <1>4, <1>5, MaxIntAssumption DEF y
<1> QED
  BY <1>4, <1>6

LEMMA WrapUnique ==
    ASSUME NEW x \in Int64, NEW q \in Int
    PROVE  Wrap(x + Span * q) = x
<1>1. Span \in Nat \ {0} /\ Span * q \in Int /\ x \in Int
  BY MaxIntAssumption DEF Span, Int64
<1> DEFINE y == x + Span * q
<1>2. y \in Int
  BY <1>1
<1>3. PICK p \in Int : y = Wrap(y) + Span * p
  BY <1>2, WrapDiffers
<1>4. Wrap(y) \in Int64 /\ Wrap(y) \in Int
  BY <1>2, WrapType, MaxIntAssumption DEF Int64
<1>5. Wrap(y) - x < Span /\ x - Wrap(y) < Span
  BY <1>4, MaxIntAssumption DEF Int64, Span
<1>6. y = x + Span * q
  OBVIOUS
<1> HIDE DEF y
<1>7. Wrap(y) - x = Span * (q - p)
  <2>1. Span * (q - p) = Span * q - Span * p /\ Span * p \in Int
    BY <1>1
  <2> QED
    BY <2>1, <1>1, <1>3, <1>4, <1>6
<1>8. ~(q - p >= 1)
  <2> SUFFICES ASSUME q - p >= 1 PROVE FALSE
    OBVIOUS
  <2>1. Span * 1 <= Span * (q - p)
    BY <1>1, ProductMonotone
  <2> QED
    BY <2>1, <1>1, <1>4, <1>5, <1>7
<1>9. ~(q - p <= -1)
  <2> SUFFICES ASSUME q - p <= -1 PROVE FALSE
    OBVIOUS
  <2>1. Span * (q - p) <= Span * (-1)
    BY <1>1, ProductMonotone
  <2> QED
    BY <2>1, <1>1, <1>4, <1>5, <1>7
<1>10. q - p = 0
  BY <1>8, <1>9
<1>11. Wrap(y) - x = 0
  BY <1>1, <1>7, <1>10
<1> QED
  BY <1>1, <1>4, <1>6, <1>11

\* Wrapping early or late makes no difference.
LEMMA WrapPlus ==
    ASSUME NEW x \in Int, NEW y \in Int
    PROVE  Wrap(Wrap(x) + y) = Wrap(x + y)
<1>1. PICK q \in Int : x = Wrap(x) + Span * q
  BY WrapDiffers
<1>2. x + y \in Int
  OBVIOUS
<1>3. PICK p \in Int : x + y = Wrap(x + y) + Span * p
  BY <1>2, WrapDiffers
<1>4. /\ Wrap(x) \in Int /\ Wrap(x + y) \in Int64 /\ Wrap(x + y) \in Int
      /\ Span \in Int
  BY <1>2, WrapType, MaxIntAssumption DEF Int64, Span
<1>5. Wrap(x) + y = Wrap(x + y) + Span * (p - q)
  <2>1. Span * (p - q) = Span * p - Span * q /\ Span * p \in Int /\ Span * q \in Int
    BY <1>4
  <2> QED
    BY <2>1, <1>1, <1>3, <1>4
<1>6. p - q \in Int
  OBVIOUS
<1>7. Wrap(Wrap(x + y) + Span * (p - q)) = Wrap(x + y)
  BY <1>4, <1>6, WrapUnique
<1> QED
  BY <1>5, <1>7, Zenon

\* With a denominator of 1 or -1 the parts add up to the total again.
LEMMA UnitDenominator ==
    ASSUME NEW t \in Int64, NEW s \in Int, NEW d \in {1, -1}, Wrap(s) = d
    PROVE  Wrap(d * (t * s)) = t
<1>1. PICK q \in Int : s = d + Span * q
  BY WrapDiffers
<1>2. Span \in Int /\ t \in Int
  BY MaxIntAssumption DEF Span, Int64
<1>3. CASE d = 1
  <2>1. d * (t * s) = t + Span * (t * q)
    BY <1>1, <1>2, <1>3
  <2>2. t * q \in Int
    BY <1>2
  <2> QED
    BY <2>1, <2>2, WrapUnique, Zenon
<1>4. CASE d = -1
  <2>1. d * (t * s) = t + Span * (-(t * q))
    BY <1>1, <1>2, <1>4
  <2>2. -(t * q) \in Int
    BY <1>2
  <2> QED
    BY <2>1, <2>2, WrapUnique, Zenon
<1> QED
  BY <1>3, <1>4

SumWraps == sum = Wrap(TrueSum)

OutFits == out \in [1..N -> Int64]

UnitParts == denom \in {1, -1} => assigned = Wrap(denom * (call.total * UpTo(i)))

RoomBefore == denom \notin {1, -1} => \A j \in 1..N : out[j] <= MaxInt - 1

RoomAfter == assigned = call.total \/ \A j \in Unconsumed : out[j] <= MaxInt - 1

Fits == /\ SumWraps /\ OutFits
        /\ pc = "divide" => UnitParts /\ RoomBefore
        /\ pc = "pennies" => RoomAfter

LEMMA SmallFits ==
    /\ 0 \in Int64 /\ 0 <= MaxInt - 1 /\ Wrap(0) = 0
    /\ \A x \in 0..MaxInt : x \in Int64
    /\ \A x \in Int64 : x \in Int
<1>1. /\ 0 \in Int64 /\ 0 <= MaxInt - 1
      /\ \A x \in 0..MaxInt : x \in Int64
      /\ \A x \in Int64 : x \in Int
  BY MaxIntAssumption DEF Int64
<1> QED
  BY <1>1, WrapInRange

LEMMA StartFits == Start => Fits
<1> SUFFICES ASSUME Start PROVE Fits
  OBVIOUS
<1>1. TrueSum = 0 /\ sum = 0
  BY DEF Start, TrueSum
<1>2. SumWraps
  BY <1>1, SmallFits, Zenon DEF SumWraps
<1>3. OutFits
  BY SmallFits DEF Start, OutFits
<1> QED
  BY <1>2, <1>3 DEF Start, Fits

\* Steps that change neither the shares nor the sums.
LEMMA OtherFits ==
    ASSUME Fits, UNCHANGED <<call, sum, prefix, out, denom, assigned, consumed>>,
           pc' = "divide" => pc = "divide" /\ i' = i,
           pc' = "pennies" => pc = "pennies"
    PROVE  Fits'
<1>1. N' = N /\ TrueSum' = TrueSum
  BY DEF N, TrueSum
<1>2. SumWraps'
  BY <1>1, Zenon DEF Fits, SumWraps
<1>3. OutFits'
  BY <1>1 DEF Fits, OutFits
<1>4. ASSUME pc' = "divide" PROVE UnitParts' /\ RoomBefore'
  <2>1. UpTo(i)' = UpTo(i)
    BY <1>4 DEF UpTo
  <2>2. UnitParts'
    BY <1>4, <2>1, Zenon DEF Fits, UnitParts
  <2>3. RoomBefore'
    BY <1>1, <1>4 DEF Fits, RoomBefore
  <2> QED
    BY <2>2, <2>3
<1>5. ASSUME pc' = "pennies" PROVE RoomAfter'
  BY <1>1, <1>5 DEF Fits, RoomAfter, Unconsumed
<1> QED
  BY <1>2, <1>3, <1>4, <1>5 DEF Fits

LEMMA FailFits ==
    ASSUME Fits, NEW e, Fail(e)
    PROVE  Fits'
  BY OtherFits DEF Fail, inVars, sumVars, outVars

LEMMA ReturnFits ==
    ASSUME Fits, Return
    PROVE  Fits'
  BY OtherFits DEF Return, inVars, sumVars, outVars

LEMMA EqualAmountFits ==
    ASSUME call.total \in Nat, N \in Nat \ {0}, NEW j \in 1..N
    PROVE  EqualAmount(j) \in 0..call.total
<1>1. Base \in Nat /\ Leftover \in 0..N-1 /\ call.total - Base * N = Leftover
  BY LeftoverBounds DEF Leftover
<1>2. Base * N >= Base /\ Base * N \in Nat
  <2>1. Base * 1 <= Base * N
    BY <1>1, ProductMonotone
  <2> QED
    BY <2>1, <1>1
<1>3. EqualAmount(j) = Base + (IF j <= Leftover THEN 1 ELSE 0)
  BY <1>1 DEF EqualAmount
<1>4. CASE j <= Leftover
  BY <1>1, <1>2, <1>3, <1>4
<1>5. CASE ~(j <= Leftover)
  BY <1>1, <1>2, <1>3, <1>5
<1> QED
  BY <1>4, <1>5

LEMMA EqualShareFits == Ind /\ Fits /\ EqualShare => Fits'
<1> SUFFICES ASSUME Ind, Fits, EqualShare PROVE Fits'
  OBVIOUS
<1>1. /\ TypeOK /\ call.total \in Nat /\ N \in Nat \ {0} /\ i + 1 \in 1..N
      /\ call.total <= MaxInt
  BY IndexSet, ArgumentTypes, MaxIntAssumption
     DEF Ind, Phases, Guarded, EqualShare, Int64
<1>2. EqualAmount(i + 1) \in 0..call.total
  BY <1>1, EqualAmountFits
<1>3. EqualAmount(i + 1) \in Int64
  BY <1>1, <1>2, MaxIntAssumption DEF Int64
<1> HIDE DEF EqualAmount
<1>4. /\ out' = [out EXCEPT ![i + 1] = EqualAmount(i + 1)]
      /\ call' = call /\ pc' = "equal" /\ sum' = sum /\ prefix' = prefix
  BY DEF EqualShare, inVars, sumVars
<1>5. OutFits'
  BY <1>3, <1>4 DEF Fits, OutFits, N
<1>6. SumWraps'
  BY <1>4, Zenon DEF Fits, SumWraps, TrueSum
<1> QED
  BY <1>4, <1>5, <1>6 DEF Fits

LEMMA AddValueFits == Ind /\ Fits /\ AddValue => Fits'
<1> SUFFICES ASSUME Ind, Fits, AddValue PROVE Fits'
  OBVIOUS
<1> DEFINE v == Value(i + 1)
<1>1. CASE Fail("ErrNegativeValue")
  BY <1>1, FailFits
<1>2. CASE ~(v < 0)
  <2>1. /\ sum' = Wrap(sum + v)
        /\ prefix' = Append(prefix, TrueSum + v)
        /\ call' = call /\ pc' = "sum" /\ pc = "sum"
        /\ IF call.st = "exact" THEN out' = [out EXCEPT ![i + 1] = v] ELSE out' = out
    BY <1>2 DEF AddValue, inVars
  <2>2. /\ TypeOK /\ i + 1 \in 1..N /\ v \in Int64 /\ v \in Int
        /\ prefix \in Seq(Int) /\ TrueSum \in Int
    <3>1. TypeOK /\ PrefixInv /\ i < N
      BY <2>1 DEF Ind, Phases, AddValue
    <3>2. i + 1 \in 1..N
      BY <3>1, IndexSet
    <3>3. prefix \in Seq(Int)
      BY <3>1 DEF TypeOK
    <3> QED
      BY <3>1, <3>2, <3>3, ArgumentTypes, TrueSumType
  <2>3. TrueSum' = TrueSum + v
    BY <2>1, <2>2 DEF TrueSum
  <2> HIDE DEF v
  <2>4. Wrap(Wrap(TrueSum) + v) = Wrap(TrueSum + v)
    BY <2>2, WrapPlus
  <2>5. SumWraps'
    BY <2>1, <2>3, <2>4, Zenon DEF Fits, SumWraps
  <2>6. OutFits'
    <3>1. CASE call.st = "exact"
      BY <2>1, <2>2, <3>1 DEF Fits, OutFits, N
    <3>2. CASE call.st # "exact"
      BY <2>1, <3>2 DEF Fits, OutFits, N
    <3> QED
      BY <3>1, <3>2
  <2> QED
    BY <2>1, <2>5, <2>6 DEF Fits
<1> QED
  BY <1>1, <1>2 DEF AddValue

LEMMA DivideFits ==
    ASSUME Ind, SharesInv, Fits, NEW d \in Int, Divide(d), pc = "sum", call.st # "exact"
    PROVE  Fits'
<1>1. /\ call' = call /\ out' = out /\ sum' = sum /\ prefix' = prefix
      /\ pc' = "divide" /\ i' = 0 /\ denom' = d /\ assigned' = assigned
  BY DEF Divide, inVars, sumVars
<1>2. assigned = 0 /\ call.total \in Int
  BY ArgumentTypes DEF Ind, Phases, SumInv
<1>3. \A j \in 1..N : out[j] = 0
  BY DEF SharesInv, Untouched
<1>4. SumWraps' /\ OutFits'
  BY <1>1 DEF Fits, SumWraps, TrueSum, OutFits, N
<1>5. RoomBefore'
  BY <1>1, <1>3, SmallFits DEF RoomBefore, N
<1>6. UnitParts'
  <2>1. UpTo(i)' = 0
    BY <1>1 DEF UpTo
  <2>2. d * (call.total * 0) = 0
    BY <1>2
  <2> QED
    BY <1>1, <1>2, <2>1, <2>2, SmallFits DEF UnitParts
<1> QED
  BY <1>1, <1>4, <1>5, <1>6 DEF Fits

LEMMA SumEndFits ==
    Ind /\ SharesInv /\ Fits /\ (ExactEnd \/ PercentageEnd \/ SharesEnd) => Fits'
<1> SUFFICES ASSUME Ind, SharesInv, Fits, ExactEnd \/ PercentageEnd \/ SharesEnd
             PROVE  Fits'
  OBVIOUS
<1>1. sum \in Int /\ FullBps \in Int
  BY SmallFits, FullBpsAssumption DEF Ind, TypeOK
<1>2. CASE ExactEnd
  BY <1>2, FailFits, ReturnFits DEF ExactEnd
<1>3. CASE PercentageEnd
  BY <1>1, <1>3, FailFits, DivideFits DEF PercentageEnd, Added
<1>4. CASE SharesEnd
  BY <1>1, <1>4, FailFits, DivideFits DEF SharesEnd, Added
<1> QED
  BY <1>2, <1>3, <1>4

LEMMA QuotientFits ==
    ASSUME NEW n \in 0..MaxInt, NEW d \in Int \ {0}
    PROVE  /\ Quotient(n, d) \in Int64 /\ Quotient(n, d) \in Int
           /\ d \notin {1, -1} => Quotient(n, d) <= MaxInt - 1
           /\ d \in {1, -1} => Quotient(n, d) = d * n
<1>1. n \in Nat /\ MaxInt \in Nat \ {0}
  BY MaxIntAssumption
<1>2. ASSUME NEW b \in Nat \ {0}
      PROVE  /\ n \div b \in 0..n
             /\ b = 1 => n \div b = n
             /\ b # 1 => n \div b <= MaxInt - 1
  <2> DEFINE q == n \div b
  <2>1. q \in Nat /\ b * q <= n /\ n - (b - 1) <= b * q
    BY <1>1, <1>2, QuotientBounds, Zenon
  <2> HIDE DEF q
  <2>2. 1 * q <= b * q
    <3>1. q * 1 <= q * b /\ q * 1 = 1 * q /\ q * b = b * q
      BY <1>2, <2>1, ProductMonotone
    <3> QED
      BY <3>1
  <2>3. b # 1 => 2 * q <= b * q
    <3> SUFFICES ASSUME b # 1 PROVE 2 * q <= b * q
      OBVIOUS
    <3>1. q * 2 <= q * b /\ q * 2 = 2 * q /\ q * b = b * q
      BY <1>2, <2>1, ProductMonotone
    <3> QED
      BY <3>1
  <2>4. b * q \in Int
    BY <1>2, <2>1
  <2>5. q <= n
    BY <1>1, <2>1, <2>2, <2>4
  <2>6. b = 1 => q = n
    BY <1>1, <2>1
  <2>7. b # 1 => q <= MaxInt - 1
    BY <1>1, <2>1, <2>3, <2>4
  <2> QED
    BY <2>1, <2>5, <2>6, <2>7 DEF q
<1>3. CASE d > 0
  <2>1. d \in Nat \ {0} /\ Quotient(n, d) = n \div d
    BY <1>3 DEF Quotient
  <2>2. /\ n \div d \in 0..n /\ d = 1 => n \div d = n
        /\ d # 1 => n \div d <= MaxInt - 1
    BY <1>2, <2>1
  <2> QED
    BY <1>1, <2>1, <2>2 DEF Int64
<1>4. CASE d < 0
  <2> DEFINE b == -d
  <2>1. b \in Nat \ {0} /\ Quotient(n, d) = -(n \div b)
    BY <1>4 DEF Quotient
  <2>2. b = 1 <=> d = -1
    OBVIOUS
  <2> HIDE DEF b
  <2>3. n \div b \in 0..n /\ b = 1 => n \div b = n
    BY <1>2, <2>1
  <2>4. n \div b \in 0..n
    BY <1>2, <2>1
  <2> QED
    BY <1>1, <1>4, <2>1, <2>2, <2>3, <2>4 DEF Int64
<1> QED
  BY <1>3, <1>4

\* With a unit denominator one more part is added to what is assigned.
LEMMA UnitStep ==
    ASSUME NEW t \in Int, NEW p \in Int, NEW v \in Int, NEW d \in {1, -1}
    PROVE  Wrap(Wrap(d * (t * p)) + d * (t * v)) = Wrap(d * (t * (p + v)))
<1>1. /\ d * (t * p) \in Int /\ d * (t * v) \in Int
      /\ d * (t * p) + d * (t * v) = d * (t * (p + v))
  <2>1. /\ t * p \in Int /\ t * v \in Int
        /\ t * (p + v) = t * p + t * v
    OBVIOUS
  <2> QED
    BY <2>1
<1>2. Wrap(Wrap(d * (t * p)) + d * (t * v)) = Wrap(d * (t * p) + d * (t * v))
  BY <1>1, WrapPlus
<1> QED
  BY <1>1, <1>2, Zenon

LEMMA AllotFits == Ind /\ Fits /\ Allot => Fits'
<1> SUFFICES ASSUME Ind, Fits, Allot PROVE Fits'
  OBVIOUS
<1> DEFINE v == Value(i + 1)
           num == Wrap(call.total * v)
           amt == Quotient(num, denom)
<1>1. CASE Fail("ErrOverflow")
  BY <1>1, FailFits
<1>2. CASE ~Overflows(v)
  <2>1. /\ out' = [out EXCEPT ![i + 1] = amt]
        /\ assigned' = Wrap(assigned + amt)
        /\ i' = i + 1
        /\ call' = call /\ pc' = pc /\ sum' = sum /\ prefix' = prefix
        /\ denom' = denom
        /\ pc = "divide" /\ i < N
    BY <1>2 DEF Allot, inVars, sumVars
  <2>2. /\ call.total \in Nat \ {0} /\ N \in Nat \ {0} /\ i \in 0..N-1
        /\ Len(prefix) = N /\ denom \in Int \ {0} /\ call.total \in Int
    BY <2>1, MaxIntAssumption DEF Ind, TypeOK, Phases, Guarded, DivideInv, Int64
  <2>3. /\ v \in Nat /\ prefix[i + 1] = UpTo(i) + v
    BY <2>2 DEF Ind, Phases, PrefixInv
  <2>4. num \in 0..MaxInt /\ num = call.total * v
    BY <1>2, <2>2, <2>3, GuardedProductFits
  <2>5. UpTo(i + 1) = UpTo(i) + v /\ UpTo(i) \in Int
    <3>1. i \in 1..N => prefix[i] \in Nat
      BY <2>2 DEF Ind, Phases, PrefixInv
    <3> QED
      BY <3>1, <2>2, <2>3 DEF UpTo
  <2>6. /\ amt \in Int64 /\ amt \in Int
        /\ denom \notin {1, -1} => amt <= MaxInt - 1
        /\ denom \in {1, -1} => amt = denom * num
    <3> HIDE DEF num
    <3> QED
      BY <2>2, <2>4, QuotientFits
  <2>7. UpTo(i)' = UpTo(i + 1)
    BY <2>1 DEF UpTo
  <2> HIDE DEF amt, num, v
  <2>8. SumWraps'
    BY <2>1, Zenon DEF Fits, SumWraps, TrueSum
  <2>9. OutFits'
    BY <2>1, <2>6 DEF Fits, OutFits, N
  <2>10. RoomBefore'
    BY <2>1, <2>2, <2>6 DEF Fits, OutFits, RoomBefore, N
  <2>11. ASSUME denom \in {1, -1}
         PROVE  assigned' = Wrap(denom * (call.total * UpTo(i + 1)))
    <3>1. assigned = Wrap(denom * (call.total * UpTo(i)))
      BY <2>1, <2>11 DEF Fits, UnitParts
    <3>2. amt = denom * (call.total * v)
      BY <2>4, <2>6, <2>11, Zenon
    <3>3. v \in Int
      BY <2>3
    <3>4. Wrap(Wrap(denom * (call.total * UpTo(i))) + denom * (call.total * v))
              = Wrap(denom * (call.total * (UpTo(i) + v)))
      <4>1. PICK t, p, d : t = call.total /\ p = UpTo(i) /\ d = denom
        OBVIOUS
      <4>2. t \in Int /\ p \in Int /\ d \in {1, -1}
        BY <2>2, <2>5, <2>11, <4>1
      <4>3. Wrap(Wrap(d * (t * p)) + d * (t * v)) = Wrap(d * (t * (p + v)))
        BY <3>3, <4>2, UnitStep
      <4> QED
        BY <4>1, <4>3, Zenon
    <3> QED
      BY <2>1, <2>5, <3>1, <3>2, <3>4, Zenon
  <2>12. UnitParts'
    BY <2>1, <2>7, <2>11, Zenon DEF UnitParts
  <2> QED
    BY <2>1, <2>8, <2>9, <2>10, <2>12 DEF Fits
<1> QED
  BY <1>1, <1>2 DEF Allot

LEMMA AllotEndFits == Ind /\ Fits /\ AllotEnd => Fits'
<1> SUFFICES ASSUME Ind, Fits, AllotEnd PROVE Fits'
  OBVIOUS
<1>1. /\ pc = "divide" /\ i = N /\ pc' = "pennies"
      /\ call' = call /\ out' = out /\ sum' = sum /\ prefix' = prefix
      /\ assigned' = assigned /\ consumed' = consumed
  BY DEF AllotEnd, inVars, sumVars, outVars
<1>2. /\ Len(prefix) = N /\ denom = sum /\ UpTo(N) = TrueSum /\ TrueSum \in Int
      /\ call.total \in Int64 /\ consumed = {}
  BY <1>1, TrueSumType, ArgumentTypes DEF Ind, Phases, DivideInv, AllotInv
<1>3. SumWraps' /\ OutFits'
  BY <1>1, Zenon DEF Fits, SumWraps, TrueSum, OutFits, N
<1>4. CASE denom \in {1, -1}
  <2>1. Wrap(TrueSum) = denom
    BY <1>2 DEF Fits, SumWraps
  <2>2. Wrap(denom * (call.total * TrueSum)) = call.total
    BY <1>2, <1>4, <2>1, UnitDenominator
  <2>3. assigned = Wrap(denom * (call.total * UpTo(i)))
    BY <1>1, <1>4 DEF Fits, UnitParts
  <2>4. assigned = call.total
    BY <1>1, <1>2, <2>2, <2>3, Zenon
  <2> QED
    BY <1>1, <1>3, <2>4 DEF Fits, RoomAfter
<1>5. CASE denom \notin {1, -1}
  <2>1. RoomAfter'
    BY <1>1, <1>2, <1>5 DEF Fits, RoomBefore, RoomAfter, Unconsumed, N
  <2> QED
    BY <1>1, <1>3, <2>1 DEF Fits
<1> QED
  BY <1>4, <1>5

LEMMA GivePennyFits == Ind /\ Fits /\ GivePenny => Fits'
<1> SUFFICES ASSUME Ind, Fits, GivePenny PROVE Fits'
  OBVIOUS
<1>1. /\ pc = "pennies" /\ k < Left /\ pc' = pc /\ k \in Nat
      /\ call' = call /\ sum' = sum /\ prefix' = prefix /\ assigned' = assigned
      /\ denom' = denom
  BY DEF GivePenny, inVars, sumVars, Ind, TypeOK
<1>2. CASE UNCHANGED <<out, consumed, given>>
  BY <1>1, <1>2, OtherFits
<1>3. ASSUME NEW j \in 1..N, IsBest(j), out' = [out EXCEPT ![j] = @ + 1],
             consumed' = consumed \cup {j}
      PROVE  Fits'
  <2>1. assigned # call.total
    <3> SUFFICES ASSUME assigned = call.total PROVE FALSE
      OBVIOUS
    <3>1. call.total - assigned = 0
      BY ArgumentTypes DEF Ind
    <3>2. Left = 0
      BY <3>1, SmallFits, Zenon DEF Left
    <3> QED
      BY <1>1, <3>2
  <2>2. /\ j \in Unconsumed /\ \A l \in Unconsumed : out[l] <= MaxInt - 1
        /\ out \in [1..N -> Int64]
    BY <1>1, <1>3, <2>1 DEF Fits, RoomAfter, OutFits, IsBest
  <2>3. out[j] + 1 \in Int64
    BY <2>2, MaxIntAssumption DEF Int64
  <2>4. OutFits'
    BY <1>1, <1>3, <2>2, <2>3 DEF OutFits, N
  <2>5. RoomAfter'
    BY <1>1, <1>3, <2>2 DEF RoomAfter, Unconsumed, N
  <2>6. SumWraps'
    BY <1>1, Zenon DEF Fits, SumWraps, TrueSum
  <2> QED
    BY <1>1, <2>4, <2>5, <2>6 DEF Fits
<1> QED
  BY <1>2, <1>3 DEF GivePenny

LEMMA FitsStep == Ind /\ SharesInv /\ Fits /\ [Next]_vars => Fits'
<1> SUFFICES ASSUME Ind, SharesInv, Fits, [Next]_vars PROVE Fits'
  OBVIOUS
<1>1. CASE Enter
  <2>1. CASE \E e : Fail(e)
    BY <2>1, FailFits
  <2>2. CASE /\ UNCHANGED <<inVars, err, i, sumVars, outVars>>
             /\ pc' \in {"equal", "sum"}
    BY <2>2, OtherFits DEF inVars, sumVars, outVars
  <2> QED
    BY <1>1, <2>1, <2>2 DEF Enter
<1>2. CASE EqualEnd \/ PenniesEnd
  BY <1>2, ReturnFits DEF EqualEnd, PenniesEnd
<1>3. CASE UNCHANGED vars
  BY <1>3, OtherFits DEF vars
<1> QED
  BY <1>1, <1>2, <1>3, EqualShareFits, AddValueFits, SumEndFits, AllotFits,
     AllotEndFits, GivePennyFits DEF Next

(***************************************************************************)
(* No share is ever too large for an int64: neither the quotients nor the  *)
(* unchecked increment of the penny loop overflow, not even after the sum  *)
(* of the values has (compute.go:183-209).                                 *)
(***************************************************************************)
THEOREM SharesFitInt64 == Spec => [](out \in [1..N -> Int64])
<1>1. Fits => out \in [1..N -> Int64]
  BY DEF Fits, OutFits
<1> QED
  BY <1>1, SharesAlways, InitStart, StartFits, FitsStep, PTL DEF Spec

-----------------------------------------------------------------------------
(* The edit form.  A call made from the form of a stored expense adds up   *)
(* values that are no larger than the stored amounts, so its sums cannot   *)
(* wrap, whatever happened in the calls before it.                         *)

\* What the values add up to, as far as the loop has come.
Values == [j \in 1..N |-> Value(j)]

RunningSum == TrueSum = SumOver(Values, 1..Len(prefix))

\* What a call that got past the guards may rely on to the end.
Passed ==
    pc \notin {"enter", "failed"} =>
        /\ call.total \in Nat \ {0} /\ N \in Nat \ {0}
        /\ ~HasDuplicate /\ call.st # "unknown"

PercentSum ==
    call.st = "percentage" /\ pc \in {"divide", "pennies", "done"} => sum = FullBps

ExactOut ==
    call.st = "exact" /\ pc \in {"sum", "done"} =>
        /\ Len(prefix) = i /\ \A j \in 1..i : out[j] = Value(j)
        /\ pc = "done" => i = N

CallInv == RunningSum /\ Passed /\ PercentSum /\ ExactOut

LEMMA ValuesType ==
    ASSUME TypeOK
    PROVE  /\ Values \in [1..N -> Int] /\ N \in Nat
           /\ \A j \in 1..N : Values[j] = Value(j)
  BY ArgumentTypes DEF Values

\* Sums over initial segments.
LEMMA SegmentStep ==
    ASSUME NEW n \in Nat, NEW f \in [1..n -> Int], NEW m \in 0..n-1
    PROVE  SumOver(f, 1..(m + 1)) = SumOver(f, 1..m) + f[m + 1]
<1>1. /\ IsFiniteSet(1..n) /\ 1..m \in SUBSET (1..n)
      /\ m + 1 \in (1..n) \ (1..m)
  BY FS_Interval
<1>2. \A y : y \in 1..(m + 1) <=> y \in 1..m \/ y = m + 1
  OBVIOUS
<1> QED
  BY <1>1, <1>2, SumGrow

LEMMA SegmentBound ==
    ASSUME NEW n \in Nat, NEW f \in [1..n -> Int], \A j \in 1..n : f[j] >= 0,
           NEW m \in 0..n
    PROVE  /\ SumOver(f, 1..m) >= 0
           /\ SumOver(f, 1..m) <= SumOver(f, 1..n)
<1>1. IsFiniteSet(1..n) /\ 1..m \in SUBSET (1..n)
  BY FS_Interval
<1> QED
  BY <1>1, SumPart

LEMMA StartCall == Start => CallInv
<1> SUFFICES ASSUME Start PROVE CallInv
  OBVIOUS
<1>1. TrueSum = 0 /\ 1..Len(prefix) = {}
  BY DEF Start, TrueSum
<1>2. SumOver(Values, {}) = 0
  BY SumEmpty
<1>3. RunningSum
  BY <1>1, <1>2, Zenon DEF RunningSum
<1> QED
  BY <1>3 DEF Start, CallInv, Passed, PercentSum, ExactOut

\* Steps that add nothing to the sums.
LEMMA SameSums ==
    ASSUME RunningSum, UNCHANGED <<call, prefix>>
    PROVE  RunningSum'
  BY Zenon DEF RunningSum, Values, Value, TrueSum, N

LEMMA AddValueSums == Ind /\ RunningSum /\ AddValue => RunningSum'
<1> SUFFICES ASSUME Ind, RunningSum, AddValue PROVE RunningSum'
  OBVIOUS
<1>1. CASE Fail("ErrNegativeValue")
  BY <1>1, SameSums DEF Fail, inVars, sumVars
<1>2. CASE /\ prefix' = Append(prefix, TrueSum + Value(i + 1)) /\ call' = call
  <2>1. /\ TypeOK /\ i + 1 \in 1..N /\ i \in 0..N-1 /\ N \in Nat
        /\ prefix \in Seq(Int) /\ Len(prefix) = i /\ TrueSum \in Int
    BY IndexSet, TrueSumType DEF Ind, TypeOK, Phases, SumInv, AddValue
  <2>2. Value(i + 1) \in Int
    BY <2>1, ArgumentTypes
  <2>3. TrueSum' = TrueSum + Value(i + 1) /\ Len(prefix)' = i + 1
    BY <1>2, <2>1, <2>2 DEF TrueSum
  <2>4. /\ Values \in [1..N -> Int]
        /\ \A j \in 1..N : Values[j] = Value(j)
    BY <2>1, ValuesType
  <2>5. Values[i + 1] = Value(i + 1)
    BY <2>1, <2>4
  <2>6. SumOver(Values, 1..(i + 1)) = SumOver(Values, 1..i) + Values[i + 1]
    BY <2>1, <2>4, SegmentStep
  <2>7. TrueSum = SumOver(Values, 1..i)
    BY <2>1, Zenon DEF RunningSum
  <2>8. Values' = Values
    BY <1>2 DEF Values, Value, N
  <2>9. TrueSum' = SumOver(Values, 1..(i + 1))
    BY <2>3, <2>5, <2>6, <2>7, Zenon
  <2> QED
    BY <2>3, <2>8, <2>9, Zenon DEF RunningSum
<1> QED
  BY <1>1, <1>2 DEF AddValue, inVars

LEMMA PassedStep == Ind /\ Passed /\ [Next]_vars => Passed'
<1> SUFFICES ASSUME Ind, Passed, [Next]_vars PROVE Passed'
  OBVIOUS
<1>1. call' = call /\ N' = N /\ HasDuplicate' = HasDuplicate
  BY DEF Next, vars, Enter, EqualShare, EqualEnd, AddValue, ExactEnd, PercentageEnd,
         SharesEnd, Divide, Allot, AllotEnd, GivePenny, PenniesEnd, Return, Fail,
         inVars, N, HasDuplicate
<1>2. CASE Enter
  <2>1. call.total \in Int /\ N \in Nat
    BY ArgumentTypes DEF Ind
  <2> QED
    BY <1>1, <1>2, <2>1 DEF Enter, Fail, Passed
<1>3. CASE ~Enter
  <2>1. pc' \notin {"enter", "failed"} => pc \notin {"enter", "failed"}
    BY <1>3 DEF Next, vars, EqualShare, EqualEnd, AddValue, Added, ExactEnd,
           PercentageEnd, SharesEnd, Divide, Allot, AllotEnd, GivePenny, PenniesEnd,
           Return, Fail
  <2> QED
    BY <1>1, <2>1 DEF Passed
<1> QED
  BY <1>2, <1>3

LEMMA PercentStep == Ind /\ Fairness /\ PercentSum /\ [Next]_vars => PercentSum'
  BY DEF PercentSum, Fairness, KindInv, Proportional, Next, vars, Enter, EqualShare,
         EqualEnd, AddValue, Added, ExactEnd, PercentageEnd, SharesEnd, Divide, Allot,
         AllotEnd, GivePenny, PenniesEnd, Return, Fail, inVars, sumVars

LEMMA ExactStep == Ind /\ Fairness /\ ExactOut /\ [Next]_vars => ExactOut'
<1> SUFFICES ASSUME Ind, Fairness, ExactOut, [Next]_vars PROVE ExactOut'
  OBVIOUS
<1>1. CASE UNCHANGED vars
  BY <1>1 DEF vars, ExactOut, Value, N
<1>2. CASE Enter
  BY <1>2 DEF Enter, Fail, inVars, outVars, sumVars, ExactOut, Ind, Phases, EnterInv
<1>3. CASE EqualShare \/ EqualEnd \/ PercentageEnd \/ SharesEnd \/ Allot \/ AllotEnd
           \/ GivePenny \/ PenniesEnd
  BY <1>3 DEF EqualShare, EqualEnd, PercentageEnd, SharesEnd, Divide, Added, Allot,
              AllotEnd, GivePenny, PenniesEnd, Return, Fail, inVars, ExactOut,
              Fairness, KindInv, Proportional
<1>4. CASE ExactEnd
  BY <1>4 DEF ExactEnd, Added, Return, Fail, inVars, outVars, sumVars, ExactOut,
              Value, N
<1>5. CASE AddValue
  <2>1. CASE Fail("ErrNegativeValue")
    BY <2>1 DEF Fail, ExactOut
  <2>2. CASE call.st # "exact" /\ UNCHANGED inVars
    BY <2>2 DEF inVars, ExactOut
  <2>3. CASE /\ call.st = "exact" /\ UNCHANGED <<inVars, pc>> /\ pc = "sum"
             /\ out' = [out EXCEPT ![i + 1] = Value(i + 1)] /\ i' = i + 1
             /\ prefix' = Append(prefix, TrueSum + Value(i + 1))
    <3>1. /\ TypeOK /\ i + 1 \in 1..N /\ i \in Nat /\ N \in Nat
          /\ out \in [1..N -> Int] /\ prefix \in Seq(Int) /\ TrueSum \in Int
      BY <1>5, IndexSet, TrueSumType DEF Ind, TypeOK, Phases, AddValue
    <3>2. Value(i + 1) \in Int
      BY <3>1, ArgumentTypes
    <3>3. /\ Len(prefix) = i /\ \A j \in 1..i : out[j] = Value(j)
      BY <2>3 DEF ExactOut
    <3>4. Len(prefix') = i + 1
      BY <2>3, <3>1, <3>2, <3>3
    <3>5. \A j \in 1..(i + 1) : out'[j] = Value(j) /\ Value(j)' = Value(j)
      <4>1. \A j \in 1..N : Value(j)' = Value(j)
        BY <2>3 DEF inVars, Value
      <4>2. \A j \in 1..(i + 1) : j \in 1..N /\ (j = i + 1 \/ j \in 1..i)
        BY <3>1
      <4>3. /\ out'[i + 1] = Value(i + 1)
            /\ \A j \in 1..N : j # i + 1 => out'[j] = out[j]
        BY <2>3, <3>1
      <4> QED
        BY <3>3, <4>1, <4>2, <4>3
    <3> QED
      BY <2>3, <3>4, <3>5 DEF ExactOut
  <2> QED
    BY <1>5, <2>1, <2>2, <2>3 DEF AddValue
<1> QED
  BY <1>1, <1>2, <1>3, <1>4, <1>5 DEF Next

LEMMA CallStep == Ind /\ Fairness /\ CallInv /\ [Next]_vars => CallInv'
<1> SUFFICES ASSUME Ind, Fairness, CallInv, [Next]_vars PROVE CallInv'
  OBVIOUS
<1>1. RunningSum'
  <2>1. CASE AddValue
    BY <2>1, AddValueSums DEF CallInv
  <2>2. CASE ~AddValue
    <3>1. call' = call /\ prefix' = prefix
      BY <2>2 DEF Next, vars, Enter, EqualShare, EqualEnd, ExactEnd, PercentageEnd,
             SharesEnd, Divide, Allot, AllotEnd, GivePenny, PenniesEnd, Return, Fail,
             inVars, sumVars
    <3> QED
      BY <3>1, SameSums DEF CallInv
  <2> QED
    BY <2>1, <2>2
<1> QED
  BY <1>1, PassedStep, PercentStep, ExactStep DEF CallInv

\* What the form shows fits its field, and is no more than the amount.
LEMMA PrefilledBounds ==
    ASSUME NEW st \in SplitTypes \ {"unknown"}, NEW a \in Int64
    PROVE  /\ Prefilled(st, a) \in Int64
           /\ a >= 0 => Prefilled(st, a) \in 0..a
<1>1. a \in Int /\ MaxInt \in Nat \ {0} /\ MinorUnits \in Nat \ {0}
  BY MaxIntAssumption, MinorUnitsAssumption DEF Int64
<1>2. CASE st # "shares"
  BY <1>1, <1>2 DEF Prefilled, SplitTypes, Int64
<1>3. CASE st = "shares"
  <2> DEFINE c == 2 * MinorUnits
             x == 2 * a + MinorUnits
             q == x \div c
             r == x % c
  <2>1. c \in Nat \ {0} /\ x \in Int /\ c = MinorUnits + MinorUnits
    BY <1>1
  <2>2. Prefilled(st, a) = q
    BY <1>3 DEF Prefilled
  <2> HIDE DEF c
  <2>3. x = 2 * a + MinorUnits
    OBVIOUS
  <2> HIDE DEF x
  <2>4. q \in Int /\ r \in 0..c-1 /\ x = c * q + r
    BY <2>1, DivBounds
  <2> HIDE DEF q, r
  <2>5. r \in Int /\ r >= 0 /\ r < c /\ c * q \in Int
    BY <2>1, <2>4
  <2>6. \A b \in Nat : c * b >= 2 * b
    <3> SUFFICES ASSUME NEW b \in Nat PROVE c * b >= 2 * b
      OBVIOUS
    <3>1. b * 2 <= b * c
      BY <1>1, <2>1, ProductMonotone
    <3> QED
      BY <3>1, <2>1
  <2>7. ASSUME a >= 0 PROVE q >= 0 /\ q <= a
    <3>1. ~(q <= -1)
      <4> SUFFICES ASSUME q <= -1 PROVE FALSE
        OBVIOUS
      <4>1. c * q <= c * (-1)
        BY <2>1, <2>4, ProductMonotone
      <4> QED
        BY <4>1, <1>1, <2>1, <2>3, <2>4, <2>5, <2>7
    <3>2. ~(q >= a + 1)
      <4> SUFFICES ASSUME q >= a + 1 PROVE FALSE
        OBVIOUS
      <4>1. c * (a + 1) <= c * q
        BY <1>1, <2>1, <2>4, ProductMonotone
      <4>2. c * (a + 1) = c * a + c /\ c * a \in Int /\ c * a >= 2 * a
        BY <1>1, <2>1, <2>6, <2>7
      <4> QED
        BY <4>1, <4>2, <1>1, <2>1, <2>3, <2>4, <2>5
    <3> QED
      BY <3>1, <3>2, <1>1, <2>4
  <2>8. ASSUME a < 0 PROVE q >= a /\ q <= 0
    <3>1. ~(q <= a - 1)
      <4> SUFFICES ASSUME q <= a - 1 PROVE FALSE
        OBVIOUS
      <4>1. c * q <= c * (a - 1)
        BY <1>1, <2>1, <2>4, ProductMonotone
      <4>2. c * (a - 1) = -(c * (-a)) - c /\ c * (-a) \in Int /\ c * (-a) >= 2 * (-a)
        BY <1>1, <2>1, <2>6, <2>8
      <4> QED
        BY <4>1, <4>2, <1>1, <2>1, <2>3, <2>4, <2>5
    <3>2. ~(q >= 1)
      <4> SUFFICES ASSUME q >= 1 PROVE FALSE
        OBVIOUS
      <4>1. c * 1 <= c * q
        BY <2>1, <2>4, ProductMonotone
      <4> QED
        BY <4>1, <1>1, <2>1, <2>3, <2>4, <2>5, <2>8
    <3> QED
      BY <3>1, <3>2, <1>1, <2>4
  <2>9. q \in Int64
    BY <1>1, <2>4, <2>7, <2>8 DEF Int64
  <2> QED
    BY <1>1, <2>2, <2>4, <2>7, <2>9
<1> QED
  BY <1>2, <1>3

\* Rounding to whole weights keeps the order of the amounts.
LEMMA PrefilledMonotone ==
    ASSUME NEW a \in Nat, NEW b \in Nat, a > b
    PROVE  Prefilled("shares", a) >= Prefilled("shares", b)
<1> DEFINE c == 2 * MinorUnits
           x == 2 * a + MinorUnits
           y == 2 * b + MinorUnits
           p == x \div c
           q == y \div c
<1>1. c \in Nat \ {0} /\ x \in Nat /\ y \in Nat /\ y < x
  BY MinorUnitsAssumption
<1>2. Prefilled("shares", a) = p /\ Prefilled("shares", b) = q
  BY DEF Prefilled
<1> HIDE DEF c, x, y
<1>3. p \in Nat /\ x - (c - 1) <= c * p
  BY <1>1, QuotientBounds, Zenon
<1>4. q \in Nat /\ c * q <= y
  BY <1>1, QuotientBounds, Zenon
<1> HIDE DEF p, q
<1>5. ~(p + 1 <= q)
  <2> SUFFICES ASSUME p + 1 <= q PROVE FALSE
    OBVIOUS
  <2>1. c * (p + 1) <= c * q
    BY <1>1, <1>3, <1>4, ProductMonotone
  <2>2. c * (p + 1) = c * p + c /\ c * p \in Int /\ c * q \in Int
    BY <1>1, <1>3, <1>4
  <2> QED
    BY <2>1, <2>2, <1>1, <1>3, <1>4
<1> QED
  BY <1>2, <1>3, <1>4, <1>5

-----------------------------------------------------------------------------

Resubmitted == stored # NotStored /\ ~stored.wrapped

\* The call stems from the form of an expense whose amounts make up its total.
FormOf ==
    /\ stored.amounts \in [1..N -> Nat]
    /\ SumOver(stored.amounts, 1..N) = call.total
    /\ \A j \in 1..N : Value(j) = Prefilled(call.st, stored.amounts[j])
    /\ stored.st = "equal" => \A j \in 1..N : stored.amounts[j] = EqualAmount(j)
    /\ call.total \in Nat \ {0} /\ N \in Nat \ {0} /\ ~HasDuplicate
    /\ call.st \in SplitTypes \ {"unknown"}

FormInv == Resubmitted => FormOf

NeverWraps == Resubmitted => sum = TrueSum

\* Exact and equal forms are never turned down.
Accepted == Resubmitted /\ call.st \in {"equal", "exact"} => pc # "failed"

EditInv == /\ Ind /\ Fairness /\ SharesInv /\ Fits /\ CallInv
           /\ FormInv /\ NeverWraps /\ Accepted

\* The values of a form add up to the total at most.
LEMMA FormValues ==
    ASSUME Ind, RunningSum, FormOf
    PROVE  /\ \A j \in 1..N : Value(j) \in 0..stored.amounts[j]
           /\ Values \in [1..N -> Int] /\ \A j \in 1..N : Values[j] >= 0
           /\ SumOver(Values, 1..N) <= call.total /\ call.total \in 0..MaxInt
           /\ SumOver(Values, 1..N) \in Int
           /\ call.st \in {"exact", "percentage"} =>
                 /\ SumOver(Values, 1..N) = call.total
                 /\ \A j \in 1..N : Value(j) = stored.amounts[j]
<1>1. /\ call.total \in 0..MaxInt /\ N \in Nat
      /\ Values \in [1..N -> Int]
      /\ \A j \in 1..N : Values[j] = Value(j)
  <2>1. call.total \in Int64 /\ call.total \in Nat
    BY ArgumentTypes DEF Ind, FormOf
  <2> QED
    BY <2>1, ValuesType, MaxIntAssumption DEF Ind, Int64
<1>2. IsFiniteSet(1..N) /\ 1..N \in SUBSET (1..N)
  BY <1>1, FS_Interval
<1> DEFINE a == stored.amounts
<1>3. a \in [1..N -> Int] /\ \A j \in 1..N : a[j] \in Nat
  BY DEF FormOf
<1>4. \A j \in 1..N : a[j] <= call.total
  <2>1. \A j \in 1..N : a[j] >= 0
    BY <1>3
  <2>2. SumOver(a, 1..N) = call.total
    BY DEF FormOf
  <2> HIDE DEF a
  <2>3. \A j \in 1..N : a[j] <= SumOver(a, 1..N)
    BY <1>2, <1>3, <2>1, SumTerm
  <2> QED
    BY <2>2, <2>3
<1>5. \A j \in 1..N : Value(j) \in 0..a[j]
  <2> SUFFICES ASSUME NEW j \in 1..N PROVE Value(j) \in 0..a[j]
    OBVIOUS
  <2>1. Value(j) = Prefilled(call.st, a[j]) /\ call.st \in SplitTypes \ {"unknown"}
    BY DEF FormOf
  <2>2. a[j] \in Int64 /\ a[j] >= 0
    BY <1>1, <1>3, <1>4, MaxIntAssumption DEF Int64
  <2> HIDE DEF a
  <2>3. Prefilled(call.st, a[j]) \in 0..a[j]
    BY <2>1, <2>2, PrefilledBounds
  <2> QED
    BY <2>1, <2>3, Zenon
<1>6. SumOver(a, 1..N) = call.total
  BY DEF FormOf
<1>7. ASSUME call.st \in {"exact", "percentage"}
      PROVE  \A j \in 1..N : Value(j) = a[j]
  BY <1>7 DEF FormOf, Prefilled
<1> HIDE DEF a
<1>8. /\ \A j \in 1..N : Values[j] >= 0
      /\ \A j \in 1..N : Values[j] <= a[j]
  BY <1>1, <1>3, <1>5
<1>9. SumOver(Values, 1..N) <= SumOver(a, 1..N)
  BY <1>1, <1>2, <1>3, <1>8, SumAtMost
<1>10. SumOver(Values, 1..N) \in Int
  BY <1>1, <1>2, SumType
<1>11. ASSUME call.st \in {"exact", "percentage"}
       PROVE  SumOver(Values, 1..N) = SumOver(a, 1..N)
  <2>1. \A j \in 1..N : Values[j] = a[j]
    BY <1>1, <1>7, <1>11
  <2> QED
    BY <2>1, SumEqual
<1> QED
  BY <1>1, <1>5, <1>6, <1>7, <1>8, <1>9, <1>10, <1>11, Zenon DEF a

\* The call and the expense it stems from stay the same while Compute runs.
LEMMA SameForm ==
    ASSUME FormInv, UNCHANGED <<call, stored>>
    PROVE  FormInv'
<1> SUFFICES ASSUME Resubmitted' PROVE FormOf'
  BY DEF FormInv
<1>1. Resubmitted /\ FormOf
  BY DEF FormInv, Resubmitted
<1>2. /\ N' = N /\ HasDuplicate' = HasDuplicate
      /\ \A j : Value(j)' = Value(j) /\ EqualAmount(j)' = EqualAmount(j)
  BY DEF N, HasDuplicate, Value, EqualAmount, Base
<1>3. SumOver(stored'.amounts, 1..N') = SumOver(stored.amounts, 1..N)
  BY <1>2, Zenon
<1> QED
  BY <1>1, <1>2, <1>3 DEF FormOf

LEMMA CallUnchanged == [Next]_vars => call' = call
  BY DEF Next, vars, Enter, EqualShare, EqualEnd, AddValue, ExactEnd, PercentageEnd,
         SharesEnd, Divide, Allot, AllotEnd, GivePenny, PenniesEnd, Return, Fail, inVars

\* The next value still fits.
LEMMA AddValueFormFits ==
    ASSUME Ind, RunningSum, FormOf, sum = TrueSum, pc = "sum", i < N
    PROVE  /\ Value(i + 1) \in Nat
           /\ Wrap(sum + Value(i + 1)) = TrueSum + Value(i + 1)
<1>1. /\ TypeOK /\ i + 1 \in 1..N /\ i + 1 \in 0..N /\ i \in 0..N-1 /\ N \in Nat
      /\ Len(prefix) = i /\ TrueSum \in Int
  BY IndexSet, TrueSumType DEF Ind, Phases, SumInv
<1>2. /\ Values \in [1..N -> Int] /\ \A j \in 1..N : Values[j] >= 0
      /\ SumOver(Values, 1..N) <= call.total /\ call.total \in 0..MaxInt
      /\ SumOver(Values, 1..N) \in Int
  BY FormValues
<1>3. SumOver(Values, 1..(i + 1)) = SumOver(Values, 1..i) + Values[i + 1]
  BY <1>1, <1>2, SegmentStep
<1>4. /\ SumOver(Values, 1..(i + 1)) >= 0
      /\ SumOver(Values, 1..(i + 1)) <= SumOver(Values, 1..N)
  BY <1>1, <1>2, SegmentBound
<1>5. TrueSum = SumOver(Values, 1..i)
  BY <1>1, Zenon DEF RunningSum
<1>6. Values[i + 1] = Value(i + 1) /\ Value(i + 1) \in Int /\ Value(i + 1) >= 0
  BY <1>1, <1>2, ValuesType, ArgumentTypes
<1> HIDE DEF Values
<1> DEFINE s == TrueSum + Value(i + 1)
<1>7. SumOver(Values, 1..(i + 1)) = s
  BY <1>3, <1>5, <1>6, Zenon
<1>8. s \in Int
  BY <1>1, <1>6
<1> HIDE DEF s
<1>9. s >= 0 /\ s <= MaxInt
  BY <1>2, <1>4, <1>7, <1>8, MaxIntAssumption
<1>10. s \in Int64
  BY <1>8, <1>9, MaxIntAssumption DEF Int64
<1>11. Wrap(s) = s
  BY <1>10, WrapInRange
<1> QED
  BY <1>6, <1>11 DEF s

LEMMA NeverWrapsStep ==
    ASSUME Ind, CallInv, FormInv, NeverWraps, [Next]_vars, UNCHANGED stored
    PROVE  NeverWraps'
<1> SUFFICES ASSUME Resubmitted' PROVE sum' = TrueSum'
  BY DEF NeverWraps
<1>1. sum = TrueSum /\ FormOf /\ RunningSum
  BY DEF NeverWraps, FormInv, Resubmitted, CallInv
<1>2. CASE sum' = sum /\ prefix' = prefix
  BY <1>1, <1>2 DEF TrueSum
<1>3. CASE AddValue
  <2>1. CASE Fail("ErrNegativeValue")
    BY <1>2, <2>1 DEF Fail, sumVars
  <2>2. CASE /\ sum' = Wrap(sum + Value(i + 1))
             /\ prefix' = Append(prefix, TrueSum + Value(i + 1))
    <3>1. /\ Wrap(sum + Value(i + 1)) = TrueSum + Value(i + 1)
          /\ Value(i + 1) \in Nat
      BY <1>1, <1>3, AddValueFormFits DEF AddValue
    <3>2. prefix \in Seq(Int) /\ TrueSum \in Int
      BY TrueSumType DEF Ind, TypeOK, Phases
    <3>3. TrueSum' = TrueSum + Value(i + 1)
      BY <2>2, <3>1, <3>2 DEF TrueSum
    <3> QED
      BY <2>2, <3>1, <3>3, Zenon
  <2> QED
    BY <1>3, <2>1, <2>2 DEF AddValue
<1>4. CASE ~AddValue
  BY <1>2, <1>4 DEF Next, vars, Enter, EqualShare, EqualEnd, ExactEnd, PercentageEnd,
         SharesEnd, Divide, Allot, AllotEnd, GivePenny, PenniesEnd, Return, Fail,
         sumVars
<1> QED
  BY <1>3, <1>4

\* The exact amounts of a form add up to the total.
LEMMA ExactFormSum ==
    ASSUME Ind, RunningSum, FormOf, sum = TrueSum, pc = "sum", i = N,
           call.st = "exact"
    PROVE  sum = call.total
<1>1. Len(prefix) = N
  BY DEF Ind, Phases, SumInv
<1>2. TrueSum = SumOver(Values, 1..N)
  BY <1>1, Zenon DEF RunningSum
<1>3. SumOver(Values, 1..N) = call.total
  BY FormValues
<1> QED
  BY <1>2, <1>3, Zenon

LEMMA AcceptedStep ==
    ASSUME Ind, Fairness, CallInv, FormInv, NeverWraps, Accepted, [Next]_vars,
           UNCHANGED stored
    PROVE  Accepted'
<1> SUFFICES ASSUME Resubmitted', call'.st \in {"equal", "exact"}, pc' = "failed"
             PROVE  FALSE
  BY DEF Accepted
<1>1. /\ Resubmitted /\ FormOf /\ sum = TrueSum /\ call.st \in {"equal", "exact"}
      /\ pc # "failed" /\ RunningSum
  BY CallUnchanged DEF Accepted, FormInv, NeverWraps, Resubmitted, CallInv
<1>2. CASE Enter
  BY <1>1, <1>2 DEF Enter, FormOf
<1>3. CASE AddValue
  <2>1. Value(i + 1) < 0
    BY <1>1, <1>3 DEF AddValue, Fail
  <2>2. Value(i + 1) \in Nat
    BY <1>1, <1>3, AddValueFormFits DEF AddValue
  <2> QED
    BY <2>1, <2>2
<1>4. CASE ExactEnd
  <2>1. sum # call.total
    BY <1>4 DEF ExactEnd, Added, Return
  <2>2. sum = call.total
    BY <1>1, <1>4, ExactFormSum DEF ExactEnd, Added
  <2> QED
    BY <2>1, <2>2
<1>5. CASE PercentageEnd \/ SharesEnd \/ Allot
  BY <1>1, <1>5 DEF PercentageEnd, SharesEnd, Added, Allot, Fairness, KindInv,
                    Proportional
<1>6. CASE EqualShare \/ EqualEnd \/ AllotEnd \/ GivePenny \/ PenniesEnd \/ UNCHANGED vars
  BY <1>1, <1>6 DEF EqualShare, EqualEnd, AllotEnd, GivePenny, PenniesEnd, Return, vars
<1> QED
  BY <1>2, <1>3, <1>4, <1>5, <1>6 DEF Next

LEMMA EditInvNext == EditInv /\ [Next]_vars /\ UNCHANGED stored => EditInv'
<1> SUFFICES ASSUME EditInv, [Next]_vars, UNCHANGED stored PROVE EditInv'
  OBVIOUS
<1> USE DEF EditInv
<1>1. Ind' /\ Fairness' /\ SharesInv' /\ Fits' /\ CallInv'
  BY IndStep, FairStep, SharesStep, FitsStep, CallStep
<1>2. FormInv'
  BY CallUnchanged, SameForm
<1>3. NeverWraps' /\ Accepted'
  BY NeverWrapsStep, AcceptedStep
<1> QED
  BY <1>1, <1>2, <1>3

\* The shares of a finished call whose sum did not wrap.
LEMMA DoneShares ==
    ASSUME Ind, Fairness, SharesInv, CallInv, pc = "done", ~Wrapped
    PROVE  /\ out \in [1..N -> Nat]
           /\ SumOver(out, 1..N) = call.total
           /\ call.st = "equal" => \A j \in 1..N : out[j] = EqualAmount(j)
           /\ call.st = "exact" => \A j \in 1..N : out[j] = Value(j)
<1>1. /\ out \in [1..N -> Int] /\ call.total \in Nat /\ N \in Nat \ {0}
      /\ call.st \in SplitTypes \ {"unknown"}
  BY DEF Ind, TypeOK, Arguments, CallInv, Passed
<1>2. SumOver(out, 1..N) = call.total
  BY Zenon DEF SharesInv, OutSum, Ind, Reconciled
<1>3. CASE call.st = "equal"
  <2>1. \A j \in 1..N : out[j] = EqualAmount(j)
    BY <1>3 DEF Fairness, EqualOut
  <2>2. \A j \in 1..N : EqualAmount(j) \in 0..call.total
    BY <1>1, EqualAmountFits
  <2>3. \A j \in 1..N : out[j] \in Nat
    BY <1>1, <2>1, <2>2
  <2> QED
    BY <1>1, <1>2, <1>3, <2>1, <2>3
<1>4. CASE call.st = "exact"
  <2>1. Len(prefix) = N /\ \A j \in 1..N : out[j] = Value(j)
    BY <1>4 DEF CallInv, ExactOut
  <2>2. \A j \in 1..N : Value(j) \in Nat
    BY <2>1 DEF Ind, Phases, PrefixInv
  <2> QED
    BY <1>1, <1>2, <1>4, <2>1, <2>2
<1>5. CASE Proportional
  <2>1. \A j \in 1..N : out[j] \in Nat
    BY <1>5, DoneFacts DEF Extra
  <2> QED
    BY <1>1, <1>2, <1>5, <2>1 DEF Proportional
<1> QED
  BY <1>1, <1>3, <1>4, <1>5 DEF Proportional, SplitTypes

\* The participants, and what each of them owes: the rows the store writes.
Sharers == {call.in[j].user : j \in 1..N}

IsBill(rows) ==
    /\ rows \in [Sharers -> Nat] /\ Sharers # {} /\ IsFiniteSet(Sharers)
    /\ \A j \in 1..N : rows[call.in[j].user] = out[j]
    /\ SumOver(rows, Sharers) = call.total

LEMMA DoneBill ==
    ASSUME Ind, Fairness, SharesInv, CallInv, pc = "done", ~Wrapped
    PROVE  \E rows : IsBill(rows)
<1> DEFINE user == [j \in 1..N |-> call.in[j].user]
           place(u) == CHOOSE j \in 1..N : user[j] = u
           rows == [u \in Sharers |-> out[place(u)]]
<1>1. /\ N \in Nat \ {0} /\ ~HasDuplicate
      /\ out \in [1..N -> Nat] /\ SumOver(out, 1..N) = call.total
  BY DoneShares DEF CallInv, Passed
<1>2. /\ user \in [1..N -> Sharers] /\ \A j \in 1..N : user[j] = call.in[j].user
      /\ \A u \in Sharers : \E j \in 1..N : user[j] = u
      /\ \A j, l \in 1..N : user[j] = user[l] => j = l
      /\ Sharers = {user[j] : j \in 1..N}
  BY <1>1 DEF Sharers, HasDuplicate
<1> HIDE DEF user
<1>3. IsFiniteSet(1..N)
  BY <1>1, FS_Interval
<1>4. IsFiniteSet(Sharers)
  <2>1. user \in Surjection(1..N, Sharers)
    BY <1>2 DEF Surjection
  <2> QED
    BY <1>3, <2>1, FS_Surjection
<1>5. \A u \in Sharers : place(u) \in 1..N /\ user[place(u)] = u
  BY <1>2
<1>6. \A j \in 1..N : user[j] \in Sharers /\ place(user[j]) = j
  BY <1>2, <1>5
<1> HIDE DEF place
<1>7. rows \in [Sharers -> Nat] /\ \A j \in 1..N : rows[user[j]] = out[j]
  BY <1>1, <1>5, <1>6
<1> HIDE DEF rows
<1>8. SumOver(rows, {user[j] : j \in 1..N}) = SumOver(out, 1..N)
  <2>1. PICK S, f : S = 1..N /\ f = out
    OBVIOUS
  <2>2. /\ IsFiniteSet(S) /\ rows \in [Sharers -> Int] /\ f \in [S -> Int]
        /\ user \in [S -> Sharers] /\ \A j \in S : rows[user[j]] = f[j]
        /\ \A j, l \in S : user[j] = user[l] => j = l
    BY <1>1, <1>2, <1>3, <1>7, <2>1
  <2>3. SumOver(rows, {user[j] : j \in S}) = SumOver(f, S)
    BY <1>4, <2>2, SumRenamed
  <2> QED
    BY <2>1, <2>3, Zenon
<1>9. SumOver(rows, Sharers) = call.total
  BY <1>1, <1>2, <1>8, Zenon
<1>10. Sharers # {}
  <2>1. 1 \in 1..N
    BY <1>1
  <2> QED
    BY <2>1 DEF Sharers
<1> QED
  BY <1>2, <1>4, <1>7, <1>9, <1>10 DEF IsBill

\* A form is a legal call of Compute, which starts anew.
LEMMA ResubmitStarts ==
    ASSUME EditInv, NEW st \in SplitTypes \ {"unknown"}, Resubmit(st)
    PROVE  Start'
<1>1. call \in Arguments /\ N \in Nat
  BY ArgumentTypes DEF EditInv, Ind, TypeOK
<1>2. \A j \in 1..N : call.in[j].user \in Users /\ out[j] \in Int64
  <2>1. call.in \in Seq(Inputs)
    BY <1>1 DEF Arguments
  <2>2. \A j \in 1..N : call.in[j] \in Inputs
    BY <2>1 DEF N
  <2> QED
    BY <2>2 DEF Inputs, EditInv, Fits, OutFits
<1>3. \A j \in 1..N : Prefilled(st, out[j]) \in Int64
  BY <1>2, PrefilledBounds
<1>4. call'.total = call.total /\ call'.st = st
      /\ call'.in = [j \in 1..N |-> [user |-> call.in[j].user,
                                     value |-> Prefilled(st, out[j])]]
      /\ call' = [total |-> call.total, st |-> st, in |-> call'.in]
  BY DEF Resubmit
<1>5. call'.in \in Seq(Inputs) /\ Len(call'.in) = N
  <2>1. \A j \in 1..N : [user |-> call.in[j].user,
                         value |-> Prefilled(st, out[j])] \in Inputs
    BY <1>2, <1>3 DEF Inputs
  <2> QED
    BY <1>1, <1>4, <2>1
<1>6. call' \in Arguments
  <2>1. call.total \in Int64
    BY <1>1 DEF Arguments
  <2> QED
    BY <1>4, <1>5, <2>1 DEF Arguments
<1>7. N' = N
  BY <1>5 DEF N
<1> QED
  BY <1>6, <1>7 DEF Resubmit, Start

LEMMA ResubmitForms ==
    ASSUME EditInv, NEW st \in SplitTypes \ {"unknown"}, Resubmit(st)
    PROVE  FormInv'
<1> SUFFICES ASSUME Resubmitted' PROVE FormOf'
  BY DEF FormInv
<1>1. /\ pc = "done"
      /\ stored' = [st |-> call.st, amounts |-> out, wrapped |-> Wrapped]
      /\ call' = [total |-> call.total, st |-> st,
                  in |-> [j \in 1..N |-> [user |-> call.in[j].user,
                                          value |-> Prefilled(st, out[j])]]]
  BY DEF Resubmit
<1>2. stored'.st = call.st /\ stored'.amounts = out /\ ~Wrapped
  BY <1>1 DEF Resubmitted
<1>3. /\ out \in [1..N -> Nat]
      /\ SumOver(out, 1..N) = call.total
      /\ call.st = "equal" => \A j \in 1..N : out[j] = EqualAmount(j)
  BY <1>1, <1>2, DoneShares DEF EditInv
<1>4. call.total \in Nat \ {0} /\ N \in Nat \ {0} /\ ~HasDuplicate
  BY <1>1 DEF EditInv, CallInv, Passed
<1>5. /\ N' = N /\ call'.total = call.total /\ call'.st = st
      /\ \A j \in 1..N : /\ Value(j)' = Prefilled(st, out[j])
                         /\ call'.in[j].user = call.in[j].user
  BY <1>1, <1>4 DEF N, Value
<1>6. ~HasDuplicate'
  BY <1>4, <1>5 DEF HasDuplicate
<1>7. \A j \in 1..N : EqualAmount(j)' = EqualAmount(j)
  BY <1>5 DEF EqualAmount, Base
<1>8. SumOver(stored'.amounts, 1..N') = call'.total
  BY <1>2, <1>3, <1>5, Zenon
<1> QED
  BY <1>2, <1>3, <1>4, <1>5, <1>6, <1>7, <1>8 DEF FormOf

\* The lemmas about the start of a call, for the state after a step.
LEMMA StartAgain == Start' => (Ind /\ Fairness /\ SharesInv /\ Fits /\ CallInv)'
<1>1. Start => Ind /\ Fairness /\ SharesInv /\ Fits /\ CallInv
  BY StartInd, StartFair, StartShares, StartFits, StartCall
<1> QED
  BY <1>1, PTL

LEMMA EditInvStep == EditInv /\ [EditNext]_editVars => EditInv'
<1> SUFFICES ASSUME EditInv, [EditNext]_editVars PROVE EditInv'
  OBVIOUS
<1>1. CASE [Next]_vars /\ UNCHANGED stored
  BY <1>1, EditInvNext
<1>2. ASSUME NEW st \in SplitTypes \ {"unknown"}, Resubmit(st) PROVE EditInv'
  <2>1. Ind' /\ Fairness' /\ SharesInv' /\ Fits' /\ CallInv'
    BY <1>2, ResubmitStarts, StartAgain
  <2>2. FormInv'
    BY <1>2, ResubmitForms
  <2>3. NeverWraps' /\ Accepted'
    BY <1>2 DEF Resubmit, NeverWraps, Accepted, TrueSum
  <2> QED
    BY <2>1, <2>2, <2>3 DEF EditInv
<1> QED
  BY <1>1, <1>2 DEF EditNext, editVars

LEMMA EditInvInit == EditInit => EditInv
<1> SUFFICES ASSUME EditInit PROVE EditInv
  OBVIOUS
<1>1. Start /\ stored = NotStored
  BY InitStart DEF EditInit
<1> QED
  BY <1>1, StartInd, StartFair, StartShares, StartFits, StartCall
     DEF EditInv, FormInv, NeverWraps, Accepted, Resubmitted

\* Every call is as good as the first one, be it made from a form.
THEOREM EditInvAlways == EditSpec => []EditInv
  BY EditInvInit, EditInvStep, PTL DEF EditSpec

(***************************************************************************)
(* What is proved above of one call of Compute holds of the calls that the *)
(* edit form makes with the amounts of an earlier one, too.                *)
(***************************************************************************)
THEOREM EveryCallIsSound ==
    EditSpec => [](/\ TypeOK /\ SharesSumToTotal
                   /\ EveryPennyHasATaker /\ LargestRemainder /\ FairRounding)
<1>1. EditInv => /\ TypeOK /\ SharesSumToTotal
                 /\ EveryPennyHasATaker /\ LargestRemainder /\ FairRounding
  BY IndSharesSum, IndTaker, IndLargest, IndFairRounding DEF EditInv, Ind
<1> QED
  BY <1>1, EditInvAlways, PTL

(***************************************************************************)
(* What the store gets from Compute is a bill: at least one participant,   *)
(* one share for each, none of them negative, and together the total       *)
(* (compute.go:53, expenses.go:15-53).  This is what Ledger assumes of its *)
(* bills, here of every call, from a form or not, whose sum did not wrap.  *)
(***************************************************************************)
THEOREM SharesMakeABill ==
    EditSpec => [](pc = "done" /\ ~Wrapped => \E rows : IsBill(rows))
<1>1. EditInv => (pc = "done" /\ ~Wrapped => \E rows : IsBill(rows))
  BY DoneBill DEF EditInv
<1> QED
  BY <1>1, EditInvAlways, PTL

\* A percentage form that is accepted has quotas that are the amounts.
LEMMA PercentageKeeps ==
    ASSUME EditInv, Resubmitted, pc = "done", call.st = "percentage"
    PROVE  out = stored.amounts /\ call.total = FullBps
<1>1. /\ FormOf /\ RunningSum /\ sum = TrueSum /\ sum = FullBps /\ ~Wrapped
      /\ Proportional
  BY DEF EditInv, FormInv, NeverWraps, CallInv, PercentSum, Wrapped, Proportional
<1>2. /\ stored.amounts \in [1..N -> Nat] /\ SumOver(stored.amounts, 1..N) = call.total
      /\ N \in Nat /\ \A j \in 1..N : Value(j) = stored.amounts[j]
      /\ SumOver(Values, 1..N) = call.total
  <2>1. Ind
    BY DEF EditInv
  <2> QED
    BY <1>1, <2>1, FormValues DEF FormOf
<1>3. TrueSum = call.total
  <2>1. Dividing
    BY <1>1 DEF EditInv, Fairness, RoundInv
  <2>2. Len(prefix) = N
    BY <2>1 DEF Dividing
  <2> QED
    BY <1>1, <1>2, <2>2, Zenon DEF RunningSum
<1>4. /\ out \in [1..N -> Nat] /\ SumOver(out, 1..N) = call.total
  BY <1>1, DoneShares DEF EditInv
<1>5. \A j \in 1..N : stored.amounts[j] <= out[j]
  <2> SUFFICES ASSUME NEW j \in 1..N PROVE stored.amounts[j] <= out[j]
    OBVIOUS
  <2>1. /\ TrueSum \in Nat \ {0} /\ Value(j) \in Nat /\ Quota(j) \in Nat
        /\ out[j] = Quota(j) + Extra(j)
    BY <1>1, DoneFacts DEF EditInv
  <2> DEFINE D == TrueSum
             v == Value(j)
             q == (D * v) \div D
  <2>2. Quota(j) = q
    BY <1>3 DEF Quota
  <2> HIDE DEF D, v
  <2>3. D \in Nat \ {0} /\ v \in Nat /\ D * v \in Nat
    BY <2>1 DEF D, v
  <2>4. q \in Nat /\ D * v - (D - 1) <= D * q
    BY <2>3, QuotientBounds, Zenon
  <2> HIDE DEF q
  <2>5. ~(q <= v - 1)
    <3> SUFFICES ASSUME q <= v - 1 PROVE FALSE
      OBVIOUS
    <3>1. D * q <= D * (v - 1)
      BY <2>3, <2>4, ProductMonotone
    <3>2. D * (v - 1) = D * v - D /\ D * q \in Int
      BY <2>3, <2>4
    <3> QED
      BY <3>1, <3>2, <2>3, <2>4
  <2>6. Quota(j) >= v
    BY <2>2, <2>3, <2>4, <2>5
  <2>7. v = stored.amounts[j]
    BY <1>2 DEF v
  <2>8. Extra(j) \in {0, 1}
    BY DEF Extra
  <2> QED
    BY <2>1, <2>3, <2>6, <2>7, <2>8
<1>6. \A j \in 1..N : stored.amounts[j] = out[j]
  <2>1. PICK a : a = stored.amounts
    OBVIOUS
  <2>2. PICK b : b = out
    OBVIOUS
  <2>3. /\ a \in [1..N -> Int] /\ b \in [1..N -> Int]
        /\ \A j \in 1..N : a[j] <= b[j]
    BY <1>2, <1>4, <1>5, <2>1, <2>2
  <2>4. SumOver(a, 1..N) = SumOver(b, 1..N)
    BY <1>2, <1>4, <2>1, <2>2, Zenon
  <2>5. IsFiniteSet(1..N)
    BY <1>2, FS_Interval
  <2>6. \A j \in 1..N : a[j] = b[j]
    BY <2>3, <2>4, <2>5, SumTight
  <2> QED
    BY <2>1, <2>2, <2>6
<1>7. out = stored.amounts
  BY <1>2, <1>4, <1>6
<1> QED
  BY <1>1, <1>3, <1>7

\* Two lists of amounts that agree at every place are the same list.
LEMMA SameAmounts ==
    ASSUME NEW n \in Nat, NEW f \in [1..n -> Nat], NEW g \in [1..n -> Nat],
           \A j \in 1..n : f[j] = g[j]
    PROVE  f = g
OBVIOUS

(***************************************************************************)
(* Submitting the edit form of an expense unchanged keeps its shares when  *)
(* they are exact or equal, and refuses or keeps them when they are read   *)
(* as percentages, keeping them only for a total of 100.00                 *)
(* (expense_edit.go:46, actions.go buildInputs), for every expense whose   *)
(* shares did not come from a sum that wrapped.                            *)
(***************************************************************************)
THEOREM FormsKeepShares == EditSpec => []UnweightedFormKeepsShares
<1>1. EditInv => UnweightedFormKeepsShares
  <2> SUFFICES ASSUME EditInv, Resubmitted, pc \in {"done", "failed"}
               PROVE  /\ call.st = "exact" => Kept
                      /\ call.st = "equal" /\ stored.st = "equal" => Kept
                      /\ call.st = "percentage" =>
                            Refused \/ (Kept /\ call.total = FullBps)
    BY DEF UnweightedFormKeepsShares, Resubmitted
  <2>1. /\ FormOf /\ ~Wrapped
        /\ call.st \in {"equal", "exact", "percentage", "shares"}
        /\ stored.amounts \in [1..N -> Nat]
        /\ N \in Nat
    BY ArgumentTypes DEF EditInv, Ind, FormInv, NeverWraps, Wrapped, FormOf, SplitTypes
  <2>2. ASSUME call.st = "exact" PROVE Kept
    <3>1. pc = "done"
      BY <2>2 DEF EditInv, Accepted
    <3>2. \A j \in 1..N : out[j] = Value(j) /\ Value(j) = stored.amounts[j]
      BY <2>1, <2>2, <3>1, DoneShares, FormValues DEF EditInv, CallInv
    <3>3. out \in [1..N -> Nat]
      BY <2>1, <3>1, DoneShares DEF EditInv
    <3>4. \A j \in 1..N : out[j] = stored.amounts[j]
      BY <3>2
    <3>5. out = stored.amounts
      BY <2>1, <3>3, <3>4, SameAmounts
    <3> QED
      BY <3>1, <3>5 DEF Kept
  <2>3. ASSUME call.st = "equal", stored.st = "equal" PROVE Kept
    <3>1. pc = "done"
      BY <2>3 DEF EditInv, Accepted
    <3>2. \A j \in 1..N : out[j] = stored.amounts[j]
      BY <2>1, <2>3, <3>1, DoneShares DEF EditInv, FormOf
    <3>3. out \in [1..N -> Nat]
      BY <2>1, <3>1, DoneShares DEF EditInv
    <3>4. out = stored.amounts
      BY <2>1, <3>2, <3>3, SameAmounts
    <3> QED
      BY <3>1, <3>4 DEF Kept
  <2>4. ASSUME call.st = "percentage" PROVE Refused \/ (Kept /\ call.total = FullBps)
    BY <2>4, PercentageKeeps DEF Kept, Refused
  <2> QED
    BY <2>2, <2>3, <2>4
<1> QED
  BY <1>1, EditInvAlways, PTL

\* A multiple is divided evenly.
LEMMA EvenDivision ==
    ASSUME NEW d \in Nat \ {0}, NEW v \in Nat
    PROVE  (d * v) \div d = v /\ (d * v) % d = 0
<1> DEFINE n == d * v
           q == n \div d
           r == n % d
<1>1. n \in Int /\ n = d * v
  OBVIOUS
<1> HIDE DEF n
<1>2. q \in Int /\ r \in 0..d-1 /\ n = d * q + r
  BY <1>1, DivBounds
<1> HIDE DEF q, r
<1>3. ~(q <= v - 1)
  <2> SUFFICES ASSUME q <= v - 1 PROVE FALSE
    OBVIOUS
  <2>1. d * q <= d * (v - 1) /\ d * (v - 1) = d * v - d
    BY <1>2, ProductMonotone
  <2> QED
    BY <1>1, <1>2, <2>1
<1>4. ~(q >= v + 1)
  <2> SUFFICES ASSUME q >= v + 1 PROVE FALSE
    OBVIOUS
  <2>1. d * (v + 1) <= d * q /\ d * (v + 1) = d * v + d
    BY <1>2, ProductMonotone
  <2> QED
    BY <1>1, <1>2, <2>1
<1>5. q = v
  BY <1>2, <1>3, <1>4
<1>6. r = 0
  BY <1>1, <1>2, <1>5
<1> QED
  BY <1>5, <1>6 DEF n, q, r

\* The weight that is read for an amount of whole units is that many units.
LEMMA WholeUnits ==
    ASSUME NEW a \in Nat, a % MinorUnits = 0
    PROVE  /\ Prefilled("shares", a) \in Nat
           /\ a = MinorUnits * Prefilled("shares", a)
<1> DEFINE u == MinorUnits
           d == 2 * u
           n == 2 * a + u
           q == n \div d
           r == n % d
           w == a \div u
<1>1. /\ u \in Nat \ {0} /\ d \in Nat \ {0} /\ n \in Nat /\ d = 2 * u /\ n = 2 * a + u
      /\ a % u = 0
  BY MinorUnitsAssumption
<1>2. Prefilled("shares", a) = q
  BY DEF Prefilled
<1> HIDE DEF u, d, n
<1>3. w \in Int /\ a = u * w
  BY <1>1, DivBounds
<1>4. q \in Int /\ r \in 0..d-1 /\ n = d * q + r
  <2>1. n \in Int /\ d \in Nat \ {0}
    BY <1>1
  <2> QED
    BY <2>1, DivBounds
<1> HIDE DEF w, q, r
<1>5. d * w = 2 * a
  BY <1>1, <1>3
<1>6. ~(q <= w - 1)
  <2> SUFFICES ASSUME q <= w - 1 PROVE FALSE
    OBVIOUS
  <2>1. d * q <= d * (w - 1) /\ d * (w - 1) = d * w - d
    BY <1>1, <1>3, <1>4, ProductMonotone
  <2>2. d * q \in Int /\ d * w \in Int
    BY <1>1, <1>3, <1>4
  <2> QED
    BY <1>1, <1>4, <1>5, <2>1, <2>2
<1>7. ~(q >= w + 1)
  <2> SUFFICES ASSUME q >= w + 1 PROVE FALSE
    OBVIOUS
  <2>1. d * (w + 1) <= d * q /\ d * (w + 1) = d * w + d
    BY <1>1, <1>3, <1>4, ProductMonotone
  <2>2. d * q \in Int /\ d * w \in Int
    BY <1>1, <1>3, <1>4
  <2> QED
    BY <1>1, <1>4, <1>5, <2>1, <2>2
<1>8. q = w
  BY <1>3, <1>4, <1>6, <1>7
<1>9. ~(w <= -1)
  <2> SUFFICES ASSUME w <= -1 PROVE FALSE
    OBVIOUS
  <2>1. u * w <= u * (-1)
    BY <1>1, <1>3, ProductMonotone
  <2> QED
    BY <1>1, <1>3, <2>1
<1> QED
  BY <1>2, <1>3, <1>8, <1>9 DEF u

\* Amounts of whole units come back as weights in the same proportion.
LEMMA WholeWeightsKeep ==
    ASSUME EditInv, Resubmitted, pc = "done", call.st = "shares",
           \A j \in 1..N : stored.amounts[j] % MinorUnits = 0
    PROVE  out = stored.amounts
<1>1. FormOf /\ RunningSum /\ sum = TrueSum /\ ~Wrapped /\ Proportional
  BY DEF EditInv, FormInv, NeverWraps, CallInv, Wrapped, Proportional
<1>2. /\ stored.amounts \in [1..N -> Nat] /\ SumOver(stored.amounts, 1..N) = call.total
      /\ N \in Nat /\ Values \in [1..N -> Int]
      /\ \A j \in 1..N : Values[j] = Value(j)
  <2>1. TypeOK
    BY DEF EditInv, Ind
  <2>2. /\ Values \in [1..N -> Int] /\ N \in Nat
        /\ \A j \in 1..N : Values[j] = Value(j)
    BY <2>1, ValuesType
  <2>3. stored.amounts \in [1..N -> Nat] /\ SumOver(stored.amounts, 1..N) = call.total
    BY <1>1 DEF FormOf
  <2> QED
    BY <2>2, <2>3
<1>3. ASSUME NEW j \in 1..N
      PROVE  Value(j) \in Nat /\ stored.amounts[j] = MinorUnits * Value(j)
  <2>1. Value(j) = Prefilled("shares", stored.amounts[j])
    BY <1>1 DEF FormOf
  <2>2. stored.amounts[j] \in Nat
    BY <1>2
  <2> QED
    BY <2>1, <2>2, WholeUnits
<1>4. call.total = MinorUnits * TrueSum
  <2>1. Len(prefix) = N
    <3>1. Dividing
      BY <1>1 DEF EditInv, Fairness, RoundInv
    <3> QED
      BY <3>1 DEF Dividing
  <2>2. TrueSum = SumOver(Values, 1..N)
    BY <1>1, <2>1, Zenon DEF RunningSum
  <2>3. PICK a : a = stored.amounts
    OBVIOUS
  <2>4. PICK f : f = Values
    OBVIOUS
  <2>5. /\ f \in [1..N -> Int] /\ a \in [1..N -> Int]
        /\ \A j \in 1..N : a[j] = MinorUnits * f[j]
    BY <1>2, <1>3, <2>3, <2>4
  <2>6. IsFiniteSet(1..N) /\ MinorUnits \in Int
    BY <1>2, FS_Interval, MinorUnitsAssumption
  <2>7. SumOver(a, 1..N) = MinorUnits * SumOver(f, 1..N)
    BY <2>5, <2>6, SumScale, Zenon
  <2> QED
    BY <1>2, <2>2, <2>3, <2>4, <2>7, Zenon
<1>5. /\ out \in [1..N -> Nat]
      /\ TrueSum \in Nat \ {0}
      /\ \A j \in 1..N :
            /\ out[j] = Quota(j) + Extra(j)
            /\ j \in consumed => Fraction(j) > 0
  BY <1>1, DoneShares, DoneFacts DEF EditInv
<1>6. ASSUME NEW j \in 1..N PROVE out[j] = stored.amounts[j]
  <2> DEFINE D == TrueSum
             v == Value(j)
             a == stored.amounts[j]
  <2>1. D \in Nat \ {0} /\ v \in Nat /\ a \in Nat /\ a = MinorUnits * v
        /\ MinorUnits \in Nat /\ call.total = MinorUnits * D
    BY <1>2, <1>3, <1>4, <1>5, MinorUnitsAssumption
  <2>2. Quota(j) = (call.total * v) \div D /\ Fraction(j) = (call.total * v) % D
    BY DEF Quota, Fraction
  <2> HIDE DEF D, v, a
  <2>3. call.total * v = D * a
    BY <2>1
  <2>4. Quota(j) = a /\ Fraction(j) = 0
    BY <2>1, <2>2, <2>3, EvenDivision
  <2>5. out[j] = Quota(j) + Extra(j) /\ (j \in consumed => Fraction(j) > 0)
    BY <1>5
  <2>6. Extra(j) = 0
    BY <2>4, <2>5 DEF Extra
  <2> QED
    BY <2>1, <2>4, <2>5, <2>6 DEF a
<1> QED
  BY <1>2, <1>5, <1>6, SameAmounts

(***************************************************************************)
(* Read as weights the amounts are rounded to whole units and the expense  *)
(* is divided anew (actions.go:129-134).  Whole units are kept, unless the *)
(* form is refused; of other shares only their order is left, to the cent: *)
(* who owed less is not made to pay more than a cent above who owed more.  *)
(***************************************************************************)
THEOREM WeightsKeepOrder == EditSpec => []WeightsFormKeepsOrder
<1>1. ASSUME EditInv, Resubmitted, call.st = "shares", pc = "done",
             NEW j \in 1..N, NEW l \in 1..N, stored.amounts[j] > stored.amounts[l]
      PROVE  out[j] >= out[l] - 1
  <2>1. FormOf /\ ~Wrapped /\ stored.amounts \in [1..N -> Nat]
    BY <1>1 DEF EditInv, FormInv, NeverWraps, Wrapped, FormOf
  <2>2. stored.amounts[j] \in Nat /\ stored.amounts[l] \in Nat
    BY <1>1, <2>1
  <2>3. /\ Value(j) = Prefilled("shares", stored.amounts[j])
        /\ Value(l) = Prefilled("shares", stored.amounts[l])
    BY <1>1, <2>1 DEF FormOf
  <2>4. Value(j) >= Value(l)
    BY <1>1, <2>2, <2>3, PrefilledMonotone
  <2>5. FairRounding /\ Proportional
    BY <1>1, IndFairRounding DEF EditInv, Proportional
  <2>6. /\ Value(j) > Value(l) => out[j] >= out[l]
        /\ Value(j) = Value(l) => out[j] - out[l] \in -1..1
    BY <1>1, <2>1, <2>5 DEF FairRounding
  <2>7. out \in [1..N -> Nat]
    BY <1>1, <2>1, DoneShares DEF EditInv
  <2>8. Value(j) \in Nat /\ Value(l) \in Nat
    BY <1>1, <2>1, <2>2, FormValues DEF EditInv, CallInv
  <2>9. out[j] \in Int /\ out[l] \in Int
    BY <1>1, <2>7
  <2> QED
    BY <2>4, <2>6, <2>8, <2>9
<1>2. ASSUME EditInv, Resubmitted, call.st = "shares", pc \in {"done", "failed"},
             \A j \in 1..N : stored.amounts[j] % MinorUnits = 0
      PROVE  Refused \/ Kept
  BY <1>2, WholeWeightsKeep DEF Refused, Kept
<1>3. EditInv => WeightsFormKeepsOrder
  BY <1>1, <1>2 DEF WeightsFormKeepsOrder, Resubmitted
<1> QED
  BY <1>3, EditInvAlways, PTL
=============================================================================
