------------------------------- MODULE Splits -------------------------------
(***************************************************************************)
(* internal/splits/compute.go: a total and the participants' parameters    *)
(* become whole-cent shares.  One action is one iteration of one of the    *)
(* loops, so that what the loops accumulate can be related to the total.   *)
(*                                                                         *)
(* Integers are int64 in the code.  Here they have the range               *)
(* -MaxInt-1..MaxInt, and sums and products wrap as they do in Go.         *)
(***************************************************************************)
EXTENDS Integers, Sequences, FiniteSets, Sums

CONSTANTS
    Users,
    Calls,      \* the arguments considered: [total, st, in]
    MaxInt,     \* the largest integer (2^63 - 1 in the code)
    FullBps     \* 100 percent (10000 basis points in the code)

SplitTypes == {"equal", "exact", "percentage", "shares", "unknown"}

Int64 == -MaxInt-1..MaxInt

Inputs == [user : Users, value : Int64]

Arguments == [total : Int64, st : SplitTypes, in : Seq(Inputs)]

ASSUME CallsAssumption == Calls \subseteq Arguments
ASSUME MaxIntAssumption == MaxInt \in Nat \ {0}
ASSUME FullBpsAssumption == FullBps \in 1..MaxInt

VARIABLES
    call,       \* the arguments, never changed
    pc, err,
    i,          \* participants done by the loop under way
    sum,        \* of the values, as the code computes it: it may wrap
    denom, out, remainder, assigned,
    consumed,   \* the participants who were given an extra cent
    k,          \* pennies handed out one by one
    prefix,     \* history: the true running sums of the values
    given       \* history: what has been handed out (the proofs count by it)

inVars == <<call>>
sumVars == <<sum, prefix>>
outVars == <<denom, out, remainder, assigned, consumed, k, given>>
vars == <<call, pc, err, i, sum, denom, out, remainder, assigned, consumed, k,
          prefix, given>>

N == Len(call.in)

Value(j) == call.in[j].value

\* The int64 that sums and products leave behind.
Wrap(x) == ((x + MaxInt + 1) % (2 * (MaxInt + 1))) - (MaxInt + 1)

\* Go truncates towards zero; denom is negative when the sum of weights wrapped.
Quotient(a, b) == IF b > 0 THEN a \div b ELSE -(a \div (-b))

Remainder(a, b) == IF b > 0 THEN a % b ELSE a % (-b)

Init ==
    /\ call \in Calls
    /\ pc = "enter" /\ err = "none"
    /\ i = 0 /\ sum = 0 /\ denom = 0 /\ assigned = 0 /\ k = 0
    /\ out = [j \in 1..N |-> 0]
    /\ remainder = [j \in 1..N |-> 0]
    /\ consumed = {}
    /\ prefix = << >> /\ given = 0

Fail(e) == /\ pc' = "failed" /\ err' = e
           /\ UNCHANGED <<inVars, i, sumVars, outVars>>

HasDuplicate == \E j, l \in 1..N : j # l /\ call.in[j].user = call.in[l].user

-----------------------------------------------------------------------------
(* Compute: the guards in the code's order, then the split type *)

Enter ==
    /\ pc = "enter"
    /\ IF call.total <= 0 THEN Fail("ErrNonPositiveTotal")
       ELSE IF N = 0 THEN Fail("ErrEmptyInputs")
       ELSE IF HasDuplicate THEN Fail("ErrDuplicateUser")
       ELSE IF call.st = "unknown" THEN Fail("ErrInvalidSplitType")
       ELSE /\ pc' = IF call.st = "equal" THEN "equal" ELSE "sum"
            /\ UNCHANGED <<inVars, err, i, sumVars, outVars>>

Return == /\ pc' = "done"
          /\ UNCHANGED <<inVars, err, i, sumVars, outVars>>

-----------------------------------------------------------------------------
(* equal *)

Base == call.total \div N

\* The first rem participants, in the order of the input, get one cent more.
EqualAmount(j) == Base + (IF j <= call.total - Base * N THEN 1 ELSE 0)

\* Mutant: the loop runs once too often.
EqualShareOffByOne ==
    /\ pc = "equal" /\ i <= N
    /\ out' = [out EXCEPT ![i + 1] = EqualAmount(i + 1)]
    /\ given' = given + EqualAmount(i + 1)
    /\ i' = i + 1
    /\ UNCHANGED <<inVars, pc, err, sumVars, denom, remainder, assigned, consumed, k>>

EqualShare ==
    /\ pc = "equal" /\ i < N
    /\ out' = [out EXCEPT ![i + 1] = EqualAmount(i + 1)]
    /\ given' = given + EqualAmount(i + 1)
    /\ i' = i + 1
    /\ UNCHANGED <<inVars, pc, err, sumVars, denom, remainder, assigned, consumed, k>>

EqualEnd == pc = "equal" /\ i = N /\ Return

-----------------------------------------------------------------------------
(* exact, percentage and shares begin by adding up the values *)

TrueSum == IF prefix = << >> THEN 0 ELSE prefix[Len(prefix)]

AddValue ==
    /\ pc = "sum" /\ i < N
    /\ IF Value(i + 1) < 0 THEN Fail("ErrNegativeValue")
       ELSE /\ sum' = Wrap(sum + Value(i + 1))
            /\ prefix' = Append(prefix, TrueSum + Value(i + 1))
            /\ i' = i + 1
            /\ IF call.st = "exact"
               THEN /\ out' = [out EXCEPT ![i + 1] = Value(i + 1)]
                    /\ given' = given + Value(i + 1)
               ELSE UNCHANGED <<out, given>>
            /\ UNCHANGED <<inVars, pc, err, denom, remainder, assigned, consumed, k>>

Added(st) == pc = "sum" /\ i = N /\ call.st = st

\* The call of proportional with its denominator.
Divide(d) ==
    /\ pc' = "divide" /\ i' = 0 /\ denom' = d
    /\ UNCHANGED <<inVars, err, sumVars, out, remainder, assigned, consumed, k, given>>

ExactEnd ==
    /\ Added("exact")
    /\ IF sum # call.total THEN Fail("ErrBadSplit") ELSE Return

\* Mutant: percentages may add up to less than a hundred.
PercentageEndUpTo ==
    /\ Added("percentage")
    /\ IF sum > FullBps THEN Fail("ErrBadSplit") ELSE Divide(FullBps)

PercentageEnd ==
    /\ Added("percentage")
    /\ IF sum # FullBps THEN Fail("ErrBadSplit") ELSE Divide(FullBps)

\* Mutant: the weights are divided by what percentages are divided by.
SharesEndOfFullBps ==
    /\ Added("shares")
    /\ IF sum = 0 THEN Fail("ErrBadSplit") ELSE Divide(FullBps)

SharesEnd ==
    /\ Added("shares")
    /\ IF sum = 0 THEN Fail("ErrBadSplit") ELSE Divide(sum)

-----------------------------------------------------------------------------
(* proportional *)

\* Mutant: the guard looks at one factor only.
OverflowsAlone(v) == v > MaxInt

Overflows(v) == v > 0 /\ call.total > MaxInt \div v

Allot ==
    /\ pc = "divide" /\ i < N
    /\ LET num == Wrap(call.total * Value(i + 1))
           amt == Quotient(num, denom)
       IN  IF Overflows(Value(i + 1)) THEN Fail("ErrOverflow")
           ELSE /\ out' = [out EXCEPT ![i + 1] = amt]
                /\ remainder' = [remainder EXCEPT ![i + 1] = Remainder(num, denom)]
                /\ assigned' = Wrap(assigned + amt)
                /\ given' = given + amt
                /\ i' = i + 1
                /\ UNCHANGED <<inVars, pc, err, sumVars, denom, consumed, k>>

AllotEnd ==
    /\ pc = "divide" /\ i = N
    /\ pc' = "pennies"
    /\ UNCHANGED <<inVars, err, i, sumVars, outVars>>

Left == Wrap(call.total - assigned)

Unconsumed == 1..N \ consumed

\* Mutants: the last of the largest (>= for >); simply the first one left.
IsBestLast(j) ==
    /\ j \in Unconsumed
    /\ \A l \in Unconsumed :
          \/ remainder[l] < remainder[j]
          \/ remainder[l] = remainder[j] /\ j >= l

IsBestFirst(j) == j \in Unconsumed /\ \A l \in Unconsumed : j <= l

\* The linear scan: the first of the largest remainders not yet consumed.
IsBest(j) ==
    /\ j \in Unconsumed
    /\ \A l \in Unconsumed :
          \/ remainder[l] < remainder[j]
          \/ remainder[l] = remainder[j] /\ j <= l

GivePenny ==
    /\ pc = "pennies" /\ k < Left
    /\ k' = k + 1
    /\ IF Unconsumed = {} THEN UNCHANGED <<out, consumed, given>>
       ELSE \E j \in 1..N : /\ IsBest(j)
                            /\ out' = [out EXCEPT ![j] = @ + 1]
                            /\ consumed' = consumed \cup {j}
                            /\ given' = given + 1
    /\ UNCHANGED <<inVars, pc, err, i, sumVars, denom, remainder, assigned>>

PenniesEnd == pc = "pennies" /\ k >= Left /\ Return

-----------------------------------------------------------------------------

Next == \/ Enter \/ EqualShare \/ EqualEnd
        \/ AddValue \/ ExactEnd \/ PercentageEnd \/ SharesEnd
        \/ Allot \/ AllotEnd \/ GivePenny \/ PenniesEnd

Spec == Init /\ [][Next]_vars

-----------------------------------------------------------------------------

Proportional == call.st \in {"percentage", "shares"}

\* The values are too large for an int64 to hold their sum.
Wrapped == sum # TrueSum

\* Indices stay in range and counters fit an int64 (compute.go:106-211).
TypeOK ==
    /\ call \in Arguments
    /\ pc \in {"enter", "equal", "sum", "divide", "pennies", "done", "failed"}
    /\ err \in {"none", "ErrNonPositiveTotal", "ErrEmptyInputs", "ErrDuplicateUser",
                "ErrInvalidSplitType", "ErrNegativeValue", "ErrBadSplit", "ErrOverflow"}
    /\ i \in 0..N
    /\ sum \in Int64 /\ denom \in Int64 /\ assigned \in Int64 /\ given \in Int
    /\ out \in [1..N -> Int]
    /\ remainder \in [1..N -> Int]
    /\ consumed \subseteq 1..N
    /\ k \in Nat
    /\ prefix \in Seq(Int)

(***************************************************************************)
(* There is always somebody left to take the next cent: the remainder is   *)
(* smaller than the number of participants (compute.go:190-209 relies on   *)
(* it: a cent that finds no taker would be lost silently).                 *)
(***************************************************************************)
EveryPennyHasATaker ==
    pc = "pennies" /\ ~Wrapped /\ k < Left => Unconsumed # {}

(***************************************************************************)
(* "Shares always sum exactly to total (no lost pennies)" (compute.go:53,  *)
(* README.md:295), provided the sum of the values is representable: no     *)
(* rounding, in any mode, loses or invents a cent.                         *)
(***************************************************************************)
SharesSumToTotal == pc = "done" /\ ~Wrapped => SumOver(out, 1..N) = call.total

(***************************************************************************)
(* The same without the proviso.  The loops of exact, percentage and       *)
(* shares add up the values unchecked (compute.go:118, 135, 151).          *)
(***************************************************************************)
AlwaysReconciled == pc = "done" => SumOver(out, 1..N) = call.total

Quota(j) == (call.total * Value(j)) \div TrueSum

Fraction(j) == (call.total * Value(j)) % TrueSum

(***************************************************************************)
(* Largest remainder: nobody is more than a cent above the rounded-down    *)
(* quota or below it, and a cent goes to the larger fraction, the earlier  *)
(* participant among equals (compute.go:54-55, 195-209).                   *)
(***************************************************************************)
LargestRemainder ==
    pc = "done" /\ Proportional /\ ~Wrapped =>
        /\ \A j \in 1..N : out[j] \in {Quota(j), Quota(j) + 1}
        /\ \A j, l \in 1..N :
              out[j] = Quota(j) + 1 /\ out[l] = Quota(l) =>
                  \/ Fraction(j) > Fraction(l)
                  \/ Fraction(j) = Fraction(l) /\ j < l

(***************************************************************************)
(* Rounding is fair: a participant with weight zero pays nothing, one with *)
(* a larger weight never pays less, equal weights differ by a cent at      *)
(* most, and an equal split is within a cent for everybody.                *)
(***************************************************************************)
FairRounding ==
    pc = "done" /\ ~Wrapped =>
        /\ Proportional => \A j, l \in 1..N :
              /\ Value(j) = 0 => out[j] = 0
              /\ Value(j) > Value(l) => out[j] >= out[l]
              /\ Value(j) = Value(l) => out[j] - out[l] \in -1..1
        /\ call.st = "equal" =>
              \A j, l \in 1..N : out[j] - out[l] \in -1..1
=============================================================================
