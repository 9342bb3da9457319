------------------------------ MODULE MCSplits ------------------------------
(* Compute on every input of at most three participants and small numbers. *)
EXTENDS Splits

CONSTANTS u1, u2, u3

Order == <<u1, u2, u3>>

\* Up to three different people with values in V ...
Distinct(V) ==
    UNION {{[j \in 1..n |-> [user |-> Order[j], value |-> f[j]]] : f \in [1..n -> V]} :
               n \in 0..3}

\* ... and one person twice.
Twice == {<<[user |-> u1, value |-> 1], [user |-> u1, value |-> 1]>>}

Args(T, V) ==
    {[total |-> t, st |-> s, in |-> p] :
        t \in T, s \in SplitTypes, p \in Distinct(V) \cup Twice}

\* For integers of 4 bits (MaxInt = 7): every total and value but the most negative.
FourBits == Args(0..7, -1..7)

\* For integers of 6 bits (MaxInt = 31): small numbers, and the largest one.
SixBits == Args(0..6 \cup {31}, -1..5 \cup {31})
=============================================================================
