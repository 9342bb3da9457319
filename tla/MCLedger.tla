------------------------------ MODULE MCLedger ------------------------------
(* The ledger of two people with three concurrent requests, and an id that  *)
(* no user has.                                                             *)
EXTENDS Ledger, TLC

CONSTANTS u1, u2, stranger, usd, eur

\* u1 pays for both; u2 pays for u1 alone, in another currency.  A stranger is
\* among the participants, or is the payer.
SomeBills ==
    {[payer |-> u1, amount |-> 3, cur |-> usd,
      shares |-> u1 :> 2 @@ u2 :> 1 @@ stranger :> NoRow],
     [payer |-> u2, amount |-> 2, cur |-> eur,
      shares |-> u1 :> 2 @@ u2 :> NoRow @@ stranger :> NoRow],
     [payer |-> u1, amount |-> 2, cur |-> usd,
      shares |-> u1 :> 1 @@ u2 :> NoRow @@ stranger :> 1],
     [payer |-> stranger, amount |-> 1, cur |-> usd,
      shares |-> u1 :> 1 @@ u2 :> NoRow @@ stranger :> NoRow]}

SomePayments ==
    {[from |-> u1, to |-> u2, amount |-> 1, cur |-> usd],
     [from |-> u1, to |-> stranger, amount |-> 1, cur |-> usd]}

Symmetry == Permutations(Requests) \cup Permutations(Expenses)
=============================================================================
