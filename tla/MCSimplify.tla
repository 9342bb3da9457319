----------------------------- MODULE MCSimplify -----------------------------
(* Simplify on every net-balance vector of a few users with small amounts. *)
EXTENDS Simplify, FiniteSetsExt

CONSTANT MaxNet     \* bound on the size of one person's net balance

SmallNets == [Users -> -MaxNet..MaxNet]

BalancedNets == {b \in SmallNets : Total(b) = 0}

(***************************************************************************)
(* The fewest transfers that settle balances summing to zero: one less     *)
(* than its size for each group that settles among itself, so the count of *)
(* people with a balance minus the largest number of such groups.          *)
(***************************************************************************)
Groupings == [Creditors \cup Debtors -> 1..Cardinality(Creditors \cup Debtors)]

Group(g, i) == {u \in DOMAIN g : g[u] = i}

FewestTransfers ==
    LET closed == {g \in Groupings : \A i \in DOMAIN g :
                      MapThenSumSet(LAMBDA u : net[u], Group(g, g[i])) = 0}
        groups(g) == Cardinality({g[u] : u \in DOMAIN g})
    IN  Cardinality(Creditors \cup Debtors) - Max({groups(g) : g \in closed})

(***************************************************************************)
(* "Simplify reduces net balances into a minimal set of transfers"         *)
(* (simplify.go:34): no plan with fewer transfers would do.                *)
(***************************************************************************)
MinimalPlan == pc = "returned" => Len(transfers) <= FewestTransfers
=============================================================================
