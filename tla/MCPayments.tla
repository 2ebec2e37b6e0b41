----------------------------- MODULE MCPayments -----------------------------
(* Model values for TLC: two payments, one or two notifications at a time. *)
EXTENDS Payments, TLC

CONSTANTS p1, p2, h1, h2, monthly, pack

MCPayments == {p1, p2}
MCHandlers == {h1, h2}
OneHandler == {h1}
Symmetry == Permutations(MCPayments) \cup Permutations(MCHandlers)
MCSubscriptionPlans == {monthly}
MCPackagePlans == {pack}
=============================================================================
