--------------------------- MODULE MCSubscriptions ---------------------------
EXTENDS Subscriptions, TLC

Symmetry == Permutations(Code) \cup Permutations(PaidPlan) \cup Permutations(Handler)
=============================================================================
