----------------------------- MODULE MCDispatch -----------------------------
EXTENDS DispatchProperties, TLC
Symmetric == Permutations(Order) \cup Permutations(Trip) \cup Permutations(Driver)
=============================================================================
