------------------------ MODULE MCOrderTransactions ------------------------
EXTENDS OrderTransactions, TLC
Symmetric == Permutations(Order) \cup Permutations(Trip) \cup Permutations(Driver)
               \cup Permutations(Request)
=============================================================================
