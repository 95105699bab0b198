---------------------------- MODULE MCMembership ----------------------------
EXTENDS Membership, TLC

Symmetry == Permutations(Person \ {Founder}) \cup Permutations(Request)
=============================================================================
