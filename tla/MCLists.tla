------------------------------ MODULE MCLists ------------------------------
EXTENDS Lists

CONSTANTS x1, x2

OneAfterTheOther == x1 :> 1 @@ x2 :> 2
=============================================================================
