------------------------------ MODULE MCAdmins ------------------------------
EXTENDS Admins

ToOne == [s \in Seat |-> CHOOSE e \in Email : TRUE]
=============================================================================
