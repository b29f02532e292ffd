-------------------------- MODULE MCDatabaseFormat --------------------------
(* DatabaseFormat with three rows of two users.                              *)
EXTENDS DatabaseFormat

MCOwner == [i \in Ids |-> IF i = 3 THEN "u2" ELSE "u1"]
=============================================================================
