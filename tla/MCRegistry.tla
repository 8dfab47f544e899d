------------------------------ MODULE MCRegistry ------------------------------
EXTENDS OSEntityRegistry

\* The first and the last entity have one name; ids 3, 6 and 8 are of another type.
MCNameHash == <<1, 2, 3, 4, 5, 6, 7, 8, 1>>
MCAliasHash == <<1, 2, 3, 4, 5, 6, 7, 8, 2>>
MCEntityType == [id \in 1 .. 9 |-> IF id \in {3, 6, 8} THEN "rng" ELSE "filesystem"]

=============================================================================
