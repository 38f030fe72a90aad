------------------------------ MODULE MCAccess ------------------------------
(***************************************************************************)
(* Small instances of Access for TLC.                                      *)
(***************************************************************************)
EXTENDS Access, TLC

CONSTANTS q1, q2, q3, k1

\* The admin key may do more than the others.
Limits == [b \in Buckets |-> IF b = Admin THEN 2 ELSE 1]

RequestSymmetry == Permutations(Requests)
=============================================================================
