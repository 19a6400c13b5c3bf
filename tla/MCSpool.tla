------------------------------ MODULE MCSpool ------------------------------
(* Spool on small instances; the recovery processes are interchangeable.   *)
EXTENDS Spool, TLC
RecovererSymmetry == Permutations(Recoverers)
=============================================================================
