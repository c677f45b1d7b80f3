---------------------------- MODULE MCGattServer ----------------------------
(* Small instances of GattServer for TLC. *)
EXTENDS GattServer, FiniteSets, TLC

CONSTANT MaxWrong    \* services with a wrong record at the same time (bound)

FewWrong == Cardinality(wrong) <= MaxWrong

HandleSymmetry == Permutations(Handle)
=============================================================================
