--------------------------- MODULE MCBtDeviceList ---------------------------
(* Small instances of BtDeviceList for TLC. *)
EXTENDS BtDeviceList, TLC

CONSTANT MaxDoubts   \* ways in which the list is wrong at the same time (bound)

FewDoubts == Cardinality(doubt) <= MaxDoubts

DevSymmetry == Permutations(Dev)
=============================================================================
