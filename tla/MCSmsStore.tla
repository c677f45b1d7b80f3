----------------------------- MODULE MCSmsStore -----------------------------
(* Small instances of SmsStore for TLC. *)
EXTENDS SmsStore, TLC

Symmetric == Permutations(Task) \cup Permutations(Msg)
=============================================================================
