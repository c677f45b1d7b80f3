---------------------------- MODULE MCGattClient ----------------------------
(* A small instance of GattClient for TLC: one task calls every function, the other two that write the
   result of the client. *)
EXTENDS GattClient

CONSTANTS T1, T2

MCTasks   == {T1, T2}
MCMayCall ==
  [c \in MCTasks |-> IF c = T1 THEN Names
                     ELSE {"RIL_BT_Gatcreg", "RIL_BT_Gatcrn"}]

\* Inside; at the last characteristic and descriptor; at the numbers of them; at and behind the services.
MCPositions ==
  {Origin, [sid |-> 4, cid |-> 1, did |-> 0], [sid |-> 0, cid |-> 2, did |-> 0], [sid |-> 0, cid |-> 1, did |-> 1],
   [sid |-> 5, cid |-> 0, did |-> 0], [sid |-> 6, cid |-> 0, did |-> 0]}

\* Bound: other positions than Origin are used by functions that read there, while the other task is idle;
\* callbacks and notifications are met by one task.
Apart ==
  /\ \A c \in MCTasks : call[c].position # Origin =>
       /\ Functions(call[c].position)[call[c].fn].reads # Nowhere
       /\ urcs = <<>> /\ told.urc = "none" /\ callback_bt = {} /\ result = "0"
       /\ \A u \in MCTasks \ {c} : call[u].pc = "idle"
  /\ callback_bt # {} \/ urcs # <<>> \/ told.urc # "none" => call[T2].pc = "idle" /\ result = "0"
=============================================================================
