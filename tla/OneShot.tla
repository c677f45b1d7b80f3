------------------------------- MODULE OneShot -------------------------------
(***************************************************************************)
(* What a transfer promises its caller: a request is accepted while none   *)
(* of its kind is open, and its result is given once, to the caller that   *)
(* made it.                                                                *)
(***************************************************************************)
CONSTANTS Services, Callers, Nobody

VARIABLES
  open,     \* per service: whose request is open
  giving    \* per service: the caller that is being given a result

vars == <<open, giving>>

Init ==
  /\ open   = [s \in Services |-> Nobody]
  /\ giving = [s \in Services |-> Nobody]

Accept(s, c) ==
  /\ open[s] = Nobody
  /\ open' = [open EXCEPT ![s] = c]
  /\ UNCHANGED giving

Give(s) ==
  /\ open[s] # Nobody
  /\ giving[s] = Nobody
  /\ giving' = [giving EXCEPT ![s] = open[s]]
  /\ open' = [open EXCEPT ![s] = Nobody]

Given(s) ==
  /\ giving[s] # Nobody
  /\ giving' = [giving EXCEPT ![s] = Nobody]
  /\ UNCHANGED open

Next == \E s \in Services : Give(s) \/ Given(s) \/ \E c \in Callers : Accept(s, c)

Spec == Init /\ [][Next]_vars
=============================================================================
