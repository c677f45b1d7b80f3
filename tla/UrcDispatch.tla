----------------------------- MODULE UrcDispatch -----------------------------
(***************************************************************************)
(* Notifications (ril_urc.c) that become messages to the application's     *)
(* task.  The handlers that keep more state are in Transfers, GattServer,  *)
(* GattClient, BtDeviceList and SmsStore.                                  *)
(***************************************************************************)
EXTENDS UrcTables, Integers, FiniteSets, TLC

CONSTANTS
  Heard,        \* the other notifications the module sends
  MaxCalls,     \* bound: incoming calls
  MaxMessages   \* bound: messages the application has not fetched

VARIABLES
  ringCnt,      \* g_comingCall.ringCnt
  comingCall,   \* g_comingCall.comingCall: the call whose number is in each place, 0 for none
  inbox,        \* messages of the RIL in the queue of the application's task
  calls         \* (module) the number of calls that came in

urcVars == <<ringCnt, comingCall, inbox, calls>>

-----------------------------------------------------------------------------
Message(ind, val) == [ind |-> ind, val |-> val]

Contains(urc, table) == {k \in DOMAIN table : k \in urc.keywords}

CallState ==
  ("BUSY" :> "CALL_STATE_BUSY") @@ ("NO ANSWER" :> "CALL_STATE_NO_ANSWER")
    @@ ("NO CARRIER" :> "CALL_STATE_NO_CARRIER") @@ ("NO DIALTONE" :> "CALL_STATE_NO_DIALTONE")

VoltageState ==
  ("UNDER_VOLTAGE WARNING" :> "VBATT_UNDER_WRN") @@ ("UNDER_VOLTAGE POWER DOWN" :> "VBATT_UNDER_PDN")
    @@ ("OVER_VOLTAGE WARNING" :> "VBATT_OVER_WRN") @@ ("OVER_VOLTAGE POWER DOWN" :> "VBATT_OVER_PDN")

InitState == ("Call Ready" :> "SYS_STATE_PHBOK") @@ ("SMS Ready" :> "SYS_STATE_SMSOK")

Rings(urc) == "RING" \in urc.keywords \/ "+CRING: VOICE" \in urc.keywords \/ "+CLIP:" \in urc.keywords

\* The handlers that send a message, a call with a number apart, ...
Indication ==
  [Call |-> "URC_CALL_STATE_IND", SIM |-> "URC_SIM_CARD_STATE_IND", SMS |-> "URC_NEW_SMS_IND",
   CFUN |-> "URC_CFUN_STATE_IND", Voltage |-> "URC_MODULE_VOLTAGE_IND", InitStat |-> "URC_SYS_INIT_STATE_IND",
   AlarmRing |-> "URC_ALARM_RING_IND", Undefined |-> "URC_END", Network |-> "URC_GSM_NW_STATE_IND"]

\* ... and what it says, if the handler sends one for this string.  The answer to a query ("n,stat") is
\* told from a notification by its comma.
Told(urc) ==
  LET h == HandlerOf(urc)
      Named(table) == {table[k] : k \in Contains(urc, table)}
  IN CASE h = "Call"                       -> IF Rings(urc) THEN {} ELSE Named(CallState)
       [] h = "Voltage"                    -> Named(VoltageState)
       [] h = "InitStat"                   -> Named(InitState)
       [] h = "Network"                    -> {urc.val} \ {"n,stat"}
       [] h \in {"AlarmRing", "Undefined"} -> {0}
       [] OTHER                            -> {urc.val}

\* The messages for a string: at most one.
Messages(urc) ==
  LET h == HandlerOf(urc)
      ind == IF h = "Network" /\ "+CGREG:" \in urc.keywords THEN "URC_GPRS_NW_STATE_IND" ELSE Indication[h]
  IN IF h \in DOMAIN Indication THEN {Message(ind, v) : v \in Told(urc)} ELSE {}

-----------------------------------------------------------------------------
UrcInit ==
  /\ ringCnt = 0
  /\ comingCall = [i \in 0..5 |-> 0]
  /\ inbox = <<>>
  /\ calls = 0

\* Mutants of NextPlace.
NextPlaceOfFive == (ringCnt + 1) % 5
NextPlaceUnwrapped == ringCnt + 1

\* The places of the numbers of incoming calls are used in turn.
NextPlace == IF (ringCnt + 1) \div 6 > 0 THEN (ringCnt + 1) % 6 ELSE ringCnt + 1

\* A call comes in.  Its number, if it is announced, is written into the next place, and the message holds
\* the address of the place.
OnURCHandler_Call ==
  /\ calls < MaxCalls
  /\ Len(inbox) < MaxMessages
  /\ calls' = calls + 1
  /\ \E urc \in {Urc({"RING"}, 0), Urc({"RING", "+CLIP:"}, 0)} :
       IF "+CLIP:" \in urc.keywords
         THEN /\ ringCnt' = NextPlace
              /\ comingCall' = [comingCall EXCEPT ![NextPlace] = calls']
              /\ inbox' = Append(inbox, Message("URC_COMING_CALL_IND", [place |-> NextPlace, caller |-> calls']))
         ELSE UNCHANGED <<ringCnt, comingCall, inbox>>

\* Any other notification that becomes a message.
Notified ==
  {Urc({k}, "1") : k \in DOMAIN CallState \cup DOMAIN VoltageState \cup DOMAIN InitState}
    \cup {Urc({k}, v) : k \in {"+CREG:", "+CGREG:"}, v \in {"1", "n,stat"}}
    \cup {Urc({k}, "1") : k \in {"+CPIN:", "+CMTI:", "+CFUN:", "ALARM RING", "ALARM MODE", "unknown"}}

ASSUME HeardIsNotified == Heard \subseteq Notified

\* No handler sends two messages for a string.
ASSUME OneMessageAtMost == \A urc \in Notified : Cardinality(Messages(urc)) <= 1

OnURCHandler ==
  \E urc \in Heard :
    /\ inbox = <<>>
    /\ \E m \in Messages(urc) : inbox' = <<m>>
    /\ UNCHANGED <<ringCnt, comingCall, calls>>

\* The application's task fetches a message, and reads the number where the message points to.
Ql_OS_GetMessage ==
  /\ inbox # <<>>
  /\ inbox' = Tail(inbox)
  /\ UNCHANGED <<ringCnt, comingCall, calls>>

UrcNext == OnURCHandler_Call \/ OnURCHandler \/ Ql_OS_GetMessage

-----------------------------------------------------------------------------
IsCall(m) == m.ind = "URC_COMING_CALL_IND"

CallsBehind(i) == {j \in i + 1 .. Len(inbox) : IsCall(inbox[j])}

\* A message of an incoming call still points to the number of that call when the application fetches it,
\* unless six calls have been announced behind it in the queue: the sixth reuses its place.
CallNumbersAreIntact ==
  \A i \in DOMAIN inbox :
    IsCall(inbox[i]) /\ Cardinality(CallsBehind(i)) < 6 =>
      comingCall[inbox[i].val.place] = inbox[i].val.caller
=============================================================================
