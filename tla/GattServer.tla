----------------------------- MODULE GattServer -----------------------------
(***************************************************************************)
(* ril_ble.c: the GATT server functions RIL_BT_Gats* and their ST_BLE_-    *)
(* Server, in which the library records what it has registered with the    *)
(* module.                                                                 *)
(*                                                                         *)
(* Every function ignores what Ql_RIL_SendATCmd returns and goes by        *)
(* gserv->result, a cell that only a line of a response writes: a command  *)
(* that was refused (RIL_AT_BUSY) or timed out leaves an earlier command's *)
(* result there. Two tasks use the cell: the application, and the task     *)
(* that handles notifications, whose callback answers a peer's requests    *)
(* with RIL_BT_Gatsrsp. One task (application) configures the server.      *)
(*                                                                         *)
(* A command's life: sent (no line yet), told (its result line handled),   *)
(* answered (Ql_RIL_SendATCmd has returned, result not read yet). A        *)
(* response is a result line and OK, or an error line. The module behind   *)
(* it is external: it executes a command or refuses it, and hands out      *)
(* handles.                                                                *)
(***************************************************************************)
EXTENDS Integers

CONSTANTS
  SERVICE_NUM, CHAR_NUM, DESC_NUM,   \* sizes of the arrays in ST_BLE_Server
  Handle,                            \* service handles of the module (bound)
  NoHandle,                          \* a service_handle of 0
  NULL

ASSUME SizesAreNatural ==
  SERVICE_NUM \in Nat /\ CHAR_NUM \in Nat /\ DESC_NUM \in Nat
ASSUME NoHandleIsNone == NoHandle \notin Handle
ASSUME NullIsNoService == NULL \notin Int

Sid  == 0 .. (SERVICE_NUM - 1)
Cid  == 0 .. (CHAR_NUM - 1)
Did  == 0 .. (DESC_NUM - 1)

(* An attribute of a service: a characteristic or one of its descriptors.  *)
Itself == -1
Attr   == Cid \X (Did \cup {Itself})

VARIABLES
  result,      \* gserv->result
  service,     \* gserv->service_id
  at,          \* whose command holds the AT channel
  call,        \* the call each task has in progress
  registered,  \* module: the server is registered
  has,         \* module: the service behind each handle
  started,     \* module: the handles of started services
  attrs,       \* module: the attributes under each handle
  wrong        \* history: services whose record was misled

server == <<registered, has, started, attrs>>
vars   == <<result, service, at, call, server, wrong>>

Task == {"app", "urc"}

Failed == -1      \* RIL_ATRSP_FAILED; stands for any error code

(* The is_used flags of char_id and desc_id are the set used.              *)
ServiceRec == [is_used : BOOLEAN, is_started : BOOLEAN,
               service_handle : Handle \cup {NoHandle}, used : SUBSET Attr]

Unused == [is_used |-> FALSE, is_started |-> FALSE,
           service_handle |-> NoHandle, used |-> {}]

OnServer  == {"register", "deregister", "plain"}
OnService == {"add", "remove", "attribute", "start", "stop"}

(* own: result holds what this call's own lines have put there.            *)
(* executed: the module has executed the command.                          *)
CallRec == [pc : {"idle", "sent", "told", "answered"}, cmd : OnServer \cup OnService,
            sid : Sid \cup {NULL}, attr : Attr \cup {NULL},
            own : BOOLEAN, executed : BOOLEAN]

NoCall == [pc |-> "idle", cmd |-> "plain", sid |-> NULL, attr |-> NULL,
           own |-> FALSE, executed |-> FALSE]

Init ==
  /\ result = 0 /\ service = [s \in Sid |-> Unused]
  /\ at = "none" /\ call = [t \in Task |-> NoCall]
  /\ registered = FALSE /\ has = [h \in Handle |-> NULL]
  /\ started = {} /\ attrs = [h \in Handle |-> {}]
  /\ wrong = {}

-----------------------------------------------------------------------------
(* The functions, up to Ql_RIL_SendATCmd. A busy channel refuses the       *)
(* command, and the caller goes on as after an answer.                     *)

Send(t, cmd, s, a) ==
  /\ call[t].pc = "idle"
  /\ call' = [call EXCEPT ![t] =
       [NoCall EXCEPT !.pc = IF at = "none" THEN "sent" ELSE "answered",
                      !.cmd = cmd, !.sid = s, !.attr = a]]
  /\ at' = IF at = "none" THEN t ELSE at
  /\ UNCHANGED <<result, service, server, wrong>>

RIL_BT_Gatsreg(op) == Send("app", IF op = 1 THEN "register" ELSE "deregister", NULL, NULL)

RIL_BT_Gatss(op, s) ==
  IF op = 1 THEN ~service[s].is_used /\ Send("app", "add", s, NULL)
            ELSE service[s].is_used /\ Send("app", "remove", s, NULL)

RIL_BT_Gatsc(s, c) ==
  <<c, Itself>> \notin service[s].used /\ Send("app", "attribute", s, <<c, Itself>>)

RIL_BT_Gatsd(s, c, d) ==
  <<c, d>> \notin service[s].used /\ Send("app", "attribute", s, <<c, d>>)

RIL_BT_Gatsst(op, s) ==
  IF op = 1 THEN ~service[s].is_started /\ Send("app", "start", s, NULL)
            ELSE Send("app", "stop", s, NULL)

(* An indication that wants no confirmation does not touch result.         *)
RIL_BT_Gatsind(t) == Send(t, "plain", NULL, NULL)

RIL_BT_Gatsrsp(t) == Send(t, "plain", NULL, NULL)

RIL_BT_Gatsl == Send("app", "plain", NULL, NULL)

(* Some other command of the program takes the channel, or gives it back.  *)
OtherCommand ==
  /\ at \in {"none", "other"}
  /\ at' = IF at = "none" THEN "other" ELSE "none"
  /\ UNCHANGED <<result, service, call, server, wrong>>

-----------------------------------------------------------------------------
(* The module.                                                             *)

Executes(c) ==
  LET h == IF c.sid = NULL THEN NoHandle ELSE service[c.sid].service_handle IN
  \/ /\ c.cmd = "register" /\ ~registered
     /\ registered' = TRUE /\ UNCHANGED <<has, started, attrs>>
  \/ /\ c.cmd = "deregister" /\ registered
     /\ registered' = FALSE /\ has' = [g \in Handle |-> NULL]
     /\ started' = {} /\ attrs' = [g \in Handle |-> {}]
  \/ /\ c.cmd = "add" /\ registered
     /\ \E g \in Handle : has[g] = NULL /\ has' = [has EXCEPT ![g] = c.sid]
     /\ UNCHANGED <<registered, started, attrs>>
  \/ /\ c.cmd = "remove" /\ h \in Handle /\ has[h] # NULL
     /\ has' = [has EXCEPT ![h] = NULL]
     /\ started' = started \ {h} /\ attrs' = [attrs EXCEPT ![h] = {}]
     /\ UNCHANGED registered
  \/ /\ c.cmd = "attribute" /\ h \in Handle /\ has[h] # NULL
     /\ attrs' = [attrs EXCEPT ![h] = @ \cup {c.attr}]
     /\ UNCHANGED <<registered, has, started>>
  \/ /\ c.cmd \in {"start", "stop"} /\ h \in Handle /\ has[h] # NULL
     /\ started' = IF c.cmd = "start" THEN started \cup {h} ELSE started \ {h}
     /\ UNCHANGED <<registered, has, attrs>>
  \/ c.cmd = "plain" /\ UNCHANGED server

(* Services a command changes in the module without their records: those   *)
(* of a deregistered server, and the one that now has the handle a wrong   *)
(* record still names.                                                     *)
Unnoticed(c) ==
  {s \in Sid :
     \/ c.cmd = "deregister" /\ service[s].is_used
     \/ /\ c.cmd \in OnService \ {"add"} /\ s # c.sid
        /\ \E h \in Handle : has[h] = s /\ service[c.sid].service_handle = h}

-----------------------------------------------------------------------------
(* The line handlers ATRsp_QBTGats*_Hdlr. They differ in the fields they   *)
(* parse: the answer to an added service brings its handle.                *)

SetResult(t, r, pc, executed) ==
  /\ result' = r
  /\ call' = [u \in Task |->
       IF u = t THEN [call[t] EXCEPT !.pc = pc, !.own = TRUE, !.executed = executed]
       ELSE [call[u] EXCEPT !.own = FALSE]]

KeepsHandle(c) == service' = service

TakesHandle(c) ==
  IF c.cmd = "add"
  THEN LET new == {g \in Handle : has[g] = NULL /\ has'[g] # NULL}
       IN \E g \in Handle \cup {NoHandle} :
            /\ IF new = {} THEN g = NoHandle ELSE g \in new
            /\ service' = [service EXCEPT ![c.sid].service_handle = g]
  ELSE service' = service

ResultLine(t) ==
  /\ at = t /\ call[t].pc = "sent"
  /\ \/ /\ Executes(call[t])
        /\ SetResult(t, 0, "told", TRUE)
        /\ wrong' = wrong \cup Unnoticed(call[t])
     \/ /\ UNCHANGED server
        /\ SetResult(t, Failed, "told", FALSE)
        /\ wrong' = wrong
  /\ TakesHandle(call[t])
  /\ UNCHANGED at

OkLine(t) ==
  /\ at = t /\ call[t].pc = "told"
  /\ at' = "none"
  /\ call' = [call EXCEPT ![t].pc = "answered"]
  /\ UNCHANGED <<result, service, server, wrong>>

KeepsResult(t) ==
  /\ at = t /\ call[t].pc = "sent"
  /\ at' = "none"
  /\ call' = [call EXCEPT ![t].pc = "answered", ![t].own = TRUE]
  /\ UNCHANGED <<result, service, server, wrong>>

ErrorLine(t) ==
  /\ at = t
  /\ call[t].pc \in {"sent", "told"} /\ ~call[t].executed
  /\ at' = "none"
  /\ SetResult(t, Failed, "answered", FALSE)
  /\ UNCHANGED <<service, server, wrong>>

(* No answer, or none to the end: RIL_AT_TIMEOUT or RIL_AT_FAILED. The     *)
(* module may have executed the command all the same, and the handle of    *)
(* an added service is then never read.                                    *)
TimesOut(t) ==
  /\ at = t /\ call[t].pc \in {"sent", "told"}
  /\ at' = "none"
  /\ \/ /\ call' = [call EXCEPT ![t].pc = "answered"]
        /\ UNCHANGED <<server, wrong>>
     \/ /\ call[t].pc = "sent" /\ Executes(call[t])
        /\ call' = [call EXCEPT ![t].pc = "answered", ![t].executed = TRUE]
        /\ wrong' = wrong \cup Unnoticed(call[t])
                          \cup (IF call[t].cmd = "add" THEN {call[t].sid} ELSE {})
  /\ UNCHANGED <<result, service>>

-----------------------------------------------------------------------------
(* The functions, from Ql_RIL_SendATCmd on.                                *)

FreesOnly(r) == [r EXCEPT !.is_used = FALSE, !.service_handle = NoHandle]

FreesWithOnes(r) == [Unused EXCEPT !.service_handle = -1]

Freed(r) == Unused

(* What a result of 0 does to the service's record.                        *)
Record(r, c) ==
  CASE c.cmd = "add"       -> [r EXCEPT !.is_used = TRUE]
    [] c.cmd = "remove"    -> Freed(r)
    [] c.cmd = "attribute" -> [r EXCEPT !.used = @ \cup {c.attr}]
    [] c.cmd = "start"     -> [r EXCEPT !.is_started = TRUE]
    [] c.cmd = "stop"      -> [r EXCEPT !.is_started = FALSE]

Misled(c) == (result = 0) # c.executed

Returns(t) ==
  LET c == call[t] IN
  /\ c.pc = "answered"
  /\ call' = [call EXCEPT ![t] = NoCall]
  /\ service' = IF c.cmd \in OnService /\ result = 0
                THEN [service EXCEPT ![c.sid] = Record(@, c)] ELSE service
  /\ wrong' = IF c.cmd \in OnService /\ Misled(c) THEN wrong \cup {c.sid} ELSE wrong
  /\ UNCHANGED <<result, at, server>>

-----------------------------------------------------------------------------
AppCalls ==
  \/ \E op \in {0, 1} : RIL_BT_Gatsreg(op)
  \/ \E s \in Sid, op \in {0, 1} : RIL_BT_Gatss(op, s) \/ RIL_BT_Gatsst(op, s)
  \/ \E s \in Sid, c \in Cid : RIL_BT_Gatsc(s, c) \/ \E d \in Did : RIL_BT_Gatsd(s, c, d)
  \/ RIL_BT_Gatsl

Next ==
  \/ AppCalls \/ OtherCommand
  \/ \E t \in Task :
       \/ RIL_BT_Gatsind(t) \/ RIL_BT_Gatsrsp(t)
       \/ ResultLine(t) \/ OkLine(t) \/ ErrorLine(t) \/ TimesOut(t) \/ Returns(t)

Spec == Init /\ [][Next]_vars

-----------------------------------------------------------------------------
(* Every variable has its type; a task waits for an answer exactly while   *)
(* it holds the channel.                                                   *)
TypeOK ==
  /\ result \in {0, Failed} /\ service \in [Sid -> ServiceRec]
  /\ at \in {"none", "other"} \cup Task /\ call \in [Task -> CallRec]
  /\ registered \in BOOLEAN /\ has \in [Handle -> Sid \cup {NULL}]
  /\ started \subseteq Handle /\ attrs \in [Handle -> SUBSET Attr]
  /\ wrong \subseteq Sid
  /\ \A t \in Task : at = t <=> call[t].pc \in {"sent", "told"}

(* If a call's own response wrote result last, success means that the      *)
(* module has executed this very command: only a refusal, a timeout or     *)
(* another task's command on the same server makes a function lie.         *)
OwnResultIsTrue ==
  \A t \in Task : call[t].pc \in {"told", "answered"} /\ call[t].own =>
    ((result = 0) <=> call[t].executed)

Busy(s) == call["app"].sid = s /\ call["app"].pc \in {"told", "answered"}

(* A service is recorded as used, with its handle, just if the module has  *)
(* it, unless a call misled the library about it.                          *)
UsedServicesExist ==
  \A s \in Sid \ wrong :
    \/ Busy(s)
    \/ {h \in Handle : has[h] = s} =
         IF service[s].is_used THEN {service[s].service_handle} ELSE {}

(* Its characteristics, descriptors and started flag are recorded as they  *)
(* are in the module; an unused service has none.                          *)
RecordsFollowServices ==
  \A s \in Sid \ wrong :
    \/ Busy(s)
    \/ LET r == service[s] IN
         IF r.is_used
         THEN r.used = attrs[r.service_handle]
              /\ (r.is_started <=> r.service_handle \in started)
         ELSE r.used = {} /\ ~r.is_started

(* RIL_BT_Gatss: "RIL_AT_SUCCESS, send AT successfully", "RIL_AT_TIMEOUT,  *)
(* send AT timeout", "RIL_AT_BUSY, sending AT". A call that is about to    *)
(* return success has had its command executed.                            *)
SuccessIsReal ==
  \A t \in Task : call[t].pc = "answered" /\ result = 0 => call[t].executed
=============================================================================
