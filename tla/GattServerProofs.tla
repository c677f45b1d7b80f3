-------------------------- MODULE GattServerProofs --------------------------
(***************************************************************************)
(* Proofs about GattServer, for arrays of any size and any set of handles. *)
(*                                                                         *)
(* The inductive invariant speaks of the record a truthful return would    *)
(* leave (View): between the module's execution of a command and the       *)
(* function's return the two sides differ by exactly that command.         *)
(***************************************************************************)
EXTENDS GattServer, TLAPS

Call == call["app"]

View(s) == IF Busy(s) /\ Call.executed THEN Record(service[s], Call) ELSE service[s]

Agrees(s, r) ==
  IF r.is_used
  THEN /\ {h \in Handle : has[h] = s} = {r.service_handle}
       /\ r.used = attrs[r.service_handle]
       /\ r.is_started <=> r.service_handle \in started
  ELSE r = Unused /\ \A h \in Handle : has[h] # s

CallInv ==
  /\ \A t \in Task : call[t].pc = "sent" => ~call[t].own /\ ~call[t].executed
  /\ call["urc"].cmd = "plain"
  /\ Call.cmd \in OnService => Call.sid \in Sid
  /\ Call.cmd \in OnServer => Call.sid = NULL
  /\ Call.cmd = "attribute" => Call.attr \in Attr
  /\ Call.cmd = "add" => ~service[Call.sid].is_used
  /\ Call.cmd = "remove" => service[Call.sid].is_used

FreeHandlesAreEmpty ==
  \A h \in Handle : has[h] = NULL => attrs[h] = {} /\ h \notin started

RecordsAgree == \A s \in Sid \ wrong : Agrees(s, View(s))

Base == TypeOK /\ CallInv

-----------------------------------------------------------------------------
(* Every function's first half is Send with arguments that fit.            *)
Fits(t, cmd, s, a) ==
  /\ t \in Task /\ cmd \in OnServer \cup OnService
  /\ s \in Sid \cup {NULL} /\ a \in Attr \cup {NULL}
  /\ t = "urc" => cmd = "plain"
  /\ cmd \in OnService => s \in Sid
  /\ cmd \in OnServer => s = NULL
  /\ cmd = "attribute" => a \in Attr
  /\ cmd = "add" => ~service[s].is_used
  /\ cmd = "remove" => service[s].is_used

(* The functions of the application and of the callback are Sends.         *)
LEMMA CallsSend ==
  ASSUME AppCalls \/ \E t \in Task : RIL_BT_Gatsind(t) \/ RIL_BT_Gatsrsp(t)
  PROVE  \E t, cmd, s, a : Fits(t, cmd, s, a) /\ Send(t, cmd, s, a)
<1>1. ASSUME NEW op \in {0, 1}, RIL_BT_Gatsreg(op)
      PROVE  \E t, cmd, s, a : Fits(t, cmd, s, a) /\ Send(t, cmd, s, a)
  <2>1. CASE op = 1
    <3>1. Fits("app", "register", NULL, NULL) /\ Send("app", "register", NULL, NULL)
      BY <1>1, <2>1 DEF RIL_BT_Gatsreg, Fits, Task, OnServer, OnService
    <3> QED BY <3>1
  <2>2. CASE op # 1
    <3>1. Fits("app", "deregister", NULL, NULL) /\ Send("app", "deregister", NULL, NULL)
      BY <1>1, <2>2 DEF RIL_BT_Gatsreg, Fits, Task, OnServer, OnService
    <3> QED BY <3>1
  <2> QED BY <2>1, <2>2
<1>2. ASSUME NEW s \in Sid, NEW op \in {0, 1}, RIL_BT_Gatss(op, s)
      PROVE  \E t, cmd, z, a : Fits(t, cmd, z, a) /\ Send(t, cmd, z, a)
  <2>1. CASE op = 1
    <3>1. Fits("app", "add", s, NULL) /\ Send("app", "add", s, NULL)
      BY <1>2, <2>1 DEF RIL_BT_Gatss, Fits, Task, OnServer, OnService
    <3> QED BY <3>1
  <2>2. CASE op # 1
    <3>1. Fits("app", "remove", s, NULL) /\ Send("app", "remove", s, NULL)
      BY <1>2, <2>2 DEF RIL_BT_Gatss, Fits, Task, OnServer, OnService
    <3> QED BY <3>1
  <2> QED BY <2>1, <2>2
<1>3. ASSUME NEW s \in Sid, NEW op \in {0, 1}, RIL_BT_Gatsst(op, s)
      PROVE  \E t, cmd, z, a : Fits(t, cmd, z, a) /\ Send(t, cmd, z, a)
  <2>1. CASE op = 1
    <3>1. Fits("app", "start", s, NULL) /\ Send("app", "start", s, NULL)
      BY <1>3, <2>1 DEF RIL_BT_Gatsst, Fits, Task, OnServer, OnService
    <3> QED BY <3>1
  <2>2. CASE op # 1
    <3>1. Fits("app", "stop", s, NULL) /\ Send("app", "stop", s, NULL)
      BY <1>3, <2>2 DEF RIL_BT_Gatsst, Fits, Task, OnServer, OnService
    <3> QED BY <3>1
  <2> QED BY <2>1, <2>2
<1>4. ASSUME NEW s \in Sid, NEW c \in Cid, RIL_BT_Gatsc(s, c)
      PROVE  \E t, cmd, z, a : Fits(t, cmd, z, a) /\ Send(t, cmd, z, a)
  <2>1. <<c, Itself>> \in Attr
    BY DEF Attr
  <2>2. Fits("app", "attribute", s, <<c, Itself>>) /\ Send("app", "attribute", s, <<c, Itself>>)
    BY <1>4, <2>1 DEF RIL_BT_Gatsc, Fits, Task, OnServer, OnService
  <2> QED BY <2>2
<1>5. ASSUME NEW s \in Sid, NEW c \in Cid, NEW d \in Did, RIL_BT_Gatsd(s, c, d)
      PROVE  \E t, cmd, z, a : Fits(t, cmd, z, a) /\ Send(t, cmd, z, a)
  <2>1. <<c, d>> \in Attr
    BY DEF Attr
  <2>2. Fits("app", "attribute", s, <<c, d>>) /\ Send("app", "attribute", s, <<c, d>>)
    BY <1>5, <2>1 DEF RIL_BT_Gatsd, Fits, Task, OnServer, OnService
  <2> QED BY <2>2
<1>6. ASSUME NEW t \in Task, Send(t, "plain", NULL, NULL)
      PROVE  \E u, cmd, z, a : Fits(u, cmd, z, a) /\ Send(u, cmd, z, a)
  <2>1. Fits(t, "plain", NULL, NULL)
    BY DEF Fits, Task, OnServer, OnService
  <2> QED BY <1>6, <2>1
<1> QED
  BY <1>1, <1>2, <1>3, <1>4, <1>5, <1>6
  DEF AppCalls, RIL_BT_Gatsl, RIL_BT_Gatsind, RIL_BT_Gatsrsp, Task

-----------------------------------------------------------------------------
(* The types, and what a call in progress knows about its arguments.       *)

ServerTypeOK ==
  /\ registered \in BOOLEAN /\ has \in [Handle -> Sid \cup {NULL}]
  /\ started \subseteq Handle /\ attrs \in [Handle -> SUBSET Attr]

(* Executing a command keeps the types of the module's variables.          *)
LEMMA ExecutesType ==
  ASSUME ServerTypeOK, NEW c \in CallRec, Executes(c),
         c.cmd = "add" => c.sid \in Sid, c.cmd = "attribute" => c.attr \in Attr
  PROVE  ServerTypeOK'
<1> DEFINE h == IF c.sid = NULL THEN NoHandle ELSE service[c.sid].service_handle
<1>1. CASE c.cmd = "register"
  BY <1>1 DEF ServerTypeOK, Executes
<1>2. CASE c.cmd = "deregister"
  BY <1>2 DEF ServerTypeOK, Executes
<1>3. CASE c.cmd = "add"
  BY <1>3 DEF ServerTypeOK, Executes
<1>4. CASE c.cmd = "remove"
  <2>1. /\ h \in Handle /\ has' = [has EXCEPT ![h] = NULL] /\ started' = started \ {h}
        /\ attrs' = [attrs EXCEPT ![h] = {}] /\ registered' = registered
    BY <1>4 DEF Executes
  <2> HIDE DEF h
  <2> QED BY <2>1 DEF ServerTypeOK
<1>5. CASE c.cmd = "attribute"
  <2>1. /\ h \in Handle /\ attrs' = [attrs EXCEPT ![h] = @ \cup {c.attr}]
        /\ UNCHANGED <<registered, has, started>>
    BY <1>5 DEF Executes
  <2> HIDE DEF h
  <2> QED BY <1>5, <2>1 DEF ServerTypeOK
<1>6. CASE c.cmd \in {"start", "stop"}
  <2>1. /\ h \in Handle /\ started' \in {started \cup {h}, started \ {h}}
        /\ UNCHANGED <<registered, has, attrs>>
    BY <1>6 DEF Executes
  <2> HIDE DEF h
  <2> QED BY <2>1 DEF ServerTypeOK
<1>7. CASE c.cmd = "plain"
  BY <1>7 DEF ServerTypeOK, Executes, server
<1> QED
  BY <1>1, <1>2, <1>3, <1>4, <1>5, <1>6, <1>7 DEF CallRec, OnServer, OnService

LEMMA NoCallType == NoCall \in CallRec
  BY DEF NoCall, CallRec, OnServer, OnService

LEMMA UnusedType == Unused \in ServiceRec
  BY DEF Unused, ServiceRec

(* The record a result of 0 leaves is a record again.                      *)
LEMMA RecordType ==
  ASSUME NEW r \in ServiceRec, NEW c \in CallRec, c.cmd \in OnService,
         c.cmd = "attribute" => c.attr \in Attr
  PROVE  Record(r, c) \in ServiceRec
<1>1. CASE c.cmd = "remove"
  BY <1>1, UnusedType DEF Record, Freed
<1>2. CASE c.cmd # "remove"
  BY <1>2 DEF Record, ServiceRec, OnService
<1> QED BY <1>1, <1>2

(* Writing the result keeps the calls' types.                              *)
LEMMA SetResultType ==
  ASSUME TypeOK, NEW t \in Task, NEW r \in {0, Failed},
         NEW pc \in {"told", "answered"}, NEW e \in BOOLEAN, SetResult(t, r, pc, e)
  PROVE  /\ result' \in {0, Failed} /\ call' \in [Task -> CallRec]
         /\ call'[t] = [call[t] EXCEPT !.pc = pc, !.own = TRUE, !.executed = e]
         /\ \A u \in Task \ {t} : call'[u] = [call[u] EXCEPT !.own = FALSE]
<1>1. call[t] \in CallRec
  BY DEF TypeOK
<1>2. [call[t] EXCEPT !.pc = pc, !.own = TRUE, !.executed = e] \in CallRec
  BY <1>1 DEF CallRec
<1>3. \A u \in Task : [call[u] EXCEPT !.own = FALSE] \in CallRec
  BY ZenonT(60) DEF CallRec, TypeOK
<1> QED
  BY <1>2, <1>3 DEF SetResult

(* A command sent, or refused, starts a call of the right form.            *)
LEMMA SendBase ==
  ASSUME Base, NEW t, NEW cmd, NEW s, NEW a, Fits(t, cmd, s, a), Send(t, cmd, s, a)
  PROVE  Base'
<1> DEFINE pc == IF at = "none" THEN "sent" ELSE "answered"
           new == [NoCall EXCEPT !.pc = pc, !.cmd = cmd, !.sid = s, !.attr = a]
<1>1. new \in CallRec /\ new.pc = pc /\ new.cmd = cmd /\ new.sid = s /\ new.attr = a
      /\ ~new.own /\ ~new.executed
  BY NoCallType DEF Fits, CallRec, NoCall
<1>2. t \in Task /\ call[t].pc = "idle" /\ call' = [call EXCEPT ![t] = new]
  BY DEF Send, Fits
<1>3. at' = (IF at = "none" THEN t ELSE at)
      /\ UNCHANGED <<result, service, registered, has, started, attrs, wrong>>
  BY DEF Send, server
<1> HIDE DEF new
<1>4. call' \in [Task -> CallRec] /\ call'[t] = new
      /\ \A u \in Task : u # t => call'[u] = call[u]
  BY <1>1, <1>2 DEF Base, TypeOK
<1>5. TypeOK'
  <2>1. at' \in {"none", "other"} \cup Task
    BY <1>2, <1>3 DEF Base, TypeOK
  <2>2. \A u \in Task : at' = u <=> call'[u].pc \in {"sent", "told"}
    BY <1>1, <1>2, <1>3, <1>4 DEF Base, TypeOK, Task
  <2> QED BY <1>3, <1>4, <2>1, <2>2 DEF Base, TypeOK
<1>6. CallInv'
  <2>1. \A u \in Task : call'[u].pc = "sent" => ~call'[u].own /\ ~call'[u].executed
    BY <1>1, <1>4 DEF Base, CallInv
  <2>2. CASE t = "app"
    <3>1. call'["app"] = new /\ call'["urc"] = call["urc"]
      BY <2>2, <1>4 DEF Task
    <3> QED BY <2>1, <3>1, <1>1, <1>3 DEF Base, CallInv, Call, Fits
  <2>3. CASE t = "urc"
    <3>1. call'["urc"] = new /\ call'["app"] = call["app"]
      BY <2>3, <1>4 DEF Task
    <3> QED BY <2>1, <2>3, <3>1, <1>1, <1>3 DEF Base, CallInv, Call, Fits
  <2> QED BY <2>2, <2>3, <1>2 DEF Task
<1> QED BY <1>5, <1>6 DEF Base

(* What the handlers leave of a call: its command and arguments.           *)
SameCalls ==
  \A u \in Task : /\ call'[u].cmd = call[u].cmd
                  /\ call'[u].sid = call[u].sid /\ call'[u].attr = call[u].attr

(* A step that keeps every call's command and no record's flags keeps what *)
(* the calls know.                                                         *)
LEMMA SameCallsKeepCallInv ==
  ASSUME Base, SameCalls,
         \A u \in Task : call'[u].pc = "sent" => ~call'[u].own /\ ~call'[u].executed,
         \A s \in Sid : service'[s].is_used = service[s].is_used
  PROVE  CallInv'
<1>1. /\ call'["app"].cmd = Call.cmd /\ call'["app"].sid = Call.sid
      /\ call'["app"].attr = Call.attr /\ call'["urc"].cmd = call["urc"].cmd
  BY DEF SameCalls, Call, Task
<1>2. Call.cmd \in {"add", "remove"} => Call.sid \in Sid
  BY DEF Base, CallInv, OnService
<1> QED
  BY <1>1, <1>2 DEF Base, CallInv, Call

(* The calls after a step that writes the result.                          *)
LEMMA SetResultCalls ==
  ASSUME Base, NEW t \in Task, NEW r \in {0, Failed}, call[t].pc \in {"sent", "told"},
         NEW pc \in {"told", "answered"}, NEW e \in BOOLEAN, SetResult(t, r, pc, e)
  PROVE  /\ SameCalls /\ result' = r
         /\ call' \in [Task -> CallRec]
         /\ call'[t].pc = pc /\ call'[t].own /\ (call'[t].executed <=> e)
         /\ \A u \in Task : u # t =>
              call'[u].pc = call[u].pc /\ ~call'[u].own /\ (call'[u].executed <=> call[u].executed)
<1>1. /\ call' \in [Task -> CallRec]
      /\ call'[t] = [call[t] EXCEPT !.pc = pc, !.own = TRUE, !.executed = e]
      /\ \A u \in Task \ {t} : call'[u] = [call[u] EXCEPT !.own = FALSE]
  BY SetResultType, ZenonT(60) DEF Base
<1>2. \A u \in Task : call[u] \in CallRec
  BY DEF Base, TypeOK
<1>3. /\ call'[t].pc = pc /\ call'[t].own /\ (call'[t].executed <=> e)
      /\ call'[t].cmd = call[t].cmd /\ call'[t].sid = call[t].sid /\ call'[t].attr = call[t].attr
  BY <1>1, <1>2 DEF CallRec
<1>4. \A u \in Task : u # t =>
        /\ call'[u].pc = call[u].pc /\ ~call'[u].own /\ (call'[u].executed <=> call[u].executed)
        /\ call'[u].cmd = call[u].cmd /\ call'[u].sid = call[u].sid /\ call'[u].attr = call[u].attr
  BY <1>1, <1>2 DEF CallRec
<1>5. result' = r
  BY DEF SetResult
<1> QED BY <1>1, <1>3, <1>4, <1>5 DEF SameCalls

(* The answer brings a handle of the module or none, for the service the   *)
(* call is about; nothing else of a record changes.                        *)
LEMMA TakesHandleType ==
  ASSUME Base, ServerTypeOK', NEW c \in CallRec, c.cmd = "add" => c.sid \in Sid, TakesHandle(c)
  PROVE  /\ service' \in [Sid -> ServiceRec]
         /\ \A s \in Sid : service'[s].is_used = service[s].is_used
<1>1. CASE c.cmd = "add"
  <2>1. PICK g \in Handle \cup {NoHandle} : service' = [service EXCEPT ![c.sid].service_handle = g]
    BY <1>1 DEF TakesHandle
  <2>2. service \in [Sid -> ServiceRec] /\ c.sid \in Sid
    BY <1>1 DEF Base, TypeOK
  <2>3. [service[c.sid] EXCEPT !.service_handle = g] \in ServiceRec
    BY <2>2 DEF ServiceRec
  <2>4. \A s \in Sid : service'[s] = IF s = c.sid THEN [service[s] EXCEPT !.service_handle = g]
                                                 ELSE service[s]
    BY <2>1, <2>2
  <2>5. [service[c.sid] EXCEPT !.service_handle = g].is_used = service[c.sid].is_used
    BY <2>2 DEF ServiceRec
  <2> QED BY <2>1, <2>2, <2>3, <2>4, <2>5
<1>2. CASE c.cmd # "add"
  BY <1>2 DEF TakesHandle, Base, TypeOK
<1> QED BY <1>1, <1>2

(* A call in progress is a record of a known command with its arguments.   *)
LEMMA CallIsTyped ==
  ASSUME Base, NEW t \in Task
  PROVE  /\ call[t] \in CallRec
         /\ call[t].cmd \in OnService => call[t].sid \in Sid
         /\ call[t].cmd = "add" => call[t].sid \in Sid
         /\ call[t].cmd = "attribute" => call[t].attr \in Attr
<1>1. call[t] \in CallRec
  BY DEF Base, TypeOK
<1>2. CASE t = "app"
  BY <1>1, <1>2 DEF Base, CallInv, Call, OnService
<1>3. CASE t = "urc"
  BY <1>1, <1>3 DEF Base, CallInv, OnService
<1> QED BY <1>1, <1>2, <1>3 DEF Task

LEMMA UnnoticedType ==
  ASSUME NEW c \in CallRec
  PROVE  Unnoticed(c) \subseteq Sid
  BY DEF Unnoticed

(* Every handler step keeps the types.                                     *)
LEMMA ResultLineBase ==
  ASSUME Base, NEW t \in Task, ResultLine(t)
  PROVE  Base'
<1>1. at = t /\ call[t].pc = "sent" /\ at' = at /\ TakesHandle(call[t])
  BY DEF ResultLine
<1>2. ServerTypeOK
  BY DEF Base, TypeOK, ServerTypeOK
<1>3. ServerTypeOK' /\ wrong' \subseteq Sid
      /\ \E r \in {0, Failed}, e \in BOOLEAN : SetResult(t, r, "told", e)
  <2>1. CASE /\ Executes(call[t]) /\ SetResult(t, 0, "told", TRUE)
             /\ wrong' = wrong \cup Unnoticed(call[t])
    <3>1. ServerTypeOK'
      BY <2>1, <1>2, CallIsTyped, ExecutesType
    <3> QED BY <2>1, <3>1, CallIsTyped, UnnoticedType DEF Base, TypeOK
  <2>2. CASE UNCHANGED server /\ SetResult(t, Failed, "told", FALSE) /\ wrong' = wrong
    BY <2>2, <1>2 DEF server, ServerTypeOK, Base, TypeOK
  <2> QED BY <2>1, <2>2 DEF ResultLine
<1>4. PICK r \in {0, Failed}, e \in BOOLEAN : SetResult(t, r, "told", e)
  BY <1>3
<1>5. /\ SameCalls /\ result' = r /\ call' \in [Task -> CallRec]
      /\ call'[t].pc = "told"
      /\ \A u \in Task : u # t => call'[u].pc = call[u].pc /\ ~call'[u].own
                                  /\ (call'[u].executed <=> call[u].executed)
  BY <1>1, <1>4, SetResultCalls
<1>6. service' \in [Sid -> ServiceRec] /\ \A s \in Sid : service'[s].is_used = service[s].is_used
  BY <1>1, <1>3, CallIsTyped, TakesHandleType
<1>7. TypeOK'
  <2>1. \A u \in Task : at' = u <=> call'[u].pc \in {"sent", "told"}
    BY <1>1, <1>5 DEF Base, TypeOK
  <2> QED BY <1>1, <1>3, <1>5, <1>6, <2>1 DEF Base, TypeOK, ServerTypeOK
<1>8. \A u \in Task : call'[u].pc = "sent" => ~call'[u].own /\ ~call'[u].executed
  BY <1>5 DEF Base, CallInv
<1>9. CallInv'
  BY <1>5, <1>6, <1>8, SameCallsKeepCallInv
<1> QED BY <1>7, <1>9 DEF Base

LEMMA OkLineBase ==
  ASSUME Base, NEW t \in Task, OkLine(t)
  PROVE  Base'
<1>1. /\ at = t /\ call[t].pc = "told" /\ at' = "none"
      /\ call' = [call EXCEPT ![t].pc = "answered"]
      /\ UNCHANGED <<result, service, registered, has, started, attrs, wrong>>
  BY DEF OkLine, server
<1>2. call[t] \in CallRec
  BY DEF Base, TypeOK
<1>3. /\ call' \in [Task -> CallRec] /\ SameCalls /\ call'[t].pc = "answered"
      /\ \A u \in Task : u # t => call'[u] = call[u]
  BY <1>1, <1>2 DEF Base, TypeOK, CallRec, SameCalls
<1>4. \A u \in Task : at' = u <=> call'[u].pc \in {"sent", "told"}
  BY <1>1, <1>3 DEF Base, TypeOK, Task
<1>5. TypeOK'
  BY <1>1, <1>3, <1>4 DEF Base, TypeOK
<1>6. CallInv'
  BY <1>1, <1>3, SameCallsKeepCallInv DEF Base, CallInv
<1> QED BY <1>5, <1>6 DEF Base

LEMMA ErrorLineBase ==
  ASSUME Base, NEW t \in Task, ErrorLine(t)
  PROVE  Base'
<1>1. /\ at = t /\ call[t].pc \in {"sent", "told"} /\ at' = "none"
      /\ SetResult(t, Failed, "answered", FALSE)
      /\ UNCHANGED <<service, registered, has, started, attrs, wrong>>
  BY DEF ErrorLine, server
<1>2. /\ SameCalls /\ result' = Failed /\ call' \in [Task -> CallRec]
      /\ call'[t].pc = "answered"
      /\ \A u \in Task : u # t => call'[u].pc = call[u].pc /\ ~call'[u].own
                                  /\ (call'[u].executed <=> call[u].executed)
  BY <1>1, SetResultCalls
<1>3. \A u \in Task : at' = u <=> call'[u].pc \in {"sent", "told"}
  BY <1>1, <1>2 DEF Base, TypeOK, Task
<1>4. TypeOK'
  BY <1>1, <1>2, <1>3 DEF Base, TypeOK
<1>5. CallInv'
  BY <1>1, <1>2, SameCallsKeepCallInv DEF Base, CallInv
<1> QED BY <1>4, <1>5 DEF Base

LEMMA TimesOutBase ==
  ASSUME Base, NEW t \in Task, TimesOut(t)
  PROVE  Base'
<1>1. /\ at = t /\ call[t].pc \in {"sent", "told"} /\ at' = "none"
      /\ UNCHANGED <<result, service>>
  BY DEF TimesOut
<1>2. call[t] \in CallRec /\ call \in [Task -> CallRec] /\ ServerTypeOK
  BY DEF Base, TypeOK, ServerTypeOK
<1>3. /\ call' \in [Task -> CallRec] /\ SameCalls /\ call'[t].pc = "answered"
      /\ \A u \in Task : u # t => call'[u] = call[u]
      /\ ServerTypeOK' /\ wrong' \subseteq Sid
  <2>1. CASE call' = [call EXCEPT ![t].pc = "answered"] /\ UNCHANGED <<server, wrong>>
    BY <2>1, <1>2 DEF Base, TypeOK, ServerTypeOK, CallRec, SameCalls, server
  <2>2. CASE /\ Executes(call[t])
             /\ call' = [call EXCEPT ![t].pc = "answered", ![t].executed = TRUE]
             /\ wrong' = wrong \cup Unnoticed(call[t])
                               \cup (IF call[t].cmd = "add" THEN {call[t].sid} ELSE {})
    <3>1. ServerTypeOK'
      BY <2>2, <1>2, CallIsTyped, ExecutesType
    <3>2. wrong' \subseteq Sid
      BY <2>2, CallIsTyped, UnnoticedType DEF Base, TypeOK
    <3>3. call' = [call EXCEPT ![t] = [call[t] EXCEPT !.pc = "answered", !.executed = TRUE]]
      BY <2>2, <1>2
    <3>4. [call[t] EXCEPT !.pc = "answered", !.executed = TRUE] \in CallRec
      BY <1>2 DEF CallRec
    <3>5. /\ call'[t] = [call[t] EXCEPT !.pc = "answered", !.executed = TRUE]
          /\ \A u \in Task : u # t => call'[u] = call[u]
      BY <3>3, <1>2
    <3>6. call'[t].pc = "answered" /\ SameCalls
      BY <3>5, <1>2, ZenonT(60) DEF SameCalls, CallRec
    <3> QED BY <3>1, <3>2, <3>3, <3>4, <3>5, <3>6, <1>2
  <2> QED BY <2>1, <2>2 DEF TimesOut
<1>4. \A u \in Task : at' = u <=> call'[u].pc \in {"sent", "told"}
  BY <1>1, <1>3 DEF Base, TypeOK, Task
<1>5. TypeOK'
  BY <1>1, <1>3, <1>4 DEF Base, TypeOK, ServerTypeOK
<1>6. CallInv'
  BY <1>1, <1>3, SameCallsKeepCallInv DEF Base, CallInv
<1> QED BY <1>5, <1>6 DEF Base

LEMMA ReturnsBase ==
  ASSUME Base, NEW t \in Task, Returns(t)
  PROVE  Base'
<1> DEFINE c == call[t]
<1>1. /\ c.pc = "answered" /\ call' = [call EXCEPT ![t] = NoCall]
      /\ service' = IF c.cmd \in OnService /\ result = 0
                    THEN [service EXCEPT ![c.sid] = Record(@, c)] ELSE service
      /\ wrong' = IF c.cmd \in OnService /\ Misled(c) THEN wrong \cup {c.sid} ELSE wrong
      /\ UNCHANGED <<result, at, registered, has, started, attrs>>
  BY DEF Returns, server
<1>2. c \in CallRec /\ (c.cmd \in OnService => c.sid \in Sid)
      /\ (c.cmd = "attribute" => c.attr \in Attr)
  BY CallIsTyped
<1> HIDE DEF c
<1>3. service' \in [Sid -> ServiceRec]
  <2>1. CASE c.cmd \in OnService /\ result = 0
    <3>1. Record(service[c.sid], c) \in ServiceRec
      BY <2>1, <1>2, RecordType DEF Base, TypeOK
    <3> QED BY <2>1, <3>1, <1>1, <1>2 DEF Base, TypeOK
  <2>2. CASE ~(c.cmd \in OnService /\ result = 0)
    BY <2>2, <1>1 DEF Base, TypeOK
  <2> QED BY <2>1, <2>2
<1>4. wrong' \subseteq Sid
  BY <1>1, <1>2 DEF Base, TypeOK
<1>5. /\ call' \in [Task -> CallRec] /\ call'[t] = NoCall
      /\ \A u \in Task : u # t => call'[u] = call[u]
  BY <1>1, NoCallType DEF Base, TypeOK
<1>6. \A u \in Task : at' = u <=> call'[u].pc \in {"sent", "told"}
  BY <1>1, <1>5 DEF Base, TypeOK, Task, NoCall, c
<1>7. TypeOK'
  BY <1>1, <1>3, <1>4, <1>5, <1>6 DEF Base, TypeOK
<1>8. CallInv'
  <2>1. CASE t = "app"
    <3>1. call'["app"] = NoCall /\ call'["urc"] = call["urc"]
      BY <2>1, <1>5 DEF Task
    <3> QED BY <3>1, <1>5 DEF Base, CallInv, Call, NoCall, Task, OnService, OnServer
  <2>2. CASE t = "urc"
    <3>1. call'["urc"] = NoCall /\ call'["app"] = call["app"] /\ service' = service
      BY <2>2, <1>1, <1>5 DEF Task, Base, CallInv, OnService, c
    <3> QED BY <3>1, <1>5 DEF Base, CallInv, Call, NoCall, Task
  <2> QED BY <2>1, <2>2 DEF Task
<1> QED BY <1>7, <1>8 DEF Base

(* Base is inductive.                                                      *)
LEMMA BaseStep ==
  ASSUME Base, [Next]_vars
  PROVE  Base'
<1>1. CASE AppCalls \/ \E t \in Task : RIL_BT_Gatsind(t) \/ RIL_BT_Gatsrsp(t)
  BY <1>1, CallsSend, SendBase
<1>2. CASE OtherCommand
  <2>1. /\ at \in {"none", "other"} /\ at' \in {"none", "other"}
        /\ UNCHANGED <<result, service, call, registered, has, started, attrs, wrong>>
    BY <1>2 DEF OtherCommand, server
  <2>2. TypeOK'
    BY <2>1 DEF Base, TypeOK, Task
  <2>3. CallInv'
    BY <2>1 DEF Base, CallInv, Call
  <2> QED BY <2>2, <2>3 DEF Base
<1>3. ASSUME NEW t \in Task,
             ResultLine(t) \/ OkLine(t) \/ ErrorLine(t) \/ TimesOut(t) \/ Returns(t)
      PROVE  Base'
  BY <1>3, ResultLineBase, OkLineBase, ErrorLineBase, TimesOutBase, ReturnsBase
<1>4. CASE UNCHANGED vars
  <2>1. UNCHANGED <<result, service, at, call, registered, has, started, attrs, wrong>>
    BY <1>4 DEF vars, server
  <2>2. TypeOK'
    BY <2>1 DEF Base, TypeOK
  <2>3. CallInv'
    BY <2>1 DEF Base, CallInv, Call
  <2> QED BY <2>2, <2>3 DEF Base
<1> QED BY <1>1, <1>2, <1>3, <1>4 DEF Next

LEMMA BaseInit == Init => Base
<1> SUFFICES ASSUME Init PROVE Base
  OBVIOUS
<1>1. TypeOK
  BY NoCallType, UnusedType DEF Init, TypeOK, Task, NoCall
<1>2. CallInv
  BY DEF Init, CallInv, Call, NoCall, Task, OnService, OnServer
<1> QED BY <1>1, <1>2 DEF Base

(* Every variable keeps its type, and a task waits for an answer exactly   *)
(* while it holds the AT channel, for arrays of any size.                  *)
THEOREM TypeCorrect == Spec => []TypeOK
<1>1. Spec => []Base
  BY BaseInit, BaseStep, PTL DEF Spec
<1>2. Base => TypeOK
  BY DEF Base
<1> QED BY <1>1, <1>2, PTL

-----------------------------------------------------------------------------
(* The result cell.                                                        *)

LEMMA SetResultKeepsTruth ==
  ASSUME Base, OwnResultIsTrue, NEW t \in Task, NEW r \in {0, Failed},
         call[t].pc \in {"sent", "told"}, NEW pc \in {"told", "answered"},
         NEW e \in BOOLEAN, SetResult(t, r, pc, e), (r = 0) <=> e
  PROVE  OwnResultIsTrue'
  BY SetResultCalls DEF OwnResultIsTrue

(* The result is true to the call whose lines wrote it last.               *)
LEMMA OwnResultStep ==
  ASSUME Base, OwnResultIsTrue, [Next]_vars
  PROVE  OwnResultIsTrue'
<1>1. ASSUME NEW t, NEW cmd, NEW s, NEW a, Fits(t, cmd, s, a), Send(t, cmd, s, a)
      PROVE  OwnResultIsTrue'
  <2>1. call[t].pc = "idle" /\ result' = result /\ t \in Task
    BY <1>1 DEF Send, Fits
  <2>2. ~call'[t].own /\ \A u \in Task : u # t => call'[u] = call[u]
    <3>1. /\ call \in [Task -> CallRec]
          /\ call' = [call EXCEPT ![t] =
               [NoCall EXCEPT !.pc = IF at = "none" THEN "sent" ELSE "answered",
                              !.cmd = cmd, !.sid = s, !.attr = a]]
      BY <1>1 DEF Send, Base, TypeOK
    <3>2. [NoCall EXCEPT !.pc = IF at = "none" THEN "sent" ELSE "answered",
                         !.cmd = cmd, !.sid = s, !.attr = a].own = FALSE
      BY DEF NoCall
    <3> QED BY <2>1, <3>1, <3>2
  <2> QED BY <2>1, <2>2 DEF OwnResultIsTrue
<1>2. ASSUME NEW t \in Task, ResultLine(t)
      PROVE  OwnResultIsTrue'
  <2>1. call[t].pc = "sent"
    BY <1>2 DEF ResultLine
  <2>2. CASE SetResult(t, 0, "told", TRUE)
    BY <2>1, <2>2, SetResultKeepsTruth
  <2>3. CASE SetResult(t, Failed, "told", FALSE)
    <3>1. Failed # 0
      BY DEF Failed
    <3> QED BY <2>1, <2>3, <3>1, SetResultKeepsTruth
  <2> QED BY <1>2, <2>2, <2>3 DEF ResultLine
<1>3. ASSUME NEW t \in Task, ErrorLine(t)
      PROVE  OwnResultIsTrue'
  <2>1. call[t].pc \in {"sent", "told"} /\ SetResult(t, Failed, "answered", FALSE)
    BY <1>3 DEF ErrorLine
  <2>2. Failed # 0
    BY DEF Failed
  <2> QED BY <2>1, <2>2, SetResultKeepsTruth
<1>4. ASSUME NEW t \in Task, OkLine(t)
      PROVE  OwnResultIsTrue'
  <2>1. /\ call[t].pc = "told" /\ result' = result
        /\ call' = [call EXCEPT ![t].pc = "answered"]
    BY <1>4 DEF OkLine
  <2>2. /\ call'[t].own = call[t].own /\ call'[t].executed = call[t].executed
        /\ \A u \in Task : u # t => call'[u] = call[u]
    BY <2>1 DEF Base, TypeOK, CallRec
  <2> QED BY <2>1, <2>2 DEF OwnResultIsTrue
<1>5. ASSUME NEW t \in Task, TimesOut(t)
      PROVE  OwnResultIsTrue'
  <2>1. result' = result /\ call \in [Task -> CallRec] /\ call[t].pc \in {"sent", "told"}
    BY <1>5 DEF TimesOut, Base, TypeOK
  <2>2. CASE call' = [call EXCEPT ![t].pc = "answered"]
    <3>1. /\ call'[t].own = call[t].own /\ call'[t].executed = call[t].executed
          /\ \A u \in Task : u # t => call'[u] = call[u]
      BY <2>1, <2>2 DEF CallRec
    <3> QED BY <2>1, <3>1 DEF OwnResultIsTrue, Base, CallInv
  <2>3. CASE /\ call[t].pc = "sent"
             /\ call' = [call EXCEPT ![t].pc = "answered", ![t].executed = TRUE]
    <3>1. call'[t].own = call[t].own /\ \A u \in Task : u # t => call'[u] = call[u]
      BY <2>1, <2>3 DEF CallRec
    <3> QED BY <2>1, <2>3, <3>1 DEF OwnResultIsTrue, Base, CallInv
  <2> QED BY <1>5, <2>2, <2>3 DEF TimesOut
<1>6. ASSUME NEW t \in Task, Returns(t)
      PROVE  OwnResultIsTrue'
  <2>1. result' = result /\ call' = [call EXCEPT ![t] = NoCall] /\ NoCall.pc = "idle"
    BY <1>6 DEF Returns, NoCall
  <2>2. call'[t].pc = "idle" /\ \A u \in Task : u # t => call'[u] = call[u]
    BY <2>1 DEF Base, TypeOK
  <2> QED BY <2>1, <2>2 DEF OwnResultIsTrue
<1>7. CASE OtherCommand
  BY <1>7 DEF OtherCommand, OwnResultIsTrue
<1>8. CASE UNCHANGED vars
  BY <1>8 DEF vars, OwnResultIsTrue
<1>9. CASE AppCalls \/ \E t \in Task : RIL_BT_Gatsind(t) \/ RIL_BT_Gatsrsp(t)
  BY <1>1, <1>9, CallsSend
<1> QED
  BY <1>2, <1>3, <1>4, <1>5, <1>6, <1>7, <1>8, <1>9 DEF Next

(* If a call's own response wrote gserv->result last, success means that   *)
(* the module has executed this very command.                              *)
THEOREM ResultsAreTrue == Spec => []OwnResultIsTrue
<1>1. Init => OwnResultIsTrue
  BY DEF Init, OwnResultIsTrue, NoCall
<1>2. Init => Base
  BY BaseInit
<1>3. Base /\ OwnResultIsTrue /\ [Next]_vars => (Base /\ OwnResultIsTrue)'
  BY BaseStep, OwnResultStep
<1> QED BY <1>1, <1>2, <1>3, PTL DEF Spec

-----------------------------------------------------------------------------
(* The records. What executing a command does to the services it is not    *)
(* about, and to the one it is about.                                      *)

LEMMA SidIsNotNull == NULL \notin Sid
  BY NullIsNoService, SizesAreNatural DEF Sid

LEMMA ExecutesKeepsOthers ==
  ASSUME Base, NEW c \in CallRec, Executes(c), c.cmd \in OnService => c.sid \in Sid,
         NEW s \in Sid, s # c.sid, s \notin Unnoticed(c),
         NEW r \in ServiceRec, r = service[s], Agrees(s, r)
  PROVE  Agrees(s, r)'
<1> DEFINE h == IF c.sid = NULL THEN NoHandle ELSE service[c.sid].service_handle
<1>1. s # NULL /\ ServerTypeOK
  BY SidIsNotNull DEF Base, TypeOK, ServerTypeOK
<1>2. CASE c.cmd \in {"register", "plain"}
  BY <1>2 DEF Executes, Agrees, server
<1>3. CASE c.cmd = "deregister"
  <2>1. has' = [g \in Handle |-> NULL]
    BY <1>3 DEF Executes
  <2>2. ~service[s].is_used
    BY <1>3 DEF Unnoticed
  <2>3. \A g \in Handle : has'[g] # s
    BY <2>1, <1>1
  <2> QED BY <2>2, <2>3 DEF Agrees
<1>4. CASE c.cmd = "add"
  <2>1. PICK g \in Handle : has[g] = NULL /\ has' = [has EXCEPT ![g] = c.sid]
    BY <1>4 DEF Executes
  <2>2. UNCHANGED <<started, attrs>>
    BY <1>4 DEF Executes
  <2>3. \A k \in Handle : has'[k] = s <=> has[k] = s
    BY <2>1, <1>1 DEF ServerTypeOK
  <2>4. {k \in Handle : has'[k] = s} = {k \in Handle : has[k] = s}
    BY <2>3
  <2> QED BY <2>2, <2>3, <2>4 DEF Agrees
<1>5. CASE c.cmd \in {"remove", "attribute", "start", "stop"}
  <2>1. /\ h \in Handle /\ has[h] # NULL
        /\ has' = has \/ has' = [has EXCEPT ![h] = NULL]
        /\ attrs' = attrs \/ \E a : attrs' = [attrs EXCEPT ![h] = a]
        /\ started' \in {started, started \ {h}, started \cup {h}}
    BY <1>5 DEF Executes
  <2>2. h = service[c.sid].service_handle /\ c.sid \in Sid
    BY <1>5, SidIsNotNull DEF OnService
  <2>3. has[h] # s
    BY <1>5, <2>1, <2>2 DEF Unnoticed, OnService
  <2> HIDE DEF h
  <2>4. \A k \in Handle : has'[k] = s <=> has[k] = s
    BY <2>1, <2>3, <1>1 DEF ServerTypeOK
  <2>5. {k \in Handle : has'[k] = s} = {k \in Handle : has[k] = s}
    BY <2>4
  <2>6. CASE r.is_used
    <3>1. has[r.service_handle] = s /\ r.service_handle \in Handle
      BY <2>6 DEF Agrees
    <3>2. r.service_handle # h
      BY <2>3, <3>1
    <3>3. attrs'[r.service_handle] = attrs[r.service_handle]
          /\ (r.service_handle \in started' <=> r.service_handle \in started)
      BY <2>1, <3>1, <3>2, <1>1 DEF ServerTypeOK
    <3> QED BY <2>5, <2>6, <3>3 DEF Agrees
  <2>7. CASE ~r.is_used
    BY <2>4, <2>7 DEF Agrees
  <2> QED BY <2>6, <2>7
<1> QED
  BY <1>2, <1>3, <1>4, <1>5 DEF CallRec, OnServer, OnService

LEMMA AddAgrees ==
  ASSUME Base, FreeHandlesAreEmpty, NEW s \in Sid, NEW g \in Handle, has[g] = NULL,
         has' = [has EXCEPT ![g] = s], UNCHANGED <<started, attrs>>,
         ~service[s].is_used, Agrees(s, service[s]),
         NEW r \in ServiceRec,
         r = [service[s] EXCEPT !.service_handle = g, !.is_used = TRUE]
  PROVE  Agrees(s, r)'
<1>1. has \in [Handle -> Sid \cup {NULL}] /\ s # NULL
  BY SidIsNotNull DEF Base, TypeOK
<1>2. service[s] = Unused /\ \A k \in Handle : has[k] # s
  BY DEF Agrees
<1>3. r.is_used /\ r.service_handle = g /\ r.used = {} /\ ~r.is_started
  BY <1>2 DEF Unused
<1>4. {k \in Handle : has'[k] = s} = {g}
  BY <1>1, <1>2
<1>5. attrs'[g] = {} /\ g \notin started'
  BY DEF FreeHandlesAreEmpty
<1> QED BY <1>3, <1>4, <1>5 DEF Agrees

LEMMA ExecutesOwn ==
  ASSUME Base, NEW c \in CallRec, Executes(c), NEW s \in Sid, s = c.sid,
         c.cmd \in OnService, c.cmd # "add", c.cmd = "attribute" => c.attr \in Attr,
         c.cmd = "remove" => service[s].is_used, Agrees(s, service[s]),
         NEW r \in ServiceRec, r = Record(service[s], c)
  PROVE  Agrees(s, r)'
<1> DEFINE h == service[s].service_handle
<1>1. ServerTypeOK /\ s # NULL /\ service[s] \in ServiceRec /\ c.sid # NULL
  BY SidIsNotNull DEF Base, TypeOK, ServerTypeOK
<1>2. h \in Handle /\ has[h] # NULL
  BY <1>1 DEF Executes, OnService
<1>3. service[s].is_used
  <2>1. Unused.service_handle = NoHandle
    BY DEF Unused
  <2> QED BY <1>2, <2>1, NoHandleIsNone DEF Agrees
<1>4. /\ {k \in Handle : has[k] = s} = {h} /\ service[s].used = attrs[h]
      /\ service[s].is_started <=> h \in started
  BY <1>3 DEF Agrees
<1>5. CASE c.cmd = "remove"
  <2>1. has' = [has EXCEPT ![h] = NULL] /\ r = Unused
    BY <1>1, <1>5 DEF Executes, Record, Freed
  <2>2. \A k \in Handle : has'[k] # s
    BY <2>1, <1>1, <1>4 DEF ServerTypeOK
  <2> QED BY <2>1, <2>2 DEF Agrees, Unused
<1>6. CASE c.cmd = "attribute"
  <2>1. attrs' = [attrs EXCEPT ![h] = @ \cup {c.attr}] /\ UNCHANGED <<has, started>>
    BY <1>1, <1>6 DEF Executes
  <2>2. r = [service[s] EXCEPT !.used = @ \cup {c.attr}]
    BY <1>6 DEF Record
  <2>3. /\ r.is_used /\ r.service_handle = h /\ r.used = service[s].used \cup {c.attr}
        /\ r.is_started = service[s].is_started
    BY <2>2, <1>1, <1>3 DEF ServiceRec
  <2>4. attrs'[h] = attrs[h] \cup {c.attr}
    BY <2>1, <1>1, <1>2 DEF ServerTypeOK
  <2> HIDE DEF h
  <2> QED BY <2>1, <2>3, <2>4, <1>4 DEF Agrees
<1>7. CASE c.cmd = "start"
  <2>1. started' = started \cup {h} /\ UNCHANGED <<has, attrs>>
    BY <1>1, <1>7 DEF Executes
  <2>2. r = [service[s] EXCEPT !.is_started = TRUE]
    BY <1>7 DEF Record
  <2>3. r.is_used /\ r.service_handle = h /\ r.used = service[s].used /\ r.is_started
    BY <2>2, <1>1, <1>3 DEF ServiceRec
  <2> HIDE DEF h
  <2> QED BY <2>1, <2>3, <1>4 DEF Agrees
<1>8. CASE c.cmd = "stop"
  <2>1. started' = started \ {h} /\ UNCHANGED <<has, attrs>>
    BY <1>1, <1>8 DEF Executes
  <2>2. r = [service[s] EXCEPT !.is_started = FALSE]
    BY <1>8 DEF Record
  <2>3. r.is_used /\ r.service_handle = h /\ r.used = service[s].used /\ ~r.is_started
    BY <2>2, <1>1, <1>3 DEF ServiceRec
  <2> HIDE DEF h
  <2> QED BY <2>1, <2>3, <1>4 DEF Agrees
<1> QED BY <1>5, <1>6, <1>7, <1>8 DEF OnService

LEMMA ExecutesKeepsFree ==
  ASSUME Base, FreeHandlesAreEmpty, NEW c \in CallRec, Executes(c),
         c.cmd \in OnService => c.sid \in Sid
  PROVE  FreeHandlesAreEmpty'
<1>1. ServerTypeOK
  BY DEF Base, TypeOK, ServerTypeOK
<1>2. CASE c.cmd \in {"register", "plain"}
  BY <1>2 DEF Executes, FreeHandlesAreEmpty, server
<1>3. CASE c.cmd = "deregister"
  BY <1>3 DEF Executes, FreeHandlesAreEmpty
<1>4. CASE c.cmd = "add"
  BY <1>1, <1>4, SidIsNotNull DEF Executes, FreeHandlesAreEmpty, ServerTypeOK, OnService
<1>5. CASE c.cmd \in {"remove", "attribute", "start", "stop"}
  <2>1. PICK h \in Handle :
          /\ has[h] # NULL
          /\ \/ /\ has' = [has EXCEPT ![h] = NULL]
                /\ started' = started \ {h} /\ attrs' = [attrs EXCEPT ![h] = {}]
             \/ /\ has' = has /\ started' \in {started, started \ {h}, started \cup {h}}
                /\ attrs' = attrs \/ \E a : attrs' = [attrs EXCEPT ![h] = a]
    BY <1>5 DEF Executes
  <2> QED BY <2>1, <1>1 DEF FreeHandlesAreEmpty, ServerTypeOK
<1> QED
  BY <1>2, <1>3, <1>4, <1>5 DEF CallRec, OnServer, OnService

-----------------------------------------------------------------------------
(* The steps that leave module and records alone: the view of a service    *)
(* stays, because Busy only turns on or off with nothing executed.         *)
LEMMA QuietStep ==
  ASSUME Base, RecordsAgree, FreeHandlesAreEmpty,
         UNCHANGED <<service, server, wrong>>,
         \A s \in Sid : View(s)' = View(s)
  PROVE  RecordsAgree' /\ FreeHandlesAreEmpty'
<1>1. UNCHANGED <<service, registered, has, started, attrs, wrong>>
  BY DEF server
<1>2. FreeHandlesAreEmpty'
  BY <1>1 DEF FreeHandlesAreEmpty
<1>3. ASSUME NEW s \in Sid \ wrong'
      PROVE  Agrees(s, View(s))'
  <2>1. Agrees(s, View(s)) /\ View(s)' = View(s)
    BY <1>1, <1>3 DEF RecordsAgree
  <2> QED BY <2>1, <1>1 DEF Agrees
<1>4. RecordsAgree'
  BY <1>3 DEF RecordsAgree
<1> QED BY <1>2, <1>4

LEMMA IdleView ==
  ASSUME NEW s \in Sid, ~(Busy(s) /\ Call.executed)
  PROVE  View(s) = service[s]
  BY DEF View

(* A call of the callback's task may only change own in the application's. *)
LEMMA SameView ==
  ASSUME NEW s \in Sid, service' = service,
         call'["app"].pc = Call.pc \/ {call'["app"].pc, Call.pc} = {"told", "answered"},
         call'["app"].sid = Call.sid, call'["app"].cmd = Call.cmd,
         call'["app"].attr = Call.attr, call'["app"].executed = Call.executed
  PROVE  View(s)' = View(s)
<1>1. Busy(s)' <=> Busy(s)
  BY DEF Busy, Call
<1>2. Record(service[s], Call)' = Record(service[s], Call)
  BY DEF Record, Call, Freed
<1> QED BY <1>1, <1>2 DEF View, Call

(* The calls change, the records do not.                                   *)
LEMMA SendRecords ==
  ASSUME Base, RecordsAgree, FreeHandlesAreEmpty,
         NEW t, NEW cmd, NEW z, NEW a, Fits(t, cmd, z, a), Send(t, cmd, z, a)
  PROVE  RecordsAgree' /\ FreeHandlesAreEmpty'
<1> DEFINE new == [NoCall EXCEPT !.pc = IF at = "none" THEN "sent" ELSE "answered",
                                 !.cmd = cmd, !.sid = z, !.attr = a]
<1>1. /\ t \in Task /\ call[t].pc = "idle" /\ call' = [call EXCEPT ![t] = new]
      /\ UNCHANGED <<service, server, wrong>> /\ new.executed = FALSE
  BY DEF Send, Fits, NoCall
<1> HIDE DEF new
<1>2. ASSUME NEW s \in Sid
      PROVE  View(s)' = View(s)
  <2>1. CASE t = "app"
    <3>1. call'["app"] = new /\ Call.pc = "idle"
      BY <1>1, <2>1 DEF Base, TypeOK, Call
    <3>2. ~Busy(s)
      BY <3>1 DEF Busy, Call
    <3>3. View(s) = service[s]
      BY <3>2, IdleView
    <3>4. View(s)' = service'[s]
      BY <3>1, <1>1 DEF View, Call
    <3> QED BY <3>3, <3>4, <1>1
  <2>2. CASE t = "urc"
    <3>1. call'["app"] = Call
      BY <1>1, <2>2 DEF Base, TypeOK, Call, Task
    <3> QED BY <3>1, <1>1, SameView
  <2> QED BY <1>1, <2>1, <2>2 DEF Task
<1> QED BY <1>1, <1>2, QuietStep

LEMMA OkLineRecords ==
  ASSUME Base, RecordsAgree, FreeHandlesAreEmpty, NEW t \in Task, OkLine(t)
  PROVE  RecordsAgree' /\ FreeHandlesAreEmpty'
<1>1. /\ call[t].pc = "told" /\ call' = [call EXCEPT ![t].pc = "answered"]
      /\ UNCHANGED <<service, server, wrong>> /\ call \in [Task -> CallRec]
  BY DEF OkLine, Base, TypeOK
<1>2. /\ call'["app"].pc = Call.pc \/ {call'["app"].pc, Call.pc} = {"told", "answered"}
      /\ call'["app"].sid = Call.sid /\ call'["app"].cmd = Call.cmd
      /\ call'["app"].attr = Call.attr /\ call'["app"].executed = Call.executed
  BY <1>1 DEF Call, CallRec, Task
<1> QED BY <1>1, <1>2, SameView, QuietStep

LEMMA ErrorLineRecords ==
  ASSUME Base, RecordsAgree, FreeHandlesAreEmpty, NEW t \in Task, ErrorLine(t)
  PROVE  RecordsAgree' /\ FreeHandlesAreEmpty'
<1>1. /\ call[t].pc \in {"sent", "told"} /\ ~call[t].executed
      /\ SetResult(t, Failed, "answered", FALSE)
      /\ UNCHANGED <<service, server, wrong>>
  BY DEF ErrorLine
<1>2. /\ SameCalls /\ ~call'[t].executed
      /\ \A u \in Task : u # t => call'[u].pc = call[u].pc
                                  /\ (call'[u].executed <=> call[u].executed)
  BY <1>1, SetResultCalls
<1>3. ASSUME NEW s \in Sid
      PROVE  View(s)' = View(s)
  <2>1. CASE t = "app"
    <3>1. ~Call.executed /\ ~Call'.executed
      BY <1>1, <1>2, <2>1 DEF Call
    <3> QED BY <3>1, <1>1 DEF View
  <2>2. CASE t = "urc"
    <3>1. /\ call'["app"].pc = Call.pc /\ (call'["app"].executed <=> Call.executed)
          /\ call'["app"].sid = Call.sid /\ call'["app"].cmd = Call.cmd
          /\ call'["app"].attr = Call.attr
      BY <1>2, <2>2 DEF Call, Task, SameCalls
    <3>2. (Busy(s)' <=> Busy(s)) /\ Record(service[s], Call)' = Record(service[s], Call)
      BY <3>1, <1>1 DEF Busy, Call, Record, Freed
    <3> QED BY <3>1, <3>2, <1>1 DEF View, Call
  <2> QED BY <2>1, <2>2 DEF Task
<1> QED BY <1>1, <1>3, QuietStep

LEMMA OtherRecords ==
  ASSUME Base, RecordsAgree, FreeHandlesAreEmpty,
         OtherCommand \/ UNCHANGED vars
  PROVE  RecordsAgree' /\ FreeHandlesAreEmpty'
<1>1. UNCHANGED <<service, server, wrong, call>>
  BY DEF OtherCommand, vars
<1>2. \A s \in Sid : View(s)' = View(s)
  BY <1>1, SameView DEF Call
<1> QED BY <1>1, <1>2, QuietStep

(* Executing a command: what it leaves of the services it is not about.    *)
LEMMA ExecutedOthers ==
  ASSUME Base, NEW t \in Task, Executes(call[t]), NEW s \in Sid, s # call[t].sid,
         s \notin Unnoticed(call[t]), Agrees(s, service[s]),
         View(s)' = service[s]
  PROVE  Agrees(s, View(s))'
<1>1. PICK r \in ServiceRec : r = service[s]
  BY DEF Base, TypeOK
<1>2. Agrees(s, r)'
  BY <1>1, CallIsTyped, ExecutesKeepsOthers
<1> QED BY <1>1, <1>2 DEF Agrees

(* ... and of the one it is about.                                         *)
LEMMA ExecutedOwn ==
  ASSUME Base, NEW s \in Sid, s = Call.sid, Executes(Call), Call.cmd \in OnService,
         Call.cmd # "add", Agrees(s, service[s]), View(s)' = Record(service[s], Call)
  PROVE  Agrees(s, View(s))'
<1>1. /\ Call \in CallRec /\ (Call.cmd = "attribute" => Call.attr \in Attr)
      /\ (Call.cmd = "remove" => service[s].is_used) /\ service[s] \in ServiceRec
  BY CallIsTyped DEF Base, TypeOK, CallInv, Call, Task
<1>2. PICK r \in ServiceRec : r = Record(service[s], Call)
  BY <1>1, RecordType
<1>3. PICK c \in CallRec : c = Call
  BY <1>1
<1>4. r = Record(service[s], c)
  BY <1>2, <1>3
<1>5. Executes(c)
  BY <1>3
<1>6. Agrees(s, r)'
  BY <1>1, <1>3, <1>4, <1>5, ExecutesOwn
<1> QED BY <1>2, <1>6 DEF Agrees

LEMMA ResultLineRecords ==
  ASSUME Base, RecordsAgree, FreeHandlesAreEmpty, NEW t \in Task, ResultLine(t)
  PROVE  RecordsAgree' /\ FreeHandlesAreEmpty'
<1>1. call[t].pc = "sent" /\ TakesHandle(call[t]) /\ call[t] \in CallRec
      /\ (call[t].cmd \in OnService => call[t].sid \in Sid)
  BY CallIsTyped DEF ResultLine
<1>2. ASSUME NEW r \in {0, Failed}, NEW e \in BOOLEAN, SetResult(t, r, "told", e)
      PROVE  /\ SameCalls /\ call'[t].pc = "told" /\ (call'[t].executed <=> e)
             /\ \A u \in Task : u # t => call'[u].pc = call[u].pc
                                         /\ (call'[u].executed <=> call[u].executed)
  BY <1>1, <1>2, SetResultCalls
<1>3. CASE t = "urc"
  <2>1. call[t].cmd = "plain" /\ service' = service
    BY <1>1, <1>3 DEF Base, CallInv, TakesHandle
  <2>2. UNCHANGED server /\ wrong' = wrong
    <3>1. CASE Executes(call[t]) /\ wrong' = wrong \cup Unnoticed(call[t])
      BY <2>1, <3>1 DEF Executes, Unnoticed, OnService
    <3>2. CASE UNCHANGED server /\ wrong' = wrong
      BY <3>2
    <3> QED BY <3>1, <3>2 DEF ResultLine
  <2>3. /\ SameCalls /\ call'["app"].pc = Call.pc /\ (call'["app"].executed <=> Call.executed)
    <3>1. \E r \in {0, Failed}, e \in BOOLEAN : SetResult(t, r, "told", e)
      BY DEF ResultLine
    <3> QED BY <1>2, <1>3, <3>1 DEF Task, Call
  <2>4. ASSUME NEW s \in Sid
        PROVE  View(s)' = View(s)
    <3>1. (Busy(s)' <=> Busy(s)) /\ Record(service[s], Call)' = Record(service[s], Call)
      BY <2>1, <2>3 DEF Busy, Call, Record, Freed, SameCalls, Task
    <3> QED BY <2>1, <2>3, <3>1 DEF View, Call
  <2> QED BY <2>1, <2>2, <2>4, QuietStep
<1>4. CASE t = "app"
  <2>1. \A s \in Sid : View(s) = service[s]
    BY <1>1, <1>4 DEF View, Busy
  <2>2. CASE UNCHANGED server /\ SetResult(t, Failed, "told", FALSE) /\ wrong' = wrong
    <3>1. ~call'["app"].executed
      BY <1>2, <1>4, <2>2
    <3>2. \A s \in Sid : View(s)' = service'[s]
      BY <3>1 DEF View, Call
    <3>3. UNCHANGED <<registered, has, started, attrs>>
      BY <2>2 DEF server
    <3>4. ASSUME NEW s \in Sid \ wrong
          PROVE  service'[s] = service[s]
      <4>1. CASE Call.cmd = "add" /\ s = Call.sid
        <5>1. service' = [service EXCEPT ![s].service_handle = NoHandle]
          BY <1>1, <1>4, <3>3, <4>1 DEF TakesHandle, Call
        <5>2. service[s] = Unused
          BY <2>1, <3>4, <4>1 DEF RecordsAgree, Agrees, Base, CallInv
        <5>3. service'[s] = [Unused EXCEPT !.service_handle = NoHandle]
          BY <5>1, <5>2 DEF Base, TypeOK
        <5> QED BY <5>2, <5>3 DEF Unused
      <4>2. CASE ~(Call.cmd = "add" /\ s = Call.sid)
        BY <1>1, <1>4, <4>2 DEF TakesHandle, Call, Base, TypeOK
      <4> QED BY <4>1, <4>2
    <3>5. ASSUME NEW s \in Sid \ wrong'
          PROVE  Agrees(s, View(s))'
      <4>1. s \notin wrong /\ Agrees(s, View(s)) /\ View(s)' = View(s)
        BY <2>1, <2>2, <3>2, <3>4, <3>5 DEF RecordsAgree
      <4> QED BY <4>1, <3>3 DEF Agrees
    <3> QED BY <3>3, <3>5 DEF RecordsAgree, FreeHandlesAreEmpty
  <2>3. CASE /\ Executes(call[t]) /\ SetResult(t, 0, "told", TRUE)
             /\ wrong' = wrong \cup Unnoticed(call[t])
    <3>1. /\ call'["app"].pc = "told" /\ call'["app"].executed
          /\ call'["app"].cmd = Call.cmd /\ call'["app"].sid = Call.sid
          /\ call'["app"].attr = Call.attr
      BY <1>2, <1>4, <2>3 DEF SameCalls, Call
    <3>2. ASSUME NEW s \in Sid \ wrong'
          PROVE  Agrees(s, View(s))'
      <4>1. s \notin wrong /\ s \notin Unnoticed(call[t]) /\ Agrees(s, service[s])
        BY <2>1, <2>3, <3>2 DEF RecordsAgree
      <4>2. CASE s # Call.sid
        <5>1. ~Busy(s)'
          BY <3>1, <4>2 DEF Busy, Call
        <5>2. service'[s] = service[s]
          BY <1>1, <1>4, <4>2 DEF TakesHandle, Call, OnService, Base, TypeOK
        <5>3. View(s)' = service[s]
          BY <5>1, <5>2 DEF View
        <5> QED BY <1>4, <2>3, <4>1, <4>2, <5>3, ExecutedOthers DEF Call
      <4>3. CASE s = Call.sid
        <5>1. Call.cmd \in OnService
          BY <1>1, <1>4, <4>3, SidIsNotNull DEF Base, CallInv, CallRec, Call
        <5>2. Busy(s)'
          BY <3>1, <4>3 DEF Busy, Call
        <5>3. View(s)' = Record(service'[s], Call)
          BY <3>1, <5>2 DEF View, Call, Record, Freed
        <5>4. CASE Call.cmd # "add"
          <6>1. service' = service
            BY <1>1, <1>4, <5>4 DEF TakesHandle, Call
          <6> QED BY <1>4, <2>3, <4>1, <4>3, <5>1, <5>3, <5>4, <6>1, ExecutedOwn DEF Call
        <5>5. CASE Call.cmd = "add"
          <6>1. PICK g \in Handle : has[g] = NULL /\ has' = [has EXCEPT ![g] = s]
            BY <1>4, <2>3, <4>3, <5>5 DEF Executes, Call
          <6>2. UNCHANGED <<started, attrs>>
            BY <1>4, <2>3, <5>5 DEF Executes, Call
          <6>3. {k \in Handle : has[k] = NULL /\ has'[k] # NULL} = {g}
            BY <6>1, SidIsNotNull DEF Base, TypeOK
          <6>4. service' = [service EXCEPT ![s].service_handle = g]
            BY <1>1, <1>4, <4>3, <5>5, <6>3 DEF TakesHandle, Call
          <6>5. service'[s] = [service[s] EXCEPT !.service_handle = g]
            BY <6>4 DEF Base, TypeOK
          <6>6. View(s)' = [service'[s] EXCEPT !.is_used = TRUE]
            BY <5>3, <5>5 DEF Record
          <6>7. View(s)' = [service[s] EXCEPT !.service_handle = g, !.is_used = TRUE]
            BY <6>5, <6>6
          <6>8. PICK r \in ServiceRec :
                  r = [service[s] EXCEPT !.service_handle = g, !.is_used = TRUE]
            BY DEF Base, TypeOK, ServiceRec
          <6>9. ~service[s].is_used
            BY <4>3, <5>5 DEF Base, CallInv
          <6>10. Agrees(s, r)'
            BY <4>1, <6>1, <6>2, <6>8, <6>9, AddAgrees
          <6> QED BY <6>7, <6>8, <6>10 DEF Agrees
        <5> QED BY <5>4, <5>5
      <4> QED BY <4>2, <4>3
    <3>3. FreeHandlesAreEmpty'
      BY <1>1, <2>3, ExecutesKeepsFree
    <3> QED BY <3>2, <3>3 DEF RecordsAgree
  <2> QED BY <1>4, <2>2, <2>3 DEF ResultLine
<1> QED BY <1>3, <1>4 DEF Task

(* A command that was executed without an answer.                          *)
LEMMA TimesOutRecords ==
  ASSUME Base, RecordsAgree, FreeHandlesAreEmpty, NEW t \in Task, TimesOut(t)
  PROVE  RecordsAgree' /\ FreeHandlesAreEmpty'
<1>1. /\ call[t].pc \in {"sent", "told"} /\ service' = service
      /\ call \in [Task -> CallRec] /\ call[t] \in CallRec
      /\ (call[t].cmd \in OnService => call[t].sid \in Sid)
  BY CallIsTyped DEF TimesOut, Base, TypeOK
<1>2. CASE call' = [call EXCEPT ![t].pc = "answered"] /\ UNCHANGED <<server, wrong>>
  <2>1. /\ call'["app"].sid = Call.sid /\ call'["app"].cmd = Call.cmd
        /\ call'["app"].attr = Call.attr /\ call'["app"].executed = Call.executed
        /\ call'["app"].pc = Call.pc \/ (t = "app" /\ call'["app"].pc = "answered")
    BY <1>1, <1>2 DEF Call, CallRec, Task
  <2>2. ASSUME NEW s \in Sid
        PROVE  View(s)' = View(s)
    <3>1. CASE call'["app"].pc = Call.pc \/ {call'["app"].pc, Call.pc} = {"told", "answered"}
      BY <1>1, <2>1, <3>1, SameView
    <3>2. CASE Call.pc = "sent" /\ t = "app"
      <4>1. ~Call.executed /\ ~call'["app"].executed
        BY <2>1, <3>2 DEF Base, CallInv, Call, Task
      <4> QED BY <1>1, <4>1 DEF View, Call
    <3> QED BY <1>1, <2>1, <3>1, <3>2 DEF Call
  <2> QED BY <1>1, <1>2, <2>2, QuietStep
<1>3. CASE /\ call[t].pc = "sent" /\ Executes(call[t])
           /\ call' = [call EXCEPT ![t].pc = "answered", ![t].executed = TRUE]
           /\ wrong' = wrong \cup Unnoticed(call[t])
                             \cup (IF call[t].cmd = "add" THEN {call[t].sid} ELSE {})
  <2>1. CASE t = "urc"
    <3>1. call[t].cmd = "plain"
      BY <2>1 DEF Base, CallInv
    <3>2. UNCHANGED server /\ wrong' = wrong
      BY <1>3, <3>1 DEF Executes, Unnoticed, OnService
    <3>3. call'["app"] = Call
      BY <1>1, <1>3, <2>1 DEF Call, Task
    <3> QED BY <1>1, <3>2, <3>3, SameView, QuietStep
  <2>2. CASE t = "app"
    <3>1. /\ call'["app"].pc = "answered" /\ call'["app"].executed
          /\ call'["app"].cmd = Call.cmd /\ call'["app"].sid = Call.sid
          /\ call'["app"].attr = Call.attr
      <4>1. call' = [call EXCEPT !["app"] = [Call EXCEPT !.pc = "answered", !.executed = TRUE]]
        BY <1>1, <1>3, <2>2 DEF Call
      <4>2. call'["app"] = [Call EXCEPT !.pc = "answered", !.executed = TRUE]
        BY <1>1, <4>1 DEF Task
      <4> QED BY <1>1, <2>2, <4>2 DEF Call, CallRec
    <3>2. \A s \in Sid : View(s) = service[s]
      BY <1>3, <2>2 DEF View, Busy
    <3>3. ASSUME NEW s \in Sid \ wrong'
          PROVE  Agrees(s, View(s))'
      <4>1. s \notin wrong /\ s \notin Unnoticed(call[t]) /\ Agrees(s, service[s])
        BY <1>3, <3>2, <3>3 DEF RecordsAgree
      <4>2. CASE s # Call.sid
        <5>1. ~Busy(s)'
          BY <3>1, <4>2 DEF Busy, Call
        <5>2. View(s)' = service[s]
          BY <1>1, <5>1 DEF View
        <5> QED BY <1>3, <2>2, <4>1, <4>2, <5>2, ExecutedOthers DEF Call
      <4>3. CASE s = Call.sid
        <5>1. Call.cmd \in OnService
          BY <1>1, <2>2, <4>3, SidIsNotNull DEF Base, CallInv, CallRec, Call
        <5>2. Call.cmd # "add"
          BY <1>3, <2>2, <3>3, <4>3 DEF Call
        <5>3. Busy(s)'
          BY <3>1, <4>3 DEF Busy, Call
        <5>4. View(s)' = Record(service[s], Call)
          BY <1>1, <3>1, <5>3 DEF View, Call, Record, Freed
        <5> QED BY <1>3, <2>2, <4>1, <4>3, <5>1, <5>2, <5>4, ExecutedOwn DEF Call
      <4> QED BY <4>2, <4>3
    <3>4. FreeHandlesAreEmpty'
      BY <1>1, <1>3, ExecutesKeepsFree
    <3> QED BY <3>3, <3>4 DEF RecordsAgree
  <2> QED BY <2>1, <2>2 DEF Task
<1> QED BY <1>2, <1>3 DEF TimesOut

(* A function that returns leaves the record its call had in view, or the  *)
(* service is wrong from then on.                                          *)
LEMMA ReturnsRecords ==
  ASSUME Base, RecordsAgree, FreeHandlesAreEmpty, NEW t \in Task, Returns(t)
  PROVE  RecordsAgree' /\ FreeHandlesAreEmpty'
<1>1. /\ call[t].pc = "answered" /\ call' = [call EXCEPT ![t] = NoCall]
      /\ call \in [Task -> CallRec] /\ UNCHANGED server
      /\ (call[t].cmd \in OnService => call[t].sid \in Sid)
  BY CallIsTyped DEF Returns, Base, TypeOK
<1>2. UNCHANGED <<registered, has, started, attrs>>
  BY <1>1 DEF server
<1>3. CASE t = "urc"
  <2>1. service' = service /\ wrong' = wrong
    BY <1>3 DEF Returns, Base, CallInv, OnService
  <2>2. call'["app"] = Call
    BY <1>1, <1>3 DEF Call, Task
  <2> QED BY <1>1, <2>1, <2>2, SameView, QuietStep
<1>4. CASE t = "app"
  <2>1. /\ service' = (IF Call.cmd \in OnService /\ result = 0
                       THEN [service EXCEPT ![Call.sid] = Record(@, Call)] ELSE service)
        /\ wrong' = (IF Call.cmd \in OnService /\ Misled(Call) THEN wrong \cup {Call.sid} ELSE wrong)
    BY <1>4 DEF Returns, Call
  <2>2. \A s \in Sid : View(s)' = service'[s]
    <3>1. call'["app"].pc = "idle"
      BY <1>1, <1>4 DEF NoCall, Task
    <3> QED BY <3>1 DEF View, Busy
  <2>3. ASSUME NEW s \in Sid \ wrong'
        PROVE  s \notin wrong /\ service'[s] = View(s)
    <3>1. s \notin wrong
      BY <2>1, <2>3
    <3>2. CASE s # Call.sid
      <4>1. View(s) = service[s]
        BY <3>2 DEF View, Busy, Call
      <4>2. service'[s] = service[s]
        BY <1>1, <1>4, <2>1, <3>2 DEF Base, TypeOK, Call
      <4> QED BY <3>1, <4>1, <4>2
    <3>3. CASE s = Call.sid
      <4>1. Call.cmd \in OnService
        BY <1>1, <3>3, SidIsNotNull DEF Base, CallInv, CallRec, Call, Task
      <4>2. (result = 0) <=> Call.executed
        <5>1. ~Misled(Call)
          BY <2>1, <2>3, <3>3, <4>1
        <5>2. Call.executed \in BOOLEAN
          BY <1>1 DEF CallRec, Call, Task
        <5> QED BY <5>1, <5>2 DEF Misled
      <4>3. Busy(s)
        BY <1>1, <1>4, <3>3 DEF Busy, Call
      <4>4. CASE result = 0
        <5>1. View(s) = Record(service[s], Call)
          BY <4>2, <4>3, <4>4 DEF View
        <5>2. service' = [service EXCEPT ![s] = Record(service[s], Call)]
          BY <2>1, <3>3, <4>1, <4>4
        <5> QED BY <3>1, <5>1, <5>2 DEF Base, TypeOK
      <4>5. CASE result # 0
        BY <2>1, <3>1, <4>2, <4>5 DEF View
      <4> QED BY <4>4, <4>5
    <3> QED BY <3>2, <3>3
  <2>4. ASSUME NEW s \in Sid \ wrong'
        PROVE  Agrees(s, View(s))'
    <3>1. Agrees(s, View(s)) /\ View(s)' = View(s)
      BY <2>2, <2>3 DEF RecordsAgree
    <3> QED BY <3>1, <1>2 DEF Agrees
  <2> QED BY <1>2, <2>4 DEF RecordsAgree, FreeHandlesAreEmpty
<1> QED BY <1>3, <1>4 DEF Task

IInv == Base /\ RecordsAgree /\ FreeHandlesAreEmpty

LEMMA IInvInit == Init => IInv
<1> SUFFICES ASSUME Init PROVE IInv
  OBVIOUS
<1>1. FreeHandlesAreEmpty
  BY DEF Init, FreeHandlesAreEmpty
<1>2. \A s \in Sid : View(s) = Unused
  BY DEF Init, View, Busy, Call, NoCall, Task
<1>3. \A s \in Sid, h \in Handle : has[h] # s
  BY SidIsNotNull DEF Init
<1>4. \A s \in Sid : Agrees(s, Unused)
  BY <1>3 DEF Agrees, Unused
<1>5. RecordsAgree
  BY <1>2, <1>4 DEF RecordsAgree
<1> QED BY <1>1, <1>5, BaseInit DEF IInv

LEMMA IInvStep ==
  ASSUME IInv, [Next]_vars
  PROVE  IInv'
<1>1. Base /\ RecordsAgree /\ FreeHandlesAreEmpty
  BY DEF IInv
<1>2. RecordsAgree' /\ FreeHandlesAreEmpty'
  <2>1. CASE AppCalls \/ \E t \in Task : RIL_BT_Gatsind(t) \/ RIL_BT_Gatsrsp(t)
    BY <1>1, <2>1, CallsSend, SendRecords
  <2>2. CASE OtherCommand \/ UNCHANGED vars
    BY <1>1, <2>2, OtherRecords
  <2>3. ASSUME NEW t \in Task,
               ResultLine(t) \/ OkLine(t) \/ ErrorLine(t) \/ TimesOut(t) \/ Returns(t)
        PROVE  RecordsAgree' /\ FreeHandlesAreEmpty'
    BY <1>1, <2>3, ResultLineRecords, OkLineRecords, ErrorLineRecords, TimesOutRecords,
       ReturnsRecords
  <2> QED BY <2>1, <2>2, <2>3 DEF Next
<1> QED BY <1>1, <1>2, BaseStep DEF IInv

(* A service that no call is about has no other view than its record.      *)
LEMMA RecordsOfIdle ==
  ASSUME RecordsAgree, NEW s \in Sid \ wrong, ~Busy(s)
  PROVE  Agrees(s, service[s])
<1>1. View(s) = service[s]
  BY DEF View
<1>2. Agrees(s, View(s))
  BY DEF RecordsAgree
<1> QED BY <1>1, <1>2

(* A service is recorded as used, with its handle, just if the module has  *)
(* it, unless a refused or unanswered call misled the library about it.    *)
THEOREM UsedServicesAreReal == Spec => []UsedServicesExist
<1>1. Spec => []IInv
  BY IInvInit, IInvStep, PTL DEF Spec
<1>2. IInv => UsedServicesExist
  <2> SUFFICES ASSUME RecordsAgree, NEW s \in Sid \ wrong, ~Busy(s)
               PROVE  {h \in Handle : has[h] = s} =
                        IF service[s].is_used THEN {service[s].service_handle} ELSE {}
    BY DEF IInv, UsedServicesExist
  <2>1. Agrees(s, service[s])
    BY RecordsOfIdle
  <2>2. CASE service[s].is_used
    BY <2>1, <2>2 DEF Agrees
  <2>3. CASE ~service[s].is_used
    <3>1. \A h \in Handle : has[h] # s
      BY <2>1, <2>3 DEF Agrees
    <3> QED BY <2>3, <3>1
  <2> QED BY <2>2, <2>3
<1> QED BY <1>1, <1>2, PTL

(* The characteristics, descriptors and started flag of a service are      *)
(* recorded as they are in the module, under the same condition.           *)
THEOREM RecordsAreFaithful == Spec => []RecordsFollowServices
<1>1. Spec => []IInv
  BY IInvInit, IInvStep, PTL DEF Spec
<1>2. IInv => RecordsFollowServices
  <2> SUFFICES ASSUME RecordsAgree
               PROVE  RecordsFollowServices
    BY DEF IInv
  <2>1. \A s \in Sid \ wrong : Busy(s) \/ Agrees(s, service[s])
    BY RecordsOfIdle
  <2> QED BY <2>1 DEF Agrees, RecordsFollowServices, Unused
<1> QED BY <1>1, <1>2, PTL
=============================================================================
