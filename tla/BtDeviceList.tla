---------------------------- MODULE BtDeviceList ----------------------------
(***************************************************************************)
(* ril_bluetooth.c: how the device list follows the module's pairings,     *)
(* connections and scan results.                                           *)
(*                                                                         *)
(* Three actors share the list, with no lock: the application task, which  *)
(* calls the RIL_BT_* functions; the task that runs the OnURCHandler_BT*   *)
(* functions on queued notifications and, inside them, the application's   *)
(* callback; and the line handler of AT+QBTSTATE, which the RIL calls once *)
(* per response line. A block of code between two calls that may wait or   *)
(* hand over control (Ql_RIL_SendATCmd, callback_bt) is one step.          *)
(*                                                                         *)
(* The Bluetooth module behind the AT channel is external: a set of        *)
(* pairings, connections and scan results that change by themselves and    *)
(* queue a notification when they do. The serial line is FIFO: a query's   *)
(* response is one burst, and what happens in the module after the burst   *)
(* was produced reaches the RIL after it, so the module holds still while  *)
(* a query is in flight. Notifications whose handler changes nothing here  *)
(* (scan finished, pair request, connect request, data received) are not   *)
(* queued.                                                                 *)
(***************************************************************************)
EXTENDS BtDevTable, Sequences, FiniteSets

CONSTANT MaxUrc     \* notifications waiting at once (bound)

ASSUME MaxUrcIsNatural == MaxUrc \in Nat

VARIABLES
  m_arrBTDev,       \* the list
  ready,            \* callback_bt is set
  is_first_prompt,  \* static of ATRsp_QBTSTATE_Hdlr
  at,               \* whose command holds the AT channel
  burst,            \* what the query in flight has still to deliver
  app,              \* the application task's call in progress
  urc,              \* the notification handler in progress
  urcs,             \* notifications waiting for the handler task
  pair, conn,       \* module: the device behind each pairing, connection
  scanned,          \* module: the device behind each scan index
  scanning,         \* module: a scan is running
  doubt             \* history: why the list may be wrong at present

ril     == <<m_arrBTDev, ready, is_first_prompt>>
channel == <<at, burst>>
module  == <<pair, conn, scanned, scanning>>
vars    == <<ril, channel, app, urc, urcs, module, doubt>>

(* What makes the list untrustworthy:                                      *)
(*   scanRace  a query listed a device between a scan handler's search for *)
(*             it and the append                                           *)
(*   cutQuery  a query ended after its first line and before OK            *)
(*   badIds    an unpairing took place that the list did not record        *)
(*   lateScan  a scan was started before the last one's reports were in    *)
(*   outdated  a change was reported and no complete query followed        *)
Doubts == {"scanRace", "cutQuery", "badIds", "lateScan", "outdated"}

Line == [kind : {"paired"}, id : PairId, hdl : Dev]
        \cup [kind : {"connected"}, id : ConnId, hdl : Dev]

Urc == [type : {"found"}, hdl : Dev, id : DevId]
       \cup [type : {"pairok", "pairfail", "connok"}, hdl : Dev, id : {0}]
       \cup [type : {"disc"}, hdl : Handle, id : {0}]

AppPc == {"idle", "initQuery", "query", "scanQuery", "scanSend", "scan",
          "pair", "conn", "disc", "unpair", "unpaired"}

AppState ==
  [pc : AppPc, hdl : Handle, id : DevId \cup PairId \cup ConnId \cup {0},
   ret : {"none", "ok", "fail"}, status : {"untouched", "written"}]

UrcState ==
  [pc : {"idle", "query"}, hdl : Handle, id : {0}, known : BOOLEAN]
  \cup [pc : {"found"}, hdl : Dev, id : DevId, known : BOOLEAN]

NoCall  == [pc |-> "idle", hdl |-> EmptyHdl, id |-> 0,
            ret |-> "none", status |-> "untouched"]
NoUrc   == [pc |-> "idle", hdl |-> EmptyHdl, id |-> 0, known |-> FALSE]
NoBurst == [summary |-> FALSE, todo |-> {}, wiped |-> FALSE]

Devices(f) == {f[i] : i \in DOMAIN f} \ {NULL}

QueryInFlight ==
  at = "urc" \/ (at = "app" /\ app.pc \in {"initQuery", "query", "scanQuery"})

Pending(type, h) ==
  \E k \in 1 .. Len(urcs) : urcs[k].type = type /\ urcs[k].hdl = h

FoundPending ==
  urc.pc = "found" \/ \E k \in 1 .. Len(urcs) : urcs[k].type = "found"

Init ==
  /\ m_arrBTDev = BT_DevMngmt_Clean
  /\ ready = FALSE
  /\ is_first_prompt = TRUE
  /\ at = "none" /\ burst = NoBurst
  /\ app = NoCall /\ urc = NoUrc /\ urcs = <<>>
  /\ pair \in [PairId -> Dev \cup {NULL}]
  /\ \A i, j \in PairId : i # j /\ pair[i] # NULL => pair[i] # pair[j]
  /\ conn = [c \in ConnId |-> NULL]
  /\ scanned = [i \in DevId |-> NULL] /\ scanning = FALSE
  /\ doubt = {}

-----------------------------------------------------------------------------
(* AT+QBTSTATE: a summary line with the module's status, a line for every  *)
(* pairing and every connection, OK.                                       *)

StateLines ==
  {[kind |-> "paired", id |-> i, hdl |-> pair[i]] :
     i \in {k \in PairId : pair[k] # NULL}}
  \cup
  {[kind |-> "connected", id |-> c, hdl |-> conn[c]] :
     c \in {k \in ConnId : conn[k] # NULL}}

Before(k, l) ==
  \/ k.kind = "paired" /\ l.kind = "connected"
  \/ k.kind = l.kind /\ k.id < l.id

(* RIL_BT_QueryState, up to the wait for the answer.                       *)
SendQuery(owner) ==
  /\ at = "none"
  /\ at' = owner
  /\ burst' = [summary |-> TRUE, todo |-> StateLines, wiped |-> FALSE]

(* The first line of a response. With is_first_prompt left FALSE by an     *)
(* earlier query it is parsed like a device line: a status of 0 or 1 then  *)
(* lists a device with no address.                                         *)
ATRsp_QBTSTATE_Summary(status) ==
  /\ QueryInFlight /\ burst.summary
  /\ burst' = [burst EXCEPT !.summary = FALSE]
  /\ is_first_prompt' = FALSE
  /\ app' = IF is_first_prompt /\ at = "app" /\ app.pc = "query"
            THEN [app EXCEPT !.status = "written"] ELSE app
  /\ m_arrBTDev' =
       IF is_first_prompt \/ status \notin {0, 1} THEN m_arrBTDev
       ELSE LET t == EnsureListed(m_arrBTDev, EmptyHdl)
            IN IF status = 0 THEN SetPairId(t, EmptyHdl, -1)
                             ELSE SetConnId(t, EmptyHdl, -1)
  /\ UNCHANGED <<ready, at, urc, urcs, module, doubt>>

AppendsUnseen(t, l) ==
  LET s == AppendsAlways(t, l.hdl)
  IN IF l.kind = "paired" THEN SetPairId(s, l.hdl, l.id) ELSE SetConnId(s, l.hdl, l.id)

(* What a device line does to the list.                                    *)
TakeLine(t, l) ==
  LET s == EnsureListed(t, l.hdl)
  IN IF l.kind = "paired" THEN SetPairId(s, l.hdl, l.id) ELSE SetConnId(s, l.hdl, l.id)

ATRsp_QBTSTATE_Line ==
  /\ QueryInFlight /\ ~burst.summary
  /\ \E l \in burst.todo :
       /\ \A k \in burst.todo \ {l} : Before(l, k)
       /\ burst' = [burst EXCEPT !.todo = @ \ {l}]
       /\ m_arrBTDev' = TakeLine(m_arrBTDev, l)
       /\ doubt' = IF /\ urc.pc = "found" /\ ~urc.known /\ urc.hdl = l.hdl
                      /\ ~Listed(m_arrBTDev, l.hdl)
                   THEN doubt \cup {"scanRace"} ELSE doubt
  /\ UNCHANGED <<ready, is_first_prompt, at, app, urc, urcs, module>>

(* The caller of RIL_BT_QueryState goes on. Only a caller that asked for   *)
(* the query looks at its result.                                          *)
Resume(result) ==
  IF at = "urc" THEN urc' = NoUrc /\ app' = app
  ELSE /\ app' = CASE app.pc = "scanQuery" -> [app EXCEPT !.pc = "scanSend"]
                   [] app.pc = "initQuery" -> NoCall
                   [] OTHER -> [NoCall EXCEPT !.ret = result, !.status = app.status]
       /\ urc' = urc

PromptNotReset == is_first_prompt' = is_first_prompt

PromptReset == is_first_prompt' = TRUE

ATRsp_QBTSTATE_OK ==
  /\ QueryInFlight /\ ~burst.summary /\ burst.todo = {}
  /\ PromptReset
  /\ at' = "none" /\ burst' = NoBurst
  /\ Resume("ok")
  /\ doubt' = IF burst.wiped THEN doubt ELSE doubt \ {"outdated"}
  /\ UNCHANGED <<m_arrBTDev, ready, urcs, module>>

(* ERROR, +CME ERROR or no answer in time: the handler leaves              *)
(* is_first_prompt as it is.                                               *)
QueryFails ==
  /\ QueryInFlight
  /\ at' = "none" /\ burst' = NoBurst
  /\ Resume("fail")
  /\ doubt' = doubt \cup (IF at = "app" /\ app.pc = "query" THEN {} ELSE {"outdated"})
                    \cup (IF burst.summary THEN {} ELSE {"cutQuery"})
  /\ UNCHANGED <<ril, urcs, module>>

-----------------------------------------------------------------------------
(* The application task.                                                   *)

Call(pc, h, id) == app' = [NoCall EXCEPT !.pc = pc, !.hdl = h, !.id = id]

(* The doubts a call to BT_DevMngmt_Clean puts to rest.                    *)
DoubtAfterClean ==
  doubt \ ({"scanRace", "badIds"}
           \cup (IF FoundPending THEN {} ELSE {"lateScan"})
           \cup (IF is_first_prompt THEN {"cutQuery"} ELSE {}))

(* BT_DevMngmt_Clean and the query after it: RIL_AT_BUSY is ignored.       *)
KeepsOldList(pc) ==
  IF at = "none" THEN SendQuery("app") /\ Call(pc, EmptyHdl, 0) /\ UNCHANGED m_arrBTDev
  ELSE /\ Call(IF pc = "scanQuery" THEN "scanSend" ELSE "idle", EmptyHdl, 0)
       /\ UNCHANGED <<channel, m_arrBTDev>>

CleanAndQuery(pc) ==
  /\ m_arrBTDev' = BT_DevMngmt_Clean
  /\ IF at = "none" THEN SendQuery("app") /\ Call(pc, EmptyHdl, 0)
     ELSE /\ Call(IF pc = "scanQuery" THEN "scanSend" ELSE "idle", EmptyHdl, 0)
          /\ burst' = [burst EXCEPT !.wiped = TRUE] /\ at' = at

RIL_BT_Initialize ==
  /\ app.pc = "idle"
  /\ ready' = TRUE
  /\ CleanAndQuery("initQuery")
  /\ doubt' = DoubtAfterClean \cup (IF at = "none" THEN {} ELSE {"outdated"})
  /\ UNCHANGED <<is_first_prompt, urc, urcs, module>>

RIL_BT_QueryState ==
  /\ app.pc = "idle" /\ ready
  /\ SendQuery("app")
  /\ Call("query", EmptyHdl, 0)
  /\ UNCHANGED <<ril, urc, urcs, module, doubt>>

(* RIL_BT_StartScan up to its query; SendScan is the rest of it.           *)
RIL_BT_StartScan ==
  /\ app.pc = "idle" /\ ready
  /\ CleanAndQuery("scanQuery")
  /\ doubt' = DoubtAfterClean \cup (IF at = "none" THEN {} ELSE {"outdated"})
                              \cup (IF scanning \/ FoundPending THEN {"lateScan"} ELSE {})
  /\ UNCHANGED <<ready, is_first_prompt, urc, urcs, module>>

SendScan ==
  /\ app.pc = "scanSend"
  /\ IF at = "none" THEN at' = "app" /\ Call("scan", EmptyHdl, 0)
                    ELSE at' = at /\ app' = NoCall
  /\ UNCHANGED <<ril, burst, urc, urcs, module, doubt>>

(* A command that names a device by an id read from the list. A BUSY       *)
(* refusal changes nothing and is left out. A read through a NULL slot may *)
(* have produced any id.                                                   *)
SendFor(h, pc, field, wild, valid) ==
  /\ app.pc = "idle" /\ ready /\ at = "none"
  /\ \E id \in BT_DevMngmt_Get(m_arrBTDev, h, field, wild) \cap valid :
       Call(pc, h, id)
  /\ at' = "app"
  /\ doubt' = doubt \cup (IF pc = "unpair" /\ ReadsNull(m_arrBTDev, h)
                          THEN {"badIds"} ELSE {})
  /\ UNCHANGED <<ril, burst, urc, urcs, module>>

RIL_BT_PairReq(h)    == SendFor(h, "pair", "devId", DevId, DevId)

RIL_BT_Unpair(h)     == SendFor(h, "unpair", "pairId", PairId, PairId)

ConnectsByDevId(h)   == SendFor(h, "conn", "devId", DevId, PairId)

RIL_BT_ConnReq(h)    == SendFor(h, "conn", "pairId", PairId, PairId)

RIL_BT_Disconnect(h) == SendFor(h, "disc", "connId", ConnId, ConnId \cup {0})

(* What the module does on a command; only a scan and an unpairing take    *)
(* effect with the answer, the rest shows in a later notification.         *)
ModuleExecutes ==
  \/ /\ app.pc = "scan"
     /\ scanned' = [i \in DevId |-> NULL] /\ scanning' = TRUE
     /\ UNCHANGED <<pair, conn>>
  \/ /\ app.pc = "unpair" /\ pair[app.id] # NULL
     /\ pair' = [pair EXCEPT ![app.id] = NULL]
     /\ conn' = [c \in ConnId |-> IF conn[c] = pair[app.id] THEN NULL ELSE conn[c]]
     /\ UNCHANGED <<scanned, scanning>>
  \/ app.pc \in {"pair", "conn", "disc"} /\ UNCHANGED module

(* Whether the unpairing that ModuleExecutes makes is of another device    *)
(* than the one whose record RIL_BT_Unpair is about to update.             *)
UnpairsAnother == app.pc = "unpair" /\ pair[app.id] # app.hdl

CommandOk ==
  /\ at = "app" /\ ModuleExecutes
  /\ at' = "none"
  /\ app' = IF app.pc = "unpair" THEN [app EXCEPT !.pc = "unpaired"] ELSE NoCall
  /\ doubt' = doubt \cup (IF UnpairsAnother THEN {"badIds"} ELSE {})
  /\ UNCHANGED <<ril, burst, urc, urcs>>

(* The module refuses the command, or its answer does not come in time and *)
(* it has or has not executed it.                                          *)
CommandFails ==
  /\ at = "app" /\ app.pc \in {"scan", "pair", "conn", "disc", "unpair"}
  /\ at' = "none" /\ app' = NoCall
  /\ \/ UNCHANGED module /\ doubt' = doubt
     \/ ModuleExecutes
        /\ doubt' = doubt \cup (IF app.pc = "unpair" THEN {"badIds"} ELSE {})
  /\ UNCHANGED <<ril, burst, urc, urcs>>

(* An id is cleared although the module still has one for the device.      *)
LosesId(valid) ==
  /\ doubt' = IF valid THEN doubt \cup {"outdated"} ELSE doubt
  /\ burst' = IF valid /\ QueryInFlight THEN [burst EXCEPT !.wiped = TRUE] ELSE burst

ClearsPairIdOnly == SetPairId(m_arrBTDev, app.hdl, -1)

ClearsConnIdOnly == SetConnId(m_arrBTDev, app.hdl, -1)

ZeroesIds == SetConnId(SetPairId(m_arrBTDev, app.hdl, 0), app.hdl, 0)

Unpaired == SetConnId(SetPairId(m_arrBTDev, app.hdl, -1), app.hdl, -1)

(* After RIL_AT_SUCCESS RIL_BT_Unpair clears the ids of its device, even   *)
(* if a query has just read new ones.                                      *)
UnpairReturns ==
  /\ app.pc = "unpaired"
  /\ m_arrBTDev' = Unpaired
  /\ app' = NoCall
  /\ LosesId(app.hdl \in Devices(pair))
  /\ UNCHANGED <<ready, is_first_prompt, at, urc, urcs, module>>

-----------------------------------------------------------------------------
(* The task that handles notifications.                                    *)

NextUrc(type) ==
  /\ urc.pc = "idle" /\ urcs # <<>> /\ Head(urcs).type = type
  /\ urcs' = Tail(urcs)

(* Before RIL_BT_Initialize every handler returns at once.                 *)
UrcIgnored ==
  /\ ~ready
  /\ \E type \in {"found", "pairok", "pairfail", "connok", "disc"} : NextUrc(type)
  /\ UNCHANGED <<ril, channel, app, urc, module, doubt>>

(* OnURCHandler_BTScan up to the application's callback.                   *)
OnURCHandler_BTScan ==
  /\ ready /\ NextUrc("found")
  /\ LET h == Head(urcs).hdl IN
       /\ m_arrBTDev' = SetDevId(m_arrBTDev, h, Head(urcs).id)
       /\ urc' = [pc |-> "found", hdl |-> h, id |-> Head(urcs).id,
                  known |-> Listed(m_arrBTDev, h)]
  /\ UNCHANGED <<ready, is_first_prompt, channel, app, module, doubt>>

WaitsForRoom ==
  /\ urc.pc = "found" /\ (urc.known \/ ~BT_DevMngmt_isFull(m_arrBTDev))
  /\ m_arrBTDev' =
       IF urc.known THEN m_arrBTDev
       ELSE BT_DevMngmt_Append(m_arrBTDev, [NewRecord(urc.hdl) EXCEPT !.devId = urc.id])
  /\ urc' = NoUrc
  /\ UNCHANGED <<ready, is_first_prompt, channel, app, urcs, module, doubt>>

(* ... and after it: the search before the callback decides.               *)
ScanCallbackReturns ==
  /\ urc.pc = "found"
  /\ m_arrBTDev' =
       IF urc.known \/ BT_DevMngmt_isFull(m_arrBTDev) THEN m_arrBTDev
       ELSE BT_DevMngmt_Append(m_arrBTDev, [NewRecord(urc.hdl) EXCEPT !.devId = urc.id])
  /\ urc' = NoUrc
  /\ UNCHANGED <<ready, is_first_prompt, channel, app, urcs, module, doubt>>

IgnoresUrc(type) ==
  /\ ready /\ NextUrc(type)
  /\ UNCHANGED <<ril, channel, app, urc, module, doubt>>

(* A reported pairing or connection is fetched with a query. If another    *)
(* command holds the channel RIL_AT_BUSY is ignored and the callback told  *)
(* of success all the same.                                                *)
QueryOnUrc(type) ==
  /\ ready /\ NextUrc(type)
  /\ IF at = "none"
     THEN /\ SendQuery("urc")
          /\ urc' = [NoUrc EXCEPT !.pc = "query", !.hdl = Head(urcs).hdl]
          /\ doubt' = doubt
     ELSE /\ doubt' = doubt \cup {"outdated"}
          /\ UNCHANGED <<channel, urc>>
  /\ UNCHANGED <<ril, app, module>>

OnURCHandler_BTPairCnf_Success == QueryOnUrc("pairok")

OnURCHandler_BTConn_Success == QueryOnUrc("connok")

(* The report of a failed pairing may be handled after a later attempt has *)
(* succeeded and a query has listed its id.                                *)
OnURCHandler_BTPairCnf_Fail ==
  /\ ready /\ NextUrc("pairfail")
  /\ m_arrBTDev' = SetPairId(m_arrBTDev, Head(urcs).hdl, -1)
  /\ LosesId(Head(urcs).hdl \in Devices(pair))
  /\ UNCHANGED <<ready, is_first_prompt, at, app, urc, module>>

KeepsConnId ==
  /\ ready /\ NextUrc("disc")
  /\ UNCHANGED <<ril, channel, app, urc, module, doubt>>

(* The end of a connection, or a refused one, clears the id of whatever    *)
(* connection the record holds. A failed connection request reports no     *)
(* address and comes with EmptyHdl.                                        *)
OnURCHandler_BTDisconn ==
  /\ ready /\ NextUrc("disc")
  /\ m_arrBTDev' = SetConnId(m_arrBTDev, Head(urcs).hdl, -1)
  /\ LosesId(Head(urcs).hdl \in Devices(conn))
  /\ UNCHANGED <<ready, is_first_prompt, at, app, urc, module>>

-----------------------------------------------------------------------------
(* The module.                                                             *)

Notify(type, h, id) ==
  /\ ~QueryInFlight /\ Len(urcs) < MaxUrc
  /\ urcs' = Append(urcs, [type |-> type, hdl |-> h, id |-> id])
  /\ UNCHANGED <<ril, channel, app, urc, doubt>>

FirstFree(f, i) == f[i] = NULL /\ \A j \in DOMAIN f : j < i => f[j] # NULL

Pairs(d) ==
  /\ d \notin Devices(pair)
  /\ \E i \in PairId : FirstFree(pair, i) /\ pair' = [pair EXCEPT ![i] = d]
  /\ Notify("pairok", d, 0)
  /\ UNCHANGED <<conn, scanned, scanning>>

PairingFails(d) ==
  /\ d \notin Devices(pair)
  /\ Notify("pairfail", d, 0)
  /\ UNCHANGED module

Connects(d) ==
  /\ d \in Devices(pair)
  /\ \E c \in ConnId : FirstFree(conn, c) /\ conn' = [conn EXCEPT ![c] = d]
  /\ Notify("connok", d, 0)
  /\ UNCHANGED <<pair, scanned, scanning>>

ConnectingFails ==
  /\ Notify("disc", EmptyHdl, 0)
  /\ UNCHANGED module

Disconnects(c) ==
  /\ conn[c] # NULL
  /\ conn' = [conn EXCEPT ![c] = NULL]
  /\ Notify("disc", conn[c], 0)
  /\ UNCHANGED <<pair, scanned, scanning>>

Finds(d) ==
  /\ scanning /\ d \notin Devices(scanned)
  /\ \E i \in DevId :
       /\ FirstFree(scanned, i)
       /\ scanned' = [scanned EXCEPT ![i] = d]
       /\ Notify("found", d, i)
  /\ UNCHANGED <<pair, conn, scanning>>

ScanEnds ==
  /\ scanning /\ ~QueryInFlight
  /\ scanning' = FALSE
  /\ UNCHANGED <<ril, channel, app, urc, urcs, pair, conn, scanned, doubt>>

-----------------------------------------------------------------------------
QueryStep == (\E s \in {0, 1, 5} : ATRsp_QBTSTATE_Summary(s))
             \/ ATRsp_QBTSTATE_Line \/ ATRsp_QBTSTATE_OK \/ QueryFails

AppReturns == SendScan \/ CommandOk \/ CommandFails \/ UnpairReturns

AppCalls ==
  \/ RIL_BT_Initialize \/ RIL_BT_QueryState \/ RIL_BT_StartScan
  \/ \E h \in Dev :
       RIL_BT_PairReq(h) \/ RIL_BT_Unpair(h) \/ RIL_BT_ConnReq(h) \/ RIL_BT_Disconnect(h)

UrcStep ==
  \/ UrcIgnored
  \/ OnURCHandler_BTScan \/ ScanCallbackReturns
  \/ OnURCHandler_BTPairCnf_Success \/ OnURCHandler_BTPairCnf_Fail
  \/ OnURCHandler_BTConn_Success \/ OnURCHandler_BTDisconn

ModuleStep ==
  \/ \E d \in Dev : Pairs(d) \/ PairingFails(d) \/ Connects(d) \/ Finds(d)
  \/ \E c \in ConnId : Disconnects(c)
  \/ ConnectingFails \/ ScanEnds

Next == QueryStep \/ AppReturns \/ AppCalls \/ UrcStep \/ ModuleStep

(* A command is answered or times out, a function that was called returns, *)
(* and queued notifications are handled. Nothing makes the application     *)
(* call or the module change.                                              *)
Fairness == WF_vars(QueryStep) /\ WF_vars(AppReturns) /\ WF_vars(UrcStep)

Spec == Init /\ [][Next]_vars /\ Fairness

-----------------------------------------------------------------------------
RilTypeOK ==
  m_arrBTDev \in Table /\ ready \in BOOLEAN /\ is_first_prompt \in BOOLEAN

ChannelTypeOK ==
  /\ at \in {"none", "app", "urc"}
  /\ burst \in [summary : BOOLEAN, todo : SUBSET Line, wiped : BOOLEAN]

AppTypeOK == app \in AppState

UrcTypeOK ==
  /\ urc \in UrcState
  /\ urcs \in Seq(Urc)

ModuleTypeOK ==
  /\ pair \in [PairId -> Dev \cup {NULL}] /\ conn \in [ConnId -> Dev \cup {NULL}]
  /\ scanned \in [DevId -> Dev \cup {NULL}] /\ scanning \in BOOLEAN

(* Every variable has its type: in the list, an id is one the module can   *)
(* have given out, or the code's mark for none.                            *)
TypeOK ==
  RilTypeOK /\ ChannelTypeOK /\ AppTypeOK /\ UrcTypeOK /\ ModuleTypeOK
  /\ doubt \subseteq Doubts

(* The records fill the list from slot 0 without a gap. Every getter and   *)
(* updater reads slots in order without looking for NULL, so this is what  *)
(* makes the lookup of a listed device safe.                               *)
Compact ==
  \A i, j \in Slot : i < j /\ m_arrBTDev[j] # NULL => m_arrBTDev[i] # NULL

(* A device has one record, unless a query listed it while the scan        *)
(* handler's callback was running.                                         *)
OneRecordPerDevice ==
  \A i, j \in Slot :
    /\ m_arrBTDev[i] # NULL /\ m_arrBTDev[j] # NULL
    /\ m_arrBTDev[i].devHdl = m_arrBTDev[j].devHdl
    => i = j \/ "scanRace" \in doubt

(* Only a query that ended between its first line and OK can make a later  *)
(* one list a device without address, or succeed and leave *status alone.  *)
SummaryMisreadOnlyAfterCutQuery ==
  \/ Listed(m_arrBTDev, EmptyHdl)
  \/ app.pc = "idle" /\ app.ret = "ok" /\ app.status = "untouched"
  => "cutQuery" \in doubt

(* A pairing id in the list is the module's id for that device.            *)
PairIdsAreCurrent ==
  \A h \in Dev, i \in Slot :
    IsFirst(m_arrBTDev, i, h) /\ m_arrBTDev[i].pairId # -1 =>
      \/ pair[m_arrBTDev[i].pairId] = h
      \/ app.pc = "unpaired" /\ app.hdl = h
      \/ "badIds" \in doubt

(* A connection id in the list is one of that device's connections, until  *)
(* the notification of its end has been handled.                           *)
ConnIdsAreCurrent ==
  \A h \in Dev, i \in Slot :
    IsFirst(m_arrBTDev, i, h) /\ m_arrBTDev[i].connId # -1 =>
      \/ conn[m_arrBTDev[i].connId] = h
      \/ Pending("disc", h)
      \/ app.pc = "unpaired" /\ app.hdl = h
      \/ "badIds" \in doubt

(* A scan index in the list is the device's index in the module's present  *)
(* scan, unless scans overlapped.                                          *)
DevIdsAreCurrent ==
  \A h \in Dev, i \in Slot :
    IsFirst(m_arrBTDev, i, h) /\ m_arrBTDev[i].devId # 0 =>
      \/ scanned[m_arrBTDev[i].devId] = h
      \/ "lateScan" \in doubt

(* Once everything is handled, each pairing of the module is in the list   *)
(* with its id and each connected device with a connection id, unless the  *)
(* list is full or has been out of date since the last complete query.     *)
QuietListIsComplete ==
  /\ ready /\ at = "none" /\ app.pc = "idle" /\ urc.pc = "idle" /\ urcs = <<>>
  /\ "outdated" \notin doubt /\ ~BT_DevMngmt_isFull(m_arrBTDev)
  => /\ \A k \in PairId : pair[k] # NULL =>
          \E i \in Slot : IsFirst(m_arrBTDev, i, pair[k]) /\ m_arrBTDev[i].pairId = k
     /\ \A c \in ConnId : conn[c] # NULL =>
          \E i \in Slot : IsFirst(m_arrBTDev, i, conn[c]) /\ m_arrBTDev[i].connId # -1

(* A command for a listed device never reaches another one: the id it      *)
(* carries is that device's in the module, or nobody's, as long as the     *)
(* list is not in doubt and no disconnection is on its way.                *)
CommandNamesItsDevice ==
  LET h == app'.hdl  id == app'.id IN
  app.pc = "idle" /\ Listed(m_arrBTDev, h) =>
    /\ app'.pc = "pair" => scanned[id] = h \/ "lateScan" \in doubt
    /\ app'.pc \in {"conn", "unpair"} => pair[id] = h \/ "badIds" \in doubt
    /\ app'.pc = "disc" => \/ id \in ConnId /\ conn[id] = h
                           \/ Pending("disc", h) \/ "badIds" \in doubt

CommandsReachTheirDevice == [][CommandNamesItsDevice]_app

(* Every call and every notification handler returns, although each may    *)
(* wait for the channel the other one holds.                               *)
CallsAndHandlersReturn ==
  /\ app.pc # "idle" ~> app.pc = "idle"
  /\ urc.pc # "idle" ~> urc.pc = "idle"

(* RIL_BT_QueryState: "status [out] : current BT status". A call that      *)
(* returns RIL_AT_SUCCESS has written *status.                             *)
StatusIsReported ==
  app.pc = "idle" /\ app.ret = "ok" => app.status = "written"
=============================================================================
