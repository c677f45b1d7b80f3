------------------------------ MODULE GattClient ------------------------------
(***************************************************************************)
(* ril_ble_clinet.c: the GATT client functions RIL_BT_Gatc* and their      *)
(* ST_BLE_Client; the functions of ril_ble.c that keep no record           *)
(* (advertising, the PXP and FMP profiles, address, power); and the        *)
(* notification handlers of both files.                                    *)
(*                                                                         *)
(* The functions send one command.  Some go by what Ql_RIL_SendATCmd       *)
(* returns, the others by gclie->result, a cell that only some of the line *)
(* handlers write.  The tasks share one client; a position is what its     *)
(* sid, cid and did are when a function reads them.                        *)
(*                                                                         *)
(* Left out: calls with NULL or an operation other than 0 and 1, which are *)
(* refused; what the commands and notifications say besides the indices.   *)
(***************************************************************************)
EXTENDS AtLines, UrcTables, Integers

CONSTANTS
  Tasks,
  NoTask,
  SERVICE_NUM, CHAR_NUM, DESC_NUM,   \* the sizes of the arrays in ST_BLE_Client
  Positions,                         \* values of sid, cid and did
  MayCall,                           \* the functions each task calls
  MaxUrcs                            \* bound: notifications that are not yet handled

ASSUME NoTaskIsNone == NoTask \notin Tasks

ASSUME SizesAreNumbers == SERVICE_NUM \in Nat /\ CHAR_NUM \in Nat /\ DESC_NUM \in Nat /\ MaxUrcs \in Nat

VARIABLES
  result,        \* gclie->result
  callback_bt,   \* whose of the two static callbacks is set: "server" (ril_ble.c), "client"
  call,          \* the call of each task
  waiting,       \* the task whose command has the channel, and the lines of its response
  urcs,          \* the keywords of notifications that are not yet handled
  told           \* (history) the last notification handled and the message the callback was given

vars == <<result, callback_bt, call, waiting, urcs, told>>

-----------------------------------------------------------------------------
\* The line handlers.  FAILED is RIL_ATRSP_FAILED; a line that is not known ends the command, too.
FAILED == "-1"

OkOr(otherwise, line, d) == IF line.kind = "OK" THEN Success(d) ELSE otherwise

\* The mutant of ATRsp_QBTGatcreg_Hdlr: an error leaves the result as it is.
KeepsResult(line, d) == IF line.kind = "result" THEN Continue(line.val) ELSE OkOr(Failed(d), line, d)

ATRsp_QBTGatcreg_Hdlr(line, d)  == IF line.kind = "result" THEN Continue(line.val) ELSE OkOr(Failed(FAILED), line, d)
ATRsp_QBTGatcscan_Hdlr(line, d) == IF line.kind = "result" THEN Continue(line.val) ELSE OkOr(Failed(FAILED), line, d)
ATRsp_QBTGatcrn_Hdlr(line, d)   == IF line.kind = "result" THEN Continue(line.val) ELSE Final(line, d)
ATRsp_QBTGatcgdt_Hdlr(line, d)  == OkOr(Failed(FAILED), line, d)

ATRsp_QGatSetadv_Hdlr(line, d) ==
  CASE line.kind = "result"      -> Continue(line.val)
    [] line.kind = "OK"          -> Success(d)
    [] line.kind = "+CME ERROR:" -> Failed(line.val)
    [] OTHER                     -> Failed(FAILED)

Handler(h, line, d) ==
  CASE h = "reg"    -> ATRsp_QBTGatcreg_Hdlr(line, d)
    [] h = "scan"   -> ATRsp_QBTGatcscan_Hdlr(line, d)
    [] h = "rn"     -> ATRsp_QBTGatcrn_Hdlr(line, d)
    [] h = "gdt"    -> ATRsp_QBTGatcgdt_Hdlr(line, d)
    [] h = "setadv" -> ATRsp_QGatSetadv_Hdlr(line, d)
    [] h = "NULL"   -> Default_atRsp_callback(line, d)

\* This handler is declared void: its return values are discarded, and what the core takes for the verdict
\* is whatever a register holds.  So the command goes on or ends, either way, at any of its lines.
ATRsp_QBTLEADDR_Hdlr(line, d) ==
  LET address == IF line.kind = "result" THEN line.val ELSE d
  IN {Continue(address), Success(address), Failed(address)}

Outcomes(h, line, d) == IF h = "leaddr" THEN ATRsp_QBTLEADDR_Hdlr(line, d) ELSE {Handler(h, line, d)}

-----------------------------------------------------------------------------
(***************************************************************************)
(* A function: its line handler; what it returns (what the command         *)
(* returned, gclie->result, the local its handler writes, or 0); the       *)
(* elements it reads at position p; if it checks sid; and the notification *)
(* its command leads to.                                                   *)
(***************************************************************************)
Fn(h, returns, reads, checks, leadsTo) ==
  [handler |-> h, returns |-> returns, reads |-> reads, checks |-> checks, leadsTo |-> leadsTo]

Nowhere == {}
ServiceOf(p)  == {<<"service_id", p.sid>>}
CharOf(p)     == ServiceOf(p) \cup {<<"char_id", p.cid>>}
DescOf(p)     == CharOf(p) \cup {<<"desc_id", p.did>>}

\* The mutant of BehindChar: the position of the next characteristic, as in the other functions.
AtChar(p) == ServiceOf(p) \cup (IF p.cid = 0 THEN {} ELSE {<<"char_id", p.cid>>})

\* A cid or did of 0 asks for the first; another one tells how many are known, and the last of them is sent.
BehindChar(p) == ServiceOf(p) \cup (IF p.cid = 0 THEN {} ELSE {<<"char_id", p.cid - 1>>})
BehindDesc(p) == CharOf(p) \cup (IF p.did = 0 THEN {} ELSE {<<"desc_id", p.did - 1>>})

RIL_BT_Gatcreg(p)  == Fn("reg", "result", Nowhere, FALSE, "none")
RIL_BT_Gatcscan(p) == Fn("scan", "result", Nowhere, FALSE, "+QBTGATCSCAN:")
RIL_BT_Gatccon(p)  == Fn("NULL", "ret", Nowhere, FALSE, "+QBTGATCCON:")
RIL_BT_Gatcss(p)   == Fn("NULL", "ret", Nowhere, FALSE, "+QBTGATCSS:")
RIL_BT_Gatcgc(p)   == Fn("NULL", "result", BehindChar(p), TRUE, "+QBTGATCGC:")
RIL_BT_Gatcgd(p)   == Fn("NULL", "result", BehindDesc(p), TRUE, "+QBTGATCGD:")
RIL_BT_Gatcrc(p)   == Fn("NULL", "ret", CharOf(p), TRUE, "+QBTGATCRC:")
RIL_BT_Gatcwc(p)   == Fn("NULL", "ret", CharOf(p), TRUE, "none")
RIL_BT_Gatcwd(p)   == Fn("NULL", "ret", DescOf(p), TRUE, "none")
RIL_BT_Gatcrd(p)   == Fn("NULL", "ret", DescOf(p), TRUE, "+QBTGATCRD:")
RIL_BT_Gatcrn(p)   == Fn("rn", "result", CharOf(p), FALSE, "none")
RIL_BT_Gatcgdt(p)  == Fn("gdt", "result", Nowhere, FALSE, "none")
RIL_BT_Gatcl(p)    == Fn("NULL", "result", Nowhere, FALSE, "none")

RIL_BT_SetLeTxPwr(p)     == Fn("NULL", "zero", Nowhere, FALSE, "none")
RIL_BT_QBTFMPsreg(p)     == Fn("NULL", "ret", Nowhere, FALSE, "+QBTFMPSCONSREG:")
RIL_BT_QBTPXPsreg(p)     == Fn("NULL", "ret", Nowhere, FALSE, "+QBTPXPSCON:")
RIL_BT_QBTGatadv(p)      == Fn("NULL", "ret", Nowhere, FALSE, "+QBTGATSCON:")
RIL_BT_QGatSetadv(p)     == Fn("setadv", "local", Nowhere, FALSE, "none")
RIL_BT_QGatadvData(p)    == Fn("NULL", "ret", Nowhere, FALSE, "none")
RIL_BT_QGatScanRsp(p)    == Fn("NULL", "ret", Nowhere, FALSE, "none")
RIL_BT_Gatcpu(p)         == Fn("NULL", "ret", Nowhere, FALSE, "none")
RIL_BT_QGatsdisc(p)      == Fn("NULL", "ret", Nowhere, FALSE, "+QBTGATSCON:")
RIL_BT_GetLeLocalAddr(p) == Fn("leaddr", "ret", Nowhere, FALSE, "none")

Functions(p) ==
  [RIL_BT_Gatcreg |-> RIL_BT_Gatcreg(p), RIL_BT_Gatcscan |-> RIL_BT_Gatcscan(p), RIL_BT_Gatccon |-> RIL_BT_Gatccon(p),
   RIL_BT_Gatcss |-> RIL_BT_Gatcss(p), RIL_BT_Gatcgc |-> RIL_BT_Gatcgc(p), RIL_BT_Gatcgd |-> RIL_BT_Gatcgd(p),
   RIL_BT_Gatcrc |-> RIL_BT_Gatcrc(p), RIL_BT_Gatcwc |-> RIL_BT_Gatcwc(p), RIL_BT_Gatcwd |-> RIL_BT_Gatcwd(p),
   RIL_BT_Gatcrd |-> RIL_BT_Gatcrd(p), RIL_BT_Gatcrn |-> RIL_BT_Gatcrn(p), RIL_BT_Gatcgdt |-> RIL_BT_Gatcgdt(p),
   RIL_BT_Gatcl |-> RIL_BT_Gatcl(p), RIL_BT_SetLeTxPwr |-> RIL_BT_SetLeTxPwr(p),
   RIL_BT_QBTFMPsreg |-> RIL_BT_QBTFMPsreg(p), RIL_BT_QBTPXPsreg |-> RIL_BT_QBTPXPsreg(p),
   RIL_BT_QBTGatadv |-> RIL_BT_QBTGatadv(p), RIL_BT_QGatSetadv |-> RIL_BT_QGatSetadv(p),
   RIL_BT_QGatadvData |-> RIL_BT_QGatadvData(p), RIL_BT_QGatScanRsp |-> RIL_BT_QGatScanRsp(p),
   RIL_BT_Gatcpu |-> RIL_BT_Gatcpu(p), RIL_BT_QGatsdisc |-> RIL_BT_QGatsdisc(p),
   RIL_BT_GetLeLocalAddr |-> RIL_BT_GetLeLocalAddr(p)]

Origin == [sid |-> 0, cid |-> 0, did |-> 0]

Names == DOMAIN Functions(Origin)

ASSUME MayCallNames == MayCall \in [Tasks -> SUBSET Names]

ASSUME PositionsAreNumbers == Positions \subseteq [sid : Nat, cid : Nat, did : Nat]

\* RIL_BT_Gatcgc reads the service before it checks sid.
ReadBeforeCheck(f, p) == IF f = "RIL_BT_Gatcgc" THEN ServiceOf(p) ELSE Nowhere

Rejects(f, p) == Functions(p)[f].checks /\ p.sid > SERVICE_NUM

-----------------------------------------------------------------------------
Free   == [by |-> NoTask, lines |-> <<>>]
NoCall == [pc |-> "idle", fn |-> "", handler |-> "NULL", returns |-> "ret", reads |-> Nowhere, position |-> Origin,
           cell |-> "wild", ret |-> "", val |-> "", executed |-> FALSE, mixed |-> FALSE]

Init ==
  /\ result = "0"
  /\ callback_bt = {}
  /\ call = [c \in Tasks |-> NoCall]
  /\ waiting = Free
  /\ urcs = <<>>
  /\ told = [urc |-> "none", msg |-> "none"]

RIL_BLE_Initialize ==
  /\ "server" \notin callback_bt
  /\ callback_bt' = callback_bt \cup {"server"}
  /\ UNCHANGED <<result, call, waiting, urcs, told>>

RIL_BLE_Client_Initialize ==
  /\ "client" \notin callback_bt
  /\ callback_bt' = callback_bt \cup {"client"}
  /\ UNCHANGED <<result, call, waiting, urcs, told>>

-----------------------------------------------------------------------------
Response(lines, done) == [lines |-> lines, done |-> done]

\* How the module answers: the command is carried out, or refused by a result or by an error line.
Answers(h) ==
  {Response(<<ErrorLine>>, FALSE), Response(<<CmeError("5")>>, FALSE)}
    \cup CASE h \in {"reg", "scan", "rn", "setadv"} ->
                {Response(<<Line("result", "0"), OkLine>>, TRUE), Response(<<Line("result", "7"), OkLine>>, FALSE)}
           [] h = "leaddr" -> {Response(<<Line("result", "address"), OkLine>>, TRUE)}
           [] h = "gdt"    -> {Response(<<Line("+QBTGATCGDT:", "type"), OkLine>>, TRUE)}
           [] h = "NULL"   -> {Response(<<OkLine>>, TRUE)}

Begun(f, p, pc, reads) ==
  [NoCall EXCEPT !.pc = pc, !.fn = f, !.handler = Functions(p)[f].handler, !.returns = Functions(p)[f].returns,
                 !.reads = reads, !.position = p]

\* A function refuses its arguments, ...
Reject(c, f, p) ==
  /\ Rejects(f, p)
  /\ call' = [call EXCEPT ![c] =
                [Begun(f, p, "returned", ReadBeforeCheck(f, p)) EXCEPT !.returns = "ret", !.val = "invalid"]]
  /\ UNCHANGED <<result, callback_bt, waiting, urcs, told>>

\* ... finds the channel taken (RIL_AT_BUSY), ...
Busy(c, f, p) ==
  /\ ~Rejects(f, p)
  /\ waiting # Free
  /\ call' = [call EXCEPT ![c] = [Begun(f, p, "answered", Functions(p)[f].reads) EXCEPT !.ret = "busy"]]
  /\ UNCHANGED <<result, callback_bt, waiting, urcs, told>>

\* ... or sends its command.  A command that is carried out leads to a notification.
Send(c, f, p) ==
  /\ ~Rejects(f, p)
  /\ waiting = Free
  /\ \E a \in Answers(Functions(p)[f].handler) :
       /\ waiting' = [by |-> c, lines |-> a.lines]
       /\ call' = [call EXCEPT ![c] = [Begun(f, p, "sent", Functions(p)[f].reads) EXCEPT !.executed = a.done]]
       /\ urcs' = IF a.done /\ Functions(p)[f].leadsTo # "none" THEN Append(urcs, Functions(p)[f].leadsTo) ELSE urcs
  /\ UNCHANGED <<result, callback_bt, told>>

Call(c, f, p) ==
  /\ call[c].pc = "idle"
  /\ Len(urcs) < MaxUrcs
  /\ Reject(c, f, p) \/ Busy(c, f, p) \/ Send(c, f, p)

\* The handlers of the client write its result, the others a local of the function.
CellOf(c) == IF call[c].returns = "result" THEN result ELSE call[c].cell

Verdicts == [success |-> "0", failed |-> FAILED]

\* The next line of the response; what it leaves in gclie->result is not what another call goes by.
TakeLine(c) ==
  /\ waiting.by = c
  /\ waiting.lines # <<>>
  /\ \E out \in Outcomes(call[c].handler, Head(waiting.lines), CellOf(c)) :
       LET shared == call[c].returns = "result"
           ends == out.verdict # "continue"
           mine == [call[c] EXCEPT !.pc = IF ends THEN "answered" ELSE @,
                                   !.ret = IF ends THEN Verdicts[out.verdict] ELSE @,
                                   !.cell = IF shared THEN @ ELSE out.data]
       IN /\ result' = IF shared THEN out.data ELSE result
          /\ call' = [u \in Tasks |->
                        IF u = c THEN mine
                        ELSE [call[u] EXCEPT !.mixed = @ \/ (shared /\ call[u].pc # "idle")]]
          /\ waiting' = IF ends THEN Free ELSE [waiting EXCEPT !.lines = Tail(@)]
  /\ UNCHANGED <<callback_bt, urcs, told>>

\* The mutant of Timeout: the channel is not given back.
TimeoutKeepsChannel(c) ==
  /\ waiting.by = c
  /\ call' = [call EXCEPT ![c].pc = "answered", ![c].ret = "timeout"]
  /\ UNCHANGED <<result, callback_bt, waiting, urcs, told>>

\* No answer in time; the module may have carried the command out.
Timeout(c) ==
  /\ waiting.by = c
  /\ call' = [call EXCEPT ![c].pc = "answered", ![c].ret = "timeout"]
  /\ waiting' = Free
  /\ UNCHANGED <<result, callback_bt, urcs, told>>

Value(c) ==
  CASE call[c].returns = "ret"    -> call[c].ret
    [] call[c].returns = "result" -> result
    [] call[c].returns = "local"  -> call[c].cell
    [] call[c].returns = "zero"   -> "0"

Finish(c) ==
  /\ call[c].pc = "answered"
  /\ call' = [call EXCEPT ![c].pc = "returned", ![c].val = Value(c)]
  /\ UNCHANGED <<result, callback_bt, waiting, urcs, told>>

Return(c) ==
  /\ call[c].pc = "returned"
  /\ call' = [call EXCEPT ![c] = NoCall]
  /\ UNCHANGED <<result, callback_bt, waiting, urcs, told>>

-----------------------------------------------------------------------------
(***************************************************************************)
(* The notification handlers test the prefix once more, and call the       *)
(* callback of their file with a message (BTGatcscan and BTGatcgc only if  *)
(* there are data behind it).  Those of ril_ble_clinet.c are in no table   *)
(* of ril_urc.c.                                                           *)
(***************************************************************************)
Tells(prefix, msg, whose) == [prefix |-> prefix, msg |-> msg, whose |-> whose]

\* The mutant of OnURCHandler_BTGatewreq: the prefix of the handler it was copied from.
CopiedPrefix == Tells("+QBTGATWREQ:", "MSG_BLE_EWREG_IND", "server")

OnURCHandler_BTGatscon  == Tells("+QBTGATSCON:", "MSG_BLE_CONNECT", "server")
OnURCHandler_BTGatwreq  == Tells("+QBTGATWREQ:", "MSG_BLE_WREG_IND", "server")
OnURCHandler_BTGatewreq == Tells("+QBTGATEWREQ:", "MSG_BLE_EWREG_IND", "server")
OnURCHandler_BTGatrreq  == Tells("+QBTGATRREQ:", "MSG_BLE_RREG_IND", "server")
OnURCHandler_BTpxpscon  == Tells("+QBTGATSCON:", "MSG_BLE_PXP_CONNECT", "server")     \* not "+QBTPXPSCON:"
OnURCHandler_BTfmpscon  == Tells("+QBTFMPSCONSREG:", "MSG_BLE_FMP_CONNECT", "server")
OnURCHandler_BTGatcscan == Tells("+QBTGATCSCAN:", "MSG_BLE_SCAN", "client")
OnURCHandler_BTGatccon  == Tells("+QBTGATCCON:", "MSG_BLE_CCON", "client")
OnURCHandler_BTGatcss   == Tells("+QBTGATCSS:", "MSG_BLE_CSS", "client")
OnURCHandler_BTGatcgc   == Tells("+QBTGATCGC:", "MSG_BLE_CGC", "client")
OnURCHandler_BTGatcgd   == Tells("+QBTGATCGD:", "MSG_BLE_CGD", "client")
OnURCHandler_BTGatcrc   == Tells("+QBTGATCRC:", "MSG_BLE_CRC", "client")
OnURCHandler_BTGatcrd   == Tells("+QBTGATCRD:", "MSG_BLE_CRD", "client")
OnURCHandler_BTGatcn    == Tells("+QBTGATCN:", "MSG_BLE_CN", "client")

UrcHandlers ==
  [BTGatscon |-> OnURCHandler_BTGatscon, BTGatwreq |-> OnURCHandler_BTGatwreq, BTGatewreq |-> OnURCHandler_BTGatewreq,
   BTGatrreq |-> OnURCHandler_BTGatrreq, BTpxpscon |-> OnURCHandler_BTpxpscon, BTfmpscon |-> OnURCHandler_BTfmpscon,
   BTGatcscan |-> OnURCHandler_BTGatcscan, BTGatccon |-> OnURCHandler_BTGatccon, BTGatcss |-> OnURCHandler_BTGatcss,
   BTGatcgc |-> OnURCHandler_BTGatcgc, BTGatcgd |-> OnURCHandler_BTGatcgd, BTGatcrc |-> OnURCHandler_BTGatcrc,
   BTGatcrd |-> OnURCHandler_BTGatcrd, BTGatcn |-> OnURCHandler_BTGatcn]

\* The peer writes to the server, reads from it, or notifies the client.
PeerRequests(keyword) ==
  /\ Len(urcs) < MaxUrcs
  /\ urcs' = Append(urcs, keyword)
  /\ UNCHANGED <<result, callback_bt, call, waiting, told>>

\* OnURCHandler with the notification, and the handler it finds in the tables.
HandleUrc ==
  LET urc == Head(urcs)
      h == HandlerOf(Urc({urc}, ""))
      calls == /\ h \in DOMAIN UrcHandlers
               /\ UrcHandlers[h].prefix = urc
               /\ UrcHandlers[h].whose \in callback_bt
  IN /\ urcs # <<>>
     /\ urcs' = Tail(urcs)
     /\ told' = [urc |-> urc, msg |-> IF calls THEN UrcHandlers[h].msg ELSE "none"]
     /\ UNCHANGED <<result, callback_bt, call, waiting>>

Next ==
  \/ RIL_BLE_Initialize \/ RIL_BLE_Client_Initialize
  \/ \E c \in Tasks :
       \/ \E f \in MayCall[c], p \in Positions : Call(c, f, p)
       \/ TakeLine(c) \/ Timeout(c) \/ Finish(c) \/ Return(c)
  \/ \E k \in {"+QBTGATWREQ:", "+QBTGATEWREQ:", "+QBTGATRREQ:", "+QBTGATCN:"} : PeerRequests(k)
  \/ HandleUrc

Spec == Init /\ [][Next]_vars

-----------------------------------------------------------------------------
Pcs == {"idle", "sent", "answered", "returned"}

\* The channel is held by the task that waits, and by no other; nobody waits behind the last line of an
\* answer but RIL_BT_GetLeLocalAddr, whose handler has no verdict.
TypeOK ==
  /\ callback_bt \subseteq {"server", "client"}
  /\ \A c \in Tasks :
       /\ call[c].pc \in Pcs
       /\ call[c].fn \in MayCall[c] \cup {""}
       /\ call[c].pc = "sent" <=> waiting.by = c
       /\ waiting.by = c => waiting.lines # <<>> \/ call[c].handler = "leaddr"
  /\ Len(urcs) <= MaxUrcs

Interrupted(c) == call[c].ret \in {"busy", "timeout"}

\* When the value a function returns may not be about its own command:
Excused(c) ==
  \/ call[c].returns = "zero"                                  \* it is 0 whatever happened
  \/ call[c].returns # "ret" /\ Interrupted(c)                 \* no line of the response was handled, or not all
  \/ call[c].ret = "timeout"                                   \* nobody knows
  \/ call[c].returns = "result" /\ call[c].mixed               \* another task's lines came between
  \/ call[c].returns = "result" /\ call[c].handler = "NULL"    \* no handler writes the result
  \/ call[c].handler = "rn" /\ call[c].ret = FAILED            \* an error does not change the result
  \/ call[c].handler = "gdt" /\ call[c].executed               \* its answer ends as a failure
  \/ call[c].handler = "leaddr" /\ ~Interrupted(c)             \* its handler returns no verdict

\* A function returns 0 if and only if the module carried its command out, but for the cases of Excused:
\* most of them come from returning gclie->result without reading what Ql_RIL_SendATCmd returned, one from
\* the handler of RIL_BT_GetLeLocalAddr, which is declared void.
ReturnIsOfTheCommand ==
  \A c \in Tasks : call[c].pc = "returned" /\ ~Excused(c) => (call[c].val = "0" <=> call[c].executed)

Elements ==
  {<<"service_id", n>> : n \in 0..SERVICE_NUM - 1} \cup {<<"char_id", n>> : n \in 0..CHAR_NUM - 1}
    \cup {<<"desc_id", n>> : n \in 0..DESC_NUM - 1}

\* RIL_BT_Gatcgc takes cid for a number of characteristics, RIL_BT_Gatcgd did for one of descriptors,
\* every other function takes them for indices: so the same field may be as large as the array for one
\* function and not for the next.  A position that is inside for its function is never read outside of
\* the client's arrays; the functions' own check of sid does not grant that.
ReadsStayInside ==
  \A c \in Tasks :
    LET p == call[c].position
        f == call[c].fn
    IN p.sid < SERVICE_NUM
         /\ p.cid < CHAR_NUM + (IF f = "RIL_BT_Gatcgc" THEN 1 ELSE 0)
         /\ p.did < DESC_NUM + (IF f = "RIL_BT_Gatcgd" THEN 1 ELSE 0)
       => call[c].reads \subseteq Elements

ServersEvents ==
  {"+QBTGATSCON:", "+QBTGATWREQ:", "+QBTGATEWREQ:", "+QBTGATRREQ:", "+QBTFMPSCONSREG:"}

\* The application hears of every event of the server that is handled when its callback is set; of the
\* client's events and of the proximity profile it never hears, though RIL_BLE_Client_Initialize took a
\* callback for them.
OnlyTheServersEventsAreTold ==
  [][urcs # <<>> /\ urcs' = Tail(urcs) =>
       (told'.msg # "none" <=> Head(urcs) \in ServersEvents /\ "server" \in callback_bt)]_vars
=============================================================================
