------------------------- MODULE BtDeviceListProofs -------------------------
(***************************************************************************)
(* Theorems about BtDeviceList, for any number of devices, slots, pairing  *)
(* ids and connections: the list is well formed, and what it says of a     *)
(* pairing is true but for the doubts the state names.                     *)
(***************************************************************************)
EXTENDS BtDeviceList, TLAPS

-----------------------------------------------------------------------------
(* The table operators. *)

(* Cleaning and changing one field keep a table a table.                   *)
LEMMA WritesKeepTable ==
  ASSUME NEW t \in Table, NEW h
  PROVE  /\ BT_DevMngmt_Clean \in Table
         /\ \A id \in PairId \cup {-1} : SetPairId(t, h, id) \in Table
         /\ \A id \in ConnId \cup {-1} : SetConnId(t, h, id) \in Table
         /\ \A id \in DevId \cup {0} : SetDevId(t, h, id) \in Table
<1> USE DEF Table, DevInfo
<1>1. BT_DevMngmt_Clean \in Table
  BY DEF BT_DevMngmt_Clean
<1>2. \A id \in PairId \cup {-1} : SetPairId(t, h, id) \in Table
  BY DEF SetPairId, IsFirst, Holds
<1>3. \A id \in ConnId \cup {-1} : SetConnId(t, h, id) \in Table
  BY DEF SetConnId, IsFirst, Holds
<1>4. \A id \in DevId \cup {0} : SetDevId(t, h, id) \in Table
  BY DEF SetDevId, IsFirst, Holds
<1> QED BY <1>1, <1>2, <1>3, <1>4

(* Appending a record, if there is room or not, keeps a table a table.     *)
LEMMA AppendKeepsTable ==
  ASSUME NEW t \in Table, NEW h \in Handle, NEW id \in DevId \cup {0}
  PROVE  /\ BT_DevMngmt_Append(t, [NewRecord(h) EXCEPT !.devId = id]) \in Table
         /\ EnsureListed(t, h) \in Table
<1>1. NewRecord(h) \in DevInfo /\ [NewRecord(h) EXCEPT !.devId = id] \in DevInfo
  BY DEF NewRecord, DevInfo
<1>2. \A r \in DevInfo : BT_DevMngmt_Append(t, r) \in Table
  BY DEF BT_DevMngmt_Append, Table
<1> QED BY <1>1, <1>2 DEF EnsureListed

(* So does a line of a query's response.                                   *)
LEMMA LineKeepsTable ==
  ASSUME NEW t \in Table, NEW l \in Line
  PROVE  TakeLine(t, l) \in Table
<1>1. l.hdl \in Handle
  BY DEF Line, Handle
<1>2. EnsureListed(t, l.hdl) \in Table
  BY <1>1, AppendKeepsTable
<1>3. l.kind = "paired" => l.id \in PairId
  BY DEF Line
<1>4. l.kind # "paired" => l.id \in ConnId
  BY DEF Line
<1> QED BY <1>2, <1>3, <1>4, WritesKeepTable DEF TakeLine

-----------------------------------------------------------------------------
(* Type correctness. *)

(* A query's response names pairings and connections the module has.       *)
LEMMA LinesAreTyped ==
  ASSUME ModuleTypeOK
  PROVE  StateLines \subseteq Line
BY NullIsNothingElse DEF ModuleTypeOK, StateLines, Line

LEMMA CallIsTyped ==
  ASSUME NEW pc \in AppPc, NEW h \in Handle,
         NEW id \in DevId \cup PairId \cup ConnId \cup {0}, Call(pc, h, id)
  PROVE  AppTypeOK'
BY DEF Call, AppTypeOK, AppState, NoCall

LEMMA InitTypeOK == Init => TypeOK
<1> SUFFICES ASSUME Init PROVE TypeOK
  OBVIOUS
<1>1. RilTypeOK
  BY DEF Init, RilTypeOK, BT_DevMngmt_Clean, Table
<1>2. ChannelTypeOK
  BY DEF Init, ChannelTypeOK, NoBurst
<1>3. AppTypeOK
  BY DEF Init, AppTypeOK, AppState, NoCall, AppPc, Handle
<1>4. UrcTypeOK
  BY DEF Init, UrcTypeOK, UrcState, NoUrc, Handle
<1>5. ModuleTypeOK
  BY DEF Init, ModuleTypeOK
<1>6. doubt \subseteq Doubts
  BY DEF Init
<1> QED BY <1>1, <1>2, <1>3, <1>4, <1>5, <1>6 DEF TypeOK

(* The first notification waiting is one, and so are the rest.             *)
LEMMA NextUrcIsTyped ==
  ASSUME UrcTypeOK, NEW type, NextUrc(type)
  PROVE  Head(urcs) \in Urc /\ urcs' \in Seq(Urc)
BY DEF UrcTypeOK, NextUrc

LEMMA SendQueryIsTyped ==
  ASSUME ModuleTypeOK, NEW owner \in {"app", "urc"}, SendQuery(owner)
  PROVE  ChannelTypeOK'
BY LinesAreTyped DEF SendQuery, ChannelTypeOK

LEMMA ResumeIsTyped ==
  ASSUME AppTypeOK, UrcTypeOK, UNCHANGED urcs,
         NEW result \in {"ok", "fail"}, Resume(result)
  PROVE  AppTypeOK' /\ UrcTypeOK'
<1>1. NoCall \in AppState
  BY DEF NoCall, AppState, AppPc, Handle
<1>2. [app EXCEPT !.pc = "scanSend"] \in AppState
  BY DEF AppTypeOK, AppState, AppPc
<1>3. [NoCall EXCEPT !.ret = result, !.status = app.status] \in AppState
  BY <1>1 DEF AppTypeOK, AppState
<1>4. NoUrc \in UrcState
  BY DEF NoUrc, UrcState, Handle
<1>5. CASE at = "urc"
  BY <1>4, <1>5 DEF Resume, AppTypeOK, UrcTypeOK
<1>6. CASE at # "urc"
  <2>1. app' \in AppState
    BY <1>1, <1>2, <1>3, <1>6 DEF Resume
  <2>2. urc' = urc
    BY <1>6 DEF Resume
  <2> QED BY <2>1, <2>2 DEF AppTypeOK, UrcTypeOK
<1> QED BY <1>5, <1>6

(* The steps of a query.                                                   *)
LEMMA QueryStepTypeOK ==
  ASSUME TypeOK, QueryStep
  PROVE  TypeOK'
<1> USE DEF TypeOK
<1>1. ASSUME NEW s \in {0, 1, 5}, ATRsp_QBTSTATE_Summary(s)
      PROVE  TypeOK'
  <2> USE <1>1 DEF ATRsp_QBTSTATE_Summary
  <2>1. RilTypeOK'
    <3>1. EmptyHdl \in Handle
      BY DEF Handle
    <3>2. EnsureListed(m_arrBTDev, EmptyHdl) \in Table
      BY <3>1, AppendKeepsTable DEF RilTypeOK
    <3>3. m_arrBTDev' \in Table
      BY <3>2, WritesKeepTable DEF RilTypeOK
    <3> QED BY <3>3 DEF RilTypeOK
  <2>2. ChannelTypeOK'
    BY DEF ChannelTypeOK
  <2>3. AppTypeOK'
    BY DEF AppTypeOK, AppState
  <2>4. UrcTypeOK' /\ ModuleTypeOK' /\ (doubt \subseteq Doubts)'
    BY DEF UrcTypeOK, ModuleTypeOK, module
  <2> QED BY <2>1, <2>2, <2>3, <2>4
<1>2. CASE ATRsp_QBTSTATE_Line
  <2> USE <1>2 DEF ATRsp_QBTSTATE_Line
  <2>1. PICK l \in burst.todo :
          /\ burst' = [burst EXCEPT !.todo = @ \ {l}]
          /\ m_arrBTDev' = TakeLine(m_arrBTDev, l)
          /\ doubt' \subseteq doubt \cup {"scanRace"}
    OBVIOUS
  <2>2. l \in Line
    BY DEF ChannelTypeOK
  <2>3. RilTypeOK'
    BY <2>1, <2>2, LineKeepsTable DEF RilTypeOK
  <2>4. ChannelTypeOK'
    BY <2>1 DEF ChannelTypeOK
  <2>5. AppTypeOK' /\ UrcTypeOK' /\ ModuleTypeOK' /\ (doubt \subseteq Doubts)'
    BY <2>1 DEF AppTypeOK, UrcTypeOK, ModuleTypeOK, module, Doubts
  <2> QED BY <2>3, <2>4, <2>5
<1>3. CASE ATRsp_QBTSTATE_OK
  <2> USE <1>3 DEF ATRsp_QBTSTATE_OK
  <2>1. RilTypeOK' /\ ModuleTypeOK' /\ (doubt \subseteq Doubts)'
    BY DEF RilTypeOK, ModuleTypeOK, module, PromptReset
  <2>2. ChannelTypeOK'
    BY DEF ChannelTypeOK, NoBurst
  <2> QED BY <2>1, <2>2, ResumeIsTyped
<1>4. CASE QueryFails
  <2> USE <1>4 DEF QueryFails
  <2>1. RilTypeOK' /\ ModuleTypeOK' /\ (doubt \subseteq Doubts)'
    BY DEF RilTypeOK, ModuleTypeOK, ril, module, Doubts
  <2>2. ChannelTypeOK'
    BY DEF ChannelTypeOK, NoBurst
  <2> QED BY <2>1, <2>2, ResumeIsTyped
<1> QED BY <1>1, <1>2, <1>3, <1>4 DEF QueryStep

LEMMA CleanAndQueryIsTyped ==
  ASSUME TypeOK, NEW pc \in {"initQuery", "scanQuery"}, CleanAndQuery(pc)
  PROVE  m_arrBTDev' \in Table /\ ChannelTypeOK' /\ AppTypeOK'
<1>1. m_arrBTDev' \in Table
  BY WritesKeepTable DEF CleanAndQuery, TypeOK, RilTypeOK
<1>2. EmptyHdl \in Handle /\ {pc, "scanSend", "idle"} \subseteq AppPc
  BY DEF Handle, AppPc
<1>3. CASE at = "none"
  BY <1>1, <1>2, <1>3, SendQueryIsTyped, CallIsTyped DEF CleanAndQuery, TypeOK
<1>4. CASE at # "none"
  <2>1. ChannelTypeOK'
    BY <1>4 DEF CleanAndQuery, TypeOK, ChannelTypeOK
  <2> QED BY <1>1, <1>2, <1>4, <2>1, CallIsTyped DEF CleanAndQuery
<1> QED BY <1>3, <1>4

(* The application's calls.                                                *)
LEMMA AppCallsTypeOK ==
  ASSUME TypeOK, AppCalls
  PROVE  TypeOK'
<1> USE DEF TypeOK
<1>1. CASE RIL_BT_Initialize
  <2> USE <1>1 DEF RIL_BT_Initialize
  <2>1. m_arrBTDev' \in Table /\ ChannelTypeOK' /\ AppTypeOK'
    BY CleanAndQueryIsTyped
  <2>2. RilTypeOK' /\ UrcTypeOK' /\ ModuleTypeOK'
    BY <2>1 DEF RilTypeOK, UrcTypeOK, ModuleTypeOK, module
  <2>3. (doubt \subseteq Doubts)'
    BY DEF DoubtAfterClean, Doubts
  <2> QED BY <2>1, <2>2, <2>3
<1>2. CASE RIL_BT_QueryState
  <2> USE <1>2 DEF RIL_BT_QueryState
  <2>1. EmptyHdl \in Handle /\ "query" \in AppPc
    BY DEF Handle, AppPc
  <2>2. ChannelTypeOK' /\ AppTypeOK'
    BY <2>1, SendQueryIsTyped, CallIsTyped
  <2>3. RilTypeOK' /\ UrcTypeOK' /\ ModuleTypeOK' /\ (doubt \subseteq Doubts)'
    BY DEF RilTypeOK, UrcTypeOK, ModuleTypeOK, ril, module
  <2> QED BY <2>2, <2>3
<1>3. CASE RIL_BT_StartScan
  <2> USE <1>3 DEF RIL_BT_StartScan
  <2>1. m_arrBTDev' \in Table /\ ChannelTypeOK' /\ AppTypeOK'
    BY CleanAndQueryIsTyped
  <2>2. RilTypeOK' /\ UrcTypeOK' /\ ModuleTypeOK'
    BY <2>1 DEF RilTypeOK, UrcTypeOK, ModuleTypeOK, module
  <2>3. (doubt \subseteq Doubts)'
    BY DEF DoubtAfterClean, Doubts
  <2> QED BY <2>1, <2>2, <2>3
<1>4. ASSUME NEW h \in Dev, NEW pc \in AppPc, NEW field, NEW wild,
             NEW valid \in SUBSET (DevId \cup PairId \cup ConnId \cup {0}),
             SendFor(h, pc, field, wild, valid)
      PROVE  TypeOK'
  <2> USE <1>4 DEF SendFor
  <2>1. AppTypeOK'
    BY CallIsTyped DEF Handle
  <2>2. ChannelTypeOK'
    BY DEF ChannelTypeOK
  <2>3. RilTypeOK' /\ UrcTypeOK' /\ ModuleTypeOK' /\ (doubt \subseteq Doubts)'
    BY DEF RilTypeOK, UrcTypeOK, ModuleTypeOK, ril, module, Doubts
  <2> QED BY <2>1, <2>2, <2>3
<1>5. ASSUME NEW h \in Dev,
             \/ RIL_BT_PairReq(h) \/ RIL_BT_Unpair(h)
             \/ RIL_BT_ConnReq(h) \/ RIL_BT_Disconnect(h)
      PROVE  TypeOK'
  <2>1. {"pair", "unpair", "conn", "disc"} \subseteq AppPc
    BY DEF AppPc
  <2> QED BY <1>4, <1>5, <2>1
          DEF RIL_BT_PairReq, RIL_BT_Unpair, RIL_BT_ConnReq, RIL_BT_Disconnect
<1> QED BY <1>1, <1>2, <1>3, <1>5 DEF AppCalls

(* What the module does on a command keeps its variables typed.            *)
LEMMA ModuleExecutesTypeOK ==
  ASSUME ModuleTypeOK, ModuleExecutes
  PROVE  ModuleTypeOK'
BY DEF ModuleTypeOK, ModuleExecutes, module

(* The answers to the application's commands.                              *)
LEMMA AppReturnsTypeOK ==
  ASSUME TypeOK, AppReturns
  PROVE  TypeOK'
<1> USE DEF TypeOK
<1>0. NoCall \in AppState /\ EmptyHdl \in Handle /\ {"scan", "unpaired"} \subseteq AppPc
  BY DEF NoCall, AppState, AppPc, Handle
<1>1. CASE SendScan
  <2> USE <1>1 DEF SendScan
  <2>1. AppTypeOK'
    BY <1>0, CallIsTyped DEF AppTypeOK
  <2>2. ChannelTypeOK'
    BY DEF ChannelTypeOK
  <2>3. RilTypeOK' /\ UrcTypeOK' /\ ModuleTypeOK' /\ (doubt \subseteq Doubts)'
    BY DEF RilTypeOK, UrcTypeOK, ModuleTypeOK, ril, module
  <2> QED BY <2>1, <2>2, <2>3
<1>2. CASE CommandOk
  <2> USE <1>2 DEF CommandOk
  <2>1. AppTypeOK'
    BY <1>0 DEF AppTypeOK, AppState
  <2>2. ChannelTypeOK' /\ ModuleTypeOK'
    BY ModuleExecutesTypeOK DEF ChannelTypeOK
  <2>3. RilTypeOK' /\ UrcTypeOK' /\ (doubt \subseteq Doubts)'
    BY DEF RilTypeOK, UrcTypeOK, ril, Doubts
  <2> QED BY <2>1, <2>2, <2>3
<1>3. CASE CommandFails
  <2> USE <1>3 DEF CommandFails
  <2>1. AppTypeOK'
    BY <1>0 DEF AppTypeOK
  <2>2. ChannelTypeOK'
    BY DEF ChannelTypeOK
  <2>3. ModuleTypeOK'
    BY ModuleExecutesTypeOK DEF ModuleTypeOK, module
  <2>4. RilTypeOK' /\ UrcTypeOK' /\ (doubt \subseteq Doubts)'
    BY DEF RilTypeOK, UrcTypeOK, ril, Doubts
  <2> QED BY <2>1, <2>2, <2>3, <2>4
<1>4. CASE UnpairReturns
  <2> USE <1>4 DEF UnpairReturns
  <2>1. RilTypeOK'
    BY WritesKeepTable DEF Unpaired, RilTypeOK
  <2>2. AppTypeOK'
    BY <1>0 DEF AppTypeOK
  <2>3. ChannelTypeOK' /\ (doubt \subseteq Doubts)'
    BY DEF LosesId, ChannelTypeOK, Doubts
  <2>4. UrcTypeOK' /\ ModuleTypeOK'
    BY DEF UrcTypeOK, ModuleTypeOK, module
  <2> QED BY <2>1, <2>2, <2>3, <2>4
<1> QED BY <1>1, <1>2, <1>3, <1>4 DEF AppReturns

(* The notification handlers.                                              *)
LEMMA UrcStepTypeOK ==
  ASSUME TypeOK, UrcStep
  PROVE  TypeOK'
<1> USE DEF TypeOK
<1>1. CASE UrcIgnored
  <2>1. UrcTypeOK'
    BY <1>1, NextUrcIsTyped DEF UrcIgnored, UrcTypeOK
  <2> QED BY <1>1, <2>1 DEF UrcIgnored, RilTypeOK, ChannelTypeOK, AppTypeOK,
          ModuleTypeOK, ril, channel, module
<1>2. CASE OnURCHandler_BTScan
  <2> USE <1>2 DEF OnURCHandler_BTScan
  <2>1. Head(urcs) \in Urc /\ Head(urcs).type = "found" /\ urcs' \in Seq(Urc)
    BY NextUrcIsTyped DEF NextUrc
  <2>2. Head(urcs).hdl \in Dev /\ Head(urcs).id \in DevId
    BY <2>1 DEF Urc
  <2>3. RilTypeOK'
    BY <2>2, WritesKeepTable DEF RilTypeOK
  <2>4. UrcTypeOK'
    BY <2>1, <2>2 DEF UrcTypeOK, UrcState, Listed, Holds
  <2>5. ChannelTypeOK' /\ AppTypeOK' /\ ModuleTypeOK' /\ (doubt \subseteq Doubts)'
    BY DEF ChannelTypeOK, AppTypeOK, ModuleTypeOK, channel, module
  <2> QED BY <2>3, <2>4, <2>5
<1>3. CASE ScanCallbackReturns
  <2> USE <1>3 DEF ScanCallbackReturns
  <2>1. urc.hdl \in Handle /\ urc.id \in DevId \cup {0}
    BY DEF UrcTypeOK, UrcState, Handle
  <2>2. RilTypeOK'
    BY <2>1, AppendKeepsTable DEF RilTypeOK
  <2>3. UrcTypeOK'
    BY DEF UrcTypeOK, UrcState, NoUrc, Handle
  <2>4. ChannelTypeOK' /\ AppTypeOK' /\ ModuleTypeOK' /\ (doubt \subseteq Doubts)'
    BY DEF ChannelTypeOK, AppTypeOK, ModuleTypeOK, channel, module
  <2> QED BY <2>2, <2>3, <2>4
<1>4. ASSUME NEW type, QueryOnUrc(type)
      PROVE  TypeOK'
  <2> USE <1>4 DEF QueryOnUrc
  <2>1. Head(urcs) \in Urc /\ urcs' \in Seq(Urc)
    BY NextUrcIsTyped
  <2>2. UrcTypeOK'
    BY <2>1 DEF UrcTypeOK, UrcState, NoUrc, Urc, Handle, channel
  <2>3. ChannelTypeOK'
    BY SendQueryIsTyped DEF ChannelTypeOK, channel
  <2>4. RilTypeOK' /\ AppTypeOK' /\ ModuleTypeOK' /\ (doubt \subseteq Doubts)'
    BY DEF RilTypeOK, AppTypeOK, ModuleTypeOK, ril, module, Doubts
  <2> QED BY <2>2, <2>3, <2>4
<1>5. CASE OnURCHandler_BTPairCnf_Fail
  <2> USE <1>5 DEF OnURCHandler_BTPairCnf_Fail
  <2>1. RilTypeOK'
    BY WritesKeepTable DEF RilTypeOK
  <2>2. UrcTypeOK'
    BY NextUrcIsTyped DEF UrcTypeOK
  <2>3. ChannelTypeOK' /\ (doubt \subseteq Doubts)'
    BY DEF LosesId, ChannelTypeOK, Doubts
  <2>4. AppTypeOK' /\ ModuleTypeOK'
    BY DEF AppTypeOK, ModuleTypeOK, module
  <2> QED BY <2>1, <2>2, <2>3, <2>4
<1>6. CASE OnURCHandler_BTDisconn
  <2> USE <1>6 DEF OnURCHandler_BTDisconn
  <2>1. RilTypeOK'
    BY WritesKeepTable DEF RilTypeOK
  <2>2. UrcTypeOK'
    BY NextUrcIsTyped DEF UrcTypeOK
  <2>3. ChannelTypeOK' /\ (doubt \subseteq Doubts)'
    BY DEF LosesId, ChannelTypeOK, Doubts
  <2>4. AppTypeOK' /\ ModuleTypeOK'
    BY DEF AppTypeOK, ModuleTypeOK, module
  <2> QED BY <2>1, <2>2, <2>3, <2>4
<1> QED BY <1>1, <1>2, <1>3, <1>4, <1>5, <1>6
        DEF UrcStep, OnURCHandler_BTPairCnf_Success, OnURCHandler_BTConn_Success

(* A notification of a known kind keeps the queue typed.                   *)
LEMMA NotifyTypeOK ==
  ASSUME TypeOK, NEW type, NEW h, NEW id, Notify(type, h, id),
         [type |-> type, hdl |-> h, id |-> id] \in Urc
  PROVE  RilTypeOK' /\ ChannelTypeOK' /\ AppTypeOK' /\ UrcTypeOK' /\ (doubt \subseteq Doubts)'
<1>1. UrcTypeOK'
  BY DEF Notify, TypeOK, UrcTypeOK
<1> QED BY <1>1 DEF Notify, TypeOK, RilTypeOK, ChannelTypeOK, AppTypeOK, ril, channel

(* The module's own changes.                                               *)
LEMMA ModuleStepTypeOK ==
  ASSUME TypeOK, ModuleStep
  PROVE  TypeOK'
<1>0. /\ \A d \in Dev :
           /\ [type |-> "pairok", hdl |-> d, id |-> 0] \in Urc
           /\ [type |-> "pairfail", hdl |-> d, id |-> 0] \in Urc
           /\ [type |-> "connok", hdl |-> d, id |-> 0] \in Urc
           /\ \A i \in DevId : [type |-> "found", hdl |-> d, id |-> i] \in Urc
      /\ \A h \in Handle : [type |-> "disc", hdl |-> h, id |-> 0] \in Urc
  BY DEF Urc
<1>1. ASSUME NEW d \in Dev, Pairs(d)
      PROVE  TypeOK'
  <2>1. ModuleTypeOK'
    BY <1>1 DEF Pairs, ModuleTypeOK, TypeOK
  <2> QED BY <1>0, <1>1, <2>1, NotifyTypeOK DEF Pairs, TypeOK
<1>2. ASSUME NEW d \in Dev, PairingFails(d)
      PROVE  TypeOK'
  <2>1. ModuleTypeOK'
    BY <1>2 DEF PairingFails, ModuleTypeOK, TypeOK, module
  <2> QED BY <1>0, <1>2, <2>1, NotifyTypeOK DEF PairingFails, TypeOK
<1>3. ASSUME NEW d \in Dev, Connects(d)
      PROVE  TypeOK'
  <2>1. ModuleTypeOK'
    BY <1>3 DEF Connects, ModuleTypeOK, TypeOK
  <2> QED BY <1>0, <1>3, <2>1, NotifyTypeOK DEF Connects, TypeOK
<1>4. ASSUME NEW d \in Dev, Finds(d)
      PROVE  TypeOK'
  <2>1. PICK i \in DevId : scanned' = [scanned EXCEPT ![i] = d] /\ Notify("found", d, i)
    BY <1>4 DEF Finds
  <2>2. ModuleTypeOK'
    BY <1>4, <2>1 DEF Finds, ModuleTypeOK, TypeOK
  <2> QED BY <1>0, <2>1, <2>2, NotifyTypeOK DEF TypeOK
<1>5. ASSUME NEW c \in ConnId, Disconnects(c)
      PROVE  TypeOK'
  <2>1. ModuleTypeOK'
    BY <1>5 DEF Disconnects, ModuleTypeOK, TypeOK
  <2>2. conn[c] \in Handle
    BY <1>5 DEF Disconnects, TypeOK, ModuleTypeOK, Handle
  <2> QED BY <1>0, <1>5, <2>1, <2>2, NotifyTypeOK DEF Disconnects, TypeOK
<1>6. CASE ConnectingFails
  <2>1. ModuleTypeOK'
    BY <1>6 DEF ConnectingFails, ModuleTypeOK, TypeOK, module
  <2>2. EmptyHdl \in Handle
    BY DEF Handle
  <2> QED BY <1>0, <1>6, <2>1, <2>2, NotifyTypeOK DEF ConnectingFails, TypeOK
<1>7. CASE ScanEnds
  BY <1>7 DEF ScanEnds, TypeOK, RilTypeOK, ChannelTypeOK, AppTypeOK, UrcTypeOK,
              ModuleTypeOK, ril, channel
<1> QED BY <1>1, <1>2, <1>3, <1>4, <1>5, <1>6, <1>7 DEF ModuleStep

LEMMA StutterTypeOK ==
  ASSUME TypeOK, UNCHANGED vars
  PROVE  TypeOK'
BY DEF TypeOK, RilTypeOK, ChannelTypeOK, AppTypeOK, UrcTypeOK, ModuleTypeOK,
       vars, ril, channel, module

LEMMA TypeInductive ==
  ASSUME TypeOK, [Next]_vars
  PROVE  TypeOK'
BY QueryStepTypeOK, AppReturnsTypeOK, AppCallsTypeOK, UrcStepTypeOK,
   ModuleStepTypeOK, StutterTypeOK DEF Next

(* Whatever the application, the notifications and the module do, every    *)
(* variable keeps its type: the list holds only ids the module can have    *)
(* given out, or the marks for none.                                       *)
THEOREM TypeCorrect == Spec => []TypeOK
<1>1. TypeOK /\ [Next]_vars => TypeOK'
  BY TypeInductive
<1> QED BY <1>1, InitTypeOK, PTL DEF Spec

-----------------------------------------------------------------------------
(* The strengthenings the invariants below need. *)

(* The channel is the application's exactly while it waits for an answer,  *)
(* and only a query has something to deliver.                              *)
ChannelInv ==
  /\ at = "app" <=> app.pc \in {"initQuery", "query", "scanQuery", "scan",
                                "pair", "conn", "disc", "unpair"}
  /\ ~QueryInFlight => burst = NoBurst

(* The device a scan handler is about to append is not in the list.        *)
FoundIsUnlisted ==
  urc.pc = "found" /\ ~urc.known => "scanRace" \in doubt \/ ~Listed(m_arrBTDev, urc.hdl)

ListInv == Compact /\ OneRecordPerDevice /\ FoundIsUnlisted

(* is_first_prompt is FALSE exactly while a query is past its first line,  *)
(* unless one ended there.                                                 *)
PromptInv ==
  /\ ~is_first_prompt => "cutQuery" \in doubt \/ (QueryInFlight /\ ~burst.summary)
  /\ QueryInFlight /\ ~burst.summary => ~is_first_prompt
  /\ app.pc = "query" /\ ~burst.summary /\ app.status = "untouched" => "cutQuery" \in doubt
  /\ SummaryMisreadOnlyAfterCutQuery

-----------------------------------------------------------------------------
(* The channel. *)

LEMMA QueryTakesChannel ==
  ASSUME NEW pc \in {"initQuery", "scanQuery"}, CleanAndQuery(pc),
         app.pc = "idle", ChannelInv, ChannelTypeOK
  PROVE  ChannelInv'
<1>1. CASE at = "none"
  BY <1>1 DEF CleanAndQuery, SendQuery, Call, NoCall, ChannelInv, QueryInFlight
<1>2. CASE at # "none"
  <2>1. at' = at /\ app'.pc \in {"scanSend", "idle"} /\ burst' = [burst EXCEPT !.wiped = TRUE]
    BY <1>2 DEF CleanAndQuery, Call, NoCall
  <2>2. at = "urc"
    BY <1>2 DEF ChannelInv, ChannelTypeOK
  <2> QED BY <2>1, <2>2 DEF ChannelInv, QueryInFlight
<1> QED BY <1>1, <1>2

(* A step of the handler task or the module, or one that only fills in the *)
(* call's result, leaves the channel where it is.                          *)
LEMMA ChannelStays ==
  ASSUME ChannelInv, at' = at, app'.pc = app.pc, QueryInFlight \/ burst' = burst
  PROVE  ChannelInv'
BY DEF ChannelInv, QueryInFlight

LEMMA ChannelInductive ==
  ASSUME TypeOK, ChannelInv, [Next]_vars
  PROVE  ChannelInv'
<1>1. ASSUME NEW s \in {0, 1, 5}, ATRsp_QBTSTATE_Summary(s)
      PROVE  ChannelInv'
  <2>1. app'.pc = app.pc
    BY <1>1 DEF ATRsp_QBTSTATE_Summary, TypeOK, AppTypeOK, AppState
  <2> QED BY <1>1, <2>1, ChannelStays DEF ATRsp_QBTSTATE_Summary
<1>2. CASE ATRsp_QBTSTATE_Line
  BY <1>2, ChannelStays DEF ATRsp_QBTSTATE_Line
<1>3. ASSUME NEW result, Resume(result), QueryInFlight, at' = "none", burst' = NoBurst
      PROVE  ChannelInv'
  <2>1. app'.pc \in {"idle", "scanSend"} \/ (at = "urc" /\ app' = app)
    <3>1. NoCall.pc = "idle" /\ [app EXCEPT !.pc = "scanSend"].pc = "scanSend"
          /\ [NoCall EXCEPT !.ret = result, !.status = app.status].pc = "idle"
      BY DEF NoCall, TypeOK, AppTypeOK, AppState
    <3> QED BY <1>3, <3>1 DEF Resume
  <2> QED BY <1>3, <2>1 DEF ChannelInv, QueryInFlight
<1>4. CASE ATRsp_QBTSTATE_OK \/ QueryFails
  BY <1>3, <1>4 DEF ATRsp_QBTSTATE_OK, QueryFails
<1>5. CASE RIL_BT_Initialize \/ RIL_BT_StartScan
  BY <1>5, QueryTakesChannel DEF TypeOK, RIL_BT_Initialize, RIL_BT_StartScan
<1>6. CASE RIL_BT_QueryState
  BY <1>6 DEF RIL_BT_QueryState, SendQuery, Call, NoCall, ChannelInv, QueryInFlight
<1>7. ASSUME NEW h, NEW pc \in {"pair", "unpair", "conn", "disc"},
             NEW field, NEW wild, NEW valid, SendFor(h, pc, field, wild, valid)
      PROVE  ChannelInv'
  BY <1>7 DEF SendFor, Call, NoCall, ChannelInv, QueryInFlight
<1>8. ASSUME NEW h,
             \/ RIL_BT_PairReq(h) \/ RIL_BT_Unpair(h)
             \/ RIL_BT_ConnReq(h) \/ RIL_BT_Disconnect(h)
      PROVE  ChannelInv'
  BY <1>7, <1>8 DEF RIL_BT_PairReq, RIL_BT_Unpair, RIL_BT_ConnReq, RIL_BT_Disconnect
<1>9. CASE SendScan
  <2>1. at = "none" \/ at = "urc"
    BY <1>9 DEF SendScan, ChannelInv, TypeOK, ChannelTypeOK
  <2>2. CASE at = "none"
    <3>1. at' = "app" /\ app'.pc = "scan"
      BY <1>9, <2>2 DEF SendScan, Call, NoCall
    <3> QED BY <1>9, <2>2, <3>1 DEF SendScan, ChannelInv, QueryInFlight
  <2>3. CASE at = "urc"
    <3>1. at' = at /\ app'.pc = "idle"
      BY <1>9, <2>3 DEF SendScan, NoCall
    <3> QED BY <1>9, <2>3, <3>1 DEF SendScan, ChannelInv, QueryInFlight
  <2> QED BY <2>1, <2>2, <2>3
<1>10. CASE CommandOk
  <2>1. app.pc \in {"scan", "pair", "conn", "disc", "unpair"}
    BY <1>10 DEF CommandOk, ModuleExecutes
  <2>2. app'.pc \in {"idle", "unpaired"}
    BY <1>10 DEF CommandOk, NoCall, TypeOK, AppTypeOK, AppState
  <2> QED BY <1>10, <2>1, <2>2 DEF CommandOk, ChannelInv, QueryInFlight
<1>11. CASE CommandFails
  BY <1>11 DEF CommandFails, NoCall, ChannelInv, QueryInFlight
<1>12. CASE UnpairReturns
  BY <1>12 DEF UnpairReturns, LosesId, NoCall, ChannelInv, QueryInFlight
<1>13. CASE UrcStep
  <2>1. ASSUME NEW type, QueryOnUrc(type)
        PROVE  ChannelInv'
    BY <2>1 DEF QueryOnUrc, SendQuery, ChannelInv, QueryInFlight, channel
  <2>2. CASE UrcIgnored \/ OnURCHandler_BTScan \/ ScanCallbackReturns
    BY <2>2, ChannelStays DEF UrcIgnored, OnURCHandler_BTScan, ScanCallbackReturns, channel
  <2>3. CASE OnURCHandler_BTPairCnf_Fail \/ OnURCHandler_BTDisconn
    BY <2>3, ChannelStays DEF OnURCHandler_BTPairCnf_Fail, OnURCHandler_BTDisconn, LosesId
  <2> QED BY <1>13, <2>1, <2>2, <2>3
          DEF UrcStep, OnURCHandler_BTPairCnf_Success, OnURCHandler_BTConn_Success
<1>14. CASE ModuleStep
  BY <1>14, ChannelStays DEF ModuleStep, Pairs, PairingFails, Connects, Finds, Disconnects,
     ConnectingFails, ScanEnds, Notify, channel
<1>15. CASE UNCHANGED vars
  BY <1>15, ChannelStays DEF vars, channel
<1> QED BY <1>1, <1>2, <1>4, <1>5, <1>6, <1>8, <1>9, <1>10, <1>11, <1>12, <1>13,
           <1>14, <1>15 DEF Next, QueryStep, AppReturns, AppCalls

-----------------------------------------------------------------------------
(* The shape of the list. *)

(* s has a record for the same device in the same slots as t.              *)
SameRecords(s, t) ==
  \A i \in Slot :
    /\ s[i] = NULL <=> t[i] = NULL
    /\ t[i] # NULL => s[i].devHdl = t[i].devHdl

LEMMA WritesKeepRecords ==
  ASSUME NEW t \in Table, NEW h
  PROVE  /\ \A id \in PairId \cup {-1} : SameRecords(SetPairId(t, h, id), t)
         /\ \A id \in ConnId \cup {-1} : SameRecords(SetConnId(t, h, id), t)
         /\ \A id \in DevId \cup {0} : SameRecords(SetDevId(t, h, id), t)
<1>1. \A r \in DevInfo : r # NULL
  BY NullIsNothingElse
<1>2. \A i \in Slot : t[i] # NULL => t[i] \in DevInfo
  BY DEF Table
<1>3. \A id \in PairId \cup {-1} : SameRecords(SetPairId(t, h, id), t)
  <2> SUFFICES ASSUME NEW id \in PairId \cup {-1}, NEW i \in Slot, t[i] # NULL
               PROVE  [t[i] EXCEPT !.pairId = id] \in DevInfo
                      /\ [t[i] EXCEPT !.pairId = id].devHdl = t[i].devHdl
    BY <1>1 DEF SameRecords, SetPairId, IsFirst, Holds
  <2> QED BY <1>2 DEF DevInfo
<1>4. \A id \in ConnId \cup {-1} : SameRecords(SetConnId(t, h, id), t)
  <2> SUFFICES ASSUME NEW id \in ConnId \cup {-1}, NEW i \in Slot, t[i] # NULL
               PROVE  [t[i] EXCEPT !.connId = id] \in DevInfo
                      /\ [t[i] EXCEPT !.connId = id].devHdl = t[i].devHdl
    BY <1>1 DEF SameRecords, SetConnId, IsFirst, Holds
  <2> QED BY <1>2 DEF DevInfo
<1>5. \A id \in DevId \cup {0} : SameRecords(SetDevId(t, h, id), t)
  <2> SUFFICES ASSUME NEW id \in DevId \cup {0}, NEW i \in Slot, t[i] # NULL
               PROVE  [t[i] EXCEPT !.devId = id] \in DevInfo
                      /\ [t[i] EXCEPT !.devId = id].devHdl = t[i].devHdl
    BY <1>1 DEF SameRecords, SetDevId, IsFirst, Holds
  <2> QED BY <1>2 DEF DevInfo
<1> QED BY <1>3, <1>4, <1>5

LEMMA SameRecordsSameDevices ==
  ASSUME NEW s, NEW t, SameRecords(s, t)
  PROVE  \A h : Listed(s, h) <=> Listed(t, h)
<1>1. \A h : \A i \in Slot : Holds(s, i, h) <=> Holds(t, i, h)
  BY DEF SameRecords, Holds
<1> QED BY <1>1 DEF Listed

(* The state predicates above, of any table.                               *)
IsCompact(t) == \A i, j \in Slot : i < j /\ t[j] # NULL => t[i] # NULL

NoDuplicate(t) ==
  \A i, j \in Slot : t[i] # NULL /\ t[j] # NULL /\ t[i].devHdl = t[j].devHdl => i = j

LEMMA SameRecordsSameShape ==
  ASSUME NEW s, NEW t, SameRecords(s, t)
  PROVE  /\ IsCompact(t) => IsCompact(s)
         /\ NoDuplicate(t) => NoDuplicate(s)
<1>1. \A i \in Slot : s[i] = NULL <=> t[i] = NULL
  BY DEF SameRecords
<1>2. \A i \in Slot : t[i] # NULL => s[i].devHdl = t[i].devHdl
  BY DEF SameRecords
<1>3. IsCompact(t) => IsCompact(s)
  BY <1>1 DEF IsCompact
<1>4. NoDuplicate(t) => NoDuplicate(s)
  BY <1>1, <1>2 DEF NoDuplicate
<1> QED BY <1>3, <1>4

(* Appending fills the first free slot: no gap, and no second record if    *)
(* the device had none.                                                    *)
LEMMA AppendKeepsShape ==
  ASSUME NEW t \in Table, NEW r \in DevInfo
  PROVE  /\ IsCompact(t) => IsCompact(BT_DevMngmt_Append(t, r))
         /\ NoDuplicate(t) /\ ~Listed(t, r.devHdl) => NoDuplicate(BT_DevMngmt_Append(t, r))
         /\ \A h : Listed(BT_DevMngmt_Append(t, r), h) => h = r.devHdl \/ Listed(t, h)
<1> DEFINE s == BT_DevMngmt_Append(t, r)
           New(i) == t[i] = NULL /\ \A j \in Slot : j < i => t[j] # NULL
<1>0. r # NULL
  BY NullIsNothingElse
<1>1. \A i \in Slot : s[i] = IF New(i) THEN r ELSE t[i]
  BY DEF BT_DevMngmt_Append
<1>2. \A i, j \in Slot : New(i) /\ New(j) => i = j
  BY DEF Slot
<1> HIDE DEF s, New
<1>3. IsCompact(t) => IsCompact(s)
  BY <1>0, <1>1 DEF IsCompact, New
<1>4. NoDuplicate(t) /\ ~Listed(t, r.devHdl) => NoDuplicate(s)
  BY <1>1, <1>2 DEF NoDuplicate, Listed, Holds
<1>5. \A h : Listed(s, h) => h = r.devHdl \/ Listed(t, h)
  BY <1>1 DEF Listed, Holds
<1> QED BY <1>3, <1>4, <1>5 DEF s

LEMMA NewRecordIsTyped ==
  ASSUME NEW h \in Handle, NEW id \in DevId \cup {0}
  PROVE  /\ NewRecord(h) \in DevInfo /\ NewRecord(h).devHdl = h
         /\ [NewRecord(h) EXCEPT !.devId = id] \in DevInfo
         /\ [NewRecord(h) EXCEPT !.devId = id].devHdl = h
BY DEF NewRecord, DevInfo

LEMMA EnsureListedKeepsShape ==
  ASSUME NEW t \in Table, NEW h \in Handle
  PROVE  /\ IsCompact(t) => IsCompact(EnsureListed(t, h))
         /\ NoDuplicate(t) => NoDuplicate(EnsureListed(t, h))
         /\ \A g : Listed(EnsureListed(t, h), g) => g = h \/ Listed(t, g)
         /\ Listed(t, h) => EnsureListed(t, h) = t
BY AppendKeepsShape, NewRecordIsTyped DEF EnsureListed

(* What the lines of a query's response do to the list.                    *)
LEMMA LineKeepsShape ==
  ASSUME NEW t \in Table, NEW l \in Line
  PROVE  SameRecords(TakeLine(t, l), EnsureListed(t, l.hdl)) /\ l.hdl \in Handle
<1>1. l.hdl \in Handle
  BY DEF Line, Handle
<1>2. EnsureListed(t, l.hdl) \in Table
  BY <1>1, AppendKeepsTable
<1>3. (l.kind = "paired" => l.id \in PairId) /\ (l.kind # "paired" => l.id \in ConnId)
  BY DEF Line
<1> QED BY <1>1, <1>2, <1>3, WritesKeepRecords DEF TakeLine

LEMMA SummaryKeepsShape ==
  ASSUME TypeOK, NEW s, ATRsp_QBTSTATE_Summary(s)
  PROVE  \/ m_arrBTDev' = m_arrBTDev
         \/ ~is_first_prompt /\ SameRecords(m_arrBTDev', EnsureListed(m_arrBTDev, EmptyHdl))
<1>1. EnsureListed(m_arrBTDev, EmptyHdl) \in Table
  BY AppendKeepsTable DEF Handle, TypeOK, RilTypeOK
<1> QED BY <1>1, WritesKeepRecords DEF ATRsp_QBTSTATE_Summary

-----------------------------------------------------------------------------
(* The list has no gap and no device twice. *)

LEMMA ListInvOfShape ==
  ListInv <=> /\ IsCompact(m_arrBTDev)
              /\ "scanRace" \in doubt \/ NoDuplicate(m_arrBTDev)
              /\ FoundIsUnlisted
BY DEF ListInv, Compact, IsCompact, OneRecordPerDevice, NoDuplicate

LEMMA ListInvOfNextShape ==
  ListInv' <=> /\ IsCompact(m_arrBTDev')
               /\ "scanRace" \in doubt' \/ NoDuplicate(m_arrBTDev')
               /\ FoundIsUnlisted'
BY DEF ListInv, Compact, IsCompact, OneRecordPerDevice, NoDuplicate

LEMMA CleanIsWellShaped ==
  ASSUME m_arrBTDev' = BT_DevMngmt_Clean
  PROVE  ListInv'
<1>1. \A i \in Slot : m_arrBTDev'[i] = NULL
  BY DEF BT_DevMngmt_Clean
<1> QED BY <1>1 DEF ListInv, Compact, OneRecordPerDevice, FoundIsUnlisted, Listed, Holds

(* A step that changes at most fields of records, and starts no handler.   *)
LEMMA SameRecordsKeepListInv ==
  ASSUME ListInv, SameRecords(m_arrBTDev', m_arrBTDev),
         urc' = urc \/ urc' = NoUrc \/ urc'.pc = "query",
         "scanRace" \in doubt => "scanRace" \in doubt'
  PROVE  ListInv'
<1>1. FoundIsUnlisted'
  <2>1. \A h : Listed(m_arrBTDev', h) <=> Listed(m_arrBTDev, h)
    BY SameRecordsSameDevices
  <2> QED BY <2>1 DEF ListInv, FoundIsUnlisted, NoUrc
<1> QED BY <1>1, SameRecordsSameShape, ListInvOfShape, ListInvOfNextShape

LEMMA UnchangedListKeepsListInv ==
  ASSUME ListInv, m_arrBTDev' = m_arrBTDev,
         urc' = urc \/ urc' = NoUrc \/ urc'.pc = "query",
         "scanRace" \in doubt => "scanRace" \in doubt'
  PROVE  ListInv'
<1>1. SameRecords(m_arrBTDev', m_arrBTDev)
  BY DEF SameRecords
<1> QED BY <1>1, SameRecordsKeepListInv

(* A line of a query's response for the device h.                          *)
LEMMA QueryLineKeepsListInv ==
  ASSUME TypeOK, ListInv, NEW h \in Handle,
         SameRecords(m_arrBTDev', EnsureListed(m_arrBTDev, h)),
         urc' = urc, "scanRace" \in doubt => "scanRace" \in doubt',
         urc.pc = "found" /\ ~urc.known /\ urc.hdl = h /\ ~Listed(m_arrBTDev, h)
           => "scanRace" \in doubt'
  PROVE  ListInv'
<1> DEFINE t == EnsureListed(m_arrBTDev, h)
<1>0. m_arrBTDev \in Table
  BY DEF TypeOK, RilTypeOK
<1>1. /\ IsCompact(m_arrBTDev) => IsCompact(t)
      /\ NoDuplicate(m_arrBTDev) => NoDuplicate(t)
      /\ \A g : Listed(t, g) => g = h \/ Listed(m_arrBTDev, g)
  BY <1>0, EnsureListedKeepsShape
<1> HIDE DEF t
<1>2. SameRecords(m_arrBTDev', t)
  BY DEF t
<1>3. FoundIsUnlisted'
  <2>1. \A g : Listed(m_arrBTDev', g) => g = h \/ Listed(m_arrBTDev, g)
    BY <1>1, <1>2, SameRecordsSameDevices
  <2> QED BY <2>1 DEF ListInv, FoundIsUnlisted
<1>4. IsCompact(m_arrBTDev') /\ (NoDuplicate(m_arrBTDev) => NoDuplicate(m_arrBTDev'))
  BY <1>1, <1>2, SameRecordsSameShape, ListInvOfShape
<1> QED BY <1>3, <1>4, ListInvOfShape, ListInvOfNextShape

LEMMA ListInductive ==
  ASSUME TypeOK, ListInv, [Next]_vars
  PROVE  ListInv'
<1>0. m_arrBTDev \in Table
  BY DEF TypeOK, RilTypeOK
<1>1. ASSUME NEW s \in {0, 1, 5}, ATRsp_QBTSTATE_Summary(s)
      PROVE  ListInv'
  <2>1. EmptyHdl \in Handle /\ (urc.pc = "found" => urc.hdl # EmptyHdl)
    BY EmptyIsNoDevice DEF TypeOK, UrcTypeOK, UrcState, Handle
  <2>2. urc' = urc /\ doubt' = doubt
    BY <1>1 DEF ATRsp_QBTSTATE_Summary
  <2> QED BY <1>1, <2>1, <2>2, SummaryKeepsShape, UnchangedListKeepsListInv,
             QueryLineKeepsListInv
<1>2. CASE ATRsp_QBTSTATE_Line
  <2>1. PICK l \in burst.todo :
          /\ m_arrBTDev' = TakeLine(m_arrBTDev, l)
          /\ doubt' = IF /\ urc.pc = "found" /\ ~urc.known /\ urc.hdl = l.hdl
                         /\ ~Listed(m_arrBTDev, l.hdl)
                      THEN doubt \cup {"scanRace"} ELSE doubt
    BY <1>2 DEF ATRsp_QBTSTATE_Line
  <2>2. l \in Line
    BY DEF TypeOK, ChannelTypeOK
  <2>3. SameRecords(m_arrBTDev', EnsureListed(m_arrBTDev, l.hdl)) /\ l.hdl \in Handle
    BY <1>0, <2>1, <2>2, LineKeepsShape
  <2>4. urc' = urc
    BY <1>2 DEF ATRsp_QBTSTATE_Line
  <2> QED BY <2>1, <2>3, <2>4, QueryLineKeepsListInv
<1>3. CASE ATRsp_QBTSTATE_OK \/ QueryFails
  <2>1. m_arrBTDev' = m_arrBTDev /\ ("scanRace" \in doubt => "scanRace" \in doubt')
    BY <1>3 DEF ATRsp_QBTSTATE_OK, QueryFails, ril
  <2>2. urc' = urc \/ urc' = NoUrc
    <3>1. \A result : Resume(result) => urc' = urc \/ urc' = NoUrc
      BY DEF Resume
    <3> QED BY <1>3, <3>1 DEF ATRsp_QBTSTATE_OK, QueryFails
  <2> QED BY <2>1, <2>2, UnchangedListKeepsListInv
<1>4. CASE RIL_BT_Initialize \/ RIL_BT_StartScan
  BY <1>4, CleanIsWellShaped DEF RIL_BT_Initialize, RIL_BT_StartScan, CleanAndQuery
<1>5. CASE RIL_BT_QueryState \/ SendScan \/ CommandOk \/ CommandFails
  BY <1>5, UnchangedListKeepsListInv
     DEF RIL_BT_QueryState, SendScan, CommandOk, CommandFails, ril
<1>6. ASSUME NEW h, NEW pc, NEW field, NEW wild, NEW valid,
             SendFor(h, pc, field, wild, valid)
      PROVE  ListInv'
  BY <1>6, UnchangedListKeepsListInv DEF SendFor, ril
<1>7. ASSUME NEW h,
             \/ RIL_BT_PairReq(h) \/ RIL_BT_Unpair(h)
             \/ RIL_BT_ConnReq(h) \/ RIL_BT_Disconnect(h)
      PROVE  ListInv'
  BY <1>6, <1>7 DEF RIL_BT_PairReq, RIL_BT_Unpair, RIL_BT_ConnReq, RIL_BT_Disconnect
<1>8. CASE UnpairReturns
  <2> DEFINE t == SetPairId(m_arrBTDev, app.hdl, -1)
  <2>1. t \in Table /\ SameRecords(t, m_arrBTDev)
    BY <1>0, WritesKeepTable, WritesKeepRecords
  <2> HIDE DEF t
  <2>2. m_arrBTDev' = SetConnId(t, app.hdl, -1)
    BY <1>8 DEF UnpairReturns, Unpaired, t
  <2>3. SameRecords(m_arrBTDev', t)
    BY <2>1, <2>2, WritesKeepRecords
  <2>4. SameRecords(m_arrBTDev', m_arrBTDev)
    BY <2>1, <2>3 DEF SameRecords
  <2> QED BY <1>8, <2>4, SameRecordsKeepListInv DEF UnpairReturns, LosesId
<1>9. CASE OnURCHandler_BTScan
  <2>1. PICK h \in Dev, id \in DevId :
          /\ m_arrBTDev' = SetDevId(m_arrBTDev, h, id)
          /\ urc'.hdl = h /\ urc'.known = Listed(m_arrBTDev, h)
    <3>1. Head(urcs) \in Urc /\ Head(urcs).type = "found"
      BY <1>9, NextUrcIsTyped DEF TypeOK, OnURCHandler_BTScan, NextUrc
    <3>2. Head(urcs).hdl \in Dev /\ Head(urcs).id \in DevId
      BY <3>1 DEF Urc
    <3> QED BY <1>9, <3>2 DEF OnURCHandler_BTScan
  <2>2. SameRecords(m_arrBTDev', m_arrBTDev)
    BY <1>0, <2>1, WritesKeepRecords
  <2>3. FoundIsUnlisted'
    BY <2>1, <2>2, SameRecordsSameDevices DEF FoundIsUnlisted
  <2> QED BY <1>9, <2>2, <2>3, SameRecordsSameShape, ListInvOfShape, ListInvOfNextShape
          DEF OnURCHandler_BTScan
<1>10. CASE ScanCallbackReturns
  <2> DEFINE r == [NewRecord(urc.hdl) EXCEPT !.devId = urc.id]
  <2>1. r \in DevInfo /\ r.devHdl = urc.hdl
    BY <1>10, NewRecordIsTyped
       DEF ScanCallbackReturns, TypeOK, UrcTypeOK, UrcState, Handle
  <2>2. urc' = NoUrc /\ doubt' = doubt
    BY <1>10 DEF ScanCallbackReturns
  <2>3. CASE m_arrBTDev' = m_arrBTDev
    BY <2>2, <2>3, UnchangedListKeepsListInv
  <2>4. CASE ~urc.known /\ m_arrBTDev' = BT_DevMngmt_Append(m_arrBTDev, r)
    <3> HIDE DEF r
    <3>1. "scanRace" \in doubt \/ ~Listed(m_arrBTDev, r.devHdl)
      BY <1>10, <2>1, <2>4 DEF ScanCallbackReturns, ListInv, FoundIsUnlisted
    <3>2. IsCompact(m_arrBTDev') /\ ("scanRace" \in doubt \/ NoDuplicate(m_arrBTDev'))
      BY <1>0, <2>1, <2>4, <3>1, AppendKeepsShape, ListInvOfShape
    <3>3. FoundIsUnlisted'
      BY <2>2 DEF FoundIsUnlisted, NoUrc
    <3> QED BY <2>2, <3>2, <3>3, ListInvOfNextShape
  <2> QED BY <1>10, <2>3, <2>4 DEF ScanCallbackReturns
<1>11. ASSUME NEW type, QueryOnUrc(type)
       PROVE  ListInv'
  BY <1>11, UnchangedListKeepsListInv DEF QueryOnUrc, ril, NoUrc
<1>12. CASE OnURCHandler_BTPairCnf_Fail
  <2>1. SameRecords(m_arrBTDev', m_arrBTDev)
    BY <1>0, <1>12, WritesKeepRecords DEF OnURCHandler_BTPairCnf_Fail
  <2> QED BY <1>12, <2>1, SameRecordsKeepListInv DEF OnURCHandler_BTPairCnf_Fail, LosesId
<1>13. CASE OnURCHandler_BTDisconn
  <2>1. SameRecords(m_arrBTDev', m_arrBTDev)
    BY <1>0, <1>13, WritesKeepRecords DEF OnURCHandler_BTDisconn
  <2> QED BY <1>13, <2>1, SameRecordsKeepListInv DEF OnURCHandler_BTDisconn, LosesId
<1>14. CASE UrcIgnored
  BY <1>14, UnchangedListKeepsListInv DEF UrcIgnored, ril
<1>15. CASE ModuleStep
  BY <1>15, UnchangedListKeepsListInv DEF ModuleStep, Pairs, PairingFails, Connects, Finds,
     Disconnects, ConnectingFails, ScanEnds, Notify, ril
<1>16. CASE UNCHANGED vars
  BY <1>16, UnchangedListKeepsListInv DEF vars, ril
<1> QED BY <1>1, <1>2, <1>3, <1>4, <1>5, <1>7, <1>8, <1>9, <1>10, <1>11, <1>12, <1>13,
           <1>14, <1>15, <1>16
        DEF Next, QueryStep, AppReturns, AppCalls, UrcStep,
            OnURCHandler_BTPairCnf_Success, OnURCHandler_BTConn_Success

LEMMA InitListInv == Init => ListInv
<1> SUFFICES ASSUME Init PROVE ListInv
  OBVIOUS
<1>1. \A i \in Slot : m_arrBTDev[i] = NULL
  BY DEF Init, BT_DevMngmt_Clean
<1> QED BY <1>1 DEF ListInv, Compact, OneRecordPerDevice, FoundIsUnlisted, Listed, Holds

(* The records fill the list without a gap, so a lookup of a listed device *)
(* never passes a free slot.                                               *)
THEOREM ListIsCompact == Spec => []Compact
<1>1. TypeOK /\ ListInv /\ [Next]_vars => TypeOK' /\ ListInv'
  BY TypeInductive, ListInductive
<1>2. ListInv => Compact
  BY DEF ListInv
<1> QED BY <1>1, <1>2, InitTypeOK, InitListInv, PTL DEF Spec

(* A device has one record, unless a query listed it while the callback of *)
(* the scan handler that was about to append it was running.               *)
THEOREM DevicesAreListedOnce == Spec => []OneRecordPerDevice
<1>1. TypeOK /\ ListInv /\ [Next]_vars => TypeOK' /\ ListInv'
  BY TypeInductive, ListInductive
<1>2. ListInv => OneRecordPerDevice
  BY DEF ListInv
<1> QED BY <1>1, <1>2, InitTypeOK, InitListInv, PTL DEF Spec

-----------------------------------------------------------------------------
(* The first line of a response is taken for a device only after a cut. *)

(* A step that neither starts nor ends a query.                            *)
LEMMA PromptStays ==
  ASSUME PromptInv, is_first_prompt' = is_first_prompt,
         "cutQuery" \in doubt => "cutQuery" \in doubt',
         QueryInFlight' <=> QueryInFlight, burst'.summary = burst.summary,
         app' = app \/ (app'.ret = "none" /\ app'.pc # "query"),
         Listed(m_arrBTDev', EmptyHdl) => Listed(m_arrBTDev, EmptyHdl)
  PROVE  PromptInv'
BY DEF PromptInv, SummaryMisreadOnlyAfterCutQuery

LEMMA PromptOnQuerySent ==
  ASSUME PromptInv, at = "none", NEW owner \in {"app", "urc"}, SendQuery(owner),
         is_first_prompt' = is_first_prompt, app' = app \/ app'.ret = "none",
         "cutQuery" \in doubt => "cutQuery" \in doubt' \/ is_first_prompt,
         Listed(m_arrBTDev', EmptyHdl) \/ app' = app
           => m_arrBTDev' = m_arrBTDev /\ doubt' = doubt
  PROVE  PromptInv'
BY DEF PromptInv, SummaryMisreadOnlyAfterCutQuery, SendQuery, QueryInFlight

LEMMA NothingListedAfterClean ==
  ASSUME NEW h
  PROVE  ~Listed(BT_DevMngmt_Clean, h)
BY DEF BT_DevMngmt_Clean, Listed, Holds

LEMMA PromptOnClean ==
  ASSUME TypeOK, ChannelInv, PromptInv, app.pc = "idle", is_first_prompt' = is_first_prompt,
         NEW pc \in {"initQuery", "scanQuery"}, CleanAndQuery(pc),
         DoubtAfterClean \subseteq doubt'
  PROVE  PromptInv'
<1>1. ~Listed(m_arrBTDev', EmptyHdl)
  BY NothingListedAfterClean DEF CleanAndQuery
<1>2. "cutQuery" \in doubt /\ ~is_first_prompt => "cutQuery" \in doubt'
  BY DEF DoubtAfterClean
<1>3. CASE at = "none"
  <2>1. SendQuery("app") /\ app'.ret = "none" /\ app'.pc = pc
    BY <1>3 DEF CleanAndQuery, Call, NoCall
  <2> QED BY <1>1, <1>2, <1>3, <2>1
          DEF PromptInv, SummaryMisreadOnlyAfterCutQuery, SendQuery, QueryInFlight
<1>4. CASE at = "urc"
  <2>1. at' = at /\ burst'.summary = burst.summary /\ app'.ret = "none"
        /\ app'.pc \in {"idle", "scanSend"}
    BY <1>4 DEF CleanAndQuery, Call, NoCall, TypeOK, ChannelTypeOK
  <2> QED BY <1>1, <1>2, <1>4, <2>1
          DEF PromptInv, SummaryMisreadOnlyAfterCutQuery, QueryInFlight
<1> QED BY <1>3, <1>4 DEF TypeOK, ChannelTypeOK, ChannelInv

LEMMA PromptOnResume ==
  ASSUME TypeOK, ChannelInv, PromptInv, QueryInFlight, at' = "none", burst' = NoBurst,
         NEW result \in {"ok", "fail"}, Resume(result), m_arrBTDev' = m_arrBTDev,
         "cutQuery" \in doubt => "cutQuery" \in doubt',
         is_first_prompt' \/ "cutQuery" \in doubt',
         result = "ok" => ~burst.summary
  PROVE  PromptInv'
<1>1. ~QueryInFlight'
  BY DEF QueryInFlight
<1>2. CASE at = "urc"
  <2>1. app' = app /\ app.pc # "query"
    BY <1>2 DEF Resume, ChannelInv
  <2> QED BY <1>1, <2>1 DEF PromptInv, SummaryMisreadOnlyAfterCutQuery
<1>3. CASE at = "app" /\ app.pc \in {"scanQuery", "initQuery"}
  <2>1. [app EXCEPT !.pc = "scanSend"].pc = "scanSend" /\ NoCall.pc = "idle"
        /\ NoCall.ret = "none"
    BY DEF NoCall, TypeOK, AppTypeOK, AppState
  <2>2. app'.pc = "scanSend" \/ (app'.pc = "idle" /\ app'.ret = "none")
    BY <1>3, <2>1 DEF Resume
  <2> QED BY <1>1, <2>2 DEF PromptInv, SummaryMisreadOnlyAfterCutQuery
<1>4. CASE at = "app" /\ app.pc = "query"
  <2>1. app' = [NoCall EXCEPT !.ret = result, !.status = app.status]
    BY <1>4 DEF Resume
  <2>2. app'.pc = "idle" /\ app'.ret = result /\ app'.status = app.status
    BY <2>1 DEF NoCall
  <2> QED BY <1>1, <1>4, <2>2 DEF PromptInv, SummaryMisreadOnlyAfterCutQuery
<1> QED BY <1>2, <1>3, <1>4 DEF QueryInFlight

LEMMA WritesListNobody ==
  ASSUME TypeOK, NEW h
  PROVE  \A g :
           \/ Listed(SetPairId(m_arrBTDev, h, -1), g)
           \/ Listed(SetConnId(m_arrBTDev, h, -1), g)
           \/ Listed(Unpaired, g)
           => Listed(m_arrBTDev, g)
<1>1. m_arrBTDev \in Table
  BY DEF TypeOK, RilTypeOK
<1>2. SetPairId(m_arrBTDev, app.hdl, -1) \in Table
  BY <1>1, WritesKeepTable
<1> QED BY <1>1, <1>2, WritesKeepRecords, SameRecordsSameDevices DEF Unpaired

LEMMA PromptInductive ==
  ASSUME TypeOK, ChannelInv, PromptInv, [Next]_vars
  PROVE  PromptInv'
<1>0. m_arrBTDev \in Table
  BY DEF TypeOK, RilTypeOK
<1>1. ASSUME NEW s \in {0, 1, 5}, ATRsp_QBTSTATE_Summary(s)
      PROVE  PromptInv'
  <2>1. /\ QueryInFlight /\ burst.summary /\ ~burst'.summary /\ ~is_first_prompt'
        /\ at' = at /\ doubt' = doubt
    BY <1>1 DEF ATRsp_QBTSTATE_Summary, TypeOK, ChannelTypeOK
  <2>2. app' = IF is_first_prompt /\ at = "app" /\ app.pc = "query"
               THEN [app EXCEPT !.status = "written"] ELSE app
    BY <1>1 DEF ATRsp_QBTSTATE_Summary
  <2>3. app'.pc = app.pc
    BY <2>2 DEF TypeOK, AppTypeOK, AppState
  <2>4. QueryInFlight'
    BY <2>1, <2>3 DEF QueryInFlight
  <2>5. ~is_first_prompt => "cutQuery" \in doubt
    BY <2>1 DEF PromptInv
  <2>6. app'.pc = "query" /\ app'.status = "untouched" => ~is_first_prompt
    BY <2>2, <2>3 DEF ChannelInv, TypeOK, AppTypeOK, AppState
  <2>7. Listed(m_arrBTDev', EmptyHdl) => Listed(m_arrBTDev, EmptyHdl) \/ ~is_first_prompt
    BY <1>1, SummaryKeepsShape
  <2>8. app.pc = "idle" => app' = app
    BY <2>2
  <2> QED BY <2>1, <2>3, <2>4, <2>5, <2>6, <2>7, <2>8
          DEF PromptInv, SummaryMisreadOnlyAfterCutQuery
<1>2. CASE ATRsp_QBTSTATE_Line
  <2>1. PICK l \in burst.todo : m_arrBTDev' = TakeLine(m_arrBTDev, l)
    BY <1>2 DEF ATRsp_QBTSTATE_Line
  <2>2. l \in Line /\ l.hdl # EmptyHdl
    BY EmptyIsNoDevice DEF TypeOK, ChannelTypeOK, Line
  <2>3. \A h : Listed(m_arrBTDev', h) => h = l.hdl \/ Listed(m_arrBTDev, h)
    BY <1>0, <2>1, <2>2, LineKeepsShape, SameRecordsSameDevices, EnsureListedKeepsShape
  <2>4. burst'.summary = burst.summary
    BY <1>2 DEF ATRsp_QBTSTATE_Line, TypeOK, ChannelTypeOK
  <2>5. QueryInFlight' <=> QueryInFlight
    BY <1>2 DEF ATRsp_QBTSTATE_Line, QueryInFlight
  <2> QED BY <1>2, <2>2, <2>3, <2>4, <2>5, PromptStays DEF ATRsp_QBTSTATE_Line
<1>3. CASE ATRsp_QBTSTATE_OK
  BY <1>3, PromptOnResume DEF ATRsp_QBTSTATE_OK, PromptReset
<1>4. CASE QueryFails
  <2>1. is_first_prompt' \/ "cutQuery" \in doubt'
    BY <1>4 DEF QueryFails, ril, PromptInv, TypeOK, RilTypeOK
  <2> QED BY <1>4, <2>1, PromptOnResume DEF QueryFails, ril
<1>5. CASE RIL_BT_Initialize \/ RIL_BT_StartScan
  BY <1>5, PromptOnClean DEF RIL_BT_Initialize, RIL_BT_StartScan
<1>6. CASE RIL_BT_QueryState
  <2>1. at = "none" /\ app'.ret = "none" /\ app'.pc = "query"
    BY <1>6 DEF RIL_BT_QueryState, SendQuery, Call, NoCall
  <2> QED BY <1>6, <2>1, PromptOnQuerySent DEF RIL_BT_QueryState, ril
<1>7. ASSUME NEW h, NEW pc \in {"pair", "unpair", "conn", "disc"},
             NEW field, NEW wild, NEW valid, SendFor(h, pc, field, wild, valid)
      PROVE  PromptInv'
  <2>1. app'.ret = "none" /\ app'.pc = pc
    BY <1>7 DEF SendFor, Call, NoCall
  <2>2. QueryInFlight' <=> QueryInFlight
    BY <1>7, <2>1 DEF SendFor, QueryInFlight
  <2> QED BY <1>7, <2>1, <2>2, PromptStays DEF SendFor, ril
<1>8. ASSUME NEW h,
             \/ RIL_BT_PairReq(h) \/ RIL_BT_Unpair(h)
             \/ RIL_BT_ConnReq(h) \/ RIL_BT_Disconnect(h)
      PROVE  PromptInv'
  BY <1>7, <1>8 DEF RIL_BT_PairReq, RIL_BT_Unpair, RIL_BT_ConnReq, RIL_BT_Disconnect
<1>9. CASE SendScan
  <2>1. app'.ret = "none" /\ app'.pc \in {"scan", "idle"}
    <3>1. Call("scan", EmptyHdl, 0) => app'.ret = "none" /\ app'.pc = "scan"
      BY DEF Call, NoCall
    <3>2. NoCall.ret = "none" /\ NoCall.pc = "idle"
      BY DEF NoCall
    <3> QED BY <1>9, <3>1, <3>2 DEF SendScan
  <2>2. QueryInFlight' <=> QueryInFlight
    <3>1. at = "none" \/ at = "urc"
      BY <1>9 DEF SendScan, ChannelInv, TypeOK, ChannelTypeOK
    <3> QED BY <1>9, <2>1, <3>1 DEF SendScan, QueryInFlight
  <2> QED BY <1>9, <2>1, <2>2, PromptStays DEF SendScan, ril
<1>10. CASE CommandOk \/ CommandFails
  <2>1. at = "app" /\ at' = "none" /\ app.pc \in {"scan", "pair", "conn", "disc", "unpair"}
    BY <1>10 DEF CommandOk, CommandFails, ModuleExecutes
  <2>2. (app'.pc = "idle" /\ app'.ret = "none") \/ app'.pc = "unpaired"
    BY <1>10 DEF CommandOk, CommandFails, NoCall, TypeOK, AppTypeOK, AppState
  <2>3. ~QueryInFlight /\ ~QueryInFlight'
    BY <2>1 DEF QueryInFlight
  <2>4. /\ is_first_prompt' = is_first_prompt /\ burst' = burst /\ doubt \subseteq doubt'
        /\ m_arrBTDev' = m_arrBTDev
    BY <1>10 DEF CommandOk, CommandFails, ril
  <2> QED BY <2>2, <2>3, <2>4 DEF PromptInv, SummaryMisreadOnlyAfterCutQuery
<1>11. CASE UnpairReturns
  <2>1. app'.ret = "none" /\ app'.pc = "idle"
    BY <1>11 DEF UnpairReturns, NoCall
  <2>2. QueryInFlight' <=> QueryInFlight
    BY <1>11, <2>1 DEF UnpairReturns, QueryInFlight
  <2>3. burst'.summary = burst.summary
    BY <1>11 DEF UnpairReturns, LosesId, TypeOK, ChannelTypeOK
  <2>4. Listed(m_arrBTDev', EmptyHdl) => Listed(m_arrBTDev, EmptyHdl)
    BY <1>11, WritesListNobody DEF UnpairReturns
  <2> QED BY <1>11, <2>1, <2>2, <2>3, <2>4, PromptStays DEF UnpairReturns, LosesId
<1>12. CASE OnURCHandler_BTPairCnf_Fail \/ OnURCHandler_BTDisconn
  <2>1. QueryInFlight' <=> QueryInFlight
    BY <1>12 DEF OnURCHandler_BTPairCnf_Fail, OnURCHandler_BTDisconn, QueryInFlight
  <2>2. burst'.summary = burst.summary
    BY <1>12 DEF OnURCHandler_BTPairCnf_Fail, OnURCHandler_BTDisconn, LosesId,
                 TypeOK, ChannelTypeOK
  <2>3. Listed(m_arrBTDev', EmptyHdl) => Listed(m_arrBTDev, EmptyHdl)
    BY <1>12, WritesListNobody DEF OnURCHandler_BTPairCnf_Fail, OnURCHandler_BTDisconn
  <2> QED BY <1>12, <2>1, <2>2, <2>3, PromptStays
          DEF OnURCHandler_BTPairCnf_Fail, OnURCHandler_BTDisconn, LosesId
<1>13. CASE OnURCHandler_BTScan
  <2>1. QueryInFlight' <=> QueryInFlight
    BY <1>13 DEF OnURCHandler_BTScan, channel, QueryInFlight
  <2>2. Listed(m_arrBTDev', EmptyHdl) => Listed(m_arrBTDev, EmptyHdl)
    <3>1. Head(urcs) \in Urc /\ Head(urcs).type = "found"
      BY <1>13, NextUrcIsTyped DEF TypeOK, OnURCHandler_BTScan, NextUrc
    <3>2. Head(urcs).id \in DevId
      BY <3>1 DEF Urc
    <3>3. m_arrBTDev' = SetDevId(m_arrBTDev, Head(urcs).hdl, Head(urcs).id)
      BY <1>13 DEF OnURCHandler_BTScan
    <3>4. SameRecords(m_arrBTDev', m_arrBTDev)
      BY <1>0, <3>2, <3>3, WritesKeepRecords
    <3> QED BY <3>4, SameRecordsSameDevices
  <2> QED BY <1>13, <2>1, <2>2, PromptStays DEF OnURCHandler_BTScan, channel
<1>14. CASE ScanCallbackReturns
  <2>1. QueryInFlight' <=> QueryInFlight
    BY <1>14 DEF ScanCallbackReturns, channel, QueryInFlight
  <2>2. urc.hdl \in Dev /\ urc.id \in DevId
    BY <1>14 DEF ScanCallbackReturns, TypeOK, UrcTypeOK, UrcState
  <2> DEFINE r == [NewRecord(urc.hdl) EXCEPT !.devId = urc.id]
  <2>3. r \in DevInfo /\ r.devHdl = urc.hdl
    BY <2>2, NewRecordIsTyped DEF Handle
  <2>4. Listed(m_arrBTDev', EmptyHdl) => Listed(m_arrBTDev, EmptyHdl)
    <3>1. m_arrBTDev' = m_arrBTDev \/ m_arrBTDev' = BT_DevMngmt_Append(m_arrBTDev, r)
      BY <1>14 DEF ScanCallbackReturns
    <3> HIDE DEF r
    <3>2. Listed(BT_DevMngmt_Append(m_arrBTDev, r), EmptyHdl) => Listed(m_arrBTDev, EmptyHdl)
      BY <1>0, <2>2, <2>3, AppendKeepsShape, EmptyIsNoDevice
    <3> QED BY <3>1, <3>2
  <2> QED BY <1>14, <2>1, <2>4, PromptStays DEF ScanCallbackReturns, channel
<1>15. ASSUME NEW type, QueryOnUrc(type)
       PROVE  PromptInv'
  <2>1. CASE at = "none"
    BY <1>15, <2>1, PromptOnQuerySent DEF QueryOnUrc, ril
  <2>2. CASE at # "none"
    <3>1. QueryInFlight' <=> QueryInFlight
      BY <1>15, <2>2 DEF QueryOnUrc, channel, QueryInFlight
    <3> QED BY <1>15, <2>2, <3>1, PromptStays DEF QueryOnUrc, ril, channel
  <2> QED BY <2>1, <2>2
<1>16. CASE UrcIgnored \/ ModuleStep \/ UNCHANGED vars
  <2>1. UNCHANGED <<ril, channel, app, doubt>>
    BY <1>16 DEF UrcIgnored, ModuleStep, Pairs, PairingFails, Connects, Finds,
       Disconnects, ConnectingFails, ScanEnds, Notify, vars
  <2>2. QueryInFlight' <=> QueryInFlight
    BY <2>1 DEF channel, QueryInFlight
  <2> QED BY <2>1, <2>2, PromptStays DEF ril, channel
<1> QED BY <1>1, <1>2, <1>3, <1>4, <1>5, <1>6, <1>8, <1>9, <1>10, <1>11, <1>12, <1>13,
           <1>14, <1>15, <1>16
        DEF Next, QueryStep, AppReturns, AppCalls, UrcStep,
            OnURCHandler_BTPairCnf_Success, OnURCHandler_BTConn_Success

LEMMA InitChannelAndPrompt == Init => ChannelInv /\ PromptInv
<1> SUFFICES ASSUME Init PROVE ChannelInv /\ PromptInv
  OBVIOUS
<1>1. ChannelInv
  BY DEF Init, ChannelInv, QueryInFlight, NoCall
<1>2. PromptInv
  BY NothingListedAfterClean DEF Init, PromptInv, SummaryMisreadOnlyAfterCutQuery,
     QueryInFlight, NoCall
<1> QED BY <1>1, <1>2

(* A query lists a device without address, or succeeds with *status left   *)
(* alone, only if an earlier one ended between its first line and OK.      *)
THEOREM MisreadOnlyAfterCut == Spec => []SummaryMisreadOnlyAfterCutQuery
<1>1. TypeOK /\ ChannelInv /\ PromptInv /\ [Next]_vars
        => TypeOK' /\ ChannelInv' /\ PromptInv'
  BY TypeInductive, ChannelInductive, PromptInductive
<1>2. PromptInv => SummaryMisreadOnlyAfterCutQuery
  BY DEF PromptInv
<1> QED BY <1>1, <1>2, InitTypeOK, InitChannelAndPrompt, PTL DEF Spec
=============================================================================
