----------------------------- MODULE AtCommands -----------------------------
(***************************************************************************)
(* The blocking functions of the RIL at work on the one AT channel.        *)
(*                                                                         *)
(* A task calls a function; the function sends its commands one after      *)
(* another; the lines of each response go to the command's handler, one at *)
(* a time; a command that finds the channel taken is refused (RIL_AT_BUSY), *)
(* and one that is not answered ends with a timeout.  The functions and    *)
(* handlers are those of the modules extended here; what they share - the  *)
(* statics and globals of the C files - is the state below.                *)
(***************************************************************************)
EXTENDS NetCommands, DeviceCommands, FtpCommands, BtCommands, Naturals, FiniteSets

CONSTANTS
  Tasks,        \* the tasks of the application
  MayCall,      \* the functions each task calls: [Tasks -> SUBSET Functions]
  Values,       \* the values the module reports, where nothing depends on what they are
  NewChannels,  \* the audio channels that are chosen
  NoTask

ASSUME NoTaskIsNoTask == NoTask \notin Tasks

\* The channels the application chooses are among AUD_CHANNEL_NORMAL, _HEADSET and _LOUD_SPEAKER.
ASSUME ChannelsAreKnown == NewChannels \subseteq Channels

\* Unset is the mark of a variable that was not written, and nothing the module reports.
ASSUME ValuesAreNoMarks == Unset \notin Values

VARIABLES
  call,            \* per task: the call in progress, or the one that has just returned
  waiting,         \* the task whose command has the channel, and the response lines not yet delivered
  s_channel_qmic,  \* the channel whose level the handler takes out of +QMIC
  m_iErrCode,      \* what Ql_RIL_AT_GetErrCode returns
  threshold,       \* whose variables g_low_thresholdPtr and g_high_thresholdPtr point to
  sppState,        \* the globals of the SPP functions (BtCommands)
  audChannel,      \* (module) the audio channel in use
  pdpActive        \* (module) the PDP context is active

vars == <<call, waiting, s_channel_qmic, m_iErrCode, threshold, sppState, audChannel, pdpActive>>
-----------------------------------------------------------------------------
Script ==
  [RIL_NW_GetGSMState |-> RIL_NW_GetGSMState, RIL_NW_GetGPRSState |-> RIL_NW_GetGPRSState,
   RIL_NW_GetSignalQuality |-> RIL_NW_GetSignalQuality, RIL_NW_SetGPRSContext |-> RIL_NW_SetGPRSContext,
   RIL_NW_SetAPN |-> RIL_NW_SetAPN, RIL_NW_GetIPStatus |-> RIL_NW_GetIPStatus,
   RIL_NW_OpenPDPContext |-> RIL_NW_OpenPDPContext, RIL_NW_ClosePDPContext |-> RIL_NW_ClosePDPContext,
   RIL_NW_GetOperator |-> RIL_NW_GetOperator, RIL_SIM_GetSimState |-> RIL_SIM_GetSimState,
   RIL_SIM_GetIMSI |-> RIL_SIM_GetIMSI, RIL_SIM_GetCCID |-> RIL_SIM_GetCCID,
   RIL_Telephony_Dial |-> RIL_Telephony_Dial, RIL_Telephony_Answer |-> RIL_Telephony_Answer,
   RIL_Telephony_Hangup |-> RIL_Telephony_Hangup, RIL_QuerySysInitStatus |-> RIL_QuerySysInitStatus,
   RIL_GetPowerSupply |-> RIL_GetPowerSupply, RIL_GetIMEI |-> RIL_GetIMEI,
   Ql_SecureData_Store |-> Ql_SecureData_Store, Ql_SecureData_Read |-> Ql_SecureData_Read,
   RIL_Alarm_Create |-> RIL_Alarm_Create, RIL_Alarm_Query |-> RIL_Alarm_Query,
   RIL_Alarm_Remove |-> RIL_Alarm_Remove, RIL_AUD_GetChannel |-> RIL_AUD_GetChannel,
   RIL_AUD_SetChannel |-> RIL_AUD_SetChannel, RIL_AUD_SetVolume_Speaker |-> RIL_AUD_SetVolume_Speaker,
   RIL_AUD_SetVolume_Media |-> RIL_AUD_SetVolume_Media, RIL_AUD_SetVolume_Mic |-> RIL_AUD_SetVolume_Mic,
   RIL_AUD_GetVolume_Media |-> RIL_AUD_GetVolume_Media, RIL_AUD_GetVolume_Speaker |-> RIL_AUD_GetVolume_Speaker,
   RIL_AUD_GetVolume_Mic |-> RIL_AUD_GetVolume_Mic, RIL_AUD_PlayFile |-> RIL_AUD_PlayFile,
   RIL_AUD_StopPlay |-> RIL_AUD_StopPlay, RIL_AUD_StartRecord |-> RIL_AUD_StartRecord,
   RIL_AUD_StopRecord |-> RIL_AUD_StopRecord, RIL_AUD_PlayMem |-> RIL_AUD_PlayMem,
   RIL_AUD_StopPlayMem |-> RIL_AUD_StopPlayMem, RIL_AUD_PlayMemBg |-> RIL_AUD_PlayMemBg,
   RIL_AUD_StopPlayMemBg |-> RIL_AUD_StopPlayMemBg, RIL_AUD_GetRecordState |-> RIL_AUD_GetRecordState,
   RIL_ToneDet_Close |-> RIL_ToneDet_Close, RIL_ToneDet_Set |-> RIL_ToneDet_Set,
   RIL_ToneDet_Get |-> RIL_ToneDet_Get, RIL_GPS_Open |-> RIL_GPS_Open,
   RIL_GPS_SetRefLoc |-> RIL_GPS_SetRefLoc, RIL_GPS_GetPowerState |-> RIL_GPS_GetPowerState,
   RIL_GPS_Read |-> RIL_GPS_Read, RIL_GPS_Read_TimeSync_Status |-> RIL_GPS_Read_TimeSync_Status,
   RIL_GPS_EPO_Enable |-> RIL_GPS_EPO_Enable, RIL_GPS_EPO_Aid |-> RIL_GPS_EPO_Aid,
   RIL_GPS_EPO_Config_APN |-> RIL_GPS_EPO_Config_APN, RIL_QLBS_Cfg |-> RIL_QLBS_Cfg,
   RIL_QLBS_Loc_Ex |-> RIL_QLBS_Loc_Ex,
   RIL_FTP_QFTPOPEN |-> RIL_FTP_QFTPOPEN(TRUE, TRUE), RIL_FTP_QFTPOPEN_Anonymous |-> RIL_FTP_QFTPOPEN(FALSE, FALSE),
   RIL_FTP_QFTPCLOSE |-> RIL_FTP_QFTPCLOSE, RIL_FTP_QFTPPATH |-> RIL_FTP_QFTPPATH,
   RIL_FTP_QFTPCFG |-> RIL_FTP_QFTPCFG, RIL_FTP_QFTPRENAME |-> RIL_FTP_QFTPRENAME,
   RIL_FTP_QFTPDELETE |-> RIL_FTP_QFTPDELETE, RIL_FTP_QFTPMKDIR |-> RIL_FTP_QFTPMKDIR,
   RIL_FTP_QFTPRMDIR |-> RIL_FTP_QFTPRMDIR, RIL_FTP_QFTPSIZE |-> RIL_FTP_QFTPSIZE,
   RIL_FTP_QFTPSTAT |-> RIL_FTP_QFTPSTAT, RIL_FTP_QFTPLEN |-> RIL_FTP_QFTPLEN,
   RIL_FTP_QIDEACT |-> RIL_FTP_QIDEACT,
   RIL_BT_Switch |-> RIL_BT_Switch, RIL_BT_GetPwrState |-> RIL_BT_GetPwrState,
   RIL_BT_SetName |-> RIL_BT_SetName, RIL_BT_GetName |-> RIL_BT_GetName,
   RIL_BT_GetLocalAddr |-> RIL_BT_GetLocalAddr, RIL_BT_SetVisble |-> RIL_BT_SetVisble,
   RIL_BT_GetVisble |-> RIL_BT_GetVisble, RIL_BT_StopScan |-> RIL_BT_StopScan,
   RIL_BT_SPP_DirectConn |-> RIL_BT_SPP_DirectConn, RIL_BT_PairConfirm |-> RIL_BT_PairConfirm,
   RIL_BT_ConnAccept |-> RIL_BT_ConnAccept, RIL_BT_GetSupportedProfile |-> RIL_BT_GetSupportedProfile,
   RIL_BT_SPP_Send |-> RIL_BT_SPP_Send, RIL_BT_SPP_Read |-> RIL_BT_SPP_Read]

Functions == DOMAIN Script

ASSUME CallsAreFunctions == MayCall \in [Tasks -> SUBSET Functions]

-----------------------------------------------------------------------------
(***************************************************************************)
(* What the module answers: some lines with what was asked for and OK, or  *)
(* an error.  A status of the TCP/IP stack and the result of an FTP        *)
(* command come behind OK.                                                 *)
(***************************************************************************)
Errors == {<<ErrorLine>>, <<CmeError("10")>>, <<CmeError("30")>>}

\* The queries, and the prefix of the line each is answered with.
Queried ==
  {"AT+CREG?", "AT+CGREG?", "AT+CSQ", "AT+COPS?", "AT+CPIN?", "AT+CIMI", "AT+CCID", "AT+QINISTAT",
   "AT+CBC", "AT+GSN", "AT+QUSERDAT=3", "AT+QALARM?", "AT+QAUDCH?", "AT+CLVL?", "AT+QMEDVL?",
   "AT+QMIC?", "AT+QAUDRD?", "AT+QTONEDET=,0", "AT+QGNSSC?", "AT+QGNSSTS?", "AT+QLBS",
   "AT+QFTPSTAT", "AT+QFTPLEN", "AT+QBTPWR?", "AT+QBTNAME?", "AT+QBTADDR?", "AT+QBTVISB?"}

Prefix(cmd) ==
  CASE cmd = "AT+CREG?"      -> "+CREG:"          [] cmd = "AT+CGREG?"     -> "+CGREG:"
    [] cmd = "AT+CSQ"        -> "+CSQ:"           [] cmd = "AT+COPS?"      -> "+COPS:"
    [] cmd = "AT+CPIN?"      -> "+CPIN:"          [] cmd = "AT+CCID"       -> "+CCID:"
    [] cmd = "AT+QINISTAT"   -> "+QINISTAT:"      [] cmd = "AT+CBC"        -> "+CBC:"
    [] cmd = "AT+QUSERDAT=3" -> "+QUSERDAT: 3,"   [] cmd = "AT+QALARM?"    -> "+QALARM:"
    [] cmd = "AT+QAUDCH?"    -> "+QAUDCH:"        [] cmd = "AT+CLVL?"      -> "+CLVL:"
    [] cmd = "AT+QMEDVL?"    -> "+QMEDVL:"        [] cmd = "AT+QMIC?"      -> "+QMIC:"
    [] cmd = "AT+QAUDRD?"    -> "+QAUDRD:"        [] cmd = "AT+QTONEDET=,0" -> "+QTONEDET:"
    [] cmd = "AT+QGNSSC?"    -> "+QGNSSC:"        [] cmd = "AT+QGNSSTS?"   -> "+QGNSSTS:"
    [] cmd = "AT+QLBS"       -> "+QLBS:"          [] cmd = "AT+QFTPSTAT"   -> "+QFTPSTAT:"
    [] cmd = "AT+QFTPLEN"    -> "+QFTPLEN:"       [] cmd = "AT+QBTPWR?"    -> "+QBTPWR:"
    [] cmd = "AT+QBTNAME?"   -> "+QBTNAME:"       [] cmd = "AT+QBTADDR?"   -> "+QBTADDR:"
    [] cmd = "AT+QBTVISB?"   -> "+QBTVISB:"
    [] OTHER                  -> ""

Reported(cmd) ==
  CASE cmd = "AT+CPIN?"      -> {"READY", "SIM PIN2", "odd"}
    [] cmd = "AT+QISTAT"     -> {"IP GPRSACT", "TCP CONNECTING", "odd"}
    [] cmd = "AT+QAUDCH?"    -> {audChannel}
    [] cmd = "AT+QMIC?"      -> {"level of "}
    [] cmd = "AT+QALARM?"    -> Values \cup {"west"}
    [] cmd \in {"AT+COPS?", "AT+QUSERDAT=3"} -> Values \cup {"unquoted"}
    [] OTHER                 -> Values

FtpResults == {"+QFTPOPEN:", "+QFTPCLOSE:", "+QFTPPATH:", "+QFTPCFG:", "+QFTPRENAME:", "+QFTPDELETE:",
                "+QFTPMKDIR:"}

BeforeOk(k, vals) == {<<Line(k, v), OkLine>> : v \in vals}
AfterOk(k, vals)  == {<<OkLine, Line(k, v)>> : v \in vals}

GnssReports ==
  {<<Line("+QGNSSRD:", v), Line("$GPTXT", "x"), Line("$GNRMC", "rmc"), OkLine>> : v \in Values}

Profiles ==
  BeforeOk("+QBTGPROF:", Values) \cup {<<Line("+QBTGPROF:", "7"), Line("+QBTGPROF:", "8"), OkLine>>}

\* No data, or data with OK in the same line or in one of its own.
SppDataRead ==
  BeforeOk("+QSPPREAD:", {"0"})
    \cup {<<Line("+QSPPREAD:", "3"), Line("data OK", v)>> : v \in Values}
    \cup {<<Line("+QSPPREAD:", "3"), Line("data", v), OkLine>> : v \in Values}

Done(cmd) ==
  CASE cmd \in FtpResults    -> AfterOk(cmd, {"0", "11"})
    [] cmd = "+QFTPSIZE:"    -> AfterOk(cmd, Values \cup {"bad"})
    [] cmd = "AT+QISTAT"     -> AfterOk("STATE:", Reported(cmd))
    [] cmd = "AT+QIDEACT"    -> {<<Line("DEACT OK", "")>>}
    [] cmd \in {"ATD", "ATA"} -> {<<OkLine>>, <<Line("NO CARRIER", "")>>}
    [] cmd = "AT+QGNSSRD"    -> GnssReports
    [] cmd = "AT+QBTGPROF"   -> Profiles
    [] cmd = "AT+QSPPSEND"   -> BeforeOk(">", {"4"})
    [] cmd = "AT+QSPPREAD"   -> SppDataRead
    [] cmd \in Queried       -> BeforeOk(Prefix(cmd), Reported(cmd))
    [] OTHER                 -> {<<OkLine>>}

-----------------------------------------------------------------------------
NoCall == [pc |-> "idle", fn |-> "", step |-> 1, data |-> Unset, out |-> Unset, buf |-> Unset,
           ret |-> "", told |-> <<>>, err |-> "", sent |-> NoTask, opened |-> FALSE, disturbed |-> FALSE, cut |-> FALSE]

Free == [task |-> NoTask, lines |-> <<>>]

Init ==
  /\ call = [t \in Tasks |-> NoCall]
  /\ waiting = Free
  /\ s_channel_qmic = "1"
  /\ m_iErrCode = "0"
  /\ threshold = NoTask
  /\ sppState = [snd |-> NoTask, rcv |-> NoTask, len |-> "0", mode |-> FALSE]
  /\ audChannel = "1"
  /\ pdpActive = FALSE

InCall(t)   == call[t].pc \in {"ready", "sent"}
Commands(t) == Script[call[t].fn].cmds
Current(t)  == Commands(t)[call[t].step]

\* Other tasks that are in a function which uses the same static.
Users(t, cell) ==
  {u \in Tasks \ {t} : InCall(u) /\ \E i \in DOMAIN Commands(u) : Commands(u)[i].cell = cell}

Disturbing(calls, users) == [u \in Tasks |-> [calls[u] EXCEPT !.disturbed = @ \/ u \in users]]

\* Whether a handler of function f uses a static, and the pointers RIL_ToneDet_Get assigns.
Uses(f, cell) == \E i \in DOMAIN Script[f].cmds : Script[f].cmds[i].cell = cell

KeepsFirst(t, f) == IF Uses(f, "threshold") /\ threshold = NoTask THEN t ELSE threshold   \* (mutant)

ThresholdOf(t, f) == IF Uses(f, "threshold") THEN t ELSE threshold

\* The function is called; the globals that its handler needs are assigned before anything is sent.
Call(t, f) ==
  LET new == [NoCall EXCEPT !.pc = "ready", !.fn = f, !.data = Script[f].start, !.cut = sppState.mode]
      disturbs == UNION {IF Uses(f, cell) THEN Users(t, cell) ELSE {} : cell \in {"threshold", "snd", "rcv"}}
  IN /\ call[t].pc = "idle"
     /\ f \in MayCall[t]
     /\ call' = Disturbing([call EXCEPT ![t] = [new EXCEPT !.disturbed = disturbs # {}]], disturbs)
     /\ threshold' = ThresholdOf(t, f)
     /\ sppState' = CASE f = "RIL_BT_SPP_Send" -> SppSendsFor(t, sppState)
                 [] f = "RIL_BT_SPP_Read" -> SppReadsFor(t, sppState)
                 [] OTHER                 -> sppState
     /\ UNCHANGED <<waiting, s_channel_qmic, m_iErrCode, audChannel, pdpActive>>

\* Arguments the function refuses: it has no effect.
Reject(t, f) ==
  /\ call[t].pc = "idle"
  /\ f \in MayCall[t]
  /\ Script[f].checks
  /\ call' = [call EXCEPT ![t] = [NoCall EXCEPT !.pc = "done", !.fn = f, !.ret = "invalid"]]
  /\ UNCHANGED <<waiting, s_channel_qmic, m_iErrCode, threshold, sppState, audChannel, pdpActive>>

\* The call c ends with the result r of its last command.
Ended(c, r) ==
  LET o == Outcome(Script[c.fn].mode, r, c.data, c.out)
  IN [c EXCEPT !.pc = "done", !.ret = o.ret, !.out = o.out]

\* Ql_RIL_SendATCmd with the channel free.  The module carries the command out, or not, and answers.
Send(t) ==
  LET cmd == Current(t).at
  IN /\ call[t].pc = "ready"
     /\ waiting = Free
     /\ \E lines \in Done(cmd) \cup Errors :
          LET carriedOut == lines \notin Errors
              changed == IF carriedOut /\ cmd = "AT+QAUDCH" THEN NewChannels ELSE {audChannel}
          IN /\ waiting' = [task |-> t, lines |-> lines]
             /\ \E c \in changed : audChannel' = c
             /\ pdpActive' = CASE carriedOut /\ cmd = "AT+QIACT"   -> TRUE
                             [] carriedOut /\ cmd = "AT+QIDEACT" -> FALSE
                             [] OTHER                            -> pdpActive
             /\ call' = [call EXCEPT ![t].pc = "sent", ![t].opened = @ \/ (pdpActive' /\ ~pdpActive)]
     /\ UNCHANGED <<s_channel_qmic, m_iErrCode, threshold, sppState>>

\* With the channel taken: RIL_AT_BUSY.
Busy(t) ==
  /\ call[t].pc = "ready"
  /\ waiting # Free
  /\ call' = [call EXCEPT ![t] = Ended(@, "busy")]
  /\ UNCHANGED <<waiting, s_channel_qmic, m_iErrCode, threshold, sppState, audChannel, pdpActive>>

-----------------------------------------------------------------------------
Verdict(cmd, line, d) ==
  CASE cmd.hdl = "Default"                       -> Default_atRsp_callback(line, d)
    [] cmd.hdl = "ATResponse_CREG_Handler"       -> ATResponse_CREG_Handler(line, d)
    [] cmd.hdl = "ATResponse_CGREG_Handler"      -> ATResponse_CGREG_Handler(line, d)
    [] cmd.hdl = "ATResponse_CSQ_Handler"        -> ATResponse_CSQ_Handler(line, d)
    [] cmd.hdl = "ATResponse_IPStatus_Handler"   -> ATResponse_IPStatus_Handler(line, d)
    [] cmd.hdl = "ATRsp_QIDEACT_Hdlr"            -> ATRsp_QIDEACT_Hdlr(line, d)
    [] cmd.hdl = "ATRsp_COPS_Handler"            -> ATRsp_COPS_Handler(line, d)
    [] cmd.hdl = "ATResponse_CPIN_Handler"       -> ATResponse_CPIN_Handler(line, d)
    [] cmd.hdl = "ATRsp_IMSI_Handler"            -> ATRsp_IMSI_Handler(line, d)
    [] cmd.hdl = "ATRsp_CCID_Handler"            -> ATRsp_CCID_Handler(line, d)
    [] cmd.hdl = "Telephony_Dial_AT_handler"     -> Telephony_Dial_AT_handler(line, d)
    [] cmd.hdl = "Telephony_Answer_AT_handler"   -> Telephony_Answer_AT_handler(line, d)
    [] cmd.hdl = "SYS_ATResponse_Hanlder"        -> SYS_ATResponse_Hanlder(line, d)
    [] cmd.hdl = "Power_ATResponse_Hanlder"      -> Power_ATResponse_Hanlder(line, d)
    [] cmd.hdl = "ATRsp_IMEI_Handler"            -> ATRsp_IMEI_Handler(line, d)
    [] cmd.hdl = "SecureData_Read_Callback"      -> SecureData_Read_Callback(line, d)
    [] cmd.hdl = "ATResponse_QALARM_Handler"     -> ATResponse_QALARM_Handler(line, d)
    [] cmd.hdl = "ATResponse_AUD_handler"        -> ATResponse_AUD_handler(line, d, s_channel_qmic)
    [] cmd.hdl = "ATResponse_Handler"            -> ATResponse_Handler(line, d)
    [] cmd.hdl = "ATResponse_QGNSSC_Handler"     -> ATResponse_QGNSSC_Handler(line, d)
    [] cmd.hdl = "ATResponse_GPSRead_Hdlr"       -> ATResponse_GPSRead_Hdlr(line, d)
    [] cmd.hdl = "ATResponse_GPSReadTS_Hdlr"     -> ATResponse_GPSReadTS_Hdlr(line, d)
    [] cmd.hdl = "ATResponse_Qlbs_Ex_Handler"    -> ATResponse_Qlbs_Ex_Handler(line, d)
    [] cmd.hdl = "ATResponse_FTP_handler_Common" -> ATResponse_FTP_handler_Common(cmd.at, line, d)
    [] cmd.hdl = "ATResponse_QFTPSTAT_handler"   -> ATResponse_QFTPSTAT_handler(line, d)
    [] cmd.hdl = "ATResponse_QFTPLEN_handler"    -> ATResponse_QFTPLEN_handler(line, d)
    [] cmd.hdl = "Callback_QIDEACT"              -> Callback_QIDEACT(line, d)
    [] cmd.hdl = "ATRsp_QBTPWR_Hdlr"             -> ATRsp_QBTPWR_Hdlr(line, d)
    [] cmd.hdl = "ATRsp_QBTNAME_Hdlr"            -> ATRsp_QBTNAME_Hdlr(line, d)
    [] cmd.hdl = "ATRsp_QBTADDR_Hdlr"            -> ATRsp_QBTADDR_Hdlr(line, d)
    [] cmd.hdl = "ATRsp_QBTVISB_Hdlr"            -> ATRsp_QBTVISB_Hdlr(line, d)
    [] cmd.hdl = "ATRsp_QBTGPROF_Hdlr"           -> ATRsp_QBTGPROF_Hdlr(line, d)
    [] cmd.hdl = "AtRsp_QBTCONND_Hdlr"           -> AtRsp_QBTCONND_Hdlr(line, d)
    [] cmd.hdl = "ATRsp_QBTSPPSEND_Hdlr"         -> ATRsp_QBTSPPSEND_Hdlr(line, d)
    [] cmd.hdl = "ATRsp_QBTSPPREAD_Hdlr"         -> ATRsp_QBTSPPREAD_Hdlr(line, d, sppState)

\* (mutant) the last command is not recognised as the last
AdvancesPastTheEnd(c, v) ==
  CASE v.verdict = "continue" -> c
    [] v.verdict = "success" /\ c.step <= Len(Script[c.fn].cmds) -> [c EXCEPT !.step = @ + 1, !.pc = "ready"]
    [] OTHER -> Ended(c, v.verdict)

\* The call c after a line of its command with the verdict v.
Advanced(c, v) ==
  CASE v.verdict = "continue" -> c
    [] v.verdict = "success" /\ c.step < Len(Script[c.fn].cmds) -> [c EXCEPT !.step = @ + 1, !.pc = "ready"]
    [] OTHER -> Ended(c, v.verdict)

\* A handler writes through a pointer to a variable of task t: of the call of f it is in or has just
\* returned from, if any; the variable of an older call is not looked at any more.
Pointee(calls, t, f) == {u \in Tasks : u = t /\ calls[u].fn = f /\ calls[u].ret # "invalid"}

WriteOut(calls, t, v) ==
  [u \in Tasks |-> IF u \in Pointee(calls, t, "RIL_ToneDet_Get") THEN [calls[u] EXCEPT !.out = v] ELSE calls[u]]
WriteBuf(calls, t, v) ==
  [u \in Tasks |-> IF u \in Pointee(calls, t, "RIL_BT_SPP_Read") THEN [calls[u] EXCEPT !.buf = v] ELSE calls[u]]

\* Lines without a value.
Silent == {"OK", "DEACT OK", "ERROR", "+CME ERROR:", "NO CARRIER", "$GPTXT"}

\* The core passes a line to the handler of the command that is waiting.
TakeLine(t) ==
  LET c     == call[t]
      cmd   == Current(t)
      line  == Head(waiting.lines)
      v     == Verdict(cmd, line, IF cmd.cell = "qmic" THEN s_channel_qmic ELSE c.data)
      told  == IF line.kind \in Silent THEN c.told ELSE Append(c.told, line.val)
      err   == IF line.kind \in {"ERROR", "+CME ERROR:"} THEN ErrCode(line, "") ELSE c.err
      data  == IF cmd.cell = "qmic" THEN c.data ELSE v.data
      calls == [call EXCEPT ![t] = Advanced([c EXCEPT !.told = told, !.data = data, !.err = err], v)]
  IN /\ waiting.task = t
     /\ waiting.lines # <<>>
     /\ waiting' = IF v.verdict = "continue" THEN [waiting EXCEPT !.lines = Tail(@)] ELSE Free
     /\ m_iErrCode' = IF cmd.hdl = "Default" THEN ErrCode(line, m_iErrCode) ELSE m_iErrCode
     /\ s_channel_qmic' = IF cmd.cell = "qmic" THEN v.data ELSE s_channel_qmic
     /\ call' = CASE cmd.cell = "qmic" /\ line.kind = "+QAUDCH:"       -> Disturbing(calls, Users(t, "qmic"))
                  [] cmd.cell = "threshold" /\ line.kind = "+QTONEDET:" -> WriteOut(calls, threshold, line.val)
                  [] cmd.cell = "rcv" /\ CopiesData(sppState)                -> WriteBuf(calls, sppState.rcv, line.val)
                  [] cmd.cell = "snd" /\ line.kind = ">"                -> [calls EXCEPT ![t].sent = sppState.snd]
                  [] OTHER                                              -> calls
     /\ sppState' = IF cmd.cell = "rcv" THEN SppAfter(line, sppState) ELSE sppState
     /\ UNCHANGED <<threshold, audChannel, pdpActive>>

\* No answer in time: RIL_AT_TIMEOUT.
Timeout(t) ==
  /\ waiting.task = t
  /\ waiting' = Free
  /\ call' = [call EXCEPT ![t] = Ended(@, "timeout")]
  /\ UNCHANGED <<s_channel_qmic, m_iErrCode, threshold, sppState, audChannel, pdpActive>>

Return(t) ==
  /\ call[t].pc = "done"
  /\ call' = [call EXCEPT ![t] = NoCall]
  /\ UNCHANGED <<waiting, s_channel_qmic, m_iErrCode, threshold, sppState, audChannel, pdpActive>>

Next ==
  \E t \in Tasks :
    \/ \E f \in MayCall[t] : Call(t, f) \/ Reject(t, f)
    \/ Send(t) \/ Busy(t) \/ TakeLine(t) \/ Timeout(t) \/ Return(t)

Spec == Init /\ [][Next]_vars

-----------------------------------------------------------------------------
Results == {"", "success", "failed", "timeout", "busy", "invalid", "refused"}

\* Calls, globals and the channel have the shape the other properties assume.
TypeOK ==
  /\ \A t \in Tasks :
       /\ call[t].pc \in {"idle", "ready", "sent", "done"}
       /\ call[t].pc # "idle" => call[t].fn \in MayCall[t] /\ call[t].step \in DOMAIN Commands(t)
       /\ call[t].ret \in Results
       /\ call[t].pc = "sent" <=> waiting.task = t
  /\ waiting.task = NoTask => waiting = Free
  /\ threshold \in Tasks \cup {NoTask}
  /\ sppState.snd \in Tasks \cup {NoTask} /\ sppState.rcv \in Tasks \cup {NoTask}
  /\ sppState.mode \in BOOLEAN /\ pdpActive \in BOOLEAN /\ audChannel \in Channels

Succeeded(t, f) == call[t].pc = "done" /\ call[t].ret = "success" /\ call[t].fn = f

\* After a function that has failed Ql_RIL_AT_GetErrCode returns the error of its command.
ErrCodeIsOfTheFailure ==
  \A t \in Tasks : call[t].pc = "done" /\ call[t].ret = "failed" => m_iErrCode = call[t].err

\* What the module reported, as the function is to hand it over.
Meaning(f, told) ==
  LET last == told[Len(told)]
  IN CASE f = "RIL_SIM_GetSimState" /\ last = "READY"         -> "SIM_STAT_READY"
       [] f = "RIL_SIM_GetSimState" /\ last = "SIM PIN2"      -> "SIM_STAT_PIN2_REQ"
       [] f = "RIL_SIM_GetSimState" /\ last = "odd"           -> "SIM_STAT_UNSPECIFIED"
       [] f = "RIL_NW_GetIPStatus" /\ last = "TCP CONNECTING" -> "TCP_PROCESSING"
       [] f = "RIL_NW_GetIPStatus" /\ last = "odd"            -> "IP INITIAL"
       [] f = "RIL_GPS_Read"                                  -> "" \o told[1] \o told[2]
       [] OTHER                                               -> last

\* The functions that hand over what one command reported.  RIL_FTP_QFTPSTAT and RIL_FTP_QFTPLEN
\* do not: their callers do not get it.
Queries ==
  {f \in Functions : Script[f].mode \in {"direct", "copied", "cleared", "checked"}}
    \ {"RIL_AUD_GetVolume_Mic", "RIL_BT_SPP_Send", "RIL_BT_SPP_Read", "RIL_Telephony_Dial",
       "RIL_Telephony_Answer"}

\* A function that returns success has put into the caller's variable what the module reported for this
\* very call - whatever other tasks called meanwhile, and not a rest of an earlier call or the value the
\* cell had before.  Values that are not in the expected form are not parsed (NetCommands, DeviceCommands).
SuccessMeansAnswered ==
  \A t \in Tasks : \A f \in Queries :
    Succeeded(t, f) /\ call[t].told[Len(call[t].told)] \notin {"unquoted", "west"} =>
      call[t].out = Meaning(f, call[t].told)

\* RIL_FTP_QFTPSTAT and RIL_FTP_QFTPLEN mark their failure with -1 in the caller's variable ("if the AT
\* command set fail ,the state is Invalied") as long as no value has come; one that has come is in no
\* variable of the caller, whether or not the call succeeds.
FailedFtpQueryIsMarked ==
  \A t \in Tasks :
    call[t].pc = "done" /\ call[t].fn \in {"RIL_FTP_QFTPSTAT", "RIL_FTP_QFTPLEN"} =>
      call[t].out = IF call[t].ret # "success" /\ call[t].told = <<>> THEN "-1" ELSE Unset

\* The level RIL_AUD_GetVolume returns for the microphone is the level of the channel the first of its two
\* commands reported, also when the channel is changed between the two, unless another task's call
\* has overwritten s_channel_qmic meanwhile.
VolumeIsOfTheChannelRead ==
  \A t \in Tasks :
    Succeeded(t, "RIL_AUD_GetVolume_Mic") /\ ~call[t].disturbed =>
      call[t].out = "level of " \o call[t].told[1]

\* RIL_ToneDet_Get returns the thresholds through the pointers of its own caller, unless another task
\* has called it before the answer came; that call changes the pointers even if the channel refuses it.
ThresholdsReachTheirCaller ==
  \A t \in Tasks :
    Succeeded(t, "RIL_ToneDet_Get") /\ ~call[t].disturbed => call[t].out = call[t].told[1]

\* RIL_BT_SPP_Read that succeeds has the data of its answer in the caller's buffer and its length, unless
\* another call has taken over the globals, or the one before timed out between header and data, which
\* leaves the handler in data mode.
SppReadReturnsItsData ==
  \A t \in Tasks :
    Succeeded(t, "RIL_BT_SPP_Read") /\ ~call[t].disturbed /\ ~call[t].cut =>
      IF call[t].told[1] = "0" THEN call[t].buf = Unset
      ELSE call[t].out = call[t].told[1] /\ call[t].buf = call[t].told[2]

\* RIL_BT_SPP_Send writes its caller's data at the prompt, unless another call has replaced the global.
SppSendSendsItsData ==
  \A t \in Tasks :
    Succeeded(t, "RIL_BT_SPP_Send") /\ ~call[t].disturbed => call[t].sent = t /\ call[t].out = "4"

\* The two functions of the serial port, whose buffers stand in globals, send and return their callers'
\* data, with the exceptions named.
SppDataIsTheCallers == SppReadReturnsItsData /\ SppSendSendsItsData

\* A call waits for a line that will not come, until its timeout, only if its handler does not end with an
\* error line the module may answer with: the functions for which that is so are known.
NoCallWaitsOutAnError ==
  \A t \in Tasks :
    waiting = [task |-> t, lines |-> <<>>] =>
      \/ call[t].fn \in {"RIL_NW_ClosePDPContext", "RIL_FTP_QIDEACT", "RIL_Alarm_Query", "RIL_BT_SPP_DirectConn"}
      \/ call[t].fn = "RIL_BT_SPP_Read" /\ (call[t].cut \/ call[t].disturbed)

\* A call that fails leaves a PDP context active that it has opened only in RIL_FTP_QFTPOPEN, whose login
\* comes after AT+QIACT, or if the answer to AT+QIACT itself was late.
ContextLeftOpenOnlyByLogin ==
  \A t \in Tasks :
    call[t].pc = "done" /\ call[t].ret # "success" /\ call[t].opened =>
      call[t].ret = "timeout" \/ call[t].fn \in {"RIL_FTP_QFTPOPEN", "RIL_FTP_QFTPOPEN_Anonymous"}
=============================================================================
