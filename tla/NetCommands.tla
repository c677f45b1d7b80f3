---------------------------- MODULE NetCommands ----------------------------
(***************************************************************************)
(* Network registration, PDP context, SIM card and calls: the functions of *)
(* ril_network.c, ril_sim.c and ril_telephony.c and their line handlers.   *)
(***************************************************************************)
EXTENDS AtLines

ATResponse_CREG_Handler(line, d)  == Stores("+CREG:", line, d)
ATResponse_CGREG_Handler(line, d) == Stores("+CGREG:", line, d)
ATResponse_CSQ_Handler(line, d)   == Stores("+CSQ:", line, d)

RIL_NW_GetGSMState      == Copied("AT+CREG?", "ATResponse_CREG_Handler", Zero)
RIL_NW_GetGPRSState     == Copied("AT+CGREG?", "ATResponse_CGREG_Handler", Zero)
RIL_NW_GetSignalQuality == Copied("AT+CSQ", "ATResponse_CSQ_Handler", Zero)
RIL_NW_SetGPRSContext   == Plain("AT+QIFGCNT")
RIL_NW_SetAPN           == Plain("AT+QICSGP")

\* The names of the states of the TCP/IP stack; any other name is read as the first state.
\* The code compares as many characters as it received, so that a proper beginning of a name would match
\* too; the module sends whole names.
RIL_NW_GetIpStatusByName(s) ==
  CASE s \in {"IP INITIAL", "IP START", "IP CONFIG", "IP IND", "IP GPRSACT", "IP STATUS", "IP CLOSE",
              "CONNECT OK"}    -> s
    [] s = "TCP CONNECTING" -> "TCP_PROCESSING"
    [] s = "UDP CONNECTING" -> "UDP_PROCESSING"
    [] s = "PDP DEACT"      -> "GPRS_CONTEXT_DEACT"
    [] OTHER                -> "IP INITIAL"

\* The state comes after OK; a line the handler does not know ends the command.
ATResponse_IPStatus_Handler(line, d) ==
  CASE line.kind = "STATE:" -> Success(RIL_NW_GetIpStatusByName(line.val))
    [] line.kind = "OK"     -> Continue(d)
    [] line.kind = "ERROR"  -> Failed("IP INITIAL")
    [] OTHER                -> Failed(d)

\* The state is the return value.
RIL_NW_GetIPStatus ==
  Copied("AT+QISTAT", "ATResponse_IPStatus_Handler", "IP INITIAL")

ActivatesFirst ==               \* (mutant) the context is activated before the task is registered
  Function(<<Cmd("AT+QIACT", "Default"), Cmd("AT+QIREGAPP", "Default")>>, Unset, "none")

RIL_NW_OpenPDPContext ==
  Function(<<Cmd("AT+QIREGAPP", "Default"), Cmd("AT+QIACT", "Default")>>, Unset, "none")

ATRsp_QIDEACT_Hdlr(line, d) ==
  CASE line.kind = "DEACT OK" -> Success(d)
    [] line.kind = "ERROR"    -> Failed(d)
    [] OTHER                  -> Continue(d)

RIL_NW_ClosePDPContext == Handled("AT+QIDEACT", "ATRsp_QIDEACT_Hdlr")

\* The line with the operator ends the command.  Without a name in quotation marks the name is looked
\* for behind a NULL pointer.
ATRsp_COPS_Handler(line, d) ==
  IF line.kind = "+COPS:" THEN Success(IF line.val = "unquoted" THEN Wild ELSE line.val)
  ELSE Final(line, d)

RIL_NW_GetOperator == Checked(Direct("AT+COPS?", "ATRsp_COPS_Handler"))

-----------------------------------------------------------------------------
\* Compared over the length received, like the names above; the module sends whole names.
RIL_SIM_GetSimStateByName(s) ==
  CASE s = "READY"        -> "SIM_STAT_READY"
    [] s = "NOT INSERTED" -> "SIM_STAT_NOT_INSERTED"
    [] s = "SIM PIN"      -> "SIM_STAT_PIN_REQ"
    [] s = "SIM PUK"      -> "SIM_STAT_PUK_REQ"
    [] s = "PH-SIM PIN"   -> "SIM_STAT_PH_PIN_REQ"
    [] s = "PH-SIM PUK"   -> "SIM_STAT_PH_PUK_REQ"
    [] s = "SIM PIN2"     -> "SIM_STAT_PIN2_REQ"
    [] s = "SIM PUK2"     -> "SIM_STAT_PUK2_REQ"
    [] s = "SIM BUSY"     -> "SIM_STAT_BUSY"
    [] s = "NOT READY"    -> "SIM_STAT_NOT_READY"
    [] OTHER              -> "SIM_STAT_UNSPECIFIED"

\* Error codes 10 to 18 of 3GPP TS 27.007.
RIL_SIM_GetSimStateByErrCode(code) ==
  CASE code = "10" -> "SIM_STAT_NOT_INSERTED"
    [] code = "11" -> "SIM_STAT_PIN_REQ"
    [] code = "12" -> "SIM_STAT_PUK_REQ"
    [] code = "14" -> "SIM_STAT_BUSY"
    [] code = "17" -> "SIM_STAT_PIN2_REQ"
    [] code = "18" -> "SIM_STAT_PUK2_REQ"
    [] OTHER       -> "SIM_STAT_UNSPECIFIED"

\* The state is derived from an error as well, but the command has failed then.
ATResponse_CPIN_Handler(line, d) ==
  CASE line.kind = "+CPIN:"      -> Success(RIL_SIM_GetSimStateByName(line.val))
    [] line.kind = "ERROR"       -> Failed("SIM_STAT_UNSPECIFIED")
    [] line.kind = "+CME ERROR:" -> Failed(RIL_SIM_GetSimStateByErrCode(line.val))
    [] OTHER                     -> Final(line, d)

ATRsp_IMSI_Handler(line, d) == PlainAnswer(line, d)
ATRsp_CCID_Handler(line, d) == Stores("+CCID:", line, d)

RIL_SIM_GetSimState == Copied("AT+CPIN?", "ATResponse_CPIN_Handler", Zero)
RIL_SIM_GetIMSI     == Checked(Direct("AT+CIMI", "ATRsp_IMSI_Handler"))
RIL_SIM_GetCCID     == Checked(Direct("AT+CCID", "ATRsp_CCID_Handler"))

-----------------------------------------------------------------------------
Telephony_Dial_AT_handler(line, d) ==
  CASE line.kind \in {"NO DIALTONE", "BUSY", "NO CARRIER", "OK"} -> Success(line.kind)
    [] line.kind \in {"ERROR", "+CME ERROR:"}                    -> Failed("CALL_STATE_ERROR")
    [] OTHER                                                     -> Continue(d)

Telephony_Answer_AT_handler(line, d) ==
  CASE line.kind \in {"OK", "NO CARRIER"}     -> Success(line.kind)
    [] line.kind \in {"ERROR", "+CME ERROR:"} -> Failed("CALL_STATE_ERROR")
    [] OTHER                                  -> Continue(d)

RIL_Telephony_Dial   == Checked(Direct("ATD", "Telephony_Dial_AT_handler"))
RIL_Telephony_Answer == Direct("ATA", "Telephony_Answer_AT_handler")
RIL_Telephony_Hangup == Plain("ATH")
=============================================================================
