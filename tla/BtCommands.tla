----------------------------- MODULE BtCommands -----------------------------
(***************************************************************************)
(* Bluetooth functions that keep no record of devices: power, name,        *)
(* address, visibility, profiles, and the data of a serial port            *)
(* connection (ril_bluetooth.c).                                           *)
(***************************************************************************)
EXTENDS AtLines

\* The handlers of these queries end with FAILED on a line they do not know.
StoresOnly(prefix, line, d) ==
  IF line.kind = prefix THEN Continue(line.val) ELSE IF line.kind = "OK" THEN Success(d) ELSE Failed(d)

ATRsp_QBTPWR_Hdlr(line, d)  == StoresOnly("+QBTPWR:", line, d)
ATRsp_QBTNAME_Hdlr(line, d) == StoresOnly("+QBTNAME:", line, d)
ATRsp_QBTADDR_Hdlr(line, d) == StoresOnly("+QBTADDR:", line, d)
ATRsp_QBTVISB_Hdlr(line, d) == StoresOnly("+QBTVISB:", line, d)

\* The index into the array of profiles is never advanced: each line overwrites the first entry.
ATRsp_QBTGPROF_Hdlr(line, d) == Stores("+QBTGPROF:", line, d)

\* Only OK ends the command.
AtRsp_QBTCONND_Hdlr(line, d) == IF line.kind = "OK" THEN Success(d) ELSE Continue(d)

RIL_BT_Switch       == Checked(Plain("AT+QBTPWR"))
RIL_BT_GetPwrState  == Checked(Direct("AT+QBTPWR?", "ATRsp_QBTPWR_Hdlr"))
RIL_BT_SetName      == Checked(Plain("AT+QBTNAME"))
RIL_BT_GetName      == Checked(Function(<<Cmd("AT+QBTNAME?", "ATRsp_QBTNAME_Hdlr")>>, Zero, "cleared"))
RIL_BT_GetLocalAddr == Checked(Function(<<Cmd("AT+QBTADDR?", "ATRsp_QBTADDR_Hdlr")>>, Zero, "cleared"))
RIL_BT_SetVisble    == Checked(Plain("AT+QBTVISB"))
RIL_BT_GetVisble    == Checked(Direct("AT+QBTVISB?", "ATRsp_QBTVISB_Hdlr"))
RIL_BT_StopScan     == Plain("AT+QBTSCANC")
RIL_BT_SPP_DirectConn == Checked(Handled("AT+QBTCONND", "AtRsp_QBTCONND_Hdlr"))
RIL_BT_PairConfirm  == Checked(Plain("AT+QBTPAIRCNF"))
RIL_BT_ConnAccept   == Checked(Plain("AT+QBTACPT"))
RIL_BT_GetSupportedProfile ==
  Checked(Function(<<Cmd("AT+QBTGPROF", "ATRsp_QBTGPROF_Hdlr")>>, Zero, "cleared"))

-----------------------------------------------------------------------------
(***************************************************************************)
(* Serial port data.  spp is the state that the calls share:               *)
(*   snd, rcv  whose buffers m_ptrSppData and m_ptrSppDataBuf are,         *)
(*   len       m_nSppRealReadLen, from the header of the answer,           *)
(*   mode      the static sppReadMode of the handler: the next line is data. *)
(***************************************************************************)
RIL_BT_SPP_Send ==
  Checked(Function(<<[Cmd("AT+QSPPSEND", "ATRsp_QBTSPPSEND_Hdlr") EXCEPT !.cell = "snd"]>>, Unset, "direct"))
RIL_BT_SPP_Read ==
  Checked(Function(<<[Cmd("AT+QSPPREAD", "ATRsp_QBTSPPREAD_Hdlr") EXCEPT !.cell = "rcv"]>>, Unset, "direct"))

\* What the two functions assign before they send.
SppSendsFor(t, spp) == [spp EXCEPT !.snd = t]
SppReadsFor(t, spp) == [spp EXCEPT !.rcv = t, !.len = "0"]

\* At the prompt the data is written, and the cell gets what was taken.
ATRsp_QBTSPPSEND_Hdlr(line, d) == IF line.kind = ">" THEN Continue(line.val) ELSE Final(line, d)

\* The handler copies a line in data mode, as many bytes as the header said: the line is taken for data
\* whatever it is.
CopiesData(spp) == spp.mode /\ spp.len # "0"

\* (mutant) the length is handed over only if OK stands behind the data
LosesLength(line, d, spp) ==
  CASE spp.mode /\ line.kind = "data OK"  -> Success(spp.len)
    [] spp.mode /\ line.kind # "data OK"  -> Continue(d)
    [] ~spp.mode /\ line.kind = "OK"      -> Success(d)
    [] OTHER -> IF line.kind = "+QSPPREAD:" THEN Continue(d) ELSE Failed(d)

\* OK may stand behind the data in the same line; a line that is none of the known ones fails.
ATRsp_QBTSPPREAD_Hdlr(line, d, spp) ==
  IF spp.mode
    THEN IF line.kind = "data OK" \/ (line.kind = "OK" /\ spp.len = "0") THEN Success(spp.len)
         ELSE Continue(spp.len)
  ELSE CASE line.kind = "+QSPPREAD:"        -> Continue(d)
         [] line.kind \in {"OK", "data OK"} -> Success(d)
         [] OTHER                           -> Failed(d)

\* The header switches to data mode, the line behind it back.
SppAfter(line, spp) ==
  IF spp.mode THEN [spp EXCEPT !.mode = FALSE]
  ELSE IF line.kind = "+QSPPREAD:" THEN [spp EXCEPT !.len = line.val, !.mode = line.val # "0"] ELSE spp
=============================================================================
