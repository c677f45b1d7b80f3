-------------------------- MODULE AtCommandsProofs --------------------------
(***************************************************************************)
(* Proofs about AtCommands, for any tasks, any functions each of them      *)
(* calls, and any values the module reports.                               *)
(*                                                                         *)
(* What the table of functions and the handlers say is stated first, as    *)
(* lemmas about the commands and about the verdicts of the handlers; then  *)
(* what each step changes; then one inductive invariant for each property. *)
(***************************************************************************)
EXTENDS AtCommands, SequenceTheorems, TLAPS

Modes == {"none", "direct", "copied", "cleared", "accepted", "checked", "lost"}

Cells == {"data", "qmic", "threshold", "snd", "rcv"}

OrdinaryHandlers ==
  {"Default", "ATResponse_CREG_Handler", "ATResponse_CGREG_Handler", "ATResponse_CSQ_Handler", "ATRsp_COPS_Handler",
   "ATResponse_CPIN_Handler", "ATRsp_IMSI_Handler", "ATRsp_CCID_Handler", "SYS_ATResponse_Hanlder",
   "Power_ATResponse_Hanlder", "ATRsp_IMEI_Handler", "SecureData_Read_Callback", "ATResponse_AUD_handler",
   "ATResponse_Handler", "ATResponse_QGNSSC_Handler", "ATResponse_GPSRead_Hdlr", "ATResponse_GPSReadTS_Hdlr",
   "ATResponse_Qlbs_Ex_Handler", "ATResponse_QFTPSTAT_handler", "ATResponse_QFTPLEN_handler",
   "ATRsp_QBTPWR_Hdlr", "ATRsp_QBTNAME_Hdlr", "ATRsp_QBTADDR_Hdlr", "ATRsp_QBTVISB_Hdlr",
   "ATRsp_QBTGPROF_Hdlr", "ATRsp_QBTSPPSEND_Hdlr"}

PeculiarCommands ==
  FtpResults \cup {"+QFTPSIZE:", "AT+QISTAT", "AT+QIDEACT", "ATD", "ATA", "AT+QALARM?", "AT+QBTCONND", "AT+QSPPREAD"}

Pair(at, hdl) ==
  \/ hdl \in OrdinaryHandlers /\ at \notin PeculiarCommands
  \/ hdl = "ATResponse_FTP_handler_Common" /\ at \in FtpResults \cup {"+QFTPSIZE:"}
  \/ <<at, hdl>> \in {<<"AT+QISTAT", "ATResponse_IPStatus_Handler">>, <<"ATD", "Telephony_Dial_AT_handler">>,
                     <<"ATA", "Telephony_Answer_AT_handler">>, <<"AT+QIDEACT", "ATRsp_QIDEACT_Hdlr">>,
                     <<"AT+QIDEACT", "Callback_QIDEACT">>, <<"AT+QALARM?", "ATResponse_QALARM_Handler">>,
                     <<"AT+QBTCONND", "AtRsp_QBTCONND_Hdlr">>, <<"AT+QSPPREAD", "ATRsp_QBTSPPREAD_Hdlr">>}

DeafHandlers ==
  {"ATRsp_QIDEACT_Hdlr", "Callback_QIDEACT", "ATResponse_QALARM_Handler", "AtRsp_QBTCONND_Hdlr",
   "ATRsp_QBTSPPREAD_Hdlr"}

SoundCommand(k) == Pair(k.at, k.hdl) /\ k.cell \in Cells

Sound(F) ==
  /\ F.mode \in Modes
  /\ Len(F.cmds) \in Nat \ {0} /\ DOMAIN F.cmds = 1..Len(F.cmds)
  /\ \A i \in DOMAIN F.cmds : SoundCommand(F.cmds[i])

RegularCommand(k) == Pair(k.at, k.hdl) /\ k.cell = "data" /\ k.hdl \notin DeafHandlers /\ k.at # "AT+QIACT"

Regular(F) ==
  /\ F.mode \in Modes
  /\ Len(F.cmds) \in Nat \ {0} /\ DOMAIN F.cmds = 1..Len(F.cmds)
  /\ \A i \in DOMAIN F.cmds : RegularCommand(F.cmds[i])

SpecialFunctions ==
  {"RIL_NW_OpenPDPContext", "RIL_NW_ClosePDPContext", "RIL_FTP_QIDEACT", "RIL_Alarm_Query",
   "RIL_BT_SPP_DirectConn", "RIL_BT_SPP_Read", "RIL_BT_SPP_Send", "RIL_ToneDet_Get",
   "RIL_AUD_GetVolume_Mic", "RIL_FTP_QFTPOPEN", "RIL_FTP_QFTPOPEN_Anonymous"}

(* A row of one, two or three regular commands is regular.                 *)
LEMMA RegularFunctions ==
  ASSUME NEW start, NEW mode \in Modes
  PROVE  /\ \A k : RegularCommand(k) => /\ Regular(Function(<<k>>, start, mode))
                                       /\ Regular(Checked(Function(<<k>>, start, mode)))
         /\ \A k, l : RegularCommand(k) /\ RegularCommand(l) =>
              /\ Regular(Function(<<k, l>>, start, mode))
              /\ Regular(Checked(Function(<<k, l>>, start, mode)))
         /\ \A k, l, m : RegularCommand(k) /\ RegularCommand(l) /\ RegularCommand(m) =>
              Regular(Function(<<k, l, m>>, start, mode))
BY DEF Regular, Function, Checked

(* The cases of the table: the functions of each file, eight at a time.      *)
LEMMA MostFunctionsAreRegular == \A f \in Functions \ SpecialFunctions : Regular(Script[f])
\* NetCommands
<1>1. Regular(RIL_NW_GetGSMState) /\ Regular(RIL_NW_GetGPRSState) /\ Regular(RIL_NW_GetSignalQuality) 
      /\ Regular(RIL_NW_SetGPRSContext) /\ Regular(RIL_NW_SetAPN) /\ Regular(RIL_NW_GetIPStatus) 
      /\ Regular(RIL_NW_GetOperator) /\ Regular(RIL_SIM_GetSimState)
  BY RegularFunctions
  DEF RIL_NW_GetGSMState, RIL_NW_GetGPRSState, RIL_NW_GetSignalQuality, RIL_NW_SetGPRSContext,
      RIL_NW_SetAPN, RIL_NW_GetIPStatus, RIL_NW_GetOperator, RIL_SIM_GetSimState, Plain, Handled,
      Copied, Direct, Pair, OrdinaryHandlers, PeculiarCommands, FtpResults, Modes, DeafHandlers,
      RegularCommand, Cmd
<1>2. Regular(RIL_SIM_GetIMSI) /\ Regular(RIL_SIM_GetCCID) /\ Regular(RIL_Telephony_Dial) 
      /\ Regular(RIL_Telephony_Answer) /\ Regular(RIL_Telephony_Hangup)
  BY RegularFunctions
  DEF RIL_SIM_GetIMSI, RIL_SIM_GetCCID, RIL_Telephony_Dial, RIL_Telephony_Answer,
      RIL_Telephony_Hangup, Plain, Handled, Copied, Direct, Pair, OrdinaryHandlers,
      PeculiarCommands, FtpResults, Modes, DeafHandlers, RegularCommand, Cmd
\* DeviceCommands
<1>3. Regular(RIL_QuerySysInitStatus) /\ Regular(RIL_GetPowerSupply) /\ Regular(RIL_GetIMEI) 
      /\ Regular(Ql_SecureData_Store) /\ Regular(Ql_SecureData_Read) /\ Regular(RIL_Alarm_Create) 
      /\ Regular(RIL_Alarm_Remove) /\ Regular(RIL_AUD_GetChannel)
  BY RegularFunctions
  DEF RIL_QuerySysInitStatus, RIL_GetPowerSupply, RIL_GetIMEI, Ql_SecureData_Store,
      Ql_SecureData_Read, RIL_Alarm_Create, RIL_Alarm_Remove, RIL_AUD_GetChannel, Plain, Handled,
      Copied, Direct, Aud, Pair, OrdinaryHandlers, PeculiarCommands, FtpResults, Modes,
      DeafHandlers, RegularCommand, Cmd
<1>4. Regular(RIL_AUD_SetChannel) /\ Regular(RIL_AUD_SetVolume_Speaker) 
      /\ Regular(RIL_AUD_SetVolume_Media) /\ Regular(RIL_AUD_SetVolume_Mic) 
      /\ Regular(RIL_AUD_GetVolume_Speaker) /\ Regular(RIL_AUD_GetVolume_Media) 
      /\ Regular(RIL_AUD_PlayFile) /\ Regular(RIL_AUD_StopPlay)
  BY RegularFunctions
  DEF RIL_AUD_SetChannel, RIL_AUD_SetVolume_Speaker, RIL_AUD_SetVolume_Media, RIL_AUD_SetVolume_Mic,
      RIL_AUD_GetVolume_Speaker, RIL_AUD_GetVolume_Media, RIL_AUD_PlayFile, RIL_AUD_StopPlay, Plain,
      Handled, Copied, Direct, Aud, Pair, OrdinaryHandlers, PeculiarCommands, FtpResults, Modes,
      DeafHandlers, RegularCommand, Cmd
<1>5. Regular(RIL_AUD_StartRecord) /\ Regular(RIL_AUD_StopRecord) /\ Regular(RIL_AUD_PlayMem) 
      /\ Regular(RIL_AUD_StopPlayMem) /\ Regular(RIL_AUD_PlayMemBg) 
      /\ Regular(RIL_AUD_StopPlayMemBg) /\ Regular(RIL_AUD_GetRecordState) 
      /\ Regular(RIL_ToneDet_Close)
  BY RegularFunctions
  DEF RIL_AUD_StartRecord, RIL_AUD_StopRecord, RIL_AUD_PlayMem, RIL_AUD_StopPlayMem,
      RIL_AUD_PlayMemBg, RIL_AUD_StopPlayMemBg, RIL_AUD_GetRecordState, RIL_ToneDet_Close, Plain,
      Handled, Copied, Direct, Aud, Pair, OrdinaryHandlers, PeculiarCommands, FtpResults, Modes,
      DeafHandlers, RegularCommand, Cmd
<1>6. Regular(RIL_ToneDet_Set) /\ Regular(RIL_GPS_Open) /\ Regular(RIL_GPS_SetRefLoc) 
      /\ Regular(RIL_GPS_GetPowerState) /\ Regular(RIL_GPS_Read) 
      /\ Regular(RIL_GPS_Read_TimeSync_Status) /\ Regular(RIL_GPS_EPO_Enable) 
      /\ Regular(RIL_GPS_EPO_Aid)
  BY RegularFunctions
  DEF RIL_ToneDet_Set, RIL_GPS_Open, RIL_GPS_SetRefLoc, RIL_GPS_GetPowerState, RIL_GPS_Read,
      RIL_GPS_Read_TimeSync_Status, RIL_GPS_EPO_Enable, RIL_GPS_EPO_Aid, Plain, Handled, Copied,
      Direct, Aud, Pair, OrdinaryHandlers, PeculiarCommands, FtpResults, Modes, DeafHandlers,
      RegularCommand, Cmd
<1>7. Regular(RIL_GPS_EPO_Config_APN) /\ Regular(RIL_QLBS_Cfg) /\ Regular(RIL_QLBS_Loc_Ex)
  BY RegularFunctions
  DEF RIL_GPS_EPO_Config_APN, RIL_QLBS_Cfg, RIL_QLBS_Loc_Ex, Plain, Handled, Copied, Direct, Aud,
      Pair, OrdinaryHandlers, PeculiarCommands, FtpResults, Modes, DeafHandlers, RegularCommand, Cmd
\* FtpCommands
<1>8. Regular(RIL_FTP_QFTPCLOSE) /\ Regular(RIL_FTP_QFTPPATH) /\ Regular(RIL_FTP_QFTPCFG) 
      /\ Regular(RIL_FTP_QFTPRENAME) /\ Regular(RIL_FTP_QFTPDELETE) /\ Regular(RIL_FTP_QFTPMKDIR) 
      /\ Regular(RIL_FTP_QFTPRMDIR) /\ Regular(RIL_FTP_QFTPSIZE)
  BY RegularFunctions
  DEF RIL_FTP_QFTPCLOSE, RIL_FTP_QFTPPATH, RIL_FTP_QFTPCFG, RIL_FTP_QFTPRENAME, RIL_FTP_QFTPDELETE,
      RIL_FTP_QFTPMKDIR, RIL_FTP_QFTPRMDIR, RIL_FTP_QFTPSIZE, Handled, Accepted, OnServer, Pair,
      OrdinaryHandlers, PeculiarCommands, FtpResults, Modes, DeafHandlers, RegularCommand, Cmd
<1>9. Regular(RIL_FTP_QFTPSTAT) /\ Regular(RIL_FTP_QFTPLEN)
  BY RegularFunctions
  DEF RIL_FTP_QFTPSTAT, RIL_FTP_QFTPLEN, Handled, Accepted, OnServer, Pair, OrdinaryHandlers,
      PeculiarCommands, FtpResults, Modes, DeafHandlers, RegularCommand, Cmd
\* BtCommands
<1>10. Regular(RIL_BT_Switch) /\ Regular(RIL_BT_GetPwrState) /\ Regular(RIL_BT_SetName) 
      /\ Regular(RIL_BT_GetName) /\ Regular(RIL_BT_GetLocalAddr) /\ Regular(RIL_BT_SetVisble) 
      /\ Regular(RIL_BT_GetVisble) /\ Regular(RIL_BT_StopScan)
  BY RegularFunctions
  DEF RIL_BT_Switch, RIL_BT_GetPwrState, RIL_BT_SetName, RIL_BT_GetName, RIL_BT_GetLocalAddr,
      RIL_BT_SetVisble, RIL_BT_GetVisble, RIL_BT_StopScan, Plain, Handled, Direct, Pair,
      OrdinaryHandlers, PeculiarCommands, FtpResults, Modes, DeafHandlers, RegularCommand, Cmd
<1>11. Regular(RIL_BT_PairConfirm) /\ Regular(RIL_BT_ConnAccept) /\ Regular(RIL_BT_GetSupportedProfile)
  BY RegularFunctions
  DEF RIL_BT_PairConfirm, RIL_BT_ConnAccept, RIL_BT_GetSupportedProfile, Plain, Handled, Direct,
      Pair, OrdinaryHandlers, PeculiarCommands, FtpResults, Modes, DeafHandlers, RegularCommand, Cmd
<1>12. \A f \in {"RIL_NW_GetGSMState", "RIL_NW_GetGPRSState", "RIL_NW_GetSignalQuality", "RIL_NW_SetGPRSContext",
        "RIL_NW_SetAPN", "RIL_NW_GetIPStatus", "RIL_NW_GetOperator", "RIL_SIM_GetSimState"} :
        Regular(Script[f])
  BY <1>1 DEF Script
<1>13. \A f \in {"RIL_SIM_GetIMSI", "RIL_SIM_GetCCID", "RIL_Telephony_Dial", "RIL_Telephony_Answer",
        "RIL_Telephony_Hangup"} :
        Regular(Script[f])
  BY <1>2 DEF Script
<1>14. \A f \in {"RIL_QuerySysInitStatus", "RIL_GetPowerSupply", "RIL_GetIMEI", "Ql_SecureData_Store",
        "Ql_SecureData_Read", "RIL_Alarm_Create", "RIL_Alarm_Remove", "RIL_AUD_GetChannel"} :
        Regular(Script[f])
  BY <1>3 DEF Script
<1>15. \A f \in {"RIL_AUD_SetChannel", "RIL_AUD_SetVolume_Speaker", "RIL_AUD_SetVolume_Media",
        "RIL_AUD_SetVolume_Mic", "RIL_AUD_GetVolume_Speaker", "RIL_AUD_GetVolume_Media", "RIL_AUD_PlayFile",
        "RIL_AUD_StopPlay"} :
        Regular(Script[f])
  BY <1>4 DEF Script
<1>16. \A f \in {"RIL_AUD_StartRecord", "RIL_AUD_StopRecord", "RIL_AUD_PlayMem", "RIL_AUD_StopPlayMem",
        "RIL_AUD_PlayMemBg", "RIL_AUD_StopPlayMemBg", "RIL_AUD_GetRecordState", "RIL_ToneDet_Close"} :
        Regular(Script[f])
  BY <1>5 DEF Script
<1>17. \A f \in {"RIL_ToneDet_Set", "RIL_GPS_Open", "RIL_GPS_SetRefLoc", "RIL_GPS_GetPowerState", "RIL_GPS_Read",
        "RIL_GPS_Read_TimeSync_Status", "RIL_GPS_EPO_Enable", "RIL_GPS_EPO_Aid"} :
        Regular(Script[f])
  BY <1>6 DEF Script
<1>18. \A f \in {"RIL_GPS_EPO_Config_APN", "RIL_QLBS_Cfg", "RIL_QLBS_Loc_Ex"} :
        Regular(Script[f])
  BY <1>7 DEF Script
<1>19. \A f \in {"RIL_FTP_QFTPCLOSE", "RIL_FTP_QFTPPATH", "RIL_FTP_QFTPCFG", "RIL_FTP_QFTPRENAME",
        "RIL_FTP_QFTPDELETE", "RIL_FTP_QFTPMKDIR", "RIL_FTP_QFTPRMDIR", "RIL_FTP_QFTPSIZE"} :
        Regular(Script[f])
  BY <1>8 DEF Script
<1>20. \A f \in {"RIL_FTP_QFTPSTAT", "RIL_FTP_QFTPLEN"} :
        Regular(Script[f])
  BY <1>9 DEF Script
<1>21. \A f \in {"RIL_BT_Switch", "RIL_BT_GetPwrState", "RIL_BT_SetName", "RIL_BT_GetName", "RIL_BT_GetLocalAddr",
        "RIL_BT_SetVisble", "RIL_BT_GetVisble", "RIL_BT_StopScan"} :
        Regular(Script[f])
  BY <1>10 DEF Script
<1>22. \A f \in {"RIL_BT_PairConfirm", "RIL_BT_ConnAccept", "RIL_BT_GetSupportedProfile"} :
        Regular(Script[f])
  BY <1>11 DEF Script
<1>23. \A f \in Functions : f \in SpecialFunctions \/ Regular(Script[f])
  BY <1>12, <1>13, <1>14, <1>15, <1>16, <1>17, <1>18, <1>19, <1>20, <1>21, <1>22
  DEF Functions, Script, SpecialFunctions
<1> QED
  BY <1>23

(* The verdict on a line is that of the handler the command names.         *)
LEMMA VerdictIsTheHandlers ==
  ASSUME NEW k, NEW line, NEW d
  PROVE
         /\ k.hdl = "Default" => Verdict(k, line, d) = Default_atRsp_callback(line, d)
         /\ k.hdl = "ATResponse_CREG_Handler" => Verdict(k, line, d) = ATResponse_CREG_Handler(line, d)
         /\ k.hdl = "ATResponse_CGREG_Handler" => Verdict(k, line, d) = ATResponse_CGREG_Handler(line, d)
         /\ k.hdl = "ATResponse_CSQ_Handler" => Verdict(k, line, d) = ATResponse_CSQ_Handler(line, d)
         /\ k.hdl = "ATResponse_IPStatus_Handler" => Verdict(k, line, d) = ATResponse_IPStatus_Handler(line, d)
         /\ k.hdl = "ATRsp_QIDEACT_Hdlr" => Verdict(k, line, d) = ATRsp_QIDEACT_Hdlr(line, d)
         /\ k.hdl = "ATRsp_COPS_Handler" => Verdict(k, line, d) = ATRsp_COPS_Handler(line, d)
         /\ k.hdl = "ATResponse_CPIN_Handler" => Verdict(k, line, d) = ATResponse_CPIN_Handler(line, d)
         /\ k.hdl = "ATRsp_IMSI_Handler" => Verdict(k, line, d) = ATRsp_IMSI_Handler(line, d)
         /\ k.hdl = "ATRsp_CCID_Handler" => Verdict(k, line, d) = ATRsp_CCID_Handler(line, d)
         /\ k.hdl = "Telephony_Dial_AT_handler" => Verdict(k, line, d) = Telephony_Dial_AT_handler(line, d)
         /\ k.hdl = "Telephony_Answer_AT_handler" => Verdict(k, line, d) = Telephony_Answer_AT_handler(line, d)
         /\ k.hdl = "SYS_ATResponse_Hanlder" => Verdict(k, line, d) = SYS_ATResponse_Hanlder(line, d)
         /\ k.hdl = "Power_ATResponse_Hanlder" => Verdict(k, line, d) = Power_ATResponse_Hanlder(line, d)
         /\ k.hdl = "ATRsp_IMEI_Handler" => Verdict(k, line, d) = ATRsp_IMEI_Handler(line, d)
         /\ k.hdl = "SecureData_Read_Callback" => Verdict(k, line, d) = SecureData_Read_Callback(line, d)
         /\ k.hdl = "ATResponse_QALARM_Handler" => Verdict(k, line, d) = ATResponse_QALARM_Handler(line, d)
         /\ k.hdl = "ATResponse_AUD_handler" => Verdict(k, line, d) = ATResponse_AUD_handler(line, d, s_channel_qmic)
         /\ k.hdl = "ATResponse_Handler" => Verdict(k, line, d) = ATResponse_Handler(line, d)
         /\ k.hdl = "ATResponse_QGNSSC_Handler" => Verdict(k, line, d) = ATResponse_QGNSSC_Handler(line, d)
         /\ k.hdl = "ATResponse_GPSRead_Hdlr" => Verdict(k, line, d) = ATResponse_GPSRead_Hdlr(line, d)
         /\ k.hdl = "ATResponse_GPSReadTS_Hdlr" => Verdict(k, line, d) = ATResponse_GPSReadTS_Hdlr(line, d)
         /\ k.hdl = "ATResponse_Qlbs_Ex_Handler" => Verdict(k, line, d) = ATResponse_Qlbs_Ex_Handler(line, d)
         /\ k.hdl = "ATResponse_FTP_handler_Common" => Verdict(k, line, d) = ATResponse_FTP_handler_Common(k.at, line, d)
         /\ k.hdl = "ATResponse_QFTPSTAT_handler" => Verdict(k, line, d) = ATResponse_QFTPSTAT_handler(line, d)
         /\ k.hdl = "ATResponse_QFTPLEN_handler" => Verdict(k, line, d) = ATResponse_QFTPLEN_handler(line, d)
         /\ k.hdl = "Callback_QIDEACT" => Verdict(k, line, d) = Callback_QIDEACT(line, d)
         /\ k.hdl = "ATRsp_QBTPWR_Hdlr" => Verdict(k, line, d) = ATRsp_QBTPWR_Hdlr(line, d)
         /\ k.hdl = "ATRsp_QBTNAME_Hdlr" => Verdict(k, line, d) = ATRsp_QBTNAME_Hdlr(line, d)
         /\ k.hdl = "ATRsp_QBTADDR_Hdlr" => Verdict(k, line, d) = ATRsp_QBTADDR_Hdlr(line, d)
         /\ k.hdl = "ATRsp_QBTVISB_Hdlr" => Verdict(k, line, d) = ATRsp_QBTVISB_Hdlr(line, d)
         /\ k.hdl = "ATRsp_QBTGPROF_Hdlr" => Verdict(k, line, d) = ATRsp_QBTGPROF_Hdlr(line, d)
         /\ k.hdl = "AtRsp_QBTCONND_Hdlr" => Verdict(k, line, d) = AtRsp_QBTCONND_Hdlr(line, d)
         /\ k.hdl = "ATRsp_QBTSPPSEND_Hdlr" => Verdict(k, line, d) = ATRsp_QBTSPPSEND_Hdlr(line, d)
         /\ k.hdl = "ATRsp_QBTSPPREAD_Hdlr" => Verdict(k, line, d) = ATRsp_QBTSPPREAD_Hdlr(line, d, sppState)
BY Zenon DEF Verdict

IsVerdict(v) == v.verdict \in {"continue", "success", "failed"}

(* Every handler answers CONTINUE, SUCCESS or FAILED.                      *)
LEMMA HandlersGiveVerdicts ==
  ASSUME NEW k, NEW line, NEW d, SoundCommand(k)
  PROVE  IsVerdict(Verdict(k, line, d))
<1>1. /\ IsVerdict(Default_atRsp_callback(line, d))
      /\ IsVerdict(ATResponse_CREG_Handler(line, d))
      /\ IsVerdict(ATResponse_CGREG_Handler(line, d))
      /\ IsVerdict(ATResponse_CSQ_Handler(line, d))
      /\ IsVerdict(ATResponse_IPStatus_Handler(line, d))
      /\ IsVerdict(ATRsp_QIDEACT_Hdlr(line, d))
  BY  DEF Default_atRsp_callback, ATResponse_CREG_Handler, ATResponse_CGREG_Handler,
         ATResponse_CSQ_Handler, ATResponse_IPStatus_Handler, ATRsp_QIDEACT_Hdlr, Stores,
         StoresOnly, PlainAnswer, Final, FinalCms, EndsWith, Continue, Success, Failed, IsVerdict
<1>2. /\ IsVerdict(ATRsp_COPS_Handler(line, d))
      /\ IsVerdict(ATResponse_CPIN_Handler(line, d))
      /\ IsVerdict(ATRsp_IMSI_Handler(line, d))
      /\ IsVerdict(ATRsp_CCID_Handler(line, d))
      /\ IsVerdict(Telephony_Dial_AT_handler(line, d))
      /\ IsVerdict(Telephony_Answer_AT_handler(line, d))
  BY  DEF ATRsp_COPS_Handler, ATResponse_CPIN_Handler, ATRsp_IMSI_Handler, ATRsp_CCID_Handler,
         Telephony_Dial_AT_handler, Telephony_Answer_AT_handler, Stores, StoresOnly, PlainAnswer,
         Final, FinalCms, EndsWith, Continue, Success, Failed, IsVerdict
<1>3. /\ IsVerdict(SYS_ATResponse_Hanlder(line, d))
      /\ IsVerdict(Power_ATResponse_Hanlder(line, d))
      /\ IsVerdict(ATRsp_IMEI_Handler(line, d))
      /\ IsVerdict(SecureData_Read_Callback(line, d))
      /\ IsVerdict(ATResponse_QALARM_Handler(line, d))
      /\ IsVerdict(ATResponse_AUD_handler(line, d, s_channel_qmic))
  BY  DEF SYS_ATResponse_Hanlder, Power_ATResponse_Hanlder, ATRsp_IMEI_Handler,
         SecureData_Read_Callback, ATResponse_QALARM_Handler, ATResponse_AUD_handler, Stores,
         StoresOnly, PlainAnswer, Final, FinalCms, EndsWith, Continue, Success, Failed, IsVerdict
<1>4. /\ IsVerdict(ATResponse_Handler(line, d))
      /\ IsVerdict(ATResponse_QGNSSC_Handler(line, d))
      /\ IsVerdict(ATResponse_GPSRead_Hdlr(line, d))
      /\ IsVerdict(ATResponse_GPSReadTS_Hdlr(line, d))
      /\ IsVerdict(ATResponse_Qlbs_Ex_Handler(line, d))
      /\ IsVerdict(ATResponse_FTP_handler_Common(k.at, line, d))
  BY  DEF ATResponse_Handler, ATResponse_QGNSSC_Handler, ATResponse_GPSRead_Hdlr,
         ATResponse_GPSReadTS_Hdlr, ATResponse_Qlbs_Ex_Handler, ATResponse_FTP_handler_Common,
         Stores, StoresOnly, PlainAnswer, Final, FinalCms, EndsWith, Continue, Success, Failed,
         IsVerdict
<1>5. /\ IsVerdict(ATResponse_QFTPSTAT_handler(line, d))
      /\ IsVerdict(ATResponse_QFTPLEN_handler(line, d))
      /\ IsVerdict(Callback_QIDEACT(line, d))
      /\ IsVerdict(ATRsp_QBTPWR_Hdlr(line, d))
      /\ IsVerdict(ATRsp_QBTNAME_Hdlr(line, d))
      /\ IsVerdict(ATRsp_QBTADDR_Hdlr(line, d))
  BY  DEF ATResponse_QFTPSTAT_handler, ATResponse_QFTPLEN_handler, Callback_QIDEACT,
         ATRsp_QBTPWR_Hdlr, ATRsp_QBTNAME_Hdlr, ATRsp_QBTADDR_Hdlr, Stores, StoresOnly, PlainAnswer,
         Final, FinalCms, EndsWith, Continue, Success, Failed, IsVerdict
<1>6. /\ IsVerdict(ATRsp_QBTVISB_Hdlr(line, d))
      /\ IsVerdict(ATRsp_QBTGPROF_Hdlr(line, d))
      /\ IsVerdict(AtRsp_QBTCONND_Hdlr(line, d))
      /\ IsVerdict(ATRsp_QBTSPPSEND_Hdlr(line, d))
      /\ IsVerdict(ATRsp_QBTSPPREAD_Hdlr(line, d, sppState))
  BY  DEF ATRsp_QBTVISB_Hdlr, ATRsp_QBTGPROF_Hdlr, AtRsp_QBTCONND_Hdlr, ATRsp_QBTSPPSEND_Hdlr,
         ATRsp_QBTSPPREAD_Hdlr, Stores, StoresOnly, PlainAnswer, Final, FinalCms, EndsWith,
         Continue, Success, Failed, IsVerdict
<1>7. k.hdl \in OrdinaryHandlers => IsVerdict(Verdict(k, line, d))
  BY VerdictIsTheHandlers, <1>1, <1>2, <1>3, <1>4, <1>5, <1>6 DEF OrdinaryHandlers
<1> QED
  BY VerdictIsTheHandlers, <1>1, <1>2, <1>3, <1>4, <1>5, <1>6, <1>7 DEF SoundCommand, Pair

Faulty == {"ERROR", "+CME ERROR:"}

Ends(k, line) ==
  \/ k.hdl \in OrdinaryHandlers /\ line.kind \in Faulty \cup {"OK"}
  \/ k.hdl = "ATResponse_FTP_handler_Common" /\ line.kind \in Faulty \cup {k.at}
  \/ k.hdl = "ATResponse_IPStatus_Handler" /\ line.kind # "OK"
  \/ k.hdl \in {"Telephony_Dial_AT_handler", "Telephony_Answer_AT_handler"}
       /\ line.kind \in Faulty \cup {"OK", "NO CARRIER"}

(* The line each command waits for ends it.                                *)
LEMMA EndingLines ==
  ASSUME NEW k, NEW line, NEW d, SoundCommand(k), Ends(k, line)
  PROVE  Verdict(k, line, d).verdict # "continue"
<1> DEFINE E == line.kind \in Faulty \cup {"OK"}
           V(v) == v.verdict # "continue"
<1>1. /\ E => V(Default_atRsp_callback(line, d))
      /\ E => V(ATResponse_CREG_Handler(line, d))
      /\ E => V(ATResponse_CGREG_Handler(line, d))
      /\ E => V(ATResponse_CSQ_Handler(line, d))
      /\ E => V(ATRsp_COPS_Handler(line, d))
      /\ E => V(ATResponse_CPIN_Handler(line, d))
  BY  DEF Default_atRsp_callback, ATResponse_CREG_Handler, ATResponse_CGREG_Handler,
         ATResponse_CSQ_Handler, ATRsp_COPS_Handler, ATResponse_CPIN_Handler, Stores, StoresOnly,
         PlainAnswer, Final, FinalCms, EndsWith, Continue, Success, Failed, Faulty, Sentences
<1>2. /\ E => V(ATRsp_IMSI_Handler(line, d))
      /\ E => V(ATRsp_CCID_Handler(line, d))
      /\ E => V(SYS_ATResponse_Hanlder(line, d))
      /\ E => V(Power_ATResponse_Hanlder(line, d))
      /\ E => V(ATRsp_IMEI_Handler(line, d))
      /\ E => V(SecureData_Read_Callback(line, d))
  BY  DEF ATRsp_IMSI_Handler, ATRsp_CCID_Handler, SYS_ATResponse_Hanlder, Power_ATResponse_Hanlder,
         ATRsp_IMEI_Handler, SecureData_Read_Callback, Stores, StoresOnly, PlainAnswer, Final,
         FinalCms, EndsWith, Continue, Success, Failed, Faulty, Sentences
<1>3. /\ E => V(ATResponse_AUD_handler(line, d, s_channel_qmic))
      /\ E => V(ATResponse_Handler(line, d))
      /\ E => V(ATResponse_QGNSSC_Handler(line, d))
      /\ E => V(ATResponse_GPSRead_Hdlr(line, d))
      /\ E => V(ATResponse_GPSReadTS_Hdlr(line, d))
      /\ E => V(ATResponse_Qlbs_Ex_Handler(line, d))
  BY  DEF ATResponse_AUD_handler, ATResponse_Handler, ATResponse_QGNSSC_Handler,
         ATResponse_GPSRead_Hdlr, ATResponse_GPSReadTS_Hdlr, ATResponse_Qlbs_Ex_Handler, Stores,
         StoresOnly, PlainAnswer, Final, FinalCms, EndsWith, Continue, Success, Failed, Faulty,
         Sentences
<1>4. /\ E => V(ATResponse_QFTPSTAT_handler(line, d))
      /\ E => V(ATResponse_QFTPLEN_handler(line, d))
      /\ E => V(ATRsp_QBTPWR_Hdlr(line, d))
      /\ E => V(ATRsp_QBTNAME_Hdlr(line, d))
      /\ E => V(ATRsp_QBTADDR_Hdlr(line, d))
      /\ E => V(ATRsp_QBTVISB_Hdlr(line, d))
  BY  DEF ATResponse_QFTPSTAT_handler, ATResponse_QFTPLEN_handler, ATRsp_QBTPWR_Hdlr,
         ATRsp_QBTNAME_Hdlr, ATRsp_QBTADDR_Hdlr, ATRsp_QBTVISB_Hdlr, Stores, StoresOnly,
         PlainAnswer, Final, FinalCms, EndsWith, Continue, Success, Failed, Faulty, Sentences
<1>5. /\ E => V(ATRsp_QBTGPROF_Hdlr(line, d))
      /\ E => V(ATRsp_QBTSPPSEND_Hdlr(line, d))
  BY  DEF ATRsp_QBTGPROF_Hdlr, ATRsp_QBTSPPSEND_Hdlr, Stores, StoresOnly, PlainAnswer, Final,
         FinalCms, EndsWith, Continue, Success, Failed, Faulty, Sentences
<1>0. k.hdl \in OrdinaryHandlers => E
  BY DEF Ends, OrdinaryHandlers
<1>6. k.hdl \in OrdinaryHandlers => V(Verdict(k, line, d))
  BY VerdictIsTheHandlers, <1>0, <1>1, <1>2, <1>3, <1>4, <1>5 DEF OrdinaryHandlers
<1>7. k.hdl = "ATResponse_FTP_handler_Common" => V(ATResponse_FTP_handler_Common(k.at, line, d))
  <2>1. k.hdl = "ATResponse_FTP_handler_Common" => k.at # "OK" /\ line.kind \in Faulty \cup {k.at}
    BY DEF SoundCommand, Pair, OrdinaryHandlers, Ends, FtpResults
  <2>2. line.kind = k.at /\ k.at # "OK" => V(ATResponse_FTP_handler_Common(k.at, line, d))
    BY DEF ATResponse_FTP_handler_Common, Success
  <2>3. V(FinalCms(line, d)) \/ line.kind \notin Faulty
    BY DEF FinalCms, EndsWith, Success, Failed, Faulty
  <2>4. line.kind \in Faulty /\ line.kind # k.at => V(ATResponse_FTP_handler_Common(k.at, line, d))
    BY <2>3 DEF ATResponse_FTP_handler_Common, Faulty
  <2> QED
    BY <2>1, <2>2, <2>4
<1>8. k.hdl = "ATResponse_IPStatus_Handler" => V(ATResponse_IPStatus_Handler(line, d))
  BY DEF Ends, ATResponse_IPStatus_Handler, OrdinaryHandlers, Success, Failed
<1>9. k.hdl = "Telephony_Dial_AT_handler" => V(Telephony_Dial_AT_handler(line, d))
  BY DEF Ends, Telephony_Dial_AT_handler, OrdinaryHandlers, Faulty, Success, Failed
<1>10. k.hdl = "Telephony_Answer_AT_handler" => V(Telephony_Answer_AT_handler(line, d))
  BY DEF Ends, Telephony_Answer_AT_handler, OrdinaryHandlers, Faulty, Success, Failed
<1> HIDE DEF V
<1>11. V(Verdict(k, line, d))
  <2>1. CASE k.hdl \in OrdinaryHandlers
    BY <2>1, <1>6
  <2>2. CASE k.hdl = "ATResponse_FTP_handler_Common"
    <3>1. Verdict(k, line, d) = ATResponse_FTP_handler_Common(k.at, line, d)
      BY <2>2 DEF Verdict
    <3> QED
      BY <2>2, <3>1, <1>7
  <2>3. CASE k.hdl = "ATResponse_IPStatus_Handler"
    <3>1. Verdict(k, line, d) = ATResponse_IPStatus_Handler(line, d)
      BY <2>3 DEF Verdict
    <3> QED
      BY <2>3, <3>1, <1>8
  <2>4. CASE k.hdl = "Telephony_Dial_AT_handler"
    <3>1. Verdict(k, line, d) = Telephony_Dial_AT_handler(line, d)
      BY <2>4 DEF Verdict
    <3> QED
      BY <2>4, <3>1, <1>9
  <2>5. CASE k.hdl = "Telephony_Answer_AT_handler"
    <3>1. Verdict(k, line, d) = Telephony_Answer_AT_handler(line, d)
      BY <2>5 DEF Verdict
    <3> QED
      BY <2>5, <3>1, <1>10
  <2> QED
    BY <2>1, <2>2, <2>3, <2>4, <2>5 DEF Ends
<1> QED
  BY <1>11 DEF V

(* The shapes of the answers of the module.                                *)
LEMMA DoneCases ==
  ASSUME NEW cmd, NEW lines \in Done(cmd)
  PROVE  \/ cmd \in FtpResults \cup {"+QFTPSIZE:"} /\ \E vals : lines \in AfterOk(cmd, vals)
         \/ cmd = "AT+QISTAT" /\ \E vals : lines \in AfterOk("STATE:", vals)
         \/ cmd = "AT+QIDEACT" /\ lines \in {<<Line("DEACT OK", "")>>}
         \/ cmd \in {"ATD", "ATA"} /\ lines \in {<<OkLine>>, <<Line("NO CARRIER", "")>>}
         \/ cmd = "AT+QSPPREAD" /\ lines \in SppDataRead
         \/ lines \in GnssReports \/ lines \in Profiles \/ lines \in {<<OkLine>>}
         \/ \E k, vals : lines \in BeforeOk(k, vals)
  BY Zenon DEF Done

IsSequence(s) == \E S : s \in Seq(S)

LastLine(lines) == lines[Len(lines)]

WellEnded(lines, l) == IsSequence(lines) /\ Len(lines) \in Nat \ {0} /\ LastLine(lines) = l

(* Length and last element of the answers written out.                     *)
LEMMA ShortSequences ==
  /\ \A a : WellEnded(<<a>>, a)
  /\ \A a, b : WellEnded(<<a, b>>, b)
  /\ \A a, b, c : WellEnded(<<a, b, c>>, c)
  /\ \A a, b, c, d : WellEnded(<<a, b, c, d>>, d)
<1>1. ASSUME NEW a PROVE WellEnded(<<a>>, a)
  <2>1. <<a>> \in Seq({a})
    OBVIOUS
  <2>2. Len(<<a>>) \in Nat \ {0} /\ LastLine(<<a>>) = a
    BY DEF LastLine
  <2> QED
    BY <2>1, <2>2, Zenon DEF WellEnded, IsSequence
<1>2. ASSUME NEW a, NEW b PROVE WellEnded(<<a, b>>, b)
  <2>1. <<a, b>> \in Seq({a, b})
    OBVIOUS
  <2>2. Len(<<a, b>>) \in Nat \ {0} /\ LastLine(<<a, b>>) = b
    BY DEF LastLine
  <2> QED
    BY <2>1, <2>2, Zenon DEF WellEnded, IsSequence
<1>3. ASSUME NEW a, NEW b, NEW c PROVE WellEnded(<<a, b, c>>, c)
  <2>1. <<a, b, c>> \in Seq({a, b, c})
    OBVIOUS
  <2>2. Len(<<a, b, c>>) \in Nat \ {0} /\ LastLine(<<a, b, c>>) = c
    BY DEF LastLine
  <2> QED
    BY <2>1, <2>2, Zenon DEF WellEnded, IsSequence
<1>4. ASSUME NEW a, NEW b, NEW c, NEW d PROVE WellEnded(<<a, b, c, d>>, d)
  <2>1. <<a, b, c, d>> \in Seq({a, b, c, d})
    OBVIOUS
  <2>2. Len(<<a, b, c, d>>) \in Nat \ {0} /\ LastLine(<<a, b, c, d>>) = d
    BY DEF LastLine
  <2> QED
    BY <2>1, <2>2, Zenon DEF WellEnded, IsSequence
<1> QED
  BY <1>1, <1>2, <1>3, <1>4, Zenon

(* Every answer is a sequence that is not empty.                           *)
LEMMA ResponsesAreWellEnded ==
  ASSUME NEW k, NEW v, NEW vals, NEW lines
  PROVE  /\ lines \in AfterOk(k, vals) => \E u : WellEnded(lines, Line(k, u))
         /\ lines \in BeforeOk(k, vals) => WellEnded(lines, OkLine)
         /\ lines \in GnssReports => WellEnded(lines, OkLine)
         /\ lines \in Profiles => WellEnded(lines, OkLine)
         /\ lines \in {<<OkLine>>} => WellEnded(lines, OkLine)
         /\ lines \in {<<OkLine>>, <<Line(k, v)>>} => WellEnded(lines, OkLine) \/ WellEnded(lines, Line(k, v))
         /\ lines \in Errors => \E l : WellEnded(lines, l) /\ l.kind \in Faulty
<1>1. lines \in AfterOk(k, vals) => \E u : WellEnded(lines, Line(k, u))
  BY ShortSequences DEF AfterOk
<1>2. lines \in BeforeOk(k, vals) => WellEnded(lines, OkLine)
  BY ShortSequences DEF BeforeOk
<1>3. lines \in GnssReports => WellEnded(lines, OkLine)
  BY ShortSequences DEF GnssReports
<1>4. lines \in Profiles => WellEnded(lines, OkLine)
  BY ShortSequences DEF Profiles, BeforeOk
<1>5. lines \in {<<OkLine>>} => WellEnded(lines, OkLine)
  BY ShortSequences
<1>6. lines \in {<<OkLine>>, <<Line(k, v)>>} => WellEnded(lines, OkLine) \/ WellEnded(lines, Line(k, v))
  BY ShortSequences
<1>7. lines \in Errors => \E l : WellEnded(lines, l) /\ l.kind \in Faulty
  <2>1. ErrorLine.kind \in Faulty /\ \A n : CmeError(n).kind \in Faulty
    BY DEF ErrorLine, CmeError, Line, Faulty
  <2> QED
    BY ShortSequences, <2>1 DEF Errors
<1> QED
  BY <1>1, <1>2, <1>3, <1>4, <1>5, <1>6, <1>7, Zenon

(* The last line of an answer ends its command, but for the handlers that are deaf to errors. *)
LEMMA ResponsesEnd ==
  ASSUME NEW k, SoundCommand(k), k.hdl \notin DeafHandlers, NEW lines \in Done(k.at) \cup Errors
  PROVE  IsSequence(lines) /\ Len(lines) \in Nat \ {0} /\ Ends(k, LastLine(lines))
<1>1. CASE lines \in Errors
  <2>1. PICK l : WellEnded(lines, l) /\ l.kind \in Faulty
    BY <1>1, ResponsesAreWellEnded
  <2>2. Ends(k, l)
    BY <2>1 DEF SoundCommand, Pair, DeafHandlers, Ends, Faulty
  <2> QED
    BY <2>1, <2>2 DEF WellEnded
<1>2. CASE lines \in Done(k.at)
  <2>1. CASE k.hdl \in OrdinaryHandlers /\ k.at \notin PeculiarCommands
    <3>1. WellEnded(lines, OkLine)
      BY <1>2, <2>1, DoneCases, ResponsesAreWellEnded DEF PeculiarCommands
    <3>2. OkLine.kind = "OK"
      BY DEF OkLine, Line
    <3> QED
      BY <2>1, <3>1, <3>2 DEF WellEnded, Ends
  <2>2. CASE k.hdl = "ATResponse_FTP_handler_Common" /\ k.at \in FtpResults \cup {"+QFTPSIZE:"}
    <3>1. \E vals : lines \in AfterOk(k.at, vals)
      BY <1>2, <2>2 DEF Done, FtpResults, Queried
    <3>2. \E u : WellEnded(lines, Line(k.at, u))
      BY <3>1, ResponsesAreWellEnded
    <3> QED
      BY <2>2, <3>2 DEF WellEnded, Ends, Line
  <2>3. CASE k.hdl = "ATResponse_IPStatus_Handler" /\ k.at = "AT+QISTAT"
    <3>1. \E vals : lines \in AfterOk("STATE:", vals)
      BY <1>2, <2>3 DEF Done, FtpResults, Queried
    <3>2. \E u : WellEnded(lines, Line("STATE:", u))
      BY <3>1, ResponsesAreWellEnded
    <3> QED
      BY <2>3, <3>2 DEF WellEnded, Ends, Line
  <2>4. CASE k.hdl \in {"Telephony_Dial_AT_handler", "Telephony_Answer_AT_handler"} /\ k.at \in {"ATD", "ATA"}
    <3>1. lines \in {<<OkLine>>, <<Line("NO CARRIER", "")>>}
      BY <1>2, <2>4 DEF Done, FtpResults, Queried
    <3>2. WellEnded(lines, OkLine) \/ WellEnded(lines, Line("NO CARRIER", ""))
      BY <3>1, ResponsesAreWellEnded
    <3>3. OkLine.kind = "OK" /\ Line("NO CARRIER", "").kind = "NO CARRIER"
      BY DEF OkLine, Line
    <3> QED
      BY <2>4, <3>2, <3>3 DEF WellEnded, Ends
  <2> QED
    BY <2>1, <2>2, <2>3, <2>4 DEF SoundCommand, Pair, DeafHandlers
<1> QED
  BY <1>1, <1>2

Logins == {"RIL_FTP_QFTPOPEN", "RIL_FTP_QFTPOPEN_Anonymous"}

DeafFunctions ==
  {"RIL_NW_ClosePDPContext", "RIL_FTP_QIDEACT", "RIL_Alarm_Query", "RIL_BT_SPP_DirectConn"}

(* A function of one command.                                              *)
HasOne(f, at, hdl, cell, mode) ==
  LET F == Script[f]
  IN /\ F.mode = mode /\ Len(F.cmds) = 1 /\ DOMAIN F.cmds = {1}
     /\ F.cmds[1].at = at /\ F.cmds[1].hdl = hdl /\ F.cmds[1].cell = cell

(* The rows of the functions with a cell of their own or a deaf handler.   *)
LEMMA SpecialRows ==
  /\ HasOne("RIL_ToneDet_Get", "AT+QTONEDET=,0", "ATResponse_Handler", "threshold", "none")
  /\ HasOne("RIL_BT_SPP_Send", "AT+QSPPSEND", "ATRsp_QBTSPPSEND_Hdlr", "snd", "direct")
  /\ HasOne("RIL_BT_SPP_Read", "AT+QSPPREAD", "ATRsp_QBTSPPREAD_Hdlr", "rcv", "direct")
  /\ HasOne("RIL_NW_ClosePDPContext", "AT+QIDEACT", "ATRsp_QIDEACT_Hdlr", "data", "none")
  /\ HasOne("RIL_FTP_QIDEACT", "AT+QIDEACT", "Callback_QIDEACT", "data", "none")
  /\ HasOne("RIL_Alarm_Query", "AT+QALARM?", "ATResponse_QALARM_Handler", "data", "direct")
  /\ HasOne("RIL_BT_SPP_DirectConn", "AT+QBTCONND", "AtRsp_QBTCONND_Hdlr", "data", "none")
<1>1. HasOne("RIL_ToneDet_Get", "AT+QTONEDET=,0", "ATResponse_Handler", "threshold", "none")
  <2>1. Script["RIL_ToneDet_Get"] = RIL_ToneDet_Get
    BY DEF Script
  <2> DEFINE k == [Cmd("AT+QTONEDET=,0", "ATResponse_Handler") EXCEPT !.cell = "threshold"]
  <2>2. RIL_ToneDet_Get.cmds = <<k>> /\ RIL_ToneDet_Get.mode = "none"
    BY DEF RIL_ToneDet_Get, Checked, Function
  <2>3. k.at = "AT+QTONEDET=,0" /\ k.hdl = "ATResponse_Handler" /\ k.cell = "threshold"
    BY DEF Cmd
  <2> HIDE DEF k
  <2>4. Len(<<k>>) = 1 /\ DOMAIN <<k>> = {1} /\ <<k>>[1] = k
    OBVIOUS
  <2> QED
    BY <2>1, <2>2, <2>3, <2>4 DEF HasOne
<1>2. HasOne("RIL_BT_SPP_Send", "AT+QSPPSEND", "ATRsp_QBTSPPSEND_Hdlr", "snd", "direct")
  BY DEF HasOne, Script, RIL_BT_SPP_Send, Checked, Function, Cmd
<1>3. HasOne("RIL_BT_SPP_Read", "AT+QSPPREAD", "ATRsp_QBTSPPREAD_Hdlr", "rcv", "direct")
  BY DEF HasOne, Script, RIL_BT_SPP_Read, Checked, Function, Cmd
<1>4. HasOne("RIL_NW_ClosePDPContext", "AT+QIDEACT", "ATRsp_QIDEACT_Hdlr", "data", "none")
  BY DEF HasOne, Script, RIL_NW_ClosePDPContext, Handled, Function, Cmd
<1>5. HasOne("RIL_FTP_QIDEACT", "AT+QIDEACT", "Callback_QIDEACT", "data", "none")
  BY DEF HasOne, Script, RIL_FTP_QIDEACT, Handled, Function, Cmd
<1>6. HasOne("RIL_Alarm_Query", "AT+QALARM?", "ATResponse_QALARM_Handler", "data", "direct")
  BY DEF HasOne, Script, RIL_Alarm_Query, Checked, Direct, Function, Cmd
<1>7. HasOne("RIL_BT_SPP_DirectConn", "AT+QBTCONND", "AtRsp_QBTCONND_Hdlr", "data", "none")
  BY DEF HasOne, Script, RIL_BT_SPP_DirectConn, Checked, Handled, Function, Cmd
<1> QED
  BY <1>1, <1>2, <1>3, <1>4, <1>5, <1>6, <1>7

(* The two that send two commands.                                         *)
LEMMA MicRow ==
  LET F == Script["RIL_AUD_GetVolume_Mic"]
  IN /\ F.mode = "direct" /\ Len(F.cmds) = 2 /\ DOMAIN F.cmds = {1, 2}
     /\ F.cmds[1].at = "AT+QAUDCH?" /\ F.cmds[1].hdl = "ATResponse_AUD_handler" /\ F.cmds[1].cell = "qmic"
     /\ F.cmds[2].at = "AT+QMIC?" /\ F.cmds[2].hdl = "ATResponse_AUD_handler" /\ F.cmds[2].cell = "data"
BY DEF Script, RIL_AUD_GetVolume_Mic, Checked, Function, Aud, Cmd

LEMMA OpenRow ==
  LET F == Script["RIL_NW_OpenPDPContext"]
  IN /\ F.mode = "none" /\ Len(F.cmds) = 2 /\ DOMAIN F.cmds = {1, 2}
     /\ F.cmds[1].at = "AT+QIREGAPP" /\ F.cmds[1].hdl = "Default" /\ F.cmds[1].cell = "data"
     /\ F.cmds[2].at = "AT+QIACT" /\ F.cmds[2].hdl = "Default" /\ F.cmds[2].cell = "data"
BY DEF Script, RIL_NW_OpenPDPContext, Function, Cmd

LoginCommand(k) == Pair(k.at, k.hdl) /\ k.cell = "data" /\ k.hdl \notin DeafHandlers

(* The sequences of RIL_FTP_QFTPOPEN, with and without user and password.  *)
LEMMA LoginRows ==
  ASSUME NEW f \in Logins
  PROVE  /\ Script[f].mode = "accepted"
         /\ Len(Script[f].cmds) \in Nat \ {0} /\ DOMAIN Script[f].cmds = 1..Len(Script[f].cmds)
         /\ \A i \in DOMAIN Script[f].cmds : LoginCommand(Script[f].cmds[i])
<1>1. ASSUME NEW a, NEW b, NEW c, NEW d, NEW e, NEW p, NEW q
      PROVE  LET s == (<<p>> \o <<q>>) \o <<a, b, c, d, e>>
                 r == (<<>> \o <<>>) \o <<a, b, c, d, e>>
             IN /\ Len(s) = 7 /\ DOMAIN s = 1..7 /\ \A i \in 1..7 : s[i] \in {a, b, c, d, e, p, q}
                /\ Len(r) = 5 /\ DOMAIN r = 1..5 /\ \A i \in 1..5 : r[i] \in {a, b, c, d, e}
  OBVIOUS
<1>2. /\ LoginCommand(Cmd("AT+QFTPUSER", "Default")) /\ LoginCommand(Cmd("AT+QFTPPASS", "Default"))
      /\ LoginCommand(Cmd("AT+QFTPCFG=1", "Default")) /\ LoginCommand(Cmd("AT+QFTPCFG=6", "Default"))
      /\ LoginCommand(Cmd("AT+QIREGAPP", "Default")) /\ LoginCommand(Cmd("AT+QIACT", "Default"))
      /\ LoginCommand(Accepted("+QFTPOPEN:"))
  BY DEF LoginCommand, Cmd, Pair, PeculiarCommands, OrdinaryHandlers, FtpResults, Accepted, DeafHandlers
<1> DEFINE IsLogin(F) ==
             /\ F.mode = "accepted" /\ Len(F.cmds) \in Nat \ {0} /\ DOMAIN F.cmds = 1..Len(F.cmds)
             /\ \A i \in DOMAIN F.cmds : LoginCommand(F.cmds[i])
<1>3. IsLogin(RIL_FTP_QFTPOPEN(TRUE, TRUE)) /\ IsLogin(RIL_FTP_QFTPOPEN(FALSE, FALSE))
  BY <1>1, <1>2 DEF RIL_FTP_QFTPOPEN, Function
<1>4. IsLogin(Script["RIL_FTP_QFTPOPEN"]) /\ IsLogin(Script["RIL_FTP_QFTPOPEN_Anonymous"])
  BY <1>3, ZenonT(60) DEF Script
<1> QED
  BY <1>4 DEF Logins

-----------------------------------------------------------------------------
(* What the rest of the proofs needs to know of the table.                 *)
LEMMA AllFunctionsAreSound == \A f \in Functions : Sound(Script[f])
<1>1. \A f : Regular(Script[f]) => Sound(Script[f])
  BY DEF Regular, Sound, RegularCommand, SoundCommand, Cells
<1>2. \A f \in Logins : Sound(Script[f])
  BY LoginRows DEF Sound, LoginCommand, SoundCommand, Modes, Cells
<1>3. \A f \in {"RIL_ToneDet_Get", "RIL_BT_SPP_Send", "RIL_BT_SPP_Read"} \cup DeafFunctions : Sound(Script[f])
  <2>1. ASSUME NEW f, NEW at, NEW hdl, NEW cell \in Cells, NEW mode \in Modes,
               HasOne(f, at, hdl, cell, mode), Pair(at, hdl)
        PROVE  Sound(Script[f])
    BY <2>1 DEF HasOne, Sound, SoundCommand
  <2>2. /\ Pair("AT+QTONEDET=,0", "ATResponse_Handler") /\ Pair("AT+QSPPSEND", "ATRsp_QBTSPPSEND_Hdlr")
        /\ Pair("AT+QSPPREAD", "ATRsp_QBTSPPREAD_Hdlr") /\ Pair("AT+QIDEACT", "ATRsp_QIDEACT_Hdlr")
        /\ Pair("AT+QIDEACT", "Callback_QIDEACT") /\ Pair("AT+QALARM?", "ATResponse_QALARM_Handler")
        /\ Pair("AT+QBTCONND", "AtRsp_QBTCONND_Hdlr")
    BY DEF Pair, OrdinaryHandlers, PeculiarCommands, FtpResults
  <2>3. {"data", "threshold", "snd", "rcv"} \subseteq Cells /\ {"none", "direct"} \subseteq Modes
    BY DEF Cells, Modes
  <2>4. /\ Sound(Script["RIL_ToneDet_Get"]) /\ Sound(Script["RIL_BT_SPP_Send"])
        /\ Sound(Script["RIL_BT_SPP_Read"]) /\ Sound(Script["RIL_NW_ClosePDPContext"])
        /\ Sound(Script["RIL_FTP_QIDEACT"]) /\ Sound(Script["RIL_Alarm_Query"])
        /\ Sound(Script["RIL_BT_SPP_DirectConn"])
    BY <2>1, <2>2, <2>3, SpecialRows
  <2> QED
    BY <2>4 DEF DeafFunctions
<1>4. Sound(Script["RIL_AUD_GetVolume_Mic"]) /\ Sound(Script["RIL_NW_OpenPDPContext"])
  <2>1. /\ Pair("AT+QAUDCH?", "ATResponse_AUD_handler") /\ Pair("AT+QMIC?", "ATResponse_AUD_handler")
        /\ Pair("AT+QIREGAPP", "Default") /\ Pair("AT+QIACT", "Default")
    BY DEF Pair, OrdinaryHandlers, PeculiarCommands, FtpResults
  <2>2. {"data", "qmic"} \subseteq Cells /\ {"none", "direct"} \subseteq Modes
    BY DEF Cells, Modes
  <2>3. Sound(Script["RIL_AUD_GetVolume_Mic"])
    BY <2>1, <2>2, MicRow DEF Sound, SoundCommand
  <2>4. Sound(Script["RIL_NW_OpenPDPContext"])
    BY <2>1, <2>2, OpenRow DEF Sound, SoundCommand
  <2> QED
    BY <2>3, <2>4
<1> QED
  BY <1>1, <1>2, <1>3, <1>4, MostFunctionsAreRegular DEF SpecialFunctions, Logins, DeafFunctions

(* Which functions use which static.                                       *)
LEMMA CellsAreUsedBy ==
  ASSUME NEW f \in Functions, NEW i \in DOMAIN Script[f].cmds
  PROVE  /\ Script[f].cmds[i].cell = "threshold" <=> f = "RIL_ToneDet_Get"
         /\ Script[f].cmds[i].cell = "snd" <=> f = "RIL_BT_SPP_Send"
         /\ Script[f].cmds[i].cell = "rcv" <=> f = "RIL_BT_SPP_Read"
         /\ Script[f].cmds[i].cell = "qmic" <=> (f = "RIL_AUD_GetVolume_Mic" /\ i = 1)
         /\ Script[f].cmds[i].hdl \in DeafHandlers => f \in DeafFunctions \cup {"RIL_BT_SPP_Read"}
         /\ Script[f].cmds[i].at = "AT+QIACT" =>
              f \in Logins \/ (f = "RIL_NW_OpenPDPContext" /\ i = 2)
<1> USE DEF DeafHandlers, DeafFunctions
<1>1. CASE f \in {"RIL_ToneDet_Get", "RIL_BT_SPP_Send", "RIL_BT_SPP_Read"} \cup DeafFunctions
  <2>1. CASE f = "RIL_ToneDet_Get"
    BY <2>1, SpecialRows DEF HasOne
  <2>2. CASE f = "RIL_BT_SPP_Send"
    BY <2>2, SpecialRows DEF HasOne
  <2>3. CASE f = "RIL_BT_SPP_Read"
    BY <2>3, SpecialRows DEF HasOne
  <2>4. CASE f \in DeafFunctions
    BY <2>4, SpecialRows, ZenonT(60) DEF HasOne, Logins
  <2> QED
    BY <1>1, <2>1, <2>2, <2>3, <2>4
<1>2. CASE f \in {"RIL_AUD_GetVolume_Mic", "RIL_NW_OpenPDPContext"}
  BY <1>2, MicRow, OpenRow
<1>3. CASE f \in Logins
  BY <1>3, LoginRows DEF LoginCommand, Logins, DeafHandlers
<1>4. CASE f \notin SpecialFunctions
  BY <1>4, MostFunctionsAreRegular DEF Regular, RegularCommand, SpecialFunctions
<1> QED
  BY <1>1, <1>2, <1>3, <1>4 DEF SpecialFunctions, Logins

-----------------------------------------------------------------------------
(* The shape of the state.                                                 *)
Fields ==
  {"pc", "fn", "step", "data", "out", "buf", "ret", "told", "err", "sent", "opened", "disturbed", "cut"}

ACall(u, k) ==
  /\ DOMAIN k = Fields
  /\ k.pc \in {"idle", "ready", "sent", "done"}
  /\ k.pc # "idle" => k.fn \in MayCall[u] /\ k.step \in DOMAIN Script[k.fn].cmds
  /\ k.ret \in Results
  /\ k.pc \in {"ready", "sent"} => k.ret = ""
  /\ k.opened \in BOOLEAN /\ k.disturbed \in BOOLEAN /\ k.cut \in BOOLEAN
  /\ IsSequence(k.told)

CallsInv == DOMAIN call = Tasks /\ \A u \in Tasks : ACall(u, call[u])

ChannelInv ==
  /\ \A u \in Tasks : call[u].pc = "sent" <=> waiting.task = u
  /\ DOMAIN waiting = {"task", "lines"}
  /\ waiting = Free \/ waiting.task \in Tasks

GlobalsInv ==
  /\ threshold \in Tasks \cup {NoTask}
  /\ DOMAIN sppState = {"snd", "rcv", "len", "mode"}
  /\ sppState.snd \in Tasks \cup {NoTask} /\ sppState.rcv \in Tasks \cup {NoTask}
  /\ sppState.mode \in BOOLEAN /\ pdpActive \in BOOLEAN /\ audChannel \in Channels

TypeInv == CallsInv /\ ChannelInv /\ GlobalsInv

(* A step is one of the task t.                                            *)
Step(t) ==
  \/ \E f \in MayCall[t] : Call(t, f) \/ Reject(t, f)
  \/ Send(t) \/ Busy(t) \/ TakeLine(t) \/ Timeout(t) \/ Return(t)

(* The free channel belongs to no task.                                    *)
LEMMA FreeChannel == DOMAIN Free = {"task", "lines"} /\ Free.task = NoTask /\ NoTask \notin Tasks
BY NoTaskIsNoTask DEF Free

(* What a function returns.                                                *)
LEMMA Outcomes ==
  ASSUME NEW mode \in Modes, NEW r \in {"success", "failed", "timeout", "busy"}, NEW d, NEW out,
         NEW o, o = Outcome(mode, r, d, out)
  PROVE  /\ o.ret \in Results /\ o.ret # "invalid"
         /\ o.ret = "success" => r = "success"
         /\ r = "timeout" => o.ret = "timeout"
         /\ mode = "none" => o.ret = r /\ o.out = out
         /\ mode = "direct" => o.ret = r /\ o.out = d
         /\ mode \in {"copied", "cleared"} /\ r = "success" => o.ret = r /\ o.out = d
         /\ mode = "checked" /\ r = "success" => (o.ret = r /\ o.out = d) \/ (d = "bad" /\ o.ret # "success")
<1> USE DEF Returned, Results
<1>1. CASE mode = "none"
  BY <1>1 DEF Outcome
<1>2. CASE mode = "direct"
  BY <1>2 DEF Outcome
<1>3. CASE mode = "copied"
  BY <1>3 DEF Outcome
<1>4. CASE mode = "cleared"
  BY <1>4 DEF Outcome
<1>5. CASE mode = "accepted"
  BY <1>5 DEF Outcome
<1>6. CASE mode = "checked"
  BY <1>6 DEF Outcome
<1>7. CASE mode = "lost"
  BY <1>7 DEF Outcome
<1> QED
  BY <1>1, <1>2, <1>3, <1>4, <1>5, <1>6, <1>7 DEF Modes

(* The fields of a call that has ended.                                    *)
LEMMA EndedFields ==
  ASSUME NEW c, DOMAIN c = Fields, NEW r
  PROVE  LET n == Ended(c, r)
             o == Outcome(Script[c.fn].mode, r, c.data, c.out)
         IN /\ DOMAIN n = Fields /\ n.pc = "done" /\ n.ret = o.ret /\ n.out = o.out
            /\ n.fn = c.fn /\ n.step = c.step /\ n.data = c.data /\ n.buf = c.buf /\ n.told = c.told
            /\ n.err = c.err /\ n.sent = c.sent /\ n.opened = c.opened /\ n.disturbed = c.disturbed
            /\ n.cut = c.cut
BY DEF Ended, Fields

(* The fields of a call after a verdict.                                   *)
LEMMA AdvancedFields ==
  ASSUME NEW c, DOMAIN c = Fields, NEW v, IsVerdict(v)
  PROVE  LET n == Advanced(c, v)
             o == Outcome(Script[c.fn].mode, v.verdict, c.data, c.out)
         IN /\ DOMAIN n = Fields
            /\ n.fn = c.fn /\ n.data = c.data /\ n.buf = c.buf /\ n.told = c.told
            /\ n.err = c.err /\ n.sent = c.sent /\ n.opened = c.opened /\ n.disturbed = c.disturbed
            /\ n.cut = c.cut
            /\ \/ v.verdict = "continue" /\ n.pc = c.pc /\ n.step = c.step /\ n.ret = c.ret /\ n.out = c.out
               \/ /\ v.verdict = "success" /\ c.step < Len(Script[c.fn].cmds)
                  /\ n.pc = "ready" /\ n.step = c.step + 1 /\ n.ret = c.ret /\ n.out = c.out
               \/ /\ v.verdict # "continue" /\ (v.verdict = "success" => ~(c.step < Len(Script[c.fn].cmds)))
                  /\ n.pc = "done" /\ n.step = c.step /\ n.ret = o.ret /\ n.out = o.out
<1>1. CASE v.verdict = "continue"
  <2>1. Advanced(c, v) = c
    BY <1>1 DEF Advanced
  <2> QED
    BY <1>1, <2>1
<1>2. CASE v.verdict = "success" /\ c.step < Len(Script[c.fn].cmds)
  <2>1. Advanced(c, v) = [c EXCEPT !.step = @ + 1, !.pc = "ready"]
    BY <1>2, Zenon DEF Advanced
  <2> QED
    BY <1>2, <2>1 DEF Fields
<1>3. CASE v.verdict # "continue" /\ ~(v.verdict = "success" /\ c.step < Len(Script[c.fn].cmds))
  <2>1. Advanced(c, v) = Ended(c, v.verdict)
    BY <1>3, Zenon DEF Advanced
  <2> QED
    BY <1>3, <2>1, EndedFields
<1> QED
  BY <1>1, <1>2, <1>3

-----------------------------------------------------------------------------
(* What a step does to the call of another task.                           *)
Alike(n, c) ==
  /\ DOMAIN n = Fields
  /\ n.pc = c.pc /\ n.fn = c.fn /\ n.step = c.step /\ n.data = c.data /\ n.ret = c.ret
  /\ n.told = c.told /\ n.err = c.err /\ n.opened = c.opened /\ n.cut = c.cut

Lasting(n, c) == n.disturbed \in BOOLEAN /\ (c.disturbed => n.disturbed)

Calls(calls) == DOMAIN calls = Tasks /\ \A u \in Tasks : DOMAIN calls[u] = Fields /\ calls[u].disturbed \in BOOLEAN

(* Marking calls as disturbed changes nothing else.                        *)
LEMMA DisturbingFields ==
  ASSUME NEW calls, Calls(calls), NEW users, NEW u \in Tasks
  PROVE  LET n == Disturbing(calls, users)[u]
             c == calls[u]
         IN /\ Alike(n, c) /\ Lasting(n, c) /\ n.out = c.out /\ n.buf = c.buf /\ n.sent = c.sent
            /\ n.disturbed <=> (c.disturbed \/ u \in users)
<1> DEFINE c == calls[u]
           b == c.disturbed \/ u \in users
<1>1. Disturbing(calls, users)[u] = [c EXCEPT !.disturbed = b]
  BY Zenon DEF Disturbing
<1>2. DOMAIN c = Fields /\ c.disturbed \in BOOLEAN
  BY DEF Calls
<1>3. ASSUME NEW h, DOMAIN h = Fields, NEW a \in BOOLEAN
      PROVE  LET n == [h EXCEPT !.disturbed = a]
             IN Alike(n, h) /\ n.disturbed = a /\ n.out = h.out /\ n.buf = h.buf /\ n.sent = h.sent
  BY <1>3 DEF Alike, Fields
<1>4. b \in BOOLEAN
  OBVIOUS
<1> HIDE DEF c
<1>5. LET n == [c EXCEPT !.disturbed = b]
      IN Alike(n, c) /\ n.disturbed = b /\ n.out = c.out /\ n.buf = c.buf /\ n.sent = c.sent
  BY <1>2, <1>3, <1>4, Zenon
<1> QED
  BY <1>1, <1>2, <1>5 DEF Lasting, c

(* A write through a pointer changes one variable of one call.             *)
LEMMA WrittenFields ==
  ASSUME NEW calls, Calls(calls), NEW w, NEW v, NEW u \in Tasks
  PROVE  /\ LET n == WriteOut(calls, w, v)[u]
            IN /\ Alike(n, calls[u]) /\ n.disturbed = calls[u].disturbed
               /\ n.buf = calls[u].buf /\ n.sent = calls[u].sent
               /\ IF u = w /\ calls[u].fn = "RIL_ToneDet_Get" /\ calls[u].ret # "invalid"
                    THEN n.out = v ELSE n.out = calls[u].out
         /\ LET n == WriteBuf(calls, w, v)[u]
            IN /\ Alike(n, calls[u]) /\ n.disturbed = calls[u].disturbed
               /\ n.out = calls[u].out /\ n.sent = calls[u].sent
               /\ IF u = w /\ calls[u].fn = "RIL_BT_SPP_Read" /\ calls[u].ret # "invalid"
                    THEN n.buf = v ELSE n.buf = calls[u].buf
<1>1. DOMAIN calls[u] = Fields
  BY DEF Calls
<1>2. WriteOut(calls, w, v)[u] = IF u = w /\ calls[u].fn = "RIL_ToneDet_Get" /\ calls[u].ret # "invalid"
                                   THEN [calls[u] EXCEPT !.out = v] ELSE calls[u]
  BY DEF WriteOut, Pointee
<1>3. WriteBuf(calls, w, v)[u] = IF u = w /\ calls[u].fn = "RIL_BT_SPP_Read" /\ calls[u].ret # "invalid"
                                   THEN [calls[u] EXCEPT !.buf = v] ELSE calls[u]
  BY DEF WriteBuf, Pointee
<1> QED
  BY <1>1, <1>2, <1>3 DEF Alike, Fields

(* The calls of a typed state.                                             *)
LEMMA CallsOfTypeInv == ASSUME TypeInv PROVE Calls(call)
BY DEF TypeInv, CallsInv, ACall, Calls

(* The parts of TakeLine.                                                  *)
LineOf == Head(waiting.lines)

VerdictOf(t) ==
  Verdict(Current(t), LineOf, IF Current(t).cell = "qmic" THEN s_channel_qmic ELSE call[t].data)

Told(t) ==
  [call[t] EXCEPT !.told = IF LineOf.kind \in Silent THEN call[t].told ELSE Append(call[t].told, LineOf.val),
                  !.data = IF Current(t).cell = "qmic" THEN call[t].data ELSE VerdictOf(t).data,
                  !.err = IF LineOf.kind \in {"ERROR", "+CME ERROR:"} THEN ErrCode(LineOf, "") ELSE call[t].err]

AfterLine(t) == [call EXCEPT ![t] = Advanced(Told(t), VerdictOf(t))]

(* TakeLine in the names of this module: all but the calls,                *)
LEMMA LineTaken ==
  ASSUME NEW t, TakeLine(t)
  PROVE  /\ waiting.task = t /\ waiting.lines # <<>>
         /\ waiting' = IF VerdictOf(t).verdict = "continue" THEN [waiting EXCEPT !.lines = Tail(@)] ELSE Free
         /\ s_channel_qmic' = IF Current(t).cell = "qmic" THEN VerdictOf(t).data ELSE s_channel_qmic
         /\ sppState' = IF Current(t).cell = "rcv" THEN SppAfter(LineOf, sppState) ELSE sppState
         /\ UNCHANGED <<threshold, audChannel, pdpActive>>
BY Zenon DEF TakeLine, LineOf, VerdictOf

(* and the calls.                                                          *)
LEMMA LineTakenCall ==
  ASSUME NEW t, TakeLine(t)
  PROVE  call' = CASE Current(t).cell = "qmic" /\ LineOf.kind = "+QAUDCH:"    -> Disturbing(AfterLine(t), Users(t, "qmic"))
                  [] Current(t).cell = "threshold" /\ LineOf.kind = "+QTONEDET:" -> WriteOut(AfterLine(t), threshold, LineOf.val)
                  [] Current(t).cell = "rcv" /\ CopiesData(sppState)           -> WriteBuf(AfterLine(t), sppState.rcv, LineOf.val)
                  [] Current(t).cell = "snd" /\ LineOf.kind = ">"              -> [AfterLine(t) EXCEPT ![t].sent = sppState.snd]
                  [] OTHER                                                     -> AfterLine(t)
BY Zenon DEF TakeLine, LineOf, VerdictOf, Told, AfterLine

(* The fields of a call that has heard a line.                             *)
LEMMA ToldFields ==
  ASSUME TypeInv, NEW t \in Tasks
  PROVE  LET c == call[t]
             n == Told(t)
         IN /\ DOMAIN n = Fields
            /\ n.pc = c.pc /\ n.fn = c.fn /\ n.step = c.step /\ n.ret = c.ret /\ n.out = c.out /\ n.buf = c.buf
            /\ n.opened = c.opened /\ n.cut = c.cut /\ n.sent = c.sent /\ n.disturbed = c.disturbed
            /\ n.told = IF LineOf.kind \in Silent THEN c.told ELSE Append(c.told, LineOf.val)
            /\ n.data = IF Current(t).cell = "qmic" THEN c.data ELSE VerdictOf(t).data
            /\ n.err = IF LineOf.kind \in {"ERROR", "+CME ERROR:"} THEN ErrCode(LineOf, "") ELSE c.err
<1>1. ASSUME NEW c, DOMAIN c = Fields, NEW a, NEW b, NEW e
      PROVE  LET n == [c EXCEPT !.told = a, !.data = b, !.err = e]
             IN /\ DOMAIN n = Fields
                /\ n.pc = c.pc /\ n.fn = c.fn /\ n.step = c.step /\ n.ret = c.ret /\ n.out = c.out
                /\ n.buf = c.buf /\ n.opened = c.opened /\ n.cut = c.cut /\ n.sent = c.sent
                /\ n.disturbed = c.disturbed /\ n.told = a /\ n.data = b /\ n.err = e
  BY <1>1 DEF Fields
<1>2. DOMAIN call[t] = Fields
  BY DEF TypeInv, CallsInv, ACall
<1> DEFINE a == IF LineOf.kind \in Silent THEN call[t].told ELSE Append(call[t].told, LineOf.val)
           b == IF Current(t).cell = "qmic" THEN call[t].data ELSE VerdictOf(t).data
           e == IF LineOf.kind \in {"ERROR", "+CME ERROR:"} THEN ErrCode(LineOf, "") ELSE call[t].err
<1>3. Told(t) = [call[t] EXCEPT !.told = a, !.data = b, !.err = e]
  BY Zenon DEF Told
<1> HIDE DEF a, b, e
<1>4. LET c == call[t]
          n == Told(t)
      IN /\ DOMAIN n = Fields
         /\ n.pc = c.pc /\ n.fn = c.fn /\ n.step = c.step /\ n.ret = c.ret /\ n.out = c.out
         /\ n.buf = c.buf /\ n.opened = c.opened /\ n.cut = c.cut /\ n.sent = c.sent
         /\ n.disturbed = c.disturbed /\ n.told = a /\ n.data = b /\ n.err = e
  BY <1>1, <1>2, <1>3
<1> QED
  BY <1>4, Zenon DEF a, b, e

(* The command of a call that is not idle is one of its row.               *)
LEMMA CommandsAreSound ==
  ASSUME TypeInv, NEW t \in Tasks, call[t].pc # "idle"
  PROVE  /\ call[t].fn \in Functions /\ Sound(Script[call[t].fn])
         /\ call[t].step \in DOMAIN Script[call[t].fn].cmds
         /\ Current(t) = Script[call[t].fn].cmds[call[t].step]
         /\ SoundCommand(Current(t))
<1>1. call[t].fn \in MayCall[t] /\ call[t].step \in DOMAIN Script[call[t].fn].cmds
  BY DEF TypeInv, CallsInv, ACall
<1>2. call[t].fn \in Functions
  BY <1>1, CallsAreFunctions
<1>3. Sound(Script[call[t].fn])
  BY <1>2, AllFunctionsAreSound
<1> QED
  BY <1>1, <1>2, <1>3 DEF Sound, Current, Commands

(* The fields of the call that takes a line,                               *)
LEMMA AfterLineFields ==
  ASSUME TypeInv, NEW t \in Tasks, waiting.task = t
  PROVE  LET c == call[t]
             n == AfterLine(t)[t]
             v == VerdictOf(t)
             o == Outcome(Script[c.fn].mode, v.verdict, n.data, c.out)
         IN /\ IsVerdict(v) /\ c.pc = "sent"
            /\ DOMAIN n = Fields
            /\ n.fn = c.fn /\ n.buf = c.buf /\ n.sent = c.sent /\ n.opened = c.opened
            /\ n.disturbed = c.disturbed /\ n.cut = c.cut
            /\ n.told = IF LineOf.kind \in Silent THEN c.told ELSE Append(c.told, LineOf.val)
            /\ n.data = IF Current(t).cell = "qmic" THEN c.data ELSE VerdictOf(t).data
            /\ \/ v.verdict = "continue" /\ n.pc = c.pc /\ n.step = c.step /\ n.ret = c.ret /\ n.out = c.out
               \/ /\ v.verdict = "success" /\ c.step < Len(Script[c.fn].cmds)
                  /\ n.pc = "ready" /\ n.step = c.step + 1 /\ n.ret = c.ret /\ n.out = c.out
               \/ /\ v.verdict # "continue" /\ (v.verdict = "success" => ~(c.step < Len(Script[c.fn].cmds)))
                  /\ n.pc = "done" /\ n.step = c.step /\ n.ret = o.ret /\ n.out = o.out
<1>1. call[t].pc = "sent"
  BY DEF TypeInv, ChannelInv
<1>2. IsVerdict(VerdictOf(t))
  BY <1>1, CommandsAreSound, HandlersGiveVerdicts DEF VerdictOf
<1>3. DOMAIN call = Tasks
  BY DEF TypeInv, CallsInv
<1>4. AfterLine(t)[t] = Advanced(Told(t), VerdictOf(t))
  BY <1>3, Zenon DEF AfterLine
<1> DEFINE n == Advanced(Told(t), VerdictOf(t))
           m == Told(t)
           v == VerdictOf(t)
           o == Outcome(Script[m.fn].mode, v.verdict, m.data, m.out)
<1>5. /\ DOMAIN n = Fields
      /\ n.fn = m.fn /\ n.data = m.data /\ n.buf = m.buf /\ n.told = m.told
      /\ n.err = m.err /\ n.sent = m.sent /\ n.opened = m.opened /\ n.disturbed = m.disturbed
      /\ n.cut = m.cut
      /\ \/ v.verdict = "continue" /\ n.pc = m.pc /\ n.step = m.step /\ n.ret = m.ret /\ n.out = m.out
         \/ /\ v.verdict = "success" /\ m.step < Len(Script[m.fn].cmds)
            /\ n.pc = "ready" /\ n.step = m.step + 1 /\ n.ret = m.ret /\ n.out = m.out
         \/ /\ v.verdict # "continue" /\ (v.verdict = "success" => ~(m.step < Len(Script[m.fn].cmds)))
            /\ n.pc = "done" /\ n.step = m.step /\ n.ret = o.ret /\ n.out = o.out
  <2>1. DOMAIN m = Fields
    BY ToldFields
  <2> HIDE DEF m, v
  <2> QED
    BY <1>2, <2>1, AdvancedFields DEF v, m
<1>6. LET c == call[t]
      IN /\ m.fn = c.fn /\ m.pc = c.pc /\ m.step = c.step /\ m.ret = c.ret /\ m.out = c.out /\ m.buf = c.buf
         /\ m.opened = c.opened /\ m.cut = c.cut /\ m.sent = c.sent /\ m.disturbed = c.disturbed
         /\ m.told = IF LineOf.kind \in Silent THEN c.told ELSE Append(c.told, LineOf.val)
         /\ m.data = IF Current(t).cell = "qmic" THEN c.data ELSE VerdictOf(t).data
  BY ToldFields
<1>7. AfterLine(t)[t] = n
  BY <1>4
<1> HIDE DEF n, m
<1> QED
  BY <1>1, <1>2, <1>5, <1>6, <1>7

(* those of the other calls,                                               *)
LEMMA AfterLineOthers ==
  ASSUME TypeInv, NEW t \in Tasks, waiting.task = t
  PROVE  Calls(AfterLine(t)) /\ \A u \in Tasks \ {t} : AfterLine(t)[u] = call[u]
<1>1. DOMAIN call = Tasks /\ \A u \in Tasks : DOMAIN call[u] = Fields /\ call[u].disturbed \in BOOLEAN
  BY CallsOfTypeInv DEF Calls
<1>2. DOMAIN AfterLine(t) = Tasks /\ \A u \in Tasks \ {t} : AfterLine(t)[u] = call[u]
  BY <1>1 DEF AfterLine
<1>3. DOMAIN AfterLine(t)[t] = Fields /\ AfterLine(t)[t].disturbed = call[t].disturbed
  BY AfterLineFields
<1> QED
  BY <1>1, <1>2, <1>3, Zenon DEF Calls

(* and what the pointers of the handler change of either.                  *)
LEMMA TakenFields ==
  ASSUME TypeInv, NEW t \in Tasks, TakeLine(t), NEW u \in Tasks
  PROVE  LET n == call'[u]
             c == AfterLine(t)[u]
         IN /\ DOMAIN call' = Tasks /\ Alike(n, c) /\ Lasting(n, c) /\ (u = t => n.disturbed = c.disturbed)
            /\ (u # t \/ Current(t).cell # "snd" => n.sent = c.sent)
            /\ c.fn # "RIL_ToneDet_Get" => n.out = c.out
            /\ c.fn # "RIL_BT_SPP_Read" => n.buf = c.buf
<1> DEFINE calls == AfterLine(t)
<1>1. Calls(calls)
  BY AfterLineOthers, LineTaken
<1>2. DOMAIN calls = Tasks /\ DOMAIN calls[u] = Fields /\ calls[u].disturbed \in BOOLEAN
  BY <1>1 DEF Calls
<1> HIDE DEF calls
<1>3. CASE call' = Disturbing(calls, Users(t, "qmic"))
  <2>1. t \notin Users(t, "qmic")
    BY DEF Users
  <2>2. DOMAIN call' = Tasks
    BY <1>3 DEF Disturbing
  <2>3. LET n == Disturbing(calls, Users(t, "qmic"))[u]
            c == calls[u]
        IN /\ Alike(n, c) /\ Lasting(n, c) /\ n.out = c.out /\ n.buf = c.buf /\ n.sent = c.sent
           /\ n.disturbed <=> (c.disturbed \/ u \in Users(t, "qmic"))
    BY <1>1, DisturbingFields
  <2>5. u = t => call'[u].disturbed = calls[u].disturbed
    BY <1>2, <1>3, <2>1, <2>3 DEF Lasting
  <2> QED
    BY <1>3, <2>2, <2>3, <2>5 DEF calls
<1>4. CASE call' = WriteOut(calls, threshold, LineOf.val)
  <2>1. DOMAIN call' = Tasks
    BY <1>4 DEF WriteOut
  <2> QED
    BY <1>1, <1>2, <1>4, <2>1, WrittenFields DEF calls, Lasting
<1>5. CASE call' = WriteBuf(calls, sppState.rcv, LineOf.val)
  <2>1. DOMAIN call' = Tasks
    BY <1>5 DEF WriteBuf
  <2> QED
    BY <1>1, <1>2, <1>5, <2>1, WrittenFields DEF calls, Lasting
<1>6. CASE call' = [calls EXCEPT ![t].sent = sppState.snd] /\ Current(t).cell = "snd"
  <2>1. DOMAIN call' = Tasks /\ call'[u] = IF u = t THEN [calls[u] EXCEPT !.sent = sppState.snd] ELSE calls[u]
    BY <1>2, <1>6
  <2> QED
    BY <1>2, <1>6, <2>1 DEF calls, Alike, Lasting, Fields
<1>7. CASE call' = calls
  BY <1>2, <1>7 DEF calls, Alike, Lasting, Fields
<1>8. \/ call' = Disturbing(calls, Users(t, "qmic"))
      \/ call' = WriteOut(calls, threshold, LineOf.val)
      \/ call' = WriteBuf(calls, sppState.rcv, LineOf.val)
      \/ call' = [calls EXCEPT ![t].sent = sppState.snd] /\ Current(t).cell = "snd"
      \/ call' = calls
  BY LineTakenCall, Zenon DEF calls
<1> QED
  BY <1>3, <1>4, <1>5, <1>6, <1>7, <1>8

(* A call begins.                                                          *)
Disturbs(t, f) == UNION {IF Uses(f, cell) THEN Users(t, cell) ELSE {} : cell \in {"threshold", "snd", "rcv"}}

Begun(c, f, cut) ==
  /\ DOMAIN c = Fields
  /\ c.pc = "ready" /\ c.fn = f /\ c.step = 1 /\ c.data = Script[f].start /\ c.out = Unset /\ c.buf = Unset
  /\ c.ret = "" /\ c.told = <<>> /\ c.err = "" /\ c.sent = NoTask /\ c.opened = FALSE /\ c.cut = cut

(* What Call changes.                                                      *)
LEMMA CallFields ==
  ASSUME TypeInv, NEW t \in Tasks, NEW f, Call(t, f)
  PROVE  /\ DOMAIN call' = Tasks /\ call[t].pc = "idle" /\ f \in MayCall[t]
         /\ Begun(call'[t], f, sppState.mode)
         /\ call'[t].disturbed \in BOOLEAN /\ (~call'[t].disturbed => Disturbs(t, f) = {})
         /\ \A u \in Tasks \ {t} :
              /\ Alike(call'[u], call[u]) /\ Lasting(call'[u], call[u])
              /\ call'[u].out = call[u].out /\ call'[u].buf = call[u].buf /\ call'[u].sent = call[u].sent
              /\ u \in Disturbs(t, f) => call'[u].disturbed
         /\ threshold' = ThresholdOf(t, f)
         /\ UNCHANGED <<waiting, s_channel_qmic, m_iErrCode, audChannel, pdpActive>>
<1> DEFINE D == Disturbs(t, f)
           b == D # {}
           new == [NoCall EXCEPT !.pc = "ready", !.fn = f, !.data = Script[f].start, !.cut = sppState.mode]
           c0 == [new EXCEPT !.disturbed = b]
           calls == [call EXCEPT ![t] = c0]
<1>1. /\ call' = Disturbing(calls, D) /\ call[t].pc = "idle" /\ f \in MayCall[t]
      /\ threshold' = ThresholdOf(t, f)
      /\ UNCHANGED <<waiting, s_channel_qmic, m_iErrCode, audChannel, pdpActive>>
  BY Zenon DEF Call, Disturbs
<1>2. b \in BOOLEAN
  OBVIOUS
<1>3. Begun(c0, f, sppState.mode) /\ c0.disturbed = b
  <2> HIDE DEF b
  <2> QED
    BY DEF NoCall, Begun, Fields
<1>4. Calls(call)
  BY CallsOfTypeInv
<1> HIDE DEF c0, D, b
<1>5. DOMAIN c0 = Fields
  BY <1>3 DEF Begun
<1>6. Calls(calls) /\ calls[t] = c0 /\ \A u \in Tasks \ {t} : calls[u] = call[u]
  BY <1>2, <1>3, <1>4, <1>5 DEF Calls
<1> HIDE DEF calls
<1>7. DOMAIN call' = Tasks
  BY <1>1 DEF Disturbing
<1>8. \A u \in Tasks :
        LET n == call'[u]
            c == calls[u]
        IN /\ Alike(n, c) /\ Lasting(n, c) /\ n.out = c.out /\ n.buf = c.buf /\ n.sent = c.sent
           /\ n.disturbed <=> (c.disturbed \/ u \in D)
  BY <1>1, <1>6, DisturbingFields
<1>9. Begun(call'[t], f, sppState.mode) /\ call'[t].disturbed \in BOOLEAN /\ (~call'[t].disturbed => ~b)
  BY <1>3, <1>6, <1>8 DEF Begun, Alike, Lasting
<1> QED
  BY <1>1, <1>6, <1>7, <1>8, <1>9 DEF D, b

(* The steps that change nothing of another call.                          *)
LEMMA PlainSteps ==
  ASSUME TypeInv, NEW t \in Tasks, NEW u \in Tasks \ {t},
         Send(t) \/ Busy(t) \/ Timeout(t) \/ Return(t) \/ \E f \in MayCall[t] : Reject(t, f)
  PROVE  DOMAIN call' = Tasks /\ call'[u] = call[u]
<1>1. DOMAIN call = Tasks
  BY DEF TypeInv, CallsInv
<1>2. CASE Send(t)
  <2>1. PICK b : call' = [call EXCEPT ![t].pc = "sent", ![t].opened = b]
    BY <1>2, Zenon DEF Send
  <2> QED
    BY <1>1, <2>1
<1>3. CASE Busy(t) \/ Timeout(t) \/ Return(t) \/ \E f \in MayCall[t] : Reject(t, f)
  <2>1. PICK c : call' = [call EXCEPT ![t] = c]
    BY <1>3, Zenon DEF Busy, Timeout, Return, Reject
  <2> QED
    BY <1>1, <2>1
<1> QED
  BY <1>2, <1>3

(* No step changes more of another call than its disturbance and what a pointer leads to. *)
LEMMA OthersKeep ==
  ASSUME TypeInv, NEW t \in Tasks, Step(t), NEW u \in Tasks \ {t}
  PROVE  LET n == call'[u]
             c == call[u]
         IN /\ DOMAIN call' = Tasks /\ Alike(n, c) /\ Lasting(n, c) /\ n.sent = c.sent
            /\ c.fn # "RIL_ToneDet_Get" => n.out = c.out
            /\ c.fn # "RIL_BT_SPP_Read" => n.buf = c.buf
<1>1. DOMAIN call[u] = Fields /\ call[u].disturbed \in BOOLEAN
  BY CallsOfTypeInv DEF Calls
<1>2. ASSUME NEW f, Call(t, f) PROVE
         LET n == call'[u]
             c == call[u]
         IN DOMAIN call' = Tasks /\ Alike(n, c) /\ Lasting(n, c) /\ n.out = c.out /\ n.buf = c.buf /\ n.sent = c.sent
  BY <1>2, CallFields
<1>3. CASE \E f \in MayCall[t] : Call(t, f)
  BY <1>2, <1>3
<1>4. CASE Send(t) \/ Busy(t) \/ Timeout(t) \/ Return(t) \/ \E f \in MayCall[t] : Reject(t, f)
  <2>1. DOMAIN call' = Tasks /\ call'[u] = call[u]
    BY <1>4, PlainSteps
  <2> QED
    BY <1>1, <2>1 DEF Alike, Lasting
<1>5. CASE TakeLine(t)
  <2>1. AfterLine(t)[u] = call[u]
    BY <1>5, AfterLineOthers, LineTaken
  <2> QED
    BY <1>5, <2>1, TakenFields
<1> QED
  BY <1>3, <1>4, <1>5 DEF Step

Same(n, c) ==
  /\ DOMAIN n = Fields
  /\ n.fn = c.fn /\ n.step = c.step /\ n.data = c.data /\ n.buf = c.buf /\ n.told = c.told
  /\ n.err = c.err /\ n.sent = c.sent /\ n.disturbed = c.disturbed /\ n.cut = c.cut

(* What Send changes.                                                      *)
LEMMA SendFields ==
  ASSUME TypeInv, NEW t \in Tasks, Send(t)
  PROVE  LET n == call'[t]
             c == call[t]
         IN /\ DOMAIN call' = Tasks /\ c.pc = "ready" /\ waiting = Free
            /\ Same(n, c) /\ n.pc = "sent" /\ n.ret = c.ret /\ n.out = c.out
            /\ n.opened = (c.opened \/ (pdpActive' /\ ~pdpActive))
            /\ \E lines \in Done(Current(t).at) \cup Errors :
                 /\ waiting' = [task |-> t, lines |-> lines]
                 /\ pdpActive' /\ ~pdpActive => lines \notin Errors /\ Current(t).at = "AT+QIACT"
            /\ pdpActive' \in BOOLEAN /\ audChannel' \in Channels
            /\ UNCHANGED <<s_channel_qmic, m_iErrCode, threshold, sppState>>
<1>1. DOMAIN call = Tasks /\ DOMAIN call[t] = Fields /\ call[t].opened \in BOOLEAN /\ pdpActive \in BOOLEAN
  BY DEF TypeInv, CallsInv, ACall, GlobalsInv
<1>2. PICK lines \in Done(Current(t).at) \cup Errors :
        /\ waiting' = [task |-> t, lines |-> lines]
        /\ \E c \in IF lines \notin Errors /\ Current(t).at = "AT+QAUDCH" THEN NewChannels ELSE {audChannel} :
             audChannel' = c
        /\ pdpActive' = CASE lines \notin Errors /\ Current(t).at = "AT+QIACT"   -> TRUE
                        [] lines \notin Errors /\ Current(t).at = "AT+QIDEACT" -> FALSE
                        [] OTHER                            -> pdpActive
        /\ call' = [call EXCEPT ![t].pc = "sent", ![t].opened = @ \/ (pdpActive' /\ ~pdpActive)]
  BY Zenon DEF Send
<1>3. pdpActive' \in BOOLEAN /\ (pdpActive' /\ ~pdpActive => lines \notin Errors /\ Current(t).at = "AT+QIACT")
  BY <1>1, <1>2
<1>4. audChannel' \in Channels
  BY <1>2, ChannelsAreKnown DEF TypeInv, GlobalsInv
<1> DEFINE b == call[t].opened \/ (pdpActive' /\ ~pdpActive)
<1>5. call' = [call EXCEPT ![t] = [call[t] EXCEPT !.pc = "sent", !.opened = b]]
  BY <1>1, <1>2
<1>6. b \in BOOLEAN
  BY <1>1, <1>3
<1> HIDE DEF b
<1>7. /\ DOMAIN call' = Tasks /\ Same(call'[t], call[t]) /\ call'[t].pc = "sent"
      /\ call'[t].ret = call[t].ret /\ call'[t].out = call[t].out /\ call'[t].opened = b
  BY <1>1, <1>5 DEF Same, Fields
<1>8. call[t].pc = "ready" /\ waiting = Free /\ UNCHANGED <<s_channel_qmic, m_iErrCode, threshold, sppState>>
  BY Zenon DEF Send
<1> QED
  BY <1>2, <1>3, <1>4, <1>7, <1>8, Zenon DEF b

(* The call of t ends without another line.                                *)
LEMMA EndFields ==
  ASSUME TypeInv, NEW t \in Tasks, Busy(t) \/ Timeout(t)
  PROVE  LET n == call'[t]
             c == call[t]
         IN \E r \in {"busy", "timeout"} :
              LET o == Outcome(Script[c.fn].mode, r, c.data, c.out)
              IN /\ r = "busy" => c.pc = "ready" /\ waiting # Free /\ waiting' = waiting
                 /\ r = "timeout" => waiting.task = t /\ waiting' = Free
                 /\ DOMAIN call' = Tasks
                 /\ Same(n, c) /\ n.opened = c.opened /\ n.pc = "done" /\ n.ret = o.ret /\ n.out = o.out
                 /\ UNCHANGED <<s_channel_qmic, m_iErrCode, threshold, sppState, audChannel, pdpActive>>
<1>1. DOMAIN call = Tasks /\ DOMAIN call[t] = Fields
  BY DEF TypeInv, CallsInv, ACall
<1>2. PICK r \in {"busy", "timeout"} :
        /\ call' = [call EXCEPT ![t] = Ended(call[t], r)]
        /\ r = "busy" => call[t].pc = "ready" /\ waiting # Free /\ waiting' = waiting
        /\ r = "timeout" => waiting.task = t /\ waiting' = Free
        /\ UNCHANGED <<s_channel_qmic, m_iErrCode, threshold, sppState, audChannel, pdpActive>>
  BY <1>1 DEF Busy, Timeout
<1>3. LET n == Ended(call[t], r)
          c == call[t]
          o == Outcome(Script[c.fn].mode, r, c.data, c.out)
      IN Same(n, c) /\ n.opened = c.opened /\ n.pc = "done" /\ n.ret = o.ret /\ n.out = o.out
  BY <1>1, EndedFields DEF Same
<1>4. DOMAIN call' = Tasks /\ call'[t] = Ended(call[t], r)
  BY <1>1, <1>2
<1> QED
  BY <1>2, <1>3, <1>4

(* What Reject changes.                                                    *)
LEMMA RefusedFields ==
  ASSUME TypeInv, NEW t \in Tasks, NEW f, Reject(t, f)
  PROVE  LET n == call'[t]
         IN /\ DOMAIN call' = Tasks /\ call[t].pc = "idle" /\ f \in MayCall[t]
            /\ DOMAIN n = Fields /\ n.pc = "done" /\ n.fn = f /\ n.step = 1 /\ n.ret = "invalid" /\ n.told = <<>>
            /\ n.opened = FALSE /\ n.disturbed = FALSE /\ n.cut = FALSE
            /\ UNCHANGED <<waiting, s_channel_qmic, m_iErrCode, threshold, sppState, audChannel, pdpActive>>
<1>1. DOMAIN call = Tasks
  BY DEF TypeInv, CallsInv
<1> QED
  BY <1>1 DEF Reject, NoCall, Fields

(* What Return changes.                                                    *)
LEMMA ReturnFields ==
  ASSUME TypeInv, NEW t \in Tasks, Return(t)
  PROVE  LET n == call'[t]
         IN /\ DOMAIN call' = Tasks /\ call[t].pc = "done"
            /\ DOMAIN n = Fields /\ n.pc = "idle" /\ n.fn = "" /\ n.ret = "" /\ n.told = <<>>
            /\ n.opened = FALSE /\ n.disturbed = FALSE /\ n.cut = FALSE
            /\ UNCHANGED <<waiting, s_channel_qmic, m_iErrCode, threshold, sppState, audChannel, pdpActive>>
<1>1. DOMAIN call = Tasks
  BY DEF TypeInv, CallsInv
<1> QED
  BY <1>1 DEF Return, NoCall, Fields

(* The channel while another task takes a step.                            *)
LEMMA ChannelKept ==
  ASSUME TypeInv, NEW t \in Tasks, Step(t), NEW u \in Tasks \ {t}
  PROVE  /\ waiting.task = u => waiting' = waiting
         /\ waiting.task # u => waiting'.task # u
<1>1. waiting = Free => waiting.task = NoTask
  BY FreeChannel
<1>2. CASE \E f \in MayCall[t] : Call(t, f) \/ Reject(t, f)
  BY <1>2, CallFields, RefusedFields
<1>3. CASE Send(t)
  <2>1. waiting = Free /\ waiting'.task = t
    BY <1>3, SendFields
  <2> QED
    BY <2>1, <1>1, FreeChannel
<1>4. CASE Busy(t) \/ Timeout(t)
  BY <1>4, EndFields, FreeChannel
<1>5. CASE Return(t)
  BY <1>5, ReturnFields
<1>6. CASE TakeLine(t)
  <2>1. waiting.task = t /\ (waiting' = [waiting EXCEPT !.lines = Tail(@)] \/ waiting' = Free)
    BY <1>6, LineTaken
  <2>2. [waiting EXCEPT !.lines = Tail(@)].task = t
    BY <2>1 DEF TypeInv, ChannelInv
  <2> QED
    BY <2>1, <2>2, FreeChannel
<1> QED
  BY <1>2, <1>3, <1>4, <1>5, <1>6 DEF Step

(* Tails of sequences.                                                     *)
LEMMA SequenceFacts ==
  /\ IsSequence(<<>>)
  /\ \A s, v : IsSequence(s) => IsSequence(Append(s, v)) /\ Append(s, v) # <<>>
  /\ \A s : IsSequence(s) /\ s # <<>> => IsSequence(Tail(s)) /\ Len(s) \in Nat \ {0} /\ Len(Tail(s)) = Len(s) - 1
<1>1. IsSequence(<<>>)
  BY <<>> \in Seq({}) DEF IsSequence
<1>2. ASSUME NEW s, NEW v, IsSequence(s) PROVE IsSequence(Append(s, v)) /\ Append(s, v) # <<>>
  <2>1. PICK S : s \in Seq(S)
    BY <1>2 DEF IsSequence
  <2>2. s \in Seq(S \cup {v})
    BY <2>1, SeqMonotonic
  <2>3. Append(s, v) \in Seq(S \cup {v}) /\ Len(Append(s, v)) = Len(s) + 1 /\ Len(s) \in Nat
    BY <2>2
  <2> QED
    BY <2>3 DEF IsSequence
<1>3. ASSUME NEW s, IsSequence(s), s # <<>> PROVE IsSequence(Tail(s)) /\ Len(s) \in Nat \ {0} /\ Len(Tail(s)) = Len(s) - 1
  <2>1. PICK S : s \in Seq(S)
    BY <1>3 DEF IsSequence
  <2> QED
    BY <1>3, <2>1 DEF IsSequence
<1> QED
  BY <1>1, <1>2, <1>3

(* The initial state is typed.                                             *)
LEMMA InitTypes == Init => TypeInv
<1> SUFFICES ASSUME Init PROVE TypeInv
  OBVIOUS
<1>1. DOMAIN NoCall = Fields /\ NoCall.pc = "idle" /\ NoCall.ret = "" /\ NoCall.opened = FALSE
      /\ NoCall.disturbed = FALSE /\ NoCall.cut = FALSE /\ NoCall.told = <<>>
  BY DEF NoCall, Fields
<1>2. \A u \in Tasks : ACall(u, NoCall)
  BY <1>1, SequenceFacts DEF ACall, Results
<1>3. call = [u \in Tasks |-> NoCall] /\ waiting = Free
  BY DEF Init
<1>4. CallsInv
  BY <1>2, <1>3 DEF CallsInv
<1>5. ChannelInv
  BY <1>1, <1>3, FreeChannel DEF ChannelInv
<1>6. GlobalsInv
  BY DEF Init, GlobalsInv, Channels
<1> QED
  BY <1>4, <1>5, <1>6 DEF TypeInv

(* The three parts of the type invariant are kept by every step.           *)
LEMMA CallsTyped == ASSUME TypeInv, NEW t \in Tasks, Step(t) PROVE CallsInv'
<1>1. ASSUME NEW u \in Tasks \ {t} PROVE DOMAIN call' = Tasks /\ ACall(u, call'[u])
  <2>1. ACall(u, call[u])
    BY DEF TypeInv, CallsInv
  <2>2. DOMAIN call' = Tasks /\ Alike(call'[u], call[u]) /\ Lasting(call'[u], call[u])
    BY OthersKeep
  <2> QED
    BY <2>1, <2>2 DEF ACall, Alike, Lasting
<1>2. ACall(t, call[t])
  BY DEF TypeInv, CallsInv
<1>3. DOMAIN call' = Tasks /\ ACall(t, call'[t])
  <2>1. \A f \in MayCall[t] : f \in Functions /\ 1 \in DOMAIN Script[f].cmds
    BY CallsAreFunctions, AllFunctionsAreSound DEF Sound
  <2>2. ASSUME NEW f \in MayCall[t], Call(t, f) PROVE DOMAIN call' = Tasks /\ ACall(t, call'[t])
    <3>1. /\ DOMAIN call' = Tasks /\ Begun(call'[t], f, sppState.mode) /\ call'[t].disturbed \in BOOLEAN
          /\ sppState.mode \in BOOLEAN
      BY <2>2, CallFields DEF TypeInv, GlobalsInv
    <3>2. IsSequence(<<>>)
      BY SequenceFacts
    <3> QED
      BY <2>1, <3>1, <3>2 DEF ACall, Begun, Results
  <2>3. ASSUME NEW f \in MayCall[t], Reject(t, f) PROVE DOMAIN call' = Tasks /\ ACall(t, call'[t])
    BY <2>1, <2>3, RefusedFields, SequenceFacts DEF ACall, Results
  <2>4. CASE Send(t)
    BY <1>2, <2>4, SendFields DEF ACall, Same
  <2>5. CASE Busy(t) \/ Timeout(t)
    <3> DEFINE c == call[t]
    <3>1. c.pc \in {"ready", "sent"}
      BY <2>5 DEF Busy, Timeout, TypeInv, ChannelInv
    <3>2. Script[c.fn].mode \in Modes
      BY <3>1, CommandsAreSound DEF Sound
    <3>3. \A r \in {"busy", "timeout"} : Outcome(Script[c.fn].mode, r, c.data, c.out).ret \in Results
      BY <3>2, Outcomes
    <3>4. DOMAIN call' = Tasks /\ Same(call'[t], c) /\ call'[t].opened = c.opened /\ call'[t].pc = "done"
          /\ call'[t].ret \in Results
      BY <2>5, <3>3, EndFields
    <3> QED
      BY <1>2, <3>1, <3>4 DEF ACall, Same
  <2>6. CASE Return(t)
    BY <2>6, ReturnFields, SequenceFacts DEF ACall, Results
  <2>7. CASE TakeLine(t)
    <3> DEFINE c == call[t]
               n == AfterLine(t)[t]
               v == VerdictOf(t)
               o == Outcome(Script[c.fn].mode, v.verdict, n.data, c.out)
    <3>1. waiting.task = t
      BY <2>7, LineTaken
    <3>2. /\ IsVerdict(v) /\ c.pc = "sent"
          /\ DOMAIN n = Fields /\ n.fn = c.fn /\ n.opened = c.opened /\ n.cut = c.cut
          /\ n.told = IF LineOf.kind \in Silent THEN c.told ELSE Append(c.told, LineOf.val)
          /\ \/ v.verdict = "continue" /\ n.pc = c.pc /\ n.step = c.step /\ n.ret = c.ret /\ n.out = c.out
             \/ /\ v.verdict = "success" /\ c.step < Len(Script[c.fn].cmds)
                /\ n.pc = "ready" /\ n.step = c.step + 1 /\ n.ret = c.ret /\ n.out = c.out
             \/ /\ v.verdict # "continue" /\ (v.verdict = "success" => ~(c.step < Len(Script[c.fn].cmds)))
                /\ n.pc = "done" /\ n.step = c.step /\ n.ret = o.ret /\ n.out = o.out
      BY <3>1, AfterLineFields
    <3>3. IsSequence(n.told)
      <4>1. IsSequence(c.told)
        BY <1>2 DEF ACall
      <4>2. IsSequence(Append(c.told, LineOf.val))
        BY <4>1, SequenceFacts
      <4> QED
        BY <3>2, <4>1, <4>2
    <3>4. DOMAIN call' = Tasks /\ Alike(call'[t], n) /\ call'[t].disturbed \in BOOLEAN
      BY <2>7, TakenFields DEF Lasting
    <3>5. Sound(Script[c.fn])
      BY <3>2, CommandsAreSound
    <3>6. c.step + 1 \in DOMAIN Script[c.fn].cmds \/ ~(c.step < Len(Script[c.fn].cmds))
      <4>1. \A i, m : m \in Nat \ {0} /\ i \in 1..m => i + 1 \in 1..m \/ ~(i < m)
        OBVIOUS
      <4>2. DOMAIN Script[c.fn].cmds = 1..Len(Script[c.fn].cmds) /\ Len(Script[c.fn].cmds) \in Nat \ {0}
        BY <3>5 DEF Sound
      <4>3. c.step \in DOMAIN Script[c.fn].cmds
        BY <1>2, <3>2 DEF ACall
      <4> QED
        BY <4>1, <4>2, <4>3, Zenon
    <3>7. v.verdict # "continue" => o.ret \in Results
      BY <3>2, <3>5, Outcomes DEF Sound, IsVerdict
    <3>8. n.pc \in {"ready", "sent"} => n.ret = ""
      BY <1>2, <3>2 DEF ACall
    <3>9. n.ret \in Results
      BY <1>2, <3>2, <3>7 DEF ACall
    <3>10. n.pc \in {"sent", "ready", "done"} /\ n.step \in DOMAIN Script[n.fn].cmds /\ n.fn \in MayCall[t]
      BY <1>2, <3>2, <3>6 DEF ACall
    <3>11. n.opened \in BOOLEAN /\ n.cut \in BOOLEAN
      BY <1>2, <3>2 DEF ACall
    <3> HIDE DEF c, n, v, o
    <3> QED
      BY <3>3, <3>4, <3>8, <3>9, <3>10, <3>11 DEF ACall, Alike
  <2> QED
    BY <2>2, <2>3, <2>4, <2>5, <2>6, <2>7 DEF Step
<1> QED
  BY <1>1, <1>3 DEF CallsInv

LEMMA ChannelTyped == ASSUME TypeInv, NEW t \in Tasks, Step(t) PROVE ChannelInv'
<1>1. (call[t].pc = "sent" <=> waiting.task = t) /\ DOMAIN waiting = {"task", "lines"}
      /\ (waiting = Free \/ waiting.task \in Tasks)
  BY DEF TypeInv, ChannelInv
<1>2. ASSUME NEW u \in Tasks \ {t} PROVE call'[u].pc = "sent" <=> waiting'.task = u
  <2>1. call'[u].pc = call[u].pc
    BY OthersKeep DEF Alike
  <2>2. call[u].pc = "sent" <=> waiting.task = u
    BY DEF TypeInv, ChannelInv
  <2> QED
    BY <2>1, <2>2, ChannelKept
<1>3. /\ call'[t].pc = "sent" <=> waiting'.task = t
      /\ DOMAIN waiting' = {"task", "lines"}
      /\ waiting' = Free \/ waiting'.task \in Tasks
  <2>1. CASE \E f \in MayCall[t] : Call(t, f) \/ Reject(t, f)
    BY <1>1, <2>1, CallFields, RefusedFields DEF Begun
  <2>2. CASE Send(t)
    BY <2>2, SendFields
  <2>3. CASE Busy(t) \/ Timeout(t)
    BY <1>1, <2>3, EndFields, FreeChannel
  <2>4. CASE Return(t)
    BY <1>1, <2>4, ReturnFields
  <2>5. CASE TakeLine(t)
    <3> DEFINE n == AfterLine(t)[t]
               v == VerdictOf(t)
    <3>1. waiting.task = t /\ waiting' = IF v.verdict = "continue" THEN [waiting EXCEPT !.lines = Tail(@)] ELSE Free
      BY <2>5, LineTaken
    <3>2. (v.verdict = "continue" /\ n.pc = "sent") \/ (v.verdict # "continue" /\ n.pc \in {"ready", "done"})
      BY <3>1, AfterLineFields
    <3>3. call'[t].pc = n.pc
      BY <2>5, TakenFields DEF Alike
    <3> HIDE DEF n, v
    <3> QED
      BY <1>1, <3>1, <3>2, <3>3, FreeChannel
  <2> QED
    BY <2>1, <2>2, <2>3, <2>4, <2>5 DEF Step
<1> QED
  BY <1>2, <1>3 DEF ChannelInv

LEMMA GlobalsTyped == ASSUME TypeInv, NEW t \in Tasks, Step(t) PROVE GlobalsInv'
<1>1. GlobalsInv
  BY DEF TypeInv
<1>2. ASSUME NEW f \in MayCall[t], Call(t, f) PROVE GlobalsInv'
  <2>1. sppState' \in {SppSendsFor(t, sppState), SppReadsFor(t, sppState), sppState}
    BY <1>2, Zenon DEF Call
  <2>2. /\ DOMAIN sppState' = {"snd", "rcv", "len", "mode"} /\ sppState'.mode = sppState.mode
        /\ sppState'.snd \in Tasks \cup {NoTask} /\ sppState'.rcv \in Tasks \cup {NoTask}
    BY <1>1, <2>1 DEF GlobalsInv, SppSendsFor, SppReadsFor
  <2>3. threshold' \in {t, threshold} /\ UNCHANGED <<audChannel, pdpActive>>
    BY <1>2, CallFields DEF ThresholdOf
  <2> QED
    BY <1>1, <2>2, <2>3 DEF GlobalsInv
<1>3. CASE Send(t)
  BY <1>1, <1>3, SendFields DEF GlobalsInv
<1>4. CASE TakeLine(t)
  <2>1. UNCHANGED <<threshold, audChannel, pdpActive>> /\ sppState' \in {sppState, SppAfter(LineOf, sppState)}
    BY <1>4, LineTaken
  <2>2. /\ DOMAIN sppState' = {"snd", "rcv", "len", "mode"} /\ sppState'.mode \in BOOLEAN
        /\ sppState'.snd = sppState.snd /\ sppState'.rcv = sppState.rcv
    <3>1. CASE sppState' = sppState
      BY <1>1, <3>1 DEF GlobalsInv
    <3>2. CASE sppState' = SppAfter(LineOf, sppState)
      <4>1. sppState' \in {[sppState EXCEPT !.mode = FALSE], sppState,
                            [sppState EXCEPT !.len = LineOf.val, !.mode = LineOf.val # "0"]}
        BY <3>2 DEF SppAfter
      <4>2. (LineOf.val # "0") \in BOOLEAN
        OBVIOUS
      <4> QED
        BY <1>1, <4>1, <4>2 DEF GlobalsInv
    <3> QED
      BY <2>1, <3>1, <3>2
  <2> QED
    BY <1>1, <2>1, <2>2 DEF GlobalsInv
<1>5. CASE Busy(t) \/ Timeout(t) \/ Return(t) \/ \E f \in MayCall[t] : Reject(t, f)
  <2>1. UNCHANGED <<threshold, sppState, audChannel, pdpActive>>
    BY <1>5, EndFields, ReturnFields, RefusedFields
  <2> QED
    BY <1>1, <2>1 DEF GlobalsInv
<1> QED
  BY <1>2, <1>3, <1>4, <1>5 DEF Step

(* A step of the system is a step of a task.                               *)
LEMMA NextIsAStep == Next => \E t \in Tasks : Step(t)
BY Zenon DEF Next, Step

LEMMA StutterKeepsTypes == ASSUME TypeInv, UNCHANGED vars PROVE TypeInv'
BY DEF vars, TypeInv, CallsInv, ACall, ChannelInv, GlobalsInv

(* The type invariant is inductive.                                        *)
LEMMA TypesKept == TypeInv /\ [Next]_vars => TypeInv'
<1>1. ASSUME TypeInv, NEW t \in Tasks, Step(t) PROVE TypeInv'
  BY <1>1, CallsTyped, ChannelTyped, GlobalsTyped DEF TypeInv
<1> QED
  BY <1>1, NextIsAStep, StutterKeepsTypes

(* Type correctness: calls, channel and globals keep their shape; the channel belongs *)
(* to the task whose command was sent, whatever the interleaving of calls, refusals *)
(* and timeouts.                                                           *)
THEOREM CallsAndChannelAreTyped == Spec => []TypeOK
<1>1. TypeInv => TypeOK
  <2> SUFFICES ASSUME TypeInv PROVE TypeOK
    OBVIOUS
  <2>1. \A t \in Tasks :
       /\ call[t].pc \in {"idle", "ready", "sent", "done"}
       /\ call[t].pc # "idle" => call[t].fn \in MayCall[t] /\ call[t].step \in DOMAIN Commands(t)
       /\ call[t].ret \in Results
       /\ call[t].pc = "sent" <=> waiting.task = t
    BY DEF TypeInv, CallsInv, ACall, ChannelInv, Commands
  <2>2. waiting.task = NoTask => waiting = Free
    BY FreeChannel DEF TypeInv, ChannelInv
  <2> QED
    BY <2>1, <2>2 DEF TypeOK, TypeInv, GlobalsInv
<1>2. Spec => []TypeInv
  BY InitTypes, TypesKept, PTL DEF Spec
<1> QED
  BY <1>1, <1>2, PTL

-----------------------------------------------------------------------------
(* The context.                                                            *)
OpensContext(u) ==
  LET c == call[u]
  IN c.opened /\ c.fn \notin Logins =>
       /\ c.fn = "RIL_NW_OpenPDPContext" /\ c.step = 2
       /\ \/ c.pc = "sent" /\ waiting.lines = <<OkLine>>
          \/ c.pc = "done" /\ c.ret \in {"success", "timeout"}

ContextInv == \A u \in Tasks : OpensContext(u)

(* No context is open at first.                                            *)
LEMMA InitContext == Init => ContextInv
<1>1. NoCall.opened = FALSE
  BY DEF NoCall
<1> QED
  BY <1>1 DEF Init, ContextInv, OpensContext

(* Every step keeps what is known of who opened the context.               *)
LEMMA ContextKept ==
  ASSUME TypeInv, ContextInv, NEW t \in Tasks, Step(t)
  PROVE  ContextInv'
<1>1. ASSUME NEW u \in Tasks \ {t} PROVE OpensContext(u)'
  <2>1. Alike(call'[u], call[u]) /\ (waiting.task = u => waiting' = waiting) /\ OpensContext(u)
    BY OthersKeep, ChannelKept DEF ContextInv
  <2>2. call[u].pc = "sent" => waiting.task = u
    BY DEF TypeInv, ChannelInv
  <2> QED
    BY <2>1, <2>2 DEF OpensContext, Alike
<1>2. OpensContext(t)'
  <2>1. CASE \E f \in MayCall[t] : Call(t, f) \/ Reject(t, f)
    BY <2>1, CallFields, RefusedFields DEF OpensContext, Begun
  <2>2. CASE Send(t)
    <3>1. PICK lines \in Done(Current(t).at) \cup Errors :
            /\ waiting' = [task |-> t, lines |-> lines]
            /\ pdpActive' /\ ~pdpActive => lines \notin Errors /\ Current(t).at = "AT+QIACT"
      BY <2>2, SendFields
    <3>2. SUFFICES ASSUME call'[t].opened, call'[t].fn \notin Logins PROVE OpensContext(t)'
      BY DEF OpensContext
    <3>3. Same(call'[t], call[t]) /\ call[t].pc = "ready" /\ call'[t].pc = "sent"
          /\ call'[t].opened = (call[t].opened \/ (pdpActive' /\ ~pdpActive))
      BY <2>2, SendFields
    <3>4. ~call[t].opened
      BY <3>2, <3>3 DEF ContextInv, OpensContext, Same
    <3>5. lines \in Done("AT+QIACT") /\ Current(t).at = "AT+QIACT"
      BY <3>1, <3>2, <3>3, <3>4
    <3>6. lines = <<OkLine>>
      BY <3>5 DEF Done, FtpResults, Queried
    <3>7. /\ call[t].fn \in Functions /\ call[t].step \in DOMAIN Script[call[t].fn].cmds
          /\ Current(t) = Script[call[t].fn].cmds[call[t].step]
      BY <3>3, CommandsAreSound
    <3>8. call[t].fn = "RIL_NW_OpenPDPContext" /\ call[t].step = 2
      BY <3>2, <3>3, <3>5, <3>7, CellsAreUsedBy DEF Same
    <3> QED
      BY <3>1, <3>3, <3>6, <3>8 DEF OpensContext, Same
  <2>3. CASE Busy(t) \/ Timeout(t)
    <3>1. PICK r \in {"busy", "timeout"} :
            /\ r = "busy" => call[t].pc = "ready"
            /\ Same(call'[t], call[t]) /\ call'[t].opened = call[t].opened /\ call'[t].pc = "done"
            /\ call'[t].ret = Outcome(Script[call[t].fn].mode, r, call[t].data, call[t].out).ret
      BY <2>3, EndFields
    <3>2. SUFFICES ASSUME call'[t].opened, call'[t].fn \notin Logins PROVE OpensContext(t)'
      BY DEF OpensContext
    <3>3. call[t].pc # "ready" /\ call[t].fn = "RIL_NW_OpenPDPContext" /\ call[t].step = 2
      BY <3>1, <3>2 DEF ContextInv, OpensContext, Same
    <3>4. r = "timeout" /\ Script[call[t].fn].mode = "none"
      BY <3>1, <3>3, OpenRow
    <3>5. call'[t].ret = "timeout"
      BY <3>1, <3>4, Outcomes DEF Modes
    <3> QED
      BY <3>1, <3>3, <3>5 DEF OpensContext, Same
  <2>4. CASE Return(t)
    BY <2>4, ReturnFields DEF OpensContext
  <2>5. CASE TakeLine(t)
    <3> DEFINE c == call[t]
               n == AfterLine(t)[t]
               v == VerdictOf(t)
               o == Outcome(Script[c.fn].mode, v.verdict, n.data, c.out)
    <3>1. SUFFICES ASSUME call'[t].opened, call'[t].fn \notin Logins PROVE OpensContext(t)'
      BY DEF OpensContext
    <3>2. Alike(call'[t], n) /\ n.fn = c.fn /\ n.opened = c.opened /\ c.pc = "sent"
      BY <2>5, TakenFields, AfterLineFields, LineTaken
    <3>3. c.fn = "RIL_NW_OpenPDPContext" /\ c.step = 2 /\ waiting.lines = <<OkLine>>
      BY <3>1, <3>2 DEF ContextInv, OpensContext, Alike
    <3>4. LineOf = OkLine
      BY <3>3 DEF LineOf
    <3>5. Current(t).hdl = "Default"
      BY <3>3, OpenRow DEF Current, Commands
    <3>6. v.verdict = "success"
      <4>1. \A d : Default_atRsp_callback(OkLine, d).verdict = "success"
        BY DEF Default_atRsp_callback, FinalCms, EndsWith, OkLine, Line, Success
      <4>2. \A d : Verdict(Current(t), OkLine, d) = Default_atRsp_callback(OkLine, d)
        BY <3>5, VerdictIsTheHandlers
      <4> QED
        BY <3>4, <4>1, <4>2, Zenon DEF VerdictOf
    <3>7. Len(Script[c.fn].cmds) = 2 /\ Script[c.fn].mode = "none"
      BY <3>3, OpenRow
    <3>8. n.pc = "done" /\ n.step = c.step /\ n.ret = o.ret
      <4>1. ~(2 < 2)
        OBVIOUS
      <4>2. ~(c.step < Len(Script[c.fn].cmds))
        BY <3>3, <3>7, <4>1, Zenon
      <4> QED
        BY <2>5, <3>6, <4>2, AfterLineFields, LineTaken
    <3>9. o.ret = "success"
      BY <3>6, <3>7, Outcomes DEF Modes
    <3> QED
      BY <3>2, <3>3, <3>8, <3>9 DEF OpensContext, Alike
  <2> QED
    BY <2>1, <2>2, <2>3, <2>4, <2>5 DEF Step
<1> QED
  BY <1>1, <1>2 DEF ContextInv

(* A failed call leaves a PDP context active that it opened only if it is a login of *)
(* FTP, or the answer to its AT+QIACT was late (RIL_NW_OpenPDPContext, RIL_FTP_QFTPOPEN). *)
THEOREM OnlyALoginLeavesTheContext == Spec => []ContextLeftOpenOnlyByLogin
<1>1. ContextInv => ContextLeftOpenOnlyByLogin
  BY DEF ContextInv, OpensContext, ContextLeftOpenOnlyByLogin, Logins
<1>2. ASSUME TypeInv, ContextInv, UNCHANGED vars PROVE ContextInv'
  BY <1>2 DEF vars, ContextInv, OpensContext
<1>3. TypeInv /\ ContextInv /\ [Next]_vars => TypeInv' /\ ContextInv'
  BY <1>2, ContextKept, NextIsAStep, TypesKept
<1>4. Spec => [](TypeInv /\ ContextInv)
  BY InitTypes, InitContext, <1>3, PTL DEF Spec
<1> QED
  BY <1>1, <1>4, PTL

-----------------------------------------------------------------------------
(* The functions whose handlers write through a pointer in a static.       *)
Shared == {"RIL_ToneDet_Get", "RIL_BT_SPP_Send", "RIL_BT_SPP_Read"}

Holder(f) ==
  CASE f = "RIL_ToneDet_Get" -> threshold
    [] f = "RIL_BT_SPP_Send" -> sppState.snd
    [] f = "RIL_BT_SPP_Read" -> sppState.rcv

In(u, f) == call[u].pc \in {"ready", "sent"} /\ call[u].fn = f

Sole(u, f) ==
  call[u].fn = f /\ call[u].pc # "idle" /\ call[u].ret # "invalid" /\ ~call[u].disturbed =>
    /\ call[u].pc # "done" => Holder(f) = u
    /\ Holder(f) = u => \A w \in Tasks \ {u} : ~In(w, f)

SoleInv == \A u \in Tasks, f \in Shared : Sole(u, f)

(* The users of a static are the calls of the one function that uses it.   *)
LEMMA UsersAreInTheFunction ==
  ASSUME TypeInv, NEW t \in Tasks, NEW f \in Shared, NEW u \in Tasks \ {t}, In(u, f)
  PROVE  u \in Disturbs(t, f)
<1> DEFINE cell == CASE f = "RIL_ToneDet_Get" -> "threshold"
                     [] f = "RIL_BT_SPP_Send" -> "snd"
                     [] f = "RIL_BT_SPP_Read" -> "rcv"
<1>1. call[u].fn = f /\ f \in Functions /\ Sound(Script[f])
  BY CommandsAreSound DEF In
<1>2. 1 \in DOMAIN Script[f].cmds
  BY <1>1 DEF Sound
<1>3. cell \in {"threshold", "snd", "rcv"} /\ Script[f].cmds[1].cell = cell
  BY <1>1, <1>2, CellsAreUsedBy DEF Shared
<1> HIDE DEF cell
<1>4. Uses(f, cell)
  BY <1>2, <1>3, Zenon DEF Uses
<1>5. u \in Users(t, cell)
  BY <1>1, <1>2, <1>3, Zenon DEF Users, In, InCall, Commands
<1> QED
  BY <1>3, <1>4, <1>5 DEF Disturbs

(* Who holds the pointers after a step.                                    *)
LEMMA HolderKept ==
  ASSUME TypeInv, NEW t \in Tasks, NEW f \in Shared, Step(t)
  PROVE  /\ \A g \in MayCall[t] : Call(t, g) => Holder(f)' = IF g = f THEN t ELSE Holder(f)
         /\ (~\E g \in MayCall[t] : Call(t, g)) => Holder(f)' = Holder(f)
<1>0. DOMAIN sppState = {"snd", "rcv", "len", "mode"}
  BY DEF TypeInv, GlobalsInv
<1>1. ASSUME Send(t) \/ Busy(t) \/ Timeout(t) \/ Return(t) \/ \E g \in MayCall[t] : Reject(t, g)
      PROVE  Holder(f)' = Holder(f)
  <2>1. UNCHANGED <<threshold, sppState>>
    BY <1>1, SendFields, EndFields, ReturnFields, RefusedFields
  <2> QED
    BY <2>1 DEF Holder
<1>2. ASSUME TakeLine(t) PROVE Holder(f)' = Holder(f)
  <2>1. threshold' = threshold /\ sppState' \in {sppState, SppAfter(LineOf, sppState)}
    BY <1>2, LineTaken
  <2>2. SppAfter(LineOf, sppState) \in
          {[sppState EXCEPT !.mode = FALSE], sppState, [sppState EXCEPT !.len = LineOf.val, !.mode = LineOf.val # "0"]}
    BY DEF SppAfter
  <2>3. sppState'.snd = sppState.snd /\ sppState'.rcv = sppState.rcv
    BY <1>0, <2>1, <2>2
  <2> QED
    BY <2>1, <2>3 DEF Holder
<1>3. ASSUME NEW g \in MayCall[t], Call(t, g) PROVE Holder(f)' = IF g = f THEN t ELSE Holder(f)
  <2>1. /\ threshold' = IF Uses(g, "threshold") THEN t ELSE threshold
        /\ g = "RIL_BT_SPP_Send" => sppState' = SppSendsFor(t, sppState)
        /\ g = "RIL_BT_SPP_Read" => sppState' = SppReadsFor(t, sppState)
        /\ g \notin {"RIL_BT_SPP_Send", "RIL_BT_SPP_Read"} => sppState' = sppState
    BY <1>3, Zenon DEF Call, ThresholdOf
  <2>2. g \in Functions /\ 1 \in DOMAIN Script[g].cmds
    BY CallsAreFunctions, AllFunctionsAreSound DEF Sound
  <2>3. Uses(g, "threshold") <=> g = "RIL_ToneDet_Get"
    BY <2>2, CellsAreUsedBy DEF Uses
  <2>4. /\ SppSendsFor(t, sppState).snd = t /\ SppSendsFor(t, sppState).rcv = sppState.rcv
        /\ SppReadsFor(t, sppState).snd = sppState.snd /\ SppReadsFor(t, sppState).rcv = t
    BY <1>0 DEF SppSendsFor, SppReadsFor
  <2>5. /\ threshold' = IF g = "RIL_ToneDet_Get" THEN t ELSE threshold
        /\ sppState'.snd = IF g = "RIL_BT_SPP_Send" THEN t ELSE sppState.snd
        /\ sppState'.rcv = IF g = "RIL_BT_SPP_Read" THEN t ELSE sppState.rcv
    BY <2>1, <2>3, <2>4
  <2> HIDE DEF SppSendsFor
  <2>6. CASE f = "RIL_ToneDet_Get"
    BY <1>3, <2>5, <2>6 DEF Holder
  <2>7. CASE f = "RIL_BT_SPP_Send"
    BY <1>3, <2>5, <2>7 DEF Holder
  <2>8. CASE f = "RIL_BT_SPP_Read"
    BY <1>3, <2>5, <2>8 DEF Holder
  <2> QED
    BY <2>6, <2>7, <2>8 DEF Shared
<1> QED
  BY <1>1, <1>2, <1>3 DEF Step

(* A call goes on, or begins.                                              *)
LEMMA OwnCallGoesOn ==
  ASSUME TypeInv, NEW t \in Tasks, Step(t)
  PROVE  LET n == call'[t]
             c == call[t]
         IN \/ \E f \in MayCall[t] : Call(t, f)
            \/ n.pc = "idle" \/ (n.pc = "done" /\ n.ret = "invalid")
            \/ /\ c.pc \in {"ready", "sent"} /\ n.pc # "idle" /\ n.fn = c.fn /\ n.disturbed = c.disturbed
               /\ n.cut = c.cut /\ c.ret = ""
<1>0. call[t].pc \in {"ready", "sent"} => call[t].ret = ""
  BY DEF TypeInv, CallsInv, ACall
<1>1. CASE \E f \in MayCall[t] : Reject(t, f)
  BY <1>1, RefusedFields
<1>2. CASE Return(t)
  BY <1>2, ReturnFields
<1>3. CASE Send(t)
  BY <1>0, <1>3, SendFields DEF Same
<1>4. CASE Busy(t) \/ Timeout(t)
  <2>1. call[t].pc \in {"ready", "sent"}
    BY <1>4, EndFields DEF TypeInv, ChannelInv
  <2> QED
    BY <1>0, <1>4, <2>1, EndFields DEF Same
<1>5. CASE TakeLine(t)
  <2>1. Alike(call'[t], AfterLine(t)[t]) /\ call'[t].disturbed = AfterLine(t)[t].disturbed
    BY <1>5, TakenFields
  <2>2. call[t].pc = "sent" /\ AfterLine(t)[t].fn = call[t].fn /\ AfterLine(t)[t].cut = call[t].cut
        /\ AfterLine(t)[t].disturbed = call[t].disturbed /\ AfterLine(t)[t].pc # "idle"
    BY <1>5, AfterLineFields, LineTaken
  <2> QED
    BY <1>0, <2>1, <2>2 DEF Alike
<1> QED
  BY <1>1, <1>2, <1>3, <1>4, <1>5 DEF Step

(* Nobody is in a function at first.                                       *)
LEMMA InitSole == Init => SoleInv
<1>1. NoCall.pc = "idle"
  BY DEF NoCall
<1> QED
  BY <1>1 DEF Init, SoleInv, Sole

(* An undisturbed call stays the only one the pointers lead to.            *)
LEMMA SoleKept ==
  ASSUME TypeInv, SoleInv, NEW t \in Tasks, Step(t)
  PROVE  SoleInv'
<1> SUFFICES ASSUME NEW u \in Tasks, NEW f \in Shared,
                    call'[u].fn = f, call'[u].pc # "idle", call'[u].ret # "invalid", ~call'[u].disturbed
             PROVE  /\ call'[u].pc # "done" => Holder(f)' = u
                    /\ Holder(f)' = u => \A w \in Tasks \ {u} : ~In(w, f)'
  BY DEF SoleInv, Sole
<1>1. \A w \in Tasks \ {t} : call'[w].pc = call[w].pc /\ call'[w].fn = call[w].fn /\ call'[w].ret = call[w].ret
        /\ (call[w].disturbed => call'[w].disturbed)
  BY OthersKeep DEF Alike, Lasting
<1>2. CASE \E g \in MayCall[t] : Call(t, g)
  <2>1. PICK g \in MayCall[t] : Call(t, g)
    BY <1>2
  <2>0. call'[t].fn = g /\ call'[t].pc = "ready" /\ (~call'[t].disturbed => Disturbs(t, g) = {})
    <3>1. Begun(call'[t], g, sppState.mode) /\ (~call'[t].disturbed => Disturbs(t, g) = {})
      BY <2>1, CallFields
    <3> QED
      BY <3>1 DEF Begun
  <2>2. call'[t].fn = g /\ call'[t].pc = "ready" /\ (~call'[t].disturbed => Disturbs(t, g) = {})
        /\ \A w \in Tasks \ {t} : w \in Disturbs(t, g) => call'[w].disturbed
    BY <2>0, <2>1, CallFields
  <2>3. CASE u = t
    <3>1. g = f
      BY <2>2, <2>3
    <3>2. \A w \in Tasks \ {t} : ~In(w, f)
      BY <2>2, <2>3, <3>1, UsersAreInTheFunction
    <3>3. \A w \in Tasks \ {t} : ~In(w, f)'
      BY <1>1, <3>2 DEF In
    <3>4. Holder(f)' = t
      BY <2>1, <3>1, HolderKept
    <3> QED
      BY <2>3, <3>3, <3>4
  <2>4. CASE u # t
    <3>1. Sole(u, f) /\ call[u].fn = f /\ call[u].pc # "idle" /\ call[u].ret # "invalid" /\ ~call[u].disturbed
          /\ call'[u].pc = call[u].pc
      BY <1>1, <2>4 DEF SoleInv
    <3>2. call[u].pc \in {"ready", "sent", "done"}
      BY <3>1 DEF TypeInv, CallsInv, ACall
    <3>3. CASE g = f
      <4>1. call[u].pc = "done"
        BY <2>2, <2>4, <3>1, <3>2, <3>3, UsersAreInTheFunction DEF In
      <4>2. Holder(f)' = t
        BY <2>1, <3>3, HolderKept
      <4> QED
        BY <2>4, <3>1, <4>1, <4>2
    <3>4. CASE g # f
      <4>2. Holder(f)' = Holder(f)
        BY <2>1, <3>4, HolderKept
      <4>3. \A w \in Tasks \ {u} : In(w, f)' => In(w, f)
        BY <1>1, <2>2, <3>4 DEF In
      <4> QED
        BY <3>1, <4>2, <4>3 DEF Sole
    <3> QED
      BY <3>3, <3>4
  <2> QED
    BY <2>3, <2>4
<1>3. CASE ~\E g \in MayCall[t] : Call(t, g)
  <2>1. Holder(f)' = Holder(f)
    BY <1>3, HolderKept
  <2>2. \A w \in Tasks : call'[w].pc \in {"ready", "sent"} => call[w].pc \in {"ready", "sent"} /\ call'[w].fn = call[w].fn
    <3>1. call'[t].pc \in {"ready", "sent"} => call[t].pc \in {"ready", "sent"} /\ call'[t].fn = call[t].fn
      BY <1>3, OwnCallGoesOn
    <3> QED
      BY <1>1, <3>1
  <2>3. /\ call[u].fn = f /\ call[u].pc # "idle" /\ call[u].ret # "invalid" /\ ~call[u].disturbed
        /\ (call'[u].pc # "done" => call[u].pc # "done")
    <3>1. CASE u = t
      BY <1>3, <3>1, OwnCallGoesOn
    <3>2. CASE u # t
      BY <1>1, <3>2
    <3> QED
      BY <3>1, <3>2
  <2> QED
    BY <2>1, <2>2, <2>3 DEF SoleInv, Sole, In
<1> QED
  BY <1>2, <1>3

(* What another task's step may write to a call.                           *)
LEMMA WrittenOnlyByHolders ==
  ASSUME TypeInv, NEW t \in Tasks, Step(t), NEW u \in Tasks \ {t}
  PROVE  /\ call'[u].out = call[u].out \/ (In(t, "RIL_ToneDet_Get") /\ threshold = u)
         /\ call'[u].buf = call[u].buf \/ (In(t, "RIL_BT_SPP_Read") /\ sppState.rcv = u)
<1>1. ASSUME NEW f \in MayCall[t], Call(t, f) PROVE call'[u].out = call[u].out /\ call'[u].buf = call[u].buf
  BY <1>1, CallFields
<1>2. CASE Send(t) \/ Busy(t) \/ Timeout(t) \/ Return(t) \/ \E f \in MayCall[t] : Reject(t, f)
  BY <1>2, PlainSteps
<1>3. CASE TakeLine(t)
  <2> DEFINE calls == AfterLine(t)
  <2>1. Calls(calls) /\ calls[u] = call[u]
    BY <1>3, AfterLineOthers, LineTaken
  <2>2. /\ call[t].pc = "sent" /\ call[t].fn \in Functions
        /\ call[t].step \in DOMAIN Script[call[t].fn].cmds
        /\ Current(t) = Script[call[t].fn].cmds[call[t].step]
    BY <1>3, LineTaken, CommandsAreSound DEF TypeInv, ChannelInv
  <2>3. /\ Current(t).cell = "threshold" => In(t, "RIL_ToneDet_Get")
        /\ Current(t).cell = "rcv" => In(t, "RIL_BT_SPP_Read")
    BY <2>2, CellsAreUsedBy DEF In
  <2>4. \/ call' = Disturbing(calls, Users(t, "qmic"))
        \/ call' = WriteOut(calls, threshold, LineOf.val) /\ Current(t).cell = "threshold"
        \/ call' = WriteBuf(calls, sppState.rcv, LineOf.val) /\ Current(t).cell = "rcv"
        \/ call' = [calls EXCEPT ![t].sent = sppState.snd]
        \/ call' = calls
    BY <1>3, LineTakenCall, Zenon
  <2> HIDE DEF calls
  <2>5. CASE call' = Disturbing(calls, Users(t, "qmic"))
    BY <2>1, <2>5, DisturbingFields
  <2>6. CASE call' = WriteOut(calls, threshold, LineOf.val) /\ Current(t).cell = "threshold"
    BY <2>1, <2>3, <2>6, WrittenFields
  <2>7. CASE call' = WriteBuf(calls, sppState.rcv, LineOf.val) /\ Current(t).cell = "rcv"
    BY <2>1, <2>3, <2>7, WrittenFields
  <2>8. CASE call' = [calls EXCEPT ![t].sent = sppState.snd] \/ call' = calls
    BY <2>1, <2>8 DEF Calls
  <2> QED
    BY <2>4, <2>5, <2>6, <2>7, <2>8
<1> QED
  BY <1>1, <1>2, <1>3 DEF Step

(* Heads and tails of short sequences.                                     *)
LEMMA Heads ==
  /\ \A a : Head(<<a>>) = a
  /\ \A a, b : Head(<<a, b>>) = a /\ Tail(<<a, b>>) = <<b>>
  /\ \A a, b, c : Head(<<a, b, c>>) = a /\ Tail(<<a, b, c>>) = <<b, c>>
  /\ \A a, b, c, d : Head(<<a, b, c, d>>) = a /\ Tail(<<a, b, c, d>>) = <<b, c, d>>
  /\ \A a : <<a>>[1] = a
  /\ \A a, b : <<a, b>>[1] = a /\ <<a, b>>[2] = b
OBVIOUS

(* Appending to short sequences.                                           *)
LEMMA Appends ==
  /\ \A a : Append(<<>>, a) = <<a>>
  /\ \A a, b : Append(<<a>>, b) = <<a, b>>
<1>1. ASSUME NEW a PROVE Append(<<>>, a) = <<a>>
  OBVIOUS
<1>2. ASSUME NEW a, NEW b PROVE Append(<<a>>, b) = <<a, b>>
  <2>1. <<a>> \in Seq({a, b}) /\ <<a, b>> \in Seq({a, b}) /\ Len(<<a>>) = 1 /\ Len(<<a, b>>) = 2
    OBVIOUS
  <2>2. Append(<<a>>, b) \in Seq({a, b}) /\ Len(Append(<<a>>, b)) = 2
    BY <2>1
  <2>3. Append(<<a>>, b)[1] = a /\ Append(<<a>>, b)[2] = b
    BY <2>1
  <2>4. <<a, b>>[1] = a /\ <<a, b>>[2] = b
    OBVIOUS
  <2> DEFINE s == Append(<<a>>, b)
             r == <<a, b>>
  <2>5. s \in Seq({a, b}) /\ r \in Seq({a, b}) /\ Len(s) = 2 /\ Len(r) = 2 /\ s[1] = r[1] /\ s[2] = r[2]
    BY <2>1, <2>2, <2>3, <2>4
  <2> HIDE DEF s, r
  <2>6. \A i \in 1..2 : s[i] = r[i]
    BY <2>5
  <2>7. s = r
    BY <2>5, <2>6, SeqEqual
  <2> QED
    BY <2>7 DEF s, r
<1> QED
  BY <1>1, <1>2

(* The kinds of the lines that end a response.                             *)
LEMMA LineKinds ==
  /\ \A k, v : Line(k, v).kind = k /\ Line(k, v).val = v
  /\ OkLine.kind = "OK" /\ OkLine.val = ""
  /\ \A lines \in Errors : Head(lines).kind \in Faulty
<1>1. \A k, v : Line(k, v).kind = k /\ Line(k, v).val = v
  BY DEF Line
<1>2. OkLine.kind = "OK" /\ OkLine.val = ""
  BY <1>1 DEF OkLine
<1>3. ErrorLine.kind \in Faulty /\ CmeError("10").kind \in Faulty /\ CmeError("30").kind \in Faulty
  BY <1>1 DEF ErrorLine, CmeError, Faulty
<1>4. \A lines \in Errors : Head(lines).kind \in Faulty
  BY <1>3, Heads DEF Errors
<1> QED
  BY <1>1, <1>2, <1>4

(* A function of one command takes a line.                                 *)
TakesOne(t, at, hdl, cell, mode) ==
  LET c == call[t]
      n == AfterLine(t)[t]
      v == VerdictOf(t)
      o == Outcome(mode, v.verdict, n.data, c.out)
  IN /\ Current(t).at = at /\ Current(t).hdl = hdl /\ Current(t).cell = cell
     /\ IsVerdict(v)
     /\ \/ /\ v.verdict = "continue" /\ n.pc = c.pc /\ n.step = c.step /\ n.ret = c.ret /\ n.out = c.out
           /\ DOMAIN waiting' = {"task", "lines"} /\ waiting'.lines = Tail(waiting.lines)
        \/ v.verdict # "continue" /\ n.pc = "done" /\ n.ret = o.ret /\ n.out = o.out

(* A function of one command takes a line: the verdict decides whether it goes on. *)
LEMMA OneCommandTakes ==
  ASSUME TypeInv, NEW t \in Tasks, TakeLine(t), NEW at, NEW hdl, NEW cell, NEW mode \in Modes,
         HasOne(call[t].fn, at, hdl, cell, mode)
  PROVE  TakesOne(t, at, hdl, cell, mode)
<1> DEFINE c == call[t]
           n == AfterLine(t)[t]
           v == VerdictOf(t)
           o == Outcome(Script[c.fn].mode, v.verdict, n.data, c.out)
<1>1. waiting.task = t /\ waiting' = IF v.verdict = "continue" THEN [waiting EXCEPT !.lines = Tail(@)] ELSE Free
  BY LineTaken
<1>2. /\ IsVerdict(v) /\ c.pc = "sent"
      /\ \/ v.verdict = "continue" /\ n.pc = c.pc /\ n.step = c.step /\ n.ret = c.ret /\ n.out = c.out
         \/ /\ v.verdict = "success" /\ c.step < Len(Script[c.fn].cmds)
            /\ n.pc = "ready" /\ n.step = c.step + 1 /\ n.ret = c.ret /\ n.out = c.out
         \/ /\ v.verdict # "continue" /\ (v.verdict = "success" => ~(c.step < Len(Script[c.fn].cmds)))
            /\ n.pc = "done" /\ n.step = c.step /\ n.ret = o.ret /\ n.out = o.out
  BY <1>1, AfterLineFields
<1>3. c.step \in DOMAIN Script[c.fn].cmds /\ Current(t) = Script[c.fn].cmds[c.step]
  BY <1>2, CommandsAreSound
<1>4. c.step = 1 /\ Len(Script[c.fn].cmds) = 1 /\ Script[c.fn].mode = mode
  BY <1>3 DEF HasOne
<1>5. ~(c.step < Len(Script[c.fn].cmds))
  <2>1. ~(1 < 1)
    OBVIOUS
  <2> QED
    BY <1>4, <2>1, Zenon
<1>6. Current(t).at = at /\ Current(t).hdl = hdl /\ Current(t).cell = cell
  BY <1>3, <1>4 DEF HasOne
<1>7. DOMAIN waiting = {"task", "lines"}
  BY DEF TypeInv, ChannelInv
<1>8. v.verdict = "continue" => DOMAIN waiting' = {"task", "lines"} /\ waiting'.lines = Tail(waiting.lines)
  BY <1>1, <1>7
<1> HIDE DEF n, v, c, o, TakesOne
<1>9. \/ v.verdict = "continue" /\ n.pc = c.pc /\ n.step = c.step /\ n.ret = c.ret /\ n.out = c.out
      \/ v.verdict # "continue" /\ n.pc = "done" /\ n.ret = o.ret /\ n.out = o.out
  BY <1>2, <1>5
<1> QED
  BY <1>2, <1>4, <1>6, <1>8, <1>9 DEF n, v, c, o, TakesOne

-----------------------------------------------------------------------------
(* The thresholds.                                                         *)
Tone == "RIL_ToneDet_Get"

ToneDet(u) ==
  LET c == call[u]
  IN c.fn = Tone /\ ~c.disturbed =>
       /\ c.pc = "ready" => c.told = <<>>
       /\ c.pc = "sent" =>
            \/ c.told = <<>> /\ waiting.lines \in Errors
            \/ c.told = <<>> /\ \E v : waiting.lines = <<Line("+QTONEDET:", v), OkLine>>
            \/ c.told = <<c.out>> /\ waiting.lines = <<OkLine>>
       /\ c.pc = "done" /\ c.ret = "success" => c.out = c.told[1]

ToneInv == \A u \in Tasks : ToneDet(u)

(* No tone detection is read at first.                                     *)
LEMMA InitTone == Init => ToneInv
<1>1. NoCall.fn = ""
  BY DEF NoCall
<1> QED
  BY <1>1 DEF Init, ToneInv, ToneDet, Tone

(* Steps of other tasks do not change an undisturbed reading of the thresholds. *)
LEMMA ToneOthers ==
  ASSUME TypeInv, SoleInv, ToneInv, NEW t \in Tasks, Step(t), NEW u \in Tasks \ {t}
  PROVE  ToneDet(u)'
<1>1. SUFFICES ASSUME call'[u].fn = Tone, ~call'[u].disturbed PROVE ToneDet(u)'
  BY DEF ToneDet
<1>2. Alike(call'[u], call[u]) /\ Lasting(call'[u], call[u]) /\ (waiting.task = u => waiting' = waiting)
  BY OthersKeep, ChannelKept
<1>3. call[u].fn = Tone /\ ~call[u].disturbed /\ ToneDet(u) /\ Sole(u, Tone)
  BY <1>1, <1>2 DEF Alike, Lasting, ToneInv, SoleInv, Shared, Tone
<1>4. (call[u].pc = "sent" <=> waiting.task = u) /\ call[u].pc \in {"idle", "ready", "sent", "done"}
      /\ (call[u].pc \in {"ready", "sent"} => call[u].ret = "")
  BY DEF TypeInv, ChannelInv, CallsInv, ACall
<1>5. call[u].pc \in {"ready", "sent"} \/ (call[u].pc = "done" /\ call[u].ret = "success") => call'[u].out = call[u].out
  BY <1>3, <1>4, WrittenOnlyByHolders DEF Sole, Holder, Tone
<1>6. call'[u].pc = call[u].pc /\ call'[u].ret = call[u].ret /\ call'[u].told = call[u].told
  BY <1>2 DEF Alike
<1> QED
  BY <1>2, <1>3, <1>4, <1>5, <1>6 DEF ToneDet

(* The line with the thresholds reaches the caller.                        *)
LEMMA ToneLine ==
  ASSUME TypeInv, SoleInv, ToneInv, NEW t \in Tasks, TakeLine(t)
  PROVE  ToneDet(t)'
<1> DEFINE c == call[t]
           n == AfterLine(t)[t]
           v == VerdictOf(t)
           o == Outcome("none", v.verdict, n.data, c.out)
<1>1. SUFFICES ASSUME call'[t].fn = Tone, ~call'[t].disturbed PROVE ToneDet(t)'
  BY DEF ToneDet
<1>2. Alike(call'[t], n) /\ call'[t].disturbed = n.disturbed
  BY TakenFields
<1>3. /\ c.pc = "sent" /\ n.fn = c.fn /\ n.disturbed = c.disturbed /\ n.buf = c.buf
      /\ n.told = IF LineOf.kind \in Silent THEN c.told ELSE Append(c.told, LineOf.val)
  BY AfterLineFields, LineTaken
<1>4. c.fn = Tone /\ ~c.disturbed /\ ToneDet(t) /\ Sole(t, Tone)
  BY <1>1, <1>2, <1>3 DEF Alike, ToneInv, SoleInv, Shared, Tone
<1>5. threshold = t
  BY <1>3, <1>4 DEF Sole, Holder, Tone, TypeInv, CallsInv, ACall
<1>6. /\ Current(t).hdl = "ATResponse_Handler" /\ Current(t).cell = "threshold" /\ IsVerdict(v)
      /\ \/ v.verdict = "continue" /\ n.pc = c.pc /\ n.ret = c.ret /\ n.out = c.out
            /\ waiting'.lines = Tail(waiting.lines)
         \/ v.verdict # "continue" /\ n.pc = "done" /\ n.ret = o.ret /\ n.out = o.out
  <2>1. HasOne(c.fn, "AT+QTONEDET=,0", "ATResponse_Handler", "threshold", "none") /\ "none" \in Modes
    BY <1>4, SpecialRows DEF Tone, Modes
  <2>2. TakesOne(t, "AT+QTONEDET=,0", "ATResponse_Handler", "threshold", "none")
    BY <2>1, OneCommandTakes, Zenon
  <2> QED
    BY <2>2 DEF TakesOne
<1>7. v = ATResponse_Handler(LineOf, c.data)
  BY <1>6, VerdictIsTheHandlers DEF VerdictOf
<1>8. /\ call'[t].fn = n.fn /\ call'[t].pc = n.pc /\ call'[t].ret = n.ret /\ call'[t].told = n.told
      /\ call'[t].disturbed = n.disturbed
  BY <1>2 DEF Alike
<1>9. CASE waiting.lines \in Errors
  <2>1. LineOf.kind \in Faulty
    BY <1>9, LineKinds DEF LineOf
  <2>2. v.verdict = "failed"
    <3>1. \A line, d : line.kind \in Faulty => ATResponse_Handler(line, d).verdict = "failed"
      BY DEF ATResponse_Handler, FinalCms, EndsWith, Failed, Faulty
    <3> QED
      BY <1>7, <2>1, <3>1
  <2>3. o.ret = "failed"
    BY <2>2, Outcomes DEF Modes
  <2>4. n.pc = "done" /\ n.ret = "failed"
    BY <1>6, <2>2, <2>3
  <2> QED
    BY <1>8, <2>4 DEF ToneDet
<1>10. CASE c.told = <<>> /\ \E w : waiting.lines = <<Line("+QTONEDET:", w), OkLine>>
  <2>1. PICK w : waiting.lines = <<Line("+QTONEDET:", w), OkLine>>
    BY <1>10
  <2>2. LineOf.kind = "+QTONEDET:" /\ LineOf.val = w /\ Tail(waiting.lines) = <<OkLine>>
    <3>1. LineOf = Line("+QTONEDET:", w) /\ Tail(waiting.lines) = <<OkLine>>
      BY <2>1, Heads DEF LineOf
    <3> QED
      BY <3>1, LineKinds
  <2>3. v.verdict = "continue"
    BY <1>7, <2>2 DEF ATResponse_Handler, Continue
  <2>4. n.pc = "sent" /\ n.ret = "" /\ waiting'.lines = <<OkLine>>
    BY <1>3, <1>6, <2>2, <2>3 DEF TypeInv, CallsInv, ACall
  <2>5. n.told = <<w>>
    BY <1>3, <1>10, <2>2, Appends DEF Silent
  <2>6. call' = WriteOut(AfterLine(t), threshold, w)
    BY <1>6, <2>2, LineTakenCall
  <2>7. call'[t].out = w
    <3>1. Calls(AfterLine(t)) /\ n.fn = "RIL_ToneDet_Get" /\ n.ret # "invalid"
      BY <1>3, <1>4, <2>4, AfterLineOthers, LineTaken DEF Tone
    <3>2. LET m == WriteOut(AfterLine(t), threshold, w)[t]
          IN IF t = threshold /\ AfterLine(t)[t].fn = "RIL_ToneDet_Get" /\ AfterLine(t)[t].ret # "invalid"
               THEN m.out = w ELSE m.out = AfterLine(t)[t].out
      BY <3>1, WrittenFields
    <3> QED
      BY <1>5, <2>6, <3>1, <3>2
  <2> QED
    BY <1>8, <2>4, <2>5, <2>7 DEF ToneDet
<1>11. CASE c.told = <<c.out>> /\ waiting.lines = <<OkLine>>
  <2>1. LineOf = OkLine /\ LineOf.kind = "OK"
    BY <1>11, Heads, LineKinds DEF LineOf
  <2>2. v.verdict = "success"
    BY <1>7, <2>1 DEF ATResponse_Handler, FinalCms, EndsWith, Success
  <2>3. o.ret = "success" /\ o.out = c.out
    BY <2>2, Outcomes DEF Modes
  <2>4. n.pc = "done" /\ n.ret = "success" /\ n.out = c.out /\ n.told = c.told
    BY <1>3, <1>6, <2>1, <2>2, <2>3 DEF Silent
  <2>5. call' = AfterLine(t)
    BY <1>6, <2>1, LineTakenCall
  <2>6. call'[t].out = c.out /\ c.told[1] = c.out
    BY <1>11, <2>4, <2>5, Heads
  <2> QED
    BY <1>8, <2>4, <2>6 DEF ToneDet
<1> QED
  BY <1>3, <1>4, <1>9, <1>10, <1>11 DEF ToneDet

(* The steps of the reading task itself.                                   *)
LEMMA ToneOwn ==
  ASSUME TypeInv, SoleInv, ToneInv, NEW t \in Tasks, Step(t)
  PROVE  ToneDet(t)'
<1>1. ASSUME NEW f \in MayCall[t], Call(t, f) \/ Reject(t, f) PROVE ToneDet(t)'
  <2>1. CASE Call(t, f)
    <3>1. Begun(call'[t], f, sppState.mode)
      BY <2>1, CallFields
    <3> QED
      BY <3>1 DEF Begun, ToneDet
  <2>2. CASE Reject(t, f)
    BY <2>2, RefusedFields DEF ToneDet
  <2> QED
    BY <1>1, <2>1, <2>2
<1>2. CASE Send(t)
  <2>1. Same(call'[t], call[t]) /\ call[t].pc = "ready" /\ call'[t].pc = "sent"
        /\ waiting'.lines \in Done(Current(t).at) \cup Errors
    BY <1>2, SendFields
  <2>2. SUFFICES ASSUME call'[t].fn = Tone, ~call'[t].disturbed PROVE ToneDet(t)'
    BY DEF ToneDet
  <2>3. call[t].fn = Tone /\ call[t].told = <<>> /\ call'[t].told = <<>>
    BY <2>1, <2>2 DEF Same, ToneInv, ToneDet
  <2>4. Current(t).at = "AT+QTONEDET=,0"
    <3>1. call[t].step \in DOMAIN Script[Tone].cmds /\ Current(t) = Script[Tone].cmds[call[t].step]
      BY <2>1, <2>3, CommandsAreSound
    <3> QED
      BY <3>1, SpecialRows DEF HasOne, Tone
  <2>5. Done("AT+QTONEDET=,0") = BeforeOk("+QTONEDET:", Values)
    <3>1. Done("AT+QTONEDET=,0") = BeforeOk(Prefix("AT+QTONEDET=,0"), Reported("AT+QTONEDET=,0"))
      BY DEF Done, FtpResults, Queried
    <3>2. Prefix("AT+QTONEDET=,0") = "+QTONEDET:"
      BY DEF Prefix
    <3>3. Reported("AT+QTONEDET=,0") = Values
      BY DEF Reported
    <3> QED
      BY <3>1, <3>2, <3>3
  <2>6. waiting'.lines \in Errors \/ \E v : waiting'.lines = <<Line("+QTONEDET:", v), OkLine>>
    BY <2>1, <2>4, <2>5 DEF BeforeOk
  <2> QED
    BY <2>1, <2>3, <2>6 DEF ToneDet
<1>3. CASE Busy(t) \/ Timeout(t)
  <2>1. PICK r \in {"busy", "timeout"} :
          /\ call'[t].fn = call[t].fn /\ call'[t].pc = "done"
          /\ call'[t].ret = Outcome(Script[call[t].fn].mode, r, call[t].data, call[t].out).ret
    BY <1>3, EndFields DEF Same
  <2>2. call'[t].fn = Tone => call'[t].ret # "success"
    <3>1. Script[Tone].mode = "none"
      BY SpecialRows DEF HasOne, Tone
    <3> QED
      BY <2>1, <3>1, Outcomes DEF Modes
  <2> QED
    BY <2>1, <2>2 DEF ToneDet
<1>4. CASE Return(t)
  BY <1>4, ReturnFields DEF ToneDet
<1>5. CASE TakeLine(t)
  BY <1>5, ToneLine
<1> QED
  BY <1>1, <1>2, <1>3, <1>4, <1>5 DEF Step

(* RIL_ToneDet_Get writes the thresholds to its own caller, unless another call has *)
(* moved the pointers, which marks this one as disturbed.                  *)
THEOREM ThresholdsGoToTheirCaller == Spec => []ThresholdsReachTheirCaller
<1>1. ToneInv => ThresholdsReachTheirCaller
  BY DEF ToneInv, ToneDet, ThresholdsReachTheirCaller, Succeeded, Tone
<1>2. ASSUME SoleInv, ToneInv, UNCHANGED vars PROVE SoleInv' /\ ToneInv'
  <2>1. call' = call /\ waiting' = waiting /\ \A f : Holder(f)' = Holder(f)
    BY <1>2 DEF vars, Holder
  <2>2. SoleInv'
    BY <1>2, <2>1 DEF SoleInv, Sole, In
  <2>3. ToneInv'
    BY <1>2, <2>1 DEF ToneInv, ToneDet
  <2> QED
    BY <2>2, <2>3
<1>3. TypeInv /\ SoleInv /\ ToneInv /\ [Next]_vars => TypeInv' /\ SoleInv' /\ ToneInv'
  BY <1>2, ToneOwn, ToneOthers, SoleKept, NextIsAStep, TypesKept DEF ToneInv
<1>4. Spec => [](TypeInv /\ SoleInv /\ ToneInv)
  BY InitTypes, InitSole, InitTone, <1>3, PTL DEF Spec
<1> QED
  BY <1>1, <1>4, PTL

-----------------------------------------------------------------------------
(* The data that is sent.                                                  *)
SendsData == "RIL_BT_SPP_Send"

SppSend(u) ==
  LET c == call[u]
  IN c.fn = SendsData /\ ~c.disturbed =>
       /\ c.pc = "sent" =>
            \/ waiting.lines \in Errors
            \/ waiting.lines = <<Line(">", "4"), OkLine>>
            \/ c.sent = u /\ c.data = "4" /\ waiting.lines = <<OkLine>>
       /\ c.pc = "done" /\ c.ret = "success" => c.sent = u /\ c.out = "4"

SendInv == \A u \in Tasks : SppSend(u)

(* Nothing is sent at first.                                               *)
LEMMA InitSend == Init => SendInv
<1>1. NoCall.fn = ""
  BY DEF NoCall
<1> QED
  BY <1>1 DEF Init, SendInv, SppSend, SendsData

(* Steps of other tasks do not change an undisturbed RIL_BT_SPP_Send.      *)
LEMMA SendOthers ==
  ASSUME TypeInv, SendInv, NEW t \in Tasks, Step(t), NEW u \in Tasks \ {t}
  PROVE  SppSend(u)'
<1>1. SUFFICES ASSUME call'[u].fn = SendsData, ~call'[u].disturbed PROVE SppSend(u)'
  BY DEF SppSend
<1>2. Alike(call'[u], call[u]) /\ Lasting(call'[u], call[u]) /\ (waiting.task = u => waiting' = waiting)
      /\ call'[u].sent = call[u].sent /\ (call[u].fn # "RIL_ToneDet_Get" => call'[u].out = call[u].out)
  BY OthersKeep, ChannelKept
<1>3. call[u].fn = SendsData /\ ~call[u].disturbed /\ SppSend(u) /\ call'[u].out = call[u].out
  BY <1>1, <1>2 DEF Alike, Lasting, SendInv, SendsData
<1>4. call[u].pc = "sent" <=> waiting.task = u
  BY DEF TypeInv, ChannelInv
<1>5. call'[u].pc = call[u].pc /\ call'[u].ret = call[u].ret /\ call'[u].data = call[u].data
  BY <1>2 DEF Alike
<1> QED
  BY <1>2, <1>3, <1>4, <1>5 DEF SppSend

(* What the handler of AT+QSPPSEND makes of each line.                     *)
LEMMA SendHandler ==
  \A line, d :
    LET v == ATRsp_QBTSPPSEND_Hdlr(line, d)
    IN /\ line.kind \in Faulty => v.verdict = "failed"
       /\ line.kind = ">" => v.verdict = "continue" /\ v.data = line.val
       /\ line.kind = "OK" => v.verdict = "success" /\ v.data = d
BY DEF ATRsp_QBTSPPSEND_Hdlr, Final, EndsWith, Continue, Failed, Success, Faulty

(* At the prompt the data of the caller is written.                        *)
LEMMA SendLine ==
  ASSUME TypeInv, SoleInv, SendInv, NEW t \in Tasks, TakeLine(t)
  PROVE  SppSend(t)'
<1> DEFINE c == call[t]
           n == AfterLine(t)[t]
           v == VerdictOf(t)
           o == Outcome("direct", v.verdict, n.data, c.out)
<1>1. SUFFICES ASSUME call'[t].fn = SendsData, ~call'[t].disturbed PROVE SppSend(t)'
  BY DEF SppSend
<1>2. Alike(call'[t], n) /\ call'[t].disturbed = n.disturbed /\ (n.fn # "RIL_ToneDet_Get" => call'[t].out = n.out)
  BY TakenFields
<1>3. /\ c.pc = "sent" /\ n.fn = c.fn /\ n.disturbed = c.disturbed /\ n.sent = c.sent /\ DOMAIN n = Fields
      /\ n.data = IF Current(t).cell = "qmic" THEN c.data ELSE v.data
  BY AfterLineFields, LineTaken
<1>4. c.fn = SendsData /\ ~c.disturbed /\ SppSend(t) /\ Sole(t, SendsData) /\ call'[t].out = n.out
  BY <1>1, <1>2, <1>3 DEF Alike, SendInv, SoleInv, Shared, SendsData
<1>5. sppState.snd = t
  BY <1>3, <1>4 DEF Sole, Holder, SendsData, TypeInv, CallsInv, ACall
<1>6. /\ Current(t).hdl = "ATRsp_QBTSPPSEND_Hdlr" /\ Current(t).cell = "snd" /\ IsVerdict(v)
      /\ \/ v.verdict = "continue" /\ n.pc = c.pc /\ n.ret = c.ret /\ n.out = c.out
            /\ waiting'.lines = Tail(waiting.lines)
         \/ v.verdict # "continue" /\ n.pc = "done" /\ n.ret = o.ret /\ n.out = o.out
  <2>1. HasOne(c.fn, "AT+QSPPSEND", "ATRsp_QBTSPPSEND_Hdlr", "snd", "direct") /\ "direct" \in Modes
    BY <1>4, SpecialRows DEF SendsData, Modes
  <2>2. TakesOne(t, "AT+QSPPSEND", "ATRsp_QBTSPPSEND_Hdlr", "snd", "direct")
    BY <2>1, OneCommandTakes, Zenon
  <2> QED
    BY <2>2 DEF TakesOne
<1>7. v = ATRsp_QBTSPPSEND_Hdlr(LineOf, c.data) /\ n.data = v.data
  BY <1>3, <1>6, VerdictIsTheHandlers DEF VerdictOf
<1>8. call'[t].fn = n.fn /\ call'[t].pc = n.pc /\ call'[t].ret = n.ret /\ call'[t].data = n.data
  BY <1>2 DEF Alike
<1>9. CASE waiting.lines \in Errors
  <2>1. LineOf.kind \in Faulty
    BY <1>9, LineKinds DEF LineOf
  <2>2. v.verdict = "failed"
    BY <1>7, <2>1, SendHandler
  <2>3. o.ret = "failed"
    BY <2>2, Outcomes DEF Modes
  <2>4. n.pc = "done" /\ n.ret = "failed"
    BY <1>6, <2>2, <2>3
  <2> QED
    BY <1>8, <2>4 DEF SppSend
<1>10. CASE waiting.lines = <<Line(">", "4"), OkLine>>
  <2>1. LineOf = Line(">", "4") /\ Tail(waiting.lines) = <<OkLine>>
    BY <1>10, Heads DEF LineOf
  <2>2. LineOf.kind = ">" /\ LineOf.val = "4"
    BY <2>1, LineKinds
  <2>3. v.verdict = "continue" /\ v.data = "4"
    BY <1>7, <2>2, SendHandler
  <2>4. n.pc = "sent" /\ waiting'.lines = <<OkLine>>
    BY <1>3, <1>6, <2>1, <2>3
  <2>5. call' = [AfterLine(t) EXCEPT ![t].sent = sppState.snd]
    BY <1>6, <2>2, LineTakenCall
  <2>6. call'[t].sent = t
    <3>1. t \in DOMAIN AfterLine(t)
      BY AfterLineOthers, LineTaken DEF Calls
    <3>2. call'[t] = [n EXCEPT !.sent = sppState.snd]
      BY <2>5, <3>1
    <3> QED
      BY <1>3, <1>5, <3>2 DEF Fields
  <2> QED
    BY <1>7, <1>8, <2>3, <2>4, <2>6 DEF SppSend
<1>11. CASE c.sent = t /\ c.data = "4" /\ waiting.lines = <<OkLine>>
  <2>1. LineOf = OkLine /\ LineOf.kind = "OK"
    BY <1>11, Heads, LineKinds, ZenonT(60) DEF LineOf
  <2>2. v.verdict = "success" /\ v.data = "4"
    BY <1>7, <1>11, <2>1, SendHandler
  <2>3. o.ret = "success" /\ o.out = n.data
    BY <2>2, Outcomes DEF Modes
  <2>4. n.pc = "done" /\ n.out = "4"
    BY <1>6, <1>7, <2>2, <2>3
  <2>5. call' = AfterLine(t)
    BY <1>6, <2>1, LineTakenCall
  <2>6. call'[t].sent = t
    BY <1>3, <1>11, <2>5
  <2> QED
    BY <1>4, <1>8, <2>4, <2>6 DEF SppSend
<1> QED
  BY <1>3, <1>4, <1>9, <1>10, <1>11 DEF SppSend

(* The steps of the sending task itself.                                   *)
LEMMA SendOwn ==
  ASSUME TypeInv, SoleInv, SendInv, NEW t \in Tasks, Step(t)
  PROVE  SppSend(t)'
<1>1. ASSUME NEW f \in MayCall[t], Call(t, f) \/ Reject(t, f) PROVE SppSend(t)'
  <2>1. CASE Call(t, f)
    <3>1. Begun(call'[t], f, sppState.mode)
      BY <2>1, CallFields
    <3> QED
      BY <3>1 DEF Begun, SppSend
  <2>2. CASE Reject(t, f)
    BY <2>2, RefusedFields DEF SppSend
  <2> QED
    BY <1>1, <2>1, <2>2
<1>2. CASE Send(t)
  <2>1. Same(call'[t], call[t]) /\ call[t].pc = "ready" /\ call'[t].pc = "sent"
        /\ waiting'.lines \in Done(Current(t).at) \cup Errors
    BY <1>2, SendFields
  <2>2. SUFFICES ASSUME call'[t].fn = SendsData PROVE SppSend(t)'
    BY DEF SppSend
  <2>3. call[t].fn = SendsData
    BY <2>1, <2>2 DEF Same
  <2>4. Current(t).at = "AT+QSPPSEND"
    <3>1. call[t].step \in DOMAIN Script[SendsData].cmds /\ Current(t) = Script[SendsData].cmds[call[t].step]
      BY <2>1, <2>3, CommandsAreSound
    <3> QED
      BY <3>1, SpecialRows DEF HasOne, SendsData
  <2>5. Done("AT+QSPPSEND") = BeforeOk(">", {"4"})
    BY DEF Done, FtpResults, Queried
  <2>6. waiting'.lines \in Errors \/ waiting'.lines = <<Line(">", "4"), OkLine>>
    BY <2>1, <2>4, <2>5 DEF BeforeOk
  <2> QED
    BY <2>1, <2>6 DEF SppSend
<1>3. CASE Busy(t) \/ Timeout(t)
  <2>1. PICK r \in {"busy", "timeout"} :
          /\ call'[t].fn = call[t].fn /\ call'[t].pc = "done"
          /\ call'[t].ret = Outcome(Script[call[t].fn].mode, r, call[t].data, call[t].out).ret
    BY <1>3, EndFields DEF Same
  <2>2. call'[t].fn = SendsData => call'[t].ret # "success"
    <3>1. Script[SendsData].mode = "direct"
      BY SpecialRows DEF HasOne, SendsData
    <3> QED
      BY <2>1, <3>1, Outcomes DEF Modes
  <2> QED
    BY <2>1, <2>2 DEF SppSend
<1>4. CASE Return(t)
  BY <1>4, ReturnFields DEF SppSend
<1>5. CASE TakeLine(t)
  BY <1>5, SendLine
<1> QED
  BY <1>1, <1>2, <1>3, <1>4, <1>5 DEF Step

(* RIL_BT_SPP_Send that succeeds has written the data of its own caller, and returns *)
(* how much the module has taken.                                          *)
LEMMA SentDataIsTheCallers == Spec => []SppSendSendsItsData
<1>1. SendInv => SppSendSendsItsData
  BY DEF SendInv, SppSend, SppSendSendsItsData, Succeeded, SendsData
<1>2. ASSUME SendInv, UNCHANGED vars PROVE SendInv'
  BY <1>2 DEF vars, SendInv, SppSend
<1>3. ASSUME SoleInv, UNCHANGED vars PROVE SoleInv'
  <2>1. call' = call /\ \A f : Holder(f)' = Holder(f)
    BY <1>3 DEF vars, Holder
  <2> QED
    BY <1>3, <2>1 DEF SoleInv, Sole, In
<1>4. TypeInv /\ SoleInv /\ SendInv /\ [Next]_vars => TypeInv' /\ SoleInv' /\ SendInv'
  BY <1>2, <1>3, SendOwn, SendOthers, SoleKept, NextIsAStep, TypesKept DEF SendInv
<1>5. Spec => [](TypeInv /\ SoleInv /\ SendInv)
  BY InitTypes, InitSole, InitSend, <1>4, PTL DEF Spec
<1> QED
  BY <1>1, <1>5, PTL

-----------------------------------------------------------------------------
(* The data that is read.                                                  *)
ReadsData == "RIL_BT_SPP_Read"

(* Nothing of the answer has been taken yet; the header has; the data has. *)
NotYetRead(c, spp)    == c.told = <<>> /\ c.buf = Unset /\ ~spp.mode
EmptyRead(c, spp)     == c.told = <<"0">> /\ c.buf = Unset /\ ~spp.mode
HeaderRead(c, spp)    == c.told = <<"3">> /\ spp.mode /\ spp.len = "3"
DataRead(c, spp)      == c.told = <<"3", c.buf>> /\ c.data = "3" /\ ~spp.mode

SppRead(u) ==
  LET c == call[u]
      lines == waiting.lines
  IN c.fn = ReadsData /\ ~c.disturbed /\ ~c.cut =>
       /\ c.pc = "ready" => NotYetRead(c, sppState)
       /\ c.pc = "sent" =>
            \/ NotYetRead(c, sppState) /\ lines \in Errors \cup SppDataRead
            \/ EmptyRead(c, sppState) /\ lines = <<OkLine>>
            \/ HeaderRead(c, sppState) /\ \E v : lines = <<Line("data OK", v)>> \/ lines = <<Line("data", v), OkLine>>
            \/ DataRead(c, sppState) /\ lines = <<OkLine>>
       /\ c.pc = "done" /\ c.ret = "success" =>
            \/ c.told = <<"0">> /\ c.buf = Unset
            \/ c.told = <<"3", c.buf>> /\ c.out = "3"

ReadInv == \A u \in Tasks : SppRead(u)

(* Nothing is read at first.                                               *)
LEMMA InitRead == Init => ReadInv
<1>1. NoCall.fn = ""
  BY DEF NoCall
<1> QED
  BY <1>1 DEF Init, ReadInv, SppRead, ReadsData

(* A function that is not RIL_BT_SPP_Read leaves the mode and the length.  *)
LEMMA ModeKept ==
  ASSUME TypeInv, NEW t \in Tasks, Step(t), ~In(t, "RIL_BT_SPP_Read"), ~Call(t, "RIL_BT_SPP_Read")
  PROVE  sppState'.mode = sppState.mode /\ sppState'.len = sppState.len
<1>0. DOMAIN sppState = {"snd", "rcv", "len", "mode"}
  BY DEF TypeInv, GlobalsInv
<1>1. CASE Send(t) \/ Busy(t) \/ Timeout(t) \/ Return(t) \/ \E g \in MayCall[t] : Reject(t, g)
  BY <1>1, SendFields, EndFields, ReturnFields, RefusedFields
<1>2. CASE TakeLine(t)
  <2>1. call[t].pc = "sent"
    BY <1>2, LineTaken DEF TypeInv, ChannelInv
  <2>2. Current(t).cell # "rcv"
    BY <2>1, CommandsAreSound, CellsAreUsedBy DEF In
  <2> QED
    BY <1>2, <2>2, LineTaken
<1>3. ASSUME NEW g \in MayCall[t], Call(t, g) PROVE sppState'.mode = sppState.mode /\ sppState'.len = sppState.len
  <2>1. g # "RIL_BT_SPP_Read"
    BY <1>3
  <2>2. sppState' \in {SppSendsFor(t, sppState), sppState}
    BY <1>3, <2>1, Zenon DEF Call
  <2> QED
    BY <1>0, <2>2 DEF SppSendsFor
<1> QED
  BY <1>1, <1>2, <1>3 DEF Step

(* Steps of other tasks do not change an undisturbed RIL_BT_SPP_Read.      *)
LEMMA ReadOthers ==
  ASSUME TypeInv, SoleInv, ReadInv, NEW t \in Tasks, Step(t), NEW u \in Tasks \ {t}
  PROVE  SppRead(u)'
<1>1. SUFFICES ASSUME call'[u].fn = ReadsData, ~call'[u].disturbed, ~call'[u].cut PROVE SppRead(u)'
  BY DEF SppRead
<1>2. Alike(call'[u], call[u]) /\ Lasting(call'[u], call[u]) /\ (waiting.task = u => waiting' = waiting)
      /\ (call[u].fn # "RIL_ToneDet_Get" => call'[u].out = call[u].out)
  BY OthersKeep, ChannelKept
<1>3. call[u].fn = ReadsData /\ ~call[u].disturbed /\ ~call[u].cut /\ SppRead(u) /\ Sole(u, ReadsData)
      /\ call'[u].out = call[u].out
  BY <1>1, <1>2 DEF Alike, Lasting, ReadInv, SoleInv, Shared, ReadsData
<1>4. (call[u].pc = "sent" <=> waiting.task = u) /\ call[u].pc \in {"idle", "ready", "sent", "done"}
      /\ (call[u].pc \in {"ready", "sent"} => call[u].ret = "")
  BY DEF TypeInv, ChannelInv, CallsInv, ACall
<1>5. call[u].pc \in {"ready", "sent"} \/ (call[u].pc = "done" /\ call[u].ret = "success") => call'[u].buf = call[u].buf
  BY <1>3, <1>4, WrittenOnlyByHolders DEF Sole, Holder, ReadsData
<1>6. call[u].pc \in {"ready", "sent"} => sppState'.mode = sppState.mode /\ sppState'.len = sppState.len
  <2> SUFFICES ASSUME call[u].pc \in {"ready", "sent"}
               PROVE  sppState'.mode = sppState.mode /\ sppState'.len = sppState.len
    OBVIOUS
  <2>1. ~In(t, "RIL_BT_SPP_Read")
    BY <1>3, <1>4 DEF Sole, Holder, ReadsData
  <2>2. ~Call(t, "RIL_BT_SPP_Read")
    <3>1. SUFFICES ASSUME Call(t, "RIL_BT_SPP_Read") PROVE FALSE
      OBVIOUS
    <3>2. u \in Disturbs(t, "RIL_BT_SPP_Read")
      BY <1>3, UsersAreInTheFunction DEF In, Shared, ReadsData
    <3> QED
      BY <1>1, <3>1, <3>2, CallFields
  <2> QED
    BY <2>1, <2>2, ModeKept
<1>7. call'[u].pc = call[u].pc /\ call'[u].ret = call[u].ret /\ call'[u].told = call[u].told
      /\ call'[u].data = call[u].data
  BY <1>2 DEF Alike
<1>8. CASE call[u].pc = "ready"
  BY <1>3, <1>5, <1>6, <1>7, <1>8 DEF SppRead, NotYetRead
<1>9. CASE call[u].pc = "sent"
  <2>1. waiting' = waiting
    BY <1>2, <1>4, <1>9
  <2> QED
    BY <1>3, <1>5, <1>6, <1>7, <1>9, <2>1 DEF SppRead, NotYetRead, EmptyRead, HeaderRead, DataRead
<1>10. CASE call[u].pc \notin {"ready", "sent"}
  BY <1>3, <1>5, <1>7, <1>10 DEF SppRead
<1> QED
  BY <1>8, <1>9, <1>10

(* The handler, line by line.                                              *)
LEMMA ReadHandler ==
  \A line, d, spp :
    LET v == ATRsp_QBTSPPREAD_Hdlr(line, d, spp)
    IN /\ ~spp.mode /\ line.kind \in Faulty => v.verdict = "failed"
       /\ ~spp.mode /\ line.kind = "+QSPPREAD:" => v.verdict = "continue" /\ v.data = d
       /\ ~spp.mode /\ line.kind = "OK" => v.verdict = "success" /\ v.data = d
       /\ spp.mode /\ line.kind = "data OK" => v.verdict = "success" /\ v.data = spp.len
       /\ spp.mode /\ line.kind = "data" => v.verdict = "continue" /\ v.data = spp.len
<1> TAKE line, d, spp
<1>1. CASE spp.mode
  BY <1>1 DEF ATRsp_QBTSPPREAD_Hdlr, Continue, Failed, Success, Faulty
<1>2. CASE ~spp.mode /\ line.kind = "+QSPPREAD:"
  BY <1>2 DEF ATRsp_QBTSPPREAD_Hdlr, Continue, Failed, Success, Faulty
<1>3. CASE ~spp.mode /\ line.kind = "OK"
  BY <1>3 DEF ATRsp_QBTSPPREAD_Hdlr, Continue, Failed, Success, Faulty
<1>4. CASE ~spp.mode /\ line.kind \notin {"+QSPPREAD:", "OK"}
  BY <1>4 DEF ATRsp_QBTSPPREAD_Hdlr, Continue, Failed, Success, Faulty
<1> QED
  BY <1>1, <1>2, <1>3, <1>4

(* How the mode and the length follow the lines.                           *)
LEMMA SppSteps ==
  ASSUME TypeInv, NEW line
  PROVE  LET spp == SppAfter(line, sppState)
         IN /\ sppState.mode => ~spp.mode
            /\ ~sppState.mode /\ line.kind = "+QSPPREAD:" =>
                 spp.len = line.val /\ (spp.mode <=> line.val # "0")
            /\ ~sppState.mode /\ line.kind # "+QSPPREAD:" => spp = sppState
BY DEF SppAfter, TypeInv, GlobalsInv

(* RIL_BT_SPP_Read takes a line while its call is the only one.            *)
ReadTakes(t) ==
  LET c == call[t]
      n == AfterLine(t)[t]
      m == call'[t]
      v == VerdictOf(t)
  IN /\ m.fn = c.fn /\ m.pc = n.pc /\ m.ret = n.ret /\ m.data = v.data /\ m.out = n.out
     /\ m.told = IF LineOf.kind \in Silent THEN c.told ELSE Append(c.told, LineOf.val)
     /\ m.buf = IF CopiesData(sppState) THEN LineOf.val ELSE c.buf
     /\ v = ATRsp_QBTSPPREAD_Hdlr(LineOf, c.data, sppState)
     /\ sppState' = SppAfter(LineOf, sppState)
     /\ v.verdict = "continue" => n.pc = "sent" /\ waiting'.lines = Tail(waiting.lines)
     /\ v.verdict = "failed" => n.pc = "done" /\ n.ret = "failed"
     /\ v.verdict = "success" => n.pc = "done" /\ n.out = v.data

(* The call of RIL_BT_SPP_Read after a line.                               *)
LEMMA ReadTakesALine ==
  ASSUME TypeInv, SoleInv, NEW t \in Tasks, TakeLine(t), call'[t].fn = ReadsData, ~call'[t].disturbed
  PROVE  ReadTakes(t)
<1> DEFINE c == call[t]
           n == AfterLine(t)[t]
           v == VerdictOf(t)
           o == Outcome("direct", v.verdict, n.data, c.out)
<1>2. Alike(call'[t], n) /\ call'[t].disturbed = n.disturbed /\ (n.fn # "RIL_ToneDet_Get" => call'[t].out = n.out)
  BY TakenFields
<1>3. /\ c.pc = "sent" /\ n.fn = c.fn /\ n.disturbed = c.disturbed /\ n.buf = c.buf
      /\ n.told = IF LineOf.kind \in Silent THEN c.told ELSE Append(c.told, LineOf.val)
      /\ n.data = IF Current(t).cell = "qmic" THEN c.data ELSE v.data
  BY AfterLineFields, LineTaken
<1>4. c.fn = ReadsData /\ ~c.disturbed /\ Sole(t, ReadsData) /\ call'[t].out = n.out /\ c.ret = ""
  BY <1>2, <1>3 DEF Alike, SoleInv, Shared, ReadsData, TypeInv, CallsInv, ACall
<1>5. sppState.rcv = t
  BY <1>3, <1>4 DEF Sole, Holder, ReadsData
<1>6. /\ Current(t).hdl = "ATRsp_QBTSPPREAD_Hdlr" /\ Current(t).cell = "rcv" /\ IsVerdict(v)
      /\ \/ v.verdict = "continue" /\ n.pc = c.pc /\ n.ret = c.ret /\ n.out = c.out
            /\ waiting'.lines = Tail(waiting.lines)
         \/ v.verdict # "continue" /\ n.pc = "done" /\ n.ret = o.ret /\ n.out = o.out
  <2>1. HasOne(c.fn, "AT+QSPPREAD", "ATRsp_QBTSPPREAD_Hdlr", "rcv", "direct") /\ "direct" \in Modes
    BY <1>4, SpecialRows DEF ReadsData, Modes
  <2>2. TakesOne(t, "AT+QSPPREAD", "ATRsp_QBTSPPREAD_Hdlr", "rcv", "direct")
    BY <2>1, OneCommandTakes, Zenon
  <2> QED
    BY <2>2 DEF TakesOne
<1>7. v = ATRsp_QBTSPPREAD_Hdlr(LineOf, c.data, sppState) /\ n.data = v.data
  BY <1>3, <1>6, VerdictIsTheHandlers DEF VerdictOf
<1>8. v.verdict # "continue" => o.ret = v.verdict /\ o.out = n.data
  BY <1>6, Outcomes DEF Modes, IsVerdict
<1>9. n.ret # "invalid"
  BY <1>4, <1>6, <1>8 DEF IsVerdict
<1>10. sppState' = SppAfter(LineOf, sppState)
  BY <1>6, LineTaken
<1>11. call'[t].buf = IF CopiesData(sppState) THEN LineOf.val ELSE c.buf
  <2>1. CASE CopiesData(sppState)
    <3>1. call' = WriteBuf(AfterLine(t), sppState.rcv, LineOf.val)
      BY <1>6, <2>1, LineTakenCall
    <3>2. Calls(AfterLine(t)) /\ n.fn = "RIL_BT_SPP_Read" /\ n.ret # "invalid"
      BY <1>3, <1>4, <1>9, AfterLineOthers, LineTaken DEF ReadsData
    <3>3. LET m == WriteBuf(AfterLine(t), sppState.rcv, LineOf.val)[t]
          IN IF t = sppState.rcv /\ AfterLine(t)[t].fn = "RIL_BT_SPP_Read" /\ AfterLine(t)[t].ret # "invalid"
               THEN m.buf = LineOf.val ELSE m.buf = AfterLine(t)[t].buf
      BY <3>2, WrittenFields
    <3> QED
      BY <1>5, <2>1, <3>1, <3>2, <3>3
  <2>2. CASE ~CopiesData(sppState)
    <3>1. call' = AfterLine(t)
      BY <1>6, <2>2, LineTakenCall
    <3> QED
      BY <1>3, <2>2, <3>1
  <2> QED
    BY <2>1, <2>2
<1>12. /\ call'[t].fn = n.fn /\ call'[t].pc = n.pc /\ call'[t].ret = n.ret /\ call'[t].told = n.told
       /\ call'[t].data = n.data
  BY <1>2 DEF Alike
<1>13. /\ v.verdict = "continue" => n.pc = "sent" /\ waiting'.lines = Tail(waiting.lines)
       /\ v.verdict = "failed" => n.pc = "done" /\ n.ret = "failed"
       /\ v.verdict = "success" => n.pc = "done" /\ n.out = v.data
  BY <1>3, <1>6, <1>7, <1>8
<1> QED
  BY <1>3, <1>4, <1>7, <1>10, <1>11, <1>12, <1>13 DEF ReadTakes

(* Header, data and OK, in the order of the answer.                        *)
LEMMA ReadLine ==
  ASSUME TypeInv, SoleInv, ReadInv, NEW t \in Tasks, TakeLine(t)
  PROVE  SppRead(t)'
<1> DEFINE c == call[t]
           m == call'[t]
           v == VerdictOf(t)
           h == ATRsp_QBTSPPREAD_Hdlr(LineOf, c.data, sppState)
           spp == SppAfter(LineOf, sppState)
<1>1. SUFFICES ASSUME m.fn = ReadsData, ~m.disturbed, ~m.cut PROVE SppRead(t)'
  BY DEF SppRead
<1>2. ReadTakes(t)
  BY <1>1, ReadTakesALine
<1>3. /\ m.fn = c.fn /\ m.data = v.data
      /\ m.told = IF LineOf.kind \in Silent THEN c.told ELSE Append(c.told, LineOf.val)
      /\ m.buf = IF CopiesData(sppState) THEN LineOf.val ELSE c.buf
      /\ v = h /\ sppState' = spp
      /\ v.verdict = "continue" => m.pc = "sent" /\ waiting'.lines = Tail(waiting.lines)
      /\ v.verdict = "failed" => m.pc = "done" /\ m.ret = "failed"
      /\ v.verdict = "success" => m.pc = "done" /\ m.out = v.data
  BY <1>2 DEF ReadTakes
<1>4. c.pc = "sent" /\ ~c.disturbed /\ ~c.cut
  <2>1. Alike(call'[t], AfterLine(t)[t]) /\ call'[t].disturbed = AfterLine(t)[t].disturbed
    BY TakenFields
  <2>2. call[t].pc = "sent" /\ AfterLine(t)[t].cut = call[t].cut
        /\ AfterLine(t)[t].disturbed = call[t].disturbed
    BY AfterLineFields, LineTaken
  <2> QED
    BY <1>1, <2>1, <2>2 DEF Alike
<1>5. SppRead(t) /\ c.fn = ReadsData
  BY <1>1, <1>3 DEF ReadInv
<1> HIDE DEF c, m, v, h, spp
<1>6. /\ ~sppState.mode /\ LineOf.kind \in Faulty => h.verdict = "failed"
      /\ ~sppState.mode /\ LineOf.kind = "+QSPPREAD:" => h.verdict = "continue" /\ h.data = c.data
      /\ ~sppState.mode /\ LineOf.kind = "OK" => h.verdict = "success" /\ h.data = c.data
      /\ sppState.mode /\ LineOf.kind = "data OK" => h.verdict = "success" /\ h.data = sppState.len
      /\ sppState.mode /\ LineOf.kind = "data" => h.verdict = "continue" /\ h.data = sppState.len
  BY ReadHandler DEF h
<1>7. /\ sppState.mode => ~spp.mode
      /\ ~sppState.mode /\ LineOf.kind = "+QSPPREAD:" => spp.len = LineOf.val /\ (spp.mode <=> LineOf.val # "0")
      /\ ~sppState.mode /\ LineOf.kind # "+QSPPREAD:" => spp = sppState
  BY SppSteps DEF spp
<1>8. ~sppState.mode => ~CopiesData(sppState)
  BY DEF CopiesData
<1>9. CASE NotYetRead(c, sppState) /\ waiting.lines \in Errors
  <2>1. LineOf.kind \in Faulty
    BY <1>9, LineKinds DEF LineOf
  <2>2. m.pc = "done" /\ m.ret = "failed"
    BY <1>3, <1>6, <1>9, <2>1 DEF NotYetRead
  <2> QED
    BY <2>2 DEF SppRead, m
<1>10. ASSUME NotYetRead(c, sppState), NEW len, Head(waiting.lines) = Line("+QSPPREAD:", len)
       PROVE  /\ m.pc = "sent" /\ waiting'.lines = Tail(waiting.lines) /\ m.told = <<len>> /\ m.buf = Unset
              /\ spp.len = len /\ (spp.mode <=> len # "0")
  <2>1. LineOf.kind = "+QSPPREAD:" /\ LineOf.val = len
    BY <1>10 DEF LineOf, Line
  <2>2. v.verdict = "continue"
    BY <1>3, <1>6, <1>10, <2>1 DEF NotYetRead
  <2>3. m.told = <<len>>
    BY <1>3, <1>10, <2>1, Appends DEF NotYetRead, Silent
  <2> QED
    BY <1>3, <1>7, <1>8, <1>10, <2>1, <2>2, <2>3 DEF NotYetRead
<1>11. CASE NotYetRead(c, sppState) /\ waiting.lines \in SppDataRead
  <2>1. CASE waiting.lines = <<Line("+QSPPREAD:", "0"), OkLine>>
    <3>1. m.pc = "sent" /\ waiting'.lines = <<OkLine>> /\ m.told = <<"0">> /\ m.buf = Unset /\ ~spp.mode
      BY <1>10, <1>11, <2>1, Heads
    <3> QED
      BY <1>3, <3>1 DEF SppRead, m, EmptyRead
  <2>2. ASSUME NEW w, waiting.lines = <<Line("+QSPPREAD:", "3"), Line("data OK", w)>> PROVE SppRead(t)'
    <3>1. m.pc = "sent" /\ waiting'.lines = <<Line("data OK", w)>> /\ m.told = <<"3">> /\ spp.mode /\ spp.len = "3"
      <4>1. Head(waiting.lines) = Line("+QSPPREAD:", "3") /\ Tail(waiting.lines) = <<Line("data OK", w)>>
        BY <2>2, Heads, ZenonT(60)
      <4> QED
        BY <1>10, <1>11, <4>1
    <3> QED
      BY <1>3, <3>1 DEF SppRead, m, HeaderRead
  <2>3. ASSUME NEW w, waiting.lines = <<Line("+QSPPREAD:", "3"), Line("data", w), OkLine>> PROVE SppRead(t)'
    <3>1. m.pc = "sent" /\ waiting'.lines = <<Line("data", w), OkLine>> /\ m.told = <<"3">> /\ spp.mode
          /\ spp.len = "3"
      BY <1>10, <1>11, <2>3, Heads
    <3> QED
      BY <1>3, <3>1 DEF SppRead, m, HeaderRead
  <2> QED
    BY <1>11, <2>1, <2>2, <2>3 DEF SppDataRead, BeforeOk
<1>12. CASE EmptyRead(c, sppState) /\ waiting.lines = <<OkLine>>
  <2>1. LineOf.kind = "OK"
    BY <1>12, Heads, LineKinds DEF LineOf
  <2>2. m.pc = "done" /\ m.told = <<"0">> /\ m.buf = Unset
    BY <1>3, <1>6, <1>8, <1>12, <2>1 DEF EmptyRead, Silent
  <2> QED
    BY <2>2 DEF SppRead, m
<1>13. ASSUME HeaderRead(c, sppState), NEW w, NEW k \in {"data", "data OK"}, Head(waiting.lines) = Line(k, w)
       PROVE  m.told = <<"3", w>> /\ m.buf = w /\ m.data = "3" /\ ~spp.mode /\ LineOf.kind = k
  <2>1. LineOf.kind = k /\ LineOf.val = w
    <3>1. LineOf = Line(k, w)
      BY <1>13 DEF LineOf
    <3> QED
      BY <3>1 DEF Line
  <2>2. CopiesData(sppState)
    BY <1>13 DEF CopiesData, HeaderRead
  <2>3. m.told = <<"3", w>>
    <3>1. m.told = Append(c.told, w)
      BY <1>3, <1>13, <2>1 DEF Silent
    <3>2. c.told = <<"3">>
      BY <1>13 DEF HeaderRead
    <3> QED
      BY <3>1, <3>2, Appends
  <2> QED
    BY <1>3, <1>6, <1>7, <1>13, <2>1, <2>2, <2>3 DEF HeaderRead
<1>14. ASSUME HeaderRead(c, sppState), NEW w, waiting.lines = <<Line("data OK", w)>> PROVE SppRead(t)'
  <2>1. m.told = <<"3", w>> /\ m.buf = w /\ m.data = "3" /\ LineOf.kind = "data OK"
    <3>1. Head(waiting.lines) = Line("data OK", w)
      BY <1>14, Heads
    <3> QED
      BY <1>13, <1>14, <3>1
  <2>2. m.pc = "done" /\ m.out = "3"
    BY <1>3, <1>6, <1>14, <2>1 DEF HeaderRead
  <2> QED
    BY <2>1, <2>2 DEF SppRead, m
<1>15. ASSUME HeaderRead(c, sppState), NEW w, waiting.lines = <<Line("data", w), OkLine>> PROVE SppRead(t)'
  <2>1. m.told = <<"3", w>> /\ m.buf = w /\ m.data = "3" /\ LineOf.kind = "data" /\ ~spp.mode
    <3>1. Head(waiting.lines) = Line("data", w)
      BY <1>15, Heads
    <3> QED
      BY <1>13, <1>15, <3>1
  <2>2. m.pc = "sent" /\ waiting'.lines = <<OkLine>>
    BY <1>3, <1>6, <1>15, <2>1, Heads DEF HeaderRead
  <2> QED
    BY <1>3, <2>1, <2>2 DEF SppRead, m, DataRead
<1>16. CASE DataRead(c, sppState) /\ waiting.lines = <<OkLine>>
  <2>1. LineOf.kind = "OK"
    BY <1>16, Heads, LineKinds DEF LineOf
  <2>2. m.pc = "done" /\ m.told = <<"3", m.buf>> /\ m.out = "3"
    BY <1>3, <1>6, <1>8, <1>16, <2>1 DEF DataRead, Silent
  <2> QED
    BY <2>2 DEF SppRead, m
<1> QED
  BY <1>4, <1>5, <1>9, <1>11, <1>12, <1>14, <1>15, <1>16 DEF SppRead, c

(* The steps of the reading task itself.                                   *)
LEMMA ReadOwn ==
  ASSUME TypeInv, SoleInv, ReadInv, NEW t \in Tasks, Step(t)
  PROVE  SppRead(t)'
<1>1. ASSUME NEW f \in MayCall[t], Call(t, f) \/ Reject(t, f) PROVE SppRead(t)'
  <2>1. CASE Call(t, f)
    <3>1. Begun(call'[t], f, sppState.mode)
      BY <2>1, CallFields
    <3>2. SUFFICES ASSUME call'[t].fn = ReadsData, ~call'[t].cut PROVE SppRead(t)'
      BY DEF SppRead
    <3>3. f = "RIL_BT_SPP_Read" /\ ~sppState.mode
      BY <3>1, <3>2 DEF Begun, ReadsData
    <3>4. sppState' = SppReadsFor(t, sppState)
      BY <2>1, <3>3, Zenon DEF Call
    <3>5. ~sppState'.mode
      BY <3>3, <3>4 DEF SppReadsFor, TypeInv, GlobalsInv
    <3> QED
      BY <3>1, <3>5 DEF Begun, SppRead, NotYetRead
  <2>2. CASE Reject(t, f)
    BY <2>2, RefusedFields DEF SppRead
  <2> QED
    BY <1>1, <2>1, <2>2
<1>2. CASE Send(t)
  <2>1. Same(call'[t], call[t]) /\ call[t].pc = "ready" /\ call'[t].pc = "sent" /\ sppState' = sppState
        /\ waiting'.lines \in Done(Current(t).at) \cup Errors
    BY <1>2, SendFields
  <2>2. SUFFICES ASSUME call'[t].fn = ReadsData, ~call'[t].disturbed, ~call'[t].cut PROVE SppRead(t)'
    BY DEF SppRead
  <2>3. call[t].fn = ReadsData /\ NotYetRead(call[t], sppState)
    BY <2>1, <2>2 DEF Same, ReadInv, SppRead
  <2>4. Current(t).at = "AT+QSPPREAD"
    <3>1. call[t].step \in DOMAIN Script[ReadsData].cmds /\ Current(t) = Script[ReadsData].cmds[call[t].step]
      BY <2>1, <2>3, CommandsAreSound
    <3> QED
      BY <3>1, SpecialRows DEF HasOne, ReadsData
  <2>5. Done("AT+QSPPREAD") = SppDataRead
    BY DEF Done, FtpResults, Queried
  <2>6. waiting'.lines \in Errors \cup SppDataRead
    BY <2>1, <2>4, <2>5
  <2>7. NotYetRead(call'[t], sppState')
    BY <2>1, <2>3 DEF NotYetRead, Same
  <2> QED
    BY <2>1, <2>6, <2>7 DEF SppRead
<1>3. CASE Busy(t) \/ Timeout(t)
  <2>1. PICK r \in {"busy", "timeout"} :
          /\ call'[t].fn = call[t].fn /\ call'[t].pc = "done"
          /\ call'[t].ret = Outcome(Script[call[t].fn].mode, r, call[t].data, call[t].out).ret
    BY <1>3, EndFields DEF Same
  <2>2. call'[t].fn = ReadsData => call'[t].ret # "success"
    <3>1. Script[ReadsData].mode = "direct"
      BY SpecialRows DEF HasOne, ReadsData
    <3> QED
      BY <2>1, <3>1, Outcomes DEF Modes
  <2> QED
    BY <2>1, <2>2 DEF SppRead
<1>4. CASE Return(t)
  BY <1>4, ReturnFields DEF SppRead
<1>5. CASE TakeLine(t)
  BY <1>5, ReadLine
<1> QED
  BY <1>1, <1>2, <1>3, <1>4, <1>5 DEF Step

(* Stuttering keeps who is alone in a function.                            *)
LEMMA SoleStutters == ASSUME SoleInv, UNCHANGED vars PROVE SoleInv'
<1>1. call' = call /\ \A f : Holder(f)' = Holder(f)
  BY DEF vars, Holder
<1> QED
  BY <1>1 DEF SoleInv, Sole, In

(* The invariant behind the next lemma, with those it rests on.            *)
LEMMA ReadHolds == Spec => [](TypeInv /\ SoleInv /\ ReadInv)
<1>1. ASSUME ReadInv, UNCHANGED vars PROVE ReadInv'
  BY <1>1 DEF vars, ReadInv, SppRead
<1>2. TypeInv /\ SoleInv /\ ReadInv /\ [Next]_vars => TypeInv' /\ SoleInv' /\ ReadInv'
  BY <1>1, SoleStutters, ReadOwn, ReadOthers, SoleKept, NextIsAStep, TypesKept DEF ReadInv
<1> QED
  BY InitTypes, InitSole, InitRead, <1>2, PTL DEF Spec

(* RIL_BT_SPP_Read that succeeds has put the data of its answer into the buffer of *)
(* its caller and returned its length, unless it was disturbed or began in data mode. *)
LEMMA ReadDataIsTheCallers == Spec => []SppReadReturnsItsData
<1>1. ReadInv => SppReadReturnsItsData
  <2> SUFFICES ASSUME ReadInv, NEW t \in Tasks, Succeeded(t, ReadsData), ~call[t].disturbed, ~call[t].cut
               PROVE  IF call[t].told[1] = "0" THEN call[t].buf = Unset
                      ELSE call[t].out = call[t].told[1] /\ call[t].buf = call[t].told[2]
    BY DEF SppReadReturnsItsData, ReadsData
  <2>1. \/ call[t].told = <<"0">> /\ call[t].buf = Unset
        \/ call[t].told = <<"3", call[t].buf>> /\ call[t].out = "3"
    BY DEF ReadInv, SppRead, Succeeded
  <2> QED
    BY <2>1, Heads
<1> QED
  BY <1>1, ReadHolds, PTL

(* RIL_BT_SPP_Send and RIL_BT_SPP_Read, whose buffers stand in globals, send and return *)
(* the data of their own callers, unless another task's call took the globals over or *)
(* an earlier read was cut before its data.                                *)
THEOREM SppDataStaysWithItsCall == Spec => []SppDataIsTheCallers
<1>1. SppReadReturnsItsData /\ SppSendSendsItsData => SppDataIsTheCallers
  BY DEF SppDataIsTheCallers
<1> QED
  BY <1>1, SentDataIsTheCallers, ReadDataIsTheCallers, PTL

-----------------------------------------------------------------------------
(* Errors that end a call.                                                 *)
Ending(u) ==
  waiting.task = u /\ Current(u).hdl \notin DeafHandlers =>
    /\ IsSequence(waiting.lines) /\ Len(waiting.lines) \in Nat \ {0}
    /\ Ends(Current(u), LastLine(waiting.lines))

EndingInv == \A u \in Tasks : Ending(u)

(* No answer is awaited at first.                                          *)
LEMMA InitEnding == Init => EndingInv
BY FreeChannel DEF Init, EndingInv, Ending

(* The last line stays the last when others are taken.                     *)
LEMMA LastOfTail ==
  ASSUME NEW s, IsSequence(s), Len(s) \in Nat \ {0}
  PROVE  \/ LastLine(s) = Head(s)
         \/ IsSequence(Tail(s)) /\ Len(Tail(s)) \in Nat \ {0} /\ LastLine(Tail(s)) = LastLine(s)
<1>1. PICK S : s \in Seq(S)
  BY DEF IsSequence
<1>2. CASE Len(s) = 1
  BY <1>1, <1>2 DEF LastLine
<1>3. CASE Len(s) # 1
  <2>1. Tail(s) \in Seq(S) /\ Len(Tail(s)) = Len(s) - 1 /\ \A i \in 1 .. Len(s) - 1 : Tail(s)[i] = s[i + 1]
    BY <1>1, <1>3
  <2>2. Len(s) - 1 \in 1 .. Len(s) - 1 /\ (Len(s) - 1) + 1 = Len(s)
    <3>1. \A n \in Nat \ {0} : n # 1 => n - 1 \in 1 .. n - 1 /\ (n - 1) + 1 = n
      OBVIOUS
    <3> QED
      BY <1>3, <3>1
  <2>3. Tail(s)[Len(Tail(s))] = s[Len(s)]
    BY <2>1, <2>2
  <2> QED
    BY <1>3, <2>1, <2>3 DEF LastLine, IsSequence
<1> QED
  BY <1>2, <1>3

(* While a command waits, the last line that is left ends it.              *)
LEMMA EndingKept ==
  ASSUME TypeInv, EndingInv, NEW t \in Tasks, Step(t)
  PROVE  EndingInv'
<1>1. ASSUME NEW u \in Tasks \ {t} PROVE Ending(u)'
  <2>1. Alike(call'[u], call[u]) /\ (waiting.task = u => waiting' = waiting)
        /\ (waiting.task # u => waiting'.task # u) /\ Ending(u)
    BY OthersKeep, ChannelKept DEF EndingInv
  <2>2. Current(u)' = Current(u)
    BY <2>1 DEF Alike, Current, Commands
  <2> QED
    BY <2>1, <2>2 DEF Ending
<1>2. Ending(t)'
  <2>1. SUFFICES ASSUME waiting'.task = t, Current(t)'.hdl \notin DeafHandlers
                 PROVE  /\ IsSequence(waiting'.lines) /\ Len(waiting'.lines) \in Nat \ {0}
                        /\ Ends(Current(t)', LastLine(waiting'.lines))
    BY DEF Ending
  <2>2. (call[t].pc = "sent" <=> waiting.task = t) /\ (waiting.task = t => Ending(t))
    BY DEF TypeInv, ChannelInv, EndingInv
  <2>3. CASE Send(t)
    <3>1. Same(call'[t], call[t]) /\ call[t].pc = "ready" /\ waiting'.lines \in Done(Current(t).at) \cup Errors
      BY <2>3, SendFields
    <3>2. Current(t)' = Current(t)
      BY <3>1 DEF Same, Current, Commands
    <3>3. SoundCommand(Current(t))
      BY <3>1, CommandsAreSound
    <3> QED
      BY <2>1, <3>1, <3>2, <3>3, ResponsesEnd
  <2>4. CASE TakeLine(t)
    <3> DEFINE n == AfterLine(t)[t]
               v == VerdictOf(t)
    <3>1. waiting.task = t /\ waiting.lines # <<>>
          /\ waiting' = IF v.verdict = "continue" THEN [waiting EXCEPT !.lines = Tail(@)] ELSE Free
      BY <2>4, LineTaken
    <3>2. v.verdict = "continue"
      BY <2>1, <3>1, FreeChannel
    <3>3. waiting'.lines = Tail(waiting.lines)
      BY <3>1, <3>2 DEF TypeInv, ChannelInv
    <3>4. Alike(call'[t], n) /\ n.fn = call[t].fn /\ n.step = call[t].step
      BY <2>4, <3>1, <3>2, TakenFields, AfterLineFields
    <3>5. Current(t)' = Current(t)
      BY <3>4 DEF Alike, Current, Commands
    <3>6. /\ IsSequence(waiting.lines) /\ Len(waiting.lines) \in Nat \ {0}
          /\ Ends(Current(t), LastLine(waiting.lines))
      BY <2>1, <2>2, <3>1, <3>5 DEF Ending
    <3>7. SoundCommand(Current(t))
      BY <2>2, <3>1, CommandsAreSound
    <3>8. ~Ends(Current(t), LineOf)
      BY <3>2, <3>7, EndingLines DEF VerdictOf
    <3> QED
      BY <3>3, <3>5, <3>6, <3>8, LastOfTail DEF LineOf
  <2>5. CASE ~Send(t) /\ ~TakeLine(t)
    <3>1. call'[t].pc # "sent"
      <4>1. ASSUME NEW f \in MayCall[t], Call(t, f) \/ Reject(t, f) PROVE call'[t].pc # "sent"
        BY <4>1, CallFields, RefusedFields DEF Begun
      <4>2. CASE Busy(t) \/ Timeout(t)
        BY <4>2, EndFields
      <4>3. CASE Return(t)
        BY <4>3, ReturnFields
      <4> QED
        BY <2>5, <4>1, <4>2, <4>3 DEF Step
    <3>2. ChannelInv'
      BY ChannelTyped
    <3> QED
      BY <2>1, <3>1, <3>2 DEF ChannelInv
  <2> QED
    BY <2>3, <2>4, <2>5
<1> QED
  BY <1>1, <1>2 DEF EndingInv

(* Only the functions whose handler does not know an error line wait until their *)
(* timeout after the answer has come.                                      *)
THEOREM OnlyDeafHandlersWaitOutErrors == Spec => []NoCallWaitsOutAnError
<1>1. TypeInv /\ EndingInv /\ ReadInv => NoCallWaitsOutAnError
  <2> SUFFICES ASSUME TypeInv, EndingInv, ReadInv, NEW t \in Tasks, waiting = [task |-> t, lines |-> <<>>]
               PROVE  \/ call[t].fn \in DeafFunctions
                      \/ call[t].fn = ReadsData /\ (call[t].cut \/ call[t].disturbed)
    BY DEF NoCallWaitsOutAnError, DeafFunctions, ReadsData
  <2>1. waiting.task = t /\ waiting.lines = <<>> /\ call[t].pc = "sent"
    BY DEF TypeInv, ChannelInv
  <2>2. Current(t).hdl \in DeafHandlers
    BY <2>1 DEF EndingInv, Ending
  <2>3. call[t].fn \in DeafFunctions \cup {ReadsData}
    BY <2>1, <2>2, CommandsAreSound, CellsAreUsedBy DEF ReadsData
  <2>4. /\ <<>> \notin Errors \cup SppDataRead
        /\ \A a : <<>> # <<a>>
        /\ \A a, b : <<>> # <<a, b>>
    BY DEF Errors, SppDataRead, BeforeOk
  <2>5. call[t].fn = ReadsData => call[t].cut \/ call[t].disturbed
    BY <2>1, <2>4 DEF ReadInv, SppRead
  <2> QED
    BY <2>3, <2>5
<1>2. ASSUME EndingInv, UNCHANGED vars PROVE EndingInv'
  BY <1>2 DEF vars, EndingInv, Ending, Current, Commands
<1>3. TypeInv /\ EndingInv /\ [Next]_vars => TypeInv' /\ EndingInv'
  BY <1>2, EndingKept, NextIsAStep, TypesKept
<1>4. Spec => [](TypeInv /\ EndingInv)
  BY InitTypes, InitEnding, <1>3, PTL DEF Spec
<1> QED
  BY <1>1, <1>4, ReadHolds, PTL

-----------------------------------------------------------------------------
(* The volume of the microphone.                                           *)
MicVolume == "RIL_AUD_GetVolume_Mic"

Level(channel) == "level of " \o channel

ChannelKnown(c) == \E ch \in Channels : c.told = <<ch>> /\ s_channel_qmic = ch

MicAsks(u) ==
  LET c == call[u]
  IN c.fn = MicVolume /\ c.pc = "sent" /\ c.step = 1 =>
       waiting.lines \in Errors \cup {<<OkLine>>} \cup BeforeOk("+QAUDCH:", Channels)

MicReads(u) ==
  LET c == call[u]
      lines == waiting.lines
  IN c.fn = MicVolume /\ ~c.disturbed =>
       /\ c.pc = "ready" => IF c.step = 1 THEN c.told = <<>> ELSE ChannelKnown(c)
       /\ c.pc = "sent" /\ c.step = 1 =>
            \/ c.told = <<>> /\ lines \in Errors \cup BeforeOk("+QAUDCH:", Channels)
            \/ ChannelKnown(c) /\ lines = <<OkLine>>
       /\ c.pc = "sent" /\ c.step # 1 =>
            \/ ChannelKnown(c) /\ lines \in Errors \cup BeforeOk("+QMIC:", {"level of "})
            \/ c.data = Level(c.told[1]) /\ lines = <<OkLine>>
       /\ c.pc = "done" /\ c.ret = "success" => c.out = Level(c.told[1])

MicInv == \A u \in Tasks : MicAsks(u) /\ MicReads(u)

(* No level is read at first.                                              *)
LEMMA InitMic == Init => MicInv
<1>1. NoCall.fn = ""
  BY DEF NoCall
<1> QED
  BY <1>1 DEF Init, MicInv, MicAsks, MicReads, MicVolume

(* What the common handler of the audio functions makes of each line.      *)
LEMMA AudHandler ==
  \A line, d, qmic :
    LET v == ATResponse_AUD_handler(line, d, qmic)
    IN /\ line.kind \in Faulty => v.verdict = "failed" /\ v.data = d
       /\ line.kind = "OK" => v.verdict = "success" /\ v.data = d
       /\ line.kind = "+QAUDCH:" => v.verdict = "continue" /\ v.data = line.val
       /\ line.kind = "+QMIC:" => v.verdict = "continue" /\ v.data = parse_cmd_qmic(line.val, qmic)
<1> TAKE line, d, qmic
<1>1. CASE line.kind \in Faulty
  BY <1>1 DEF ATResponse_AUD_handler, Final, EndsWith, Continue, Failed, Success, Faulty
<1>2. CASE line.kind = "OK"
  BY <1>2 DEF ATResponse_AUD_handler, Final, EndsWith, Continue, Failed, Success, Faulty
<1>3. CASE line.kind = "+QAUDCH:"
  BY <1>3 DEF ATResponse_AUD_handler, Final, EndsWith, Continue, Failed, Success, Faulty
<1>4. CASE line.kind = "+QMIC:"
  BY <1>4 DEF ATResponse_AUD_handler, Final, EndsWith, Continue, Failed, Success, Faulty
<1> QED
  BY <1>1, <1>2, <1>3, <1>4 DEF Faulty

(* What the function does with a line.                                     *)
MicTakes(t) ==
  LET c == call[t]
      m == call'[t]
      first == c.step = 1
      v == ATResponse_AUD_handler(LineOf, IF first THEN s_channel_qmic ELSE c.data, s_channel_qmic)
  IN /\ m.fn = c.fn /\ c.pc = "sent" /\ c.ret = "" /\ m.disturbed = c.disturbed
     /\ m.told = IF LineOf.kind \in Silent THEN c.told ELSE Append(c.told, LineOf.val)
     /\ m.data = IF first THEN c.data ELSE v.data
     /\ s_channel_qmic' = IF first THEN v.data ELSE s_channel_qmic
     /\ v.verdict = "continue" => m.pc = "sent" /\ m.step = c.step /\ waiting'.lines = Tail(waiting.lines)
     /\ v.verdict = "failed" => m.pc = "done" /\ m.ret = "failed"
     /\ v.verdict = "success" /\ first => m.pc = "ready" /\ m.step # 1
     /\ v.verdict = "success" /\ ~first => m.pc = "done" /\ m.out = v.data

(* The call of RIL_AUD_GetVolume after a line of either command.           *)
LEMMA MicTakesALine ==
  ASSUME TypeInv, NEW t \in Tasks, TakeLine(t), call[t].fn = MicVolume
  PROVE  MicTakes(t)
<1> DEFINE c == call[t]
           n == AfterLine(t)[t]
           v == VerdictOf(t)
           o == Outcome(Script[c.fn].mode, v.verdict, n.data, c.out)
           first == c.step = 1
           h == ATResponse_AUD_handler(LineOf, IF first THEN s_channel_qmic ELSE c.data, s_channel_qmic)
<1>1. /\ waiting.task = t
      /\ waiting' = IF v.verdict = "continue" THEN [waiting EXCEPT !.lines = Tail(@)] ELSE Free
      /\ s_channel_qmic' = IF Current(t).cell = "qmic" THEN v.data ELSE s_channel_qmic
  BY LineTaken
<1>2. Alike(call'[t], n) /\ call'[t].disturbed = n.disturbed /\ (n.fn # "RIL_ToneDet_Get" => call'[t].out = n.out)
  BY TakenFields
<1>3. /\ IsVerdict(v) /\ c.pc = "sent"
      /\ n.fn = c.fn /\ n.disturbed = c.disturbed
      /\ n.told = IF LineOf.kind \in Silent THEN c.told ELSE Append(c.told, LineOf.val)
      /\ n.data = IF Current(t).cell = "qmic" THEN c.data ELSE v.data
      /\ \/ v.verdict = "continue" /\ n.pc = c.pc /\ n.step = c.step /\ n.ret = c.ret /\ n.out = c.out
         \/ /\ v.verdict = "success" /\ c.step < Len(Script[c.fn].cmds)
            /\ n.pc = "ready" /\ n.step = c.step + 1 /\ n.ret = c.ret /\ n.out = c.out
         \/ /\ v.verdict # "continue" /\ (v.verdict = "success" => ~(c.step < Len(Script[c.fn].cmds)))
            /\ n.pc = "done" /\ n.step = c.step /\ n.ret = o.ret /\ n.out = o.out
  BY <1>1, AfterLineFields
<1>4. c.step \in DOMAIN Script[c.fn].cmds /\ Current(t) = Script[c.fn].cmds[c.step]
  BY <1>3, CommandsAreSound
<1>5. /\ c.step \in {1, 2} /\ Len(Script[c.fn].cmds) = 2 /\ Script[c.fn].mode = "direct"
      /\ Current(t).hdl = "ATResponse_AUD_handler"
      /\ c.step = 1 => Current(t).cell = "qmic"
      /\ c.step = 2 => Current(t).cell = "data"
  BY <1>4, MicRow DEF MicVolume
<1>6. /\ \A i \in {1, 2} : i # 1 => i = 2 /\ ~(i < 2)
      /\ 1 < 2 /\ 1 + 1 # 1
  OBVIOUS
<1>7. v = h /\ (Current(t).cell = "qmic" <=> first)
  <2>1. Current(t).cell = "qmic" <=> first
    BY <1>5, <1>6
  <2>2. v = ATResponse_AUD_handler(LineOf, IF Current(t).cell = "qmic" THEN s_channel_qmic ELSE c.data, s_channel_qmic)
    BY <1>5, VerdictIsTheHandlers DEF VerdictOf
  <2> QED
    BY <2>1, <2>2
<1>8. v.verdict # "continue" => o.ret = v.verdict /\ o.out = n.data
  BY <1>3, <1>5, Outcomes DEF Modes, IsVerdict
<1>9. c.ret = "" /\ DOMAIN waiting = {"task", "lines"}
  BY <1>3 DEF TypeInv, CallsInv, ACall, ChannelInv
<1> HIDE DEF n, v, c, o, h, first
<1>10. /\ v.verdict = "continue" => n.pc = "sent" /\ n.step = c.step /\ waiting'.lines = Tail(waiting.lines)
       /\ v.verdict = "failed" => n.pc = "done" /\ n.ret = "failed"
  BY <1>1, <1>3, <1>8, <1>9
<1>11. v.verdict = "success" /\ first => n.pc = "ready" /\ n.step # 1
  <2>1. first => c.step = 1
    BY DEF first
  <2> QED
    BY <1>3, <1>5, <1>6, <2>1
<1>12. v.verdict = "success" /\ ~first => n.pc = "done" /\ n.out = n.data
  <2>1. ~first => c.step # 1
    BY DEF first
  <2>2. ~first => ~(c.step < Len(Script[c.fn].cmds))
    BY <1>5, <1>6, <2>1
  <2> QED
    BY <1>3, <1>8, <2>2
<1>13. /\ call'[t].fn = n.fn /\ call'[t].pc = n.pc /\ call'[t].ret = n.ret /\ call'[t].told = n.told
       /\ call'[t].data = n.data /\ call'[t].step = n.step /\ call'[t].out = n.out
  BY <1>2, <1>3 DEF Alike, MicVolume, c
<1>14. /\ n.data = IF first THEN c.data ELSE v.data
       /\ s_channel_qmic' = IF first THEN v.data ELSE s_channel_qmic
  BY <1>1, <1>3, <1>7
<1>15. /\ call'[t].fn = c.fn /\ c.pc = "sent" /\ c.ret = "" /\ call'[t].disturbed = c.disturbed
       /\ call'[t].told = IF LineOf.kind \in Silent THEN c.told ELSE Append(c.told, LineOf.val)
  BY <1>2, <1>3, <1>9, <1>13
<1>16. v.verdict = "success" /\ ~first => call'[t].pc = "done" /\ call'[t].out = v.data
  BY <1>12, <1>13, <1>14
<1> QED
  BY <1>7, <1>10, <1>11, <1>13, <1>14, <1>15, <1>16 DEF MicTakes, c, h, first

(* The answers to its two commands.                                        *)
LEMMA MicAnswers ==
  /\ Done("AT+QMIC?") = BeforeOk("+QMIC:", {"level of "})
  /\ Done("AT+QAUDCH?") = BeforeOk("+QAUDCH:", {audChannel})
<1>1. Done("AT+QMIC?") = BeforeOk(Prefix("AT+QMIC?"), Reported("AT+QMIC?"))
  BY DEF Done, FtpResults, Queried
<1>2. Prefix("AT+QMIC?") = "+QMIC:"
  BY DEF Prefix
<1>3. Reported("AT+QMIC?") = {"level of "}
  BY DEF Reported
<1>4. Done("AT+QAUDCH?") = BeforeOk(Prefix("AT+QAUDCH?"), Reported("AT+QAUDCH?"))
  BY DEF Done, FtpResults, Queried
<1>5. Prefix("AT+QAUDCH?") = "+QAUDCH:"
  BY DEF Prefix
<1>6. Reported("AT+QAUDCH?") = {audChannel}
  BY DEF Reported
<1> QED
  BY <1>1, <1>2, <1>3, <1>4, <1>5, <1>6

(* The kinds of the lines of its first command.                            *)
LEMMA MicFirstLines ==
  ASSUME NEW lines \in Errors \cup {<<OkLine>>} \cup BeforeOk("+QAUDCH:", Channels)
  PROVE  \/ lines \in Errors /\ Head(lines).kind \in Faulty
         \/ lines = <<OkLine>> /\ Head(lines).kind = "OK"
         \/ \E ch \in Channels : /\ lines = <<Line("+QAUDCH:", ch), OkLine>> /\ Tail(lines) = <<OkLine>>
                                /\ Head(lines).kind = "+QAUDCH:" /\ Head(lines).val = ch
<1>1. CASE lines \in Errors
  BY <1>1, LineKinds
<1>2. CASE lines = <<OkLine>>
  BY <1>2, LineKinds, Heads
<1>3. CASE lines \in BeforeOk("+QAUDCH:", Channels)
  <2>1. PICK ch \in Channels : lines = <<Line("+QAUDCH:", ch), OkLine>>
    BY <1>3 DEF BeforeOk
  <2>2. Head(lines) = Line("+QAUDCH:", ch) /\ Tail(lines) = <<OkLine>>
    BY <2>1, Heads
  <2>3. Head(lines).kind = "+QAUDCH:" /\ Head(lines).val = ch
    BY <2>2 DEF Line
  <2> QED
    BY <2>1, <2>2, <2>3
<1> QED
  BY <1>1, <1>2, <1>3

(* Only +QAUDCH of another call changes the channel, and then this call is disturbed. *)
LEMMA ChannelOfOthers ==
  ASSUME TypeInv, MicInv, NEW t \in Tasks, Step(t), NEW u \in Tasks \ {t}, In(u, MicVolume)
  PROVE  s_channel_qmic' = s_channel_qmic \/ call'[u].disturbed
<1>1. CASE Send(t) \/ Busy(t) \/ Timeout(t) \/ Return(t) \/ \E f \in MayCall[t] : Call(t, f) \/ Reject(t, f)
  BY <1>1, SendFields, EndFields, ReturnFields, RefusedFields, CallFields
<1>2. CASE TakeLine(t)
  <2>1. call[t].pc = "sent" /\ s_channel_qmic' = IF Current(t).cell = "qmic" THEN VerdictOf(t).data ELSE s_channel_qmic
    BY <1>2, LineTaken DEF TypeInv, ChannelInv
  <2>2. CASE Current(t).cell # "qmic"
    BY <2>1, <2>2
  <2>3. CASE Current(t).cell = "qmic"
    <3>1. call[t].fn = MicVolume /\ call[t].step = 1
      BY <2>1, <2>3, CommandsAreSound, CellsAreUsedBy DEF MicVolume
    <3>2. waiting.lines \in Errors \cup {<<OkLine>>} \cup BeforeOk("+QAUDCH:", Channels)
      BY <2>1, <3>1 DEF MicInv, MicAsks
    <3>3. MicTakes(t)
      BY <1>2, <3>1, MicTakesALine
    <3>4. s_channel_qmic' = ATResponse_AUD_handler(LineOf, s_channel_qmic, s_channel_qmic).data
      BY <3>1, <3>3 DEF MicTakes
    <3>5. CASE LineOf.kind \in Faulty \cup {"OK"}
      BY <3>4, <3>5, AudHandler
    <3>6. CASE LineOf.kind = "+QAUDCH:"
      <4>1. call' = Disturbing(AfterLine(t), Users(t, "qmic"))
        BY <1>2, <2>3, <3>6, LineTakenCall
      <4>2. u \in Users(t, "qmic")
        <5>1. Commands(u) = Script["RIL_AUD_GetVolume_Mic"].cmds
          BY DEF In, MicVolume, Commands
        <5>2. 1 \in DOMAIN Commands(u) /\ Commands(u)[1].cell = "qmic"
          BY <5>1, MicRow
        <5> QED
          BY <5>2 DEF Users, In, InCall
      <4>3. Calls(AfterLine(t))
        BY <1>2, AfterLineOthers, LineTaken
      <4> QED
        BY <4>1, <4>2, <4>3, DisturbingFields
    <3> QED
      BY <3>2, <3>5, <3>6, MicFirstLines DEF LineOf
  <2> QED
    BY <2>2, <2>3
<1> QED
  BY <1>1, <1>2 DEF Step

(* Steps of other tasks do not change an undisturbed reading of the level. *)
LEMMA MicOthers ==
  ASSUME TypeInv, MicInv, NEW t \in Tasks, Step(t), NEW u \in Tasks \ {t}
  PROVE  MicAsks(u)' /\ MicReads(u)'
<1>1. Alike(call'[u], call[u]) /\ Lasting(call'[u], call[u]) /\ (waiting.task = u => waiting' = waiting)
      /\ (call[u].fn # "RIL_ToneDet_Get" => call'[u].out = call[u].out)
  BY OthersKeep, ChannelKept
<1>2. call[u].pc = "sent" <=> waiting.task = u
  BY DEF TypeInv, ChannelInv
<1>3. call'[u].pc = call[u].pc /\ call'[u].ret = call[u].ret /\ call'[u].told = call[u].told
      /\ call'[u].data = call[u].data /\ call'[u].fn = call[u].fn /\ call'[u].step = call[u].step
  BY <1>1 DEF Alike
<1>4. MicAsks(u) /\ MicReads(u)
  BY DEF MicInv
<1>5. MicAsks(u)'
  BY <1>1, <1>2, <1>3, <1>4 DEF MicAsks
<1>6. SUFFICES ASSUME call'[u].fn = MicVolume, ~call'[u].disturbed PROVE MicReads(u)'
  BY <1>5 DEF MicReads
<1>7. ~call[u].disturbed /\ call'[u].out = call[u].out
  BY <1>1, <1>3, <1>6 DEF Lasting, MicVolume
<1>8. call[u].pc \in {"ready", "sent"} => s_channel_qmic' = s_channel_qmic
  BY <1>3, <1>6, ChannelOfOthers DEF In
<1>9. call[u].pc \in {"ready", "sent"} => (ChannelKnown(call[u]) => \E ch \in Channels : call'[u].told = <<ch>> /\ s_channel_qmic' = ch)
  BY <1>3, <1>8 DEF ChannelKnown
<1>10. CASE call[u].pc = "ready"
  BY <1>3, <1>4, <1>6, <1>7, <1>9, <1>10 DEF MicReads, ChannelKnown
<1>11. CASE call[u].pc = "sent"
  <2>1. waiting' = waiting
    BY <1>1, <1>2, <1>11
  <2> QED
    BY <1>3, <1>4, <1>6, <1>7, <1>9, <1>11, <2>1 DEF MicReads, ChannelKnown
<1>12. CASE call[u].pc \notin {"ready", "sent"}
  BY <1>3, <1>4, <1>6, <1>7, <1>12 DEF MicReads
<1> QED
  BY <1>10, <1>11, <1>12

(* A line of the answer to AT+QAUDCH? sets the channel,                    *)
LEMMA MicFirstLine ==
  ASSUME TypeInv, MicInv, NEW t \in Tasks, TakeLine(t), call[t].fn = MicVolume, call[t].step = 1
  PROVE  MicAsks(t)' /\ MicReads(t)'
<1> DEFINE c == call[t]
           m == call'[t]
           v == ATResponse_AUD_handler(LineOf, s_channel_qmic, s_channel_qmic)
<1>1. MicTakes(t)
  BY MicTakesALine
<1>2. /\ m.fn = c.fn /\ c.pc = "sent" /\ m.disturbed = c.disturbed
      /\ m.told = IF LineOf.kind \in Silent THEN c.told ELSE Append(c.told, LineOf.val)
      /\ s_channel_qmic' = v.data
      /\ v.verdict = "continue" => m.pc = "sent" /\ m.step = 1 /\ waiting'.lines = Tail(waiting.lines)
      /\ v.verdict = "failed" => m.pc = "done" /\ m.ret = "failed"
      /\ v.verdict = "success" => m.pc = "ready" /\ m.step # 1
  BY <1>1 DEF MicTakes
<1>3. /\ waiting.lines \in Errors \cup {<<OkLine>>} \cup BeforeOk("+QAUDCH:", Channels)
      /\ ~c.disturbed =>
           \/ c.told = <<>> /\ waiting.lines \in Errors \cup BeforeOk("+QAUDCH:", Channels)
           \/ ChannelKnown(c) /\ waiting.lines = <<OkLine>>
  BY <1>2 DEF MicInv, MicAsks, MicReads
<1> HIDE DEF c, m
<1>4. CASE waiting.lines \in Errors /\ LineOf.kind \in Faulty
  <2>1. m.pc = "done" /\ m.ret = "failed"
    BY <1>2, <1>4, AudHandler
  <2> QED
    BY <2>1 DEF MicAsks, MicReads, m
<1>5. CASE waiting.lines = <<OkLine>> /\ LineOf.kind = "OK"
  <2>1. m.pc = "ready" /\ m.step # 1 /\ m.told = c.told /\ s_channel_qmic' = s_channel_qmic
    BY <1>2, <1>5, AudHandler DEF Silent
  <2>2. ~c.disturbed => ChannelKnown(c)
    <3>1. <<OkLine>> \notin Errors \cup BeforeOk("+QAUDCH:", Channels)
      <4>1. Head(<<OkLine>>).kind \notin Faulty
        BY Heads, LineKinds DEF Faulty
      <4>2. \A a, b, d : <<a>> # <<b, d>>
        OBVIOUS
      <4> QED
        BY <4>1, <4>2, LineKinds DEF BeforeOk
    <3> QED
      BY <1>3, <1>5, <3>1
  <2> QED
    BY <1>2, <2>1, <2>2 DEF MicAsks, MicReads, ChannelKnown, m
<1>6. ASSUME NEW ch \in Channels, waiting.lines = <<Line("+QAUDCH:", ch), OkLine>>, Tail(waiting.lines) = <<OkLine>>,
             LineOf.kind = "+QAUDCH:", LineOf.val = ch
      PROVE  MicAsks(t)' /\ MicReads(t)'
  <2>1. m.pc = "sent" /\ m.step = 1 /\ waiting'.lines = <<OkLine>> /\ s_channel_qmic' = ch
        /\ m.told = Append(c.told, ch)
    BY <1>2, <1>6, AudHandler DEF Silent
  <2>2. \A a, b, d : <<a>> # <<b, d>>
    OBVIOUS
  <2>3. ~c.disturbed => c.told = <<>>
    BY <1>3, <1>6, <2>2
  <2>4. ~c.disturbed => m.told = <<ch>>
    BY <2>1, <2>3, Appends
  <2> QED
    BY <1>2, <2>1, <2>4 DEF MicAsks, MicReads, ChannelKnown, m
<1> QED
  BY <1>3, <1>4, <1>5, <1>6, MicFirstLines DEF LineOf

(* and one to AT+QMIC? takes the level of that channel.                    *)
LEMMA MicSecondLine ==
  ASSUME TypeInv, MicInv, NEW t \in Tasks, TakeLine(t), call[t].fn = MicVolume, call[t].step # 1
  PROVE  MicAsks(t)' /\ MicReads(t)'
<1> DEFINE c == call[t]
           m == call'[t]
           v == ATResponse_AUD_handler(LineOf, c.data, s_channel_qmic)
<1>1. MicTakes(t)
  BY MicTakesALine
<1>2. /\ m.fn = c.fn /\ c.pc = "sent" /\ m.disturbed = c.disturbed
      /\ m.told = IF LineOf.kind \in Silent THEN c.told ELSE Append(c.told, LineOf.val)
      /\ m.data = v.data
      /\ s_channel_qmic' = s_channel_qmic
      /\ v.verdict = "continue" => m.pc = "sent" /\ m.step = c.step /\ waiting'.lines = Tail(waiting.lines)
      /\ v.verdict = "failed" => m.pc = "done" /\ m.ret = "failed"
      /\ v.verdict = "success" => m.pc = "done" /\ m.out = v.data
  BY <1>1 DEF MicTakes
<1>3. ~c.disturbed =>
        \/ ChannelKnown(c) /\ waiting.lines \in Errors \cup BeforeOk("+QMIC:", {"level of "})
        \/ c.data = Level(c.told[1]) /\ waiting.lines = <<OkLine>>
  BY <1>2 DEF MicInv, MicReads
<1>4. m.pc = "sent" => m.step # 1
  <2>1. m.pc = "sent" => v.verdict = "continue"
    <3>1. IsVerdict(v)
      BY DEF ATResponse_AUD_handler, Final, EndsWith, Continue, Success, Failed, IsVerdict
    <3> QED
      BY <1>2, <3>1 DEF IsVerdict
  <2> QED
    BY <1>2, <2>1
<1>5. m.pc # "ready"
  <2>1. IsVerdict(v)
    BY DEF ATResponse_AUD_handler, Final, EndsWith, Continue, Success, Failed, IsVerdict
  <2> QED
    BY <1>2, <2>1 DEF IsVerdict
<1>6. MicAsks(t)'
  BY <1>4 DEF MicAsks
<1> HIDE DEF c, m
<1>7. CASE c.disturbed
  BY <1>2, <1>6, <1>7 DEF MicReads, m
<1>8. CASE ChannelKnown(c) /\ waiting.lines \in Errors
  <2>1. LineOf.kind \in Faulty
    BY <1>8, LineKinds DEF LineOf
  <2>2. m.pc = "done" /\ m.ret = "failed"
    BY <1>2, <2>1, AudHandler
  <2> QED
    BY <1>6, <2>2 DEF MicReads, m
<1>9. CASE ChannelKnown(c) /\ waiting.lines \in BeforeOk("+QMIC:", {"level of "})
  <2>1. PICK ch \in Channels : c.told = <<ch>> /\ s_channel_qmic = ch
    BY <1>9 DEF ChannelKnown
  <2>2. PICK w : w = "level of "
    OBVIOUS
  <2>3. waiting.lines = <<Line("+QMIC:", w), OkLine>>
    BY <1>9, <2>2 DEF BeforeOk
  <2>4. parse_cmd_qmic(w, ch) = Level(ch)
    BY <2>2 DEF parse_cmd_qmic, Level
  <2> HIDE DEF v
  <2>5. LineOf = Line("+QMIC:", w)
    BY <2>3, Heads DEF LineOf
  <2>6. Tail(waiting.lines) = <<OkLine>>
    BY <2>3, Heads
  <2>7. LineOf.kind = "+QMIC:" /\ LineOf.val = w
    BY <2>5 DEF Line
  <2>8. v.verdict = "continue" /\ v.data = parse_cmd_qmic(LineOf.val, s_channel_qmic)
    BY <2>7, AudHandler DEF v
  <2>9. v.data = Level(ch)
    BY <2>1, <2>4, <2>7, <2>8
  <2>10. m.told = <<ch, w>>
    <3>1. m.told = Append(c.told, w)
      BY <1>2, <2>7 DEF Silent
    <3> QED
      BY <2>1, <3>1, Appends
  <2>11. m.told[1] = ch
    BY <2>10
  <2>12. m.pc = "sent" /\ waiting'.lines = <<OkLine>> /\ m.data = Level(m.told[1]) /\ m.step # 1
    BY <1>2, <1>4, <2>6, <2>8, <2>9, <2>11
  <2> QED
    BY <1>6, <2>12 DEF MicReads, m
<1>10. CASE c.data = Level(c.told[1]) /\ waiting.lines = <<OkLine>>
  <2>1. LineOf.kind = "OK"
    BY <1>10, Heads, LineKinds DEF LineOf
  <2>2. m.pc = "done" /\ m.out = Level(m.told[1])
    BY <1>2, <1>10, <2>1, AudHandler DEF Silent
  <2> QED
    BY <1>6, <2>2 DEF MicReads, m
<1> QED
  BY <1>3, <1>7, <1>8, <1>9, <1>10

(* The steps of the reading task itself.                                   *)
LEMMA MicOwn ==
  ASSUME TypeInv, MicInv, NEW t \in Tasks, Step(t)
  PROVE  MicAsks(t)' /\ MicReads(t)'
<1>1. ASSUME NEW f \in MayCall[t], Call(t, f) \/ Reject(t, f) PROVE MicAsks(t)' /\ MicReads(t)'
  <2>1. CASE Call(t, f)
    <3>1. Begun(call'[t], f, sppState.mode)
      BY <2>1, CallFields
    <3> QED
      BY <3>1 DEF Begun, MicReads, MicAsks
  <2>2. CASE Reject(t, f)
    BY <2>2, RefusedFields DEF MicReads, MicAsks
  <2> QED
    BY <1>1, <2>1, <2>2
<1>2. CASE Send(t)
  <2>1. Same(call'[t], call[t]) /\ call[t].pc = "ready" /\ call'[t].pc = "sent" /\ s_channel_qmic' = s_channel_qmic
        /\ waiting'.lines \in Done(Current(t).at) \cup Errors
    BY <1>2, SendFields
  <2>2. SUFFICES ASSUME call'[t].fn = MicVolume PROVE MicAsks(t)' /\ MicReads(t)'
    BY DEF MicAsks, MicReads
  <2>3. call[t].fn = MicVolume /\ call'[t].step = call[t].step /\ call'[t].told = call[t].told
        /\ call'[t].disturbed = call[t].disturbed
    BY <2>1, <2>2 DEF Same
  <2>4. call[t].step \in DOMAIN Script[MicVolume].cmds /\ Current(t) = Script[MicVolume].cmds[call[t].step]
    BY <2>1, <2>3, CommandsAreSound
  <2>5. ~call[t].disturbed => IF call[t].step = 1 THEN call[t].told = <<>> ELSE ChannelKnown(call[t])
    BY <2>1, <2>3 DEF MicInv, MicReads
  <2>6. CASE call[t].step = 1
    <3>1. Current(t).at = "AT+QAUDCH?"
      BY <2>4, <2>6, MicRow DEF MicVolume
    <3>2. audChannel \in Channels
      BY DEF TypeInv, GlobalsInv
    <3>3. waiting'.lines \in Errors \cup BeforeOk("+QAUDCH:", Channels)
      BY <2>1, <3>1, <3>2, MicAnswers DEF BeforeOk
    <3> QED
      BY <2>1, <2>3, <2>5, <2>6, <3>3 DEF MicAsks, MicReads
  <2>7. CASE call[t].step # 1
    <3>1. Current(t).at = "AT+QMIC?"
      BY <2>4, <2>7, MicRow DEF MicVolume
    <3>2. waiting'.lines \in Errors \cup BeforeOk("+QMIC:", {"level of "})
      BY <2>1, <3>1, MicAnswers
    <3>3. ~call[t].disturbed => ChannelKnown(call[t])'
      BY <2>1, <2>3, <2>5, <2>7 DEF ChannelKnown
    <3> QED
      BY <2>1, <2>3, <2>7, <3>2, <3>3 DEF MicAsks, MicReads
  <2> QED
    BY <2>6, <2>7
<1>3. CASE Busy(t) \/ Timeout(t)
  <2>1. PICK r \in {"busy", "timeout"} :
          /\ call'[t].fn = call[t].fn /\ call'[t].pc = "done"
          /\ call'[t].ret = Outcome(Script[call[t].fn].mode, r, call[t].data, call[t].out).ret
    BY <1>3, EndFields DEF Same
  <2>2. call'[t].fn = MicVolume => call'[t].ret # "success"
    <3>1. Script[MicVolume].mode = "direct"
      BY MicRow DEF MicVolume
    <3> QED
      BY <2>1, <3>1, Outcomes DEF Modes
  <2> QED
    BY <2>1, <2>2 DEF MicAsks, MicReads
<1>4. CASE Return(t)
  BY <1>4, ReturnFields DEF MicAsks, MicReads
<1>5. CASE TakeLine(t)
  <2>1. Alike(call'[t], AfterLine(t)[t]) /\ AfterLine(t)[t].fn = call[t].fn
    BY <1>5, TakenFields, AfterLineFields, LineTaken
  <2>2. call'[t].fn = call[t].fn
    BY <2>1 DEF Alike
  <2>3. CASE call[t].fn # MicVolume
    BY <2>2, <2>3 DEF MicAsks, MicReads
  <2> QED
    BY <1>5, <2>3, MicFirstLine, MicSecondLine
<1> QED
  BY <1>1, <1>2, <1>3, <1>4, <1>5 DEF Step

(* The level of the microphone is that of the channel that was reported to this very *)
(* call, also when the channel is changed between its two commands.        *)
THEOREM VolumeIsOfItsChannel == Spec => []VolumeIsOfTheChannelRead
<1>1. MicInv => VolumeIsOfTheChannelRead
  BY DEF MicInv, MicReads, VolumeIsOfTheChannelRead, Succeeded, MicVolume, Level
<1>2. ASSUME MicInv, UNCHANGED vars PROVE MicInv'
  BY <1>2 DEF vars, MicInv, MicAsks, MicReads, ChannelKnown
<1>3. TypeInv /\ MicInv /\ [Next]_vars => TypeInv' /\ MicInv'
  BY <1>2, MicOwn, MicOthers, NextIsAStep, TypesKept DEF MicInv
<1>4. Spec => [](TypeInv /\ MicInv)
  BY InitTypes, InitMic, <1>3, PTL DEF Spec
<1> QED
  BY <1>1, <1>4, PTL

Asking ==
  {"RIL_NW_GetGSMState", "RIL_NW_GetGPRSState", "RIL_NW_GetSignalQuality", "RIL_NW_GetOperator",
   "RIL_SIM_GetSimState", "RIL_SIM_GetIMSI", "RIL_SIM_GetCCID", "RIL_QuerySysInitStatus",
   "RIL_GetPowerSupply", "RIL_GetIMEI", "Ql_SecureData_Read", "RIL_Alarm_Query",
   "RIL_AUD_GetChannel", "RIL_AUD_GetVolume_Speaker", "RIL_AUD_GetVolume_Media",
   "RIL_AUD_GetRecordState", "RIL_GPS_GetPowerState", "RIL_GPS_Read_TimeSync_Status",
   "RIL_QLBS_Loc_Ex", "RIL_BT_GetPwrState", "RIL_BT_GetName", "RIL_BT_GetLocalAddr",
   "RIL_BT_GetVisble", "RIL_BT_GetSupportedProfile", "RIL_NW_GetIPStatus", "RIL_FTP_QFTPSIZE",
   "RIL_GPS_Read"}
(* The rows of the functions that hand over what one command reports.      *)
LEMMA QueryRows ==
  /\ HasOne("RIL_NW_GetGSMState", "AT+CREG?", "ATResponse_CREG_Handler", "data", "copied")
  /\ HasOne("RIL_NW_GetGPRSState", "AT+CGREG?", "ATResponse_CGREG_Handler", "data", "copied")
  /\ HasOne("RIL_NW_GetSignalQuality", "AT+CSQ", "ATResponse_CSQ_Handler", "data", "copied")
  /\ HasOne("RIL_NW_GetOperator", "AT+COPS?", "ATRsp_COPS_Handler", "data", "direct")
  /\ HasOne("RIL_SIM_GetSimState", "AT+CPIN?", "ATResponse_CPIN_Handler", "data", "copied")
  /\ HasOne("RIL_SIM_GetIMSI", "AT+CIMI", "ATRsp_IMSI_Handler", "data", "direct")
  /\ HasOne("RIL_SIM_GetCCID", "AT+CCID", "ATRsp_CCID_Handler", "data", "direct")
  /\ HasOne("RIL_QuerySysInitStatus", "AT+QINISTAT", "SYS_ATResponse_Hanlder", "data", "direct")
  /\ HasOne("RIL_GetPowerSupply", "AT+CBC", "Power_ATResponse_Hanlder", "data", "copied")
  /\ HasOne("RIL_GetIMEI", "AT+GSN", "ATRsp_IMEI_Handler", "data", "direct")
  /\ HasOne("Ql_SecureData_Read", "AT+QUSERDAT=3", "SecureData_Read_Callback", "data", "checked")
  /\ HasOne("RIL_Alarm_Query", "AT+QALARM?", "ATResponse_QALARM_Handler", "data", "direct")
  /\ HasOne("RIL_AUD_GetChannel", "AT+QAUDCH?", "ATResponse_AUD_handler", "data", "direct")
  /\ HasOne("RIL_AUD_GetVolume_Speaker", "AT+CLVL?", "ATResponse_AUD_handler", "data", "direct")
  /\ HasOne("RIL_AUD_GetVolume_Media", "AT+QMEDVL?", "ATResponse_AUD_handler", "data", "direct")
  /\ HasOne("RIL_AUD_GetRecordState", "AT+QAUDRD?", "ATResponse_AUD_handler", "data", "copied")
  /\ HasOne("RIL_GPS_GetPowerState", "AT+QGNSSC?", "ATResponse_QGNSSC_Handler", "data", "copied")
  /\ HasOne("RIL_GPS_Read_TimeSync_Status", "AT+QGNSSTS?", "ATResponse_GPSReadTS_Hdlr", "data", "copied")
  /\ HasOne("RIL_QLBS_Loc_Ex", "AT+QLBS", "ATResponse_Qlbs_Ex_Handler", "data", "cleared")
  /\ HasOne("RIL_BT_GetPwrState", "AT+QBTPWR?", "ATRsp_QBTPWR_Hdlr", "data", "direct")
  /\ HasOne("RIL_BT_GetName", "AT+QBTNAME?", "ATRsp_QBTNAME_Hdlr", "data", "cleared")
  /\ HasOne("RIL_BT_GetLocalAddr", "AT+QBTADDR?", "ATRsp_QBTADDR_Hdlr", "data", "cleared")
  /\ HasOne("RIL_BT_GetVisble", "AT+QBTVISB?", "ATRsp_QBTVISB_Hdlr", "data", "direct")
  /\ HasOne("RIL_BT_GetSupportedProfile", "AT+QBTGPROF", "ATRsp_QBTGPROF_Hdlr", "data", "cleared")
  /\ HasOne("RIL_NW_GetIPStatus", "AT+QISTAT", "ATResponse_IPStatus_Handler", "data", "copied")
  /\ HasOne("RIL_FTP_QFTPSIZE", "+QFTPSIZE:", "ATResponse_FTP_handler_Common", "data", "checked")
  /\ HasOne("RIL_GPS_Read", "AT+QGNSSRD", "ATResponse_GPSRead_Hdlr", "data", "copied")
<1>1. HasOne("RIL_NW_GetGSMState", "AT+CREG?", "ATResponse_CREG_Handler", "data", "copied")
  BY DEF HasOne, Script, RIL_NW_GetGSMState, Copied, Function, Cmd
<1>2. HasOne("RIL_NW_GetGPRSState", "AT+CGREG?", "ATResponse_CGREG_Handler", "data", "copied")
  BY DEF HasOne, Script, RIL_NW_GetGPRSState, Copied, Function, Cmd
<1>3. HasOne("RIL_NW_GetSignalQuality", "AT+CSQ", "ATResponse_CSQ_Handler", "data", "copied")
  BY DEF HasOne, Script, RIL_NW_GetSignalQuality, Copied, Function, Cmd
<1>4. HasOne("RIL_NW_GetOperator", "AT+COPS?", "ATRsp_COPS_Handler", "data", "direct")
  BY DEF HasOne, Script, RIL_NW_GetOperator, Checked, Direct, Function, Cmd
<1>5. HasOne("RIL_SIM_GetSimState", "AT+CPIN?", "ATResponse_CPIN_Handler", "data", "copied")
  BY DEF HasOne, Script, RIL_SIM_GetSimState, Copied, Function, Cmd
<1>6. HasOne("RIL_SIM_GetIMSI", "AT+CIMI", "ATRsp_IMSI_Handler", "data", "direct")
  BY DEF HasOne, Script, RIL_SIM_GetIMSI, Checked, Direct, Function, Cmd
<1>7. HasOne("RIL_SIM_GetCCID", "AT+CCID", "ATRsp_CCID_Handler", "data", "direct")
  BY DEF HasOne, Script, RIL_SIM_GetCCID, Checked, Direct, Function, Cmd
<1>8. HasOne("RIL_QuerySysInitStatus", "AT+QINISTAT", "SYS_ATResponse_Hanlder", "data", "direct")
  BY DEF HasOne, Script, RIL_QuerySysInitStatus, Direct, Function, Cmd
<1>9. HasOne("RIL_GetPowerSupply", "AT+CBC", "Power_ATResponse_Hanlder", "data", "copied")
  BY DEF HasOne, Script, RIL_GetPowerSupply, Copied, Function, Cmd
<1>10. HasOne("RIL_GetIMEI", "AT+GSN", "ATRsp_IMEI_Handler", "data", "direct")
  BY DEF HasOne, Script, RIL_GetIMEI, Checked, Direct, Function, Cmd
<1>11. HasOne("Ql_SecureData_Read", "AT+QUSERDAT=3", "SecureData_Read_Callback", "data", "checked")
  BY DEF HasOne, Script, Ql_SecureData_Read, Checked, Function, Cmd
<1>12. HasOne("RIL_Alarm_Query", "AT+QALARM?", "ATResponse_QALARM_Handler", "data", "direct")
  BY DEF HasOne, Script, RIL_Alarm_Query, Checked, Direct, Function, Cmd
<1>13. HasOne("RIL_AUD_GetChannel", "AT+QAUDCH?", "ATResponse_AUD_handler", "data", "direct")
  BY DEF HasOne, Script, RIL_AUD_GetChannel, Direct, Function, Cmd
<1>14. HasOne("RIL_AUD_GetVolume_Speaker", "AT+CLVL?", "ATResponse_AUD_handler", "data", "direct")
  BY DEF HasOne, Script, RIL_AUD_GetVolume_Speaker, Checked, Direct, Function, Cmd
<1>15. HasOne("RIL_AUD_GetVolume_Media", "AT+QMEDVL?", "ATResponse_AUD_handler", "data", "direct")
  BY DEF HasOne, Script, RIL_AUD_GetVolume_Media, Checked, Direct, Function, Cmd
<1>16. HasOne("RIL_AUD_GetRecordState", "AT+QAUDRD?", "ATResponse_AUD_handler", "data", "copied")
  BY DEF HasOne, Script, RIL_AUD_GetRecordState, Copied, Function, Cmd
<1>17. HasOne("RIL_GPS_GetPowerState", "AT+QGNSSC?", "ATResponse_QGNSSC_Handler", "data", "copied")
  BY DEF HasOne, Script, RIL_GPS_GetPowerState, Copied, Function, Cmd
<1>18. HasOne("RIL_GPS_Read_TimeSync_Status", "AT+QGNSSTS?", "ATResponse_GPSReadTS_Hdlr", "data", "copied")
  BY DEF HasOne, Script, RIL_GPS_Read_TimeSync_Status, Copied, Function, Cmd
<1>19. HasOne("RIL_QLBS_Loc_Ex", "AT+QLBS", "ATResponse_Qlbs_Ex_Handler", "data", "cleared")
  BY DEF HasOne, Script, RIL_QLBS_Loc_Ex, Function, Cmd
<1>20. HasOne("RIL_BT_GetPwrState", "AT+QBTPWR?", "ATRsp_QBTPWR_Hdlr", "data", "direct")
  BY DEF HasOne, Script, RIL_BT_GetPwrState, Checked, Direct, Function, Cmd
<1>21. HasOne("RIL_BT_GetName", "AT+QBTNAME?", "ATRsp_QBTNAME_Hdlr", "data", "cleared")
  BY DEF HasOne, Script, RIL_BT_GetName, Checked, Function, Cmd
<1>22. HasOne("RIL_BT_GetLocalAddr", "AT+QBTADDR?", "ATRsp_QBTADDR_Hdlr", "data", "cleared")
  BY DEF HasOne, Script, RIL_BT_GetLocalAddr, Checked, Function, Cmd
<1>23. HasOne("RIL_BT_GetVisble", "AT+QBTVISB?", "ATRsp_QBTVISB_Hdlr", "data", "direct")
  BY DEF HasOne, Script, RIL_BT_GetVisble, Checked, Direct, Function, Cmd
<1>24. HasOne("RIL_BT_GetSupportedProfile", "AT+QBTGPROF", "ATRsp_QBTGPROF_Hdlr", "data", "cleared")
  BY DEF HasOne, Script, RIL_BT_GetSupportedProfile, Checked, Function, Cmd
<1>25. HasOne("RIL_NW_GetIPStatus", "AT+QISTAT", "ATResponse_IPStatus_Handler", "data", "copied")
  <2>1. Script["RIL_NW_GetIPStatus"] = RIL_NW_GetIPStatus
    BY DEF Script
  <2>2. RIL_NW_GetIPStatus.cmds = <<Cmd("AT+QISTAT", "ATResponse_IPStatus_Handler")>> /\ RIL_NW_GetIPStatus.mode = "copied"
    BY DEF RIL_NW_GetIPStatus, Copied, Function
  <2>3. Cmd("AT+QISTAT", "ATResponse_IPStatus_Handler").at = "AT+QISTAT" /\ Cmd("AT+QISTAT", "ATResponse_IPStatus_Handler").cell = "data"
        /\ Cmd("AT+QISTAT", "ATResponse_IPStatus_Handler").hdl = "ATResponse_IPStatus_Handler"
    BY DEF Cmd
  <2>4. \A k : Len(<<k>>) = 1 /\ DOMAIN <<k>> = {1} /\ <<k>>[1] = k
    OBVIOUS
  <2> QED
    BY <2>1, <2>2, <2>3, <2>4 DEF HasOne
<1>26. HasOne("RIL_FTP_QFTPSIZE", "+QFTPSIZE:", "ATResponse_FTP_handler_Common", "data", "checked")
  BY DEF HasOne, Script, RIL_FTP_QFTPSIZE, Accepted, Function, Cmd
<1>27. HasOne("RIL_GPS_Read", "AT+QGNSSRD", "ATResponse_GPSRead_Hdlr", "data", "copied")
  <2>1. Script["RIL_GPS_Read"] = RIL_GPS_Read
    BY DEF Script
  <2>2. RIL_GPS_Read.cmds = <<Cmd("AT+QGNSSRD", "ATResponse_GPSRead_Hdlr")>> /\ RIL_GPS_Read.mode = "copied"
    BY DEF RIL_GPS_Read, Copied, Function
  <2>3. Cmd("AT+QGNSSRD", "ATResponse_GPSRead_Hdlr").at = "AT+QGNSSRD" /\ Cmd("AT+QGNSSRD", "ATResponse_GPSRead_Hdlr").cell = "data"
        /\ Cmd("AT+QGNSSRD", "ATResponse_GPSRead_Hdlr").hdl = "ATResponse_GPSRead_Hdlr"
    BY DEF Cmd
  <2>4. \A k : Len(<<k>>) = 1 /\ DOMAIN <<k>> = {1} /\ <<k>>[1] = k
    OBVIOUS
  <2> QED
    BY <2>1, <2>2, <2>3, <2>4 DEF HasOne
<1> QED
  BY <1>1, <1>2, <1>3, <1>4, <1>5, <1>6, <1>7, <1>8, <1>9, <1>10, <1>11, <1>12, <1>13, <1>14, <1>15,
     <1>16, <1>17, <1>18, <1>19, <1>20, <1>21, <1>22, <1>23, <1>24, <1>25, <1>26, <1>27

HandsNothing(F) == F.mode \in {"none", "accepted", "lost"}

NotQueries == {"RIL_AUD_GetVolume_Mic", "RIL_BT_SPP_Send", "RIL_BT_SPP_Read", "RIL_Telephony_Dial", "RIL_Telephony_Answer"}

(* These are all of them.                                                  *)
LEMMA QueriesAsk == Queries \subseteq Asking
<1>1. /\ HandsNothing(RIL_NW_SetGPRSContext)
      /\ HandsNothing(RIL_NW_SetAPN)
      /\ HandsNothing(RIL_NW_OpenPDPContext)
      /\ HandsNothing(RIL_NW_ClosePDPContext)
      /\ HandsNothing(RIL_Telephony_Hangup)
      /\ HandsNothing(Ql_SecureData_Store)
      /\ HandsNothing(RIL_Alarm_Create)
      /\ HandsNothing(RIL_Alarm_Remove)
  BY DEF HandsNothing, RIL_NW_SetGPRSContext, RIL_NW_SetAPN, RIL_NW_OpenPDPContext,
     RIL_NW_ClosePDPContext,
     RIL_Telephony_Hangup, Ql_SecureData_Store, RIL_Alarm_Create, RIL_Alarm_Remove, Checked, Plain,
     Handled, Function, Cmd
<1>2. /\ HandsNothing(RIL_AUD_SetChannel)
      /\ HandsNothing(RIL_AUD_SetVolume_Speaker)
      /\ HandsNothing(RIL_AUD_SetVolume_Media)
      /\ HandsNothing(RIL_AUD_SetVolume_Mic)
      /\ HandsNothing(RIL_AUD_PlayFile)
      /\ HandsNothing(RIL_AUD_StopPlay)
      /\ HandsNothing(RIL_AUD_StartRecord)
      /\ HandsNothing(RIL_AUD_StopRecord)
  BY DEF HandsNothing, RIL_AUD_SetChannel, RIL_AUD_SetVolume_Speaker, RIL_AUD_SetVolume_Media,
     RIL_AUD_SetVolume_Mic, RIL_AUD_PlayFile, RIL_AUD_StopPlay, RIL_AUD_StartRecord,
     RIL_AUD_StopRecord, Checked, Plain, Handled, Aud, Function, Cmd
<1>3. /\ HandsNothing(RIL_AUD_PlayMem)
      /\ HandsNothing(RIL_AUD_StopPlayMem)
      /\ HandsNothing(RIL_AUD_PlayMemBg)
      /\ HandsNothing(RIL_AUD_StopPlayMemBg)
      /\ HandsNothing(RIL_ToneDet_Close)
      /\ HandsNothing(RIL_ToneDet_Set)
      /\ HandsNothing(RIL_ToneDet_Get)
      /\ HandsNothing(RIL_GPS_Open)
  BY DEF HandsNothing, RIL_AUD_PlayMem, RIL_AUD_StopPlayMem, RIL_AUD_PlayMemBg, RIL_AUD_StopPlayMemBg,
     RIL_ToneDet_Close, RIL_ToneDet_Set, RIL_ToneDet_Get, RIL_GPS_Open, Checked, Plain, Handled,
     Function, Cmd
<1>4. /\ HandsNothing(RIL_GPS_SetRefLoc)
      /\ HandsNothing(RIL_GPS_EPO_Enable)
      /\ HandsNothing(RIL_GPS_EPO_Aid)
      /\ HandsNothing(RIL_GPS_EPO_Config_APN)
      /\ HandsNothing(RIL_QLBS_Cfg)
      /\ HandsNothing(RIL_FTP_QFTPCLOSE)
  BY DEF HandsNothing, RIL_GPS_SetRefLoc, RIL_GPS_EPO_Enable, RIL_GPS_EPO_Aid, RIL_GPS_EPO_Config_APN,
     RIL_QLBS_Cfg, RIL_FTP_QFTPCLOSE, Checked, Plain, OnServer, Accepted,
     Function, Cmd
<1>5. /\ HandsNothing(RIL_FTP_QFTPPATH)
      /\ HandsNothing(RIL_FTP_QFTPCFG)
      /\ HandsNothing(RIL_FTP_QFTPRENAME)
      /\ HandsNothing(RIL_FTP_QFTPDELETE)
      /\ HandsNothing(RIL_FTP_QFTPMKDIR)
      /\ HandsNothing(RIL_FTP_QFTPRMDIR)
      /\ HandsNothing(RIL_FTP_QFTPSTAT)
      /\ HandsNothing(RIL_FTP_QFTPLEN)
  BY DEF HandsNothing, RIL_FTP_QFTPPATH, RIL_FTP_QFTPCFG, RIL_FTP_QFTPRENAME, RIL_FTP_QFTPDELETE,
     RIL_FTP_QFTPMKDIR, RIL_FTP_QFTPRMDIR, RIL_FTP_QFTPSTAT, RIL_FTP_QFTPLEN, OnServer, Accepted,
     Function, Cmd
<1>6. /\ HandsNothing(RIL_FTP_QIDEACT)
      /\ HandsNothing(RIL_BT_Switch)
      /\ HandsNothing(RIL_BT_SetName)
      /\ HandsNothing(RIL_BT_SetVisble)
      /\ HandsNothing(RIL_BT_StopScan)
      /\ HandsNothing(RIL_BT_SPP_DirectConn)
      /\ HandsNothing(RIL_BT_PairConfirm)
      /\ HandsNothing(RIL_BT_ConnAccept)
  BY DEF HandsNothing, RIL_FTP_QIDEACT, RIL_BT_Switch, RIL_BT_SetName, RIL_BT_SetVisble,
     RIL_BT_StopScan,
     RIL_BT_SPP_DirectConn, RIL_BT_PairConfirm, RIL_BT_ConnAccept, Checked, Plain, Handled,
     Function, Cmd
<1>7. \A f \in {"RIL_NW_SetGPRSContext", "RIL_NW_SetAPN", "RIL_NW_OpenPDPContext", "RIL_NW_ClosePDPContext",
        "RIL_Telephony_Hangup", "Ql_SecureData_Store", "RIL_Alarm_Create", "RIL_Alarm_Remove"} :
        HandsNothing(Script[f])
  BY <1>1 DEF Script
<1>8. \A f \in {"RIL_AUD_SetChannel", "RIL_AUD_SetVolume_Speaker", "RIL_AUD_SetVolume_Media",
        "RIL_AUD_SetVolume_Mic", "RIL_AUD_PlayFile", "RIL_AUD_StopPlay", "RIL_AUD_StartRecord",
        "RIL_AUD_StopRecord"} :
        HandsNothing(Script[f])
  BY <1>2 DEF Script
<1>9. \A f \in {"RIL_AUD_PlayMem", "RIL_AUD_StopPlayMem", "RIL_AUD_PlayMemBg", "RIL_AUD_StopPlayMemBg",
        "RIL_ToneDet_Close", "RIL_ToneDet_Set", "RIL_ToneDet_Get", "RIL_GPS_Open"} :
        HandsNothing(Script[f])
  BY <1>3 DEF Script
<1>10. \A f \in {"RIL_GPS_SetRefLoc", "RIL_GPS_EPO_Enable", "RIL_GPS_EPO_Aid", "RIL_GPS_EPO_Config_APN",
        "RIL_QLBS_Cfg", "RIL_FTP_QFTPCLOSE"} :
        HandsNothing(Script[f])
  BY <1>4 DEF Script
<1>11. \A f \in {"RIL_FTP_QFTPPATH", "RIL_FTP_QFTPCFG", "RIL_FTP_QFTPRENAME", "RIL_FTP_QFTPDELETE",
        "RIL_FTP_QFTPMKDIR", "RIL_FTP_QFTPRMDIR", "RIL_FTP_QFTPSTAT", "RIL_FTP_QFTPLEN"} :
        HandsNothing(Script[f])
  BY <1>5 DEF Script
<1>12. \A f \in {"RIL_FTP_QIDEACT", "RIL_BT_Switch", "RIL_BT_SetName", "RIL_BT_SetVisble", "RIL_BT_StopScan",
        "RIL_BT_SPP_DirectConn", "RIL_BT_PairConfirm", "RIL_BT_ConnAccept"} :
        HandsNothing(Script[f])
  BY <1>6 DEF Script
<1>13. \A f \in Functions : f \in Asking \/ f \in NotQueries \/ f \in Logins \/ HandsNothing(Script[f])
  BY <1>7, <1>8, <1>9, <1>10, <1>11, <1>12
  DEF Functions, Script, Asking, NotQueries, Logins
<1> QED
  BY <1>13, LoginRows DEF Queries, HandsNothing, NotQueries

Late == {"RIL_NW_GetIPStatus", "RIL_FTP_QFTPSIZE"}

KindOf(f) ==
  CASE f = "RIL_BT_GetSupportedProfile" -> "+QBTGPROF:"
    [] f = "RIL_NW_GetIPStatus"         -> "STATE:"
    [] f = "RIL_FTP_QFTPSIZE"           -> "+QFTPSIZE:"
    [] OTHER                            -> Prefix(Script[f].cmds[1].at)

MeaningOf(f, v) ==
  CASE f = "RIL_SIM_GetSimState" /\ v = "READY"         -> "SIM_STAT_READY"
    [] f = "RIL_SIM_GetSimState" /\ v = "SIM PIN2"      -> "SIM_STAT_PIN2_REQ"
    [] f = "RIL_SIM_GetSimState" /\ v = "odd"           -> "SIM_STAT_UNSPECIFIED"
    [] f = "RIL_NW_GetIPStatus" /\ v = "TCP CONNECTING" -> "TCP_PROCESSING"
    [] f = "RIL_NW_GetIPStatus" /\ v = "odd"            -> "IP INITIAL"
    [] OTHER                                            -> v

Understood(f, v, d) == v \notin {"unquoted", "west"} => d = MeaningOf(f, v)

Said(f, v) ==
  /\ f = "RIL_SIM_GetSimState" => v \in {"READY", "SIM PIN2", "odd"}
  /\ f = "RIL_NW_GetIPStatus" => v \in {"IP GPRSACT", "TCP CONNECTING", "odd"}

Reads(f, k) ==
  \A line, d :
    LET v == Verdict(Script[f].cmds[1], line, d)
    IN /\ line.kind = k /\ Said(f, line.val) =>
            v.verdict \in {"continue", "success"} /\ Understood(f, line.val, v.data)
       /\ line.kind = "OK" =>
            IF f \in Late THEN v.verdict = "continue" ELSE v.verdict = "success" /\ v.data = d
       /\ line.kind \in Faulty => v.verdict # "success"

(* The lines the queries look for.                                         *)
LEMMA KindsOfAnswers ==
  /\ KindOf("RIL_NW_GetGSMState") = "+CREG:"
  /\ KindOf("RIL_NW_GetGPRSState") = "+CGREG:"
  /\ KindOf("RIL_NW_GetSignalQuality") = "+CSQ:"
  /\ KindOf("RIL_NW_GetOperator") = "+COPS:"
  /\ KindOf("RIL_SIM_GetSimState") = "+CPIN:"
  /\ KindOf("RIL_SIM_GetIMSI") = ""
  /\ KindOf("RIL_SIM_GetCCID") = "+CCID:"
  /\ KindOf("RIL_QuerySysInitStatus") = "+QINISTAT:"
  /\ KindOf("RIL_GetPowerSupply") = "+CBC:"
  /\ KindOf("RIL_GetIMEI") = ""
  /\ KindOf("Ql_SecureData_Read") = "+QUSERDAT: 3,"
  /\ KindOf("RIL_Alarm_Query") = "+QALARM:"
  /\ KindOf("RIL_AUD_GetChannel") = "+QAUDCH:"
  /\ KindOf("RIL_AUD_GetVolume_Speaker") = "+CLVL:"
  /\ KindOf("RIL_AUD_GetVolume_Media") = "+QMEDVL:"
  /\ KindOf("RIL_AUD_GetRecordState") = "+QAUDRD:"
  /\ KindOf("RIL_GPS_GetPowerState") = "+QGNSSC:"
  /\ KindOf("RIL_GPS_Read_TimeSync_Status") = "+QGNSSTS:"
  /\ KindOf("RIL_QLBS_Loc_Ex") = "+QLBS:"
  /\ KindOf("RIL_BT_GetPwrState") = "+QBTPWR:"
  /\ KindOf("RIL_BT_GetName") = "+QBTNAME:"
  /\ KindOf("RIL_BT_GetLocalAddr") = "+QBTADDR:"
  /\ KindOf("RIL_BT_GetVisble") = "+QBTVISB:"
  /\ KindOf("RIL_BT_GetSupportedProfile") = "+QBTGPROF:"
  /\ KindOf("RIL_NW_GetIPStatus") = "STATE:"
  /\ KindOf("RIL_FTP_QFTPSIZE") = "+QFTPSIZE:"
<1>1. KindOf("RIL_NW_GetGSMState") = "+CREG:"
  <2>0. HasOne("RIL_NW_GetGSMState", "AT+CREG?", "ATResponse_CREG_Handler", "data", "copied")
    BY QueryRows
  <2>1. Script["RIL_NW_GetGSMState"].cmds[1].at = "AT+CREG?"
    BY <2>0 DEF HasOne
  <2>2. Prefix("AT+CREG?") = "+CREG:"
    BY DEF Prefix
  <2> QED
    BY <2>1, <2>2 DEF KindOf
<1>2. KindOf("RIL_NW_GetGPRSState") = "+CGREG:"
  <2>0. HasOne("RIL_NW_GetGPRSState", "AT+CGREG?", "ATResponse_CGREG_Handler", "data", "copied")
    BY QueryRows
  <2>1. Script["RIL_NW_GetGPRSState"].cmds[1].at = "AT+CGREG?"
    BY <2>0 DEF HasOne
  <2>2. Prefix("AT+CGREG?") = "+CGREG:"
    BY DEF Prefix
  <2> QED
    BY <2>1, <2>2 DEF KindOf
<1>3. KindOf("RIL_NW_GetSignalQuality") = "+CSQ:"
  <2>0. HasOne("RIL_NW_GetSignalQuality", "AT+CSQ", "ATResponse_CSQ_Handler", "data", "copied")
    BY QueryRows
  <2>1. Script["RIL_NW_GetSignalQuality"].cmds[1].at = "AT+CSQ"
    BY <2>0 DEF HasOne
  <2>2. Prefix("AT+CSQ") = "+CSQ:"
    BY DEF Prefix
  <2> QED
    BY <2>1, <2>2 DEF KindOf
<1>4. KindOf("RIL_NW_GetOperator") = "+COPS:"
  <2>0. HasOne("RIL_NW_GetOperator", "AT+COPS?", "ATRsp_COPS_Handler", "data", "direct")
    BY QueryRows
  <2>1. Script["RIL_NW_GetOperator"].cmds[1].at = "AT+COPS?"
    BY <2>0 DEF HasOne
  <2>2. Prefix("AT+COPS?") = "+COPS:"
    BY DEF Prefix
  <2> QED
    BY <2>1, <2>2 DEF KindOf
<1>5. KindOf("RIL_SIM_GetSimState") = "+CPIN:"
  <2>0. HasOne("RIL_SIM_GetSimState", "AT+CPIN?", "ATResponse_CPIN_Handler", "data", "copied")
    BY QueryRows
  <2>1. Script["RIL_SIM_GetSimState"].cmds[1].at = "AT+CPIN?"
    BY <2>0 DEF HasOne
  <2>2. Prefix("AT+CPIN?") = "+CPIN:"
    BY DEF Prefix
  <2> QED
    BY <2>1, <2>2 DEF KindOf
<1>6. KindOf("RIL_SIM_GetIMSI") = ""
  <2>0. HasOne("RIL_SIM_GetIMSI", "AT+CIMI", "ATRsp_IMSI_Handler", "data", "direct")
    BY QueryRows
  <2>1. Script["RIL_SIM_GetIMSI"].cmds[1].at = "AT+CIMI"
    BY <2>0 DEF HasOne
  <2>2. Prefix("AT+CIMI") = ""
    BY DEF Prefix
  <2> QED
    BY <2>1, <2>2 DEF KindOf
<1>7. KindOf("RIL_SIM_GetCCID") = "+CCID:"
  <2>0. HasOne("RIL_SIM_GetCCID", "AT+CCID", "ATRsp_CCID_Handler", "data", "direct")
    BY QueryRows
  <2>1. Script["RIL_SIM_GetCCID"].cmds[1].at = "AT+CCID"
    BY <2>0 DEF HasOne
  <2>2. Prefix("AT+CCID") = "+CCID:"
    BY DEF Prefix
  <2> QED
    BY <2>1, <2>2 DEF KindOf
<1>8. KindOf("RIL_QuerySysInitStatus") = "+QINISTAT:"
  <2>0. HasOne("RIL_QuerySysInitStatus", "AT+QINISTAT", "SYS_ATResponse_Hanlder", "data", "direct")
    BY QueryRows
  <2>1. Script["RIL_QuerySysInitStatus"].cmds[1].at = "AT+QINISTAT"
    BY <2>0 DEF HasOne
  <2>2. Prefix("AT+QINISTAT") = "+QINISTAT:"
    BY DEF Prefix
  <2> QED
    BY <2>1, <2>2 DEF KindOf
<1>9. KindOf("RIL_GetPowerSupply") = "+CBC:"
  <2>0. HasOne("RIL_GetPowerSupply", "AT+CBC", "Power_ATResponse_Hanlder", "data", "copied")
    BY QueryRows
  <2>1. Script["RIL_GetPowerSupply"].cmds[1].at = "AT+CBC"
    BY <2>0 DEF HasOne
  <2>2. Prefix("AT+CBC") = "+CBC:"
    BY DEF Prefix
  <2> QED
    BY <2>1, <2>2 DEF KindOf
<1>10. KindOf("RIL_GetIMEI") = ""
  <2>0. HasOne("RIL_GetIMEI", "AT+GSN", "ATRsp_IMEI_Handler", "data", "direct")
    BY QueryRows
  <2>1. Script["RIL_GetIMEI"].cmds[1].at = "AT+GSN"
    BY <2>0 DEF HasOne
  <2>2. Prefix("AT+GSN") = ""
    BY DEF Prefix
  <2> QED
    BY <2>1, <2>2 DEF KindOf
<1>11. KindOf("Ql_SecureData_Read") = "+QUSERDAT: 3,"
  <2>0. HasOne("Ql_SecureData_Read", "AT+QUSERDAT=3", "SecureData_Read_Callback", "data", "checked")
    BY QueryRows
  <2>1. Script["Ql_SecureData_Read"].cmds[1].at = "AT+QUSERDAT=3"
    BY <2>0 DEF HasOne
  <2>2. Prefix("AT+QUSERDAT=3") = "+QUSERDAT: 3,"
    BY DEF Prefix
  <2> QED
    BY <2>1, <2>2 DEF KindOf
<1>12. KindOf("RIL_Alarm_Query") = "+QALARM:"
  <2>0. HasOne("RIL_Alarm_Query", "AT+QALARM?", "ATResponse_QALARM_Handler", "data", "direct")
    BY QueryRows
  <2>1. Script["RIL_Alarm_Query"].cmds[1].at = "AT+QALARM?"
    BY <2>0 DEF HasOne
  <2>2. Prefix("AT+QALARM?") = "+QALARM:"
    BY DEF Prefix
  <2> QED
    BY <2>1, <2>2 DEF KindOf
<1>13. KindOf("RIL_AUD_GetChannel") = "+QAUDCH:"
  <2>0. HasOne("RIL_AUD_GetChannel", "AT+QAUDCH?", "ATResponse_AUD_handler", "data", "direct")
    BY QueryRows
  <2>1. Script["RIL_AUD_GetChannel"].cmds[1].at = "AT+QAUDCH?"
    BY <2>0 DEF HasOne
  <2>2. Prefix("AT+QAUDCH?") = "+QAUDCH:"
    BY DEF Prefix
  <2> QED
    BY <2>1, <2>2 DEF KindOf
<1>14. KindOf("RIL_AUD_GetVolume_Speaker") = "+CLVL:"
  <2>0. HasOne("RIL_AUD_GetVolume_Speaker", "AT+CLVL?", "ATResponse_AUD_handler", "data", "direct")
    BY QueryRows
  <2>1. Script["RIL_AUD_GetVolume_Speaker"].cmds[1].at = "AT+CLVL?"
    BY <2>0 DEF HasOne
  <2>2. Prefix("AT+CLVL?") = "+CLVL:"
    BY DEF Prefix
  <2> QED
    BY <2>1, <2>2 DEF KindOf
<1>15. KindOf("RIL_AUD_GetVolume_Media") = "+QMEDVL:"
  <2>0. HasOne("RIL_AUD_GetVolume_Media", "AT+QMEDVL?", "ATResponse_AUD_handler", "data", "direct")
    BY QueryRows
  <2>1. Script["RIL_AUD_GetVolume_Media"].cmds[1].at = "AT+QMEDVL?"
    BY <2>0 DEF HasOne
  <2>2. Prefix("AT+QMEDVL?") = "+QMEDVL:"
    BY DEF Prefix
  <2> QED
    BY <2>1, <2>2 DEF KindOf
<1>16. KindOf("RIL_AUD_GetRecordState") = "+QAUDRD:"
  <2>0. HasOne("RIL_AUD_GetRecordState", "AT+QAUDRD?", "ATResponse_AUD_handler", "data", "copied")
    BY QueryRows
  <2>1. Script["RIL_AUD_GetRecordState"].cmds[1].at = "AT+QAUDRD?"
    BY <2>0 DEF HasOne
  <2>2. Prefix("AT+QAUDRD?") = "+QAUDRD:"
    BY DEF Prefix
  <2> QED
    BY <2>1, <2>2 DEF KindOf
<1>17. KindOf("RIL_GPS_GetPowerState") = "+QGNSSC:"
  <2>0. HasOne("RIL_GPS_GetPowerState", "AT+QGNSSC?", "ATResponse_QGNSSC_Handler", "data", "copied")
    BY QueryRows
  <2>1. Script["RIL_GPS_GetPowerState"].cmds[1].at = "AT+QGNSSC?"
    BY <2>0 DEF HasOne
  <2>2. Prefix("AT+QGNSSC?") = "+QGNSSC:"
    BY DEF Prefix
  <2> QED
    BY <2>1, <2>2 DEF KindOf
<1>18. KindOf("RIL_GPS_Read_TimeSync_Status") = "+QGNSSTS:"
  <2>0. HasOne("RIL_GPS_Read_TimeSync_Status", "AT+QGNSSTS?", "ATResponse_GPSReadTS_Hdlr", "data", "copied")
    BY QueryRows
  <2>1. Script["RIL_GPS_Read_TimeSync_Status"].cmds[1].at = "AT+QGNSSTS?"
    BY <2>0 DEF HasOne
  <2>2. Prefix("AT+QGNSSTS?") = "+QGNSSTS:"
    BY DEF Prefix
  <2> QED
    BY <2>1, <2>2 DEF KindOf
<1>19. KindOf("RIL_QLBS_Loc_Ex") = "+QLBS:"
  <2>0. HasOne("RIL_QLBS_Loc_Ex", "AT+QLBS", "ATResponse_Qlbs_Ex_Handler", "data", "cleared")
    BY QueryRows
  <2>1. Script["RIL_QLBS_Loc_Ex"].cmds[1].at = "AT+QLBS"
    BY <2>0 DEF HasOne
  <2>2. Prefix("AT+QLBS") = "+QLBS:"
    BY DEF Prefix
  <2> QED
    BY <2>1, <2>2 DEF KindOf
<1>20. KindOf("RIL_BT_GetPwrState") = "+QBTPWR:"
  <2>0. HasOne("RIL_BT_GetPwrState", "AT+QBTPWR?", "ATRsp_QBTPWR_Hdlr", "data", "direct")
    BY QueryRows
  <2>1. Script["RIL_BT_GetPwrState"].cmds[1].at = "AT+QBTPWR?"
    BY <2>0 DEF HasOne
  <2>2. Prefix("AT+QBTPWR?") = "+QBTPWR:"
    BY DEF Prefix
  <2> QED
    BY <2>1, <2>2 DEF KindOf
<1>21. KindOf("RIL_BT_GetName") = "+QBTNAME:"
  <2>0. HasOne("RIL_BT_GetName", "AT+QBTNAME?", "ATRsp_QBTNAME_Hdlr", "data", "cleared")
    BY QueryRows
  <2>1. Script["RIL_BT_GetName"].cmds[1].at = "AT+QBTNAME?"
    BY <2>0 DEF HasOne
  <2>2. Prefix("AT+QBTNAME?") = "+QBTNAME:"
    BY DEF Prefix
  <2> QED
    BY <2>1, <2>2 DEF KindOf
<1>22. KindOf("RIL_BT_GetLocalAddr") = "+QBTADDR:"
  <2>0. HasOne("RIL_BT_GetLocalAddr", "AT+QBTADDR?", "ATRsp_QBTADDR_Hdlr", "data", "cleared")
    BY QueryRows
  <2>1. Script["RIL_BT_GetLocalAddr"].cmds[1].at = "AT+QBTADDR?"
    BY <2>0 DEF HasOne
  <2>2. Prefix("AT+QBTADDR?") = "+QBTADDR:"
    BY DEF Prefix
  <2> QED
    BY <2>1, <2>2 DEF KindOf
<1>23. KindOf("RIL_BT_GetVisble") = "+QBTVISB:"
  <2>0. HasOne("RIL_BT_GetVisble", "AT+QBTVISB?", "ATRsp_QBTVISB_Hdlr", "data", "direct")
    BY QueryRows
  <2>1. Script["RIL_BT_GetVisble"].cmds[1].at = "AT+QBTVISB?"
    BY <2>0 DEF HasOne
  <2>2. Prefix("AT+QBTVISB?") = "+QBTVISB:"
    BY DEF Prefix
  <2> QED
    BY <2>1, <2>2 DEF KindOf
<1>24. KindOf("RIL_BT_GetSupportedProfile") = "+QBTGPROF:"
  BY DEF KindOf
<1>25. KindOf("RIL_NW_GetIPStatus") = "STATE:"
  BY DEF KindOf
<1>26. KindOf("RIL_FTP_QFTPSIZE") = "+QFTPSIZE:"
  BY DEF KindOf
<1> QED
  BY <1>1, <1>2, <1>3, <1>4, <1>5, <1>6, <1>7, <1>8, <1>9, <1>10, <1>11, <1>12, <1>13, <1>14, <1>15,
     <1>16, <1>17, <1>18, <1>19, <1>20, <1>21, <1>22, <1>23, <1>24, <1>25, <1>26

Levels == {"+QAUDCH:", "+QMEDVL:", "+CLVL:", "+QSIDET:", "+QAUDRD:"}

Ordinary(v, k, line, d, qmic) ==
  \/ v = Stores(k, line, d)
  \/ v = StoresOnly(k, line, d)
  \/ k = "" /\ v = PlainAnswer(line, d)
  \/ k \in Levels /\ v = ATResponse_AUD_handler(line, d, qmic)

ReadsAsIs(v, k, line, d) ==
  /\ line.kind = k => v.verdict = "continue" /\ v.data = line.val
  /\ line.kind = "OK" => v.verdict = "success" /\ v.data = d
  /\ line.kind \in Faulty => v.verdict # "success"

(* The handlers that store the value of a line as it is.                   *)
LEMMA OrdinaryVerdicts ==
  ASSUME NEW k, k \notin Faulty \cup {"OK"}, NEW line, NEW d, NEW qmic, NEW v, Ordinary(v, k, line, d, qmic)
  PROVE  ReadsAsIs(v, k, line, d)
<1> USE DEF Final, EndsWith, Continue, Success, Failed, Faulty, ReadsAsIs
<1>1. CASE v = Stores(k, line, d)
  BY <1>1 DEF Stores
<1>2. CASE v = StoresOnly(k, line, d)
  BY <1>2 DEF StoresOnly
<1>3. CASE k = "" /\ v = PlainAnswer(line, d)
  BY <1>3 DEF PlainAnswer
<1>4. CASE k \in Levels /\ v = ATResponse_AUD_handler(line, d, qmic)
  BY <1>4 DEF ATResponse_AUD_handler, Levels
<1> QED
  BY <1>1, <1>2, <1>3, <1>4 DEF Ordinary

(* A query with such a handler reads its answer.                           *)
LEMMA OrdinaryReads ==
  ASSUME NEW f, f \notin Late \cup {"RIL_SIM_GetSimState"}, NEW k, k \notin Faulty \cup {"OK"},
         \A line, d : Ordinary(Verdict(Script[f].cmds[1], line, d), k, line, d, s_channel_qmic)
  PROVE  Reads(f, k)
<1>1. \A line, d : ReadsAsIs(Verdict(Script[f].cmds[1], line, d), k, line, d)
  BY OrdinaryVerdicts
<1>2. \A w : MeaningOf(f, w) = w
  BY DEF MeaningOf, Late
<1> QED
  BY <1>1, <1>2 DEF Reads, Understood, Late, ReadsAsIs

(* Every query but RIL_GPS_Read reads the value of its line, handler by handler. *)
LEMMA QueriesRead == \A f \in Asking \ {"RIL_GPS_Read"} : Reads(f, KindOf(f))
<1>1. Reads("RIL_NW_GetGSMState", KindOf("RIL_NW_GetGSMState"))
  <2>0. HasOne("RIL_NW_GetGSMState", "AT+CREG?", "ATResponse_CREG_Handler", "data", "copied")
    BY QueryRows
  <2>1. Script["RIL_NW_GetGSMState"].cmds[1].hdl = "ATResponse_CREG_Handler"
    BY <2>0 DEF HasOne
  <2>2. \A line, d : Verdict(Script["RIL_NW_GetGSMState"].cmds[1], line, d) = Stores("+CREG:", line, d)
    BY <2>1, VerdictIsTheHandlers DEF ATResponse_CREG_Handler
  <2>3. \A line, d : Ordinary(Verdict(Script["RIL_NW_GetGSMState"].cmds[1], line, d), "+CREG:", line, d, s_channel_qmic)
    BY <2>2 DEF Ordinary
  <2>4. "RIL_NW_GetGSMState" \notin Late \cup {"RIL_SIM_GetSimState"} /\ "+CREG:" \notin Faulty \cup {"OK"}
    BY DEF Late, Faulty
  <2>5. KindOf("RIL_NW_GetGSMState") = "+CREG:"
    BY KindsOfAnswers
  <2> QED
    BY <2>3, <2>4, <2>5, OrdinaryReads, Zenon
<1>2. Reads("RIL_NW_GetGPRSState", KindOf("RIL_NW_GetGPRSState"))
  <2>0. HasOne("RIL_NW_GetGPRSState", "AT+CGREG?", "ATResponse_CGREG_Handler", "data", "copied")
    BY QueryRows
  <2>1. Script["RIL_NW_GetGPRSState"].cmds[1].hdl = "ATResponse_CGREG_Handler"
    BY <2>0 DEF HasOne
  <2>2. \A line, d : Verdict(Script["RIL_NW_GetGPRSState"].cmds[1], line, d) = Stores("+CGREG:", line, d)
    BY <2>1, VerdictIsTheHandlers DEF ATResponse_CGREG_Handler
  <2>3. \A line, d : Ordinary(Verdict(Script["RIL_NW_GetGPRSState"].cmds[1], line, d), "+CGREG:", line, d, s_channel_qmic)
    BY <2>2 DEF Ordinary
  <2>4. "RIL_NW_GetGPRSState" \notin Late \cup {"RIL_SIM_GetSimState"} /\ "+CGREG:" \notin Faulty \cup {"OK"}
    BY DEF Late, Faulty
  <2>5. KindOf("RIL_NW_GetGPRSState") = "+CGREG:"
    BY KindsOfAnswers
  <2> QED
    BY <2>3, <2>4, <2>5, OrdinaryReads, Zenon
<1>3. Reads("RIL_NW_GetSignalQuality", KindOf("RIL_NW_GetSignalQuality"))
  <2>0. HasOne("RIL_NW_GetSignalQuality", "AT+CSQ", "ATResponse_CSQ_Handler", "data", "copied")
    BY QueryRows
  <2>1. Script["RIL_NW_GetSignalQuality"].cmds[1].hdl = "ATResponse_CSQ_Handler"
    BY <2>0 DEF HasOne
  <2>2. \A line, d : Verdict(Script["RIL_NW_GetSignalQuality"].cmds[1], line, d) = Stores("+CSQ:", line, d)
    BY <2>1, VerdictIsTheHandlers DEF ATResponse_CSQ_Handler
  <2>3. \A line, d : Ordinary(Verdict(Script["RIL_NW_GetSignalQuality"].cmds[1], line, d), "+CSQ:", line, d, s_channel_qmic)
    BY <2>2 DEF Ordinary
  <2>4. "RIL_NW_GetSignalQuality" \notin Late \cup {"RIL_SIM_GetSimState"} /\ "+CSQ:" \notin Faulty \cup {"OK"}
    BY DEF Late, Faulty
  <2>5. KindOf("RIL_NW_GetSignalQuality") = "+CSQ:"
    BY KindsOfAnswers
  <2> QED
    BY <2>3, <2>4, <2>5, OrdinaryReads, Zenon
<1>4. Reads("RIL_SIM_GetIMSI", KindOf("RIL_SIM_GetIMSI"))
  <2>0. HasOne("RIL_SIM_GetIMSI", "AT+CIMI", "ATRsp_IMSI_Handler", "data", "direct")
    BY QueryRows
  <2>1. Script["RIL_SIM_GetIMSI"].cmds[1].hdl = "ATRsp_IMSI_Handler"
    BY <2>0 DEF HasOne
  <2>2. \A line, d : Verdict(Script["RIL_SIM_GetIMSI"].cmds[1], line, d) = PlainAnswer(line, d)
    BY <2>1, VerdictIsTheHandlers DEF ATRsp_IMSI_Handler
  <2>3. \A line, d : Ordinary(Verdict(Script["RIL_SIM_GetIMSI"].cmds[1], line, d), "", line, d, s_channel_qmic)
    BY <2>2 DEF Ordinary
  <2>4. "RIL_SIM_GetIMSI" \notin Late \cup {"RIL_SIM_GetSimState"} /\ "" \notin Faulty \cup {"OK"}
    BY DEF Late, Faulty
  <2>5. KindOf("RIL_SIM_GetIMSI") = ""
    BY KindsOfAnswers
  <2> QED
    BY <2>3, <2>4, <2>5, OrdinaryReads, Zenon
<1>5. Reads("RIL_SIM_GetCCID", KindOf("RIL_SIM_GetCCID"))
  <2>0. HasOne("RIL_SIM_GetCCID", "AT+CCID", "ATRsp_CCID_Handler", "data", "direct")
    BY QueryRows
  <2>1. Script["RIL_SIM_GetCCID"].cmds[1].hdl = "ATRsp_CCID_Handler"
    BY <2>0 DEF HasOne
  <2>2. \A line, d : Verdict(Script["RIL_SIM_GetCCID"].cmds[1], line, d) = Stores("+CCID:", line, d)
    BY <2>1, VerdictIsTheHandlers DEF ATRsp_CCID_Handler
  <2>3. \A line, d : Ordinary(Verdict(Script["RIL_SIM_GetCCID"].cmds[1], line, d), "+CCID:", line, d, s_channel_qmic)
    BY <2>2 DEF Ordinary
  <2>4. "RIL_SIM_GetCCID" \notin Late \cup {"RIL_SIM_GetSimState"} /\ "+CCID:" \notin Faulty \cup {"OK"}
    BY DEF Late, Faulty
  <2>5. KindOf("RIL_SIM_GetCCID") = "+CCID:"
    BY KindsOfAnswers
  <2> QED
    BY <2>3, <2>4, <2>5, OrdinaryReads, Zenon
<1>6. Reads("RIL_QuerySysInitStatus", KindOf("RIL_QuerySysInitStatus"))
  <2>0. HasOne("RIL_QuerySysInitStatus", "AT+QINISTAT", "SYS_ATResponse_Hanlder", "data", "direct")
    BY QueryRows
  <2>1. Script["RIL_QuerySysInitStatus"].cmds[1].hdl = "SYS_ATResponse_Hanlder"
    BY <2>0 DEF HasOne
  <2>2. \A line, d : Verdict(Script["RIL_QuerySysInitStatus"].cmds[1], line, d) = Stores("+QINISTAT:", line, d)
    BY <2>1, VerdictIsTheHandlers DEF SYS_ATResponse_Hanlder
  <2>3. \A line, d : Ordinary(Verdict(Script["RIL_QuerySysInitStatus"].cmds[1], line, d), "+QINISTAT:", line, d, s_channel_qmic)
    BY <2>2 DEF Ordinary
  <2>4. "RIL_QuerySysInitStatus" \notin Late \cup {"RIL_SIM_GetSimState"} /\ "+QINISTAT:" \notin Faulty \cup {"OK"}
    BY DEF Late, Faulty
  <2>5. KindOf("RIL_QuerySysInitStatus") = "+QINISTAT:"
    BY KindsOfAnswers
  <2> QED
    BY <2>3, <2>4, <2>5, OrdinaryReads, Zenon
<1>7. Reads("RIL_GetPowerSupply", KindOf("RIL_GetPowerSupply"))
  <2>0. HasOne("RIL_GetPowerSupply", "AT+CBC", "Power_ATResponse_Hanlder", "data", "copied")
    BY QueryRows
  <2>1. Script["RIL_GetPowerSupply"].cmds[1].hdl = "Power_ATResponse_Hanlder"
    BY <2>0 DEF HasOne
  <2>2. \A line, d : Verdict(Script["RIL_GetPowerSupply"].cmds[1], line, d) = Stores("+CBC:", line, d)
    BY <2>1, VerdictIsTheHandlers DEF Power_ATResponse_Hanlder
  <2>3. \A line, d : Ordinary(Verdict(Script["RIL_GetPowerSupply"].cmds[1], line, d), "+CBC:", line, d, s_channel_qmic)
    BY <2>2 DEF Ordinary
  <2>4. "RIL_GetPowerSupply" \notin Late \cup {"RIL_SIM_GetSimState"} /\ "+CBC:" \notin Faulty \cup {"OK"}
    BY DEF Late, Faulty
  <2>5. KindOf("RIL_GetPowerSupply") = "+CBC:"
    BY KindsOfAnswers
  <2> QED
    BY <2>3, <2>4, <2>5, OrdinaryReads, Zenon
<1>8. Reads("RIL_GetIMEI", KindOf("RIL_GetIMEI"))
  <2>0. HasOne("RIL_GetIMEI", "AT+GSN", "ATRsp_IMEI_Handler", "data", "direct")
    BY QueryRows
  <2>1. Script["RIL_GetIMEI"].cmds[1].hdl = "ATRsp_IMEI_Handler"
    BY <2>0 DEF HasOne
  <2>2. \A line, d : Verdict(Script["RIL_GetIMEI"].cmds[1], line, d) = PlainAnswer(line, d)
    BY <2>1, VerdictIsTheHandlers DEF ATRsp_IMEI_Handler
  <2>3. \A line, d : Ordinary(Verdict(Script["RIL_GetIMEI"].cmds[1], line, d), "", line, d, s_channel_qmic)
    BY <2>2 DEF Ordinary
  <2>4. "RIL_GetIMEI" \notin Late \cup {"RIL_SIM_GetSimState"} /\ "" \notin Faulty \cup {"OK"}
    BY DEF Late, Faulty
  <2>5. KindOf("RIL_GetIMEI") = ""
    BY KindsOfAnswers
  <2> QED
    BY <2>3, <2>4, <2>5, OrdinaryReads, Zenon
<1>9. Reads("RIL_AUD_GetChannel", KindOf("RIL_AUD_GetChannel"))
  <2>0. HasOne("RIL_AUD_GetChannel", "AT+QAUDCH?", "ATResponse_AUD_handler", "data", "direct")
    BY QueryRows
  <2>1. Script["RIL_AUD_GetChannel"].cmds[1].hdl = "ATResponse_AUD_handler"
    BY <2>0 DEF HasOne
  <2>2. \A line, d : Verdict(Script["RIL_AUD_GetChannel"].cmds[1], line, d) = ATResponse_AUD_handler(line, d, s_channel_qmic)
    BY <2>1, VerdictIsTheHandlers
  <2>3. \A line, d : Ordinary(Verdict(Script["RIL_AUD_GetChannel"].cmds[1], line, d), "+QAUDCH:", line, d, s_channel_qmic)
    BY <2>2 DEF Ordinary, Levels
  <2>4. "RIL_AUD_GetChannel" \notin Late \cup {"RIL_SIM_GetSimState"} /\ "+QAUDCH:" \notin Faulty \cup {"OK"}
    BY DEF Late, Faulty
  <2>5. KindOf("RIL_AUD_GetChannel") = "+QAUDCH:"
    BY KindsOfAnswers
  <2> QED
    BY <2>3, <2>4, <2>5, OrdinaryReads, Zenon
<1>10. Reads("RIL_AUD_GetVolume_Speaker", KindOf("RIL_AUD_GetVolume_Speaker"))
  <2>0. HasOne("RIL_AUD_GetVolume_Speaker", "AT+CLVL?", "ATResponse_AUD_handler", "data", "direct")
    BY QueryRows
  <2>1. Script["RIL_AUD_GetVolume_Speaker"].cmds[1].hdl = "ATResponse_AUD_handler"
    BY <2>0 DEF HasOne
  <2>2. \A line, d : Verdict(Script["RIL_AUD_GetVolume_Speaker"].cmds[1], line, d) = ATResponse_AUD_handler(line, d, s_channel_qmic)
    BY <2>1, VerdictIsTheHandlers
  <2>3. \A line, d : Ordinary(Verdict(Script["RIL_AUD_GetVolume_Speaker"].cmds[1], line, d), "+CLVL:", line, d, s_channel_qmic)
    BY <2>2 DEF Ordinary, Levels
  <2>4. "RIL_AUD_GetVolume_Speaker" \notin Late \cup {"RIL_SIM_GetSimState"} /\ "+CLVL:" \notin Faulty \cup {"OK"}
    BY DEF Late, Faulty
  <2>5. KindOf("RIL_AUD_GetVolume_Speaker") = "+CLVL:"
    BY KindsOfAnswers
  <2> QED
    BY <2>3, <2>4, <2>5, OrdinaryReads, Zenon
<1>11. Reads("RIL_AUD_GetVolume_Media", KindOf("RIL_AUD_GetVolume_Media"))
  <2>0. HasOne("RIL_AUD_GetVolume_Media", "AT+QMEDVL?", "ATResponse_AUD_handler", "data", "direct")
    BY QueryRows
  <2>1. Script["RIL_AUD_GetVolume_Media"].cmds[1].hdl = "ATResponse_AUD_handler"
    BY <2>0 DEF HasOne
  <2>2. \A line, d : Verdict(Script["RIL_AUD_GetVolume_Media"].cmds[1], line, d) = ATResponse_AUD_handler(line, d, s_channel_qmic)
    BY <2>1, VerdictIsTheHandlers
  <2>3. \A line, d : Ordinary(Verdict(Script["RIL_AUD_GetVolume_Media"].cmds[1], line, d), "+QMEDVL:", line, d, s_channel_qmic)
    BY <2>2 DEF Ordinary, Levels
  <2>4. "RIL_AUD_GetVolume_Media" \notin Late \cup {"RIL_SIM_GetSimState"} /\ "+QMEDVL:" \notin Faulty \cup {"OK"}
    BY DEF Late, Faulty
  <2>5. KindOf("RIL_AUD_GetVolume_Media") = "+QMEDVL:"
    BY KindsOfAnswers
  <2> QED
    BY <2>3, <2>4, <2>5, OrdinaryReads, Zenon
<1>12. Reads("RIL_AUD_GetRecordState", KindOf("RIL_AUD_GetRecordState"))
  <2>0. HasOne("RIL_AUD_GetRecordState", "AT+QAUDRD?", "ATResponse_AUD_handler", "data", "copied")
    BY QueryRows
  <2>1. Script["RIL_AUD_GetRecordState"].cmds[1].hdl = "ATResponse_AUD_handler"
    BY <2>0 DEF HasOne
  <2>2. \A line, d : Verdict(Script["RIL_AUD_GetRecordState"].cmds[1], line, d) = ATResponse_AUD_handler(line, d, s_channel_qmic)
    BY <2>1, VerdictIsTheHandlers
  <2>3. \A line, d : Ordinary(Verdict(Script["RIL_AUD_GetRecordState"].cmds[1], line, d), "+QAUDRD:", line, d, s_channel_qmic)
    BY <2>2 DEF Ordinary, Levels
  <2>4. "RIL_AUD_GetRecordState" \notin Late \cup {"RIL_SIM_GetSimState"} /\ "+QAUDRD:" \notin Faulty \cup {"OK"}
    BY DEF Late, Faulty
  <2>5. KindOf("RIL_AUD_GetRecordState") = "+QAUDRD:"
    BY KindsOfAnswers
  <2> QED
    BY <2>3, <2>4, <2>5, OrdinaryReads, Zenon
<1>13. Reads("RIL_GPS_GetPowerState", KindOf("RIL_GPS_GetPowerState"))
  <2>0. HasOne("RIL_GPS_GetPowerState", "AT+QGNSSC?", "ATResponse_QGNSSC_Handler", "data", "copied")
    BY QueryRows
  <2>1. Script["RIL_GPS_GetPowerState"].cmds[1].hdl = "ATResponse_QGNSSC_Handler"
    BY <2>0 DEF HasOne
  <2>2. \A line, d : Verdict(Script["RIL_GPS_GetPowerState"].cmds[1], line, d) = Stores("+QGNSSC:", line, d)
    BY <2>1, VerdictIsTheHandlers DEF ATResponse_QGNSSC_Handler
  <2>3. \A line, d : Ordinary(Verdict(Script["RIL_GPS_GetPowerState"].cmds[1], line, d), "+QGNSSC:", line, d, s_channel_qmic)
    BY <2>2 DEF Ordinary
  <2>4. "RIL_GPS_GetPowerState" \notin Late \cup {"RIL_SIM_GetSimState"} /\ "+QGNSSC:" \notin Faulty \cup {"OK"}
    BY DEF Late, Faulty
  <2>5. KindOf("RIL_GPS_GetPowerState") = "+QGNSSC:"
    BY KindsOfAnswers
  <2> QED
    BY <2>3, <2>4, <2>5, OrdinaryReads, Zenon
<1>14. Reads("RIL_GPS_Read_TimeSync_Status", KindOf("RIL_GPS_Read_TimeSync_Status"))
  <2>0. HasOne("RIL_GPS_Read_TimeSync_Status", "AT+QGNSSTS?", "ATResponse_GPSReadTS_Hdlr", "data", "copied")
    BY QueryRows
  <2>1. Script["RIL_GPS_Read_TimeSync_Status"].cmds[1].hdl = "ATResponse_GPSReadTS_Hdlr"
    BY <2>0 DEF HasOne
  <2>2. \A line, d : Verdict(Script["RIL_GPS_Read_TimeSync_Status"].cmds[1], line, d) = Stores("+QGNSSTS:", line, d)
    BY <2>1, VerdictIsTheHandlers DEF ATResponse_GPSReadTS_Hdlr
  <2>3. \A line, d : Ordinary(Verdict(Script["RIL_GPS_Read_TimeSync_Status"].cmds[1], line, d), "+QGNSSTS:", line, d, s_channel_qmic)
    BY <2>2 DEF Ordinary
  <2>4. "RIL_GPS_Read_TimeSync_Status" \notin Late \cup {"RIL_SIM_GetSimState"} /\ "+QGNSSTS:" \notin Faulty \cup {"OK"}
    BY DEF Late, Faulty
  <2>5. KindOf("RIL_GPS_Read_TimeSync_Status") = "+QGNSSTS:"
    BY KindsOfAnswers
  <2> QED
    BY <2>3, <2>4, <2>5, OrdinaryReads, Zenon
<1>15. Reads("RIL_QLBS_Loc_Ex", KindOf("RIL_QLBS_Loc_Ex"))
  <2>0. HasOne("RIL_QLBS_Loc_Ex", "AT+QLBS", "ATResponse_Qlbs_Ex_Handler", "data", "cleared")
    BY QueryRows
  <2>1. Script["RIL_QLBS_Loc_Ex"].cmds[1].hdl = "ATResponse_Qlbs_Ex_Handler"
    BY <2>0 DEF HasOne
  <2>2. \A line, d : Verdict(Script["RIL_QLBS_Loc_Ex"].cmds[1], line, d) = Stores("+QLBS:", line, d)
    BY <2>1, VerdictIsTheHandlers DEF ATResponse_Qlbs_Ex_Handler
  <2>3. \A line, d : Ordinary(Verdict(Script["RIL_QLBS_Loc_Ex"].cmds[1], line, d), "+QLBS:", line, d, s_channel_qmic)
    BY <2>2 DEF Ordinary
  <2>4. "RIL_QLBS_Loc_Ex" \notin Late \cup {"RIL_SIM_GetSimState"} /\ "+QLBS:" \notin Faulty \cup {"OK"}
    BY DEF Late, Faulty
  <2>5. KindOf("RIL_QLBS_Loc_Ex") = "+QLBS:"
    BY KindsOfAnswers
  <2> QED
    BY <2>3, <2>4, <2>5, OrdinaryReads, Zenon
<1>16. Reads("RIL_BT_GetPwrState", KindOf("RIL_BT_GetPwrState"))
  <2>0. HasOne("RIL_BT_GetPwrState", "AT+QBTPWR?", "ATRsp_QBTPWR_Hdlr", "data", "direct")
    BY QueryRows
  <2>1. Script["RIL_BT_GetPwrState"].cmds[1].hdl = "ATRsp_QBTPWR_Hdlr"
    BY <2>0 DEF HasOne
  <2>2. \A line, d : Verdict(Script["RIL_BT_GetPwrState"].cmds[1], line, d) = StoresOnly("+QBTPWR:", line, d)
    BY <2>1, VerdictIsTheHandlers DEF ATRsp_QBTPWR_Hdlr
  <2>3. \A line, d : Ordinary(Verdict(Script["RIL_BT_GetPwrState"].cmds[1], line, d), "+QBTPWR:", line, d, s_channel_qmic)
    BY <2>2 DEF Ordinary
  <2>4. "RIL_BT_GetPwrState" \notin Late \cup {"RIL_SIM_GetSimState"} /\ "+QBTPWR:" \notin Faulty \cup {"OK"}
    BY DEF Late, Faulty
  <2>5. KindOf("RIL_BT_GetPwrState") = "+QBTPWR:"
    BY KindsOfAnswers
  <2> QED
    BY <2>3, <2>4, <2>5, OrdinaryReads, Zenon
<1>17. Reads("RIL_BT_GetName", KindOf("RIL_BT_GetName"))
  <2>0. HasOne("RIL_BT_GetName", "AT+QBTNAME?", "ATRsp_QBTNAME_Hdlr", "data", "cleared")
    BY QueryRows
  <2>1. Script["RIL_BT_GetName"].cmds[1].hdl = "ATRsp_QBTNAME_Hdlr"
    BY <2>0 DEF HasOne
  <2>2. \A line, d : Verdict(Script["RIL_BT_GetName"].cmds[1], line, d) = StoresOnly("+QBTNAME:", line, d)
    BY <2>1, VerdictIsTheHandlers DEF ATRsp_QBTNAME_Hdlr
  <2>3. \A line, d : Ordinary(Verdict(Script["RIL_BT_GetName"].cmds[1], line, d), "+QBTNAME:", line, d, s_channel_qmic)
    BY <2>2 DEF Ordinary
  <2>4. "RIL_BT_GetName" \notin Late \cup {"RIL_SIM_GetSimState"} /\ "+QBTNAME:" \notin Faulty \cup {"OK"}
    BY DEF Late, Faulty
  <2>5. KindOf("RIL_BT_GetName") = "+QBTNAME:"
    BY KindsOfAnswers
  <2> QED
    BY <2>3, <2>4, <2>5, OrdinaryReads, Zenon
<1>18. Reads("RIL_BT_GetLocalAddr", KindOf("RIL_BT_GetLocalAddr"))
  <2>0. HasOne("RIL_BT_GetLocalAddr", "AT+QBTADDR?", "ATRsp_QBTADDR_Hdlr", "data", "cleared")
    BY QueryRows
  <2>1. Script["RIL_BT_GetLocalAddr"].cmds[1].hdl = "ATRsp_QBTADDR_Hdlr"
    BY <2>0 DEF HasOne
  <2>2. \A line, d : Verdict(Script["RIL_BT_GetLocalAddr"].cmds[1], line, d) = StoresOnly("+QBTADDR:", line, d)
    BY <2>1, VerdictIsTheHandlers DEF ATRsp_QBTADDR_Hdlr
  <2>3. \A line, d : Ordinary(Verdict(Script["RIL_BT_GetLocalAddr"].cmds[1], line, d), "+QBTADDR:", line, d, s_channel_qmic)
    BY <2>2 DEF Ordinary
  <2>4. "RIL_BT_GetLocalAddr" \notin Late \cup {"RIL_SIM_GetSimState"} /\ "+QBTADDR:" \notin Faulty \cup {"OK"}
    BY DEF Late, Faulty
  <2>5. KindOf("RIL_BT_GetLocalAddr") = "+QBTADDR:"
    BY KindsOfAnswers
  <2> QED
    BY <2>3, <2>4, <2>5, OrdinaryReads, Zenon
<1>19. Reads("RIL_BT_GetVisble", KindOf("RIL_BT_GetVisble"))
  <2>0. HasOne("RIL_BT_GetVisble", "AT+QBTVISB?", "ATRsp_QBTVISB_Hdlr", "data", "direct")
    BY QueryRows
  <2>1. Script["RIL_BT_GetVisble"].cmds[1].hdl = "ATRsp_QBTVISB_Hdlr"
    BY <2>0 DEF HasOne
  <2>2. \A line, d : Verdict(Script["RIL_BT_GetVisble"].cmds[1], line, d) = StoresOnly("+QBTVISB:", line, d)
    BY <2>1, VerdictIsTheHandlers DEF ATRsp_QBTVISB_Hdlr
  <2>3. \A line, d : Ordinary(Verdict(Script["RIL_BT_GetVisble"].cmds[1], line, d), "+QBTVISB:", line, d, s_channel_qmic)
    BY <2>2 DEF Ordinary
  <2>4. "RIL_BT_GetVisble" \notin Late \cup {"RIL_SIM_GetSimState"} /\ "+QBTVISB:" \notin Faulty \cup {"OK"}
    BY DEF Late, Faulty
  <2>5. KindOf("RIL_BT_GetVisble") = "+QBTVISB:"
    BY KindsOfAnswers
  <2> QED
    BY <2>3, <2>4, <2>5, OrdinaryReads, Zenon
<1>20. Reads("RIL_BT_GetSupportedProfile", KindOf("RIL_BT_GetSupportedProfile"))
  <2>0. HasOne("RIL_BT_GetSupportedProfile", "AT+QBTGPROF", "ATRsp_QBTGPROF_Hdlr", "data", "cleared")
    BY QueryRows
  <2>1. Script["RIL_BT_GetSupportedProfile"].cmds[1].hdl = "ATRsp_QBTGPROF_Hdlr"
    BY <2>0 DEF HasOne
  <2>2. \A line, d : Verdict(Script["RIL_BT_GetSupportedProfile"].cmds[1], line, d) = Stores("+QBTGPROF:", line, d)
    BY <2>1, VerdictIsTheHandlers DEF ATRsp_QBTGPROF_Hdlr
  <2>3. \A line, d : Ordinary(Verdict(Script["RIL_BT_GetSupportedProfile"].cmds[1], line, d), "+QBTGPROF:", line, d, s_channel_qmic)
    BY <2>2 DEF Ordinary
  <2>4. "RIL_BT_GetSupportedProfile" \notin Late \cup {"RIL_SIM_GetSimState"} /\ "+QBTGPROF:" \notin Faulty \cup {"OK"}
    BY DEF Late, Faulty
  <2>5. KindOf("RIL_BT_GetSupportedProfile") = "+QBTGPROF:"
    BY KindsOfAnswers
  <2> QED
    BY <2>3, <2>4, <2>5, OrdinaryReads, Zenon
<1>21. Reads("RIL_NW_GetOperator", KindOf("RIL_NW_GetOperator"))
  <2>0. HasOne("RIL_NW_GetOperator", "AT+COPS?", "ATRsp_COPS_Handler", "data", "direct")
    BY QueryRows
  <2>1. Script["RIL_NW_GetOperator"].cmds[1].hdl = "ATRsp_COPS_Handler"
    BY <2>0 DEF HasOne
  <2>2. \A line, d : Verdict(Script["RIL_NW_GetOperator"].cmds[1], line, d) = ATRsp_COPS_Handler(line, d)
    BY <2>1, VerdictIsTheHandlers
  <2>3. KindOf("RIL_NW_GetOperator") = "+COPS:"
    BY KindsOfAnswers
  <2> SUFFICES ASSUME NEW line, NEW d, NEW v, v = ATRsp_COPS_Handler(line, d)
               PROVE  /\ line.kind = "+COPS:" /\ Said("RIL_NW_GetOperator", line.val) =>
                           v.verdict \in {"continue", "success"} /\ Understood("RIL_NW_GetOperator", line.val, v.data)
                      /\ line.kind = "OK" =>
                           IF "RIL_NW_GetOperator" \in Late THEN v.verdict = "continue" ELSE v.verdict = "success" /\ v.data = d
                      /\ line.kind \in Faulty => v.verdict # "success"
    BY <2>2, <2>3 DEF Reads
  <2> QED
    BY DEF Late, Said, Understood, MeaningOf, Faulty, ATRsp_COPS_Handler, Final, EndsWith, Continue,
       Success, Failed, Wild
<1>22. Reads("RIL_SIM_GetSimState", KindOf("RIL_SIM_GetSimState"))
  <2>0. HasOne("RIL_SIM_GetSimState", "AT+CPIN?", "ATResponse_CPIN_Handler", "data", "copied")
    BY QueryRows
  <2>1. Script["RIL_SIM_GetSimState"].cmds[1].hdl = "ATResponse_CPIN_Handler"
    BY <2>0 DEF HasOne
  <2>2. \A line, d : Verdict(Script["RIL_SIM_GetSimState"].cmds[1], line, d) = ATResponse_CPIN_Handler(line, d)
    BY <2>1, VerdictIsTheHandlers
  <2>3. KindOf("RIL_SIM_GetSimState") = "+CPIN:"
    BY KindsOfAnswers
  <2> SUFFICES ASSUME NEW line, NEW d, NEW v, v = ATResponse_CPIN_Handler(line, d)
               PROVE  /\ line.kind = "+CPIN:" /\ Said("RIL_SIM_GetSimState", line.val) =>
                           v.verdict \in {"continue", "success"} /\ Understood("RIL_SIM_GetSimState", line.val, v.data)
                      /\ line.kind = "OK" =>
                           IF "RIL_SIM_GetSimState" \in Late THEN v.verdict = "continue" ELSE v.verdict = "success" /\ v.data = d
                      /\ line.kind \in Faulty => v.verdict # "success"
    BY <2>2, <2>3 DEF Reads
  <2> QED
    BY DEF Late, Said, Understood, MeaningOf, Faulty, ATResponse_CPIN_Handler, Final, EndsWith,
       Continue, Success, Failed, Wild, RIL_SIM_GetSimStateByName
<1>23. Reads("Ql_SecureData_Read", KindOf("Ql_SecureData_Read"))
  <2>0. HasOne("Ql_SecureData_Read", "AT+QUSERDAT=3", "SecureData_Read_Callback", "data", "checked")
    BY QueryRows
  <2>1. Script["Ql_SecureData_Read"].cmds[1].hdl = "SecureData_Read_Callback"
    BY <2>0 DEF HasOne
  <2>2. \A line, d : Verdict(Script["Ql_SecureData_Read"].cmds[1], line, d) = SecureData_Read_Callback(line, d)
    BY <2>1, VerdictIsTheHandlers
  <2>3. PICK k : k = "+QUSERDAT: 3,"
    OBVIOUS
  <2>4. KindOf("Ql_SecureData_Read") = k
    BY <2>3, KindsOfAnswers
  <2> SUFFICES ASSUME NEW line, NEW d, NEW v, v = SecureData_Read_Callback(line, d)
               PROVE  /\ line.kind = k /\ Said("Ql_SecureData_Read", line.val) =>
                           v.verdict \in {"continue", "success"} /\ Understood("Ql_SecureData_Read", line.val, v.data)
                      /\ line.kind = "OK" =>
                           IF "Ql_SecureData_Read" \in Late THEN v.verdict = "continue" ELSE v.verdict = "success" /\ v.data = d
                      /\ line.kind \in Faulty => v.verdict # "success"
    BY <2>2, <2>4 DEF Reads
  <2> QED
    BY <2>3 DEF Late, Said, Understood, MeaningOf, Faulty, SecureData_Read_Callback, Final, EndsWith,
       Continue, Success, Failed, Wild
<1>24. Reads("RIL_Alarm_Query", KindOf("RIL_Alarm_Query"))
  <2>0. HasOne("RIL_Alarm_Query", "AT+QALARM?", "ATResponse_QALARM_Handler", "data", "direct")
    BY QueryRows
  <2>1. Script["RIL_Alarm_Query"].cmds[1].hdl = "ATResponse_QALARM_Handler"
    BY <2>0 DEF HasOne
  <2>2. \A line, d : Verdict(Script["RIL_Alarm_Query"].cmds[1], line, d) = ATResponse_QALARM_Handler(line, d)
    BY <2>1, VerdictIsTheHandlers
  <2>3. KindOf("RIL_Alarm_Query") = "+QALARM:"
    BY KindsOfAnswers
  <2> SUFFICES ASSUME NEW line, NEW d, NEW v, v = ATResponse_QALARM_Handler(line, d)
               PROVE  /\ line.kind = "+QALARM:" /\ Said("RIL_Alarm_Query", line.val) =>
                           v.verdict \in {"continue", "success"} /\ Understood("RIL_Alarm_Query", line.val, v.data)
                      /\ line.kind = "OK" =>
                           IF "RIL_Alarm_Query" \in Late THEN v.verdict = "continue" ELSE v.verdict = "success" /\ v.data = d
                      /\ line.kind \in Faulty => v.verdict # "success"
    BY <2>2, <2>3 DEF Reads
  <2> QED
    BY DEF Late, Said, Understood, MeaningOf, Faulty, ATResponse_QALARM_Handler, Final, EndsWith,
       Continue, Success, Failed, Wild
<1>25. Reads("RIL_NW_GetIPStatus", KindOf("RIL_NW_GetIPStatus"))
  <2>0. HasOne("RIL_NW_GetIPStatus", "AT+QISTAT", "ATResponse_IPStatus_Handler", "data", "copied")
    BY QueryRows
  <2>1. Script["RIL_NW_GetIPStatus"].cmds[1].hdl = "ATResponse_IPStatus_Handler"
    BY <2>0 DEF HasOne
  <2>2. \A line, d : Verdict(Script["RIL_NW_GetIPStatus"].cmds[1], line, d) = ATResponse_IPStatus_Handler(line, d)
    BY <2>1, VerdictIsTheHandlers
  <2>3. KindOf("RIL_NW_GetIPStatus") = "STATE:"
    BY KindsOfAnswers
  <2> SUFFICES ASSUME NEW line, NEW d, NEW v, v = ATResponse_IPStatus_Handler(line, d)
               PROVE  /\ line.kind = "STATE:" /\ Said("RIL_NW_GetIPStatus", line.val) =>
                           v.verdict \in {"continue", "success"} /\ Understood("RIL_NW_GetIPStatus", line.val, v.data)
                      /\ line.kind = "OK" =>
                           IF "RIL_NW_GetIPStatus" \in Late THEN v.verdict = "continue" ELSE v.verdict = "success" /\ v.data = d
                      /\ line.kind \in Faulty => v.verdict # "success"
    BY <2>2, <2>3 DEF Reads
  <2> QED
    BY DEF Late, Said, Understood, MeaningOf, Faulty, ATResponse_IPStatus_Handler, Final, EndsWith,
       Continue, Success, Failed, Wild, RIL_NW_GetIpStatusByName
<1>26. Reads("RIL_FTP_QFTPSIZE", KindOf("RIL_FTP_QFTPSIZE"))
  <2>0. HasOne("RIL_FTP_QFTPSIZE", "+QFTPSIZE:", "ATResponse_FTP_handler_Common", "data", "checked")
    BY QueryRows
  <2>1. Script["RIL_FTP_QFTPSIZE"].cmds[1].hdl = "ATResponse_FTP_handler_Common" /\ Script["RIL_FTP_QFTPSIZE"].cmds[1].at = "+QFTPSIZE:"
    BY <2>0 DEF HasOne
  <2>2. \A line, d : Verdict(Script["RIL_FTP_QFTPSIZE"].cmds[1], line, d) = ATResponse_FTP_handler_Common("+QFTPSIZE:", line, d)
    BY <2>1, VerdictIsTheHandlers
  <2>3. KindOf("RIL_FTP_QFTPSIZE") = "+QFTPSIZE:"
    BY KindsOfAnswers
  <2> SUFFICES ASSUME NEW line, NEW d, NEW v, v = ATResponse_FTP_handler_Common("+QFTPSIZE:", line, d)
               PROVE  /\ line.kind = "+QFTPSIZE:" /\ Said("RIL_FTP_QFTPSIZE", line.val) =>
                           v.verdict \in {"continue", "success"} /\ Understood("RIL_FTP_QFTPSIZE", line.val, v.data)
                      /\ line.kind = "OK" =>
                           IF "RIL_FTP_QFTPSIZE" \in Late THEN v.verdict = "continue" ELSE v.verdict = "success" /\ v.data = d
                      /\ line.kind \in Faulty => v.verdict # "success"
    BY <2>2, <2>3 DEF Reads
  <2> QED
    BY DEF Late, Said, Understood, MeaningOf, Faulty, ATResponse_FTP_handler_Common, Final, EndsWith,
       Continue, Success, Failed, Wild, FinalCms
<1> QED
  BY <1>1, <1>2, <1>3, <1>4, <1>5, <1>6, <1>7, <1>8, <1>9, <1>10, <1>11, <1>12, <1>13, <1>14, <1>15,
     <1>16, <1>17, <1>18, <1>19, <1>20, <1>21, <1>22, <1>23, <1>24, <1>25, <1>26 DEF Asking

GpsRead == "RIL_GPS_Read"
Profile == "RIL_BT_GetSupportedProfile"

Txt == Line("$GPTXT", "x")
Rmc == Line("$GNRMC", "rmc")

Answer(f, lines) ==
  LET k == KindOf(f)
  IN \/ f # GpsRead /\ f \notin Late /\ \E v : Said(f, v) /\ lines = <<Line(k, v), OkLine>>
     \/ f \in Late /\ \E v : Said(f, v) /\ lines = <<OkLine, Line(k, v)>>
     \/ f = Profile /\ lines = <<Line(k, "7"), Line(k, "8"), OkLine>>
     \/ f = GpsRead /\ \E v : lines = <<Line("+QGNSSRD:", v), Txt, Rmc, OkLine>>

(* The answer to a command that is asked with a prefix.                    *)
LEMMA QueriedDone ==
  ASSUME NEW cmd \in Queried
  PROVE  Done(cmd) = BeforeOk(Prefix(cmd), Reported(cmd))
<1>1. /\ cmd \notin FtpResults
      /\ cmd \notin {"+QFTPSIZE:", "AT+QISTAT", "AT+QIDEACT", "ATD", "ATA", "AT+QGNSSRD", "AT+QBTGPROF", "AT+QSPPSEND",
                     "AT+QSPPREAD"}
  BY DEF Queried, FtpResults
<1> HIDE DEF Queried, FtpResults
<1> QED
  BY <1>1 DEF Done

(* The queries that are answered so.                                       *)
LEMMA QueryCommands ==
  /\ Script["RIL_NW_GetGSMState"].cmds[1].at \in Queried
  /\ Script["RIL_NW_GetGPRSState"].cmds[1].at \in Queried
  /\ Script["RIL_NW_GetSignalQuality"].cmds[1].at \in Queried
  /\ Script["RIL_NW_GetOperator"].cmds[1].at \in Queried
  /\ Script["RIL_SIM_GetSimState"].cmds[1].at \in Queried
  /\ Script["RIL_SIM_GetIMSI"].cmds[1].at \in Queried
  /\ Script["RIL_SIM_GetCCID"].cmds[1].at \in Queried
  /\ Script["RIL_QuerySysInitStatus"].cmds[1].at \in Queried
  /\ Script["RIL_GetPowerSupply"].cmds[1].at \in Queried
  /\ Script["RIL_GetIMEI"].cmds[1].at \in Queried
  /\ Script["Ql_SecureData_Read"].cmds[1].at \in Queried
  /\ Script["RIL_Alarm_Query"].cmds[1].at \in Queried
  /\ Script["RIL_AUD_GetChannel"].cmds[1].at \in Queried
  /\ Script["RIL_AUD_GetVolume_Speaker"].cmds[1].at \in Queried
  /\ Script["RIL_AUD_GetVolume_Media"].cmds[1].at \in Queried
  /\ Script["RIL_AUD_GetRecordState"].cmds[1].at \in Queried
  /\ Script["RIL_GPS_GetPowerState"].cmds[1].at \in Queried
  /\ Script["RIL_GPS_Read_TimeSync_Status"].cmds[1].at \in Queried
  /\ Script["RIL_QLBS_Loc_Ex"].cmds[1].at \in Queried
  /\ Script["RIL_BT_GetPwrState"].cmds[1].at \in Queried
  /\ Script["RIL_BT_GetName"].cmds[1].at \in Queried
  /\ Script["RIL_BT_GetLocalAddr"].cmds[1].at \in Queried
  /\ Script["RIL_BT_GetVisble"].cmds[1].at \in Queried
<1>1. Script["RIL_NW_GetGSMState"].cmds[1].at \in Queried
  <2>1. HasOne("RIL_NW_GetGSMState", "AT+CREG?", "ATResponse_CREG_Handler", "data", "copied")
    BY QueryRows
  <2> QED
    BY <2>1 DEF HasOne, Queried
<1>2. Script["RIL_NW_GetGPRSState"].cmds[1].at \in Queried
  <2>1. HasOne("RIL_NW_GetGPRSState", "AT+CGREG?", "ATResponse_CGREG_Handler", "data", "copied")
    BY QueryRows
  <2> QED
    BY <2>1 DEF HasOne, Queried
<1>3. Script["RIL_NW_GetSignalQuality"].cmds[1].at \in Queried
  <2>1. HasOne("RIL_NW_GetSignalQuality", "AT+CSQ", "ATResponse_CSQ_Handler", "data", "copied")
    BY QueryRows
  <2> QED
    BY <2>1 DEF HasOne, Queried
<1>4. Script["RIL_NW_GetOperator"].cmds[1].at \in Queried
  <2>1. HasOne("RIL_NW_GetOperator", "AT+COPS?", "ATRsp_COPS_Handler", "data", "direct")
    BY QueryRows
  <2> QED
    BY <2>1 DEF HasOne, Queried
<1>5. Script["RIL_SIM_GetSimState"].cmds[1].at \in Queried
  <2>1. HasOne("RIL_SIM_GetSimState", "AT+CPIN?", "ATResponse_CPIN_Handler", "data", "copied")
    BY QueryRows
  <2> QED
    BY <2>1 DEF HasOne, Queried
<1>6. Script["RIL_SIM_GetIMSI"].cmds[1].at \in Queried
  <2>1. HasOne("RIL_SIM_GetIMSI", "AT+CIMI", "ATRsp_IMSI_Handler", "data", "direct")
    BY QueryRows
  <2> QED
    BY <2>1 DEF HasOne, Queried
<1>7. Script["RIL_SIM_GetCCID"].cmds[1].at \in Queried
  <2>1. HasOne("RIL_SIM_GetCCID", "AT+CCID", "ATRsp_CCID_Handler", "data", "direct")
    BY QueryRows
  <2> QED
    BY <2>1 DEF HasOne, Queried
<1>8. Script["RIL_QuerySysInitStatus"].cmds[1].at \in Queried
  <2>1. HasOne("RIL_QuerySysInitStatus", "AT+QINISTAT", "SYS_ATResponse_Hanlder", "data", "direct")
    BY QueryRows
  <2> QED
    BY <2>1 DEF HasOne, Queried
<1>9. Script["RIL_GetPowerSupply"].cmds[1].at \in Queried
  <2>1. HasOne("RIL_GetPowerSupply", "AT+CBC", "Power_ATResponse_Hanlder", "data", "copied")
    BY QueryRows
  <2> QED
    BY <2>1 DEF HasOne, Queried
<1>10. Script["RIL_GetIMEI"].cmds[1].at \in Queried
  <2>1. HasOne("RIL_GetIMEI", "AT+GSN", "ATRsp_IMEI_Handler", "data", "direct")
    BY QueryRows
  <2> QED
    BY <2>1 DEF HasOne, Queried
<1>11. Script["Ql_SecureData_Read"].cmds[1].at \in Queried
  <2>1. HasOne("Ql_SecureData_Read", "AT+QUSERDAT=3", "SecureData_Read_Callback", "data", "checked")
    BY QueryRows
  <2> QED
    BY <2>1 DEF HasOne, Queried
<1>12. Script["RIL_Alarm_Query"].cmds[1].at \in Queried
  <2>1. HasOne("RIL_Alarm_Query", "AT+QALARM?", "ATResponse_QALARM_Handler", "data", "direct")
    BY QueryRows
  <2> QED
    BY <2>1 DEF HasOne, Queried
<1>13. Script["RIL_AUD_GetChannel"].cmds[1].at \in Queried
  <2>1. HasOne("RIL_AUD_GetChannel", "AT+QAUDCH?", "ATResponse_AUD_handler", "data", "direct")
    BY QueryRows
  <2> QED
    BY <2>1 DEF HasOne, Queried
<1>14. Script["RIL_AUD_GetVolume_Speaker"].cmds[1].at \in Queried
  <2>1. HasOne("RIL_AUD_GetVolume_Speaker", "AT+CLVL?", "ATResponse_AUD_handler", "data", "direct")
    BY QueryRows
  <2> QED
    BY <2>1 DEF HasOne, Queried
<1>15. Script["RIL_AUD_GetVolume_Media"].cmds[1].at \in Queried
  <2>1. HasOne("RIL_AUD_GetVolume_Media", "AT+QMEDVL?", "ATResponse_AUD_handler", "data", "direct")
    BY QueryRows
  <2> QED
    BY <2>1 DEF HasOne, Queried
<1>16. Script["RIL_AUD_GetRecordState"].cmds[1].at \in Queried
  <2>1. HasOne("RIL_AUD_GetRecordState", "AT+QAUDRD?", "ATResponse_AUD_handler", "data", "copied")
    BY QueryRows
  <2> QED
    BY <2>1 DEF HasOne, Queried
<1>17. Script["RIL_GPS_GetPowerState"].cmds[1].at \in Queried
  <2>1. HasOne("RIL_GPS_GetPowerState", "AT+QGNSSC?", "ATResponse_QGNSSC_Handler", "data", "copied")
    BY QueryRows
  <2> QED
    BY <2>1 DEF HasOne, Queried
<1>18. Script["RIL_GPS_Read_TimeSync_Status"].cmds[1].at \in Queried
  <2>1. HasOne("RIL_GPS_Read_TimeSync_Status", "AT+QGNSSTS?", "ATResponse_GPSReadTS_Hdlr", "data", "copied")
    BY QueryRows
  <2> QED
    BY <2>1 DEF HasOne, Queried
<1>19. Script["RIL_QLBS_Loc_Ex"].cmds[1].at \in Queried
  <2>1. HasOne("RIL_QLBS_Loc_Ex", "AT+QLBS", "ATResponse_Qlbs_Ex_Handler", "data", "cleared")
    BY QueryRows
  <2> QED
    BY <2>1 DEF HasOne, Queried
<1>20. Script["RIL_BT_GetPwrState"].cmds[1].at \in Queried
  <2>1. HasOne("RIL_BT_GetPwrState", "AT+QBTPWR?", "ATRsp_QBTPWR_Hdlr", "data", "direct")
    BY QueryRows
  <2> QED
    BY <2>1 DEF HasOne, Queried
<1>21. Script["RIL_BT_GetName"].cmds[1].at \in Queried
  <2>1. HasOne("RIL_BT_GetName", "AT+QBTNAME?", "ATRsp_QBTNAME_Hdlr", "data", "cleared")
    BY QueryRows
  <2> QED
    BY <2>1 DEF HasOne, Queried
<1>22. Script["RIL_BT_GetLocalAddr"].cmds[1].at \in Queried
  <2>1. HasOne("RIL_BT_GetLocalAddr", "AT+QBTADDR?", "ATRsp_QBTADDR_Hdlr", "data", "cleared")
    BY QueryRows
  <2> QED
    BY <2>1 DEF HasOne, Queried
<1>23. Script["RIL_BT_GetVisble"].cmds[1].at \in Queried
  <2>1. HasOne("RIL_BT_GetVisble", "AT+QBTVISB?", "ATRsp_QBTVISB_Hdlr", "data", "direct")
    BY QueryRows
  <2> QED
    BY <2>1 DEF HasOne, Queried
<1> QED
  BY <1>1, <1>2, <1>3, <1>4, <1>5, <1>6, <1>7, <1>8, <1>9, <1>10, <1>11, <1>12, <1>13, <1>14, <1>15,
     <1>16, <1>17, <1>18, <1>19, <1>20, <1>21, <1>22, <1>23

(* The answers the module gives to the queries.                            *)
LEMMA QueriesAreAnswered ==
  ASSUME NEW f \in Asking, NEW lines \in Done(Script[f].cmds[1].at)
  PROVE  Answer(f, lines)
<1>1. CASE f = GpsRead
  <2>1. Script[f].cmds[1].at = "AT+QGNSSRD"
    BY <1>1, QueryRows, SMTT(60) DEF HasOne, GpsRead
  <2>2. Done("AT+QGNSSRD") = GnssReports
    BY DEF Done, FtpResults, Queried
  <2> QED
    BY <1>1, <2>1, <2>2 DEF GnssReports, Answer, Txt, Rmc
<1>2. CASE f = Profile
  <2>1. HasOne("RIL_BT_GetSupportedProfile", "AT+QBTGPROF", "ATRsp_QBTGPROF_Hdlr", "data", "cleared")
    BY QueryRows
  <2>2. Script[f].cmds[1].at = "AT+QBTGPROF"
    BY <1>2, <2>1, SMTT(60) DEF HasOne, Profile
  <2>3. Done("AT+QBTGPROF") = Profiles
    BY DEF Done, FtpResults, Queried
  <2>4. KindOf(f) = "+QBTGPROF:" /\ f # GpsRead /\ f \notin Late /\ \A v : Said(f, v)
    BY <1>2 DEF KindOf, Profile, GpsRead, Late, Said
  <2>5. lines \in BeforeOk("+QBTGPROF:", Values) \/ lines = <<Line("+QBTGPROF:", "7"), Line("+QBTGPROF:", "8"), OkLine>>
    BY <2>2, <2>3 DEF Profiles
  <2> QED
    BY <1>2, <2>4, <2>5 DEF BeforeOk, Answer
<1>3. CASE f = "RIL_NW_GetIPStatus"
  <2>1. HasOne("RIL_NW_GetIPStatus", "AT+QISTAT", "ATResponse_IPStatus_Handler", "data", "copied")
    BY QueryRows
  <2>2. Script[f].cmds[1].at = "AT+QISTAT"
    BY <1>3, <2>1, SMTT(60) DEF HasOne
  <2>3. Done("AT+QISTAT") = AfterOk("STATE:", Reported("AT+QISTAT"))
    BY DEF Done, FtpResults, Queried
  <2>4. Reported("AT+QISTAT") = {"IP GPRSACT", "TCP CONNECTING", "odd"}
    BY DEF Reported
  <2>5. KindOf(f) = "STATE:" /\ f \in Late /\ \A v \in {"IP GPRSACT", "TCP CONNECTING", "odd"} : Said(f, v)
    BY <1>3 DEF KindOf, Late, Said
  <2> QED
    BY <2>2, <2>3, <2>4, <2>5 DEF AfterOk, Answer
<1>4. CASE f = "RIL_FTP_QFTPSIZE"
  <2>1. HasOne("RIL_FTP_QFTPSIZE", "+QFTPSIZE:", "ATResponse_FTP_handler_Common", "data", "checked")
    BY QueryRows
  <2>2. Script[f].cmds[1].at = "+QFTPSIZE:"
    BY <1>4, <2>1, SMTT(60) DEF HasOne
  <2>3. Done("+QFTPSIZE:") = AfterOk("+QFTPSIZE:", Values \cup {"bad"})
    BY DEF Done, FtpResults, Queried
  <2>4. KindOf(f) = "+QFTPSIZE:" /\ f \in Late /\ \A v : Said(f, v)
    BY <1>4 DEF KindOf, Late, Said
  <2> QED
    BY <2>2, <2>3, <2>4 DEF AfterOk, Answer
<1>5. CASE f \notin Late \cup {GpsRead, Profile}
  <2>1. Script[f].cmds[1].at \in Queried
    BY <1>5, QueryCommands DEF Asking, Late, GpsRead, Profile
  <2>2. KindOf(f) = Prefix(Script[f].cmds[1].at)
    BY <1>5 DEF KindOf, Late, Profile
  <2>3. \A v \in Reported(Script[f].cmds[1].at) : Said(f, v)
    <3>1. CASE f = "RIL_SIM_GetSimState"
      <4>1. Script[f].cmds[1].at = "AT+CPIN?"
        BY <3>1, QueryRows DEF HasOne
      <4> QED
        BY <3>1, <4>1 DEF Reported, Said
    <3>2. CASE f # "RIL_SIM_GetSimState"
      BY <1>5, <3>2 DEF Said, Late
    <3> QED
      BY <3>1, <3>2
  <2>4. PICK v \in Reported(Script[f].cmds[1].at) : lines = <<Line(KindOf(f), v), OkLine>>
    BY <2>1, <2>2, QueriedDone DEF BeforeOk
  <2> QED
    BY <1>5, <2>3, <2>4 DEF Answer
<1> QED
  BY <1>1, <1>2, <1>3, <1>4, <1>5 DEF Late

(* What a query has been told is what it hands over.                       *)
Finished(f, told, d) == told[Len(told)] \notin {"unquoted", "west"} => d = Meaning(f, told)

EndsIn(told, v) == told = <<v>> \/ \E w : told = <<w, v>>

(* A query that has read its last line can hand it over.                   *)
LEMMA UnderstoodIsFinished ==
  ASSUME NEW f, f # GpsRead, NEW told, NEW v, EndsIn(told, v), NEW d, Understood(f, v, d)
  PROVE  Finished(f, told, d)
<1>1. told[Len(told)] = v
  BY DEF EndsIn
<1>2. Meaning(f, told) = MeaningOf(f, v)
  BY <1>1 DEF Meaning, MeaningOf, GpsRead
<1> QED
  BY <1>1, <1>2 DEF Finished, Understood

Awaits(f, told, d, lines) ==
  LET k == KindOf(f)
  IN \/ lines \in Errors \cup {<<>>}
     \/ told = <<>> /\ (f = GpsRead => d = "") /\ Answer(f, lines)
     \/ f \in Late /\ told = <<>> /\ \E v : Said(f, v) /\ lines = <<Line(k, v)>>
     \/ f = Profile /\ (\E w : told = <<w>>) /\ lines = <<Line(k, "8"), OkLine>>
     \/ f = GpsRead /\ \E v : told = <<v>> /\ d = "" \o v /\ lines \in {<<Txt, Rmc, OkLine>>, <<Rmc, OkLine>>}
     \/ f \notin Late /\ lines = <<OkLine>> /\ Finished(f, told, d)

(* The lines the queries look for carry a value.                           *)
LEMMA KindsAreNoSilentLines == \A f \in Asking \ {GpsRead} : KindOf(f) \notin Silent
BY KindsOfAnswers DEF Asking, Silent, GpsRead

(* What the handler of AT+QGNSSRD makes of each line.                      *)
LEMMA GpsHandler ==
  ASSUME NEW line, NEW d, NEW v, v = Verdict(Script[GpsRead].cmds[1], line, d)
  PROVE  /\ line.kind \in {"+QGNSSRD:", "$GNRMC"} => v.verdict = "continue" /\ v.data = d \o line.val
         /\ line.kind = "$GPTXT" => v.verdict = "continue" /\ v.data = d
         /\ line.kind = "OK" => v.verdict = "success" /\ v.data = d
         /\ line.kind \in Faulty => v.verdict # "success"
<1>1. HasOne(GpsRead, "AT+QGNSSRD", "ATResponse_GPSRead_Hdlr", "data", "copied")
  BY QueryRows DEF GpsRead
<1>2. v = ATResponse_GPSRead_Hdlr(line, d)
  BY <1>1, VerdictIsTheHandlers DEF HasOne
<1>3. CASE line.kind \in {"+QGNSSRD:", "$GNRMC"}
  <2>1. v = Continue(d \o line.val)
    BY <1>2, <1>3 DEF ATResponse_GPSRead_Hdlr, Sentences
  <2> QED
    BY <1>3, <2>1 DEF Continue, Faulty
<1>4. CASE line.kind \in {"$GPTXT", "OK"} \cup Faulty
  <2>1. v = Final(line, d)
    BY <1>2, <1>4 DEF ATResponse_GPSRead_Hdlr, Sentences, Faulty
  <2>2. line.kind = "$GPTXT" => v = Continue(d)
    BY <2>1 DEF Final, EndsWith
  <2>3. line.kind = "OK" => v = Success(d)
    BY <2>1 DEF Final, EndsWith
  <2>4. line.kind \in Faulty => v = Failed(d)
    BY <2>1 DEF Final, EndsWith, Faulty
  <2>5. line.kind \notin {"+QGNSSRD:", "$GNRMC"}
    BY <1>4 DEF Faulty
  <2>6. line.kind = "$GPTXT" => v.verdict = "continue" /\ v.data = d
    BY <2>2 DEF Continue
  <2>7. line.kind = "OK" => v.verdict = "success" /\ v.data = d
    BY <2>3 DEF Success
  <2>8. line.kind \in Faulty => v.verdict # "success"
    BY <2>4 DEF Failed
  <2> QED
    BY <2>5, <2>6, <2>7, <2>8
<1> QED
  BY <1>3, <1>4

(* An error is the whole answer.                                           *)
LEMMA ErrorsAreOneLine == \A lines \in Errors : lines # <<>> /\ Tail(lines) = <<>> /\ Head(lines).kind \in Faulty
<1>1. \A a : <<a>> # <<>> /\ Tail(<<a>>) = <<>>
  OBVIOUS
<1> QED
  BY <1>1, LineKinds DEF Errors

GoesOn(f, told, d, lines) ==
  LET line  == Head(lines)
      v     == Verdict(Script[f].cmds[1], line, d)
      heard == IF line.kind \in Silent THEN told ELSE Append(told, line.val)
  IN /\ v.verdict = "continue" => Awaits(f, heard, v.data, Tail(lines))
     /\ v.verdict = "success" => Finished(f, heard, v.data)

(* No query succeeds after an error.                                       *)
LEMMA ErrorsGoOn ==
  ASSUME NEW f \in Asking, NEW told, NEW d, NEW lines \in Errors
  PROVE  GoesOn(f, told, d, lines)
<1> DEFINE line == Head(lines)
           v    == Verdict(Script[f].cmds[1], line, d)
<1>1. line.kind \in Faulty /\ Tail(lines) = <<>>
  BY ErrorsAreOneLine
<1>2. v.verdict # "success"
  <2>1. CASE f = GpsRead
    BY <1>1, <2>1, GpsHandler
  <2>2. CASE f # GpsRead
    <3>1. Reads(f, KindOf(f))
      BY <2>2, QueriesRead DEF GpsRead
    <3> QED
      BY <1>1, <3>1 DEF Reads
  <2> QED
    BY <2>1, <2>2
<1> QED
  BY <1>1, <1>2 DEF GoesOn, Awaits

(* A line with a value, as any query but RIL_GPS_Read takes it.            *)
LEMMA ValueIsTaken ==
  ASSUME NEW f \in Asking \ {GpsRead}, NEW told, NEW d, NEW lines, NEW w, Said(f, w),
         Head(lines) = Line(KindOf(f), w), told = <<>> \/ \E w0 : told = <<w0>>
  PROVE  LET v == Verdict(Script[f].cmds[1], Head(lines), d)
             heard == IF Head(lines).kind \in Silent THEN told ELSE Append(told, Head(lines).val)
         IN /\ EndsIn(heard, w) /\ Finished(f, heard, v.data)
            /\ told = <<>> => heard = <<w>>
<1> DEFINE v == Verdict(Script[f].cmds[1], Head(lines), d)
           heard == IF Head(lines).kind \in Silent THEN told ELSE Append(told, Head(lines).val)
<1>1. Head(lines).kind = KindOf(f) /\ Head(lines).val = w
  BY DEF Line
<1>2. heard = Append(told, w)
  BY <1>1, KindsAreNoSilentLines
<1>3. EndsIn(heard, w) /\ (told = <<>> => heard = <<w>>)
  BY <1>2, Appends DEF EndsIn
<1>4. Reads(f, KindOf(f))
  BY QueriesRead DEF GpsRead
<1>5. Understood(f, w, v.data)
  BY <1>1, <1>4 DEF Reads
<1> HIDE DEF v, heard
<1>6. Finished(f, heard, v.data)
  BY <1>3, <1>5, UnderstoodIsFinished
<1> QED
  BY <1>3, <1>6 DEF v, heard

(* OK ends a query, or goes before its result.                             *)
LEMMA OkIsTaken ==
  ASSUME NEW f \in Asking \ {GpsRead}, NEW told, NEW d, NEW lines, Head(lines) = OkLine
  PROVE  LET v == Verdict(Script[f].cmds[1], Head(lines), d)
             heard == IF Head(lines).kind \in Silent THEN told ELSE Append(told, Head(lines).val)
         IN /\ heard = told
            /\ IF f \in Late THEN v.verdict = "continue" ELSE v.verdict = "success" /\ v.data = d
<1>1. Head(lines).kind = "OK"
  BY LineKinds
<1>2. Reads(f, KindOf(f))
  BY QueriesRead DEF GpsRead
<1> QED
  BY <1>1, <1>2 DEF Reads, Silent

(* A query other than RIL_GPS_Read goes on to the next line, or ends with its answer. *)
LEMMA OthersGoOn ==
  ASSUME NEW f \in Asking \ {GpsRead}, NEW told, NEW d, NEW lines, lines # <<>>, lines \notin Errors,
         Awaits(f, told, d, lines)
  PROVE  GoesOn(f, told, d, lines)
<1> DEFINE k == KindOf(f)
<1>1. CASE told = <<>> /\ f \notin Late /\ \E w : Said(f, w) /\ lines = <<Line(k, w), OkLine>>
  <2>1. PICK w : Said(f, w) /\ lines = <<Line(k, w), OkLine>>
    BY <1>1
  <2>2. Head(lines) = Line(k, w) /\ Tail(lines) = <<OkLine>>
    BY <2>1, Heads
  <2> QED
    BY <1>1, <2>1, <2>2, ValueIsTaken DEF GoesOn, Awaits
<1>2. CASE told = <<>> /\ f \in Late /\ \E w : Said(f, w) /\ lines = <<OkLine, Line(k, w)>>
  <2>1. PICK w : Said(f, w) /\ lines = <<OkLine, Line(k, w)>>
    BY <1>2
  <2>2. Head(lines) = OkLine /\ Tail(lines) = <<Line(k, w)>>
    BY <2>1, Heads
  <2> QED
    BY <1>2, <2>1, <2>2, OkIsTaken DEF GoesOn, Awaits
<1>3. CASE told = <<>> /\ f = Profile /\ lines = <<Line(k, "7"), Line(k, "8"), OkLine>>
  <2>1. Head(lines) = Line(k, "7") /\ Tail(lines) = <<Line(k, "8"), OkLine>>
    BY <1>3, Heads
  <2>2. Said(f, "7")
    BY <1>3 DEF Said, Profile
  <2> QED
    BY <1>3, <2>1, <2>2, ValueIsTaken DEF GoesOn, Awaits
<1>4. CASE f \in Late /\ told = <<>> /\ \E w : Said(f, w) /\ lines = <<Line(k, w)>>
  <2>1. PICK w : Said(f, w) /\ lines = <<Line(k, w)>>
    BY <1>4
  <2>2. Head(lines) = Line(k, w) /\ Tail(lines) = <<>>
    BY <2>1, Heads
  <2> QED
    BY <1>4, <2>1, <2>2, ValueIsTaken DEF GoesOn, Awaits
<1>5. CASE f = Profile /\ (\E w : told = <<w>>) /\ lines = <<Line(k, "8"), OkLine>>
  <2>1. Head(lines) = Line(k, "8") /\ Tail(lines) = <<OkLine>>
    BY <1>5, Heads
  <2>2. Said(f, "8") /\ f \notin Late
    BY <1>5 DEF Said, Profile, Late
  <2> QED
    BY <1>5, <2>1, <2>2, ValueIsTaken DEF GoesOn, Awaits
<1>6. CASE f \notin Late /\ lines = <<OkLine>> /\ Finished(f, told, d)
  <2>1. Head(lines) = OkLine
    BY <1>6, Heads
  <2> QED
    BY <1>6, <2>1, OkIsTaken DEF GoesOn
<1> QED
  BY <1>1, <1>2, <1>3, <1>4, <1>5, <1>6 DEF Awaits, Answer

(* RIL_GPS_Read collects the header and the sentence.                      *)
LEMMA GpsGoesOn ==
  ASSUME NEW told, NEW d, NEW lines, lines # <<>>, lines \notin Errors, Awaits(GpsRead, told, d, lines)
  PROVE  GoesOn(GpsRead, told, d, lines)
<1> DEFINE line  == Head(lines)
           v     == Verdict(Script[GpsRead].cmds[1], line, d)
           heard == IF line.kind \in Silent THEN told ELSE Append(told, line.val)
<1>0. GpsRead \notin Late /\ GpsRead # Profile
  BY DEF GpsRead, Late, Profile
<1>1. CASE told = <<>> /\ d = "" /\ \E w : lines = <<Line("+QGNSSRD:", w), Txt, Rmc, OkLine>>
  <2>1. PICK w : lines = <<Line("+QGNSSRD:", w), Txt, Rmc, OkLine>>
    BY <1>1
  <2>2. line = Line("+QGNSSRD:", w) /\ Tail(lines) = <<Txt, Rmc, OkLine>>
    BY <2>1, Heads
  <2>3. line.kind = "+QGNSSRD:" /\ line.val = w
    BY <2>2 DEF Line
  <2>4. v.verdict = "continue" /\ v.data = d \o w
    BY <2>3, GpsHandler, SMTT(60)
  <2>5. heard = <<w>>
    BY <1>1, <2>3, Appends DEF Silent
  <2>6. v.data = "" \o w
    BY <1>1, <2>4
  <2> QED
    BY <2>2, <2>4, <2>5, <2>6 DEF GoesOn, Awaits
<1>2. CASE \E w : told = <<w>> /\ d = "" \o w /\ lines = <<Txt, Rmc, OkLine>>
  <2>1. line = Txt /\ Tail(lines) = <<Rmc, OkLine>>
    <3>1. lines = <<Txt, Rmc, OkLine>>
      BY <1>2
    <3> QED
      BY <3>1, Heads
  <2>2. line.kind = "$GPTXT"
    BY <2>1 DEF Txt, Line
  <2>3. v.verdict = "continue" /\ v.data = d /\ heard = told
    <3>1. v.verdict = "continue" /\ v.data = d
      BY <2>2, GpsHandler
    <3>2. heard = told
      BY <2>2 DEF Silent
    <3> QED
      BY <3>1, <3>2
  <2> QED
    BY <1>2, <2>1, <2>3 DEF GoesOn, Awaits
<1>3. CASE \E w : told = <<w>> /\ d = "" \o w /\ lines = <<Rmc, OkLine>>
  <2>1. PICK w : told = <<w>> /\ d = "" \o w
    BY <1>3
  <2>2. line = Rmc /\ Tail(lines) = <<OkLine>>
    BY <1>3, Heads
  <2>3. line.kind = "$GNRMC" /\ line.val = "rmc"
    BY <2>2 DEF Rmc, Line
  <2>4. v.verdict = "continue" /\ v.data = d \o "rmc"
    BY <2>3, GpsHandler, SMTT(60)
  <2>5. heard = <<w, "rmc">>
    BY <2>1, <2>3, Appends DEF Silent
  <2>6. Meaning(GpsRead, heard) = "" \o heard[1] \o heard[2]
    BY DEF Meaning, GpsRead
  <2>7. heard[1] = w /\ heard[2] = "rmc"
    <3> HIDE DEF heard
    <3> QED
      BY <2>5
  <2>8. Finished(GpsRead, heard, v.data)
    BY <2>1, <2>4, <2>6, <2>7 DEF Finished
  <2> QED
    BY <1>0, <2>2, <2>4, <2>8 DEF GoesOn, Awaits
<1>4. CASE lines = <<OkLine>> /\ Finished(GpsRead, told, d)
  <2>1. line.kind = "OK"
    BY <1>4, Heads, LineKinds
  <2>2. v.verdict = "success" /\ v.data = d /\ heard = told
    <3>1. v.verdict = "success" /\ v.data = d
      BY <2>1, GpsHandler
    <3>2. heard = told
      BY <2>1 DEF Silent
    <3> QED
      BY <3>1, <3>2
  <2> QED
    BY <1>4, <2>2 DEF GoesOn
<1> QED
  BY <1>0, <1>1, <1>2, <1>3, <1>4 DEF Awaits, Answer

Query(u) ==
  LET c == call[u]
  IN c.fn \in Asking =>
       /\ c.pc = "ready" => c.told = <<>> /\ (c.fn = GpsRead => c.data = "")
       /\ c.pc = "sent" => Awaits(c.fn, c.told, c.data, waiting.lines)
       /\ c.pc = "done" /\ c.ret = "success" => Finished(c.fn, c.told, c.out)

QueryInv == \A u \in Tasks : Query(u)

QueryModes == {"direct", "copied", "cleared", "checked"}

(* No query is made at first.                                              *)
LEMMA InitQuery == Init => QueryInv
<1>1. NoCall.fn = "" /\ "" \notin Asking
  BY DEF NoCall, Asking
<1> QED
  BY <1>1 DEF Init, QueryInv, Query

(* Queries are functions of one command on a cell of their own,            *)
LEMMA QueriesHaveOneCommand ==
  ASSUME NEW f \in Asking
  PROVE  \E at, hdl : \E mode \in QueryModes : HasOne(f, at, hdl, "data", mode)
BY QueryRows DEF Asking, QueryModes

(* and nothing is written to their callers by other calls.                 *)
LEMMA AskingShareNothing == Asking \cap {"RIL_ToneDet_Get", "RIL_BT_SPP_Send", "RIL_BT_SPP_Read", ""} = {}
BY DEF Asking

(* Steps of other tasks do not change a query.                             *)
LEMMA QueryOthers ==
  ASSUME TypeInv, QueryInv, NEW t \in Tasks, Step(t), NEW u \in Tasks \ {t}
  PROVE  Query(u)'
<1>1. Alike(call'[u], call[u]) /\ (waiting.task = u => waiting' = waiting)
      /\ (call[u].fn # "RIL_ToneDet_Get" => call'[u].out = call[u].out)
  BY OthersKeep, ChannelKept
<1>2. call'[u].pc = call[u].pc /\ call'[u].ret = call[u].ret /\ call'[u].told = call[u].told
      /\ call'[u].fn = call[u].fn /\ call'[u].data = call[u].data
  BY <1>1 DEF Alike
<1>3. Query(u) /\ (call[u].pc = "sent" <=> waiting.task = u)
  BY DEF QueryInv, TypeInv, ChannelInv
<1>4. call[u].fn \in Asking => call'[u].out = call[u].out
  BY <1>1, AskingShareNothing
<1>5. call'[u].pc = "sent" /\ call[u].fn \in Asking =>
        Awaits(call[u].fn, call[u].told, call[u].data, waiting'.lines)
  BY <1>1, <1>2, <1>3 DEF Query
<1> QED
  BY <1>2, <1>3, <1>4, <1>5 DEF Query

(* A query takes a line.                                                   *)
LEMMA QueryLine ==
  ASSUME TypeInv, QueryInv, NEW t \in Tasks, TakeLine(t), call[t].fn \in Asking
  PROVE  Query(t)'
<1> DEFINE c == call[t]
           m == call'[t]
           n == AfterLine(t)[t]
           v == VerdictOf(t)
<1>1. PICK at, hdl : \E mode \in QueryModes : HasOne(c.fn, at, hdl, "data", mode)
  BY QueriesHaveOneCommand
<1>2. PICK mode \in QueryModes : HasOne(c.fn, at, hdl, "data", mode)
  BY <1>1
<1>3. mode \in Modes
  BY DEF QueryModes, Modes
<1>4. TakesOne(t, at, hdl, "data", mode)
  BY <1>2, <1>3, OneCommandTakes
<1> DEFINE o == Outcome(mode, v.verdict, n.data, c.out)
<1>5. /\ Current(t).cell = "data" /\ IsVerdict(v)
      /\ \/ /\ v.verdict = "continue" /\ n.pc = c.pc /\ n.ret = c.ret /\ n.out = c.out
            /\ waiting'.lines = Tail(waiting.lines)
         \/ v.verdict # "continue" /\ n.pc = "done" /\ n.ret = o.ret /\ n.out = o.out
  BY <1>4 DEF TakesOne
<1>6. /\ c.pc = "sent" /\ n.fn = c.fn /\ n.data = v.data
      /\ n.told = IF LineOf.kind \in Silent THEN c.told ELSE Append(c.told, LineOf.val)
  BY <1>5, AfterLineFields, LineTaken
<1>7. call' = AfterLine(t)
  BY <1>5, LineTakenCall
<1>8. v = Verdict(Script[c.fn].cmds[1], LineOf, c.data)
  <2>1. Current(t) = Script[c.fn].cmds[1]
    <3>1. c.step \in DOMAIN Script[c.fn].cmds /\ Current(t) = Script[c.fn].cmds[c.step]
      BY <1>6, CommandsAreSound
    <3> QED
      BY <1>2, <3>1 DEF HasOne
  <2> QED
    BY <1>5, <2>1 DEF VerdictOf
<1>9. GoesOn(c.fn, c.told, c.data, waiting.lines)
  <2>1. Awaits(c.fn, c.told, c.data, waiting.lines) /\ waiting.lines # <<>>
    BY <1>6, LineTaken DEF QueryInv, Query
  <2> QED
    BY <2>1, ErrorsGoOn, OthersGoOn, GpsGoesOn
<1>10. /\ v.verdict = "continue" => Awaits(c.fn, n.told, v.data, Tail(waiting.lines))
       /\ v.verdict = "success" => Finished(c.fn, n.told, v.data)
  BY <1>6, <1>8, <1>9 DEF GoesOn, LineOf
<1> HIDE DEF v, n, c, o
<1>11. CASE v.verdict = "continue"
  <2>1. n.pc = "sent" /\ waiting'.lines = Tail(waiting.lines) /\ Awaits(c.fn, n.told, n.data, waiting'.lines)
    BY <1>5, <1>6, <1>10, <1>11
  <2> QED
    BY <1>6, <1>7, <2>1 DEF Query, n
<1>12. CASE v.verdict = "success"
  <2>1. n.pc = "done" /\ n.ret = o.ret /\ n.out = o.out
    BY <1>5, <1>12
  <2>2. n.ret = "success" => n.out = v.data
    BY <1>3, <1>6, <1>12, <2>1, Outcomes DEF o, QueryModes
  <2> QED
    BY <1>6, <1>7, <1>10, <1>12, <2>1, <2>2 DEF Query, n
<1>13. CASE v.verdict = "failed"
  <2>1. n.pc = "done" /\ n.ret # "success"
    BY <1>3, <1>5, <1>13, Outcomes DEF o
  <2> QED
    BY <1>7, <2>1 DEF Query, n
<1> QED
  BY <1>5, <1>11, <1>12, <1>13 DEF IsVerdict

(* The steps of the asking task itself.                                    *)
LEMMA QueryOwn ==
  ASSUME TypeInv, QueryInv, NEW t \in Tasks, Step(t)
  PROVE  Query(t)'
<1>1. ASSUME NEW f \in MayCall[t], Call(t, f) \/ Reject(t, f) PROVE Query(t)'
  <2>1. CASE Call(t, f)
    <3>1. Begun(call'[t], f, sppState.mode)
      BY <2>1, CallFields
    <3>2. Script[GpsRead].start = ""
      BY DEF Script, RIL_GPS_Read, Copied, Function, GpsRead
    <3> QED
      BY <3>1, <3>2 DEF Begun, Query
  <2>2. CASE Reject(t, f)
    BY <2>2, RefusedFields DEF Query
  <2> QED
    BY <1>1, <2>1, <2>2
<1>2. CASE Send(t)
  <2>1. Same(call'[t], call[t]) /\ call[t].pc = "ready" /\ call'[t].pc = "sent"
        /\ waiting'.lines \in Done(Current(t).at) \cup Errors
    BY <1>2, SendFields
  <2>2. SUFFICES ASSUME call'[t].fn \in Asking PROVE Awaits(call[t].fn, call[t].told, call[t].data, waiting'.lines)
    BY <2>1 DEF Query, Same
  <2>3. call[t].fn \in Asking /\ call[t].told = <<>> /\ (call[t].fn = GpsRead => call[t].data = "")
    BY <2>1, <2>2 DEF Same, QueryInv, Query
  <2>4. Current(t) = Script[call[t].fn].cmds[1]
    <3>1. call[t].step \in DOMAIN Script[call[t].fn].cmds /\ Current(t) = Script[call[t].fn].cmds[call[t].step]
      BY <2>1, CommandsAreSound
    <3>2. DOMAIN Script[call[t].fn].cmds = {1}
      BY <2>3, QueriesHaveOneCommand DEF HasOne
    <3> QED
      BY <3>1, <3>2
  <2>5. waiting'.lines \in Errors \/ Answer(call[t].fn, waiting'.lines)
    BY <2>1, <2>3, <2>4, QueriesAreAnswered
  <2> QED
    BY <2>3, <2>5 DEF Awaits
<1>3. CASE Busy(t) \/ Timeout(t)
  <2>1. PICK r \in {"busy", "timeout"} :
          /\ call'[t].fn = call[t].fn /\ call'[t].pc = "done"
          /\ call'[t].ret = Outcome(Script[call[t].fn].mode, r, call[t].data, call[t].out).ret
    BY <1>3, EndFields DEF Same
  <2>2. call'[t].fn \in Asking => call'[t].ret # "success"
    <3>1. call[t].fn \in Asking => Script[call[t].fn].mode \in Modes
      BY QueriesHaveOneCommand DEF HasOne, QueryModes, Modes
    <3> QED
      BY <2>1, <3>1, Outcomes
  <2> QED
    BY <2>1, <2>2 DEF Query
<1>4. CASE Return(t)
  BY <1>4, ReturnFields DEF Query
<1>5. CASE TakeLine(t)
  <2>1. Alike(call'[t], AfterLine(t)[t]) /\ AfterLine(t)[t].fn = call[t].fn
    BY <1>5, TakenFields, AfterLineFields, LineTaken
  <2>2. call'[t].fn = call[t].fn
    BY <2>1 DEF Alike
  <2>3. CASE call[t].fn \notin Asking
    BY <2>2, <2>3 DEF Query
  <2> QED
    BY <1>5, <2>3, QueryLine
<1> QED
  BY <1>1, <1>2, <1>3, <1>4, <1>5 DEF Step

(* A query that returns success has handed its caller what the module reported for *)
(* this very call: for every function that reports a value, every handler and every *)
(* interleaving with the calls of other tasks.                             *)
THEOREM QueriesHandOverTheirAnswer == Spec => []SuccessMeansAnswered
<1>1. QueryInv => SuccessMeansAnswered
  BY QueriesAsk DEF QueryInv, Query, SuccessMeansAnswered, Succeeded, Finished
<1>2. ASSUME QueryInv, UNCHANGED vars PROVE QueryInv'
  <2>1. call' = call /\ waiting' = waiting
    BY <1>2 DEF vars
  <2> QED
    BY <1>2, <2>1 DEF QueryInv, Query
<1>3. TypeInv /\ QueryInv /\ [Next]_vars => TypeInv' /\ QueryInv'
  BY <1>2, QueryOwn, QueryOthers, NextIsAStep, TypesKept DEF QueryInv
<1>4. Spec => [](TypeInv /\ QueryInv)
  BY InitTypes, InitQuery, <1>3, PTL DEF Spec
<1> QED
  BY <1>1, <1>4, PTL
-----------------------------------------------------------------------------
(* The two queries of FTP whose callers do not get what they ask for.      *)
FtpQueries == {"RIL_FTP_QFTPSTAT", "RIL_FTP_QFTPLEN"}

FtpKind(f) == IF f = "RIL_FTP_QFTPSTAT" THEN "+QFTPSTAT:" ELSE "+QFTPLEN:"

Marked(ret, told) == IF ret # "success" /\ told = <<>> THEN "-1" ELSE Unset

FtpQuery(u) ==
  LET c == call[u]
  IN c.fn \in FtpQueries =>
       /\ c.pc = "ready" => c.told = <<>> /\ c.data = Unset /\ c.out = Unset
       /\ c.pc = "sent" =>
            /\ c.out = Unset
            /\ \/ c.told = <<>> /\ c.data = Unset /\ waiting.lines \in Errors
               \/ /\ c.told = <<>> /\ c.data = Unset
                  /\ \E v \in Values : waiting.lines = <<Line(FtpKind(c.fn), v), OkLine>>
               \/ c.told # <<>> /\ c.data # Unset /\ waiting.lines = <<OkLine>>
       /\ c.pc = "done" => c.out = Marked(c.ret, c.told)

FtpInv == \A u \in Tasks : FtpQuery(u)

(* Their rows, the lines they are answered with, and what their handlers   *)
(* make of a line.                                                         *)
LEMMA FtpRows ==
  /\ HasOne("RIL_FTP_QFTPSTAT", "AT+QFTPSTAT", "ATResponse_QFTPSTAT_handler", "data", "lost")
  /\ HasOne("RIL_FTP_QFTPLEN", "AT+QFTPLEN", "ATResponse_QFTPLEN_handler", "data", "lost")
  /\ \A f \in FtpQueries : Script[f].start = Unset /\ Script[f].mode = "lost" /\ ~Script[f].checks
<1>1. Script["RIL_FTP_QFTPSTAT"] = RIL_FTP_QFTPSTAT /\ Script["RIL_FTP_QFTPLEN"] = RIL_FTP_QFTPLEN
  BY DEF Script
<1>2. HasOne("RIL_FTP_QFTPSTAT", "AT+QFTPSTAT", "ATResponse_QFTPSTAT_handler", "data", "lost")
  BY <1>1 DEF HasOne, RIL_FTP_QFTPSTAT, Function, Cmd
<1>3. HasOne("RIL_FTP_QFTPLEN", "AT+QFTPLEN", "ATResponse_QFTPLEN_handler", "data", "lost")
  BY <1>1 DEF HasOne, RIL_FTP_QFTPLEN, Function, Cmd
<1>4. \A f \in FtpQueries : Script[f].start = Unset /\ Script[f].mode = "lost" /\ ~Script[f].checks
  BY <1>1 DEF FtpQueries, RIL_FTP_QFTPSTAT, RIL_FTP_QFTPLEN, Function
<1> QED
  BY <1>2, <1>3, <1>4

LEMMA FtpAnswers ==
  /\ Done("AT+QFTPSTAT") = BeforeOk("+QFTPSTAT:", Values)
  /\ Done("AT+QFTPLEN") = BeforeOk("+QFTPLEN:", Values)
<1>1. Done("AT+QFTPSTAT") = BeforeOk(Prefix("AT+QFTPSTAT"), Reported("AT+QFTPSTAT"))
  BY DEF Done, FtpResults, Queried
<1>2. Done("AT+QFTPLEN") = BeforeOk(Prefix("AT+QFTPLEN"), Reported("AT+QFTPLEN"))
  BY DEF Done, FtpResults, Queried
<1>3. Prefix("AT+QFTPSTAT") = "+QFTPSTAT:" /\ Prefix("AT+QFTPLEN") = "+QFTPLEN:"
  BY DEF Prefix
<1>4. Reported("AT+QFTPSTAT") = Values /\ Reported("AT+QFTPLEN") = Values
  BY DEF Reported
<1> QED
  BY <1>1, <1>2, <1>3, <1>4

FtpHears(f, v, line, d) ==
  /\ line.kind = FtpKind(f) => v.verdict = "continue" /\ v.data = line.val
  /\ line.kind = "OK" => v.verdict = "success" /\ v.data = d
  /\ line.kind \in Faulty => v.verdict = "failed" /\ v.data = d

LEMMA FtpHandlers ==
  ASSUME NEW line, NEW d
  PROVE  /\ FtpHears("RIL_FTP_QFTPSTAT", ATResponse_QFTPSTAT_handler(line, d), line, d)
         /\ FtpHears("RIL_FTP_QFTPLEN", ATResponse_QFTPLEN_handler(line, d), line, d)
BY DEF FtpHears, FtpKind, Faulty, ATResponse_QFTPSTAT_handler, ATResponse_QFTPLEN_handler, FinalCms, EndsWith,
   Continue, Success, Failed

(* What is left in the caller's variable.                                  *)
LEMMA FtpOutcome ==
  ASSUME NEW r, NEW d, NEW out
  PROVE  LET o == Outcome("lost", r, d, out)
         IN o.ret = r /\ o.out = IF r = "success" \/ d # Unset THEN out ELSE "-1"
BY DEF Outcome, Returned

LEMMA InitFtp == Init => FtpInv
<1>1. NoCall.fn = ""
  BY DEF NoCall
<1> QED
  BY <1>1 DEF Init, FtpInv, FtpQuery, FtpQueries

(* Steps of other tasks change nothing of a query.                         *)
LEMMA FtpOthers ==
  ASSUME TypeInv, FtpInv, NEW t \in Tasks, Step(t), NEW u \in Tasks \ {t}
  PROVE  FtpQuery(u)'
<1>1. Alike(call'[u], call[u]) /\ (waiting.task = u => waiting' = waiting)
  BY OthersKeep, ChannelKept
<1>2. SUFFICES ASSUME call'[u].fn \in FtpQueries PROVE FtpQuery(u)'
  BY DEF FtpQuery
<1>3. call[u].fn = call'[u].fn /\ call[u].fn \in FtpQueries /\ FtpQuery(u)
  BY <1>1, <1>2 DEF Alike, FtpInv
<1>4. call'[u].out = call[u].out
  BY <1>3, OthersKeep DEF FtpQueries
<1>5. call[u].pc = "sent" <=> waiting.task = u
  BY DEF TypeInv, ChannelInv
<1>6. /\ call'[u].pc = call[u].pc /\ call'[u].ret = call[u].ret /\ call'[u].told = call[u].told
      /\ call'[u].data = call[u].data
  BY <1>1 DEF Alike
<1> QED
  BY <1>1, <1>3, <1>4, <1>5, <1>6 DEF FtpQuery

(* A query takes a line.                                                   *)
LEMMA FtpLine ==
  ASSUME TypeInv, FtpInv, NEW t \in Tasks, TakeLine(t)
  PROVE  FtpQuery(t)'
<1> DEFINE c == call[t]
           n == AfterLine(t)[t]
           v == VerdictOf(t)
           o == Outcome("lost", v.verdict, n.data, c.out)
<1>1. SUFFICES ASSUME call'[t].fn \in FtpQueries PROVE FtpQuery(t)'
  BY DEF FtpQuery
<1>2. Alike(call'[t], n) /\ (n.fn # "RIL_ToneDet_Get" => call'[t].out = n.out)
  BY TakenFields
<1>3. /\ c.pc = "sent" /\ n.fn = c.fn
      /\ n.told = IF LineOf.kind \in Silent THEN c.told ELSE Append(c.told, LineOf.val)
      /\ n.data = IF Current(t).cell = "qmic" THEN c.data ELSE v.data
  BY AfterLineFields, LineTaken
<1>4. c.fn \in FtpQueries /\ FtpQuery(t) /\ c.fn # "RIL_ToneDet_Get"
  BY <1>1, <1>2, <1>3 DEF Alike, FtpInv, FtpQueries
<1>5. /\ Current(t).cell = "data"
      /\ \/ v.verdict = "continue" /\ n.pc = c.pc /\ n.ret = c.ret /\ n.out = c.out
            /\ waiting'.lines = Tail(waiting.lines)
         \/ v.verdict # "continue" /\ n.pc = "done" /\ n.ret = o.ret /\ n.out = o.out
      /\ FtpHears(c.fn, v, LineOf, c.data)
  <2>1. CASE c.fn = "RIL_FTP_QFTPSTAT"
    <3>1. TakesOne(t, "AT+QFTPSTAT", "ATResponse_QFTPSTAT_handler", "data", "lost")
      BY <2>1, FtpRows, OneCommandTakes DEF Modes
    <3>2. v = ATResponse_QFTPSTAT_handler(LineOf, c.data)
      BY <3>1, VerdictIsTheHandlers DEF VerdictOf, TakesOne
    <3> QED
      BY <2>1, <3>1, <3>2, FtpHandlers DEF TakesOne
  <2>2. CASE c.fn = "RIL_FTP_QFTPLEN"
    <3>1. TakesOne(t, "AT+QFTPLEN", "ATResponse_QFTPLEN_handler", "data", "lost")
      BY <2>2, FtpRows, OneCommandTakes DEF Modes
    <3>2. v = ATResponse_QFTPLEN_handler(LineOf, c.data)
      BY <3>1, VerdictIsTheHandlers DEF VerdictOf, TakesOne
    <3> QED
      BY <2>2, <3>1, <3>2, FtpHandlers DEF TakesOne
  <2> QED
    BY <1>4, <2>1, <2>2 DEF FtpQueries
<1>6. /\ call'[t].fn = n.fn /\ call'[t].pc = n.pc /\ call'[t].ret = n.ret /\ call'[t].told = n.told
      /\ call'[t].data = n.data /\ call'[t].out = n.out /\ n.data = v.data
  BY <1>2, <1>3, <1>4, <1>5 DEF Alike
<1>7. CASE c.told = <<>> /\ c.data = Unset /\ waiting.lines \in Errors
  <2>1. LineOf.kind \in Faulty
    BY <1>7, LineKinds DEF LineOf
  <2>2. v.verdict = "failed" /\ n.data = Unset
    BY <1>5, <1>6, <1>7, <2>1 DEF FtpHears
  <2>3. o.ret = "failed" /\ o.out = "-1"
    BY <2>2, FtpOutcome
  <2>4. n.told = <<>>
    BY <1>3, <1>7, <2>1 DEF Faulty, Silent
  <2>5. n.pc = "done" /\ n.ret = "failed" /\ n.out = "-1"
    BY <1>5, <2>2, <2>3
  <2> QED
    BY <1>6, <2>4, <2>5 DEF FtpQuery, Marked
<1>8. CASE c.told = <<>> /\ c.data = Unset /\ \E w \in Values : waiting.lines = <<Line(FtpKind(c.fn), w), OkLine>>
  <2>1. PICK w \in Values : waiting.lines = <<Line(FtpKind(c.fn), w), OkLine>>
    BY <1>8
  <2>2. LineOf.kind = FtpKind(c.fn) /\ LineOf.val = w /\ Tail(waiting.lines) = <<OkLine>>
    <3>1. LineOf = Line(FtpKind(c.fn), w) /\ Tail(waiting.lines) = <<OkLine>>
      BY <2>1, Heads DEF LineOf
    <3> QED
      BY <3>1, LineKinds
  <2>3. v.verdict = "continue" /\ n.data = w /\ w # Unset
    BY <1>5, <1>6, <2>2, ValuesAreNoMarks DEF FtpHears
  <2>4. n.pc = "sent" /\ n.out = Unset /\ waiting'.lines = <<OkLine>>
    BY <1>3, <1>4, <1>5, <2>2, <2>3 DEF FtpQuery
  <2>5. n.told = <<w>>
    BY <1>3, <1>8, <2>2, Appends DEF Silent, FtpKind
  <2> QED
    BY <1>6, <2>3, <2>4, <2>5 DEF FtpQuery
<1>9. CASE c.told # <<>> /\ c.data # Unset /\ waiting.lines = <<OkLine>>
  <2>1. LineOf.kind = "OK"
    BY <1>9, Heads, LineKinds DEF LineOf
  <2>2. v.verdict = "success"
    BY <1>5, <2>1 DEF FtpHears
  <2>3. o.ret = "success" /\ o.out = Unset
    BY <1>3, <1>4, <2>2, FtpOutcome DEF FtpQuery
  <2>4. n.pc = "done" /\ n.ret = "success" /\ n.out = Unset
    BY <1>5, <2>2, <2>3
  <2> QED
    BY <1>6, <2>4 DEF FtpQuery, Marked
<1> QED
  BY <1>3, <1>4, <1>7, <1>8, <1>9 DEF FtpQuery

(* The steps of the task itself.                                           *)
LEMMA FtpOwn ==
  ASSUME TypeInv, FtpInv, NEW t \in Tasks, Step(t)
  PROVE  FtpQuery(t)'
<1>1. ASSUME NEW f \in MayCall[t], Call(t, f) PROVE FtpQuery(t)'
  <2>1. Begun(call'[t], f, sppState.mode)
    BY <1>1, CallFields
  <2>2. f \in FtpQueries => Script[f].start = Unset
    BY FtpRows
  <2> QED
    BY <2>1, <2>2 DEF Begun, FtpQuery
<1>2. ASSUME NEW f \in MayCall[t], Reject(t, f) PROVE FtpQuery(t)'
  <2>1. f \notin FtpQueries
    BY <1>2, FtpRows DEF Reject
  <2> QED
    BY <1>2, <2>1, RefusedFields DEF FtpQuery
<1>3. CASE Send(t)
  <2>1. Same(call'[t], call[t]) /\ call[t].pc = "ready" /\ call'[t].pc = "sent" /\ call'[t].out = call[t].out
        /\ waiting'.lines \in Done(Current(t).at) \cup Errors
    BY <1>3, SendFields
  <2>2. SUFFICES ASSUME call'[t].fn \in FtpQueries PROVE FtpQuery(t)'
    BY DEF FtpQuery
  <2>3. /\ call[t].fn = call'[t].fn /\ call[t].fn \in FtpQueries
        /\ call'[t].told = <<>> /\ call'[t].data = Unset /\ call'[t].out = Unset
    BY <2>1, <2>2 DEF Same, FtpInv, FtpQuery
  <2>4. Done(Current(t).at) = BeforeOk(FtpKind(call[t].fn), Values)
    <3>1. /\ call[t].step \in DOMAIN Script[call[t].fn].cmds
          /\ Current(t) = Script[call[t].fn].cmds[call[t].step]
      BY <2>1, CommandsAreSound
    <3>2. CASE call[t].fn = "RIL_FTP_QFTPSTAT"
      <4>1. Current(t).at = "AT+QFTPSTAT"
        BY <3>1, <3>2, FtpRows DEF HasOne
      <4> QED
        BY <3>2, <4>1, FtpAnswers DEF FtpKind
    <3>3. CASE call[t].fn = "RIL_FTP_QFTPLEN"
      <4>1. Current(t).at = "AT+QFTPLEN"
        BY <3>1, <3>3, FtpRows DEF HasOne
      <4> QED
        BY <3>3, <4>1, FtpAnswers DEF FtpKind
    <3> QED
      BY <2>3, <3>2, <3>3 DEF FtpQueries
  <2>5. waiting'.lines \in Errors \/ \E v \in Values : waiting'.lines = <<Line(FtpKind(call[t].fn), v), OkLine>>
    BY <2>1, <2>4 DEF BeforeOk
  <2> QED
    BY <2>1, <2>3, <2>5 DEF FtpQuery
<1>4. CASE Busy(t) \/ Timeout(t)
  <2>1. SUFFICES ASSUME call'[t].fn \in FtpQueries PROVE FtpQuery(t)'
    BY DEF FtpQuery
  <2> DEFINE c == call[t]
  <2>2. PICK r \in {"busy", "timeout"} :
          LET o == Outcome(Script[c.fn].mode, r, c.data, c.out)
          IN /\ r = "busy" => c.pc = "ready"
             /\ r = "timeout" => waiting.task = t
             /\ Same(call'[t], c) /\ call'[t].pc = "done" /\ call'[t].ret = o.ret /\ call'[t].out = o.out
    BY <1>4, EndFields
  <2>3. c.fn \in FtpQueries /\ FtpQuery(t) /\ call'[t].told = c.told
    BY <2>1, <2>2 DEF Same, FtpInv
  <2>4. Script[c.fn].mode = "lost"
    BY <2>3, FtpRows
  <2>5. c.pc \in {"ready", "sent"}
    BY <2>2 DEF TypeInv, ChannelInv
  <2>6. c.out = Unset /\ (c.told = <<>> <=> c.data = Unset)
    BY <2>3, <2>5 DEF FtpQuery
  <2>7. call'[t].ret = r /\ call'[t].out = IF r = "success" \/ c.data # Unset THEN c.out ELSE "-1"
    BY <2>2, <2>4, FtpOutcome
  <2>8. call'[t].out = Marked(call'[t].ret, call'[t].told)
    BY <2>3, <2>6, <2>7 DEF Marked
  <2> QED
    BY <2>2, <2>8 DEF FtpQuery
<1>5. CASE Return(t)
  BY <1>5, ReturnFields DEF FtpQuery
<1>6. CASE TakeLine(t)
  BY <1>6, FtpLine
<1> QED
  BY <1>1, <1>2, <1>3, <1>4, <1>5, <1>6 DEF Step

(* A failed query of FTP leaves -1 in the caller's variable just if no value has come; *)
(* otherwise the variable is not written, for every timing of answer, timeout and refusal. *)
THEOREM FtpFailuresAreMarked == Spec => []FailedFtpQueryIsMarked
<1>1. FtpInv => FailedFtpQueryIsMarked
  BY DEF FtpInv, FtpQuery, FtpQueries, Marked, FailedFtpQueryIsMarked
<1>2. ASSUME FtpInv, UNCHANGED vars PROVE FtpInv'
  <2>1. call' = call /\ waiting' = waiting
    BY <1>2 DEF vars
  <2> QED
    BY <1>2, <2>1 DEF FtpInv, FtpQuery
<1>3. TypeInv /\ FtpInv /\ [Next]_vars => TypeInv' /\ FtpInv'
  BY <1>2, FtpOwn, FtpOthers, NextIsAStep, TypesKept DEF FtpInv
<1>4. Spec => [](TypeInv /\ FtpInv)
  BY InitTypes, InitFtp, <1>3, PTL DEF Spec
<1> QED
  BY <1>1, <1>4, PTL
=============================================================================
