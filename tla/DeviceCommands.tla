--------------------------- MODULE DeviceCommands ---------------------------
(***************************************************************************)
(* The module itself, the alarm, sound, tones and the GNSS receiver: the   *)
(* blocking functions of ril_system.c, ril_alarm.c, ril_audio.c,           *)
(* Ril_dtmf.c, ril_gps.c and ril_location2.c and their line handlers.      *)
(***************************************************************************)
EXTENDS AtLines

SYS_ATResponse_Hanlder(line, d)   == Stores("+QINISTAT:", line, d)
Power_ATResponse_Hanlder(line, d) == Stores("+CBC:", line, d)
ATRsp_IMEI_Handler(line, d)       == PlainAnswer(line, d)

RIL_QuerySysInitStatus == Direct("AT+QINISTAT", "SYS_ATResponse_Hanlder")
RIL_GetPowerSupply     == Copied("AT+CBC", "Power_ATResponse_Hanlder", Wild)
RIL_GetIMEI            == Checked(Direct("AT+GSN", "ATRsp_IMEI_Handler"))

\* A stored value that is not between quotation marks is not taken.
SecureData_Read_Callback(line, d) ==
  IF line.kind = "+QUSERDAT: 3," THEN Continue(IF line.val = "unquoted" THEN "bad" ELSE line.val)
  ELSE Final(line, d)

Ql_SecureData_Store == Checked(Plain("AT+QUSERDAT=1"))
Ql_SecureData_Read ==
  Checked(Function(<<Cmd("AT+QUSERDAT=3", "SecureData_Read_Callback")>>, "bad", "checked"))

-----------------------------------------------------------------------------
\* The line with the time ends the command.  Its fields are found one after another by the character
\* behind each, "+" behind the seconds: in the zones west of Greenwich there is none.
ATResponse_QALARM_Handler(line, d) ==
  IF line.kind = "+QALARM:" THEN Success(IF line.val = "west" THEN Wild ELSE line.val)
  ELSE EndsWith({"ERROR"}, line, d)

RIL_Alarm_Create == Checked(Plain("AT+QALARM=1"))
RIL_Alarm_Query  == Checked(Direct("AT+QALARM?", "ATResponse_QALARM_Handler"))
RIL_Alarm_Remove == Checked(Plain("AT+QALARM=0"))

-----------------------------------------------------------------------------
Channels == {"0", "1", "2"}     \* AUD_CHANNEL_NORMAL, _HEADSET, _LOUD_SPEAKER

\* (mutant) the first level is taken for every channel
FirstLevel(levels, channel) == IF channel \in Channels THEN levels \o "0" ELSE "255"

\* +QMIC carries the level of every channel, here the name of the levels followed by the channel; any
\* other channel has none.
parse_cmd_qmic(levels, channel) == IF channel \in Channels THEN levels \o channel ELSE "255"

\* One handler for all commands; qmic is the static s_channel_qmic.
ATResponse_AUD_handler(line, d, qmic) ==
  CASE line.kind \in {"+QAUDCH:", "+QMEDVL:", "+CLVL:", "+QSIDET:", "+QAUDRD:"} -> Continue(line.val)
    [] line.kind = "+QMIC:" -> Continue(parse_cmd_qmic(line.val, qmic))
    [] OTHER                -> Final(line, d)

Aud(at) == Cmd(at, "ATResponse_AUD_handler")

RIL_AUD_GetChannel == Direct("AT+QAUDCH?", "ATResponse_AUD_handler")
RIL_AUD_SetChannel == Plain("AT+QAUDCH")

RIL_AUD_SetVolume_Speaker == Checked(Plain("AT+CLVL"))
RIL_AUD_SetVolume_Media   == Checked(Plain("AT+QMEDVL"))
RIL_AUD_SetVolume_Mic     ==
  Checked(Function(<<Aud("AT+QAUDCH?"), Cmd("AT+QMIC", "Default")>>, Wild, "none"))

\* The channel is asked for first, and put in the static the handler of the second answer reads.
RIL_AUD_GetVolume_Speaker == Checked(Direct("AT+CLVL?", "ATResponse_AUD_handler"))
RIL_AUD_GetVolume_Media   == Checked(Direct("AT+QMEDVL?", "ATResponse_AUD_handler"))
RIL_AUD_GetVolume_Mic     ==
  Checked(Function(<<[Aud("AT+QAUDCH?") EXCEPT !.cell = "qmic"], Aud("AT+QMIC?")>>, Unset, "direct"))

RIL_AUD_PlayFile ==
  Function(<<Aud("AT+QMEDVL?"), Aud("AT+QAUDCH?"), Aud("AT+QAUDPLAY")>>, Zero, "none")

RIL_AUD_StopPlay       == Handled("AT+QAUDSTOP", "ATResponse_AUD_handler")
RIL_AUD_StartRecord    == Checked(Handled("AT+QAUDRD=1", "ATResponse_AUD_handler"))
RIL_AUD_StopRecord     == Handled("AT+QAUDRD=0", "ATResponse_AUD_handler")
RIL_AUD_PlayMem        == Handled("AT+QPLAYMEM", "ATResponse_AUD_handler")
RIL_AUD_StopPlayMem    == Handled("AT+QSTOPRES", "ATResponse_AUD_handler")
RIL_AUD_PlayMemBg      == Handled("AT+QPMEMBG=1", "ATResponse_AUD_handler")
RIL_AUD_StopPlayMemBg  == Handled("AT+QPMEMBG=0", "ATResponse_AUD_handler")
RIL_AUD_GetRecordState == Copied("AT+QAUDRD?", "ATResponse_AUD_handler", Zero)

-----------------------------------------------------------------------------
\* The thresholds go where the last caller of RIL_ToneDet_Get wanted them: the handler has no cell.
ATResponse_Handler(line, d) ==
  IF line.kind = "+QTONEDET:" THEN Continue(line.val) ELSE FinalCms(line, d)

RIL_ToneDet_Close == Plain("AT+QTONEDET=0")
RIL_ToneDet_Set   == Checked(Plain("AT+QTONEDET=,1"))
RIL_ToneDet_Get   ==
  Checked(Function(<<[Cmd("AT+QTONEDET=,0", "ATResponse_Handler") EXCEPT !.cell = "threshold"]>>,
                   Unset, "none"))

-----------------------------------------------------------------------------
ATResponse_QGNSSC_Handler(line, d)   == Stores("+QGNSSC:", line, d)
ATResponse_GPSReadTS_Hdlr(line, d)   == Stores("+QGNSSTS:", line, d)

Sentences == {"$GNRMC", "$GNVTG", "$GNGGA", "$GNGSA", "$GPGSA", "$GLGSA", "$BDGSA", "$GNGSV",
              "$GPGSV", "$GLGSV", "$BDGSV", "$GNGLL"}

\* (mutant) a sentence replaces what was there
KeepsTheLast(line, d) ==
  IF line.kind \in Sentences \cup {"+QGNSSRD:"} THEN Continue(line.val) ELSE Final(line, d)

\* The header and every known sentence are appended.
ATResponse_GPSRead_Hdlr(line, d) ==
  IF line.kind \in Sentences \cup {"+QGNSSRD:"} THEN Continue(d \o line.val) ELSE Final(line, d)

RIL_GPS_Open          == Checked(Plain("AT+QGNSSC"))
RIL_GPS_SetRefLoc     == Plain("AT+QGREFLOC")
RIL_GPS_GetPowerState == Copied("AT+QGNSSC?", "ATResponse_QGNSSC_Handler", Zero)
RIL_GPS_Read          == Copied("AT+QGNSSRD", "ATResponse_GPSRead_Hdlr", "")
RIL_GPS_Read_TimeSync_Status == Copied("AT+QGNSSTS?", "ATResponse_GPSReadTS_Hdlr", Wild)
RIL_GPS_EPO_Enable    == Checked(Plain("AT+QGNSSEPO"))
RIL_GPS_EPO_Aid       == Plain("AT+QGEPOAID")
RIL_GPS_EPO_Config_APN ==
  Function(<<Cmd("AT+QIFGCNT", "Default"), Cmd("AT+QICSGP", "Default")>>, Unset, "none")

-----------------------------------------------------------------------------
ATResponse_Qlbs_Ex_Handler(line, d) == Stores("+QLBS:", line, d)

RIL_QLBS_Cfg    == Plain("AT+QLBSCFG")
RIL_QLBS_Loc_Ex == Function(<<Cmd("AT+QLBS", "ATResponse_Qlbs_Ex_Handler")>>, Zero, "cleared")
=============================================================================
