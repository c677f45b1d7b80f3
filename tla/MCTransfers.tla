----------------------------- MODULE MCTransfers -----------------------------
(* A small instance of Transfers for TLC. *)
EXTENDS Transfers

CONSTANTS T1, T2

MCTasks   == {T1, T2}
\* Each function is called by some task, and each pair that shares a global by two.
MCMayCall ==
  (T1 :> {"RIL_HTTP_DownloadFile", "RIL_HTTP_SetServerURL", "RIL_HTTP_ReadResponse", "RIL_FTP_QFTPGET",
          "RIL_GetLocation", "RIL_GetLocationByCell", "RIL_QLBS_Cfg_on", "RIL_QLBS_Loc",
          "RIL_NTP_START", "RIL_WDTMF_Send", "RIL_ToneDet_Open"})
  @@ (T2 :> {"RIL_HTTP_RequestToGet", "RIL_HTTP_RequestToPost", "RIL_FTP_QFTPPUT",
             "RIL_GetLocation_Ex", "RIL_QLBS_Cfg_on", "RIL_QLBS_Cfg_off", "RIL_NTP_START", "RIL_GPS_CMD_Send",
             "RIL_WDTMF_Send", "RIL_ToneDet_Open"})
  @@ (UrcTask :> {"RIL_HTTP_DownloadFile"})

MCPatient == {"ntp", "gps"}
MCHeard   == {Urc({"+CMTI:"}, "1"), Urc({"+CREG:"}, "n,stat")}

\* Functions and services that share globals.
Groups == <<{"http"}, {"ftpget", "ftpput"}, {"loc"}, {"qlbs"}, {"ntp"}, {"gps"}, {"wdtmf"}, {"tone"}>>

GroupOf(f) ==
  IF f \in Configures THEN {4}
  ELSE IF f \in DOMAIN HttpAction \ {"RIL_HTTP_DownloadFile"} THEN {9}
  ELSE {g \in DOMAIN Groups : f # "" /\ Script[f].sv \in Groups[g]}

Reported(s) == handling.sv = s \/ \E i \in DOMAIN reports : reports[i].sv = s

\* The groups that are in use or have been.
InUse ==
  UNION {GroupOf(call[c].fn) : c \in Callers}
    \cup {g \in DOMAIN Groups : \E s \in Groups[g] : cb[s] # Nobody \/ job[s] # NoJob \/ Reported(s)}
    \cup (CASE m_httpAction = "IDLE" -> {} [] m_httpAction = "DOWNLOAD_FILE" -> {1} [] OTHER -> {9})
    \cup (IF asynch THEN {3} ELSE {})
    \cup (IF update_time_flag \/ withTime \/ cfgDoubt THEN {4} ELSE {})
    \cup (IF calls > 0 \/ inbox # <<>> THEN {0} ELSE {})

\* Bound: one group is in use, and two of the pointers that HTTP functions share.
OneGroup ==
  /\ Cardinality(InUse) <= 1
  /\ Cardinality({x \in DOMAIN httpData : httpData[x] # Nobody}) <= 2
=============================================================================
