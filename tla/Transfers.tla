------------------------------ MODULE Transfers ------------------------------
(***************************************************************************)
(* Requests that are answered later, by a notification: downloads, FTP     *)
(* transfers, location, network time, commands to the GNSS receiver, tones *)
(* (ril_http.c, ril_ftp.c, ril_location.c, ril_location2.c, ril_ntp.c,     *)
(* ril_gps.c, Ril_dtmf.c, ril_custom.c, and their part of ril_urc.c).      *)
(*                                                                         *)
(* For each kind of request there is one global callback.  A function      *)
(* registers the caller's there, before it sends the command or after the  *)
(* answer; the notification handler calls it, and some handlers clear it   *)
(* afterwards.  The callback runs in the task that handles notifications   *)
(* (UrcTask) and may itself call a function.                               *)
(*                                                                         *)
(* Left out: calls with arguments the functions refuse, which have no effect. *)
(***************************************************************************)
EXTENDS UrcDispatch, FiniteSets

CONSTANTS
  Tasks,        \* the tasks of the application
  UrcTask,      \* the task that handles notifications
  Nobody,
  MayCall,      \* the functions each of them calls
  Patient,      \* the services of which a request is made only when none is open
  MaxUrcs       \* bound: notifications that are waiting

Callers == Tasks \cup {UrcTask}

ASSUME NobodyIsNoCaller == Nobody \notin Callers

ASSUME UrcTaskIsNoTask == UrcTask \notin Tasks

VARIABLES
  call,               \* the call in progress of each caller, or the one that has just returned
  waiting,            \* the caller whose command has the channel, and its response lines
  cb,                 \* the global callbacks, per service: whose it is
  m_httpAction,
  httpData,           \* http_url_addr, http_post_msg, cb_rcvCoreData: whose they are
  update_time_flag,
  handling,           \* the notification handler at work, and the callback it is in
  job,                \* (module) the transfers that are running: for whom, and (history) if the callback is theirs
  asynch, withTime,   \* (module) the modes of AT+QLOCCFG and AT+QLBSCFG
  reports,            \* notifications of results, not yet handled
  opened,             \* (history) whose request to a service of Patient is accepted and not yet reported
  cfgDoubt            \* (history) the last RIL_QLBS_Cfg failed, or two of them overlapped

trVars == <<call, waiting, cb, m_httpAction, httpData, update_time_flag, handling, job, asynch, withTime,
            reports, opened, cfgDoubt>>
vars == <<trVars, urcVars>>

-----------------------------------------------------------------------------
Services == {"http", "ftpget", "ftpput", "loc", "qlbs", "ntp", "gps", "wdtmf", "tone"}

\* The services whose handler clears the callback, and the one with many results to a request.
Clears   == {"http", "ftpget", "ftpput"}
Sessions == {"tone"}

Request(sv, cmds, registers) == [sv |-> sv, cmds |-> cmds, registers |-> registers]

RIL_HTTP_DownloadFile  == Request("http", <<"start">>, "before")
RIL_FTP_QFTPGET        == Request("ftpget", <<"start">>, "after")
RIL_FTP_QFTPPUT        == Request("ftpput", <<"start">>, "after")
RIL_GetLocation        == Request("loc", <<"asynch", "start">>, "before")
RIL_GetLocationByCell  == Request("loc", <<"asynch", "start">>, "before")
RIL_GetLocation_ExWithoutMode == Request("loc", <<"start">>, "never")    \* (mutant)
RIL_GetLocation_Ex     == Request("loc", <<"synch", "start">>, "never")
RIL_QLBS_Loc           == Request("qlbs", <<"start">>, "before")
RIL_NTP_START          == Request("ntp", <<"start">>, "before")
RIL_GPS_CMD_Send       == Request("gps", <<"start">>, "before")
RIL_WDTMF_Send         == Request("wdtmf", <<"start">>, "before")
RIL_ToneDet_Open       == Request("tone", <<"start">>, "before")

\* Functions that request nothing, but share globals with those that do.
RIL_HTTP_SetServerURL  == Request("none", <<"url">>, "never")
RIL_HTTP_RequestToGet  == Request("none", <<"get">>, "never")
RIL_HTTP_RequestToPost == Request("none", <<"post">>, "never")
RIL_HTTP_ReadResponse  == Request("none", <<"read">>, "never")
RIL_QLBS_Cfg(mode)     == Request("none", <<mode>>, "never")

Script ==
  [RIL_HTTP_DownloadFile |-> RIL_HTTP_DownloadFile, RIL_FTP_QFTPGET |-> RIL_FTP_QFTPGET,
   RIL_FTP_QFTPPUT |-> RIL_FTP_QFTPPUT, RIL_GetLocation |-> RIL_GetLocation,
   RIL_GetLocationByCell |-> RIL_GetLocationByCell, RIL_GetLocation_Ex |-> RIL_GetLocation_Ex,
   RIL_QLBS_Loc |-> RIL_QLBS_Loc, RIL_NTP_START |-> RIL_NTP_START, RIL_GPS_CMD_Send |-> RIL_GPS_CMD_Send,
   RIL_WDTMF_Send |-> RIL_WDTMF_Send, RIL_ToneDet_Open |-> RIL_ToneDet_Open,
   RIL_HTTP_SetServerURL |-> RIL_HTTP_SetServerURL, RIL_HTTP_RequestToGet |-> RIL_HTTP_RequestToGet,
   RIL_HTTP_RequestToPost |-> RIL_HTTP_RequestToPost, RIL_HTTP_ReadResponse |-> RIL_HTTP_ReadResponse,
   RIL_QLBS_Cfg_on |-> RIL_QLBS_Cfg("timeOn"), RIL_QLBS_Cfg_off |-> RIL_QLBS_Cfg("timeOff")]

Functions == DOMAIN Script

ASSUME CallersCallFunctions == MayCall \in [Callers -> SUBSET Functions]

ASSUME BoundsAreNumbers == MaxUrcs \in Nat /\ MaxMessages \in Nat \ {0}

\* Patience helps where the callback is registered before the request, and a request has one result.
ASSUME PatientRegisterFirst ==
  /\ Patient \subseteq Services \ Sessions
  /\ \A f \in Functions : Script[f].sv \in Patient => Script[f].registers = "before"

\* The mutant of HttpAction: the function for POST is copied from that for GET.
HttpActionCopied ==
  [RIL_HTTP_SetServerURL |-> "SETURL", RIL_HTTP_RequestToGet |-> "GET_REQ",
   RIL_HTTP_RequestToPost |-> "GET_REQ", RIL_HTTP_ReadResponse |-> "READ_RSP",
   RIL_HTTP_DownloadFile |-> "DOWNLOAD_FILE"]

\* What m_httpAction is set to.
HttpAction ==
  [RIL_HTTP_SetServerURL |-> "SETURL", RIL_HTTP_RequestToGet |-> "GET_REQ",
   RIL_HTTP_RequestToPost |-> "POST_REQ", RIL_HTTP_ReadResponse |-> "READ_RSP",
   RIL_HTTP_DownloadFile |-> "DOWNLOAD_FILE"]

Configures == {"RIL_QLBS_Cfg_on", "RIL_QLBS_Cfg_off"}

-----------------------------------------------------------------------------
NoCall == [pc |-> "idle", fn |-> "", step |-> 1, ret |-> "", ran |-> FALSE, place |-> "unset", wrote |-> {},
           disturbed |-> FALSE, skipped |-> FALSE, held |-> FALSE]
NoJob == [owner |-> Nobody, held |-> FALSE]
Free == [task |-> Nobody, lines |-> <<>>]
Idle == [pc |-> "idle", sv |-> "none", owner |-> Nobody, from |-> "none", to |-> Nobody, held |-> FALSE]

TrInit ==
  /\ call = [c \in Callers |-> NoCall]
  /\ waiting = Free
  /\ cb = [s \in Services |-> Nobody]
  /\ m_httpAction = "IDLE"
  /\ httpData = [url |-> Nobody, post |-> Nobody, rcv |-> Nobody]
  /\ update_time_flag = FALSE
  /\ handling = Idle
  /\ job = [s \in Services |-> NoJob]
  /\ asynch = FALSE
  /\ withTime = FALSE
  /\ reports = <<>>
  /\ opened = [s \in Services |-> Nobody]
  /\ cfgDoubt = FALSE

InCall(c)  == call[c].pc \in {"ready", "sent", "answered"}
Service(c) == Script[call[c].fn].sv
Asks(c, s) == InCall(c) /\ Service(c) = s
Current(c) == Script[call[c].fn].cmds[call[c].step]

\* A request is held while its own callback is the registered one.  Those of service s made by others
\* than caller c are not held any more, ...
LoseJobs(s, c) == [job EXCEPT ![s].held = @ /\ job[s].owner = c]

LoseReports(s, c) ==
  [i \in DOMAIN reports |-> [reports[i] EXCEPT !.held = @ /\ (reports[i].sv = s => reports[i].owner = c)]]

LoseCalls(s, c) == [u \in Callers |-> [call[u] EXCEPT !.held = @ /\ (Asks(u, s) => u = c)]]

\* ... and those caller c has made are.
HoldJobs(s, c) == [LoseJobs(s, c) EXCEPT ![s].held = job[s].owner = c]

HoldReports(s, c) ==
  [i \in DOMAIN reports |->
     [reports[i] EXCEPT !.held = IF reports[i].sv = s THEN reports[i].owner = c ELSE @]]

\* The callers in set us are told that a global their call needs was changed.
Disturb(calling, us) == [c \in Callers |-> [calling[c] EXCEPT !.disturbed = @ \/ c \in us]]

Others(c, fns) == {u \in Callers \ {c} : InCall(u) /\ call[u].fn \in fns}

-----------------------------------------------------------------------------
\* Patience: what the application may do about the services in Patient.
Waits(c, s) ==
  /\ opened[s] = Nobody
  /\ \A u \in Callers : ~Asks(u, s)
  /\ handling.from # s

\* The mutant of Registers.
RegistersFirst(c, f) ==
  LET s == Script[f].sv IN IF Script[f].registers = "before" /\ cb[s] = Nobody THEN [cb EXCEPT ![s] = c] ELSE cb

\* The callback is registered before the command is sent ...
Registers(c, f) ==
  LET s == Script[f].sv IN IF Script[f].registers = "before" THEN [cb EXCEPT ![s] = c] ELSE cb

\* The function assigns what its handler or the notification handler will need.
Assigned(c, f) ==
  CASE f = "RIL_HTTP_SetServerURL"  -> [httpData EXCEPT !.url = c]
    [] f = "RIL_HTTP_RequestToPost" -> [httpData EXCEPT !.post = c]
    [] f = "RIL_HTTP_ReadResponse"  -> [httpData EXCEPT !.rcv = c]
    [] OTHER                        -> httpData

\* The mutant of TimeFlag: the flag is never reset.
TimeFlagStays(f) == update_time_flag \/ f = "RIL_QLBS_Cfg_on"

\* RIL_QLBS_Cfg sets the flag before it sends the command.
TimeFlag(f) == IF f \in Configures THEN f = "RIL_QLBS_Cfg_on" ELSE update_time_flag

Call(c, f) ==
  LET s == Script[f].sv
      first == Script[f].registers = "before"
      us == CASE f \in DOMAIN HttpAction -> Others(c, DOMAIN HttpAction)
              [] f \in Configures        -> Others(c, Configures)
              [] OTHER                   -> {}
  IN /\ call[c].pc = "idle"
     /\ f \in MayCall[c]
     /\ c = UrcTask => handling.pc = "callback"
     /\ s \in Patient => Waits(c, s)
     /\ call' = [Disturb(IF first THEN LoseCalls(s, c) ELSE call, us) EXCEPT
                   ![c] = [NoCall EXCEPT !.pc = "ready", !.fn = f, !.held = first]]
     /\ cb' = Registers(c, f)
     /\ job' = IF first THEN LoseJobs(s, c) ELSE job
     /\ reports' = IF first THEN LoseReports(s, c) ELSE reports
     /\ m_httpAction' = IF f \in DOMAIN HttpAction THEN HttpAction[f] ELSE m_httpAction
     /\ httpData' = Assigned(c, f)
     /\ update_time_flag' = TimeFlag(f)
     /\ UNCHANGED <<waiting, handling, asynch, withTime, opened, cfgDoubt>>

-----------------------------------------------------------------------------
(***************************************************************************)
(* The module carries a command out or refuses it.  It runs one transfer   *)
(* of each kind, and reports its result later; in the synchronous mode the *)
(* location is in the response itself.                                     *)
(***************************************************************************)
Answers(c) ==
  LET cmd == Current(c)
      s == Service(c)
  IN CASE cmd \in {"url", "post"} -> {<<"CONNECT", "OK">>}
       [] cmd = "read"            -> {<<"CONNECT", "data", "OK">>}
       [] cmd = "start" /\ s = "loc" /\ ~asynch -> {<<"+QCELLLOC:", "OK">>}
       [] cmd = "start" /\ s \notin Sessions /\ job[s].owner # Nobody -> {}
       [] OTHER -> {<<"OK">>}

\* Ql_RIL_SendATCmd with the channel free.
Send(c) ==
  LET cmd == Current(c)
      s == Service(c)
  IN /\ call[c].pc = "ready"
     /\ waiting = Free
     /\ \E lines \in Answers(c) \cup {<<"ERROR">>} :
          LET done == lines # <<"ERROR">>
              starts == cmd = "start" /\ lines = <<"OK">>
              us == CASE done /\ cmd \in {"asynch", "synch"} /\ asynch # (cmd = "asynch") ->
                           {u \in Callers \ {c} : Asks(u, "loc") /\ (call[u].step = 2 \/ call[u].pc = "answered")}
                      [] cmd \in {"timeOn", "timeOff"} -> Others(c, Configures)
                      [] OTHER -> {}
          IN /\ waiting' = [task |-> c, lines |-> lines]
             /\ asynch' = IF done /\ cmd \in {"asynch", "synch"} THEN cmd = "asynch" ELSE asynch
             /\ withTime' = IF done /\ cmd \in {"timeOn", "timeOff"} THEN cmd = "timeOn" ELSE withTime
             /\ job' = IF starts THEN [job EXCEPT ![s] = [owner |-> c, held |-> call[c].held]] ELSE job
             /\ opened' = IF starts /\ s \in Patient THEN [opened EXCEPT ![s] = c] ELSE opened
             /\ call' = Disturb([call EXCEPT ![c].pc = "sent", ![c].ran = starts], us)
     /\ UNCHANGED <<cb, m_httpAction, httpData, update_time_flag, handling, reports, cfgDoubt>>

\* With the channel taken: RIL_AT_BUSY.
Busy(c) ==
  /\ call[c].pc = "ready"
  /\ waiting # Free
  /\ call' = [call EXCEPT ![c].pc = "answered", ![c].ret = "busy"]
  /\ UNCHANGED <<waiting, cb, m_httpAction, httpData, update_time_flag, handling, job, asynch, withTime,
                 reports, opened, cfgDoubt>>

\* What ATRsp_QHTTP_Handler writes at the prompt goes by m_httpAction, not by the command.
Writes(m) ==
  CASE m = "SETURL"   -> {<<"url", httpData.url>>}
    [] m = "POST_REQ" -> {<<"post", httpData.post>>}
    [] OTHER          -> {}

Ql_RIL_RcvDataFrmCore == IF httpData.rcv = Nobody THEN {} ELSE {<<"read", httpData.rcv>>}

\* The handler's verdict ends the command.
TakeLine(c) ==
  LET line == Head(waiting.lines)
      ends == line \in {"OK", "ERROR"}
  IN /\ waiting.task = c
     /\ waiting' = IF ends THEN Free ELSE [waiting EXCEPT !.lines = Tail(@)]
     /\ call' = CASE line = "OK"      -> [call EXCEPT ![c].pc = "answered", ![c].ret = "success"]
                  [] line = "ERROR"   -> [call EXCEPT ![c].pc = "answered", ![c].ret = "failed"]
                  [] line = "CONNECT" -> [call EXCEPT ![c].wrote = Writes(m_httpAction)]
                  [] line = "data"    -> [call EXCEPT ![c].wrote = Ql_RIL_RcvDataFrmCore]
                  [] OTHER            ->
                       IF call[c].fn = "RIL_GetLocation_Ex" THEN [call EXCEPT ![c].place = "place"] ELSE call
     /\ UNCHANGED <<cb, m_httpAction, httpData, update_time_flag, handling, job, asynch, withTime,
                    reports, opened, cfgDoubt>>

\* No answer in time; the module may have carried the command out.
Timeout(c) ==
  /\ waiting.task = c
  /\ waiting' = Free
  /\ call' = [call EXCEPT ![c].pc = "answered", ![c].ret = "timeout"]
  /\ UNCHANGED <<cb, m_httpAction, httpData, update_time_flag, handling, job, asynch, withTime, reports,
                 opened, cfgDoubt>>

-----------------------------------------------------------------------------
\* RIL_GetLocationByCell goes on whatever its first command returned.
GoesOn(c) ==
  /\ call[c].step < Len(Script[call[c].fn].cmds)
  /\ call[c].ret = "success" \/ call[c].fn = "RIL_GetLocationByCell"

NextCommand(c) ==
  /\ call[c].pc = "answered"
  /\ GoesOn(c)
  /\ call' = [call EXCEPT ![c].pc = "ready", ![c].step = @ + 1, ![c].skipped = call[c].ret # "success"]
  /\ UNCHANGED <<waiting, cb, m_httpAction, httpData, update_time_flag, handling, job, asynch, withTime,
                 reports, opened, cfgDoubt>>

\* What RIL_GetLocation_Ex leaves in the caller's structure: a copy of a local.
Copied(c) ==
  IF call[c].fn # "RIL_GetLocation_Ex" THEN "unset"
  ELSE IF call[c].ret # "success" THEN (IF call[c].step = 2 THEN "zero" ELSE "unset")
  ELSE IF call[c].place = "place" THEN "place" ELSE "wild"

\* ... or after the answer, if it was a success.
Finish(c) ==
  LET s == Service(c)
      last == Script[call[c].fn].registers = "after" /\ call[c].ret = "success"
  IN /\ call[c].pc = "answered"
     /\ ~GoesOn(c)
     /\ call' = [call EXCEPT ![c].pc = "done", ![c].place = Copied(c), ![c].held = FALSE]
     /\ cb' = IF last THEN [cb EXCEPT ![s] = c] ELSE cb
     /\ job' = IF last THEN HoldJobs(s, c) ELSE job
     /\ reports' = IF last THEN HoldReports(s, c) ELSE reports
     /\ cfgDoubt' = IF call[c].fn \in Configures THEN call[c].ret # "success" \/ call[c].disturbed ELSE cfgDoubt
     /\ UNCHANGED <<waiting, m_httpAction, httpData, update_time_flag, handling, asynch, withTime, opened>>

Return(c) ==
  /\ call[c].pc = "done"
  /\ call' = [call EXCEPT ![c] = NoCall]
  /\ UNCHANGED <<waiting, cb, m_httpAction, httpData, update_time_flag, handling, job, asynch, withTime,
                 reports, opened, cfgDoubt>>

-----------------------------------------------------------------------------
\* The module reports a result, behind the answer to the command on the serial line.
Report(s) ==
  /\ job[s].owner # Nobody
  /\ Len(reports) < MaxUrcs
  /\ ~(waiting.task = job[s].owner /\ Asks(job[s].owner, s))
  /\ reports' = Append(reports, [sv |-> s, owner |-> job[s].owner, held |-> job[s].held])
  /\ job' = IF s \in Sessions THEN job ELSE [job EXCEPT ![s] = NoJob]
  /\ UNCHANGED <<call, waiting, cb, m_httpAction, httpData, update_time_flag, handling, asynch, withTime,
                 opened, cfgDoubt>>

\* The mutant of Called: the handler for the time is copied from that of the GNSS receiver.
CalledCopied(s) == IF s = "ntp" THEN {"gps"} ELSE {s}

\* OnURCHandler_FTP has a block for downloads and behind it one for uploads, which is reached unless the
\* first has called a callback.  In each the text behind the prefix is looked for, at an address computed
\* from NULL if the report has another prefix, and what is there may pass for a line.
MayPassFor(s) ==
  CASE s = "ftpput" /\ cb["ftpget"] # Nobody -> {"ftpget"}
    [] s = "ftpget" /\ cb["ftpget"] = Nobody /\ cb["ftpput"] # Nobody -> {"ftpput"}
    [] OTHER -> {}

\* The global the handler calls for a report of service s.
Called(s) == {s} \cup MayPassFor(s)

\* The callback is called with the result, if there is one.
Deliver(r, s) ==
  /\ handling' = [pc |-> IF cb[s] = Nobody THEN "ignored" ELSE "callback", sv |-> r.sv, owner |-> r.owner,
                  from |-> s, to |-> cb[s], held |-> r.held /\ s = r.sv]
  /\ opened' = [opened EXCEPT ![r.sv] = Nobody]

\* OnURCHandler_HTTP, _FTP, _QCELLLocation, _QLBS, _NTPCMD, _GPSCMD, _QWDTMF, _QToneDet.
HandleReport ==
  LET r == Head(reports)
  IN /\ handling.pc = "idle"
     /\ reports # <<>>
     /\ reports' = Tail(reports)
     /\ \/ \E s \in Called(r.sv) : Deliver(r, s)
        \/ /\ r.sv = "tone"      \* a code that is out of range
           /\ UNCHANGED <<opened, handling>>
     /\ UNCHANGED <<call, waiting, cb, m_httpAction, httpData, update_time_flag, job, asynch, withTime, cfgDoubt>>

\* The handler returns when the callback has; a request that was registered meanwhile loses its callback.
HandlerReturns ==
  LET s == handling.from
  IN /\ handling.pc # "idle"
     /\ call[UrcTask].pc = "idle"
     /\ handling' = Idle
     /\ IF s \in Clears /\ handling.pc = "callback"
          THEN /\ cb' = [cb EXCEPT ![s] = Nobody]
               /\ job' = LoseJobs(s, Nobody)
               /\ reports' = LoseReports(s, Nobody)
               /\ call' = LoseCalls(s, Nobody)
          ELSE UNCHANGED <<cb, job, reports, call>>
     /\ UNCHANGED <<waiting, m_httpAction, httpData, update_time_flag, asynch, withTime, opened, cfgDoubt>>

TrNext ==
  \/ \E c \in Callers :
       \/ \E f \in MayCall[c] : Call(c, f)
       \/ Send(c) \/ Busy(c) \/ TakeLine(c) \/ Timeout(c) \/ NextCommand(c) \/ Finish(c) \/ Return(c)
  \/ \E s \in Services : Report(s)
  \/ HandleReport \/ HandlerReturns

Init == TrInit /\ UrcInit

Next ==
  \/ TrNext /\ UNCHANGED urcVars
  \/ handling.pc = "idle" /\ UrcNext /\ UNCHANGED trVars

Spec == Init /\ [][Next]_vars

-----------------------------------------------------------------------------
Pcs == {"idle", "ready", "sent", "answered", "done"}

\* Calls, channel, callbacks and transfers have the shape the other properties assume.
TypeOK ==
  /\ \A c \in Callers :
       /\ call[c].pc \in Pcs
       /\ call[c].pc # "idle" => call[c].fn \in MayCall[c] /\ call[c].step \in DOMAIN Script[call[c].fn].cmds
       /\ call[c].pc = "sent" <=> waiting.task = c
  /\ waiting.task = Nobody => waiting = Free
  /\ waiting.task # Nobody => waiting.lines # <<>>
  /\ cb \in [Services -> Callers \cup {Nobody}]
  /\ opened \in [Services -> Callers \cup {Nobody}]
  /\ Len(reports) <= MaxUrcs /\ Len(inbox) <= MaxMessages
  /\ ringCnt \in 0..5

\* A result reaches the callback of the call that asked for it, unless one of these happened: another call
\* registered its own callback meanwhile, even if it was refused; the handler cleared it after the callback
\* in which it was registered (HTTP, FTP); an FTP result came before the function registered the callback,
\* or its answer was lost; an upload's result was read as a download's, or as an upload's that of a download
\* which found no callback of its own: then the one misses its result, and the other's callback is cleared;
\* a location was asked for in the wrong mode.
ReportsReachTheirCaller == handling.to # handling.owner => ~handling.held

\* RIL_GetLocation_Ex that succeeds returns a location, and a location that was successfully asked for
\* comes later, unless another task changed the mode between the two commands of the function; or if
\* RIL_GetLocationByCell could not set it.
LocationsAreAnswered ==
  \A c \in Callers :
    call[c].pc = "done" /\ call[c].ret = "success" /\ Service(c) = "loc" /\ ~call[c].disturbed =>
      CASE call[c].fn = "RIL_GetLocation_Ex"    -> call[c].place = "place"
        [] call[c].fn = "RIL_GetLocation"       -> call[c].ran
        [] call[c].fn = "RIL_GetLocationByCell" -> call[c].ran \/ call[c].skipped

\* The URL or message of a call is what is written at its prompt, and the data read goes to its callback,
\* unless another HTTP function was called before it had ended.
HttpDataIsTheCallers ==
  \A c \in Callers :
    call[c].pc = "done" /\ call[c].ret = "success" /\ ~call[c].disturbed =>
      call[c].wrote = CASE call[c].fn = "RIL_HTTP_SetServerURL"  -> {<<"url", c>>}
                        [] call[c].fn = "RIL_HTTP_RequestToPost" -> {<<"post", c>>}
                        [] call[c].fn = "RIL_HTTP_ReadResponse"  -> {<<"read", c>>}
                        [] OTHER                                 -> {}

\* update_time_flag tells whether the module sends the time with a location; if they differ the handler
\* passes on a structure whose time was never written.  They agree while no RIL_QLBS_Cfg is in
\* progress, unless the last one failed or ran together with another.
FlagFollowsModule ==
  (\A c \in Callers : call[c].fn \notin Configures \/ call[c].pc \in {"idle", "done"}) /\ ~cfgDoubt =>
    update_time_flag = withTime

-----------------------------------------------------------------------------
\* The services of which a request is made only when none is open keep the promise of OneShot.
AsOneShot ==
  INSTANCE OneShot WITH
    Services <- Patient,
    open     <- [s \in Patient |-> opened[s]],
    giving   <- [s \in Patient |-> IF handling.sv = s THEN handling.to ELSE Nobody]

ImplementsOneShot == AsOneShot!Spec
=============================================================================
