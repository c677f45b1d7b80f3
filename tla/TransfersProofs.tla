--------------------------- MODULE TransfersProofs ---------------------------
(***************************************************************************)
(* Proofs about Transfers, for any tasks and functions they call, and any  *)
(* services they are patient with; and, at the end, about the numbers of   *)
(* incoming calls (UrcDispatch), which come in the same task.              *)
(***************************************************************************)
EXTENDS Transfers, SequenceTheorems, FiniteSetTheorems, TLAPS

IsSequence(s) == \E S : s \in Seq(S)

(* The lines that may be left of a response.                               *)
Responses ==
  {<<"OK">>, <<"ERROR">>, <<"CONNECT", "OK">>, <<"CONNECT", "data", "OK">>, <<"data", "OK">>, <<"+QCELLLOC:", "OK">>}

ACall(u, k) ==
  /\ DOMAIN k = {"pc", "fn", "step", "ret", "ran", "place", "wrote", "disturbed", "skipped", "held"}
  /\ k.pc \in Pcs
  /\ k.pc # "idle" => k.fn \in MayCall[u] /\ k.step \in DOMAIN Script[k.fn].cmds
  /\ k.held \in BOOLEAN

AReport(r) ==
  DOMAIN r = {"sv", "owner", "held"} /\ r.sv \in Services /\ r.owner \in Callers /\ r.held \in BOOLEAN

CallsInv == DOMAIN call = Callers /\ \A u \in Callers : ACall(u, call[u])

ChannelInv ==
  /\ DOMAIN waiting = {"task", "lines"}
  /\ \A u \in Callers : call[u].pc = "sent" <=> waiting.task = u
  /\ waiting = Free \/ (waiting.task \in Callers /\ waiting.lines \in Responses)

TablesInv ==
  /\ cb \in [Services -> Callers \cup {Nobody}]
  /\ opened \in [Services -> Callers \cup {Nobody}]
  /\ DOMAIN job = Services
  /\ \A s \in Services : /\ DOMAIN job[s] = {"owner", "held"} /\ job[s].held \in BOOLEAN
                         /\ job[s].owner \in Callers \cup {Nobody}

ReportsInv == IsSequence(reports) /\ Len(reports) <= MaxUrcs /\ \A i \in DOMAIN reports : AReport(reports[i])

MessagesInv == IsSequence(inbox) /\ Len(inbox) <= MaxMessages /\ ringCnt \in 0..5

(* What is held has its callback registered.                               *)
HeldInv ==
  /\ \A s \in Services : job[s].held => cb[s] = job[s].owner
  /\ \A i \in DOMAIN reports : reports[i].held => cb[reports[i].sv] = reports[i].owner
  /\ \A u \in Callers : InCall(u) /\ call[u].held => cb[Service(u)] = u /\ Script[call[u].fn].registers = "before"
  /\ handling.held => handling.to = handling.owner
  /\ handling.pc = "idle" => handling.sv = "none"

(* Where the callers are patient there is one request of service s at a    *)
(* time: it is called, runs, is reported, or is being handled.             *)
NotReported(s) == \A i \in DOMAIN reports : reports[i].sv # s

OneRequest(s) ==
  /\ \A u, v \in Callers : Asks(u, s) /\ Asks(v, s) => u = v
  /\ \A u \in Callers : Asks(u, s) /\ call[u].pc = "ready" => opened[s] = Nobody
  /\ \A u \in Callers : Asks(u, s) /\ call[u].pc = "sent" => NotReported(s)
  /\ \A u \in Callers : Asks(u, s) /\ call[u].pc # "answered" => cb[s] = u
  /\ opened[s] # Nobody => cb[s] = opened[s]
  /\ job[s].owner # Nobody => opened[s] = job[s].owner /\ NotReported(s)
  /\ \A i, j \in DOMAIN reports : reports[i].sv = s /\ reports[j].sv = s => i = j /\ opened[s] # Nobody
  /\ handling.from = s => opened[s] = Nobody /\ \A u \in Callers : Asks(u, s) => call[u].pc = "answered"
  /\ handling.sv = s => handling.from = s /\ handling.to # Nobody

PatienceInv == \A s \in Patient : OneRequest(s)

ShapeInv == CallsInv /\ ChannelInv /\ TablesInv /\ ReportsInv /\ MessagesInv
IInv == ShapeInv /\ HeldInv /\ PatienceInv

-----------------------------------------------------------------------------
(* What the functions ask for.                                             *)
LEMMA Scripts ==
  ASSUME NEW f, f \in Functions
  PROVE  /\ DOMAIN Script[f].cmds = 1..Len(Script[f].cmds) /\ Script[f].cmds # <<>> /\ 1 \in DOMAIN Script[f].cmds
         /\ Script[f].sv \in Services \cup {"none"}
         /\ Script[f].registers = "before" => Script[f].sv \in Services \ {"ftpget", "ftpput"}
         /\ Script[f].registers = "after" => Script[f].sv \in {"ftpget", "ftpput"}
         /\ \/ Script[f].cmds = <<"start">> \/ Script[f].sv \in {"none", "loc"}
<1>1. f \in {"RIL_HTTP_DownloadFile", "RIL_FTP_QFTPGET", "RIL_FTP_QFTPPUT", "RIL_GetLocation",
             "RIL_GetLocationByCell", "RIL_GetLocation_Ex", "RIL_QLBS_Loc", "RIL_NTP_START",
             "RIL_GPS_CMD_Send", "RIL_WDTMF_Send", "RIL_ToneDet_Open", "RIL_HTTP_SetServerURL",
             "RIL_HTTP_RequestToGet", "RIL_HTTP_RequestToPost", "RIL_HTTP_ReadResponse",
             "RIL_QLBS_Cfg_on", "RIL_QLBS_Cfg_off"}
  BY DEF Functions, Script
<1>2. /\ Script["RIL_HTTP_DownloadFile"] = Request("http", <<"start">>, "before")
      /\ Script["RIL_FTP_QFTPGET"] = Request("ftpget", <<"start">>, "after")
      /\ Script["RIL_FTP_QFTPPUT"] = Request("ftpput", <<"start">>, "after")
      /\ Script["RIL_GetLocation"] = Request("loc", <<"asynch", "start">>, "before")
      /\ Script["RIL_GetLocationByCell"] = Request("loc", <<"asynch", "start">>, "before")
      /\ Script["RIL_GetLocation_Ex"] = Request("loc", <<"synch", "start">>, "never")
      /\ Script["RIL_QLBS_Loc"] = Request("qlbs", <<"start">>, "before")
      /\ Script["RIL_NTP_START"] = Request("ntp", <<"start">>, "before")
      /\ Script["RIL_GPS_CMD_Send"] = Request("gps", <<"start">>, "before")
  BY DEF Script, RIL_HTTP_DownloadFile, RIL_FTP_QFTPGET, RIL_FTP_QFTPPUT, RIL_GetLocation, RIL_GetLocationByCell,
         RIL_GetLocation_Ex, RIL_QLBS_Loc, RIL_NTP_START, RIL_GPS_CMD_Send
<1>3. /\ Script["RIL_WDTMF_Send"] = Request("wdtmf", <<"start">>, "before")
      /\ Script["RIL_ToneDet_Open"] = Request("tone", <<"start">>, "before")
      /\ Script["RIL_HTTP_SetServerURL"] = Request("none", <<"url">>, "never")
      /\ Script["RIL_HTTP_RequestToGet"] = Request("none", <<"get">>, "never")
      /\ Script["RIL_HTTP_RequestToPost"] = Request("none", <<"post">>, "never")
      /\ Script["RIL_HTTP_ReadResponse"] = Request("none", <<"read">>, "never")
      /\ Script["RIL_QLBS_Cfg_on"] = Request("none", <<"timeOn">>, "never")
      /\ Script["RIL_QLBS_Cfg_off"] = Request("none", <<"timeOff">>, "never")
  BY DEF Script, RIL_WDTMF_Send, RIL_ToneDet_Open, RIL_HTTP_SetServerURL, RIL_HTTP_RequestToGet,
         RIL_HTTP_RequestToPost, RIL_HTTP_ReadResponse, RIL_QLBS_Cfg
<1>4. \A sv, cmds, r : /\ Request(sv, cmds, r).sv = sv /\ Request(sv, cmds, r).cmds = cmds
                      /\ Request(sv, cmds, r).registers = r
  BY DEF Request
<1>5. \A a, b : /\ <<a>> # <<>> /\ DOMAIN <<a>> = 1..1 /\ Len(<<a>>) = 1
               /\ <<a, b>> # <<>> /\ DOMAIN <<a, b>> = 1..2 /\ Len(<<a, b>>) = 2
  OBVIOUS
<1>6. f \in {"RIL_HTTP_DownloadFile", "RIL_FTP_QFTPGET", "RIL_FTP_QFTPPUT", "RIL_GetLocation",
             "RIL_GetLocationByCell", "RIL_GetLocation_Ex", "RIL_QLBS_Loc", "RIL_NTP_START",
             "RIL_GPS_CMD_Send"} =>
         \/ Script[f].sv \in {"http", "qlbs", "ntp", "gps"} /\ Script[f].registers = "before" /\ Script[f].cmds = <<"start">>
         \/ Script[f].sv \in {"ftpget", "ftpput"} /\ Script[f].registers = "after" /\ Script[f].cmds = <<"start">>
         \/ /\ Script[f].sv = "loc" /\ Script[f].registers \in {"before", "never"}
            /\ Script[f].cmds = <<"asynch", "start">> \/ Script[f].cmds = <<"synch", "start">>
  BY <1>2 DEF Request
<1>7. f \notin {"RIL_HTTP_DownloadFile", "RIL_FTP_QFTPGET", "RIL_FTP_QFTPPUT", "RIL_GetLocation",
             "RIL_GetLocationByCell", "RIL_GetLocation_Ex", "RIL_QLBS_Loc", "RIL_NTP_START",
             "RIL_GPS_CMD_Send"} =>
         \/ Script[f].sv \in {"wdtmf", "tone"} /\ Script[f].registers = "before" /\ Script[f].cmds = <<"start">>
         \/ Script[f].sv = "none" /\ Script[f].registers = "never"
            /\ Script[f].cmds # <<>> /\ DOMAIN Script[f].cmds = 1..1 /\ Len(Script[f].cmds) = 1
  BY <1>1, <1>3 DEF Request
<1> QED
  BY <1>5, <1>6, <1>7 DEF Services

(* Patience is with services whose requests have one command and register  *)
(* first.                                                                  *)
LEMMA Patients ==
  ASSUME NEW s, s \in Patient
  PROVE  /\ s \in Services \ {"none", "tone", "loc", "ftpget", "ftpput"}
         /\ \A f \in Functions : Script[f].sv = s => Script[f].registers = "before" /\ Script[f].cmds = <<"start">>
<1>1. s \in Services \ {"tone"} /\ s # "none"
  BY PatientRegisterFirst DEF Services, Sessions
<1>2. /\ Script["RIL_FTP_QFTPGET"].sv = "ftpget" /\ Script["RIL_FTP_QFTPGET"].registers = "after"
      /\ Script["RIL_FTP_QFTPPUT"].sv = "ftpput" /\ Script["RIL_FTP_QFTPPUT"].registers = "after"
      /\ Script["RIL_GetLocation_Ex"].sv = "loc" /\ Script["RIL_GetLocation_Ex"].registers = "never"
      /\ "RIL_FTP_QFTPGET" \in Functions /\ "RIL_FTP_QFTPPUT" \in Functions /\ "RIL_GetLocation_Ex" \in Functions
  BY DEF Script, Functions, Request, RIL_FTP_QFTPGET, RIL_FTP_QFTPPUT, RIL_GetLocation_Ex
<1>3. s \notin {"loc", "ftpget", "ftpput"}
  BY <1>2, PatientRegisterFirst
<1> QED
  BY <1>1, <1>3, Scripts, PatientRegisterFirst

LEMMA SequenceFacts ==
  ASSUME NEW s, IsSequence(s)
  PROVE  /\ Len(s) \in Nat /\ DOMAIN s = 1..Len(s)
         /\ \A x : /\ IsSequence(Append(s, x)) /\ Len(Append(s, x)) = Len(s) + 1
                   /\ Append(s, x)[Len(s) + 1] = x
                   /\ \A i \in 1..Len(s) : Append(s, x)[i] = s[i]
         /\ s # <<>> => /\ IsSequence(Tail(s)) /\ Len(Tail(s)) = Len(s) - 1 /\ Len(s) > 0
                        /\ Head(s) = s[1] /\ \A i \in 1..Len(Tail(s)) : Tail(s)[i] = s[i + 1]
<1>1. PICK S : s \in Seq(S)
  BY DEF IsSequence
<1>2. ASSUME NEW x
      PROVE  /\ IsSequence(Append(s, x)) /\ Len(Append(s, x)) = Len(s) + 1
             /\ Append(s, x)[Len(s) + 1] = x /\ \A i \in 1..Len(s) : Append(s, x)[i] = s[i]
  <2>1. s \in Seq(S \cup {x}) /\ x \in S \cup {x}
    BY <1>1
  <2>2. /\ Append(s, x) \in Seq(S \cup {x}) /\ Len(Append(s, x)) = Len(s) + 1
        /\ Append(s, x)[Len(s) + 1] = x /\ \A i \in 1..Len(s) : Append(s, x)[i] = s[i]
    BY <2>1, AppendProperties
  <2> QED
    BY <2>2 DEF IsSequence
<1>3. s # <<>> => /\ Tail(s) \in Seq(S) /\ Len(Tail(s)) = Len(s) - 1 /\ Len(s) > 0
                  /\ Head(s) = s[1] /\ \A i \in 1..Len(Tail(s)) : Tail(s)[i] = s[i + 1]
  BY <1>1
<1> QED
  BY <1>1, <1>2, <1>3 DEF IsSequence

-----------------------------------------------------------------------------
(* What is changed where a callback is registered or cleared.              *)
LEMMA LosesJobs ==
  ASSUME TablesInv, NEW s, NEW c, NEW jobs, jobs = LoseJobs(s, c)
  PROVE  /\ DOMAIN jobs = Services
         /\ \A t \in Services :
              /\ DOMAIN jobs[t] = {"owner", "held"} /\ jobs[t].held \in BOOLEAN /\ jobs[t].owner = job[t].owner
              /\ jobs[t].held => job[t].held /\ (t = s => job[t].owner = c)
  BY DEF LoseJobs, TablesInv

LEMMA HoldsJobs ==
  ASSUME TablesInv, NEW s, NEW c, NEW jobs, jobs = HoldJobs(s, c)
  PROVE  /\ DOMAIN jobs = Services
         /\ \A t \in Services :
              /\ DOMAIN jobs[t] = {"owner", "held"} /\ jobs[t].held \in BOOLEAN /\ jobs[t].owner = job[t].owner
              /\ jobs[t].held => IF t = s THEN job[t].owner = c ELSE job[t].held
<1>1. PICK js : js = LoseJobs(s, c)
  OBVIOUS
<1>2. /\ DOMAIN js = Services
      /\ \A t \in Services :
           /\ DOMAIN js[t] = {"owner", "held"} /\ js[t].held \in BOOLEAN /\ js[t].owner = job[t].owner
           /\ js[t].held => job[t].held
  BY <1>1, LosesJobs
<1>3. jobs = [js EXCEPT ![s].held = job[s].owner = c]
  BY <1>1 DEF HoldJobs
<1>4. DOMAIN jobs = Services
  BY <1>2, <1>3
<1>5. ASSUME NEW t \in Services
      PROVE  /\ DOMAIN jobs[t] = {"owner", "held"} /\ jobs[t].held \in BOOLEAN /\ jobs[t].owner = job[t].owner
             /\ jobs[t].held => IF t = s THEN job[t].owner = c ELSE job[t].held
  <2>1. CASE t # s
    <3>1. jobs[t] = js[t]
      BY <1>2, <1>3, <2>1
    <3> QED
      BY <1>2, <2>1, <3>1
  <2>2. CASE t = s
    <3>1. jobs[t] = [js[t] EXCEPT !.held = (job[s].owner = c)]
      BY <1>2, <1>3, <2>2
    <3>2. (job[s].owner = c) \in BOOLEAN
      OBVIOUS
    <3> QED
      BY <1>2, <2>2, <3>1, <3>2
  <2> QED
    BY <2>1, <2>2
<1> QED
  BY <1>4, <1>5

(* A function on the places of the reports is a queue as long as theirs.   *)
LEMMA Replaced ==
  ASSUME ReportsInv, NEW rs, DOMAIN rs = DOMAIN reports, rs = [i \in DOMAIN reports |-> rs[i]]
  PROVE  IsSequence(rs) /\ Len(rs) = Len(reports)
<1>1. DOMAIN reports = 1..Len(reports) /\ Len(reports) \in Nat
  BY SequenceFacts DEF ReportsInv
<1>2. rs \in Seq({rs[i] : i \in DOMAIN reports})
  BY <1>1
<1>3. Len(rs) = Len(reports)
  BY <1>1, <1>2
<1> QED
  BY <1>2, <1>3 DEF IsSequence

LEMMA LosesReports ==
  ASSUME ReportsInv, NEW s, NEW c, NEW rs, rs = LoseReports(s, c)
  PROVE  /\ IsSequence(rs) /\ Len(rs) = Len(reports) /\ DOMAIN rs = DOMAIN reports
         /\ \A i \in DOMAIN reports :
              /\ AReport(rs[i]) /\ rs[i].sv = reports[i].sv /\ rs[i].owner = reports[i].owner
              /\ rs[i].held => reports[i].held /\ (reports[i].sv = s => reports[i].owner = c)
<1>1. DOMAIN rs = DOMAIN reports /\ rs = [i \in DOMAIN reports |-> rs[i]]
  BY DEF LoseReports
<1>2. \A i \in DOMAIN reports :
        rs[i] = [reports[i] EXCEPT !.held = @ /\ (reports[i].sv = s => reports[i].owner = c)]
  BY DEF LoseReports
<1>3. ASSUME NEW i \in DOMAIN reports
      PROVE  /\ AReport(rs[i]) /\ rs[i].sv = reports[i].sv /\ rs[i].owner = reports[i].owner
             /\ rs[i].held => reports[i].held /\ (reports[i].sv = s => reports[i].owner = c)
  <2>1. AReport(reports[i])
    BY DEF ReportsInv
  <2> QED
    BY <1>2, <2>1 DEF AReport
<1> QED
  BY <1>1, <1>3, Replaced

LEMMA HoldsReports ==
  ASSUME ReportsInv, NEW s, NEW c, NEW rs, rs = HoldReports(s, c)
  PROVE  /\ IsSequence(rs) /\ Len(rs) = Len(reports) /\ DOMAIN rs = DOMAIN reports
         /\ \A i \in DOMAIN reports :
              /\ AReport(rs[i]) /\ rs[i].sv = reports[i].sv /\ rs[i].owner = reports[i].owner
              /\ rs[i].held => IF reports[i].sv = s THEN reports[i].owner = c ELSE reports[i].held
<1>1. DOMAIN rs = DOMAIN reports /\ rs = [i \in DOMAIN reports |-> rs[i]]
  BY DEF HoldReports
<1>2. \A i \in DOMAIN reports :
        /\ reports[i].sv = s => rs[i] = [reports[i] EXCEPT !.held = (reports[i].owner = c)]
        /\ reports[i].sv # s => rs[i] = [reports[i] EXCEPT !.held = @]
  BY DEF HoldReports
<1>3. ASSUME NEW i \in DOMAIN reports
      PROVE  /\ AReport(rs[i]) /\ rs[i].sv = reports[i].sv /\ rs[i].owner = reports[i].owner
             /\ rs[i].held => IF reports[i].sv = s THEN reports[i].owner = c ELSE reports[i].held
  <2>1. AReport(reports[i])
    BY DEF ReportsInv
  <2>2. CASE reports[i].sv = s
    BY <1>2, <2>1, <2>2 DEF AReport
  <2>3. CASE reports[i].sv # s
    BY <1>2, <2>1, <2>3 DEF AReport
  <2> QED
    BY <2>2, <2>3
<1> QED
  BY <1>1, <1>3, Replaced

(* Where k2 is the call k but for what the history notes.                  *)
Same(k2, k) == k2.pc = k.pc /\ k2.fn = k.fn /\ k2.step = k.step

LEMMA LosesCalls ==
  ASSUME CallsInv, NEW s, NEW c, NEW cs, cs = LoseCalls(s, c)
  PROVE  /\ DOMAIN cs = Callers
         /\ \A u \in Callers : /\ ACall(u, cs[u]) /\ Same(cs[u], call[u])
                               /\ cs[u].held => call[u].held /\ (Asks(u, s) => u = c)
<1>1. \A u \in Callers : cs[u] = [call[u] EXCEPT !.held = @ /\ (Asks(u, s) => u = c)]
  BY DEF LoseCalls
<1> QED
  BY <1>1, ZenonT(60) DEF LoseCalls, CallsInv, ACall, Same

LEMMA Disturbs ==
  ASSUME NEW cs, NEW us, NEW ds, ds = Disturb(cs, us), \A u \in Callers : ACall(u, cs[u])
  PROVE  /\ DOMAIN ds = Callers
         /\ \A u \in Callers : ACall(u, ds[u]) /\ Same(ds[u], cs[u]) /\ ds[u].held = cs[u].held
<1>1. \A u \in Callers : ds[u] = [cs[u] EXCEPT !.disturbed = @ \/ u \in us]
  BY DEF Disturb
<1> QED
  BY <1>1 DEF Disturb, ACall, Same

-----------------------------------------------------------------------------
LEMMA InitOK ==
  ASSUME Init
  PROVE  IInv
<1> USE NobodyIsNoCaller DEF Init, TrInit, UrcInit
<1>1. (\A u : ACall(u, NoCall)) /\ NoCall.pc = "idle" /\ NoCall.held = FALSE
  BY DEF NoCall, ACall, Pcs
<1>2. \A u \in Callers : call[u] = NoCall
  OBVIOUS
<1>3. CallsInv
  BY <1>1, <1>2 DEF CallsInv
<1>4. ChannelInv
  <2>1. DOMAIN Free = {"task", "lines"} /\ Free.task = Nobody
    BY DEF Free
  <2> QED
    BY <1>1, <1>2, <2>1 DEF ChannelInv
<1>5. TablesInv
  BY DEF TablesInv, NoJob
<1>6. reports = <<>> /\ IsSequence(<<>>) /\ Len(<<>>) = 0 /\ DOMAIN <<>> = {}
  BY DEF IsSequence
<1>7. ReportsInv
  BY <1>6, BoundsAreNumbers DEF ReportsInv
<1>8. MessagesInv
  BY <1>6, BoundsAreNumbers DEF MessagesInv
<1>9. \A u \in Callers : ~InCall(u)
  BY <1>1, <1>2 DEF InCall
<1>10. handling.held = FALSE /\ handling.from = "none" /\ handling.sv = "none"
  BY DEF Idle
<1>11. HeldInv
  <2>1. \A s \in Services : job[s].held = FALSE
    BY DEF NoJob
  <2> QED
    BY <1>6, <1>9, <1>10, <2>1 DEF HeldInv
<1>12. PatienceInv
  <2> SUFFICES ASSUME NEW s \in Patient
               PROVE  OneRequest(s)
    BY DEF PatienceInv
  <2>1. s \in Services /\ s # "none"
    BY Patients
  <2>2. opened[s] = Nobody /\ job[s].owner = Nobody
    BY <2>1 DEF NoJob
  <2>3. \A u \in Callers : ~Asks(u, s)
    BY <1>9 DEF Asks
  <2> HIDE DEF Init, TrInit, UrcInit
  <2> QED
    BY <1>6, <1>10, <2>1, <2>2, <2>3 DEF OneRequest
<1> QED
  BY <1>3, <1>4, <1>5, <1>7, <1>8, <1>11, <1>12 DEF IInv, ShapeInv

-----------------------------------------------------------------------------
(* Nothing new is asked of service s and nothing is reported of it.        *)
LEMMA Stays ==
  ASSUME NEW s, OneRequest(s),
         \A u \in Callers : Asks(u, s)' => Asks(u, s) /\ call'[u].pc \in {call[u].pc, "answered"},
         opened'[s] = opened[s], job'[s].owner = job[s].owner, cb'[s] = cb[s], DOMAIN reports' = DOMAIN reports,
         \A i \in DOMAIN reports : reports'[i].sv = reports[i].sv,
         handling' = handling
  PROVE  OneRequest(s)'
  BY DEF OneRequest, NotReported

(* What a caller asks for, and if it is in a call, goes by its own call.   *)
LEMMA ByItsCall ==
  ASSUME NEW u \in Callers, NEW k, call'[u] = k
  PROVE  /\ InCall(u)' <=> k.pc \in {"ready", "sent", "answered"}
         /\ Service(u)' = Script[k.fn].sv
         /\ \A s : Asks(u, s)' <=> k.pc \in {"ready", "sent", "answered"} /\ Script[k.fn].sv = s
  BY DEF InCall, Service, Asks

LEMMA ByItsCallNow ==
  ASSUME NEW u \in Callers, NEW k, call[u] = k
  PROVE  /\ InCall(u) <=> k.pc \in {"ready", "sent", "answered"}
         /\ Service(u) = Script[k.fn].sv
         /\ \A s : Asks(u, s) <=> k.pc \in {"ready", "sent", "answered"} /\ Script[k.fn].sv = s
  BY DEF InCall, Service, Asks

(* Only the call of c goes on, to record k.                                *)
LEMMA CallGoesOn ==
  ASSUME IInv, NEW c \in Callers, NEW k, ACall(c, k),
         DOMAIN call' = Callers, call'[c] = k, \A u \in Callers \ {c} : call'[u] = call[u],
         k.pc \in {"ready", "sent", "answered"} =>
            /\ InCall(c) /\ k.fn = call[c].fn /\ (k.held => call[c].held)
            /\ Service(c) \in Patient => k.pc \in {call[c].pc, "answered"},
         ChannelInv', UNCHANGED <<cb, job, reports, handling, opened>>, UNCHANGED urcVars
  PROVE  IInv'
<1>1. DOMAIN call = Callers /\ \A u \in Callers : ACall(u, call[u])
  BY DEF IInv, ShapeInv, CallsInv
<1>2. DOMAIN call' = Callers /\ call'[c] = k /\ \A u \in Callers \ {c} : call'[u] = call[u]
  OBVIOUS
<1>3. ShapeInv'
  <2>1. CallsInv'
    BY <1>1, <1>2 DEF CallsInv
  <2> QED
    BY <2>1 DEF IInv, ShapeInv, TablesInv, ReportsInv, MessagesInv, urcVars
<1>4. \A u \in Callers \ {c} : /\ InCall(u)' = InCall(u) /\ Service(u)' = Service(u)
                               /\ \A s : Asks(u, s)' = Asks(u, s)
  BY <1>2 DEF InCall, Service, Asks
<1>5. HeldInv'
  <2>1. ASSUME NEW u \in Callers, InCall(u)', call'[u].held
        PROVE  cb[Service(u)'] = u /\ Script[call'[u].fn].registers = "before"
    <3>1. InCall(u) /\ call[u].held /\ Service(u)' = Service(u) /\ call'[u].fn = call[u].fn
      BY <1>2, <1>4, <2>1, ByItsCall DEF InCall, Service
    <3> QED
      BY <3>1 DEF IInv, HeldInv
  <2> QED
    BY <2>1 DEF IInv, HeldInv
<1>6. ASSUME NEW s \in Patient
      PROVE  OneRequest(s)'
  <2>1. ASSUME NEW u \in Callers, Asks(u, s)'
        PROVE  Asks(u, s) /\ call'[u].pc \in {call[u].pc, "answered"}
    <3>1. CASE u = c
      BY <1>2, <2>1, <3>1, ByItsCall DEF InCall, Service, Asks
    <3>2. CASE u # c
      BY <1>2, <1>4, <2>1, <3>2
    <3> QED
      BY <3>1, <3>2
  <2>2. OneRequest(s)
    BY DEF IInv, PatienceInv
  <2> QED
    BY <2>1, <2>2, Stays
<1> QED
  BY <1>3, <1>5, <1>6 DEF IInv, PatienceInv

LEMMA Fields ==
  ASSUME IInv, NEW c \in Callers
  PROVE  /\ ACall(c, call[c]) /\ DOMAIN call = Callers
         /\ call[c].pc # "idle" => call[c].fn \in Functions
         /\ DOMAIN waiting = {"task", "lines"}
         /\ \A u \in Callers : call[u].pc = "sent" <=> waiting.task = u
<1>1. ACall(c, call[c]) /\ DOMAIN call = Callers
  BY DEF IInv, ShapeInv, CallsInv
<1>2. call[c].pc # "idle" => call[c].fn \in Functions
  BY <1>1, CallersCallFunctions DEF ACall
<1> QED
  BY <1>1, <1>2 DEF IInv, ShapeInv, ChannelInv

LEMMA Becomes ==
  ASSUME IInv, NEW c \in Callers, NEW k, call' = [call EXCEPT ![c] = k]
  PROVE  DOMAIN call' = Callers /\ call'[c] = k /\ \A u \in Callers \ {c} : call'[u] = call[u]
  BY Fields

(* The channel when it is given back, and when it stays with others.       *)
LEMMA ChannelFreed ==
  ASSUME IInv, NEW c \in Callers, waiting.task = c, waiting' = Free, call'[c].pc # "sent",
         \A u \in Callers \ {c} : call'[u].pc = call[u].pc
  PROVE  ChannelInv'
<1>1. DOMAIN Free = {"task", "lines"} /\ Free.task = Nobody
  BY DEF Free
<1> QED
  BY <1>1, Fields, NobodyIsNoCaller DEF ChannelInv

LEMMA ChannelStays ==
  ASSUME IInv, UNCHANGED waiting, \A u \in Callers : call'[u].pc = "sent" <=> call[u].pc = "sent"
  PROVE  ChannelInv'
  BY DEF IInv, ShapeInv, ChannelInv

LEMMA BusyOK ==
  ASSUME IInv, NEW c \in Callers, Busy(c), UNCHANGED urcVars
  PROVE  IInv'
<1> DEFINE k == [call[c] EXCEPT !.pc = "answered", !.ret = "busy"]
<1>1. /\ call' = [call EXCEPT ![c] = k] /\ call[c].pc = "ready"
      /\ UNCHANGED <<waiting, cb, job, reports, handling, opened>>
  BY DEF Busy
<1>2. ACall(c, k) /\ k.fn = call[c].fn /\ k.pc = "answered" /\ k.held = call[c].held
  BY <1>1, Fields DEF ACall, Pcs
<1> HIDE DEF k
<1>3. ChannelInv'
  BY <1>1, <1>2, Fields, ChannelStays
<1>4. InCall(c)
  BY <1>1 DEF InCall
<1> QED
  BY <1>1, <1>2, <1>3, <1>4, Becomes, CallGoesOn

LEMMA TimeoutOK ==
  ASSUME IInv, NEW c \in Callers, Timeout(c), UNCHANGED urcVars
  PROVE  IInv'
<1> DEFINE k == [call[c] EXCEPT !.pc = "answered", !.ret = "timeout"]
<1>1. /\ call' = [call EXCEPT ![c] = k] /\ waiting.task = c /\ waiting' = Free
      /\ UNCHANGED <<cb, job, reports, handling, opened>>
  BY DEF Timeout
<1>2. call[c].pc = "sent"
  BY <1>1, Fields
<1>3. ACall(c, k) /\ k.fn = call[c].fn /\ k.pc = "answered" /\ k.held = call[c].held
  BY <1>2, Fields DEF ACall, Pcs
<1> HIDE DEF k
<1>4. ChannelInv'
  BY <1>1, <1>3, Fields, ChannelFreed
<1>5. InCall(c)
  BY <1>2 DEF InCall
<1> QED
  BY <1>1, <1>3, <1>4, <1>5, Becomes, CallGoesOn

(* A line that does not end the command leaves the rest of a response.     *)
LEMMA RestOfResponse ==
  ASSUME NEW lines \in Responses
  PROVE  Head(lines) \notin {"OK", "ERROR"} => Tail(lines) \in Responses
<1>1. CASE lines = <<"OK">> \/ lines = <<"ERROR">>
  BY <1>1
<1>2. CASE lines = <<"CONNECT", "OK">> \/ lines = <<"data", "OK">> \/ lines = <<"+QCELLLOC:", "OK">>
  <2>1. \A l : Tail(<<l, "OK">>) = <<"OK">>
    OBVIOUS
  <2> QED
    BY <1>2, <2>1 DEF Responses
<1>3. CASE lines = <<"CONNECT", "data", "OK">>
  <2>1. Tail(lines) = <<"data", "OK">>
    BY <1>3
  <2> QED
    BY <2>1 DEF Responses
<1> QED
  BY <1>1, <1>2, <1>3 DEF Responses

LEMMA TakeLineOK ==
  ASSUME IInv, NEW c \in Callers, TakeLine(c), UNCHANGED urcVars
  PROVE  IInv'
<1> DEFINE line == Head(waiting.lines)
           ends == line \in {"OK", "ERROR"}
<1>1. /\ waiting.task = c /\ waiting' = (IF ends THEN Free ELSE [waiting EXCEPT !.lines = Tail(@)])
      /\ UNCHANGED <<cb, job, reports, handling, opened>>
  BY DEF TakeLine
<1>2. call[c].pc = "sent" /\ ACall(c, call[c]) /\ DOMAIN call = Callers
  BY <1>1, Fields
<1>3. PICK k : /\ DOMAIN call' = Callers /\ call'[c] = k /\ \A u \in Callers \ {c} : call'[u] = call[u]
               /\ ACall(c, k) /\ k.fn = call[c].fn /\ k.held = call[c].held
               /\ k.pc = IF ends THEN "answered" ELSE "sent"
  <2>1. CASE ends
    <3>1. \E v : call' = [call EXCEPT ![c].pc = "answered", ![c].ret = v]
      BY <2>1 DEF TakeLine
    <3>2. PICK v : call' = [call EXCEPT ![c] = [call[c] EXCEPT !.pc = "answered", !.ret = v]]
      BY <3>1, <1>2
    <3> DEFINE k == [call[c] EXCEPT !.pc = "answered", !.ret = v]
    <3>3. ACall(c, k) /\ k.fn = call[c].fn /\ k.held = call[c].held /\ k.pc = "answered"
      BY <1>2 DEF ACall, Pcs
    <3> QED
      BY <1>2, <2>1, <3>2, <3>3
  <2>2. CASE ~ends
    <3>1. \E v : \/ call' = [call EXCEPT ![c].wrote = v] \/ call' = [call EXCEPT ![c].place = v]
                 \/ call' = call
      BY <2>2 DEF TakeLine
    <3>2. PICK v : /\ DOMAIN call' = Callers /\ \A u \in Callers \ {c} : call'[u] = call[u]
                   /\ \/ call'[c] = [call[c] EXCEPT !.wrote = v]
                      \/ call'[c] = [call[c] EXCEPT !.place = v]
                      \/ call'[c] = call[c]
      BY <3>1, <1>2
    <3> DEFINE k1 == [call[c] EXCEPT !.wrote = v]
               k2 == [call[c] EXCEPT !.place = v]
    <3>3. /\ ACall(c, k1) /\ k1.fn = call[c].fn /\ k1.held = call[c].held /\ k1.pc = "sent"
          /\ ACall(c, k2) /\ k2.fn = call[c].fn /\ k2.held = call[c].held /\ k2.pc = "sent"
      BY <1>2 DEF ACall, Pcs
    <3> QED
      BY <1>2, <2>2, <3>2, <3>3
  <2> QED
    BY <2>1, <2>2
<1>4. call'[c] = k /\ \A u \in Callers \ {c} : call'[u] = call[u]
  BY <1>3
<1>5. ChannelInv'
  <2>1. CASE ends
    BY <1>1, <1>3, <1>4, <2>1, ChannelFreed
  <2>2. CASE ~ends
    <3>1. waiting.lines \in Responses /\ DOMAIN waiting = {"task", "lines"}
      BY <1>1, NobodyIsNoCaller DEF IInv, ShapeInv, ChannelInv, Free
    <3>2. DOMAIN waiting' = {"task", "lines"} /\ waiting'.task = c /\ waiting'.lines = Tail(waiting.lines)
      BY <1>1, <2>2, <3>1
    <3>3. waiting'.lines \in Responses
      BY <2>2, <3>1, <3>2, RestOfResponse
    <3>4. \A u \in Callers : call'[u].pc = "sent" <=> waiting'.task = u
      BY <1>1, <1>3, <1>4, <2>2, <3>2, Fields
    <3> QED
      BY <3>2, <3>3, <3>4 DEF ChannelInv
  <2> QED
    BY <2>1, <2>2
<1>6. InCall(c)
  BY <1>2 DEF InCall
<1> QED
  BY <1>1, <1>2, <1>3, <1>5, <1>6, CallGoesOn

LEMMA NextCommandOK ==
  ASSUME IInv, NEW c \in Callers, NextCommand(c), UNCHANGED urcVars
  PROVE  IInv'
<1> DEFINE k == [call[c] EXCEPT !.pc = "ready", !.step = @ + 1, !.skipped = call[c].ret # "success"]
<1>1. /\ call' = [call EXCEPT ![c] = k] /\ call[c].pc = "answered" /\ GoesOn(c)
      /\ UNCHANGED <<waiting, cb, job, reports, handling, opened>>
  BY DEF NextCommand
<1>2. /\ ACall(c, call[c]) /\ call[c].fn \in Functions /\ call[c].step \in DOMAIN Script[call[c].fn].cmds
      /\ call[c].step < Len(Script[call[c].fn].cmds)
  BY <1>1, Fields DEF ACall, GoesOn
<1>3. /\ call[c].step + 1 \in DOMAIN Script[call[c].fn].cmds
      /\ Service(c) \notin Patient
  <2>1. Script[call[c].fn].cmds # <<"start">>
    <3>1. Len(<<"start">>) = 1 /\ DOMAIN <<"start">> = 1..1
      OBVIOUS
    <3>2. Script[call[c].fn].cmds = <<"start">> => call[c].step \in 1..1 /\ call[c].step < 1
      BY <1>2, <3>1, Zenon
    <3> QED
      BY <3>2
  <2>2. Service(c) \notin Patient
    BY <1>2, <2>1, Patients DEF Service
  <2>3. DOMAIN Script[call[c].fn].cmds = 1..Len(Script[call[c].fn].cmds)
    BY <1>2, Scripts
  <2> QED
    BY <1>2, <2>2, <2>3
<1>4. ACall(c, k) /\ k.fn = call[c].fn /\ k.pc = "ready" /\ k.held = call[c].held
  BY <1>1, <1>2, <1>3 DEF ACall, Pcs
<1> HIDE DEF k
<1>5. ChannelInv'
  BY <1>1, <1>4, Fields, ChannelStays
<1>6. InCall(c)
  BY <1>1 DEF InCall
<1> QED
  BY <1>1, <1>3, <1>4, <1>5, <1>6, Becomes, CallGoesOn

LEMMA ReturnOK ==
  ASSUME IInv, NEW c \in Callers, Return(c), UNCHANGED urcVars
  PROVE  IInv'
<1>1. /\ call' = [call EXCEPT ![c] = NoCall] /\ call[c].pc = "done"
      /\ UNCHANGED <<waiting, cb, job, reports, handling, opened>>
  BY DEF Return
<1>2. ACall(c, NoCall) /\ NoCall.pc = "idle"
  BY DEF ACall, NoCall, Pcs
<1>3. ChannelInv'
  BY <1>1, <1>2, Fields, ChannelStays
<1> QED
  BY <1>1, <1>2, <1>3, Becomes, CallGoesOn

-----------------------------------------------------------------------------
(* The callback is registered after the answer (FTP).                      *)
LEMMA FinishOK ==
  ASSUME IInv, NEW c \in Callers, Finish(c), UNCHANGED urcVars
  PROVE  IInv'
<1> DEFINE k == [call[c] EXCEPT !.pc = "done", !.place = Copied(c), !.held = FALSE]
           s == Service(c)
           last == Script[call[c].fn].registers = "after" /\ call[c].ret = "success"
<1>1. /\ call' = [call EXCEPT ![c] = k] /\ call[c].pc = "answered"
      /\ UNCHANGED <<waiting, handling, opened>>
      /\ cb' = IF last THEN [cb EXCEPT ![s] = c] ELSE cb
      /\ job' = IF last THEN HoldJobs(s, c) ELSE job
      /\ reports' = IF last THEN HoldReports(s, c) ELSE reports
  BY DEF Finish
<1>2. ACall(c, call[c]) /\ call[c].fn \in Functions
  BY <1>1, Fields
<1>3. ACall(c, k) /\ k.fn = call[c].fn /\ k.pc = "done" /\ k.held = FALSE
  BY <1>1, <1>2 DEF ACall, Pcs
<1> HIDE DEF k
<1>4. DOMAIN call' = Callers /\ call'[c] = k /\ \A u \in Callers \ {c} : call'[u] = call[u]
  BY <1>1, Becomes
<1>5. ChannelInv'
  BY <1>1, <1>3, <1>4, Fields, ChannelStays
<1>6. CASE ~last
  <2>1. UNCHANGED <<cb, job, reports>>
    BY <1>1, <1>6
  <2> QED
    BY <1>1, <1>3, <1>4, <1>5, <2>1, CallGoesOn
<1>7. CASE last
  <2>1. s \in {"ftpget", "ftpput"}
    BY <1>2, <1>7, Scripts DEF Service
  <2>2. s \in Services /\ s \notin Patient
    BY <2>1, Patients DEF Services
  <2>3. cb' = [cb EXCEPT ![s] = c] /\ job' = HoldJobs(s, c) /\ reports' = HoldReports(s, c)
    BY <1>1, <1>7
  <2> HIDE DEF s, last
  <2>4. TablesInv /\ ReportsInv /\ HeldInv /\ CallsInv /\ MessagesInv
    BY DEF IInv, ShapeInv
  <2>5. /\ DOMAIN job' = Services
        /\ \A t \in Services :
              /\ DOMAIN job'[t] = {"owner", "held"} /\ job'[t].held \in BOOLEAN /\ job'[t].owner = job[t].owner
              /\ job'[t].held => IF t = s THEN job[t].owner = c ELSE job[t].held
    BY <2>3, <2>4, HoldsJobs
  <2>6. /\ IsSequence(reports') /\ Len(reports') = Len(reports) /\ DOMAIN reports' = DOMAIN reports
        /\ \A i \in DOMAIN reports :
              /\ AReport(reports'[i]) /\ reports'[i].sv = reports[i].sv /\ reports'[i].owner = reports[i].owner
              /\ reports'[i].held => IF reports[i].sv = s THEN reports[i].owner = c ELSE reports[i].held
    BY <2>3, <2>4, HoldsReports
  <2>7. cb'[s] = c /\ cb' \in [Services -> Callers \cup {Nobody}] /\ \A t \in Services \ {s} : cb'[t] = cb[t]
    BY <2>2, <2>3, <2>4 DEF TablesInv
  <2>8. ShapeInv'
    <3>1. CallsInv'
      BY <1>3, <1>4, <2>4 DEF CallsInv
    <3>2. TablesInv'
      BY <1>1, <2>4, <2>5, <2>7 DEF TablesInv
    <3>3. ReportsInv' /\ MessagesInv'
      BY <2>4, <2>6 DEF ReportsInv, MessagesInv, urcVars
    <3> QED
      BY <1>5, <3>1, <3>2, <3>3 DEF ShapeInv
  <2>9. HeldInv'
    <3>1. \A t \in Services : job'[t].held => cb'[t] = job'[t].owner
      BY <2>4, <2>5, <2>7 DEF HeldInv
    <3>2. \A i \in DOMAIN reports' : reports'[i].held => cb'[reports'[i].sv] = reports'[i].owner
      BY <2>4, <2>6, <2>7 DEF HeldInv, ReportsInv, AReport
    <3>3. ASSUME NEW u \in Callers, InCall(u)', call'[u].held
          PROVE  cb'[Service(u)'] = u /\ Script[call'[u].fn].registers = "before"
      <4>1. u # c /\ call'[u] = call[u]
        BY <1>3, <1>4, <3>3
      <4>2. InCall(u) /\ call[u].held /\ Service(u)' = Service(u)
        BY <3>3, <4>1 DEF InCall, Service
      <4>3. call[u].fn \in Functions
        BY <4>2, Fields DEF InCall
      <4>4. Service(u) \in Services /\ Service(u) # s
        BY <2>1, <2>4, <4>2, <4>3, Scripts DEF HeldInv, Service
      <4> QED
        BY <2>4, <2>7, <4>1, <4>2, <4>4 DEF HeldInv
    <3> QED
      BY <1>1, <2>4, <3>1, <3>2, <3>3 DEF HeldInv
  <2>10. ASSUME NEW t \in Patient
         PROVE  OneRequest(t)'
    <3>1. \A u \in Callers : Asks(u, t)' => Asks(u, t) /\ call'[u].pc \in {call[u].pc, "answered"}
      BY <1>3, <1>4 DEF Asks, InCall, Service
    <3>2. OneRequest(t) /\ t \in Services /\ t # s
      BY <2>2, Patients DEF IInv, PatienceInv
    <3> QED
      BY <1>1, <2>5, <2>6, <2>7, <3>1, <3>2, Stays
  <2> QED
    BY <2>8, <2>9, <2>10 DEF IInv, PatienceInv
<1> QED
  BY <1>6, <1>7

(* The callback is registered before the command.                          *)
LEMMA CallOK ==
  ASSUME IInv, NEW c \in Callers, NEW f \in MayCall[c], Call(c, f), UNCHANGED urcVars
  PROVE  IInv'
<1> DEFINE s == Script[f].sv
           first == Script[f].registers = "before"
           k == [NoCall EXCEPT !.pc = "ready", !.fn = f, !.held = first]
<1>1. f \in Functions
  BY CallersCallFunctions
<1>2. TablesInv /\ ReportsInv /\ HeldInv /\ CallsInv /\ MessagesInv /\ ChannelInv /\ PatienceInv
  BY DEF IInv, ShapeInv
<1>3. PICK us : call' = [Disturb(IF first THEN LoseCalls(s, c) ELSE call, us) EXCEPT ![c] = k]
  BY DEF Call
<1>4. /\ call[c].pc = "idle" /\ (s \in Patient => Waits(c, s)) /\ UNCHANGED <<waiting, handling, opened>>
      /\ cb' = IF first THEN [cb EXCEPT ![s] = c] ELSE cb
      /\ job' = IF first THEN LoseJobs(s, c) ELSE job
      /\ reports' = IF first THEN LoseReports(s, c) ELSE reports
  BY DEF Call, Registers
<1>5. ACall(c, k) /\ k.pc = "ready" /\ k.fn = f /\ k.held = first
  <2>1. 1 \in DOMAIN Script[f].cmds
    BY <1>1, Scripts
  <2> QED
    BY <2>1 DEF ACall, NoCall, Pcs
<1> HIDE DEF k
<1>6. PICK cs : cs = IF first THEN LoseCalls(s, c) ELSE call
  OBVIOUS
<1>7. /\ DOMAIN cs = Callers
      /\ \A u \in Callers : /\ ACall(u, cs[u]) /\ Same(cs[u], call[u])
                            /\ cs[u].held => call[u].held /\ (first /\ Asks(u, s) => u = c)
  BY <1>2, <1>6, LosesCalls DEF CallsInv, Same
<1>8. PICK ds : ds = Disturb(cs, us)
  OBVIOUS
<1>9. DOMAIN ds = Callers /\ \A u \in Callers : ACall(u, ds[u]) /\ Same(ds[u], cs[u]) /\ ds[u].held = cs[u].held
  BY <1>7, <1>8, Disturbs
<1>10. /\ DOMAIN call' = Callers /\ call'[c] = k
       /\ \A u \in Callers \ {c} : /\ ACall(u, call'[u]) /\ Same(call'[u], call[u])
                                   /\ call'[u].held => call[u].held /\ (first => ~Asks(u, s))
  <2>1. call' = [ds EXCEPT ![c] = k]
    BY <1>3, <1>6, <1>8
  <2> QED
    BY <1>7, <1>9, <2>1 DEF Same
<1>11. /\ DOMAIN job' = Services
       /\ \A t \in Services :
            /\ DOMAIN job'[t] = {"owner", "held"} /\ job'[t].held \in BOOLEAN /\ job'[t].owner = job[t].owner
            /\ job'[t].held => job[t].held /\ (first /\ t = s => job[t].owner = c)
  BY <1>2, <1>4, LosesJobs DEF TablesInv
<1>12. /\ IsSequence(reports') /\ Len(reports') = Len(reports) /\ DOMAIN reports' = DOMAIN reports
       /\ \A i \in DOMAIN reports :
            /\ AReport(reports'[i]) /\ reports'[i].sv = reports[i].sv /\ reports'[i].owner = reports[i].owner
            /\ reports'[i].held => reports[i].held /\ (first /\ reports[i].sv = s => reports[i].owner = c)
  BY <1>2, <1>4, LosesReports DEF ReportsInv
<1>13. first => s \in Services
  BY <1>1, Scripts
<1>14. /\ cb' \in [Services -> Callers \cup {Nobody}] /\ (first => cb'[s] = c)
       /\ \A t \in Services : t # s \/ ~first => cb'[t] = cb[t]
  BY <1>2, <1>4, <1>13 DEF TablesInv
<1> HIDE DEF s, first
<1>15. \A u \in Callers \ {c} : /\ InCall(u)' = InCall(u) /\ Service(u)' = Service(u)
                                /\ \A t : Asks(u, t)' = Asks(u, t)
  BY <1>10 DEF Same, InCall, Service, Asks
<1>16. Service(c)' = s /\ ~InCall(c) /\ \A t : ~Asks(c, t) /\ (Asks(c, t)' <=> t = s)
  BY <1>4, <1>5, <1>10 DEF InCall, Service, Asks, s
<1>17. ShapeInv'
  <2>1. CallsInv'
    BY <1>5, <1>10 DEF CallsInv
  <2>2. ChannelInv'
    BY <1>4, <1>5, <1>10, ChannelStays DEF Same
  <2>3. TablesInv'
    BY <1>2, <1>4, <1>11, <1>14 DEF TablesInv
  <2>4. ReportsInv' /\ MessagesInv'
    BY <1>2, <1>12 DEF ReportsInv, MessagesInv, urcVars
  <2> QED
    BY <2>1, <2>2, <2>3, <2>4 DEF ShapeInv
<1>18. HeldInv'
  <2>1. \A t \in Services : job'[t].held => cb'[t] = job'[t].owner
    BY <1>2, <1>11, <1>14 DEF HeldInv
  <2>2. \A i \in DOMAIN reports' : reports'[i].held => cb'[reports'[i].sv] = reports'[i].owner
    BY <1>2, <1>12, <1>14 DEF HeldInv, ReportsInv, AReport
  <2>3. ASSUME NEW u \in Callers, InCall(u)', call'[u].held
        PROVE  cb'[Service(u)'] = u /\ Script[call'[u].fn].registers = "before"
    <3>1. CASE u = c
      BY <1>5, <1>10, <1>14, <1>16, <2>3, <3>1 DEF first
    <3>2. CASE u # c
      <4>1. /\ InCall(u) /\ call[u].held /\ Service(u)' = Service(u) /\ call'[u].fn = call[u].fn
            /\ first => Service(u) # s
        BY <1>10, <1>15, <2>3, <3>2 DEF Same, Asks
      <4>2. cb[Service(u)] = u /\ Script[call[u].fn].registers = "before"
        BY <1>2, <4>1 DEF HeldInv
      <4>3. Service(u) \in Services
        BY <4>1, <4>2, Fields, Scripts DEF InCall, Service
      <4> QED
        BY <1>14, <4>1, <4>2, <4>3
    <3> QED
      BY <3>1, <3>2
  <2> QED
    BY <1>2, <1>4, <2>1, <2>2, <2>3 DEF HeldInv
<1>19. ASSUME NEW t \in Patient
       PROVE  OneRequest(t)'
  <2>1. OneRequest(t) /\ t \in Services
    BY <1>2, Patients DEF PatienceInv
  <2>2. CASE t # s
    <3>1. \A u \in Callers : Asks(u, t)' => Asks(u, t) /\ call'[u].pc \in {call[u].pc, "answered"}
      BY <1>10, <1>15, <1>16, <2>2 DEF Same
    <3> QED
      BY <1>4, <1>11, <1>12, <1>14, <2>1, <2>2, <3>1, Stays
  <2>3. CASE t = s
    <3>1. opened[t] = Nobody /\ (\A u \in Callers : ~Asks(u, t)) /\ handling.from # t /\ first
      BY <1>1, <1>4, <2>3, Patients DEF Waits, s, first
    <3>2. \A u \in Callers : Asks(u, t)' => u = c
      BY <1>15, <3>1
    <3>3. NotReported(t) /\ job[t].owner = Nobody /\ handling.sv # t
      BY <2>1, <3>1 DEF OneRequest, NotReported
    <3>4. NotReported(t)' /\ job'[t].owner = Nobody /\ opened'[t] = Nobody /\ cb'[t] = c
      BY <1>4, <1>11, <1>12, <1>14, <2>1, <2>3, <3>1, <3>3 DEF NotReported
    <3> QED
      BY <1>4, <3>1, <3>2, <3>3, <3>4 DEF OneRequest, NotReported
  <2> QED
    BY <2>2, <2>3
<1> QED
  BY <1>17, <1>18, <1>19 DEF IInv, PatienceInv

(* The command is sent; if it starts a transfer the request is open.       *)
LEMMA SendOK ==
  ASSUME IInv, NEW c \in Callers, Send(c), UNCHANGED urcVars
  PROVE  IInv'
<1> DEFINE s == Service(c)
           starts(lines) == Current(c) = "start" /\ lines = <<"OK">>
           k(ran) == [call[c] EXCEPT !.pc = "sent", !.ran = ran]
<1>1. TablesInv /\ ReportsInv /\ HeldInv /\ CallsInv /\ MessagesInv /\ ChannelInv /\ PatienceInv
  BY DEF IInv, ShapeInv
<1>2. call[c].pc = "ready" /\ waiting = Free /\ UNCHANGED <<cb, handling, reports>>
  BY DEF Send
<1>3. PICK lines \in Answers(c) \cup {<<"ERROR">>} :
        /\ waiting' = [task |-> c, lines |-> lines]
        /\ job' = IF starts(lines) THEN [job EXCEPT ![s] = [owner |-> c, held |-> call[c].held]] ELSE job
        /\ opened' = IF starts(lines) /\ s \in Patient THEN [opened EXCEPT ![s] = c] ELSE opened
        /\ \E us : call' = Disturb([call EXCEPT ![c].pc = "sent", ![c].ran = starts(lines)], us)
  BY DEF Send
<1>4. ACall(c, call[c]) /\ DOMAIN call = Callers /\ call[c].fn \in Functions
  BY <1>2, Fields
<1>5. /\ ACall(c, k(starts(lines))) /\ k(starts(lines)).pc = "sent" /\ k(starts(lines)).fn = call[c].fn
      /\ k(starts(lines)).step = call[c].step /\ k(starts(lines)).held = call[c].held
  BY <1>2, <1>4 DEF ACall, Pcs
<1>6. PICK cs, us : cs = [call EXCEPT ![c].pc = "sent", ![c].ran = starts(lines)] /\ call' = Disturb(cs, us)
  BY <1>3
<1>7. cs[c] = k(starts(lines)) /\ \A u \in Callers \ {c} : cs[u] = call[u]
  BY <1>4, <1>6
<1> HIDE DEF k
<1>8. \A u \in Callers : ACall(u, cs[u])
  BY <1>1, <1>5, <1>7 DEF CallsInv
<1>9. DOMAIN call' = Callers /\ \A u \in Callers : ACall(u, call'[u]) /\ Same(call'[u], cs[u]) /\ call'[u].held = cs[u].held
  <2>1. PICK ds : ds = Disturb(cs, us)
    OBVIOUS
  <2>2. DOMAIN ds = Callers /\ \A u \in Callers : ACall(u, ds[u]) /\ Same(ds[u], cs[u]) /\ ds[u].held = cs[u].held
    BY <1>8, <2>1, Disturbs
  <2> QED
    BY <1>6, <2>1, <2>2
<1>10. /\ call'[c].pc = "sent" /\ call'[c].fn = call[c].fn /\ call'[c].held = call[c].held
       /\ \A u \in Callers \ {c} : Same(call'[u], call[u]) /\ call'[u].held = call[u].held
  BY <1>5, <1>7, <1>9 DEF Same
<1>11. \A u \in Callers : /\ InCall(u)' = InCall(u) /\ Service(u)' = Service(u) /\ call'[u].fn = call[u].fn
                          /\ \A t : Asks(u, t)' = Asks(u, t)
  BY <1>2, <1>10 DEF Same, InCall, Service, Asks
<1>12. InCall(c) /\ Asks(c, s)
  BY <1>2 DEF InCall, Asks
<1>13. ChannelInv'
  <2>1. lines \in Responses
    BY <1>3 DEF Answers, Responses
  <2>2. DOMAIN waiting' = {"task", "lines"} /\ waiting'.task = c /\ waiting'.lines = lines
    BY <1>3
  <2>3. \A u \in Callers : call[u].pc # "sent"
    BY <1>1, <1>2, NobodyIsNoCaller DEF ChannelInv, Free
  <2>4. \A u \in Callers : call'[u].pc = "sent" <=> waiting'.task = u
    BY <1>10, <2>2, <2>3 DEF Same
  <2> QED
    BY <2>1, <2>2, <2>4 DEF ChannelInv
<1>14. /\ DOMAIN job' = Services
       /\ \A t \in Services : \/ job'[t] = job[t]
                              \/ /\ t = s /\ job'[t].owner = c /\ job'[t].held = call[c].held
                                 /\ DOMAIN job'[t] = {"owner", "held"} /\ starts(lines)
  BY <1>1, <1>3 DEF TablesInv
<1>15. /\ opened' \in [Services -> Callers \cup {Nobody}]
       /\ \A t \in Services : t # s => opened'[t] = opened[t]
       /\ s \in Services => \/ starts(lines) /\ s \in Patient /\ opened'[s] = c
                            \/ ~(starts(lines) /\ s \in Patient) /\ opened'[s] = opened[s]
  BY <1>1, <1>3 DEF TablesInv
<1>16. ShapeInv'
  <2>1. CallsInv'
    BY <1>9 DEF CallsInv
  <2>2. TablesInv'
    <3>1. call[c].held \in BOOLEAN
      BY <1>4 DEF ACall
    <3> QED
      BY <1>1, <1>2, <1>14, <1>15, <3>1 DEF TablesInv
  <2>3. ReportsInv' /\ MessagesInv'
    BY <1>1, <1>2 DEF ReportsInv, MessagesInv, urcVars
  <2> QED
    BY <1>13, <2>1, <2>2, <2>3 DEF ShapeInv
<1> HIDE DEF s, starts
<1>17. HeldInv'
  <2>1. ASSUME NEW t \in Services, job'[t].held
        PROVE  cb'[t] = job'[t].owner
    <3>1. call[c].held => cb[s] = c
      BY <1>1, <1>12 DEF HeldInv, s
    <3> QED
      BY <1>1, <1>2, <1>14, <2>1, <3>1 DEF HeldInv
  <2>2. \A u \in Callers : InCall(u)' /\ call'[u].held =>
                               cb'[Service(u)'] = u /\ Script[call'[u].fn].registers = "before"
    BY <1>1, <1>2, <1>10, <1>11 DEF HeldInv
  <2> QED
    BY <1>1, <1>2, <2>1, <2>2 DEF HeldInv
<1>18. ASSUME NEW t \in Patient
       PROVE  OneRequest(t)'
  <2>1. OneRequest(t) /\ t \in Services
    BY <1>1, Patients DEF PatienceInv
  <2>2. CASE t # s
    <3>1. \A u \in Callers : Asks(u, t)' => Asks(u, t) /\ call'[u].pc \in {call[u].pc, "answered"}
      BY <1>10, <1>11, <2>2 DEF Same, Asks, s
    <3> QED
      BY <1>2, <1>14, <1>15, <2>1, <2>2, <3>1, Stays
  <2>3. CASE t = s
    <3>1. opened[t] = Nobody /\ cb[t] = c /\ handling.from # t /\ handling.sv # t
      BY <1>2, <1>12, <2>1, <2>3 DEF OneRequest
    <3>2. NotReported(t) /\ job[t].owner = Nobody
      BY <2>1, <3>1 DEF OneRequest, NotReported
    <3>3. \A u \in Callers : Asks(u, t)' => u = c
      BY <1>11, <1>12, <2>1, <2>3 DEF OneRequest
    <3>4. opened'[t] # Nobody => opened'[t] = c
      BY <1>15, <2>1, <2>3, <3>1
    <3>5. job'[t].owner # Nobody => opened'[t] = c /\ job'[t].owner = c
      BY <1>14, <1>15, <2>1, <2>3, <3>2
    <3>6. cb'[t] = c /\ NotReported(t)' /\ handling'.from # t /\ handling'.sv # t /\ call'[c].pc = "sent"
      BY <1>2, <1>10, <3>1, <3>2 DEF NotReported
    <3> QED
      BY <3>3, <3>4, <3>5, <3>6 DEF OneRequest, NotReported
  <2> QED
    BY <2>2, <2>3
<1> QED
  BY <1>16, <1>17, <1>18 DEF IInv, PatienceInv

LEMMA ReportOK ==
  ASSUME IInv, NEW s \in Services, Report(s), UNCHANGED urcVars
  PROVE  IInv'
<1> DEFINE r == [sv |-> s, owner |-> job[s].owner, held |-> job[s].held]
<1>1. TablesInv /\ ReportsInv /\ HeldInv /\ CallsInv /\ MessagesInv /\ ChannelInv /\ PatienceInv
  BY DEF IInv, ShapeInv
<1>2. /\ job[s].owner # Nobody /\ Len(reports) < MaxUrcs /\ ~(waiting.task = job[s].owner /\ Asks(job[s].owner, s))
      /\ reports' = Append(reports, r) /\ job' = (IF s \in Sessions THEN job ELSE [job EXCEPT ![s] = NoJob])
      /\ UNCHANGED <<call, waiting, cb, handling, opened>>
  BY DEF Report
<1>3. AReport(r) /\ r.sv = s /\ r.owner = job[s].owner /\ r.held = job[s].held
  BY <1>1, <1>2 DEF TablesInv, AReport
<1> HIDE DEF r
<1>4. /\ IsSequence(reports') /\ Len(reports') = Len(reports) + 1 /\ Len(reports) \in Nat
      /\ DOMAIN reports = 1..Len(reports) /\ DOMAIN reports' = 1..(Len(reports) + 1)
      /\ reports'[Len(reports) + 1] = r
      /\ \A i \in DOMAIN reports : i \in DOMAIN reports' /\ reports'[i] = reports[i]
  <2>1. IsSequence(reports)
    BY <1>1 DEF ReportsInv
  <2>2. /\ Len(reports) \in Nat /\ DOMAIN reports = 1..Len(reports)
        /\ IsSequence(reports') /\ Len(reports') = Len(reports) + 1
        /\ reports'[Len(reports) + 1] = r
        /\ \A i \in 1..Len(reports) : reports'[i] = reports[i]
    BY <1>2, <2>1, SequenceFacts
  <2>3. DOMAIN reports' = 1..Len(reports')
    BY <2>2, SequenceFacts
  <2> QED
    BY <2>2, <2>3
<1>5. \A i \in DOMAIN reports' : i = Len(reports) + 1 \/ i \in DOMAIN reports
  BY <1>4
<1>6. /\ DOMAIN job' = Services
      /\ \A t \in Services : \/ job'[t] = job[t] /\ (t = s => s \in Sessions)
                             \/ /\ t = s /\ job'[t].owner = Nobody /\ ~job'[t].held /\ job'[t].held \in BOOLEAN
                                /\ DOMAIN job'[t] = {"owner", "held"}
  BY <1>1, <1>2 DEF TablesInv, NoJob
<1>7. ShapeInv'
  <2>1. TablesInv'
    BY <1>1, <1>2, <1>6 DEF TablesInv
  <2>2. Len(reports') <= MaxUrcs
    BY <1>2, <1>4, BoundsAreNumbers
  <2>3. \A i \in DOMAIN reports' : AReport(reports'[i])
    BY <1>1, <1>3, <1>4, <1>5 DEF ReportsInv
  <2> QED
    BY <1>1, <1>2, <1>4, <2>1, <2>2, <2>3
       DEF ShapeInv, CallsInv, ChannelInv, ReportsInv, MessagesInv, urcVars
<1>8. \A u \in Callers : InCall(u)' = InCall(u) /\ Service(u)' = Service(u) /\ \A t : Asks(u, t)' = Asks(u, t)
  BY <1>2 DEF InCall, Service, Asks
<1>9. HeldInv'
  <2>1. \A t \in Services : job'[t].held => cb'[t] = job'[t].owner
    BY <1>1, <1>2, <1>6 DEF HeldInv
  <2>2. \A i \in DOMAIN reports' : reports'[i].held => cb'[reports'[i].sv] = reports'[i].owner
    BY <1>1, <1>2, <1>3, <1>4, <1>5 DEF HeldInv
  <2> QED
    BY <1>1, <1>2, <1>8, <2>1, <2>2 DEF HeldInv
<1>10. ASSUME NEW t \in Patient
       PROVE  OneRequest(t)'
  <2>1. OneRequest(t) /\ t \in Services /\ t \notin Sessions
    BY <1>1, Patients DEF PatienceInv, Sessions
  <2>2. CASE t # s
    <3>1. \A i \in DOMAIN reports' : reports'[i].sv = t => i \in DOMAIN reports /\ reports[i].sv = t
      BY <1>3, <1>4, <1>5, <2>2
    <3>2. NotReported(t) => NotReported(t)'
      BY <3>1 DEF NotReported
    <3>3. job'[t].owner = job[t].owner
      BY <1>6, <2>1, <2>2
    <3> QED
      BY <1>2, <1>8, <2>1, <3>1, <3>2, <3>3 DEF OneRequest
  <2>3. CASE t = s
    <3>1. opened[t] = job[t].owner /\ cb[t] = job[t].owner /\ NotReported(t) /\ job'[t].owner = Nobody
      BY <1>2, <1>6, <2>1, <2>3 DEF OneRequest
    <3>2. \A i \in DOMAIN reports' : reports'[i].sv = t => i = Len(reports) + 1
      BY <1>4, <1>5, <3>1 DEF NotReported
    <3>3. \A u \in Callers : Asks(u, t) => call[u].pc # "sent"
      <4>1. SUFFICES ASSUME NEW u \in Callers, Asks(u, t), call[u].pc = "sent"
                     PROVE  FALSE
        OBVIOUS
      <4>2. waiting.task = u /\ cb[t] = u
        BY <1>1, <2>1, <4>1 DEF ChannelInv, OneRequest
      <4> QED
        BY <1>2, <2>3, <3>1, <4>1, <4>2
    <3> QED
      BY <1>2, <1>8, <2>1, <2>3, <3>1, <3>2, <3>3 DEF OneRequest
  <2> QED
    BY <2>2, <2>3
<1> QED
  BY <1>7, <1>9, <1>10 DEF IInv, PatienceInv

(* The first report is taken from the queue.                               *)
LEMMA FirstReport ==
  ASSUME ReportsInv, reports # <<>>, reports' = Tail(reports)
  PROVE  /\ IsSequence(reports') /\ Len(reports') = Len(reports) - 1 /\ Len(reports) \in Nat
         /\ 1 \in DOMAIN reports /\ Head(reports) = reports[1] /\ AReport(reports[1])
         /\ \A i \in DOMAIN reports' : i \in Nat \ {0} /\ i + 1 \in DOMAIN reports /\ reports'[i] = reports[i + 1]
<1>1. /\ Len(reports) \in Nat /\ DOMAIN reports = 1..Len(reports) /\ Len(reports) > 0
      /\ IsSequence(reports') /\ Len(reports') = Len(reports) - 1 /\ Head(reports) = reports[1]
      /\ \A i \in 1..Len(reports') : reports'[i] = reports[i + 1]
  BY SequenceFacts DEF ReportsInv
<1>2. DOMAIN reports' = 1..Len(reports')
  BY <1>1, SequenceFacts
<1> QED
  BY <1>1, <1>2 DEF ReportsInv

LEMMA HandleReportOK ==
  ASSUME IInv, HandleReport, UNCHANGED urcVars
  PROVE  IInv'
<1> DEFINE r == reports[1]
<1>1. TablesInv /\ ReportsInv /\ HeldInv /\ CallsInv /\ MessagesInv /\ ChannelInv /\ PatienceInv
  BY DEF IInv, ShapeInv
<1>2. /\ handling.pc = "idle" /\ reports # <<>> /\ reports' = Tail(reports) /\ UNCHANGED <<call, waiting, cb, job>>
      /\ \/ \E s \in Called(Head(reports).sv) : Deliver(Head(reports), s)
         \/ Head(reports).sv = "tone" /\ UNCHANGED <<opened, handling>>
  BY DEF HandleReport
<1>3. /\ IsSequence(reports') /\ Len(reports') = Len(reports) - 1 /\ Len(reports) \in Nat
      /\ 1 \in DOMAIN reports /\ Head(reports) = r /\ AReport(r)
      /\ \A i \in DOMAIN reports' : i \in Nat \ {0} /\ i + 1 \in DOMAIN reports /\ reports'[i] = reports[i + 1]
  BY <1>1, <1>2, FirstReport
<1>4. \/ \E s \in Called(r.sv) :
           /\ handling'.pc = (IF cb[s] = Nobody THEN "ignored" ELSE "callback") /\ handling'.sv = r.sv
           /\ handling'.owner = r.owner /\ handling'.from = s /\ handling'.to = cb[s]
           /\ handling'.held <=> r.held /\ s = r.sv
           /\ opened' = [opened EXCEPT ![r.sv] = Nobody]
      \/ r.sv = "tone" /\ UNCHANGED <<opened, handling>>
  <2>1. (\E s \in Called(r.sv) : Deliver(r, s)) \/ (r.sv = "tone" /\ UNCHANGED <<opened, handling>>)
    BY <1>2, <1>3
  <2>2. ASSUME NEW s, Deliver(r, s)
        PROVE  /\ handling'.pc = (IF cb[s] = Nobody THEN "ignored" ELSE "callback") /\ handling'.sv = r.sv
               /\ handling'.owner = r.owner /\ handling'.from = s /\ handling'.to = cb[s]
               /\ handling'.held <=> r.held /\ s = r.sv
               /\ opened' = [opened EXCEPT ![r.sv] = Nobody]
    BY <2>2 DEF Deliver
  <2> QED
    BY <2>1, <2>2
<1>5. ShapeInv'
  <2>1. opened' \in [Services -> Callers \cup {Nobody}]
    BY <1>1, <1>4 DEF TablesInv
  <2>2. ReportsInv'
    <3>1. Len(reports') <= MaxUrcs
      BY <1>1, <1>3, BoundsAreNumbers DEF ReportsInv
    <3>2. \A i \in DOMAIN reports' : AReport(reports'[i])
      BY <1>1, <1>3 DEF ReportsInv
    <3> QED
      BY <1>3, <3>1, <3>2 DEF ReportsInv
  <2> QED
    BY <1>1, <1>2, <2>1, <2>2 DEF ShapeInv, CallsInv, ChannelInv, TablesInv, MessagesInv, urcVars
<1>6. \A u \in Callers : InCall(u)' = InCall(u) /\ Service(u)' = Service(u) /\ \A t : Asks(u, t)' = Asks(u, t)
  BY <1>2 DEF InCall, Service, Asks
<1>7. HeldInv'
  <2>1. handling'.held => handling'.to = handling'.owner
    BY <1>1, <1>3, <1>4 DEF HeldInv
  <2>2. handling'.pc = "idle" => handling'.sv = "none"
    BY <1>1, <1>4 DEF HeldInv
  <2>3. \A i \in DOMAIN reports' : reports'[i].held => cb'[reports'[i].sv] = reports'[i].owner
    BY <1>1, <1>2, <1>3 DEF HeldInv
  <2> QED
    BY <1>1, <1>2, <1>6, <2>1, <2>2, <2>3 DEF HeldInv
<1>8. ASSUME NEW t \in Patient
      PROVE  OneRequest(t)'
  <2>1. OneRequest(t) /\ t \in Services \ {"none", "tone", "ftpget", "ftpput"}
    BY <1>1, Patients DEF PatienceInv
  <2>2. CASE r.sv = t
    <3>1. Called(r.sv) = {t}
      BY <2>1, <2>2 DEF Called, MayPassFor
    <3>2. handling'.from = t /\ handling'.sv = t /\ handling'.to = cb[t] /\ opened' = [opened EXCEPT ![t] = Nobody]
      BY <1>4, <2>1, <2>2, <3>1
    <3>3. opened[t] # Nobody /\ cb[t] = opened[t] /\ ~NotReported(t)
      BY <1>3, <2>1, <2>2 DEF OneRequest, NotReported
    <3>4. \A i \in DOMAIN reports' : reports'[i].sv # t
      BY <1>3, <2>1, <2>2 DEF OneRequest
    <3>5. \A u \in Callers : Asks(u, t) => call[u].pc = "answered"
      BY <2>1, <3>3 DEF OneRequest, Asks, InCall
    <3>6. opened'[t] = Nobody /\ job[t].owner = Nobody
      BY <1>1, <2>1, <3>2, <3>3 DEF TablesInv, OneRequest
    <3> QED
      BY <1>2, <1>6, <2>1, <3>2, <3>3, <3>4, <3>5, <3>6 DEF OneRequest
  <2>3. CASE r.sv # t
    <3>1. opened'[t] = opened[t]
      BY <1>1, <1>4, <2>1, <2>3 DEF TablesInv
    <3>2. \/ handling' = handling
          \/ handling'.from # t /\ handling'.sv # t
      <4>1. \A s \in Called(r.sv) : s # t
        BY <2>1, <2>3 DEF Called, MayPassFor
      <4> QED
        BY <1>4, <2>3, <4>1
    <3>3. NotReported(t) => NotReported(t)'
      BY <1>3 DEF NotReported
    <3>4. \A i, j \in DOMAIN reports' : reports'[i].sv = t /\ reports'[j].sv = t => i = j /\ opened'[t] # Nobody
      <4> SUFFICES ASSUME NEW i \in DOMAIN reports', NEW j \in DOMAIN reports', reports'[i].sv = t, reports'[j].sv = t
                   PROVE  i = j /\ opened'[t] # Nobody
        OBVIOUS
      <4>1. i + 1 = j + 1 /\ opened[t] # Nobody
        BY <1>3, <2>1 DEF OneRequest
      <4> QED
        BY <1>3, <3>1, <4>1
    <3> QED
      BY <1>2, <1>6, <2>1, <3>1, <3>2, <3>3, <3>4 DEF OneRequest
  <2> QED
    BY <2>2, <2>3
<1> QED
  BY <1>5, <1>7, <1>8 DEF IInv, PatienceInv

(* The handler clears the callback it has called (HTTP, FTP).              *)
LEMMA HandlerReturnsOK ==
  ASSUME IInv, HandlerReturns, UNCHANGED urcVars
  PROVE  IInv'
<1> DEFINE s == handling.from
           clears == s \in Clears /\ handling.pc = "callback"
<1>1. TablesInv /\ ReportsInv /\ HeldInv /\ CallsInv /\ MessagesInv /\ ChannelInv /\ PatienceInv
  BY DEF IInv, ShapeInv
<1>2. /\ handling' = Idle /\ UNCHANGED <<waiting, opened>>
      /\ clears => /\ cb' = [cb EXCEPT ![s] = Nobody] /\ job' = LoseJobs(s, Nobody)
                   /\ reports' = LoseReports(s, Nobody) /\ call' = LoseCalls(s, Nobody)
      /\ ~clears => UNCHANGED <<cb, job, reports, call>>
  BY DEF HandlerReturns
<1>3. clears => s \in Services
  BY DEF Clears, Services
<1> HIDE DEF clears
<1>4. /\ DOMAIN call' = Callers
      /\ \A u \in Callers : /\ ACall(u, call'[u]) /\ Same(call'[u], call[u])
                            /\ call'[u].held => call[u].held /\ (clears => ~Asks(u, s))
  BY <1>1, <1>2, LosesCalls, NobodyIsNoCaller DEF CallsInv, Same
<1>5. /\ DOMAIN job' = Services
      /\ \A t \in Services :
           /\ DOMAIN job'[t] = {"owner", "held"} /\ job'[t].held \in BOOLEAN /\ job'[t].owner = job[t].owner
           /\ job'[t].held => job[t].held /\ (clears /\ t = s => job[t].owner = Nobody)
  BY <1>1, <1>2, LosesJobs DEF TablesInv
<1>6. /\ IsSequence(reports') /\ Len(reports') = Len(reports) /\ DOMAIN reports' = DOMAIN reports
      /\ \A i \in DOMAIN reports :
           /\ AReport(reports'[i]) /\ reports'[i].sv = reports[i].sv /\ reports'[i].owner = reports[i].owner
           /\ reports'[i].held => reports[i].held /\ (clears /\ reports[i].sv = s => reports[i].owner = Nobody)
  BY <1>1, <1>2, LosesReports DEF ReportsInv
<1>7. /\ cb' \in [Services -> Callers \cup {Nobody}] /\ (clears => cb'[s] = Nobody)
      /\ \A t \in Services : t # s \/ ~clears => cb'[t] = cb[t]
  BY <1>1, <1>2, <1>3 DEF TablesInv
<1>8. handling'.from = "none" /\ handling'.sv = "none" /\ handling'.held = FALSE
  BY <1>2 DEF Idle
<1> HIDE DEF s
<1>9. \A u \in Callers : InCall(u)' = InCall(u) /\ Service(u)' = Service(u) /\ \A t : Asks(u, t)' = Asks(u, t)
  BY <1>4 DEF Same, InCall, Service, Asks
<1>10. ShapeInv'
  <2>1. ChannelInv'
    BY <1>2, <1>4, ChannelStays DEF Same
  <2>2. TablesInv'
    BY <1>1, <1>2, <1>5, <1>7 DEF TablesInv
  <2>3. CallsInv' /\ ReportsInv' /\ MessagesInv'
    BY <1>1, <1>4, <1>6 DEF CallsInv, ReportsInv, MessagesInv, urcVars
  <2> QED
    BY <2>1, <2>2, <2>3 DEF ShapeInv
<1>11. HeldInv'
  <2>1. \A t \in Services : job'[t].held => cb'[t] = job'[t].owner
    BY <1>1, <1>5, <1>7 DEF HeldInv
  <2>2. \A i \in DOMAIN reports' : reports'[i].held => cb'[reports'[i].sv] = reports'[i].owner
    BY <1>1, <1>6, <1>7 DEF HeldInv, ReportsInv, AReport
  <2>3. ASSUME NEW u \in Callers, InCall(u)', call'[u].held
        PROVE  cb'[Service(u)'] = u /\ Script[call'[u].fn].registers = "before"
    <3>1. /\ InCall(u) /\ call[u].held /\ Service(u)' = Service(u) /\ call'[u].fn = call[u].fn
          /\ clears => Service(u) # s
      BY <1>4, <1>9, <2>3 DEF Same, Asks
    <3>2. cb[Service(u)] = u /\ Script[call[u].fn].registers = "before"
      BY <1>1, <3>1 DEF HeldInv
    <3>3. Service(u) \in Services
      BY <3>1, <3>2, Fields, Scripts DEF InCall, Service
    <3> QED
      BY <1>7, <3>1, <3>2, <3>3
  <2> QED
    BY <1>8, <2>1, <2>2, <2>3 DEF HeldInv
<1>12. ASSUME NEW t \in Patient
       PROVE  OneRequest(t)'
  <2>1. OneRequest(t) /\ t \in Services \ {"none"}
    BY <1>1, Patients DEF PatienceInv
  <2>2. NotReported(t)' <=> NotReported(t)
    BY <1>6 DEF NotReported
  <2>3. \A u \in Callers : (Asks(u, t)' <=> Asks(u, t)) /\ call'[u].pc = call[u].pc
    BY <1>4, <1>9 DEF Same
  <2>4. CASE t # s \/ ~clears
    BY <1>2, <1>5, <1>6, <1>7, <1>8, <2>1, <2>2, <2>3, <2>4 DEF OneRequest
  <2>5. CASE t = s /\ clears
    <3>1. opened[t] = Nobody /\ \A u \in Callers : Asks(u, t) => call[u].pc = "answered"
      BY <2>1, <2>5 DEF OneRequest, s
    <3> QED
      BY <1>2, <1>5, <1>6, <1>8, <2>1, <2>2, <2>3, <3>1 DEF OneRequest
  <2> QED
    BY <2>4, <2>5
<1> QED
  BY <1>10, <1>11, <1>12 DEF IInv, PatienceInv

-----------------------------------------------------------------------------
(* Notifications that become messages change nothing else.                 *)
LEMMA RestStays ==
  ASSUME IInv, UNCHANGED trVars, MessagesInv'
  PROVE  IInv'
<1>1. ShapeInv'
  BY DEF IInv, ShapeInv, CallsInv, ChannelInv, TablesInv, ReportsInv, trVars
<1>2. \A u \in Callers : InCall(u)' = InCall(u) /\ Service(u)' = Service(u) /\ \A t : Asks(u, t)' = Asks(u, t)
  BY DEF InCall, Service, Asks, trVars
<1>3. HeldInv'
  BY <1>2 DEF IInv, HeldInv, trVars
<1>4. ASSUME NEW t \in Patient
      PROVE  OneRequest(t)'
  <2>1. OneRequest(t)
    BY DEF IInv, PatienceInv
  <2> QED
    BY <1>2, <2>1, Stays DEF trVars
<1> QED
  BY <1>1, <1>3, <1>4 DEF IInv, PatienceInv

LEMMA MessagesOK ==
  ASSUME IInv, UrcNext, UNCHANGED trVars
  PROVE  IInv'
<1>1. IsSequence(inbox) /\ Len(inbox) <= MaxMessages /\ ringCnt \in 0..5 /\ Len(inbox) \in Nat
  <2>1. IsSequence(inbox) /\ Len(inbox) <= MaxMessages /\ ringCnt \in 0..5
    BY DEF IInv, ShapeInv, MessagesInv
  <2> QED
    BY <2>1, SequenceFacts
<1>2. ASSUME OnURCHandler_Call
      PROVE  MessagesInv'
  <2>1. NextPlace \in 0..5
    BY <1>1 DEF NextPlace
  <2>2. /\ Len(inbox) < MaxMessages
        /\ \/ UNCHANGED <<ringCnt, inbox>>
           \/ ringCnt' = NextPlace /\ \E m : inbox' = Append(inbox, m)
    BY <1>2 DEF OnURCHandler_Call
  <2>3. CASE UNCHANGED <<ringCnt, inbox>>
    BY <1>1, <2>3 DEF MessagesInv
  <2>4. ASSUME NEW m, ringCnt' = NextPlace, inbox' = Append(inbox, m)
        PROVE  MessagesInv'
    <3>1. IsSequence(inbox') /\ Len(inbox') = Len(inbox) + 1
      BY <1>1, <2>4, SequenceFacts
    <3>2. Len(inbox') <= MaxMessages
      BY <1>1, <2>2, <3>1, BoundsAreNumbers
    <3> QED
      BY <2>1, <2>4, <3>1, <3>2 DEF MessagesInv
  <2> QED
    BY <2>2, <2>3, <2>4
<1>3. ASSUME OnURCHandler
      PROVE  MessagesInv'
  <2>1. PICK m : inbox' = <<m>> /\ ringCnt' = ringCnt
    BY <1>3 DEF OnURCHandler
  <2>2. <<m>> \in Seq({m}) /\ Len(<<m>>) = 1
    OBVIOUS
  <2>3. IsSequence(inbox') /\ Len(inbox') <= MaxMessages
    <3>1. IsSequence(<<m>>)
      BY <2>2 DEF IsSequence
    <3>2. 1 <= MaxMessages
      BY BoundsAreNumbers
    <3> QED
      BY <2>1, <2>2, <3>1, <3>2
  <2> QED
    BY <1>1, <2>1, <2>3 DEF MessagesInv
<1>4. ASSUME Ql_OS_GetMessage
      PROVE  MessagesInv'
  <2>1. inbox # <<>> /\ inbox' = Tail(inbox) /\ ringCnt' = ringCnt
    BY <1>4 DEF Ql_OS_GetMessage
  <2>2. IsSequence(inbox') /\ Len(inbox') = Len(inbox) - 1
    BY <1>1, <2>1, SequenceFacts
  <2>3. Len(inbox') <= MaxMessages
    BY <1>1, <2>2, BoundsAreNumbers
  <2> QED
    BY <1>1, <2>1, <2>2, <2>3 DEF MessagesInv
<1>5. MessagesInv'
  BY <1>2, <1>3, <1>4 DEF UrcNext
<1> QED
  BY <1>5, RestStays

LEMMA StepOK ==
  ASSUME IInv, [Next]_vars
  PROVE  IInv'
<1>1. ASSUME TrNext, UNCHANGED urcVars
      PROVE  IInv'
  <2>1. ASSUME NEW c \in Callers, \E f \in MayCall[c] : Call(c, f)
        PROVE  IInv'
    BY <1>1, <2>1, CallOK
  <2>2. ASSUME NEW c \in Callers, Send(c) \/ Busy(c) \/ TakeLine(c) \/ Timeout(c)
        PROVE  IInv'
    BY <1>1, <2>2, SendOK, BusyOK, TakeLineOK, TimeoutOK
  <2>3. ASSUME NEW c \in Callers, NextCommand(c) \/ Finish(c) \/ Return(c)
        PROVE  IInv'
    BY <1>1, <2>3, NextCommandOK, FinishOK, ReturnOK
  <2>4. ASSUME NEW s \in Services, Report(s)
        PROVE  IInv'
    BY <1>1, <2>4, ReportOK
  <2>5. CASE HandleReport \/ HandlerReturns
    BY <1>1, <2>5, HandleReportOK, HandlerReturnsOK
  <2> QED
    BY <1>1, <2>1, <2>2, <2>3, <2>4, <2>5 DEF TrNext
<1>2. ASSUME UrcNext, UNCHANGED trVars
      PROVE  IInv'
  BY <1>2, MessagesOK
<1>3. CASE UNCHANGED vars
  <2>1. UNCHANGED trVars /\ MessagesInv'
    BY <1>3 DEF vars, urcVars, IInv, ShapeInv, MessagesInv
  <2> QED
    BY <2>1, RestStays
<1> QED
  BY <1>1, <1>2, <1>3 DEF Next

LEMMA Invariant == Spec => []IInv
<1>1. Init => IInv
  BY InitOK
<1>2. IInv /\ [Next]_vars => IInv'
  BY StepOK
<1> QED
  BY <1>1, <1>2, PTL DEF Spec

-----------------------------------------------------------------------------
(* Calls, channel, callbacks and transfers keep their shape.               *)
THEOREM TransfersKeepShape == Spec => []TypeOK
<1>1. ASSUME IInv
      PROVE  TypeOK
  <2>1. CallsInv /\ ChannelInv /\ TablesInv /\ ReportsInv /\ MessagesInv
    BY <1>1 DEF IInv, ShapeInv
  <2>2. Free.task = Nobody /\ \A lines \in Responses : lines # <<>>
    BY DEF Free, Responses
  <2>3. /\ waiting.task = Nobody => waiting = Free
        /\ waiting.task # Nobody => waiting.lines # <<>>
    BY <2>1, <2>2, NobodyIsNoCaller DEF ChannelInv
  <2> QED
    BY <2>1, <2>3 DEF TypeOK, CallsInv, ACall, ChannelInv, TablesInv, ReportsInv, MessagesInv
<1> QED
  BY <1>1, Invariant, PTL

(* A result that is held reaches the callback of the call that asked for   *)
(* it, whatever the tasks call and in whatever order results come.         *)
THEOREM ResultsReachTheirCaller == Spec => []ReportsReachTheirCaller
<1>1. IInv => ReportsReachTheirCaller
  BY DEF IInv, HeldInv, ReportsReachTheirCaller
<1> QED
  BY <1>1, Invariant, PTL

(* The refinement: each step of Transfers is one step of OneShot or none.  *)
LEMMA OneShotInit ==
  ASSUME Init
  PROVE  AsOneShot!Init
<1>1. \A s \in Patient : opened[s] = Nobody /\ handling.sv # s
  BY Patients DEF Init, TrInit, Idle
<1> QED
  BY <1>1 DEF AsOneShot!Init

LEMMA OneShotStep ==
  ASSUME IInv, [Next]_vars
  PROVE  [AsOneShot!Next]_AsOneShot!vars
<1> DEFINE open == [s \in Patient |-> opened[s]]
           giving == [s \in Patient |-> IF handling.sv = s THEN handling.to ELSE Nobody]
<1>1. TablesInv /\ ReportsInv /\ HeldInv /\ PatienceInv
  BY DEF IInv, ShapeInv
<1>2. ASSUME UNCHANGED <<opened, handling>>
      PROVE  UNCHANGED AsOneShot!vars
  BY <1>2 DEF AsOneShot!vars
<1>3. ASSUME NEW c \in Callers, Send(c)
      PROVE  AsOneShot!Next \/ UNCHANGED AsOneShot!vars
  <2> DEFINE s == Service(c)
  <2>1. /\ call[c].pc = "ready" /\ handling' = handling
        /\ \/ opened' = opened
           \/ s \in Patient /\ opened' = [opened EXCEPT ![s] = c]
    BY <1>3 DEF Send
  <2>2. CASE s \in Patient /\ opened' = [opened EXCEPT ![s] = c]
    <3>1. Asks(c, s)
      BY <2>1 DEF Asks, InCall
    <3>2. opened[s] = Nobody /\ s \in Services
      BY <1>1, <2>1, <2>2, <3>1, Patients DEF PatienceInv, OneRequest
    <3>3. open[s] = Nobody /\ open' = [open EXCEPT ![s] = c] /\ giving' = giving
      BY <1>1, <2>1, <2>2, <3>2, Patients DEF TablesInv
    <3>4. AsOneShot!Accept(s, c)
      BY <3>3 DEF AsOneShot!Accept
    <3> QED
      BY <2>2, <3>4 DEF AsOneShot!Next
  <2> QED
    BY <1>2, <2>1, <2>2
<1>4. ASSUME HandleReport
      PROVE  AsOneShot!Next \/ UNCHANGED AsOneShot!vars
  <2> DEFINE r == Head(reports)
  <2>1. /\ handling.pc = "idle" /\ reports # <<>> /\ reports' = Tail(reports)
        /\ \/ \E s \in Called(r.sv) : Deliver(r, s)
           \/ UNCHANGED <<opened, handling>>
    BY <1>4 DEF HandleReport
  <2>2. handling.sv = "none"
    BY <1>1, <2>1 DEF HeldInv
  <2>3. \A s \in Patient : giving[s] = Nobody
    BY <2>2, Patients
  <2>4. 1 \in DOMAIN reports /\ r = reports[1]
    BY <1>1, <2>1, FirstReport
  <2>5. ASSUME NEW s, s \in Called(r.sv), Deliver(r, s)
        PROVE  AsOneShot!Next \/ UNCHANGED AsOneShot!vars
    <3>1. handling'.sv = r.sv /\ handling'.to = cb[s] /\ opened' = [opened EXCEPT ![r.sv] = Nobody]
      BY <2>5 DEF Deliver
    <3>2. CASE r.sv \in Patient
      <4>1. s = r.sv /\ s \in Services
        BY <2>5, <3>2, Patients DEF Called, MayPassFor
      <4>2. opened[s] # Nobody /\ cb[s] = opened[s]
        BY <1>1, <2>4, <3>2, <4>1 DEF PatienceInv, OneRequest
      <4>3. /\ open[s] # Nobody /\ giving[s] = Nobody
            /\ giving' = [giving EXCEPT ![s] = open[s]] /\ open' = [open EXCEPT ![s] = Nobody]
        BY <1>1, <2>3, <3>1, <3>2, <4>1, <4>2, Patients DEF TablesInv
      <4>4. AsOneShot!Give(s)
        BY <4>3 DEF AsOneShot!Give
      <4> QED
        BY <3>2, <4>1, <4>4 DEF AsOneShot!Next
    <3>3. CASE r.sv \notin Patient
      <4>1. open' = open /\ giving' = giving
        BY <1>1, <2>2, <3>1, <3>3, Patients DEF TablesInv
      <4> QED
        BY <4>1 DEF AsOneShot!vars
    <3> QED
      BY <3>2, <3>3
  <2> QED
    BY <1>2, <2>1, <2>5
<1>5. ASSUME HandlerReturns
      PROVE  AsOneShot!Next \/ UNCHANGED AsOneShot!vars
  <2> DEFINE s == handling.sv
  <2>1. opened' = opened /\ handling'.sv = "none"
    BY <1>5 DEF HandlerReturns, Idle
  <2>2. ASSUME NEW t \in Patient, t = s
        PROVE  AsOneShot!Next
    <3>1. handling.to # Nobody
      BY <1>1, <2>2 DEF PatienceInv, OneRequest
    <3>2. giving[t] # Nobody /\ giving' = [giving EXCEPT ![t] = Nobody] /\ open' = open
      BY <2>1, <2>2, <3>1, Patients
    <3>3. AsOneShot!Given(t)
      BY <3>2 DEF AsOneShot!Given
    <3> QED
      BY <3>3 DEF AsOneShot!Next
  <2>3. CASE s \notin Patient
    <3>1. open' = open /\ giving' = giving
      BY <2>1, <2>3, Patients
    <3> QED
      BY <3>1 DEF AsOneShot!vars
  <2> QED
    BY <2>2, <2>3
<1>6. CASE Next
  <2>1. CASE UrcNext /\ UNCHANGED trVars
    BY <1>2, <2>1 DEF trVars
  <2>2. CASE TrNext
    <3>1. ASSUME NEW c \in Callers, NEW f \in MayCall[c], Call(c, f)
          PROVE  UNCHANGED <<opened, handling>>
      BY <3>1 DEF Call
    <3>2. ASSUME NEW c \in Callers, Busy(c) \/ TakeLine(c) \/ Timeout(c) \/ NextCommand(c) \/ Finish(c) \/ Return(c)
          PROVE  UNCHANGED <<opened, handling>>
      BY <3>2 DEF Busy, TakeLine, Timeout, NextCommand, Finish, Return
    <3>3. ASSUME NEW s \in Services, Report(s)
          PROVE  UNCHANGED <<opened, handling>>
      BY <3>3 DEF Report
    <3> QED
      BY <1>2, <1>3, <1>4, <1>5, <2>2, <3>1, <3>2, <3>3 DEF TrNext
  <2> QED
    BY <1>6, <2>1, <2>2 DEF Next
<1>7. CASE UNCHANGED vars
  BY <1>2, <1>7 DEF vars, trVars
<1> QED
  BY <1>6, <1>7

(* Where the tasks are patient, requests keep the promise of OneShot: a    *)
(* result goes to the one caller whose request is open, and to it once.    *)
THEOREM RequestsAreOneShot == Spec => ImplementsOneShot
<1>1. Init => AsOneShot!Init
  BY OneShotInit
<1>2. IInv /\ [Next]_vars => [AsOneShot!Next]_AsOneShot!vars
  BY OneShotStep
<1> QED
  BY <1>1, <1>2, Invariant, PTL DEF Spec, ImplementsOneShot, AsOneShot!Spec

-----------------------------------------------------------------------------
(* What is left of the response to a command.                              *)
RestOf(cmd) ==
  {<<"OK">>, <<"ERROR">>}
    \cup (IF cmd \in {"url", "post"} THEN {<<"CONNECT", "OK">>} ELSE {})
    \cup (IF cmd = "read" THEN {<<"CONNECT", "data", "OK">>, <<"data", "OK">>} ELSE {})
    \cup (IF cmd = "start" THEN {<<"+QCELLLOC:", "OK">>} ELSE {})

(* The last line of a response that is a success is all that is to come,   *)
(* or has come.                                                            *)
Ending(c)    == call[c].pc = "sent" /\ waiting.lines = <<"OK">>
Succeeded(c) == call[c].pc \in {"answered", "done"} /\ call[c].ret = "success"

Reads == {"RIL_HTTP_SetServerURL", "RIL_HTTP_RequestToPost", "RIL_HTTP_ReadResponse"}

(* What the handler should write or read for a call of function f by c.    *)
Due(c, f) ==
  IF f = "RIL_HTTP_SetServerURL" THEN {<<"url", c>>}
  ELSE IF f = "RIL_HTTP_RequestToPost" THEN {<<"post", c>>}
  ELSE IF f = "RIL_HTTP_ReadResponse" THEN {<<"read", c>>} ELSE {}

(* The globals of an undisturbed HTTP call are as it left them, so what is *)
(* written at its prompt is its own.                                       *)
GlobalsAreIts(c) ==
  LET f == call[c].fn
  IN InCall(c) /\ f \in DOMAIN HttpAction =>
       /\ m_httpAction = HttpAction[f]
       /\ f = "RIL_HTTP_SetServerURL" => httpData.url = c
       /\ f = "RIL_HTTP_RequestToPost" => httpData.post = c
       /\ f = "RIL_HTTP_ReadResponse" => httpData.rcv = c

DataIsIts(c) ==
  call[c].pc # "idle" =>
    /\ call[c].fn \notin Reads => call[c].wrote = {}
    /\ call[c].fn \in Reads /\ (Ending(c) \/ Succeeded(c)) => call[c].wrote = Due(c, call[c].fn)

(* The flag is that of an undisturbed RIL_QLBS_Cfg, and so is the mode of  *)
(* the module once the command has been carried out.                       *)
ModeIsIts(c) ==
  InCall(c) /\ call[c].fn \in Configures =>
    /\ update_time_flag = (call[c].fn = "RIL_QLBS_Cfg_on")
    /\ Ending(c) \/ Succeeded(c) => withTime = (call[c].fn = "RIL_QLBS_Cfg_on")

(* The location is asked for in the mode the function has set; then its    *)
(* response is what the function expects.                                  *)
PlaceIsIts(c) ==
  LET k == call[c]
      ex == k.fn = "RIL_GetLocation_Ex"
  IN k.pc # "idle" /\ Service(c) = "loc" =>
       /\ k.skipped => k.fn = "RIL_GetLocationByCell"
       /\ InCall(c) /\ k.step = 1 /\ (Ending(c) \/ Succeeded(c)) => asynch = ~ex
       /\ InCall(c) /\ k.step = 2 /\ ~k.skipped => asynch = ~ex
       /\ k.step = 2 /\ k.pc = "sent" /\ ~ex /\ ~k.skipped => waiting.lines \in {<<"OK">>, <<"ERROR">>}
       /\ (k.step = 2 /\ Ending(c)) \/ (k.step = 2 /\ Succeeded(c)) =>
            IF ex THEN k.place = "place" ELSE k.ran \/ k.skipped
       /\ k.pc = "done" /\ k.ret = "success" => k.step = 2

Promised(c) == ~call[c].disturbed => GlobalsAreIts(c) /\ DataIsIts(c) /\ ModeIsIts(c) /\ PlaceIsIts(c)

LinesInv == \A c \in Callers : call[c].pc = "sent" => waiting.lines \in RestOf(Current(c))

PromisesInv ==
  /\ LinesInv /\ FlagFollowsModule /\ DOMAIN httpData = {"url", "post", "rcv"}
  /\ \A c \in Callers : Promised(c)

DataInv == IInv /\ PromisesInv

(* What m_httpAction becomes.                                              *)
LEMMA Actions ==
  /\ DOMAIN HttpAction = {"RIL_HTTP_SetServerURL", "RIL_HTTP_RequestToGet", "RIL_HTTP_RequestToPost",
                          "RIL_HTTP_ReadResponse", "RIL_HTTP_DownloadFile"}
  /\ HttpAction["RIL_HTTP_SetServerURL"] = "SETURL"
  /\ HttpAction["RIL_HTTP_RequestToPost"] = "POST_REQ"
  /\ HttpAction["RIL_HTTP_ReadResponse"] = "READ_RSP"
  BY DEF HttpAction

(* Which function sends which command.                                     *)
Locates == {"RIL_GetLocation", "RIL_GetLocationByCell", "RIL_GetLocation_Ex"}

LEMMA Commands ==
  ASSUME NEW f, f \in Functions, NEW n, n \in DOMAIN Script[f].cmds
  PROVE  /\ Script[f].cmds[n] \in {"url", "post", "read"} <=> f \in Reads
         /\ Script[f].cmds[n] = "url" => f = "RIL_HTTP_SetServerURL"
         /\ Script[f].cmds[n] = "post" => f = "RIL_HTTP_RequestToPost"
         /\ Script[f].cmds[n] = "read" => f = "RIL_HTTP_ReadResponse"
         /\ Script[f].cmds[n] \in {"timeOn", "timeOff"} <=> f \in Configures
         /\ Script[f].cmds[n] = "timeOn" <=> f = "RIL_QLBS_Cfg_on"
         /\ Script[f].sv = "loc" <=> f \in Locates
         /\ Script[f].cmds[n] \in {"asynch", "synch"} <=> f \in Locates /\ n = 1
         /\ f \in Locates => n \in {1, 2} /\ Len(Script[f].cmds) = 2
         /\ f \in Locates /\ n = 1 => (Script[f].cmds[n] = "synch" <=> f = "RIL_GetLocation_Ex")
         /\ f \in Locates /\ n = 2 => Script[f].cmds[n] = "start"
<1>1. f \in {"RIL_HTTP_DownloadFile", "RIL_FTP_QFTPGET", "RIL_FTP_QFTPPUT", "RIL_GetLocation",
             "RIL_GetLocationByCell", "RIL_GetLocation_Ex", "RIL_QLBS_Loc", "RIL_NTP_START",
             "RIL_GPS_CMD_Send", "RIL_WDTMF_Send", "RIL_ToneDet_Open", "RIL_HTTP_SetServerURL",
             "RIL_HTTP_RequestToGet", "RIL_HTTP_RequestToPost", "RIL_HTTP_ReadResponse",
             "RIL_QLBS_Cfg_on", "RIL_QLBS_Cfg_off"}
  BY DEF Functions, Script
<1>2. \A a, b : /\ DOMAIN <<a>> = {1} /\ <<a>>[1] = a
               /\ DOMAIN <<a, b>> = {1, 2} /\ <<a, b>>[1] = a /\ <<a, b>>[2] = b /\ Len(<<a, b>>) = 2
  OBVIOUS
<1>3. f \in {"RIL_HTTP_DownloadFile", "RIL_FTP_QFTPGET", "RIL_FTP_QFTPPUT", "RIL_QLBS_Loc", "RIL_NTP_START",
             "RIL_GPS_CMD_Send", "RIL_WDTMF_Send", "RIL_ToneDet_Open"} =>
        Script[f].cmds = <<"start">> /\ Script[f].sv # "loc"
  BY DEF Script, Request, RIL_HTTP_DownloadFile, RIL_FTP_QFTPGET, RIL_FTP_QFTPPUT, RIL_QLBS_Loc, RIL_NTP_START,
         RIL_GPS_CMD_Send, RIL_WDTMF_Send, RIL_ToneDet_Open
<1>4. /\ Script["RIL_GetLocation"].cmds = <<"asynch", "start">>
      /\ Script["RIL_GetLocationByCell"].cmds = <<"asynch", "start">>
      /\ Script["RIL_GetLocation_Ex"].cmds = <<"synch", "start">>
      /\ \A g \in Locates : Script[g].sv = "loc"
  BY DEF Script, Request, Locates, RIL_GetLocation, RIL_GetLocationByCell, RIL_GetLocation_Ex
<1>5. /\ Script["RIL_HTTP_SetServerURL"].cmds = <<"url">>
      /\ Script["RIL_HTTP_RequestToGet"].cmds = <<"get">>
      /\ Script["RIL_HTTP_RequestToPost"].cmds = <<"post">>
      /\ Script["RIL_HTTP_ReadResponse"].cmds = <<"read">>
      /\ Script["RIL_QLBS_Cfg_on"].cmds = <<"timeOn">>
      /\ Script["RIL_QLBS_Cfg_off"].cmds = <<"timeOff">>
      /\ f \in {"RIL_HTTP_SetServerURL", "RIL_HTTP_RequestToGet", "RIL_HTTP_RequestToPost",
                "RIL_HTTP_ReadResponse", "RIL_QLBS_Cfg_on", "RIL_QLBS_Cfg_off"} => Script[f].sv # "loc"
  BY DEF Script, Request, RIL_HTTP_SetServerURL, RIL_HTTP_RequestToGet, RIL_HTTP_RequestToPost,
         RIL_HTTP_ReadResponse, RIL_QLBS_Cfg
<1>6. CASE f \in {"RIL_HTTP_DownloadFile", "RIL_FTP_QFTPGET", "RIL_FTP_QFTPPUT", "RIL_QLBS_Loc", "RIL_NTP_START",
             "RIL_GPS_CMD_Send", "RIL_WDTMF_Send", "RIL_ToneDet_Open"}
  <2>1. Script[f].cmds = <<"start">> /\ n \in DOMAIN Script[f].cmds
    BY <1>3, <1>6
  <2>2. n = 1 /\ Script[f].cmds[n] = "start"
    BY <1>2, <2>1
  <2> QED
    BY <1>3, <1>6, <2>2 DEF Locates, Configures, Reads
<1>7. CASE f \in Locates
  <2>1. /\ n \in {1, 2} /\ Len(Script[f].cmds) = 2
        /\ n = 2 => Script[f].cmds[n] = "start"
        /\ n = 1 => Script[f].cmds[n] = IF f = "RIL_GetLocation_Ex" THEN "synch" ELSE "asynch"
    BY <1>2, <1>4, <1>7 DEF Locates
  <2> QED
    BY <1>4, <1>7, <2>1 DEF Locates, Configures, Reads
<1>8. CASE f \in {"RIL_HTTP_SetServerURL", "RIL_HTTP_RequestToGet", "RIL_HTTP_RequestToPost",
                  "RIL_HTTP_ReadResponse", "RIL_QLBS_Cfg_on", "RIL_QLBS_Cfg_off"}
  <2>1. /\ n = 1
        /\ f = "RIL_HTTP_SetServerURL" => Script[f].cmds[n] = "url"
        /\ f = "RIL_HTTP_RequestToGet" => Script[f].cmds[n] = "get"
        /\ f = "RIL_HTTP_RequestToPost" => Script[f].cmds[n] = "post"
        /\ f = "RIL_HTTP_ReadResponse" => Script[f].cmds[n] = "read"
        /\ f = "RIL_QLBS_Cfg_on" => Script[f].cmds[n] = "timeOn"
        /\ f = "RIL_QLBS_Cfg_off" => Script[f].cmds[n] = "timeOff"
    BY <1>2, <1>5, <1>8
  <2> QED
    BY <1>5, <1>8, <2>1 DEF Locates, Configures, Reads
<1> QED
  BY <1>1, <1>6, <1>7, <1>8 DEF Locates

(* Where k2 is the call k but for whose the callbacks are and for what     *)
(* others did.                                                             *)
SameData(k2, k) ==
  /\ Same(k2, k) /\ k2.ret = k.ret /\ k2.ran = k.ran /\ k2.place = k.place /\ k2.wrote = k.wrote
  /\ k2.skipped = k.skipped

LEMMA LosesCallsData ==
  ASSUME CallsInv, NEW s, NEW c, NEW cs, cs = LoseCalls(s, c)
  PROVE  \A u \in Callers : ACall(u, cs[u]) /\ SameData(cs[u], call[u]) /\ cs[u].disturbed = call[u].disturbed
<1>1. \A u \in Callers : cs[u] = [call[u] EXCEPT !.held = @ /\ (Asks(u, s) => u = c)]
  BY DEF LoseCalls
<1>2. \A u \in Callers : ACall(u, cs[u]) /\ Same(cs[u], call[u])
  BY LosesCalls
<1>3. \A u \in Callers : \E h : cs[u] = [call[u] EXCEPT !.held = h]
  BY <1>1
<1>4. \A u \in Callers : DOMAIN call[u] = {"pc", "fn", "step", "ret", "ran", "place", "wrote", "disturbed", "skipped", "held"}
  BY DEF CallsInv, ACall
<1> QED
  BY <1>2, <1>3, <1>4 DEF SameData

LEMMA DisturbsData ==
  ASSUME NEW cs, NEW us, NEW ds, ds = Disturb(cs, us), \A u \in Callers : ACall(u, cs[u])
  PROVE  /\ DOMAIN ds = Callers
         /\ \A u \in Callers : /\ SameData(ds[u], cs[u])
                               /\ ~ds[u].disturbed => ~cs[u].disturbed /\ u \notin us
<1>1. \A u \in Callers : ds[u] = [cs[u] EXCEPT !.disturbed = @ \/ u \in us]
  BY DEF Disturb
<1> QED
  BY <1>1 DEF Disturb, ACall, Same, SameData

(* What one caller does keeps what was promised to another, if the globals *)
(* that one needs stay as they are or it is told.                          *)
Untouched(u) ==
  /\ call[u].pc = "sent" => waiting' = waiting
  /\ ~call'[u].disturbed =>
       /\ ~call[u].disturbed
       /\ InCall(u) /\ call[u].fn \in DOMAIN HttpAction => UNCHANGED <<m_httpAction, httpData>>
       /\ InCall(u) /\ call[u].fn \in Configures => UNCHANGED <<update_time_flag, withTime>>
       /\ Asks(u, "loc") /\ (call[u].step = 2 \/ call[u].pc # "ready") => UNCHANGED asynch

LEMMA OthersKeep ==
  ASSUME NEW u \in Callers, Promised(u), SameData(call'[u], call[u]), Untouched(u)
  PROVE  Promised(u)'
<1>1. /\ InCall(u)' = InCall(u) /\ Service(u)' = Service(u) /\ call'[u].pc = call[u].pc /\ call'[u].fn = call[u].fn
      /\ call'[u].step = call[u].step /\ call'[u].ret = call[u].ret /\ call'[u].ran = call[u].ran
      /\ call'[u].place = call[u].place /\ call'[u].wrote = call[u].wrote /\ call'[u].skipped = call[u].skipped
  BY DEF SameData, Same, InCall, Service
<1>2. /\ Ending(u)' => Ending(u) /\ waiting' = waiting
      /\ Succeeded(u)' = Succeeded(u)
      /\ call[u].pc = "sent" => waiting'.lines = waiting.lines
  BY <1>1 DEF Ending, Succeeded, Untouched
<1>3. SUFFICES ASSUME ~call'[u].disturbed
               PROVE  GlobalsAreIts(u)' /\ DataIsIts(u)' /\ ModeIsIts(u)' /\ PlaceIsIts(u)'
  BY DEF Promised
<1>4. ~call[u].disturbed /\ GlobalsAreIts(u) /\ DataIsIts(u) /\ ModeIsIts(u) /\ PlaceIsIts(u)
  BY <1>3 DEF Promised, Untouched
<1>5. GlobalsAreIts(u)'
  BY <1>1, <1>3, <1>4 DEF GlobalsAreIts, Untouched
<1>6. DataIsIts(u)'
  BY <1>1, <1>2, <1>4 DEF DataIsIts, Due
<1>7. ModeIsIts(u)'
  BY <1>1, <1>2, <1>3, <1>4 DEF ModeIsIts, Untouched
<1>8. PlaceIsIts(u)'
  <2>1. InCall(u) /\ Service(u) = "loc" /\ (call[u].step = 2 \/ Ending(u) \/ Succeeded(u)) => asynch' = asynch
    BY <1>3 DEF Untouched, Asks, Ending, Succeeded
  <2> QED
    BY <1>1, <1>2, <1>4, <2>1 DEF PlaceIsIts
<1> QED
  BY <1>5, <1>6, <1>7, <1>8

LEMMA DataFields ==
  ASSUME DataInv, NEW c \in Callers
  PROVE  /\ IInv /\ LinesInv /\ Promised(c) /\ FlagFollowsModule /\ DOMAIN httpData = {"url", "post", "rcv"}
         /\ ACall(c, call[c]) /\ DOMAIN call = Callers
         /\ call[c].pc # "idle" => /\ call[c].fn \in Functions
                                   /\ call[c].step \in DOMAIN Script[call[c].fn].cmds
         /\ \A u \in Callers : call[u].pc = "sent" <=> waiting.task = u
  BY Fields DEF DataInv, PromisesInv, ACall

(* The call of c goes on, or ends, without a change of the globals.        *)
LEMMA CallGoesOnData ==
  ASSUME DataInv, NEW c \in Callers, DOMAIN call' = Callers, \A u \in Callers \ {c} : call'[u] = call[u],
         UNCHANGED <<m_httpAction, httpData, update_time_flag, asynch, withTime, cfgDoubt>>,
         call[c].pc = "sent" \/ waiting' = waiting,
         call[c].pc # "done" => InCall(c) /\ InCall(c)' /\ call'[c].fn = call[c].fn,
         call'[c].pc = "sent" => waiting'.lines \in RestOf(Current(c)'),
         Promised(c)'
  PROVE  PromisesInv'
<1>1. ASSUME NEW u \in Callers \ {c}
      PROVE  Promised(u)' /\ (call'[u].pc = "sent" => waiting'.lines \in RestOf(Current(u)'))
  <2>1. call[u].pc = "sent" => waiting' = waiting
    BY DataFields
  <2>2. SameData(call'[u], call[u]) /\ Untouched(u)
    BY <2>1 DEF SameData, Same, Untouched
  <2>3. Promised(u)'
    BY <2>2, DataFields, OthersKeep
  <2>4. Current(u)' = Current(u)
    BY DEF Current
  <2>5. call'[u].pc = "sent" => waiting'.lines \in RestOf(Current(u))
    BY <2>1, DataFields DEF LinesInv
  <2> QED
    BY <2>3, <2>4, <2>5
<1>2. FlagFollowsModule'
  <2>1. SUFFICES ASSUME (\A u \in Callers : call'[u].fn \notin Configures \/ call'[u].pc \in {"idle", "done"}), ~cfgDoubt
                 PROVE  update_time_flag = withTime
    BY DEF FlagFollowsModule
  <2>2. call[c].fn \notin Configures \/ call[c].pc \in {"idle", "done"}
    BY <2>1 DEF InCall
  <2>3. \A u \in Callers : call[u].fn \notin Configures \/ call[u].pc \in {"idle", "done"}
    BY <2>1, <2>2
  <2> QED
    BY <2>1, <2>3, DataFields DEF FlagFollowsModule
<1> QED
  BY <1>1, <1>2, DataFields DEF PromisesInv, LinesInv

(* A call that is refused keeps what was promised to it, since nothing is  *)
(* promised of a failure.                                                  *)
LEMMA Refused ==
  ASSUME DataInv, NEW c \in Callers, InCall(c), NEW v, v # "success", call' = [call EXCEPT ![c].pc = "answered", ![c].ret = v],
         UNCHANGED <<m_httpAction, httpData, update_time_flag, asynch, withTime, cfgDoubt>>,
         call[c].pc = "sent" \/ waiting' = waiting
  PROVE  PromisesInv'
<1> DEFINE k == [call[c] EXCEPT !.pc = "answered", !.ret = v]
<1>1. DOMAIN call' = Callers /\ call'[c] = k /\ \A u \in Callers \ {c} : call'[u] = call[u]
  BY DataFields
<1>2. /\ k.pc = "answered" /\ k.ret = v /\ k.fn = call[c].fn /\ k.step = call[c].step /\ k.wrote = call[c].wrote
      /\ k.disturbed = call[c].disturbed /\ k.skipped = call[c].skipped
  BY DataFields DEF ACall
<1> HIDE DEF k
<1>3. InCall(c)' /\ ~Ending(c)' /\ ~Succeeded(c)' /\ Service(c)' = Service(c) /\ call[c].pc # "idle"
  BY <1>1, <1>2 DEF InCall, Ending, Succeeded, Service
<1>4. ASSUME ~call'[c].disturbed
      PROVE  GlobalsAreIts(c)' /\ DataIsIts(c)' /\ ModeIsIts(c)' /\ PlaceIsIts(c)'
  <2>1. GlobalsAreIts(c) /\ DataIsIts(c) /\ ModeIsIts(c) /\ PlaceIsIts(c)
    BY <1>1, <1>2, <1>4, DataFields DEF Promised
  <2>2. GlobalsAreIts(c)'
    BY <1>1, <1>2, <1>3, <2>1 DEF GlobalsAreIts
  <2>3. DataIsIts(c)'
    BY <1>1, <1>2, <1>3, <2>1 DEF DataIsIts
  <2>4. ModeIsIts(c)'
    BY <1>1, <1>2, <1>3, <2>1 DEF ModeIsIts
  <2>5. PlaceIsIts(c)'
    BY <1>1, <1>2, <1>3, <2>1 DEF PlaceIsIts
  <2> QED
    BY <2>2, <2>3, <2>4, <2>5
<1>5. Promised(c)'
  BY <1>4 DEF Promised
<1> QED
  BY <1>1, <1>2, <1>3, <1>5, CallGoesOnData DEF InCall

LEMMA BusyData ==
  ASSUME DataInv, NEW c \in Callers, Busy(c)
  PROVE  PromisesInv'
  BY Refused DEF Busy, InCall

LEMMA TimeoutData ==
  ASSUME DataInv, NEW c \in Callers, Timeout(c)
  PROVE  PromisesInv'
<1>1. waiting.task = c
  BY DEF Timeout
<1>2. call[c].pc = "sent"
  BY <1>1, DataFields
<1> QED
  BY <1>2, Refused DEF Timeout, InCall

LEMMA ReturnData ==
  ASSUME DataInv, NEW c \in Callers, Return(c)
  PROVE  PromisesInv'
<1>1. DOMAIN call' = Callers /\ call'[c] = NoCall /\ \A u \in Callers \ {c} : call'[u] = call[u]
  BY DataFields DEF Return
<1>2. NoCall.pc = "idle"
  BY DEF NoCall
<1>3. Promised(c)'
  BY <1>1, <1>2 DEF Promised, GlobalsAreIts, DataIsIts, ModeIsIts, PlaceIsIts, InCall
<1> QED
  BY <1>1, <1>2, <1>3, CallGoesOnData DEF Return

(* The next command of a function that asks for a location: the mode is    *)
(* set now, or that was skipped.                                           *)
LEMMA NextCommandData ==
  ASSUME DataInv, NEW c \in Callers, NextCommand(c)
  PROVE  PromisesInv'
<1> DEFINE k == [call[c] EXCEPT !.pc = "ready", !.step = @ + 1, !.skipped = call[c].ret # "success"]
<1>1. /\ DOMAIN call' = Callers /\ call'[c] = k /\ \A u \in Callers \ {c} : call'[u] = call[u]
      /\ call[c].pc = "answered" /\ GoesOn(c)
      /\ UNCHANGED <<waiting, m_httpAction, httpData, update_time_flag, asynch, withTime, cfgDoubt>>
  BY DataFields DEF NextCommand
<1>2. /\ k.pc = "ready" /\ k.ret = call[c].ret /\ k.fn = call[c].fn /\ k.step = call[c].step + 1 /\ k.wrote = call[c].wrote
      /\ k.disturbed = call[c].disturbed /\ k.skipped = (call[c].ret # "success")
  BY DataFields DEF ACall
<1> HIDE DEF k
<1>3. InCall(c) /\ InCall(c)' /\ ~Ending(c)' /\ ~Succeeded(c)' /\ Service(c)' = Service(c)
  BY <1>1, <1>2 DEF InCall, Ending, Succeeded, Service
<1>4. /\ call[c].ret = "success" \/ call[c].fn = "RIL_GetLocationByCell"
      /\ Service(c) = "loc" => call[c].step = 1 /\ k.step = 2
  <2>1. /\ call[c].fn \in Functions /\ call[c].step \in DOMAIN Script[call[c].fn].cmds
        /\ call[c].step < Len(Script[call[c].fn].cmds)
        /\ call[c].ret = "success" \/ call[c].fn = "RIL_GetLocationByCell"
    BY <1>1, DataFields DEF GoesOn
  <2>2. Service(c) = "loc" => call[c].step \in {1, 2} /\ Len(Script[call[c].fn].cmds) = 2
    BY <2>1, Commands DEF Service
  <2>3. ASSUME Service(c) = "loc"
        PROVE  call[c].step = 1
    <3>1. \A n, m : n \in {1, 2} /\ m = 2 /\ n < m => n = 1
      OBVIOUS
    <3> QED
      BY <2>1, <2>2, <2>3, <3>1, Zenon
  <2>4. k.step = call[c].step + 1
    BY <1>2
  <2> QED
    BY <2>1, <2>3, <2>4
<1>5. ASSUME ~call'[c].disturbed
      PROVE  GlobalsAreIts(c)' /\ DataIsIts(c)' /\ ModeIsIts(c)' /\ PlaceIsIts(c)'
  <2>1. GlobalsAreIts(c) /\ DataIsIts(c) /\ ModeIsIts(c) /\ PlaceIsIts(c)
    BY <1>1, <1>2, <1>5, DataFields DEF Promised
  <2>2. GlobalsAreIts(c)'
    BY <1>1, <1>2, <1>3, <2>1 DEF GlobalsAreIts
  <2>3. DataIsIts(c)'
    BY <1>1, <1>2, <1>3, <2>1 DEF DataIsIts
  <2>4. ModeIsIts(c)'
    BY <1>1, <1>2, <1>3, <2>1 DEF ModeIsIts
  <2>5. PlaceIsIts(c)'
    BY <1>1, <1>2, <1>3, <1>4, <2>1 DEF PlaceIsIts, Succeeded
  <2> QED
    BY <2>2, <2>3, <2>4, <2>5
<1>6. Promised(c)'
  BY <1>5 DEF Promised
<1> QED
  BY <1>1, <1>2, <1>3, <1>6, CallGoesOnData

(* The lines of a response one after the other.                            *)
LEMMA LinesInOrder ==
  ASSUME NEW cmd, NEW lines \in RestOf(cmd)
  PROVE  \/ lines = <<"OK">> /\ Head(lines) = "OK"
         \/ lines = <<"ERROR">> /\ Head(lines) = "ERROR"
         \/ lines # <<"OK">> /\ Head(lines) = "CONNECT" /\ Tail(lines) = <<"OK">> /\ cmd \in {"url", "post"}
         \/ lines # <<"OK">> /\ Head(lines) = "CONNECT" /\ Tail(lines) = <<"data", "OK">> /\ cmd = "read"
         \/ lines # <<"OK">> /\ Head(lines) = "data" /\ Tail(lines) = <<"OK">> /\ cmd = "read"
         \/ /\ lines \notin {<<"OK">>, <<"ERROR">>} /\ Head(lines) = "+QCELLLOC:" /\ Tail(lines) = <<"OK">>
            /\ cmd = "start"
<1>1. \A a, b : Head(<<a>>) = a /\ Head(<<a, b>>) = a /\ Tail(<<a, b>>) = <<b>> /\ \A d : <<a, b>> # <<d>>
  OBVIOUS
<1>2. \A a, b, e : Head(<<a, b, e>>) = a /\ Tail(<<a, b, e>>) = <<b, e>> /\ \A d : <<a, b, e>> # <<d>>
  OBVIOUS
<1>3. \/ lines = <<"OK">> \/ lines = <<"ERROR">>
      \/ lines = <<"CONNECT", "OK">> /\ cmd \in {"url", "post"}
      \/ lines = <<"CONNECT", "data", "OK">> /\ cmd = "read"
      \/ lines = <<"data", "OK">> /\ cmd = "read"
      \/ lines = <<"+QCELLLOC:", "OK">> /\ cmd = "start"
  BY DEF RestOf
<1>4. CASE lines = <<"OK">> \/ lines = <<"ERROR">>
  BY <1>1, <1>4
<1>5. CASE lines = <<"CONNECT", "OK">> /\ cmd \in {"url", "post"}
  BY <1>1, <1>5
<1>6. CASE lines = <<"CONNECT", "data", "OK">> /\ cmd = "read"
  BY <1>2, <1>6
<1>7. CASE lines = <<"data", "OK">> /\ cmd = "read"
  BY <1>1, <1>7
<1>8. CASE lines = <<"+QCELLLOC:", "OK">> /\ cmd = "start"
  BY <1>1, <1>8
<1> QED
  BY <1>3, <1>4, <1>5, <1>6, <1>7, <1>8

(* The answer is a success: what it depends on has come.                   *)
LEMMA SuccessData ==
  ASSUME DataInv, NEW c \in Callers, Ending(c), call' = [call EXCEPT ![c].pc = "answered", ![c].ret = "success"],
         UNCHANGED <<m_httpAction, httpData, update_time_flag, asynch, withTime, cfgDoubt>>
  PROVE  PromisesInv'
<1> DEFINE k == [call[c] EXCEPT !.pc = "answered", !.ret = "success"]
<1>1. DOMAIN call' = Callers /\ call'[c] = k /\ \A u \in Callers \ {c} : call'[u] = call[u]
  BY DataFields
<1>2. /\ k.pc = "answered" /\ k.ret = "success" /\ k.fn = call[c].fn /\ k.step = call[c].step /\ k.wrote = call[c].wrote
      /\ k.disturbed = call[c].disturbed /\ k.skipped = call[c].skipped /\ k.place = call[c].place /\ k.ran = call[c].ran
  BY DataFields DEF ACall
<1> HIDE DEF k
<1>3. /\ InCall(c) /\ InCall(c)' /\ ~Ending(c)' /\ Succeeded(c)' /\ Service(c)' = Service(c)
      /\ call[c].pc = "sent" /\ k.pc # "sent"
  BY <1>1, <1>2 DEF InCall, Ending, Succeeded, Service
<1>4. ASSUME ~call'[c].disturbed
      PROVE  GlobalsAreIts(c)' /\ DataIsIts(c)' /\ ModeIsIts(c)' /\ PlaceIsIts(c)'
  <2>1. GlobalsAreIts(c) /\ DataIsIts(c) /\ ModeIsIts(c) /\ PlaceIsIts(c)
    BY <1>1, <1>2, <1>4, DataFields DEF Promised
  <2>2. GlobalsAreIts(c)'
    BY <1>1, <1>2, <1>3, <2>1 DEF GlobalsAreIts
  <2>3. DataIsIts(c)'
    BY <1>1, <1>2, <1>3, <2>1 DEF DataIsIts
  <2>4. ModeIsIts(c)'
    BY <1>1, <1>2, <1>3, <2>1 DEF ModeIsIts
  <2>5. PlaceIsIts(c)'
    BY <1>1, <1>2, <1>3, <2>1 DEF PlaceIsIts
  <2> QED
    BY <2>2, <2>3, <2>4, <2>5
<1>5. Promised(c)'
  BY <1>4 DEF Promised
<1> QED
  BY <1>1, <1>2, <1>3, <1>5, CallGoesOnData

(* Another line of the response is taken: it may bring data.               *)
OnlyData(k2, k) ==
  /\ k2.pc = k.pc /\ k2.fn = k.fn /\ k2.step = k.step /\ k2.disturbed = k.disturbed /\ k2.skipped = k.skipped
  /\ k2.ran = k.ran

LEMMA LineData ==
  ASSUME DataInv, NEW c \in Callers, call[c].pc = "sent", NEW k,
         DOMAIN call' = Callers, call'[c] = k, \A u \in Callers \ {c} : call'[u] = call[u], OnlyData(k, call[c]),
         waiting'.lines = Tail(waiting.lines), waiting'.lines \in RestOf(Current(c)),
         UNCHANGED <<m_httpAction, httpData, update_time_flag, asynch, withTime, cfgDoubt>>,
         waiting.lines # <<"OK">>, waiting.lines # <<"ERROR">>,
         call[c].fn \notin Configures,
         Service(c) = "loc" => call[c].step = 2 /\ waiting'.lines = <<"OK">>,
         call[c].fn = "RIL_GetLocation_Ex" => k.place = "place",
         call[c].fn \notin Reads => k.wrote = call[c].wrote,
         call[c].fn \in Reads /\ GlobalsAreIts(c) /\ waiting'.lines = <<"OK">> => k.wrote = Due(c, call[c].fn)
  PROVE  PromisesInv'
<1>1. DOMAIN call' = Callers /\ call'[c] = k /\ \A u \in Callers \ {c} : call'[u] = call[u]
  OBVIOUS
<1>2. /\ k.pc = "sent" /\ k.fn = call[c].fn /\ k.step = call[c].step /\ k.disturbed = call[c].disturbed
      /\ k.skipped = call[c].skipped /\ k.ran = call[c].ran
  BY DEF OnlyData
<1>3. /\ InCall(c) /\ InCall(c)' /\ ~Succeeded(c)' /\ Service(c)' = Service(c) /\ Current(c)' = Current(c)
      /\ ~Ending(c)
  BY <1>1, <1>2 DEF InCall, Ending, Succeeded, Service, Current
<1>4. ASSUME ~call'[c].disturbed
      PROVE  GlobalsAreIts(c)' /\ DataIsIts(c)' /\ ModeIsIts(c)' /\ PlaceIsIts(c)'
  <2>1. GlobalsAreIts(c) /\ DataIsIts(c) /\ ModeIsIts(c) /\ PlaceIsIts(c)
    BY <1>1, <1>2, <1>4, DataFields DEF Promised
  <2>2. GlobalsAreIts(c)'
    BY <1>1, <1>2, <1>3, <2>1 DEF GlobalsAreIts
  <2>3. DataIsIts(c)'
    BY <1>1, <1>2, <1>3, <2>1 DEF DataIsIts, Ending
  <2>4. ModeIsIts(c)'
    BY <1>1, <1>2, <1>3, <2>1 DEF ModeIsIts
  <2>5. PlaceIsIts(c)'
    BY <1>1, <1>2, <1>3, <2>1 DEF PlaceIsIts
  <2> QED
    BY <2>2, <2>3, <2>4, <2>5
<1>5. Promised(c)'
  BY <1>4 DEF Promised
<1> QED
  BY <1>1, <1>2, <1>3, <1>5, CallGoesOnData

LEMMA TakeLineData ==
  ASSUME DataInv, NEW c \in Callers, TakeLine(c)
  PROVE  PromisesInv'
<1> DEFINE lines == waiting.lines
           line == Head(waiting.lines)
           k == call[c]
           cmd == Current(c)
<1>1. /\ waiting.task = c /\ UNCHANGED <<m_httpAction, httpData, update_time_flag, asynch, withTime, cfgDoubt>>
      /\ waiting' = (IF line \in {"OK", "ERROR"} THEN Free ELSE [waiting EXCEPT !.lines = Tail(@)])
  BY DEF TakeLine
<1>2. call[c].pc = "sent" /\ lines \in RestOf(Current(c)) /\ InCall(c)
  BY <1>1, DataFields DEF LinesInv, InCall
<1>3. /\ k.fn \in Functions /\ k.step \in DOMAIN Script[k.fn].cmds /\ ACall(c, k) /\ DOMAIN call = Callers
      /\ DOMAIN waiting = {"task", "lines"}
  BY <1>2, DataFields, Fields
<1>4. /\ cmd \in {"url", "post", "read"} => k.fn \in Reads
      /\ cmd = "url" => k.fn = "RIL_HTTP_SetServerURL"
      /\ cmd = "post" => k.fn = "RIL_HTTP_RequestToPost"
      /\ cmd = "read" => k.fn = "RIL_HTTP_ReadResponse"
      /\ k.fn \in Reads => cmd \in {"url", "post", "read"}
      /\ cmd \in {"url", "post", "read", "start"} => k.fn \notin Configures
      /\ Service(c) = "loc" => k.fn \in Locates
      /\ k.fn \in Locates => cmd \in {"asynch", "synch", "start"} /\ (cmd = "start" => k.step = 2)
  <2>1. cmd = Script[k.fn].cmds[k.step] /\ Service(c) = Script[k.fn].sv
    BY DEF Current, Service
  <2>2. k.fn \in Locates => k.step \in {1, 2}
    BY <1>3, Commands
  <2>3. k.fn \in Locates /\ k.step = 1 => cmd \in {"asynch", "synch"}
    BY <1>3, <2>1, Commands
  <2>4. k.fn \in Locates /\ k.step = 2 => cmd = "start"
    BY <1>3, <2>1, Commands
  <2>5. cmd \in {"timeOn", "timeOff"} <=> k.fn \in Configures
    BY <1>3, <2>1, Commands
  <2>6. /\ cmd \in {"url", "post", "read"} <=> k.fn \in Reads
        /\ cmd = "url" => k.fn = "RIL_HTTP_SetServerURL"
        /\ cmd = "post" => k.fn = "RIL_HTTP_RequestToPost"
        /\ cmd = "read" => k.fn = "RIL_HTTP_ReadResponse"
        /\ Service(c) = "loc" => k.fn \in Locates
    BY <1>3, <2>1, Commands
  <2> QED
    BY <2>2, <2>3, <2>4, <2>5, <2>6
<1>5. OnlyData(k, k)
  BY DEF OnlyData
<1>6. CASE lines = <<"OK">> /\ line = "OK"
  <2>1. call' = [call EXCEPT ![c].pc = "answered", ![c].ret = "success"]
    BY <1>6 DEF TakeLine
  <2> QED
    BY <1>1, <1>2, <1>6, <2>1, SuccessData DEF Ending
<1>7. CASE lines = <<"ERROR">> /\ line = "ERROR"
  <2>1. call' = [call EXCEPT ![c].pc = "answered", ![c].ret = "failed"]
    BY <1>7 DEF TakeLine
  <2> QED
    BY <1>1, <1>2, <2>1, Refused
<1>8. CASE lines # <<"OK">> /\ line = "CONNECT" /\ Tail(lines) = <<"OK">> /\ cmd \in {"url", "post"}
  <2>1. /\ DOMAIN call' = Callers /\ \A u \in Callers \ {c} : call'[u] = call[u]
        /\ OnlyData(call'[c], k) /\ call'[c].wrote = Writes(m_httpAction)
    <3>1. call' = [call EXCEPT ![c].wrote = Writes(m_httpAction)]
      BY <1>8 DEF TakeLine
    <3>2. /\ DOMAIN call' = Callers /\ \A u \in Callers \ {c} : call'[u] = call[u]
          /\ call'[c] = [k EXCEPT !.wrote = Writes(m_httpAction)]
      BY <1>3, <3>1
    <3> QED
      BY <1>3, <3>2 DEF ACall, OnlyData
  <2>2. waiting'.lines = <<"OK">> /\ waiting'.lines = Tail(lines)
    BY <1>1, <1>3, <1>8
  <2>3. GlobalsAreIts(c) => Writes(m_httpAction) = Due(c, k.fn)
    BY <1>2, <1>4, <1>8, Actions DEF GlobalsAreIts, Writes, Due
  <2>4. <<"OK">> \in RestOf(cmd) /\ lines # <<"ERROR">>
    BY <1>8 DEF RestOf
  <2> QED
    BY <1>1, <1>2, <1>4, <1>8, <2>1, <2>2, <2>3, <2>4, LineData DEF Reads, Locates
<1>9. CASE lines # <<"OK">> /\ line = "CONNECT" /\ Tail(lines) = <<"data", "OK">> /\ cmd = "read"
  <2>1. /\ DOMAIN call' = Callers /\ \A u \in Callers \ {c} : call'[u] = call[u]
        /\ OnlyData(call'[c], k) /\ call'[c].wrote = Writes(m_httpAction)
    <3>1. call' = [call EXCEPT ![c].wrote = Writes(m_httpAction)]
      BY <1>9 DEF TakeLine
    <3>2. /\ DOMAIN call' = Callers /\ \A u \in Callers \ {c} : call'[u] = call[u]
          /\ call'[c] = [k EXCEPT !.wrote = Writes(m_httpAction)]
      BY <1>3, <3>1
    <3> QED
      BY <1>3, <3>2 DEF ACall, OnlyData
  <2>2. waiting'.lines = <<"data", "OK">> /\ waiting'.lines = Tail(lines) /\ waiting'.lines # <<"OK">>
    BY <1>1, <1>3, <1>9
  <2>3. <<"data", "OK">> \in RestOf(cmd) /\ lines # <<"ERROR">>
    BY <1>9 DEF RestOf
  <2> QED
    BY <1>1, <1>2, <1>4, <1>9, <2>1, <2>2, <2>3, LineData DEF Reads, Locates
<1>10. CASE lines # <<"OK">> /\ line = "data" /\ Tail(lines) = <<"OK">> /\ cmd = "read"
  <2>1. /\ DOMAIN call' = Callers /\ \A u \in Callers \ {c} : call'[u] = call[u]
        /\ OnlyData(call'[c], k) /\ call'[c].wrote = Ql_RIL_RcvDataFrmCore
    <3>1. call' = [call EXCEPT ![c].wrote = Ql_RIL_RcvDataFrmCore]
      BY <1>10 DEF TakeLine
    <3>2. /\ DOMAIN call' = Callers /\ \A u \in Callers \ {c} : call'[u] = call[u]
          /\ call'[c] = [k EXCEPT !.wrote = Ql_RIL_RcvDataFrmCore]
      BY <1>3, <3>1
    <3> QED
      BY <1>3, <3>2 DEF ACall, OnlyData
  <2>2. waiting'.lines = <<"OK">> /\ waiting'.lines = Tail(lines)
    BY <1>1, <1>3, <1>10
  <2>3. GlobalsAreIts(c) => Ql_RIL_RcvDataFrmCore = Due(c, k.fn)
    BY <1>2, <1>4, <1>10, Actions, NobodyIsNoCaller DEF GlobalsAreIts, Ql_RIL_RcvDataFrmCore, Due
  <2>4. <<"OK">> \in RestOf(cmd) /\ lines # <<"ERROR">>
    BY <1>10 DEF RestOf
  <2> QED
    BY <1>1, <1>2, <1>4, <1>10, <2>1, <2>2, <2>3, <2>4, LineData DEF Reads, Locates
<1>11. CASE lines \notin {<<"OK">>, <<"ERROR">>} /\ line = "+QCELLLOC:" /\ Tail(lines) = <<"OK">> /\ cmd = "start"
  <2>1. /\ DOMAIN call' = Callers /\ \A u \in Callers \ {c} : call'[u] = call[u]
        /\ OnlyData(call'[c], k) /\ call'[c].wrote = k.wrote
        /\ k.fn = "RIL_GetLocation_Ex" => call'[c].place = "place"
    <3>1. call' = IF k.fn = "RIL_GetLocation_Ex" THEN [call EXCEPT ![c].place = "place"] ELSE call
      BY <1>11 DEF TakeLine
    <3>2. CASE k.fn = "RIL_GetLocation_Ex"
      <4>1. /\ DOMAIN call' = Callers /\ \A u \in Callers \ {c} : call'[u] = call[u]
            /\ call'[c] = [k EXCEPT !.place = "place"]
        BY <1>3, <3>1, <3>2
      <4> QED
        BY <1>3, <4>1 DEF ACall, OnlyData
    <3>3. CASE k.fn # "RIL_GetLocation_Ex"
      BY <1>3, <1>5, <3>1, <3>3
    <3> QED
      BY <3>2, <3>3
  <2>2. waiting'.lines = <<"OK">> /\ waiting'.lines = Tail(lines)
    BY <1>1, <1>3, <1>11
  <2>3. <<"OK">> \in RestOf(cmd) /\ k.fn \notin Reads
    BY <1>4, <1>11 DEF RestOf
  <2> QED
    BY <1>1, <1>2, <1>4, <1>11, <2>1, <2>2, <2>3, LineData
<1> QED
  BY <1>2, <1>6, <1>7, <1>8, <1>9, <1>10, <1>11, LinesInOrder

(* The function returns what its answer promised.                          *)
LEMMA FinishData ==
  ASSUME DataInv, NEW c \in Callers, Finish(c)
  PROVE  PromisesInv'
<1> DEFINE k == [call[c] EXCEPT !.pc = "done", !.place = Copied(c), !.held = FALSE]
<1>1. /\ DOMAIN call' = Callers /\ call'[c] = k /\ \A u \in Callers \ {c} : call'[u] = call[u]
      /\ call[c].pc = "answered" /\ ~GoesOn(c)
      /\ UNCHANGED <<waiting, m_httpAction, httpData, update_time_flag, asynch, withTime>>
  BY DataFields DEF Finish
<1>2. /\ k.pc = "done" /\ k.ret = call[c].ret /\ k.fn = call[c].fn /\ k.step = call[c].step /\ k.wrote = call[c].wrote
      /\ k.disturbed = call[c].disturbed /\ k.skipped = call[c].skipped /\ k.ran = call[c].ran /\ k.place = Copied(c)
  BY DataFields DEF ACall
<1> HIDE DEF k
<1>3. /\ InCall(c) /\ ~InCall(c)' /\ ~Ending(c)' /\ (Succeeded(c)' <=> Succeeded(c)) /\ Service(c)' = Service(c)
  BY <1>1, <1>2 DEF InCall, Ending, Succeeded, Service
<1>4. Service(c) = "loc" /\ call[c].ret = "success" => call[c].step = 2
  <2>1. call[c].fn \in Functions /\ call[c].step \in DOMAIN Script[call[c].fn].cmds
    BY <1>1, DataFields
  <2>2. Service(c) = "loc" => call[c].step \in {1, 2} /\ Len(Script[call[c].fn].cmds) = 2
    BY <2>1, Commands DEF Service
  <2>3. call[c].ret = "success" => ~(call[c].step < Len(Script[call[c].fn].cmds))
    BY <1>1 DEF GoesOn
  <2>4. \A n, m : n \in {1, 2} /\ m = 2 /\ ~(n < m) => n = 2
    OBVIOUS
  <2> QED
    BY <2>2, <2>3, <2>4, Zenon
<1>5. ASSUME ~call'[c].disturbed
      PROVE  GlobalsAreIts(c)' /\ DataIsIts(c)' /\ ModeIsIts(c)' /\ PlaceIsIts(c)'
  <2>1. DataIsIts(c) /\ PlaceIsIts(c)
    BY <1>1, <1>2, <1>5, DataFields DEF Promised
  <2>2. GlobalsAreIts(c)' /\ ModeIsIts(c)'
    BY <1>3 DEF GlobalsAreIts, ModeIsIts
  <2>3. DataIsIts(c)'
    BY <1>1, <1>2, <1>3, <2>1 DEF DataIsIts
  <2>4. PlaceIsIts(c)'
    <3>1. SUFFICES ASSUME Service(c) = "loc"
                   PROVE  PlaceIsIts(c)'
      BY <1>3 DEF PlaceIsIts
    <3>2. ASSUME Succeeded(c), call[c].fn = "RIL_GetLocation_Ex"
          PROVE  k.place = "place"
      <4>1. call[c].place = "place" /\ call[c].ret = "success"
        BY <1>1, <1>4, <2>1, <3>1, <3>2 DEF PlaceIsIts, Succeeded
      <4> QED
        BY <1>2, <3>2, <4>1 DEF Copied
    <3>3. ASSUME Succeeded(c), call[c].fn # "RIL_GetLocation_Ex"
          PROVE  k.ran \/ k.skipped
      BY <1>1, <1>2, <1>4, <2>1, <3>1, <3>3 DEF PlaceIsIts, Succeeded
    <3> QED
      BY <1>1, <1>2, <1>3, <1>4, <2>1, <3>1, <3>2, <3>3 DEF PlaceIsIts, Succeeded
  <2> QED
    BY <2>2, <2>3, <2>4
<1>6. Promised(c)'
  BY <1>5 DEF Promised
<1>7. ASSUME NEW u \in Callers \ {c}
      PROVE  Promised(u)'
  <2>1. SameData(call'[u], call[u]) /\ Untouched(u)
    BY <1>1 DEF SameData, Same, Untouched
  <2> QED
    BY <2>1, DataFields, OthersKeep
<1>8. LinesInv'
  <2>1. \A u \in Callers : call'[u].pc = "sent" => call'[u] = call[u] /\ call[u].pc = "sent" /\ Current(u)' = Current(u)
    BY <1>1, <1>2 DEF Current
  <2> QED
    BY <1>1, <2>1, DataFields DEF LinesInv
<1>9. FlagFollowsModule'
  <2>1. SUFFICES ASSUME (\A u \in Callers : call'[u].fn \notin Configures \/ call'[u].pc \in {"idle", "done"}), ~cfgDoubt'
                 PROVE  update_time_flag = withTime
    BY <1>1 DEF FlagFollowsModule
  <2>2. CASE call[c].fn \in Configures
    <3>1. call[c].ret = "success" /\ ~call[c].disturbed
      BY <2>1, <2>2 DEF Finish
    <3>2. ModeIsIts(c) /\ Succeeded(c)
      BY <1>1, <3>1, DataFields DEF Promised, Succeeded
    <3> QED
      BY <1>3, <2>2, <3>2 DEF ModeIsIts
  <2>3. CASE call[c].fn \notin Configures
    <3>1. cfgDoubt' = cfgDoubt
      BY <2>3 DEF Finish
    <3>2. \A u \in Callers : call[u].fn \notin Configures \/ call[u].pc \in {"idle", "done"}
      BY <1>1, <2>1, <2>3
    <3> QED
      BY <2>1, <3>1, <3>2, DataFields DEF FlagFollowsModule
  <2> QED
    BY <2>2, <2>3
<1> QED
  BY <1>1, <1>6, <1>7, <1>8, <1>9, DataFields DEF PromisesInv

(* A step that tells the calls no more than whose callbacks are theirs.    *)
LEMMA CallsRest ==
  ASSUME DataInv, \A u \in Callers : SameData(call'[u], call[u]) /\ call'[u].disturbed = call[u].disturbed,
         UNCHANGED <<waiting, m_httpAction, httpData, update_time_flag, asynch, withTime, cfgDoubt>>
  PROVE  PromisesInv'
<1>1. ASSUME NEW u \in Callers
      PROVE  Promised(u)'
  <2>1. Untouched(u)
    BY DEF Untouched
  <2> QED
    BY <2>1, DataFields, OthersKeep
<1>2. \A u \in Callers : call'[u].pc = call[u].pc /\ call'[u].fn = call[u].fn /\ Current(u)' = Current(u)
  BY DEF SameData, Same, Current
<1>4. LinesInv'
  BY <1>2 DEF LinesInv, DataInv, PromisesInv
<1>5. FlagFollowsModule'
  BY <1>2 DEF FlagFollowsModule, DataInv, PromisesInv
<1> QED
  BY <1>1, <1>4, <1>5 DEF DataInv, PromisesInv

LEMMA CallStays ==
  ASSUME DataInv, UNCHANGED <<call, waiting, m_httpAction, httpData, update_time_flag, asynch, withTime, cfgDoubt>>
  PROVE  PromisesInv'
  BY CallsRest DEF SameData, Same

LEMMA HandlerReturnsData ==
  ASSUME DataInv, HandlerReturns
  PROVE  PromisesInv'
<1>1. /\ UNCHANGED <<waiting, m_httpAction, httpData, update_time_flag, asynch, withTime, cfgDoubt>>
      /\ call' = call \/ \E s : call' = LoseCalls(s, Nobody)
  BY DEF HandlerReturns
<1>2. CASE call' = call
  BY <1>1, <1>2, CallStays
<1>3. CASE \E s : call' = LoseCalls(s, Nobody)
  <2>1. PICK s, cs : cs = LoseCalls(s, Nobody) /\ call' = cs
    BY <1>3
  <2>2. \A u \in Callers : SameData(cs[u], call[u]) /\ cs[u].disturbed = call[u].disturbed
    BY <2>1, LosesCallsData DEF DataInv, IInv, ShapeInv
  <2> QED
    BY <1>1, <2>1, <2>2, CallsRest
<1> QED
  BY <1>1, <1>2, <1>3

(* A function begins: it sets the globals for itself, and those who needed *)
(* them are told.                                                          *)
LEMMA CallData ==
  ASSUME DataInv, NEW c \in Callers, NEW f \in MayCall[c], Call(c, f)
  PROVE  PromisesInv'
<1> DEFINE s == Script[f].sv
           first == Script[f].registers = "before"
           k == [NoCall EXCEPT !.pc = "ready", !.fn = f, !.held = first]
<1>1. PICK us : /\ call' = [Disturb(IF first THEN LoseCalls(s, c) ELSE call, us) EXCEPT ![c] = k]
                /\ f \in DOMAIN HttpAction => us = Others(c, DOMAIN HttpAction)
                /\ f \in Configures => us = Others(c, Configures)
  <2>1. f \in Configures => f \notin DOMAIN HttpAction
    BY Actions DEF Configures
  <2> QED
    BY <2>1 DEF Call
<1>2. /\ call[c].pc = "idle" /\ UNCHANGED <<waiting, asynch, withTime, cfgDoubt>>
      /\ m_httpAction' = (IF f \in DOMAIN HttpAction THEN HttpAction[f] ELSE m_httpAction)
      /\ httpData' = Assigned(c, f)
      /\ update_time_flag' = IF f \in Configures THEN f = "RIL_QLBS_Cfg_on" ELSE update_time_flag
  BY DEF Call, TimeFlag
<1>3. k.pc = "ready" /\ k.fn = f /\ k.wrote = {} /\ k.skipped = FALSE /\ k.step = 1 /\ k.ret = ""
  BY DEF NoCall
<1> HIDE DEF k
<1>4. PICK cs : cs = IF first THEN LoseCalls(s, c) ELSE call
  OBVIOUS
<1>5. CallsInv
  BY DEF DataInv, IInv, ShapeInv
<1>6. \A u \in Callers : ACall(u, cs[u]) /\ SameData(cs[u], call[u]) /\ cs[u].disturbed = call[u].disturbed
  <2>1. CASE first
    BY <1>4, <1>5, <2>1, LosesCallsData
  <2>2. CASE ~first
    BY <1>4, <1>5, <2>2 DEF SameData, Same, CallsInv
  <2> QED
    BY <2>1, <2>2
<1>7. PICK ds : ds = Disturb(cs, us)
  OBVIOUS
<1>8. /\ DOMAIN ds = Callers
      /\ \A u \in Callers : SameData(ds[u], cs[u]) /\ (~ds[u].disturbed => ~cs[u].disturbed /\ u \notin us)
  BY <1>6, <1>7, DisturbsData
<1>9. /\ call'[c] = k
      /\ \A u \in Callers \ {c} : /\ SameData(call'[u], call[u])
                                  /\ ~call'[u].disturbed => ~call[u].disturbed /\ u \notin us
  <2>1. call' = [ds EXCEPT ![c] = k]
    BY <1>1, <1>4, <1>7
  <2>2. call'[c] = k /\ \A u \in Callers \ {c} : call'[u] = ds[u]
    BY <1>8, <2>1
  <2>3. \A u \in Callers : SameData(ds[u], call[u])
    BY <1>6, <1>8 DEF SameData, Same
  <2> QED
    BY <1>6, <1>8, <2>2, <2>3
<1> HIDE DEF s, first
<1>10. /\ DOMAIN httpData' = {"url", "post", "rcv"}
       /\ f \notin DOMAIN HttpAction => httpData' = httpData
       /\ f = "RIL_HTTP_SetServerURL" => httpData'.url = c
       /\ f = "RIL_HTTP_RequestToPost" => httpData'.post = c
       /\ f = "RIL_HTTP_ReadResponse" => httpData'.rcv = c
  <2>1. DOMAIN httpData = {"url", "post", "rcv"}
    BY DataFields
  <2>2. CASE f = "RIL_HTTP_SetServerURL"
    BY <1>2, <2>1, <2>2, Actions DEF Assigned
  <2>3. CASE f = "RIL_HTTP_RequestToPost"
    BY <1>2, <2>1, <2>3, Actions DEF Assigned
  <2>4. CASE f = "RIL_HTTP_ReadResponse"
    BY <1>2, <2>1, <2>4, Actions DEF Assigned
  <2>5. CASE f \notin {"RIL_HTTP_SetServerURL", "RIL_HTTP_RequestToPost", "RIL_HTTP_ReadResponse"}
    BY <1>2, <2>1, <2>5 DEF Assigned
  <2> QED
    BY <2>2, <2>3, <2>4, <2>5
<1>11. ASSUME NEW u \in Callers \ {c}
       PROVE  Promised(u)'
  <2>1. ASSUME ~call'[u].disturbed, InCall(u), call[u].fn \in DOMAIN HttpAction
        PROVE  UNCHANGED <<m_httpAction, httpData>>
    <3>1. f \notin DOMAIN HttpAction
      BY <1>1, <1>9, <2>1 DEF Others
    <3> QED
      BY <1>2, <1>10, <3>1
  <2>2. ASSUME ~call'[u].disturbed, InCall(u), call[u].fn \in Configures
        PROVE  update_time_flag' = update_time_flag
    <3>1. f \notin Configures
      BY <1>1, <1>9, <2>2 DEF Others
    <3> QED
      BY <1>2, <3>1
  <2>3. Untouched(u)
    BY <1>2, <1>9, <2>1, <2>2 DEF Untouched
  <2> QED
    BY <1>9, <2>3, DataFields, OthersKeep
<1>12. Promised(c)'
  <2>1. InCall(c)' /\ ~Ending(c)' /\ ~Succeeded(c)'
    BY <1>3, <1>9 DEF InCall, Ending, Succeeded
  <2>2. GlobalsAreIts(c)'
    BY <1>2, <1>3, <1>9, <1>10 DEF GlobalsAreIts
  <2>3. DataIsIts(c)'
    BY <1>3, <1>9, <2>1 DEF DataIsIts
  <2>4. ModeIsIts(c)'
    BY <1>2, <1>3, <1>9, <2>1 DEF ModeIsIts
  <2>5. PlaceIsIts(c)'
    <3>1. k.step # 2
      <4>1. \A n : n = 1 => n # 2
        OBVIOUS
      <4> QED
        BY <1>3, <4>1, Zenon
    <3>2. ~k.skipped
      BY <1>3
    <3>3. call'[c].pc = "ready" /\ ~call'[c].skipped /\ call'[c].step # 2
      BY <1>3, <1>9, <3>1, <3>2, Zenon
    <3> QED
      BY <2>1, <3>3 DEF PlaceIsIts
  <2> QED
    BY <2>2, <2>3, <2>4, <2>5 DEF Promised
<1>13. LinesInv'
  <2>1. \A u \in Callers : call'[u].pc = "sent" => call[u].pc = "sent" /\ Current(u)' = Current(u)
    BY <1>3, <1>9 DEF SameData, Same, Current
  <2> QED
    BY <1>2, <2>1 DEF LinesInv, DataInv, PromisesInv
<1>14. FlagFollowsModule'
  <2>1. SUFFICES ASSUME (\A u \in Callers : call'[u].fn \notin Configures \/ call'[u].pc \in {"idle", "done"}), ~cfgDoubt
                 PROVE  update_time_flag' = withTime
    BY <1>2 DEF FlagFollowsModule
  <2>2. f \notin Configures
    BY <1>3, <1>9, <2>1
  <2>3. \A u \in Callers : call[u].fn \notin Configures \/ call[u].pc \in {"idle", "done"}
    BY <1>2, <1>9, <2>1 DEF SameData, Same
  <2> QED
    BY <1>2, <2>1, <2>2, <2>3, DataFields DEF FlagFollowsModule
<1> QED
  BY <1>10, <1>11, <1>12, <1>13, <1>14 DEF PromisesInv

(* A command is sent: it is answered for what the module is set to.        *)
LEMMA AnswerData ==
  ASSUME DataInv, NEW c \in Callers, call[c].pc = "ready", NEW lines \in Answers(c) \cup {<<"ERROR">>}
  PROVE  /\ lines \in RestOf(Current(c))
         /\ Current(c) \in {"url", "post", "read"} => lines # <<"OK">>
         /\ Current(c) = "start" /\ Service(c) = "loc" /\ ~asynch => lines # <<"OK">>
         /\ Current(c) = "start" /\ asynch => lines \in {<<"OK">>, <<"ERROR">>}
  BY DEF Answers, RestOf

LEMMA SendData ==
  ASSUME DataInv, NEW c \in Callers, Send(c)
  PROVE  PromisesInv'
<1> DEFINE cmd == Current(c)
           f == call[c].fn
           n == call[c].step
           k(ran) == [call[c] EXCEPT !.pc = "sent", !.ran = ran]
           starts(lines) == cmd = "start" /\ lines = <<"OK">>
<1>1. PICK lines, us :
        /\ lines \in Answers(c) \cup {<<"ERROR">>}
        /\ waiting' = [task |-> c, lines |-> lines]
        /\ asynch' = IF lines # <<"ERROR">> /\ cmd \in {"asynch", "synch"} THEN cmd = "asynch" ELSE asynch
        /\ withTime' = IF lines # <<"ERROR">> /\ cmd \in {"timeOn", "timeOff"} THEN cmd = "timeOn" ELSE withTime
        /\ call' = Disturb([call EXCEPT ![c].pc = "sent", ![c].ran = starts(lines)], us)
        /\ lines # <<"ERROR">> /\ cmd \in {"asynch", "synch"} /\ asynch # (cmd = "asynch") =>
             us = {u \in Callers \ {c} : Asks(u, "loc") /\ (call[u].step = 2 \/ call[u].pc = "answered")}
        /\ cmd \in {"timeOn", "timeOff"} => us = Others(c, Configures)
  BY DEF Send
<1>2. /\ call[c].pc = "ready" /\ waiting = Free
      /\ UNCHANGED <<m_httpAction, httpData, update_time_flag, cfgDoubt>>
  BY DEF Send
<1>3. /\ ACall(c, call[c]) /\ DOMAIN call = Callers /\ f \in Functions /\ n \in DOMAIN Script[f].cmds
      /\ cmd = Script[f].cmds[n] /\ Service(c) = Script[f].sv
  BY <1>2, DataFields DEF Current, Service
<1>4. \A u \in Callers : call[u].pc # "sent"
  BY <1>2, DataFields, NobodyIsNoCaller DEF Free
<1>5. /\ k(starts(lines)).pc = "sent" /\ k(starts(lines)).fn = f /\ k(starts(lines)).step = n
      /\ k(starts(lines)).ret = call[c].ret /\ k(starts(lines)).wrote = call[c].wrote
      /\ k(starts(lines)).disturbed = call[c].disturbed /\ k(starts(lines)).skipped = call[c].skipped
      /\ (starts(lines) => k(starts(lines)).ran) /\ ACall(c, k(starts(lines)))
  BY <1>3, <1>2 DEF ACall, Pcs
<1>6. PICK cs : cs = [call EXCEPT ![c].pc = "sent", ![c].ran = starts(lines)]
  OBVIOUS
<1>7. cs[c] = k(starts(lines)) /\ \A u \in Callers \ {c} : cs[u] = call[u]
  BY <1>3, <1>6
<1> HIDE DEF k
<1>8. \A u \in Callers : ACall(u, cs[u])
  BY <1>5, <1>7 DEF DataInv, IInv, ShapeInv, CallsInv
<1>9. PICK ds : ds = Disturb(cs, us) /\ call' = ds
  BY <1>1, <1>6
<1>10. \A u \in Callers : SameData(ds[u], cs[u]) /\ (~ds[u].disturbed => ~cs[u].disturbed /\ u \notin us)
  BY <1>8, <1>9, DisturbsData
<1>11. /\ call'[c].pc = "sent" /\ call'[c].fn = f /\ call'[c].step = n /\ call'[c].ret = call[c].ret
       /\ call'[c].wrote = call[c].wrote /\ call'[c].skipped = call[c].skipped
       /\ starts(lines) => call'[c].ran
       /\ ~call'[c].disturbed => ~call[c].disturbed
  BY <1>5, <1>7, <1>9, <1>10 DEF SameData, Same
<1>12. \A u \in Callers \ {c} : SameData(call'[u], call[u]) /\ (~call'[u].disturbed => ~call[u].disturbed /\ u \notin us)
  BY <1>7, <1>9, <1>10
<1>13. waiting'.lines = lines
  BY <1>1
<1>14. /\ lines \in RestOf(cmd)
       /\ cmd \in {"url", "post", "read"} => lines # <<"OK">>
       /\ cmd = "start" /\ Service(c) = "loc" /\ ~asynch => lines # <<"OK">>
       /\ cmd = "start" /\ asynch => lines \in {<<"OK">>, <<"ERROR">>}
  <2>1. lines \in Answers(c) \cup {<<"ERROR">>}
    BY <1>1
  <2> QED
    BY <1>2, <2>1, AnswerData
<1>15. <<"OK">> # <<"ERROR">>
  OBVIOUS
<1>16. /\ cmd \in {"url", "post", "read"} <=> f \in Reads
       /\ cmd \in {"timeOn", "timeOff"} <=> f \in Configures
       /\ cmd = "timeOn" <=> f = "RIL_QLBS_Cfg_on"
       /\ Service(c) = "loc" <=> f \in Locates
       /\ cmd \in {"asynch", "synch"} <=> f \in Locates /\ n = 1
       /\ f \in Locates => n \in {1, 2}
       /\ f \in Locates /\ n = 1 => (cmd = "synch" <=> f = "RIL_GetLocation_Ex")
       /\ f \in Locates /\ n = 2 => cmd = "start"
  BY <1>3, Commands
<1> HIDE DEF cmd, starts
<1>17. ASSUME NEW u \in Callers \ {c}
       PROVE  Promised(u)'
  <2>1. ASSUME ~call'[u].disturbed, InCall(u), call[u].fn \in Configures
        PROVE  withTime' = withTime
    BY <1>1, <1>12, <2>1 DEF Others
  <2>2. ASSUME ~call'[u].disturbed, Asks(u, "loc"), call[u].step = 2 \/ call[u].pc # "ready"
        PROVE  asynch' = asynch
    <3>1. call[u].step = 2 \/ call[u].pc = "answered"
      BY <1>4, <2>2 DEF Asks, InCall
    <3>2. u \notin us
      BY <1>12, <2>2
    <3>3. CASE lines # <<"ERROR">> /\ cmd \in {"asynch", "synch"}
      <4>1. asynch = (cmd = "asynch")
        BY <1>1, <2>2, <3>1, <3>2, <3>3
      <4> QED
        BY <1>1, <3>3, <4>1
    <3>4. CASE ~(lines # <<"ERROR">> /\ cmd \in {"asynch", "synch"})
      BY <1>1, <3>4
    <3> QED
      BY <3>3, <3>4
  <2>3. Untouched(u)
    BY <1>2, <1>4, <1>12, <2>1, <2>2 DEF Untouched
  <2> QED
    BY <1>12, <2>3, DataFields, OthersKeep
<1>18. ASSUME ~call'[c].disturbed
       PROVE  GlobalsAreIts(c)' /\ DataIsIts(c)' /\ ModeIsIts(c)' /\ PlaceIsIts(c)'
  <2>1. GlobalsAreIts(c) /\ DataIsIts(c) /\ ModeIsIts(c) /\ PlaceIsIts(c)
    BY <1>11, <1>18, DataFields DEF Promised
  <2>2. /\ InCall(c) /\ InCall(c)' /\ ~Succeeded(c)' /\ Service(c)' = Service(c) /\ (Ending(c)' <=> lines = <<"OK">>)
    BY <1>2, <1>11, <1>13 DEF InCall, Succeeded, Service, Ending
  <2>3. GlobalsAreIts(c)'
    BY <1>2, <1>11, <2>1, <2>2 DEF GlobalsAreIts
  <2>4. DataIsIts(c)'
    BY <1>2, <1>11, <1>14, <1>16, <2>1, <2>2 DEF DataIsIts
  <2>5. ModeIsIts(c)'
    <3>1. SUFFICES ASSUME f \in Configures
                   PROVE  ModeIsIts(c)'
      BY <1>11 DEF ModeIsIts
    <3>2. lines = <<"OK">> => withTime' = (f = "RIL_QLBS_Cfg_on")
      <4>1. ASSUME lines = <<"OK">>
            PROVE  withTime' = (cmd = "timeOn")
        BY <1>1, <1>15, <1>16, <3>1, <4>1
      <4> QED
        BY <1>16, <4>1
    <3> QED
      BY <1>2, <1>11, <2>1, <2>2, <3>1, <3>2 DEF ModeIsIts
  <2>6. PlaceIsIts(c)'
    <3>1. SUFFICES ASSUME f \in Locates
                   PROVE  PlaceIsIts(c)'
      BY <1>16, <2>2 DEF PlaceIsIts
    <3>2. n = 1 \/ n = 2
      BY <1>16, <3>1
    <3>3. CASE n = 1
      <4>1. ASSUME lines = <<"OK">>
            PROVE  asynch' = (f # "RIL_GetLocation_Ex")
        BY <1>1, <1>15, <1>16, <3>1, <3>3, <4>1
      <4>2. n # 2
        <5>1. \A m : m = 1 => m # 2
          OBVIOUS
        <5> QED
          BY <3>3, <5>1, Zenon
      <4>3. call[c].skipped => f = "RIL_GetLocationByCell"
        BY <1>2, <1>16, <2>1, <3>1 DEF PlaceIsIts
      <4> QED
        BY <1>11, <2>2, <4>1, <4>2, <4>3 DEF PlaceIsIts
    <3>4. CASE n = 2
      <4>1. cmd = "start" /\ asynch' = asynch
        <5>1. cmd = "start"
          BY <1>16, <3>1, <3>4
        <5> QED
          BY <1>1, <5>1
      <4>2. /\ call[c].skipped => f = "RIL_GetLocationByCell"
            /\ ~call[c].skipped => asynch = (f # "RIL_GetLocation_Ex")
        BY <1>2, <1>16, <2>1, <2>2, <3>1, <3>4 DEF PlaceIsIts
      <4>3. f # "RIL_GetLocation_Ex" /\ ~call[c].skipped => lines \in {<<"OK">>, <<"ERROR">>}
        BY <1>14, <4>1, <4>2
      <4>4. lines = <<"OK">> => f # "RIL_GetLocation_Ex" /\ call'[c].ran
        BY <1>11, <1>14, <1>16, <3>1, <4>1, <4>2 DEF starts
      <4>5. n # 1
        <5>1. \A m : m = 2 => m # 1
          OBVIOUS
        <5> QED
          BY <3>4, <5>1, Zenon
      <4> QED
        BY <1>11, <1>13, <2>2, <4>1, <4>2, <4>3, <4>4, <4>5 DEF PlaceIsIts
    <3> QED
      BY <3>2, <3>3, <3>4
  <2> QED
    BY <2>3, <2>4, <2>5, <2>6
<1>19. Promised(c)'
  BY <1>18 DEF Promised
<1>20. LinesInv'
  <2>1. Current(c)' = cmd
    BY <1>11 DEF Current, cmd
  <2>2. \A u \in Callers \ {c} : call'[u].pc # "sent"
    BY <1>4, <1>12 DEF SameData, Same
  <2> QED
    BY <1>13, <1>14, <2>1, <2>2 DEF LinesInv
<1>21. FlagFollowsModule'
  <2>1. SUFFICES ASSUME (\A u \in Callers : call'[u].fn \notin Configures \/ call'[u].pc \in {"idle", "done"}), ~cfgDoubt
                 PROVE  update_time_flag = withTime'
    BY <1>2 DEF FlagFollowsModule
  <2>2. f \notin Configures
    BY <1>11, <2>1
  <2>3. withTime' = withTime
    BY <1>1, <1>16, <2>2
  <2>4. \A u \in Callers : call[u].fn \notin Configures \/ call[u].pc \in {"idle", "done"}
    BY <1>12, <2>1, <2>2 DEF SameData, Same
  <2> QED
    BY <2>1, <2>3, <2>4, DataFields DEF FlagFollowsModule
<1> QED
  BY <1>2, <1>17, <1>19, <1>20, <1>21, DataFields DEF PromisesInv

LEMMA DataInit ==
  ASSUME Init
  PROVE  PromisesInv
<1>1. \A c \in Callers : call[c].pc = "idle" /\ call[c].ret = ""
  BY DEF Init, TrInit, NoCall
<1>2. update_time_flag = withTime /\ DOMAIN httpData = {"url", "post", "rcv"}
  BY DEF Init, TrInit
<1>3. \A c \in Callers : Promised(c)
  BY <1>1 DEF Promised, GlobalsAreIts, DataIsIts, ModeIsIts, PlaceIsIts, InCall
<1> QED
  BY <1>1, <1>2, <1>3 DEF PromisesInv, LinesInv, FlagFollowsModule

LEMMA DataStep ==
  ASSUME DataInv, [Next]_vars
  PROVE  PromisesInv'
<1>1. ASSUME NEW c \in Callers, \E f \in MayCall[c] : Call(c, f)
      PROVE  PromisesInv'
  BY <1>1, CallData
<1>2. ASSUME NEW c \in Callers, Send(c) \/ Busy(c) \/ TakeLine(c) \/ Timeout(c)
      PROVE  PromisesInv'
  BY <1>2, SendData, BusyData, TakeLineData, TimeoutData
<1>3. ASSUME NEW c \in Callers, NextCommand(c) \/ Finish(c) \/ Return(c)
      PROVE  PromisesInv'
  BY <1>3, NextCommandData, FinishData, ReturnData
<1>4. ASSUME NEW s \in Services, Report(s)
      PROVE  PromisesInv'
  BY <1>4, CallStays DEF Report
<1>5. ASSUME HandleReport
      PROVE  PromisesInv'
  BY <1>5, CallStays DEF HandleReport
<1>6. CASE TrNext
  BY <1>1, <1>2, <1>3, <1>4, <1>5, <1>6, HandlerReturnsData DEF TrNext
<1>7. CASE UNCHANGED trVars
  BY <1>7, CallStays DEF trVars
<1> QED
  BY <1>6, <1>7 DEF Next, vars

LEMMA DataInvariant == Spec => []PromisesInv
<1>1. Init => PromisesInv
  BY DataInit
<1>2. IInv /\ PromisesInv /\ [Next]_vars => PromisesInv'
  BY DataStep DEF DataInv
<1> QED
  BY <1>1, <1>2, Invariant, PTL DEF Spec

(* What a successful HTTP call writes or reads is its own, unless another  *)
(* HTTP function began before it had ended.                                *)
THEOREM HttpCallsUseTheirOwnData == Spec => []HttpDataIsTheCallers
<1>1. ASSUME PromisesInv
      PROVE  HttpDataIsTheCallers
  <2>1. SUFFICES ASSUME NEW c \in Callers, call[c].pc = "done", call[c].ret = "success", ~call[c].disturbed
                 PROVE  call[c].wrote = CASE call[c].fn = "RIL_HTTP_SetServerURL"  -> {<<"url", c>>}
                                          [] call[c].fn = "RIL_HTTP_RequestToPost" -> {<<"post", c>>}
                                          [] call[c].fn = "RIL_HTTP_ReadResponse"  -> {<<"read", c>>}
                                          [] OTHER                                 -> {}
    BY DEF HttpDataIsTheCallers
  <2>2. DataIsIts(c) /\ Succeeded(c)
    BY <1>1, <2>1 DEF PromisesInv, Promised, Succeeded
  <2>3. CASE call[c].fn \in Reads
    BY <2>1, <2>2, <2>3 DEF DataIsIts, Due, Reads
  <2>4. CASE call[c].fn \notin Reads
    BY <2>1, <2>2, <2>4 DEF DataIsIts, Reads
  <2> QED
    BY <2>3, <2>4
<1> QED
  BY <1>1, DataInvariant, PTL

(* A location that was successfully asked for is returned, or comes later, *)
(* unless the mode was changed between the two commands of the function.   *)
THEOREM LocationsAreReturned == Spec => []LocationsAreAnswered
<1>1. ASSUME PromisesInv, IInv
      PROVE  LocationsAreAnswered
  <2>1. SUFFICES ASSUME NEW c \in Callers, call[c].pc = "done", call[c].ret = "success", Service(c) = "loc",
                        ~call[c].disturbed
                 PROVE  CASE call[c].fn = "RIL_GetLocation_Ex"    -> call[c].place = "place"
                          [] call[c].fn = "RIL_GetLocation"       -> call[c].ran
                          [] call[c].fn = "RIL_GetLocationByCell" -> call[c].ran \/ call[c].skipped
    BY DEF LocationsAreAnswered
  <2>2. /\ call[c].skipped => call[c].fn = "RIL_GetLocationByCell"
        /\ IF call[c].fn = "RIL_GetLocation_Ex" THEN call[c].place = "place" ELSE call[c].ran \/ call[c].skipped
    BY <1>1, <2>1 DEF PromisesInv, Promised, Succeeded, PlaceIsIts
  <2>3. call[c].fn \in Locates
    <3>1. call[c].fn \in Functions /\ call[c].step \in DOMAIN Script[call[c].fn].cmds
      BY <1>1, <2>1, Fields DEF ACall
    <3> QED
      BY <2>1, <3>1, Commands DEF Service
  <2>4. CASE call[c].fn = "RIL_GetLocation_Ex"
    BY <2>2, <2>4
  <2>5. CASE call[c].fn = "RIL_GetLocation"
    BY <2>2, <2>5
  <2>6. CASE call[c].fn = "RIL_GetLocationByCell"
    BY <2>2, <2>6
  <2> QED
    BY <2>3, <2>4, <2>5, <2>6 DEF Locates
<1> QED
  BY <1>1, DataInvariant, Invariant, PTL

(* update_time_flag tells what the module sends while nobody configures    *)
(* it, unless the last RIL_QLBS_Cfg failed or ran together with another.   *)
THEOREM FlagTellsTheMode == Spec => []FlagFollowsModule
<1>1. PromisesInv => FlagFollowsModule
  BY DEF PromisesInv
<1> QED
  BY <1>1, DataInvariant, PTL

-----------------------------------------------------------------------------
(* With n calls behind it in the queue, the place of a message's number    *)
(* and the counter are n places apart, and it takes six calls to come back *)
(* to the place.                                                           *)
Numbered(i) ==
  LET v == inbox[i].val
      n == Cardinality(CallsBehind(i))
  IN /\ v.place \in 0..5
     /\ \E q \in Nat : v.place + n = ringCnt + 6 * q
     /\ n < 6 => comingCall[v.place] = v.caller

RingInv ==
  /\ ringCnt \in 0..5 /\ DOMAIN comingCall = 0..5 /\ IsSequence(inbox)
  /\ \A i \in DOMAIN inbox : IsCall(inbox[i]) => Numbered(i)

LEMMA Counted ==
  ASSUME IsSequence(inbox), NEW i, i \in Nat
  PROVE  IsFiniteSet(CallsBehind(i)) /\ Cardinality(CallsBehind(i)) \in Nat
<1>1. Len(inbox) \in Nat
  BY SequenceFacts
<1>2. IsFiniteSet(i + 1 .. Len(inbox)) /\ CallsBehind(i) \in SUBSET (i + 1 .. Len(inbox))
  BY <1>1, FS_Interval DEF CallsBehind
<1>3. IsFiniteSet(CallsBehind(i))
  BY <1>2, FS_Subset
<1> QED
  BY <1>3, FS_CardinalityType

(* Five places or fewer are not a whole turn.                              *)
LEMMA NotTheSamePlace ==
  ASSUME NEW p \in 0..5, NEW s \in 0..5, NEW k \in Nat, NEW t \in Nat, p + (k + 1) = s + 6 * t, k + 1 < 6
  PROVE  p # s
  OBVIOUS

(* A call comes in and its message is put behind the others.               *)
LEMMA CallComes ==
  ASSUME RingInv, NEW m, NEW n, IsCall(m), m.val.place = NextPlace, m.val.caller = n, ringCnt' = NextPlace,
         comingCall' = [comingCall EXCEPT ![NextPlace] = n], inbox' = Append(inbox, m)
  PROVE  RingInv'
<1>1. /\ NextPlace \in 0..5 /\ \/ NextPlace = ringCnt + 1
                               \/ ringCnt = 5 /\ NextPlace = 0
  BY DEF NextPlace, RingInv
<1>2. /\ Len(inbox) \in Nat /\ DOMAIN inbox = 1..Len(inbox) /\ IsSequence(inbox')
      /\ Len(inbox') = Len(inbox) + 1 /\ inbox'[Len(inbox) + 1] = m
      /\ \A i \in 1..Len(inbox) : inbox'[i] = inbox[i]
  BY SequenceFacts DEF RingInv
<1>3. DOMAIN inbox' = 1..(Len(inbox) + 1)
  BY <1>2, SequenceFacts
<1>4. DOMAIN comingCall' = 0..5 /\ comingCall'[NextPlace] = n
      /\ \A p \in 0..5 : p # NextPlace => comingCall'[p] = comingCall[p]
  BY <1>1 DEF RingInv
<1>5. ASSUME NEW i \in 1..Len(inbox), IsCall(inbox[i])
      PROVE  Numbered(i)'
  <2>1. i \in Nat /\ i \in DOMAIN inbox /\ Numbered(i) /\ inbox'[i] = inbox[i]
    BY <1>2, <1>5 DEF RingInv
  <2>2. CallsBehind(i)' = CallsBehind(i) \cup {Len(inbox) + 1} /\ Len(inbox) + 1 \notin CallsBehind(i)
    BY <1>2, <1>5 DEF CallsBehind
  <2>3. Cardinality(CallsBehind(i)') = Cardinality(CallsBehind(i)) + 1 /\ Cardinality(CallsBehind(i)) \in Nat
    BY <2>1, <2>2, Counted, FS_AddElement DEF RingInv
  <2> DEFINE v == inbox[i].val
             k == Cardinality(CallsBehind(i))
  <2>4. PICK q \in Nat : v.place + k = ringCnt + 6 * q
    BY <2>1 DEF Numbered
  <2>5. v.place \in 0..5 /\ (k < 6 => comingCall[v.place] = v.caller) /\ k \in Nat /\ ringCnt \in 0..5
    BY <2>1, <2>3 DEF Numbered, RingInv
  <2>7. PICK t \in Nat : v.place + (k + 1) = ringCnt' + 6 * t
    <3>1. v.place \in Int /\ k \in Int /\ ringCnt \in Int /\ ringCnt' \in Int /\ q \in Nat
      BY <1>1, <2>5
    <3>2. ringCnt' = ringCnt + 1 \/ (ringCnt = 5 /\ ringCnt' = 0)
      BY <1>1
    <3> HIDE DEF k, v
    <3>3. PICK p0 \in Int, k0 \in Int, r0 \in Int, s0 \in Int :
            p0 = v.place /\ k0 = k /\ r0 = ringCnt /\ s0 = ringCnt'
      BY <3>1
    <3>4. p0 + k0 = r0 + 6 * q /\ (s0 = r0 + 1 \/ (r0 = 5 /\ s0 = 0))
      BY <2>4, <3>2, <3>3
    <3>5. CASE s0 = r0 + 1
      <4>1. p0 + (k0 + 1) = s0 + 6 * q
        BY <3>4, <3>5
      <4> QED
        BY <3>3, <4>1
    <3>6. CASE r0 = 5 /\ s0 = 0
      <4>1. q + 1 \in Nat /\ p0 + (k0 + 1) = s0 + 6 * (q + 1)
        BY <3>4, <3>6
      <4> QED
        BY <3>3, <4>1
    <3> QED
      BY <3>4, <3>5, <3>6
  <2>8. k + 1 < 6 => v.place # NextPlace
    <3> HIDE DEF k, v
    <3> QED
      BY <1>1, <2>5, <2>7, NotTheSamePlace
  <2>9. k + 1 < 6 => comingCall'[v.place] = v.caller
    BY <1>4, <2>5, <2>8
  <2>10. (inbox[i].val)' = v /\ Cardinality(CallsBehind(i))' = k + 1
    BY <2>1, <2>3
  <2> HIDE DEF k, v
  <2> QED
    BY <2>5, <2>7, <2>9, <2>10 DEF Numbered
<1>6. ASSUME NEW i \in Nat, i = Len(inbox) + 1
      PROVE  Numbered(i)'
  <2>1. CallsBehind(i)' = {}
    BY <1>2, <1>6 DEF CallsBehind
  <2>2. Cardinality(CallsBehind(i)') = 0
    BY <2>1, FS_EmptySet
  <2>3. NextPlace + 0 = ringCnt' + 6 * 0 /\ 0 \in Nat
    BY <1>1
  <2>4. inbox'[i] = m
    BY <1>2, <1>6
  <2> QED
    BY <1>1, <1>4, <2>2, <2>3, <2>4 DEF Numbered
<1>7. ASSUME NEW i \in DOMAIN inbox', IsCall(inbox'[i])
      PROVE  Numbered(i)'
  <2>1. CASE i \in 1..Len(inbox)
    BY <1>2, <1>5, <1>7, <2>1
  <2>2. CASE i = Len(inbox) + 1
    BY <1>2, <1>6, <2>2
  <2> QED
    BY <1>2, <1>3, <2>1, <2>2
<1> QED
  BY <1>1, <1>2, <1>4, <1>7 DEF RingInv

(* The first message is fetched: the others move up.                       *)
LEMMA MessageFetched ==
  ASSUME RingInv, inbox # <<>>, inbox' = Tail(inbox), UNCHANGED <<ringCnt, comingCall>>
  PROVE  RingInv'
<1>1. /\ Len(inbox) \in Nat /\ DOMAIN inbox = 1..Len(inbox) /\ IsSequence(inbox') /\ Len(inbox') = Len(inbox) - 1
      /\ \A i \in 1..Len(inbox') : inbox'[i] = inbox[i + 1]
  BY SequenceFacts DEF RingInv
<1>2. DOMAIN inbox' = 1..Len(inbox')
  BY <1>1, SequenceFacts
<1>3. ASSUME NEW i \in DOMAIN inbox', IsCall(inbox'[i])
      PROVE  Numbered(i)'
  <2>1. i \in Nat /\ i + 1 \in DOMAIN inbox /\ inbox'[i] = inbox[i + 1]
    BY <1>1, <1>2
  <2>2. Numbered(i + 1)
    BY <1>3, <2>1 DEF RingInv
  <2> DEFINE before == CallsBehind(i + 1)
             after == CallsBehind(i)'
             up == [j \in before |-> j - 1]
  <2>3. \A j : j \in after <=> j + 1 \in before /\ j \in Nat
    BY <1>1, <2>1 DEF CallsBehind
  <2>4. before \subseteq Nat \ {0}
    BY <1>1, <2>1 DEF CallsBehind
  <2> HIDE DEF before, after
  <2>5. up \in Bijection(before, after)
    <3>1. up \in [before -> after]
      BY <2>3, <2>4
    <3>2. \A a, b \in before : up[a] = up[b] => a = b
      BY <2>4
    <3>3. \A j \in after : \E a \in before : up[a] = j
      <4> SUFFICES ASSUME NEW j \in after
                   PROVE  \E a \in before : up[a] = j
        OBVIOUS
      <4>1. j + 1 \in before /\ up[j + 1] = j
        BY <2>3
      <4> QED
        BY <4>1
    <3> QED
      BY <3>1, <3>2, <3>3 DEF Bijection, Injection, Surjection, IsInjective
  <2>6. Cardinality(after) = Cardinality(before)
    <3>1. IsFiniteSet(before)
      BY <2>1, Counted DEF RingInv, before
    <3>2. ExistsBijection(before, after)
      BY <2>5 DEF ExistsBijection
    <3> QED
      BY <3>1, <3>2, FS_Bijection
  <2> QED
    BY <2>1, <2>2, <2>6 DEF Numbered, before, after
<1> QED
  BY <1>1, <1>3 DEF RingInv

(* No other notification leads to a message of a call.                     *)
LEMMA NoOtherCalls ==
  ASSUME NEW urc, NEW m, m \in Messages(urc)
  PROVE  ~IsCall(m)
<1> DEFINE h == HandlerOf(urc)
<1>1. h \in DOMAIN Indication
  BY DEF Messages
<1>2. PICK v : m.ind = IF h = "Network" /\ "+CGREG:" \in urc.keywords THEN "URC_GPRS_NW_STATE_IND" ELSE Indication[h]
  BY <1>1 DEF Messages, Message
<1> QED
  BY <1>1, <1>2 DEF Indication, IsCall

LEMMA RingInit == Init => RingInv
<1> SUFFICES ASSUME Init
             PROVE  RingInv
  OBVIOUS
<1>1. inbox = <<>> /\ ringCnt = 0 /\ comingCall = [i \in 0..5 |-> 0]
  BY DEF Init, UrcInit
<1>2. IsSequence(<<>>) /\ DOMAIN <<>> = {}
  BY DEF IsSequence
<1> QED
  BY <1>1, <1>2 DEF RingInv

LEMMA RingStep ==
  ASSUME RingInv, [Next]_vars
  PROVE  RingInv'
<1>1. CASE OnURCHandler_Call
  <2>1. CASE UNCHANGED <<ringCnt, comingCall, inbox>>
    BY <2>1 DEF RingInv, Numbered, CallsBehind
  <2>2. CASE /\ ringCnt' = NextPlace /\ comingCall' = [comingCall EXCEPT ![NextPlace] = calls']
             /\ inbox' = Append(inbox, Message("URC_COMING_CALL_IND", [place |-> NextPlace, caller |-> calls']))
    <3> DEFINE m == Message("URC_COMING_CALL_IND", [place |-> NextPlace, caller |-> calls'])
    <3>1. IsCall(m) /\ m.val.place = NextPlace /\ m.val.caller = calls'
      BY DEF IsCall, Message
    <3> QED
      BY <2>2, <3>1, CallComes
  <2> QED
    BY <1>1, <2>1, <2>2 DEF OnURCHandler_Call
<1>2. CASE OnURCHandler
  <2>1. PICK urc, m : m \in Messages(urc) /\ inbox' = <<m>> /\ UNCHANGED <<ringCnt, comingCall>>
    BY <1>2 DEF OnURCHandler
  <2>2. ~IsCall(m)
    BY <2>1, NoOtherCalls
  <2>3. IsSequence(<<m>>) /\ DOMAIN <<m>> = {1} /\ <<m>>[1] = m
    <3>1. <<m>> \in Seq({m}) /\ DOMAIN <<m>> = {1} /\ <<m>>[1] = m
      OBVIOUS
    <3> QED
      BY <3>1 DEF IsSequence
  <2> QED
    BY <2>1, <2>2, <2>3 DEF RingInv
<1>3. CASE Ql_OS_GetMessage
  BY <1>3, MessageFetched DEF Ql_OS_GetMessage
<1>4. CASE UNCHANGED urcVars
  BY <1>4 DEF RingInv, Numbered, CallsBehind, urcVars
<1> QED
  BY <1>1, <1>2, <1>3, <1>4 DEF Next, UrcNext, vars

(* The number of an incoming call is intact when its message is fetched,   *)
(* unless six calls were announced behind it, however many calls come and  *)
(* however long the queue is.                                              *)
THEOREM NumbersStayIntact == Spec => []CallNumbersAreIntact
<1>1. RingInv /\ [Next]_vars => RingInv'
  BY RingStep
<1>2. RingInv => CallNumbersAreIntact
  BY DEF RingInv, Numbered, CallNumbersAreIntact
<1> QED
  BY <1>1, <1>2, RingInit, PTL DEF Spec
=============================================================================
