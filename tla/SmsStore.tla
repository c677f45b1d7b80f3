------------------------------ MODULE SmsStore ------------------------------
(***************************************************************************)
(* ril_sms.c: reading, deleting and sending short messages from several    *)
(* tasks, and the notification of a new message in ril_urc.c.              *)
(*                                                                         *)
(* A function is a sequence of commands (AT+CPMS? to learn the storage and *)
(* its size, AT+CMGF=0, the command proper), and between two of them any   *)
(* task may take the AT channel: the next command is then refused with     *)
(* RIL_AT_BUSY. The answer to AT+CMGR comes in lines, of which the handler *)
(* remembers in a static whether the next one is a message's text.         *)
(*                                                                         *)
(* The module behind the channel is external: its storages, the new        *)
(* messages, and the marks AT+CMGR leaves on the messages it shows. What a *)
(* message says, and its translation to and from PDU, is not modelled.     *)
(***************************************************************************)
EXTENDS Integers, Sequences

CONSTANTS
  Task,       \* tasks that call the functions
  Msg,        \* messages that may arrive, each once
  NULL,       \* no message
  Junk,       \* the text of a line that is no message
  SM_TOTAL,   \* size of the storage SM
  ME_TOTAL,   \* size of the storage ME
  MaxInd      \* notifications waiting at once (bound)

Mem == {"SM", "ME"}

Total(m) == IF m = "SM" THEN SM_TOTAL ELSE ME_TOTAL

ASSUME TotalsAreNatural == SM_TOTAL \in Nat /\ ME_TOTAL \in Nat
ASSUME MaxIndIsNatural == MaxInd \in Nat
ASSUME NoMessageIsOther == NULL \notin Msg /\ Junk \notin Msg /\ NULL # Junk
ASSUME NoTaskIsNone == "none" \notin Task

VARIABLES
  s_bSMSReadContentFlag,   \* the next line is a message's text
  at,                      \* whose command holds the AT channel
  burst,                   \* lines of the answer still to be delivered
  call,                    \* the call each task has in progress, or its last
  mem1, mem3,              \* module: storage of AT+CMGR and AT+CMGD; of new messages
  pdu,                     \* module: AT+CMGF=0
  box,                     \* module: the messages stored
  inds,                    \* notifications waiting for the application
  fate,                    \* history: what became of each message
  cut,                     \* history: the last read ended between header and text
  seen, missed             \* history: messages a read returned; lost

ril     == <<s_bSMSReadContentFlag, call>>
channel == <<at, burst>>
module  == <<mem1, mem3, pdu, box, inds>>
history == <<fate, cut, seen, missed>>
vars    == <<ril, channel, module, history>>

Pos   == UNION {{m} \X (1 .. Total(m)) : m \in Mem}
Entry == [msg : Msg, read : BOOLEAN]

ASSUME NoEntryIsNull == NULL \notin Entry

Op   == {"get", "set", "read", "text", "delete", "send"}
Flag == {0, 1, 4}    \* indexed, read messages, all (2 and 3 add sent ones: none here)
Line == {"header", "content", "prompt", "reference", "OK", "ERROR"}

(* What a call returns is of interest for a read that succeeds: its record *)
(* stays with pc "success". data is what the caller gets; truth, want and  *)
(* misread are history: the message the module showed, the one a           *)
(* notification announced, and whether the read began after a cut one.     *)
CallRec ==
  [pc : {"idle", "storage", "setMode", "mode", "ready", "command", "success"},
   op : Op, idx : Nat, flag : Flag,
   data : Msg \cup {NULL, Junk}, truth : Msg \cup {NULL}, want : Msg \cup {NULL},
   misread : BOOLEAN]

NoCall == [pc |-> "idle", op |-> "get", idx |-> 0, flag |-> 0,
           data |-> NULL, truth |-> NULL, want |-> NULL, misread |-> FALSE]

MayCall(t) == call[t].pc \in {"idle", "success"}

Reads(c) == c.op \in {"read", "text"}

ByIndex(c) == Reads(c) \/ (c.op = "delete" /\ c.flag = 0)

Init ==
  /\ s_bSMSReadContentFlag = FALSE
  /\ at = "none" /\ burst = <<>> /\ call = [t \in Task |-> NoCall]
  /\ mem1 \in Mem /\ mem3 \in Mem /\ pdu \in BOOLEAN
  /\ box = [p \in Pos |-> NULL] /\ inds = <<>>
  /\ fate = [m \in Msg |-> "new"] /\ cut = FALSE /\ seen = {} /\ missed = {}

-----------------------------------------------------------------------------
(* The functions up to their first command. A busy channel refuses it.     *)

Ends(t) == call' = [call EXCEPT ![t] = NoCall]

Call(t, pc, c) ==
  /\ MayCall(t)
  /\ IF at = "none"
     THEN at' = t /\ call' = [call EXCEPT ![t] = [c EXCEPT !.pc = pc]]
     ELSE at' = at /\ Ends(t)
  /\ UNCHANGED <<s_bSMSReadContentFlag, burst, module, history>>

(* RIL_AT_INVALID_PARAM before anything is sent. *)
Refused(t) ==
  /\ MayCall(t) /\ Ends(t)
  /\ UNCHANGED <<s_bSMSReadContentFlag, channel, module, history>>

RIL_SMS_GetStorage(t) == Call(t, "storage", NoCall)

AnyStorage(m) == m \in Mem

ADP_IS_SUPPORT_STORAGE_TYPE(m) == m = "SM"

RIL_SMS_SetStorage(t, m) ==
  IF ADP_IS_SUPPORT_STORAGE_TYPE(m)
  THEN Call(t, "command", [NoCall EXCEPT !.op = "set"])
  ELSE Refused(t)

RIL_SMS_ReadSMS_PDU(t, i) ==
  Call(t, "storage", [NoCall EXCEPT !.op = "read", !.idx = i])

RIL_SMS_ReadSMS_Text(t, i) ==
  Call(t, "storage", [NoCall EXCEPT !.op = "text", !.idx = i])

(* The index is of no effect unless the flag is 0. *)
RIL_SMS_DeleteSMS(t, i, f) ==
  /\ f # 0 => i = 0
  /\ Call(t, "storage", [NoCall EXCEPT !.op = "delete", !.idx = i, !.flag = f])

(* RIL_SMS_SendSMS_PDU, _Text and _Text_Ext differ in how the PDU is made. *)
RIL_SMS_SendSMS(t, valid) ==
  IF valid THEN Call(t, "mode", [NoCall EXCEPT !.op = "send"]) ELSE Refused(t)

(* The application reads the message a notification announces. The         *)
(* notification names its index and no longer the storage.                 *)
ReadNotified(t) ==
  /\ MayCall(t) /\ at = "none" /\ inds # <<>>
  /\ at' = t /\ inds' = Tail(inds)
  /\ call' = [call EXCEPT ![t] = [NoCall EXCEPT
       !.pc = "storage", !.op = "read", !.idx = Head(inds).idx, !.want = Head(inds).msg]]
  /\ UNCHANGED <<s_bSMSReadContentFlag, burst, mem1, mem3, pdu, box, history>>

-----------------------------------------------------------------------------
(* From one command to the next.                                           *)

Goes(t, pc) == call' = [call EXCEPT ![t].pc = pc]

NextIndex(m, i, n) == IF m = "SM" /\ i \in 1 .. n THEN (i % n) + 1 ELSE 0

(* The index conversion: 0 is an error. *)
ADP_SMS_ConvIdxToCoreIdx(m, i, n) ==
  IF ADP_IS_SUPPORT_STORAGE_TYPE(m) /\ i \in 1 .. n THEN i ELSE 0

(* The answer to AT+CPMS?. A storage name that is not known ends the       *)
(* parsing and leaves a size of 0, and the type 0 is SM. A read goes on    *)
(* with the converted index, a delete with the one it was given.           *)
CmdGetStorageInfo(t) ==
  /\ at = t /\ call[t].pc = "storage"
  /\ at' = "none"
  /\ \E info \in {<<mem1, Total(mem1)>>, <<"SM", 0>>} :
       LET c == call[t]
           core == ADP_SMS_ConvIdxToCoreIdx(info[1], c.idx, info[2]) IN
       IF c.op = "get" \/ (ByIndex(c) /\ core = 0) THEN Ends(t)
       ELSE call' = [call EXCEPT ![t].pc = "setMode",
                                 ![t].idx = IF Reads(c) THEN core ELSE c.idx]
  /\ UNCHANGED <<s_bSMSReadContentFlag, burst, module, history>>

StorageFails(t) ==
  /\ at = t /\ call[t].pc = "storage"
  /\ at' = "none" /\ Ends(t)
  /\ UNCHANGED <<s_bSMSReadContentFlag, burst, module, history>>

SetsThoughBusy(t) ==
  /\ call[t].pc = "setMode"
  /\ at' = IF at = "none" THEN t ELSE at
  /\ Goes(t, "mode")
  /\ UNCHANGED <<s_bSMSReadContentFlag, burst, module, history>>

SMS_SET_PDU_MODE(t) ==
  /\ call[t].pc = "setMode"
  /\ IF at = "none" THEN at' = t /\ Goes(t, "mode") ELSE at' = at /\ Ends(t)
  /\ UNCHANGED <<s_bSMSReadContentFlag, burst, module, history>>

ModeAnswered(t) ==
  /\ at = t /\ call[t].pc = "mode"
  /\ at' = "none" /\ pdu' = TRUE /\ Goes(t, "ready")
  /\ UNCHANGED <<s_bSMSReadContentFlag, burst, mem1, mem3, box, inds, history>>

ModeFails(t) ==
  /\ at = t /\ call[t].pc = "mode"
  /\ at' = "none" /\ pdu' \in {pdu, TRUE} /\ Ends(t)
  /\ UNCHANGED <<s_bSMSReadContentFlag, burst, mem1, mem3, box, inds, history>>

(* AT+CMGR shows a message and marks it read; an empty slot is answered    *)
(* with a bare OK or an error.                                             *)
ModuleReads(t) ==
  LET p == <<mem1, call[t].idx>> IN
  IF p \in Pos /\ box[p] # NULL
  THEN /\ burst' = <<"header", "content", "OK">>
       /\ box' = [box EXCEPT ![p].read = TRUE]
       /\ call' = [call EXCEPT ![t].pc = "command", ![t].truth = box[p].msg]
  ELSE /\ \E r \in {"OK", "ERROR"} : burst' = <<r>>
       /\ box' = box /\ Goes(t, "command")

(* The command proper: AT+CMGR, AT+CMGD or AT+CMGS.                        *)
SendCommand(t) ==
  /\ call[t].pc = "ready"
  /\ IF at # "none" THEN Ends(t) /\ UNCHANGED <<channel, box>>
     ELSE /\ at' = t
          /\ CASE Reads(call[t])        -> ModuleReads(t)
               [] call[t].op = "send"   -> burst' = <<"prompt">> /\ Goes(t, "command") /\ box' = box
               [] call[t].op = "delete" -> Goes(t, "command") /\ UNCHANGED <<burst, box>>
  /\ UNCHANGED <<s_bSMSReadContentFlag, mem1, mem3, pdu, inds, history>>

-----------------------------------------------------------------------------
(* Lines of an answer.                                                     *)

CopiesNothing(c, line) == NULL

(* What a line says that is taken for a message's text.                    *)
TextOf(c, line) == IF line = "content" THEN c.truth ELSE Junk

NeverText(line) == FALSE

NextIsText(line) == line = "header"

(* The text of a message may not decode; that of another line never does.  *)
ReadReturns(t) ==
  LET c == call[t] IN
  \/ /\ c.op = "read" \/ c.data # Junk
     /\ call' = [call EXCEPT ![t].pc = "success"]
     /\ seen' = seen \cup ({c.data} \cap Msg)
     /\ missed' = missed \cup (IF c.misread THEN {c.truth} \cap Msg ELSE {})
  \/ /\ c.op = "text" /\ c.data # NULL
     /\ Ends(t)
     /\ missed' = missed \cup ({c.truth} \cap Msg) /\ seen' = seen

KeepsFlag == s_bSMSReadContentFlag' = s_bSMSReadContentFlag

ResetsFlag == s_bSMSReadContentFlag' = FALSE

(* SMS_CMD_GeneralHandler on a line of AT+CMGR, with HdlrReadPDUMsg.       *)
HdlrReadPDUMsg(t) ==
  /\ at = t /\ call[t].pc = "command" /\ Reads(call[t]) /\ burst # <<>>
  /\ LET line == Head(burst)
         c    == call[t] IN
       \/ /\ s_bSMSReadContentFlag
          /\ ResetsFlag
          /\ call' = [call EXCEPT ![t].data = TextOf(c, line), ![t].misread = @ \/ cut]
          /\ burst' = Tail(burst) /\ UNCHANGED <<at, seen, missed>>
       \/ /\ ~s_bSMSReadContentFlag /\ line \in {"header", "content"}
          /\ s_bSMSReadContentFlag' = NextIsText(line)
          /\ burst' = Tail(burst) /\ UNCHANGED <<at, call, seen, missed>>
       \/ /\ ~s_bSMSReadContentFlag /\ line = "OK"
          /\ at' = "none" /\ burst' = <<>> /\ ReadReturns(t)
          /\ UNCHANGED s_bSMSReadContentFlag
       \/ /\ ~s_bSMSReadContentFlag /\ line = "ERROR"
          /\ at' = "none" /\ burst' = <<>> /\ Ends(t)
          /\ UNCHANGED <<s_bSMSReadContentFlag, seen, missed>>
  /\ cut' = FALSE
  /\ UNCHANGED <<module, fate>>

(* ... and on a line of AT+CMGS, with HdlrSendPDUMsg: at the prompt it     *)
(* writes the PDU, which the module takes or refuses.                      *)
HdlrSendPDUMsg(t) ==
  /\ at = t /\ call[t].pc = "command" /\ call[t].op = "send" /\ burst # <<>>
  /\ \/ /\ Head(burst) = "prompt"
        /\ burst' \in {<<"reference", "OK">>, <<"ERROR">>}
        /\ UNCHANGED <<at, call>>
     \/ /\ Head(burst) = "reference"
        /\ burst' = Tail(burst) /\ UNCHANGED <<at, call>>
     \/ /\ Head(burst) \in {"OK", "ERROR"}
        /\ at' = "none" /\ burst' = <<>>
        /\ Ends(t)
  /\ UNCHANGED <<s_bSMSReadContentFlag, module, history>>

Deleted(c) ==
  {p \in Pos : /\ p[1] = mem1 /\ box[p] # NULL
               /\ CASE c.flag = 0 -> p[2] = c.idx
                    [] c.flag = 1 -> box[p].read
                    [] c.flag = 4 -> TRUE}

(* What the module does on AT+CPMS=... and AT+CMGD.                        *)
ModuleExecutes(c) ==
  \/ /\ c.op = "set"
     /\ mem1' = "SM" /\ mem3' = "SM" /\ UNCHANGED <<box, fate>>
  \/ /\ c.op = "delete"
     /\ box' = [p \in Pos |-> IF p \in Deleted(c) THEN NULL ELSE box[p]]
     /\ fate' = [m \in Msg |->
          IF \E p \in Deleted(c) : box[p].msg = m THEN "gone" ELSE fate[m]]
     /\ UNCHANGED <<mem1, mem3>>

CommandAnswered(t) ==
  /\ at = t /\ call[t].pc = "command" /\ call[t].op \in {"set", "delete"}
  /\ at' = "none" /\ Ends(t)
  /\ \/ ModuleExecutes(call[t])
     \/ UNCHANGED <<mem1, mem3, box, fate>>
  /\ UNCHANGED <<s_bSMSReadContentFlag, burst, pdu, inds, cut, seen, missed>>

(* No answer, or not to the end. What the module did it has done.          *)
CommandTimesOut(t) ==
  /\ at = t /\ call[t].pc = "command"
  /\ at' = "none" /\ burst' = <<>> /\ Ends(t)
  /\ \/ UNCHANGED <<mem1, mem3, box, fate>>
     \/ ModuleExecutes(call[t])
  /\ cut' = (cut \/ (~call[t].misread /\ burst # <<>> /\ Head(burst) = "content"))
  /\ missed' = missed \cup ({call[t].truth} \cap Msg)
  /\ UNCHANGED <<s_bSMSReadContentFlag, pdu, inds, seen>>

-----------------------------------------------------------------------------
(* A message arrives in the first free slot of its storage and is          *)
(* announced; OnURCHandler_SMS passes on the index.                        *)
Arrives(m) ==
  /\ fate[m] = "new" /\ Len(inds) < MaxInd
  /\ \E i \in 1 .. Total(mem3) :
       /\ box[<<mem3, i>>] = NULL /\ \A j \in 1 .. (i - 1) : box[<<mem3, j>>] # NULL
       /\ box' = [box EXCEPT ![<<mem3, i>>] = [msg |-> m, read |-> FALSE]]
       /\ inds' = Append(inds, [idx |-> i, msg |-> m])
  /\ fate' = [fate EXCEPT ![m] = mem3]
  /\ UNCHANGED <<ril, channel, mem1, mem3, pdu, cut, seen, missed>>

-----------------------------------------------------------------------------
Indices == 0 .. (Total("SM") + 1)

Calls(t) ==
  \/ RIL_SMS_GetStorage(t) \/ ReadNotified(t)
  \/ \E m \in Mem : RIL_SMS_SetStorage(t, m)
  \/ \E i \in Indices : RIL_SMS_ReadSMS_PDU(t, i) \/ RIL_SMS_ReadSMS_Text(t, i)
  \/ \E i \in Indices, f \in Flag : RIL_SMS_DeleteSMS(t, i, f)
  \/ \E valid \in BOOLEAN : RIL_SMS_SendSMS(t, valid)

Next ==
  \/ \E t \in Task :
       \/ Calls(t)
       \/ CmdGetStorageInfo(t) \/ StorageFails(t)
       \/ SMS_SET_PDU_MODE(t) \/ ModeAnswered(t) \/ ModeFails(t)
       \/ SendCommand(t) \/ HdlrReadPDUMsg(t) \/ HdlrSendPDUMsg(t)
       \/ CommandAnswered(t) \/ CommandTimesOut(t)
  \/ \E m \in Msg : Arrives(m)

Spec == Init /\ [][Next]_vars

-----------------------------------------------------------------------------
(* Every variable has its type; a task waits for an answer exactly while   *)
(* it holds the channel.                                                   *)
TypeOK ==
  /\ s_bSMSReadContentFlag \in BOOLEAN /\ cut \in BOOLEAN /\ pdu \in BOOLEAN
  /\ at \in Task \cup {"none"} /\ burst \in Seq(Line)
  /\ call \in [Task -> CallRec]
  /\ mem1 \in Mem /\ mem3 \in Mem /\ box \in [Pos -> Entry \cup {NULL}]
  /\ inds \in Seq([idx : Nat, msg : Msg])
  /\ fate \in [Msg -> Mem \cup {"new", "gone"}]
  /\ seen \subseteq Msg /\ missed \subseteq Msg
  /\ \A t \in Task : at = t <=> call[t].pc \in {"storage", "mode", "command"}

(* A read that returns success returns the message the module showed, or   *)
(* none if the slot was empty, unless an earlier read was cut between a    *)
(* header and its text.                                                    *)
ReadsAreFaithful ==
  \A t \in Task : LET c == call[t] IN
    c.pc = "success" => c.data = c.truth \/ c.misread

(* A command whose answer is complete is over: only a read after a cut one *)
(* takes its OK for text and holds the channel until its time has passed.  *)
AnsweredCommandsEnd ==
  \A t \in Task : LET c == call[t] IN
    at = t /\ c.pc = "command" /\ burst = <<>> /\ (Reads(c) \/ c.op = "send") => c.misread

(* A command with an index reaches the storage and the range the index was *)
(* checked against, and messages are read and sent in PDU mode, whatever   *)
(* other tasks do between the check and the command.                       *)
CommandsAreWellAimed ==
  \A t \in Task : LET c == call[t] IN
    at = t /\ c.pc = "command" =>
      /\ ByIndex(c) => mem1 = "SM" /\ c.idx \in 1 .. Total("SM")
      /\ Reads(c) \/ c.op = "send" => pdu

(* A notification leads to its message: reading the announced index        *)
(* returns it, unless it is gone, was stored outside SM, or the read went  *)
(* wrong after a cut one.                                                  *)
NotifiedMessageIsRead ==
  \A t \in Task : LET c == call[t] IN
    c.pc = "success" /\ c.want # NULL =>
      c.data = c.want \/ fate[c.want] # "SM" \/ c.misread

(* A message the module counts as read (and a delete of read messages      *)
(* removes) was returned by a read, is being read, or was lost by a read   *)
(* that timed out, followed a cut one, or could not decode it.             *)
ReadMarksAreEarned ==
  \A p \in Pos : box[p] # NULL /\ box[p].read =>
    \/ box[p].msg \in seen \cup missed
    \/ \E t \in Task : at = t /\ call[t].truth = box[p].msg

(* ril_sms.h: the data of a PDU read is "The PDU string". A read that      *)
(* returns success with data returns that of a message.                    *)
PduIsAMessage ==
  \A t \in Task : call[t].pc = "success" /\ call[t].op = "read" => call[t].data # Junk
=============================================================================
