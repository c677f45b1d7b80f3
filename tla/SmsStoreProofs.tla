--------------------------- MODULE SmsStoreProofs ---------------------------
(***************************************************************************)
(* Proofs about SmsStore, for any number of tasks and messages and         *)
(* storages of any size.                                                   *)
(*                                                                         *)
(* The static flag of the read handler and the lines still to come agree   *)
(* (FlagInv, BurstInv): the flag is set in the middle of a read that       *)
(* started well, and after one that was cut. What a call has checked stays *)
(* true until its command is sent (CallInv), since no task can select      *)
(* another storage than SM or leave PDU mode.                              *)
(***************************************************************************)
EXTENDS SmsStore, SequenceTheorems, TLAPS

Fresh(c) == c.data = NULL /\ c.truth = NULL /\ ~c.misread

Reading(c) == c.pc = "command" /\ Reads(c)

Sending(c) == c.pc = "command" /\ c.op = "send"

(* What is known of a call, given the module's storage and mode.           *)
Aimed(c, m, p) ==
  /\ c.pc \in {"setMode", "mode", "ready", "command"} /\ ByIndex(c) =>
       m = "SM" /\ c.idx \in 1 .. Total("SM")
  /\ c.pc \in {"ready", "command"} /\ (Reads(c) \/ c.op = "send") => p

InOrder(c) ==
  /\ c.pc = "storage" => c.op \in {"get", "read", "text", "delete"}
  /\ c.pc = "setMode" => c.op \in {"read", "text", "delete"}
  /\ c.pc \in {"mode", "ready"} => c.op \in {"read", "text", "delete", "send"}
  /\ c.pc = "command" => c.op \in {"read", "text", "delete", "send", "set"}
  /\ c.pc = "success" => c.op \in {"read", "text"}
  /\ ~Reading(c) /\ c.pc # "success" => Fresh(c)
  /\ c.pc = "success" => c.data = c.truth \/ c.misread

CallInv == \A t \in Task : Aimed(call[t], mem1, pdu) /\ InOrder(call[t])

(* The lines a read still waits for, with what it has got so far.          *)
ReadBurst(c, b, k) ==
  \/ b = <<"header", "content", "OK">> /\ c.truth \in Msg /\ c.data = NULL /\ ~c.misread
  \/ b = <<"content", "OK">> /\ c.truth \in Msg /\ ~k /\ (c.misread \/ c.data = NULL)
  \/ b = <<"OK">> /\ c.truth \in Msg /\ ~k /\ (c.misread \/ c.data = c.truth)
  \/ b \in {<<"OK">>, <<"ERROR">>} /\ Fresh(c)
  \/ b = <<>> /\ ~k /\ c.misread

SendBursts == {<<"prompt">>, <<"reference", "OK">>, <<"OK">>, <<"ERROR">>}

CallBurst(c, b, k) ==
  /\ Reading(c) => ReadBurst(c, b, k)
  /\ Sending(c) => b \in SendBursts
  /\ ~Reading(c) /\ ~Sending(c) => b = <<>>

BurstInv ==
  /\ at = "none" => burst = <<>>
  /\ \A t \in Task : at = t => CallBurst(call[t], burst, cut)

Midway(c, b) == Reading(c) /\ b = <<"content", "OK">> /\ ~c.misread

FlagInv ==
  s_bSMSReadContentFlag <=> cut \/ \E t \in Task : at = t /\ Midway(call[t], burst)

-----------------------------------------------------------------------------
(* Lines.                                                                  *)

LEMMA Tails ==
  /\ Tail(<<"header", "content", "OK">>) = <<"content", "OK">>
  /\ Tail(<<"content", "OK">>) = <<"OK">>
  /\ Tail(<<"reference", "OK">>) = <<"OK">>
  /\ Tail(<<"OK">>) = <<>> /\ Tail(<<"ERROR">>) = <<>>
OBVIOUS

LEMMA Heads ==
  /\ Head(<<"header", "content", "OK">>) = "header"
  /\ Head(<<"content", "OK">>) = "content"
  /\ Head(<<"reference", "OK">>) = "reference"
  /\ Head(<<"prompt">>) = "prompt"
  /\ Head(<<"OK">>) = "OK" /\ Head(<<"ERROR">>) = "ERROR"
OBVIOUS

LEMMA Bursts ==
  /\ <<"header", "content", "OK">> \in Seq(Line) /\ <<"content", "OK">> \in Seq(Line)
  /\ <<"reference", "OK">> \in Seq(Line) /\ <<"prompt">> \in Seq(Line)
  /\ <<"OK">> \in Seq(Line) /\ <<"ERROR">> \in Seq(Line) /\ <<>> \in Seq(Line)
BY DEF Line

LEMMA Distinct ==
  /\ <<"header", "content", "OK">> # <<>> /\ <<"content", "OK">> # <<>>
  /\ <<"reference", "OK">> # <<>> /\ <<"prompt">> # <<>>
  /\ <<"OK">> # <<>> /\ <<"ERROR">> # <<>>
OBVIOUS

-----------------------------------------------------------------------------
(* Calls.                                                                  *)

Pc == {"idle", "storage", "setMode", "mode", "ready", "command", "success"}

Waiting == {"storage", "mode", "command"}

LEMMA WithPc ==
  ASSUME NEW c \in CallRec, NEW p \in Pc
  PROVE  LET d == [c EXCEPT !.pc = p] IN
         /\ d \in CallRec /\ d.pc = p
         /\ d.op = c.op /\ d.idx = c.idx /\ d.flag = c.flag
         /\ d.data = c.data /\ d.truth = c.truth /\ d.want = c.want
         /\ d.misread = c.misread
BY DEF CallRec, Pc

LEMMA NoCallFacts ==
  /\ NoCall \in CallRec /\ Fresh(NoCall) /\ NoCall.pc = "idle"
  /\ NoCall.op = "get" /\ NoCall.truth = NULL /\ NoCall.want = NULL
  /\ InOrder(NoCall)
  /\ \A m, p : Aimed(NoCall, m, p)
<1>1. NoCall \in CallRec
  BY DEF NoCall, CallRec, Op, Flag
<1>2. /\ Fresh(NoCall) /\ NoCall.pc = "idle" /\ NoCall.op = "get"
      /\ NoCall.truth = NULL /\ NoCall.want = NULL
  BY DEF NoCall, Fresh
<1> QED BY <1>1, <1>2 DEF InOrder, Aimed, Reading

LEMMA Fields ==
  ASSUME NEW c \in CallRec
  PROVE  /\ c.pc \in Pc /\ c.op \in Op /\ c.idx \in Nat /\ c.flag \in Flag
         /\ c.data \in Msg \cup {NULL, Junk} /\ c.truth \in Msg \cup {NULL}
         /\ c.want \in Msg \cup {NULL} /\ c.misread \in BOOLEAN
BY DEF CallRec, Pc

(* A step that changes one call, and in the module at most selects SM or   *)
(* PDU mode, keeps what is known of all calls.                             *)
LEMMA OneCall ==
  ASSUME call \in [Task -> CallRec], CallInv,
         NEW t \in Task, NEW c \in CallRec, call' = [call EXCEPT ![t] = c],
         mem1' = mem1 \/ mem1' = "SM", pdu' = pdu \/ pdu' = TRUE,
         Aimed(c, mem1', pdu'), InOrder(c)
  PROVE  /\ call' \in [Task -> CallRec] /\ CallInv'
         /\ call'[t] = c /\ \A u \in Task \ {t} : call'[u] = call[u]
<1>1. /\ call' \in [Task -> CallRec]
      /\ call'[t] = c /\ \A u \in Task \ {t} : call'[u] = call[u]
  OBVIOUS
<1>2. ASSUME NEW u \in Task \ {t} PROVE Aimed(call[u], mem1', pdu') /\ InOrder(call[u])
  <2>1. Aimed(call[u], mem1, pdu) /\ InOrder(call[u])
    BY DEF CallInv
  <2> QED BY <2>1 DEF Aimed
<1>3. \A u \in Task : Aimed(call'[u], mem1', pdu') /\ InOrder(call'[u])
  BY <1>1, <1>2
<1>4. CallInv'
  BY <1>3 DEF CallInv
<1> QED BY <1>1, <1>4

AtInv == /\ at \in Task \cup {"none"}
         /\ \A t \in Task : at = t <=> call[t].pc \in Waiting

Channel == call \in [Task -> CallRec] /\ AtInv /\ CallInv /\ BurstInv /\ FlagInv

(* The call takes the channel, or keeps it.                                *)
LEMMA Holds ==
  ASSUME Channel,
         NEW t \in Task, NEW c \in CallRec, call' = [call EXCEPT ![t] = c],
         mem1' = mem1 \/ mem1' = "SM", pdu' = pdu \/ pdu' = TRUE,
         Aimed(c, mem1', pdu'), InOrder(c),
         at \in {"none", t}, at' = t, c.pc \in Waiting,
         CallBurst(c, burst', cut'),
         s_bSMSReadContentFlag' <=> cut' \/ Midway(c, burst')
  PROVE  Channel'
<1>1. /\ call' \in [Task -> CallRec] /\ CallInv'
      /\ call'[t] = c /\ \A u \in Task \ {t} : call'[u] = call[u]
  BY OneCall DEF Channel
<1>2. t # "none" /\ "none" \notin Task
  BY NoTaskIsNone
<1>3. AtInv'
  BY <1>1, <1>2 DEF AtInv, Channel
<1>4. BurstInv'
  BY <1>1, <1>2 DEF BurstInv
<1>5. FlagInv'
  BY <1>1 DEF FlagInv
<1> QED BY <1>1, <1>3, <1>4, <1>5 DEF Channel

(* The call gives the channel back.                                        *)
LEMMA Leaves ==
  ASSUME Channel,
         NEW t \in Task, NEW c \in CallRec, call' = [call EXCEPT ![t] = c],
         mem1' = mem1 \/ mem1' = "SM", pdu' = pdu \/ pdu' = TRUE,
         Aimed(c, mem1', pdu'), InOrder(c),
         at = t, at' = "none", c.pc \notin Waiting,
         burst' = <<>>, s_bSMSReadContentFlag' <=> cut'
  PROVE  Channel'
<1>1. /\ call' \in [Task -> CallRec] /\ CallInv'
      /\ call'[t] = c /\ \A u \in Task \ {t} : call'[u] = call[u]
  BY OneCall DEF Channel
<1>2. "none" \notin Task
  BY NoTaskIsNone
<1>3. AtInv'
  BY <1>1, <1>2 DEF AtInv, Channel
<1>4. BurstInv'
  BY <1>1, <1>2 DEF BurstInv
<1>5. FlagInv'
  BY <1>1, <1>2 DEF FlagInv
<1> QED BY <1>1, <1>3, <1>4, <1>5 DEF Channel

(* The call goes on without the channel.                                   *)
LEMMA Apart ==
  ASSUME Channel,
         NEW t \in Task, NEW c \in CallRec, call' = [call EXCEPT ![t] = c],
         mem1' = mem1, pdu' = pdu,
         Aimed(c, mem1, pdu), InOrder(c),
         at # t, at' = at, c.pc \notin Waiting,
         burst' = burst, cut' = cut, s_bSMSReadContentFlag' = s_bSMSReadContentFlag
  PROVE  Channel'
<1>1. /\ call' \in [Task -> CallRec] /\ CallInv'
      /\ call'[t] = c /\ \A u \in Task \ {t} : call'[u] = call[u]
  BY OneCall DEF Channel
<1>3. AtInv'
  BY <1>1 DEF AtInv, Channel
<1>4. BurstInv'
  BY <1>1 DEF BurstInv, Channel
<1>5. FlagInv'
  BY <1>1 DEF FlagInv, Channel
<1> QED BY <1>1, <1>3, <1>4, <1>5 DEF Channel

LEMMA NoLines ==
  ASSUME BurstInv, FlagInv, NEW t \in Task, at = t,
         ~Reading(call[t]), ~Sending(call[t])
  PROVE  burst = <<>> /\ (s_bSMSReadContentFlag <=> cut)
BY DEF BurstInv, CallBurst, FlagInv, Midway

LEMMA Idle ==
  ASSUME BurstInv, FlagInv, at = "none"
  PROVE  burst = <<>> /\ (s_bSMSReadContentFlag <=> cut)
BY NoTaskIsNone DEF BurstInv, FlagInv

-----------------------------------------------------------------------------
(* The functions, up to their first command.                               *)

LEMMA CallChannel ==
  ASSUME Channel, NEW t \in Task, NEW pc \in Waiting, NEW c \in CallRec,
         Call(t, pc, c), Fresh(c),
         pc = "storage" => c.op \in {"get", "read", "text", "delete"},
         pc = "mode" => c.op = "send",
         pc = "command" => c.op = "set"
  PROVE  Channel'
<1> DEFINE d == [c EXCEPT !.pc = pc]
<1>1. /\ d \in CallRec /\ d.pc = pc /\ d.op = c.op /\ Fresh(d)
  <2>1. pc \in Pc
    BY DEF Pc, Waiting
  <2>2. /\ d \in CallRec /\ d.pc = pc /\ d.op = c.op
        /\ d.data = c.data /\ d.truth = c.truth /\ d.misread = c.misread
    BY <2>1, WithPc
  <2> HIDE DEF d
  <2> QED BY <2>2 DEF Fresh
<1>2. InOrder(d) /\ Aimed(d, mem1, pdu) /\ ~Reading(d) /\ ~Sending(d)
  BY <1>1 DEF InOrder, Aimed, Reading, Sending, Reads, ByIndex, Waiting
<1>3. /\ UNCHANGED <<s_bSMSReadContentFlag, burst, mem1, pdu, cut>>
      /\ call[t].pc \notin Waiting
  BY DEF Call, module, history, MayCall, Waiting
<1>4. CASE at = "none"
  <2>1. burst = <<>> /\ (s_bSMSReadContentFlag <=> cut)
    BY <1>4, Idle DEF Channel
  <2>2. at' = t /\ call' = [call EXCEPT ![t] = d]
    BY <1>4 DEF Call
  <2>3. CallBurst(d, burst', cut') /\ ~Midway(d, burst')
    BY <1>2, <1>3, <2>1 DEF CallBurst, Midway
  <2> HIDE DEF d
  <2> QED BY <1>1, <1>2, <1>3, <1>4, <2>1, <2>2, <2>3, Holds
<1>5. CASE at # "none"
  <2>1. at # t
    BY <1>3 DEF Channel, AtInv
  <2>2. at' = at /\ call' = [call EXCEPT ![t] = NoCall]
    BY <1>5 DEF Call, Ends
  <2> QED BY <1>3, <2>1, <2>2, NoCallFacts, Apart DEF Waiting
<1> QED BY <1>4, <1>5

LEMMA RefusedChannel ==
  ASSUME Channel, NEW t \in Task, Refused(t)
  PROVE  Channel'
<1>1. /\ UNCHANGED <<s_bSMSReadContentFlag, burst, at, mem1, pdu, cut>>
      /\ call[t].pc \notin Waiting /\ call' = [call EXCEPT ![t] = NoCall]
  BY DEF Refused, module, history, channel, MayCall, Waiting, Ends
<1>2. at # t
  BY <1>1 DEF Channel, AtInv
<1> QED BY <1>1, <1>2, NoCallFacts, Apart DEF Waiting

LEMMA IndicesAreNatural == Indices \subseteq Nat
BY TotalsAreNatural DEF Indices, Total

LEMMA CallsChannel ==
  ASSUME Channel, inds \in Seq([idx : Nat, msg : Msg]), NEW t \in Task, Calls(t)
  PROVE  Channel'
<1>1. CASE RIL_SMS_GetStorage(t)
  BY <1>1, CallChannel, NoCallFacts DEF RIL_SMS_GetStorage, Waiting
<1>2. ASSUME NEW m \in Mem, RIL_SMS_SetStorage(t, m) PROVE Channel'
  <2> DEFINE c == [NoCall EXCEPT !.op = "set"]
  <2>1. c \in CallRec /\ Fresh(c) /\ c.op = "set"
    BY NoMessageIsOther DEF NoCall, CallRec, Fresh, Flag, Op
  <2>2. CASE ~ADP_IS_SUPPORT_STORAGE_TYPE(m)
    BY <1>2, <2>2, RefusedChannel DEF RIL_SMS_SetStorage
  <2>3. CASE ADP_IS_SUPPORT_STORAGE_TYPE(m)
    <3>1. Call(t, "command", c)
      BY <1>2, <2>3 DEF RIL_SMS_SetStorage
    <3> HIDE DEF c
    <3> QED BY <2>1, <3>1, CallChannel DEF Waiting
  <2> QED BY <2>2, <2>3
<1>3. ASSUME NEW i \in Indices, RIL_SMS_ReadSMS_PDU(t, i) \/ RIL_SMS_ReadSMS_Text(t, i)
      PROVE  Channel'
  <2>1. ASSUME NEW o \in {"read", "text"}, Call(t, "storage", [NoCall EXCEPT !.op = o, !.idx = i])
        PROVE  Channel'
    <3> DEFINE c == [NoCall EXCEPT !.op = o, !.idx = i]
    <3>1. c \in CallRec /\ Fresh(c) /\ c.op = o
      BY IndicesAreNatural DEF NoCall, CallRec, Fresh, Flag, Op
    <3>2. Call(t, "storage", c)
      BY <2>1
    <3> HIDE DEF c
    <3> QED BY <3>1, <3>2, CallChannel DEF Waiting
  <2> QED BY <1>3, <2>1 DEF RIL_SMS_ReadSMS_PDU, RIL_SMS_ReadSMS_Text
<1>4. ASSUME NEW i \in Indices, NEW f \in Flag, RIL_SMS_DeleteSMS(t, i, f) PROVE Channel'
  <2> DEFINE c == [NoCall EXCEPT !.op = "delete", !.idx = i, !.flag = f]
  <2>1. c \in CallRec /\ Fresh(c) /\ c.op = "delete"
    BY IndicesAreNatural DEF NoCall, CallRec, Fresh, Op
  <2>2. Call(t, "storage", c)
    BY <1>4 DEF RIL_SMS_DeleteSMS
  <2> HIDE DEF c
  <2> QED BY <2>1, <2>2, CallChannel DEF Waiting
<1>5. ASSUME NEW valid \in BOOLEAN, RIL_SMS_SendSMS(t, valid) PROVE Channel'
  <2> DEFINE c == [NoCall EXCEPT !.op = "send"]
  <2>1. c \in CallRec /\ Fresh(c) /\ c.op = "send"
    BY DEF NoCall, CallRec, Fresh, Flag, Op
  <2>2. CASE ~valid
    BY <1>5, <2>2, RefusedChannel DEF RIL_SMS_SendSMS
  <2>3. CASE valid
    <3>1. Call(t, "mode", c)
      BY <1>5, <2>3 DEF RIL_SMS_SendSMS
    <3> HIDE DEF c
    <3> QED BY <2>1, <3>1, CallChannel DEF Waiting
  <2> QED BY <2>2, <2>3
<1>6. CASE ReadNotified(t)
  <2> DEFINE d == [NoCall EXCEPT !.pc = "storage", !.op = "read",
                                 !.idx = Head(inds).idx, !.want = Head(inds).msg]
  <2>1. Head(inds) \in [idx : Nat, msg : Msg]
    <3>1. inds # <<>>
      BY <1>6 DEF ReadNotified
    <3> QED BY <3>1, HeadTailProperties
  <2>2. d \in CallRec /\ Fresh(d) /\ d.op = "read" /\ d.pc = "storage"
    BY <2>1 DEF NoCall, CallRec, Fresh, Flag, Op
  <2>3. InOrder(d) /\ Aimed(d, mem1, pdu) /\ ~Reading(d) /\ ~Sending(d)
    BY <2>2 DEF InOrder, Aimed, Reading, Sending, Reads, ByIndex
  <2>4. /\ UNCHANGED <<s_bSMSReadContentFlag, burst, mem1, pdu, cut>>
        /\ at = "none" /\ at' = t /\ call' = [call EXCEPT ![t] = d]
    BY <1>6 DEF ReadNotified, history
  <2>5. burst = <<>> /\ (s_bSMSReadContentFlag <=> cut)
    BY <2>4, Idle DEF Channel
  <2>6. CallBurst(d, burst', cut') /\ ~Midway(d, burst')
    BY <2>3, <2>4, <2>5 DEF CallBurst, Midway
  <2> HIDE DEF d
  <2> QED BY <2>2, <2>3, <2>4, <2>5, <2>6, Holds DEF Waiting
<1> QED BY <1>1, <1>2, <1>3, <1>4, <1>5, <1>6 DEF Calls

-----------------------------------------------------------------------------
(* From one command to the next.                                           *)

(* A step that ends the call with the channel in hand.                     *)
LEMMA EndsChannel ==
  ASSUME Channel, NEW t \in Task, at = t, at' = "none", Ends(t),
         mem1' = mem1 \/ mem1' = "SM", pdu' = pdu \/ pdu' = TRUE,
         burst' = <<>>, s_bSMSReadContentFlag' <=> cut'
  PROVE  Channel'
<1>1. call' = [call EXCEPT ![t] = NoCall]
  BY DEF Ends
<1> QED BY <1>1, NoCallFacts, Leaves DEF Waiting

LEMMA StorageChannel ==
  ASSUME Channel, mem1 \in Mem, NEW t \in Task, CmdGetStorageInfo(t)
  PROVE  Channel'
<1> DEFINE c == call[t]
<1>1. /\ at = t /\ at' = "none" /\ c.pc = "storage" /\ c \in CallRec
      /\ UNCHANGED <<s_bSMSReadContentFlag, burst, mem1, pdu, cut>>
      /\ InOrder(c)
  BY DEF CmdGetStorageInfo, Channel, module, history, CallInv
<1>2. ~Reading(c) /\ ~Sending(c) /\ Fresh(c)
  BY <1>1 DEF Reading, Sending, InOrder
<1>3. burst' = <<>> /\ (s_bSMSReadContentFlag' <=> cut')
  BY <1>1, <1>2, NoLines DEF Channel
<1>4. PICK info \in {<<mem1, Total(mem1)>>, <<"SM", 0>>} :
        LET core == ADP_SMS_ConvIdxToCoreIdx(info[1], c.idx, info[2]) IN
        IF c.op = "get" \/ (ByIndex(c) /\ core = 0) THEN Ends(t)
        ELSE call' = [call EXCEPT ![t].pc = "setMode",
                                  ![t].idx = IF Reads(c) THEN core ELSE c.idx]
  BY DEF CmdGetStorageInfo
<1> DEFINE core == ADP_SMS_ConvIdxToCoreIdx(info[1], c.idx, info[2])
           d    == [c EXCEPT !.pc = "setMode", !.idx = IF Reads(c) THEN core ELSE c.idx]
<1>5. CASE c.op = "get" \/ (ByIndex(c) /\ core = 0)
  BY <1>1, <1>3, <1>4, <1>5, EndsChannel
<1>6. CASE ~(c.op = "get" \/ (ByIndex(c) /\ core = 0))
  <2>1. ASSUME ByIndex(c) PROVE core = c.idx /\ mem1 = "SM" /\ c.idx \in 1 .. Total("SM")
    <3>1. core # 0
      BY <1>6, <2>1
    <3>2. info[1] = "SM" /\ c.idx \in 1 .. info[2] /\ core = c.idx
      BY <3>1 DEF ADP_SMS_ConvIdxToCoreIdx, ADP_IS_SUPPORT_STORAGE_TYPE
    <3>3. info = <<mem1, Total(mem1)>>
      BY <3>2
    <3> QED BY <3>2, <3>3
  <2>2. d = [c EXCEPT !.pc = "setMode"]
    <3>1. (IF Reads(c) THEN core ELSE c.idx) = c.idx
      BY <2>1 DEF ByIndex
    <3> QED BY <1>1, <3>1 DEF CallRec
  <2>3. /\ d \in CallRec /\ d.pc = "setMode" /\ d.op = c.op /\ d.idx = c.idx
        /\ d.flag = c.flag /\ d.data = c.data /\ d.truth = c.truth /\ d.misread = c.misread
    <3> HIDE DEF d, core
    <3>1. "setMode" \in Pc
      BY DEF Pc
    <3> QED BY <1>1, <2>2, <3>1, WithPc
  <2>4. call' = [call EXCEPT ![t] = d]
    BY <1>4, <1>6
  <2> HIDE DEF d, core
  <2>5. Aimed(d, mem1', pdu')
    BY <1>1, <2>1, <2>3 DEF Aimed, ByIndex, Reads
  <2>6. InOrder(d)
    BY <1>1, <1>2, <1>6, <2>3 DEF InOrder, Fresh
  <2> QED BY <1>1, <1>3, <2>3, <2>4, <2>5, <2>6, Leaves DEF Waiting
<1> QED BY <1>5, <1>6

LEMMA FailsChannel ==
  ASSUME Channel, pdu \in BOOLEAN, NEW t \in Task, StorageFails(t) \/ ModeFails(t)
  PROVE  Channel'
<1>1. /\ at = t /\ at' = "none" /\ Ends(t)
      /\ UNCHANGED <<s_bSMSReadContentFlag, burst, mem1, cut>>
      /\ pdu' = pdu \/ pdu' = TRUE
      /\ call[t].pc \in {"storage", "mode"}
  BY DEF StorageFails, ModeFails, module, history
<1>2. burst' = <<>> /\ (s_bSMSReadContentFlag' <=> cut')
  BY <1>1, NoLines DEF Channel, Reading, Sending
<1> QED BY <1>1, <1>2, EndsChannel

LEMMA SetModeChannel ==
  ASSUME Channel, NEW t \in Task, SMS_SET_PDU_MODE(t)
  PROVE  Channel'
<1> DEFINE c == call[t]
           d == [c EXCEPT !.pc = "mode"]
<1>1. /\ c.pc = "setMode" /\ c \in CallRec /\ InOrder(c) /\ Aimed(c, mem1, pdu)
      /\ UNCHANGED <<s_bSMSReadContentFlag, burst, mem1, pdu, cut>>
  BY DEF SMS_SET_PDU_MODE, Channel, module, history, CallInv
<1>2. CASE at = "none"
  <2>1. /\ d \in CallRec /\ d.pc = "mode" /\ d.op = c.op /\ d.idx = c.idx
        /\ d.flag = c.flag /\ d.data = c.data /\ d.truth = c.truth /\ d.misread = c.misread
    BY <1>1, WithPc DEF Pc
  <2>2. at' = t /\ call' = [call EXCEPT ![t] = d]
    BY <1>2 DEF SMS_SET_PDU_MODE, Goes
  <2>3. burst = <<>> /\ (s_bSMSReadContentFlag <=> cut)
    BY <1>2, Idle DEF Channel
  <2> HIDE DEF d
  <2>4. Aimed(d, mem1', pdu')
    BY <1>1, <2>1 DEF Aimed, ByIndex, Reads
  <2>5. InOrder(d) /\ ~Reading(d) /\ ~Sending(d)
    BY <1>1, <2>1 DEF InOrder, Fresh, Reading, Sending
  <2>6. CallBurst(d, burst', cut') /\ ~Midway(d, burst')
    BY <1>1, <2>3, <2>5 DEF CallBurst, Midway
  <2> QED BY <1>1, <1>2, <2>1, <2>2, <2>3, <2>4, <2>5, <2>6, Holds DEF Waiting
<1>3. CASE at # "none"
  <2>1. at # t
    BY <1>1 DEF Channel, AtInv, Waiting
  <2>2. at' = at /\ call' = [call EXCEPT ![t] = NoCall]
    BY <1>3 DEF SMS_SET_PDU_MODE, Ends
  <2> QED BY <1>1, <2>1, <2>2, NoCallFacts, Apart DEF Waiting
<1> QED BY <1>2, <1>3

LEMMA ModeChannel ==
  ASSUME Channel, NEW t \in Task, ModeAnswered(t)
  PROVE  Channel'
<1> DEFINE c == call[t]
           d == [c EXCEPT !.pc = "ready"]
<1>1. /\ c.pc = "mode" /\ c \in CallRec /\ InOrder(c) /\ Aimed(c, mem1, pdu)
      /\ UNCHANGED <<s_bSMSReadContentFlag, burst, mem1, cut>>
      /\ at = t /\ at' = "none" /\ pdu' = TRUE /\ call' = [call EXCEPT ![t] = d]
  BY DEF ModeAnswered, Channel, history, CallInv, Goes
<1>2. /\ d \in CallRec /\ d.pc = "ready" /\ d.op = c.op /\ d.idx = c.idx
      /\ d.flag = c.flag /\ d.data = c.data /\ d.truth = c.truth /\ d.misread = c.misread
  BY <1>1, WithPc DEF Pc
<1> HIDE DEF d
<1>3. Aimed(d, mem1', pdu')
  BY <1>1, <1>2 DEF Aimed, ByIndex, Reads
<1>4. InOrder(d)
  BY <1>1, <1>2 DEF InOrder, Fresh, Reading
<1>5. burst' = <<>> /\ (s_bSMSReadContentFlag' <=> cut')
  BY <1>1, NoLines DEF Channel, Reading, Sending
<1> QED BY <1>1, <1>2, <1>3, <1>4, <1>5, Leaves DEF Waiting

(* The three commands proper.                                              *)
LEMMA SendChannel ==
  ASSUME Channel, box \in [Pos -> Entry \cup {NULL}], NEW t \in Task, SendCommand(t)
  PROVE  Channel'
<1> DEFINE c == call[t]
           d == [c EXCEPT !.pc = "command"]
           p == <<mem1, c.idx>>
           e == [d EXCEPT !.truth = box[p].msg]
<1>1. /\ c.pc = "ready" /\ c \in CallRec /\ InOrder(c) /\ Aimed(c, mem1, pdu)
      /\ UNCHANGED <<s_bSMSReadContentFlag, mem1, pdu, cut>>
  BY DEF SendCommand, Channel, history, CallInv
<1>2. /\ d \in CallRec /\ d.pc = "command" /\ d.op = c.op /\ d.idx = c.idx
      /\ d.flag = c.flag /\ d.data = c.data /\ d.truth = c.truth /\ d.misread = c.misread
  BY <1>1, WithPc DEF Pc
<1>3. Fresh(c) /\ Fresh(d)
  BY <1>1, <1>2 DEF InOrder, Fresh, Reading
<1>4. Aimed(d, mem1', pdu')
  BY <1>1, <1>2 DEF Aimed, ByIndex, Reads
<1>5. InOrder(d)
  BY <1>1, <1>2, <1>3 DEF InOrder, Reads
<1>6. CASE at # "none"
  <2>1. at # t
    BY <1>1 DEF Channel, AtInv, Waiting
  <2>2. at' = at /\ burst' = burst /\ call' = [call EXCEPT ![t] = NoCall]
    BY <1>6 DEF SendCommand, Ends, channel
  <2> QED BY <1>1, <2>1, <2>2, NoCallFacts, Apart DEF Waiting
<1>7. CASE at = "none"
  <2>1. at' = t /\ burst = <<>> /\ (s_bSMSReadContentFlag <=> cut)
    BY <1>7, Idle DEF SendCommand, Channel
  <2>2. CASE Reads(c)
    <3>1. ModuleReads(t)
      BY <1>7, <2>2 DEF SendCommand, Reads
    <3>2. Reading(d) /\ ~Sending(d)
      BY <1>2, <2>2 DEF Reading, Sending, Reads
    <3>3. CASE p \in Pos /\ box[p] # NULL
      <4>1. box[p] \in Entry
        BY <3>3
      <4>2. box[p].msg \in Msg
        BY <4>1 DEF Entry
      <4>3. /\ e \in CallRec /\ e.pc = "command" /\ e.op = c.op /\ e.idx = c.idx
            /\ e.flag = c.flag /\ e.data = c.data /\ e.truth \in Msg /\ e.misread = c.misread
        BY <1>2, <4>2 DEF CallRec
      <4>4. /\ burst' = <<"header", "content", "OK">>
            /\ call' = [call EXCEPT ![t].pc = "command", ![t].truth = box[p].msg]
        BY <3>1, <3>3 DEF ModuleReads
      <4>5. call' = [call EXCEPT ![t] = e]
        BY <1>1, <4>4 DEF Channel
      <4> HIDE DEF e, d, p
      <4>6. Aimed(e, mem1', pdu')
        BY <1>1, <4>3 DEF Aimed, ByIndex, Reads
      <4>7. Reading(e) /\ ~Sending(e) /\ InOrder(e)
        BY <1>1, <2>2, <4>3 DEF InOrder, Reading, Sending, Reads
      <4>8. ReadBurst(e, burst', cut')
        BY <1>3, <4>3, <4>4 DEF ReadBurst, Fresh
      <4>9. CallBurst(e, burst', cut')
        BY <4>7, <4>8 DEF CallBurst
      <4>10. ~Midway(e, burst')
        BY <4>4, Heads DEF Midway
      <4> QED BY <1>1, <1>7, <2>1, <4>3, <4>5, <4>6, <4>7, <4>9, <4>10, Holds DEF Waiting
    <3>4. CASE ~(p \in Pos /\ box[p] # NULL)
      <4>1. burst' \in {<<"OK">>, <<"ERROR">>} /\ call' = [call EXCEPT ![t] = d]
        BY <3>1, <3>4 DEF ModuleReads, Goes
      <4> HIDE DEF d, p
      <4>2. CallBurst(d, burst', cut')
        BY <1>3, <3>2, <4>1 DEF CallBurst, ReadBurst
      <4>3. ~Midway(d, burst')
        BY <4>1, Heads DEF Midway
      <4> QED BY <1>1, <1>2, <1>4, <1>5, <1>7, <2>1, <4>1, <4>2, <4>3, Holds DEF Waiting
    <3> QED BY <3>3, <3>4
  <2>3. CASE c.op = "send"
    <3>1. burst' = <<"prompt">> /\ call' = [call EXCEPT ![t] = d]
      BY <1>7, <2>3 DEF SendCommand, Reads, Goes
    <3> HIDE DEF d
    <3>2. CallBurst(d, burst', cut') /\ ~Midway(d, burst')
      BY <1>2, <2>3, <3>1 DEF CallBurst, Midway, Reading, Sending, Reads, SendBursts
    <3> QED BY <1>1, <1>2, <1>4, <1>5, <1>7, <2>1, <3>1, <3>2, Holds DEF Waiting
  <2>4. CASE c.op = "delete"
    <3>1. burst' = burst /\ call' = [call EXCEPT ![t] = d]
      BY <1>7, <2>4 DEF SendCommand, Reads, Goes
    <3> HIDE DEF d
    <3>2. CallBurst(d, burst', cut') /\ ~Midway(d, burst')
      BY <1>2, <2>1, <2>4, <3>1 DEF CallBurst, Midway, Reading, Sending, Reads
    <3> QED BY <1>1, <1>2, <1>4, <1>5, <1>7, <2>1, <3>1, <3>2, Holds DEF Waiting
  <2> QED BY <1>1, <2>2, <2>3, <2>4 DEF InOrder, Reads
<1> QED BY <1>6, <1>7

-----------------------------------------------------------------------------
(* Lines of an answer.                                                     *)

LEMMA ReaderKnows ==
  ASSUME Channel, NEW t \in Task, at = t, Reading(call[t])
  PROVE  /\ call[t] \in CallRec /\ InOrder(call[t]) /\ Aimed(call[t], mem1, pdu)
         /\ ReadBurst(call[t], burst, cut)
         /\ s_bSMSReadContentFlag <=> cut \/ Midway(call[t], burst)
<1>1. /\ call[t] \in CallRec /\ InOrder(call[t]) /\ Aimed(call[t], mem1, pdu)
      /\ CallBurst(call[t], burst, cut)
  BY DEF Channel, CallInv, BurstInv
<1>2. s_bSMSReadContentFlag <=> cut \/ Midway(call[t], burst)
  BY DEF Channel, FlagInv
<1> QED BY <1>1, <1>2 DEF CallBurst

(* A line taken for text.                                                  *)
LEMMA TextChannel ==
  ASSUME Channel, NEW t \in Task, at = t, Reading(call[t]), burst # <<>>,
         s_bSMSReadContentFlag, s_bSMSReadContentFlag' = FALSE, cut' = FALSE,
         call' = [call EXCEPT ![t].data = TextOf(call[t], Head(burst)),
                              ![t].misread = @ \/ cut],
         burst' = Tail(burst), at' = at, mem1' = mem1, pdu' = pdu
  PROVE  Channel'
<1> DEFINE c == call[t]
           m == c.misread \/ cut
           x == TextOf(c, Head(burst))
           d == [c EXCEPT !.data = x, !.misread = m]
<1>1. /\ c \in CallRec /\ InOrder(c) /\ Aimed(c, mem1, pdu) /\ ReadBurst(c, burst, cut)
      /\ cut \/ Midway(c, burst)
  BY ReaderKnows
<1>2. x \in Msg \cup {NULL, Junk} /\ m \in BOOLEAN
  BY <1>1, Fields DEF TextOf
<1>3. call' = [call EXCEPT ![t] = d]
  BY <1>1 DEF Channel
<1> HIDE DEF x, m
<1>4. /\ d \in CallRec /\ d.pc = c.pc /\ d.op = c.op /\ d.idx = c.idx /\ d.flag = c.flag
      /\ d.data = x /\ d.truth = c.truth /\ d.misread = m
  BY <1>1, <1>2 DEF CallRec
<1> HIDE DEF d
<1>5. Aimed(d, mem1', pdu')
  BY <1>1, <1>4 DEF Aimed, ByIndex, Reads
<1>6. Reading(d) /\ ~Sending(d) /\ InOrder(d)
  BY <1>1, <1>4 DEF InOrder, Reading, Sending, Reads
<1>7. ReadBurst(d, burst', cut') /\ ~Midway(d, burst')
  <2>1. CASE burst = <<"header", "content", "OK">>
    <3>1. cut /\ m /\ burst' = <<"content", "OK">>
      BY <1>1, <2>1, Heads, Tails DEF Midway, m
    <3> QED BY <1>1, <1>4, <2>1, <3>1, Heads, Distinct DEF ReadBurst, Midway, Fresh
  <2>2. CASE burst = <<"content", "OK">>
    <3>1. ~cut /\ ~m /\ x = c.truth /\ burst' = <<"OK">> /\ c.truth \in Msg
      BY <1>1, <2>2, Heads, Tails, Distinct DEF Midway, m, x, TextOf, ReadBurst, Fresh
    <3> QED BY <1>4, <3>1, Heads DEF ReadBurst, Midway
  <2>3. CASE burst \in {<<"OK">>, <<"ERROR">>}
    <3>1. cut /\ m /\ burst' = <<>>
      BY <1>1, <2>3, Heads, Tails DEF Midway, m
    <3> QED BY <1>4, <3>1, Distinct DEF ReadBurst, Midway
  <2> QED BY <1>1, <2>1, <2>2, <2>3 DEF ReadBurst
<1>8. CallBurst(d, burst', cut')
  BY <1>6, <1>7 DEF CallBurst
<1>9. d.pc \in Waiting
  BY <1>4 DEF Reading, Waiting
<1> QED BY <1>3, <1>4, <1>5, <1>6, <1>7, <1>8, <1>9, Holds

(* A line that is looked at.                                               *)
LEMMA HeaderChannel ==
  ASSUME Channel, NEW t \in Task, at = t, Reading(call[t]), burst # <<>>,
         ~s_bSMSReadContentFlag, cut' = FALSE, Head(burst) \in {"header", "content"},
         s_bSMSReadContentFlag' = NextIsText(Head(burst)),
         burst' = Tail(burst), at' = at, call' = call, mem1' = mem1, pdu' = pdu
  PROVE  Channel'
<1> DEFINE c == call[t]
<1>1. /\ c \in CallRec /\ InOrder(c) /\ Aimed(c, mem1, pdu) /\ ReadBurst(c, burst, cut)
      /\ ~cut /\ ~Midway(c, burst)
  BY ReaderKnows
<1>2. call' = [call EXCEPT ![t] = c]
  BY DEF Channel
<1>3. Aimed(c, mem1', pdu') /\ c.pc \in Waiting /\ ~Sending(c)
  BY <1>1 DEF Reading, Waiting, Sending, Reads
<1>4. /\ ReadBurst(c, burst', cut')
      /\ s_bSMSReadContentFlag' <=> cut' \/ Midway(c, burst')
  <2>1. CASE burst = <<"header", "content", "OK">>
    <3>1. Head(burst) = "header" /\ burst' = <<"content", "OK">>
      BY <2>1, Heads, Tails
    <3>2. c.truth \in Msg /\ c.data = NULL /\ ~c.misread
      BY <1>1, <2>1, Heads, Distinct DEF ReadBurst, Fresh
    <3> QED BY <3>1, <3>2 DEF ReadBurst, Midway, NextIsText
  <2>2. CASE burst = <<"content", "OK">>
    <3>1. Head(burst) = "content" /\ burst' = <<"OK">>
      BY <2>2, Heads, Tails
    <3>2. c.truth \in Msg /\ c.misread
      BY <1>1, <2>2, Heads, Distinct DEF ReadBurst, Fresh, Midway
    <3> QED BY <3>1, <3>2, Heads DEF ReadBurst, Midway, NextIsText
  <2>3. CASE burst \in {<<"OK">>, <<"ERROR">>}
    BY <2>3, Heads
  <2> QED BY <1>1, <2>1, <2>2, <2>3 DEF ReadBurst
<1>5. CallBurst(c, burst', cut')
  BY <1>3, <1>4 DEF CallBurst
<1> QED BY <1>1, <1>2, <1>3, <1>4, <1>5, Holds

LEMMA ReadEnds ==
  ASSUME Channel, NEW t \in Task, at = t, Reading(call[t]), burst # <<>>,
         ~s_bSMSReadContentFlag, Head(burst) \in {"OK", "ERROR"}
  PROVE  /\ ~cut
         /\ call[t].data = call[t].truth \/ call[t].misread
         /\ Head(burst) = "ERROR" => Fresh(call[t])
<1>1. ReadBurst(call[t], burst, cut) /\ ~cut
  BY ReaderKnows
<1> QED BY <1>1, Heads DEF ReadBurst, Fresh

LEMMA ReadChannel ==
  ASSUME Channel, NEW t \in Task, HdlrReadPDUMsg(t)
  PROVE  Channel'
<1> DEFINE c == call[t]
           d == [c EXCEPT !.pc = "success"]
<1>1. /\ at = t /\ Reading(c) /\ burst # <<>> /\ mem1' = mem1 /\ pdu' = pdu /\ cut' = FALSE
  BY DEF HdlrReadPDUMsg, Reading, module
<1>2. CASE /\ s_bSMSReadContentFlag
           /\ ResetsFlag
           /\ call' = [call EXCEPT ![t].data = TextOf(c, Head(burst)), ![t].misread = @ \/ cut]
           /\ burst' = Tail(burst) /\ UNCHANGED <<at, seen, missed>>
  BY <1>1, <1>2, TextChannel DEF ResetsFlag
<1>3. CASE /\ ~s_bSMSReadContentFlag /\ Head(burst) \in {"header", "content"}
           /\ s_bSMSReadContentFlag' = NextIsText(Head(burst))
           /\ burst' = Tail(burst) /\ UNCHANGED <<at, call, seen, missed>>
  BY <1>1, <1>3, HeaderChannel
<1>4. CASE /\ ~s_bSMSReadContentFlag /\ Head(burst) \in {"OK", "ERROR"}
           /\ at' = "none" /\ burst' = <<>> /\ Ends(t)
           /\ UNCHANGED s_bSMSReadContentFlag
  BY <1>1, <1>4, EndsChannel
<1>5. CASE /\ ~s_bSMSReadContentFlag /\ Head(burst) = "OK"
           /\ at' = "none" /\ burst' = <<>> /\ call' = [call EXCEPT ![t].pc = "success"]
           /\ UNCHANGED s_bSMSReadContentFlag
  <2>1. c.data = c.truth \/ c.misread
    BY <1>1, <1>5, ReadEnds
  <2>2. c \in CallRec
    BY <1>1, ReaderKnows
  <2>3. "success" \in Pc
    BY DEF Pc
  <2>4. call' = [call EXCEPT ![t] = d]
    BY <1>5
  <2>5. /\ d \in CallRec /\ d.pc = "success" /\ d.op = c.op /\ d.idx = c.idx
        /\ d.flag = c.flag /\ d.data = c.data /\ d.truth = c.truth /\ d.misread = c.misread
    BY <2>2, <2>3, WithPc
  <2> HIDE DEF d
  <2>6. InOrder(d) /\ Aimed(d, mem1', pdu')
    BY <1>1, <2>1, <2>5 DEF InOrder, Aimed, Reading, Reads
  <2> QED BY <1>1, <1>5, <2>4, <2>5, <2>6, Leaves DEF Waiting
<1> QED BY <1>2, <1>3, <1>4, <1>5 DEF HdlrReadPDUMsg, ReadReturns

LEMMA SendLineChannel ==
  ASSUME Channel, NEW t \in Task, HdlrSendPDUMsg(t)
  PROVE  Channel'
<1> DEFINE c == call[t]
<1>1. /\ at = t /\ Sending(c) /\ ~Reading(c) /\ c \in CallRec
      /\ InOrder(c) /\ Aimed(c, mem1, pdu) /\ burst \in SendBursts
      /\ UNCHANGED <<s_bSMSReadContentFlag, mem1, pdu, cut>>
      /\ c.pc \in Waiting
  BY DEF HdlrSendPDUMsg, Sending, Reading, Reads, Channel, CallInv, BurstInv, CallBurst,
         module, history, Waiting
<1>2. s_bSMSReadContentFlag <=> cut
  BY <1>1 DEF Channel, FlagInv, Midway
<1>3. CASE Head(burst) \in {"prompt", "reference"}
  <2>1. at' = at /\ call' = [call EXCEPT ![t] = c]
    BY <1>3 DEF HdlrSendPDUMsg, Channel
  <2>2. burst' \in SendBursts
    <3>1. CASE Head(burst) = "prompt"
      BY <3>1 DEF HdlrSendPDUMsg, SendBursts
    <3>2. CASE Head(burst) = "reference"
      <4>1. burst = <<"reference", "OK">>
        BY <1>1, <3>2, Heads DEF SendBursts
      <4> QED BY <3>2, <4>1, Tails DEF HdlrSendPDUMsg, SendBursts
    <3> QED BY <1>3, <3>1, <3>2
  <2>3. CallBurst(c, burst', cut') /\ ~Midway(c, burst')
    BY <1>1, <2>2 DEF CallBurst, Midway
  <2> QED BY <1>1, <1>2, <2>1, <2>3, Holds
<1>4. CASE /\ at' = "none" /\ burst' = <<>> /\ Ends(t)
  BY <1>1, <1>2, <1>4, EndsChannel
<1> QED BY <1>3, <1>4 DEF HdlrSendPDUMsg

LEMMA AnsweredChannel ==
  ASSUME Channel, NEW t \in Task, CommandAnswered(t)
  PROVE  Channel'
<1>1. /\ at = t /\ at' = "none" /\ Ends(t) /\ ~Reading(call[t]) /\ ~Sending(call[t])
      /\ UNCHANGED <<s_bSMSReadContentFlag, burst, pdu, cut>>
      /\ mem1' = mem1 \/ mem1' = "SM"
  BY DEF CommandAnswered, ModuleExecutes, Reading, Reads, Sending
<1>2. burst' = <<>> /\ (s_bSMSReadContentFlag' <=> cut')
  BY <1>1, NoLines DEF Channel
<1> QED BY <1>1, <1>2, EndsChannel

LEMMA TimeoutChannel ==
  ASSUME Channel, cut \in BOOLEAN, NEW t \in Task, CommandTimesOut(t)
  PROVE  Channel'
<1> DEFINE c == call[t]
<1>1. /\ at = t /\ at' = "none" /\ Ends(t) /\ burst' = <<>> /\ c.pc = "command"
      /\ UNCHANGED <<s_bSMSReadContentFlag, pdu>>
      /\ mem1' = mem1 \/ mem1' = "SM"
      /\ cut' = (cut \/ (~c.misread /\ burst # <<>> /\ Head(burst) = "content"))
  BY DEF CommandTimesOut, ModuleExecutes
<1>2. s_bSMSReadContentFlag' <=> cut'
  <2>1. CASE Reading(c)
    <3>1. /\ ReadBurst(c, burst, cut)
          /\ s_bSMSReadContentFlag <=> cut \/ Midway(c, burst)
      BY <1>1, <2>1, ReaderKnows
    <3>2. Midway(c, burst) <=> ~c.misread /\ burst # <<>> /\ Head(burst) = "content"
      BY <2>1, <3>1, Heads, Distinct DEF ReadBurst, Midway
    <3> QED BY <1>1, <3>1, <3>2
  <2>2. CASE Sending(c)
    <3>1. burst \in SendBursts /\ (s_bSMSReadContentFlag <=> cut)
      BY <1>1, <2>2 DEF Channel, BurstInv, CallBurst, FlagInv, Midway, Reading, Sending, Reads
    <3>2. Head(burst) # "content"
      BY <3>1, Heads DEF SendBursts
    <3> QED BY <1>1, <3>1, <3>2
  <2>3. CASE ~Reading(c) /\ ~Sending(c)
    BY <1>1, <2>3, NoLines DEF Channel
  <2> QED BY <2>1, <2>2, <2>3
<1> QED BY <1>1, <1>2, EndsChannel

-----------------------------------------------------------------------------
(* The calls, the channel and the flag, over every step.                   *)

LEMMA ArrivesChannel ==
  ASSUME Channel, NEW m \in Msg, Arrives(m)
  PROVE  Channel'
<1>1. UNCHANGED <<s_bSMSReadContentFlag, call, at, burst, mem1, pdu, cut>>
  BY DEF Arrives, ril, channel
<1> QED BY <1>1 DEF Channel, AtInv, CallInv, BurstInv, FlagInv

LEMMA StutterChannel ==
  ASSUME Channel, UNCHANGED vars
  PROVE  Channel'
BY DEF Channel, AtInv, CallInv, BurstInv, FlagInv, vars, ril, channel, module, history

LEMMA BurstIsLines ==
  ASSUME Channel
  PROVE  burst \in Seq(Line)
<1>1. CASE at = "none"
  BY <1>1, Bursts DEF Channel, BurstInv
<1>2. CASE at # "none"
  <2>1. PICK t \in Task : at = t
    BY <1>2 DEF Channel, AtInv
  <2>2. CallBurst(call[t], burst, cut)
    BY <2>1 DEF Channel, BurstInv
  <2> QED BY <2>2, Bursts DEF CallBurst, ReadBurst, SendBursts
<1> QED BY <1>1, <1>2

-----------------------------------------------------------------------------
(* The module and the history.                                             *)

Rest ==
  /\ s_bSMSReadContentFlag \in BOOLEAN /\ cut \in BOOLEAN /\ pdu \in BOOLEAN
  /\ mem1 \in Mem /\ mem3 \in Mem /\ box \in [Pos -> Entry \cup {NULL}]
  /\ inds \in Seq([idx : Nat, msg : Msg])
  /\ fate \in [Msg -> Mem \cup {"new", "gone"}]
  /\ seen \subseteq Msg /\ missed \subseteq Msg

LEMMA ExecutesRest ==
  ASSUME Rest, NEW c \in CallRec, ModuleExecutes(c)
  PROVE  /\ mem1' \in Mem /\ mem3' \in Mem /\ box' \in [Pos -> Entry \cup {NULL}]
         /\ fate' \in [Msg -> Mem \cup {"new", "gone"}]
<1>1. CASE /\ c.op = "set" /\ mem1' = "SM" /\ mem3' = "SM" /\ UNCHANGED <<box, fate>>
  BY <1>1 DEF Rest, Mem
<1>2. CASE /\ box' = [p \in Pos |-> IF p \in Deleted(c) THEN NULL ELSE box[p]]
           /\ fate' = [m \in Msg |->
                IF \E p \in Deleted(c) : box[p].msg = m THEN "gone" ELSE fate[m]]
           /\ UNCHANGED <<mem1, mem3>>
  BY <1>2 DEF Rest
<1> QED BY <1>1, <1>2 DEF ModuleExecutes

LEMMA CallsRest ==
  ASSUME Rest, NEW t \in Task, Calls(t)
  PROVE  Rest'
<1>1. CASE ReadNotified(t)
  <2>1. inds' \in Seq([idx : Nat, msg : Msg])
    <3>1. inds # <<>> /\ inds' = Tail(inds)
      BY <1>1 DEF ReadNotified
    <3> QED BY <3>1, HeadTailProperties DEF Rest
  <2> QED BY <1>1, <2>1 DEF ReadNotified, Rest, history
<1>2. CASE UNCHANGED <<s_bSMSReadContentFlag, module, history>>
  BY <1>2 DEF Rest, module, history
<1> QED BY <1>1, <1>2
  DEF Calls, RIL_SMS_GetStorage, RIL_SMS_SetStorage, RIL_SMS_ReadSMS_PDU,
      RIL_SMS_ReadSMS_Text, RIL_SMS_DeleteSMS, RIL_SMS_SendSMS, Call, Refused

LEMMA SendRest ==
  ASSUME Rest, CallInv, NEW t \in Task, SendCommand(t)
  PROVE  Rest'
<1>1. box' \in [Pos -> Entry \cup {NULL}]
  <2>1. CASE box' = box
    BY <2>1 DEF Rest
  <2>2. CASE ModuleReads(t)
    <3> DEFINE p == <<mem1, call[t].idx>>
               e == [box[p] EXCEPT !.read = TRUE]
    <3>1. CASE p \in Pos /\ box[p] # NULL
      <4>1. box[p] \in Entry
        BY <3>1 DEF Rest
      <4>2. e \in Entry
        BY <4>1 DEF Entry
      <4>3. box' = [box EXCEPT ![p] = e]
        BY <2>2, <3>1 DEF ModuleReads
      <4> HIDE DEF e, p
      <4> QED BY <4>2, <4>3 DEF Rest
    <3>2. CASE ~(p \in Pos /\ box[p] # NULL)
      <4>1. box' = box
        BY <2>2, <3>2 DEF ModuleReads
      <4> QED BY <4>1 DEF Rest
    <3> QED BY <3>1, <3>2
  <2>3. box' = box \/ ModuleReads(t)
    <3>1. call[t].op \in {"read", "text", "delete", "send"}
      BY DEF SendCommand, CallInv, InOrder
    <3> QED BY <3>1 DEF SendCommand, Reads
  <2> QED BY <2>1, <2>2, <2>3
<1> QED BY <1>1 DEF SendCommand, Rest, history

LEMMA LinesRest ==
  ASSUME Rest, NEW t \in Task, HdlrReadPDUMsg(t)
  PROVE  Rest'
<1>1. s_bSMSReadContentFlag' \in BOOLEAN
  BY DEF HdlrReadPDUMsg, ResetsFlag, NextIsText, Rest
<1>2. seen' \subseteq Msg /\ missed' \subseteq Msg
  BY DEF HdlrReadPDUMsg, ReadReturns, Rest
<1>3. cut' = FALSE /\ UNCHANGED <<mem1, mem3, pdu, box, inds, fate>>
  BY DEF HdlrReadPDUMsg, module
<1> QED BY <1>1, <1>2, <1>3 DEF Rest

LEMMA ArrivesRest ==
  ASSUME Rest, NEW m \in Msg, Arrives(m)
  PROVE  Rest'
<1>1. PICK i \in 1 .. Total(mem3) :
        /\ box' = [box EXCEPT ![<<mem3, i>>] = [msg |-> m, read |-> FALSE]]
        /\ inds' = Append(inds, [idx |-> i, msg |-> m])
  BY DEF Arrives
<1>2. box' \in [Pos -> Entry \cup {NULL}]
  BY <1>1 DEF Rest, Entry
<1>3. i \in Nat
  BY TotalsAreNatural DEF Total
<1>4. inds' \in Seq([idx : Nat, msg : Msg])
  BY <1>1, <1>3, AppendProperties DEF Rest
<1>5. fate' \in [Msg -> Mem \cup {"new", "gone"}]
  BY DEF Rest, Arrives
<1> QED BY <1>2, <1>4, <1>5 DEF Rest, Arrives, ril

LEMMA NextRest ==
  ASSUME Rest, Channel, Next
  PROVE  Rest'
<1>1. ASSUME NEW m \in Msg, Arrives(m) PROVE Rest'
  BY <1>1, ArrivesRest
<1>2. ASSUME NEW t \in Task, CommandAnswered(t) \/ CommandTimesOut(t) PROVE Rest'
  <2>1. call[t] \in CallRec
    BY DEF Channel
  <2>2. /\ mem1' \in Mem /\ mem3' \in Mem /\ box' \in [Pos -> Entry \cup {NULL}]
        /\ fate' \in [Msg -> Mem \cup {"new", "gone"}]
    <3>1. ModuleExecutes(call[t]) \/ UNCHANGED <<mem1, mem3, box, fate>>
      BY <1>2 DEF CommandAnswered, CommandTimesOut
    <3> QED BY <2>1, <3>1, ExecutesRest DEF Rest
  <2>3. cut' \in BOOLEAN /\ seen' = seen /\ missed' \subseteq Msg
    BY <1>2 DEF CommandAnswered, CommandTimesOut, Rest
  <2> QED BY <1>2, <2>2, <2>3 DEF CommandAnswered, CommandTimesOut, Rest
<1>3. ASSUME NEW t \in Task,
             \/ CmdGetStorageInfo(t) \/ StorageFails(t) \/ SMS_SET_PDU_MODE(t)
             \/ ModeAnswered(t) \/ ModeFails(t) \/ HdlrSendPDUMsg(t)
      PROVE  Rest'
  <2>1. /\ UNCHANGED <<s_bSMSReadContentFlag, mem1, mem3, box, inds, history>>
        /\ pdu' = pdu \/ pdu' = TRUE
    BY <1>3 DEF CmdGetStorageInfo, StorageFails, SMS_SET_PDU_MODE, ModeAnswered,
                ModeFails, HdlrSendPDUMsg, module
  <2> QED BY <2>1 DEF Rest, history
<1> QED BY <1>1, <1>2, <1>3, CallsRest, SendRest, LinesRest DEF Next, Channel

-----------------------------------------------------------------------------
(* The inductive invariant.                                                *)

IInv == Channel /\ Rest

LEMMA IInvTypes == IInv => TypeOK
<1>1. ASSUME IInv PROVE TypeOK
  BY <1>1, BurstIsLines DEF IInv, TypeOK, Channel, Rest, AtInv, Waiting
<1> QED BY <1>1

LEMMA InitIInv == Init => IInv
<1> SUFFICES ASSUME Init PROVE Channel /\ Rest
  BY DEF IInv
<1>1. \A t \in Task : call[t] = NoCall
  BY DEF Init
<1>2. call \in [Task -> CallRec]
  BY NoCallFacts DEF Init
<1>3. AtInv
  BY <1>1, NoCallFacts, NoTaskIsNone DEF Init, AtInv, Waiting
<1>4. CallInv
  BY <1>1, NoCallFacts DEF CallInv
<1>5. BurstInv /\ FlagInv
  BY NoTaskIsNone DEF Init, BurstInv, FlagInv
<1>6. Rest
  <2>1. box \in [Pos -> Entry \cup {NULL}] /\ fate \in [Msg -> Mem \cup {"new", "gone"}]
    BY DEF Init
  <2>2. inds \in Seq([idx : Nat, msg : Msg])
    BY DEF Init
  <2> QED BY <2>1, <2>2 DEF Init, Rest
<1> QED BY <1>2, <1>3, <1>4, <1>5, <1>6 DEF Channel

LEMMA StepChannel ==
  ASSUME Channel, Rest, Next
  PROVE  Channel'
<1>1. /\ inds \in Seq([idx : Nat, msg : Msg]) /\ box \in [Pos -> Entry \cup {NULL}]
      /\ cut \in BOOLEAN /\ pdu \in BOOLEAN /\ mem1 \in Mem
  BY DEF Rest
<1>2. ASSUME NEW t \in Task,
             \/ Calls(t)
             \/ CmdGetStorageInfo(t) \/ StorageFails(t)
             \/ SMS_SET_PDU_MODE(t) \/ ModeAnswered(t) \/ ModeFails(t)
             \/ SendCommand(t) \/ HdlrReadPDUMsg(t) \/ HdlrSendPDUMsg(t)
             \/ CommandAnswered(t) \/ CommandTimesOut(t)
      PROVE  Channel'
  BY <1>1, <1>2, CallsChannel, StorageChannel, FailsChannel, SetModeChannel,
     ModeChannel, SendChannel, ReadChannel, SendLineChannel, AnsweredChannel, TimeoutChannel
<1>3. ASSUME NEW m \in Msg, Arrives(m) PROVE Channel'
  BY <1>3, ArrivesChannel
<1> QED BY <1>2, <1>3 DEF Next

LEMMA StepIInv == IInv /\ [Next]_vars => IInv'
<1>1. ASSUME IInv, Next PROVE IInv'
  BY <1>1, StepChannel, NextRest DEF IInv
<1>2. ASSUME IInv, UNCHANGED vars PROVE IInv'
  BY <1>2, StutterChannel DEF IInv, Rest, vars, ril, module, history
<1> QED BY <1>1, <1>2

LEMMA Invariance == Spec => []IInv
BY InitIInv, StepIInv, PTL DEF Spec

(* Every variable keeps its type, and a task waits for an answer exactly   *)
(* while it holds the AT channel.                                          *)
THEOREM TypeCorrect == Spec => []TypeOK
BY Invariance, IInvTypes, PTL

(* A read that returns success returns the message the module showed,      *)
(* unless a read was cut before it.                                        *)
THEOREM ReadsReturnTheMessage == Spec => []ReadsAreFaithful
<1>1. IInv => ReadsAreFaithful
  BY DEF IInv, Channel, CallInv, InOrder, ReadsAreFaithful
<1> QED BY <1>1, Invariance, PTL

(* A read or a send whose answer is complete has ended, unless a read was  *)
(* cut before it.                                                          *)
THEOREM NoDeafCommand == Spec => []AnsweredCommandsEnd
<1>1. ASSUME IInv, NEW t \in Task, at = t, call[t].pc = "command", burst = <<>>,
             Reads(call[t]) \/ call[t].op = "send"
      PROVE  call[t].misread
  <2>1. CallBurst(call[t], burst, cut)
    BY <1>1 DEF IInv, Channel, BurstInv
  <2>2. CASE Reads(call[t])
    BY <1>1, <2>1, <2>2, Distinct DEF CallBurst, ReadBurst, Reading
  <2>3. CASE call[t].op = "send"
    BY <1>1, <2>1, <2>3, Distinct DEF CallBurst, Sending, SendBursts
  <2> QED BY <1>1, <2>2, <2>3
<1>2. IInv => AnsweredCommandsEnd
  BY <1>1 DEF AnsweredCommandsEnd
<1> QED BY <1>2, Invariance, PTL

(* A command reaches the storage and the range its index was checked       *)
(* against, in PDU mode, whatever the other tasks do after the check.      *)
THEOREM CommandsAimed == Spec => []CommandsAreWellAimed
<1>1. IInv => CommandsAreWellAimed
  BY DEF IInv, Channel, CallInv, Aimed, CommandsAreWellAimed
<1> QED BY <1>1, Invariance, PTL

-----------------------------------------------------------------------------
(* The marks of the module.                                                *)

(* A step that gives no new mark and ends no read without a result.        *)
LEMMA MarksKept ==
  ASSUME ReadMarksAreEarned, box \in [Pos -> Entry \cup {NULL}],
         \A p \in Pos : box'[p] # NULL /\ box'[p].read => box'[p] = box[p],
         seen \subseteq seen', missed \subseteq missed',
         \A u \in Task : at = u =>
           \/ at' = u /\ call'[u].truth = call[u].truth
           \/ call[u].truth \in {NULL} \cup seen' \cup missed'
  PROVE  ReadMarksAreEarned'
<1> SUFFICES ASSUME NEW p \in Pos, box'[p] # NULL, box'[p].read
             PROVE  \/ box'[p].msg \in seen' \cup missed'
                    \/ \E t \in Task : at' = t /\ call'[t].truth = box'[p].msg
  BY DEF ReadMarksAreEarned
<1>1. box'[p] = box[p] /\ box[p] \in Entry
  OBVIOUS
<1>2. box[p].msg \in Msg /\ box[p].msg # NULL
  BY <1>1, NoMessageIsOther DEF Entry
<1>3. CASE box[p].msg \in seen \cup missed
  BY <1>1, <1>3
<1>4. ASSUME NEW t \in Task, at = t, call[t].truth = box[p].msg
      PROVE  \/ box'[p].msg \in seen' \cup missed'
             \/ \E u \in Task : at' = u /\ call'[u].truth = box'[p].msg
  BY <1>1, <1>2, <1>4
<1> QED BY <1>1, <1>3, <1>4 DEF ReadMarksAreEarned

LEMMA HolderIsFresh ==
  ASSUME Channel, NEW u \in Task, at = u, ~Reading(call[u])
  PROVE  call[u].truth = NULL
BY DEF Channel, AtInv, CallInv, InOrder, Fresh, Waiting

LEMMA SendMarks ==
  ASSUME IInv, ReadMarksAreEarned, NEW t \in Task, SendCommand(t)
  PROVE  ReadMarksAreEarned'
<1>1. UNCHANGED <<seen, missed>> /\ box \in [Pos -> Entry \cup {NULL}]
  BY DEF SendCommand, history, IInv, Rest
<1>2. CASE UNCHANGED <<at, box>> /\ Ends(t) /\ at # "none"
  <2>1. at # t
    BY DEF SendCommand, IInv, Channel, AtInv, Waiting
  <2>2. \A u \in Task : at = u => at' = u /\ call'[u].truth = call[u].truth
    BY <1>2, <2>1 DEF Ends, IInv, Channel
  <2> QED BY <1>1, <1>2, <2>2, MarksKept
<1>3. CASE at = "none" /\ box' = box
  BY <1>1, <1>3, NoTaskIsNone, MarksKept
<1>4. CASE at = "none" /\ at' = t /\ ModuleReads(t)
  <2> DEFINE q == <<mem1, call[t].idx>>
  <2>1. CASE q \in Pos /\ box[q] # NULL
    <3>1. /\ box' = [box EXCEPT ![q].read = TRUE]
          /\ call' = [call EXCEPT ![t].pc = "command", ![t].truth = box[q].msg]
      BY <1>4, <2>1 DEF ModuleReads
    <3>2. call'[t].truth = box[q].msg
      <4>1. call \in [Task -> CallRec]
        BY DEF IInv, Channel
      <4> QED BY <3>1, <4>1 DEF CallRec
    <3>3. box[q] \in Entry
      BY <1>1, <2>1
    <3>4. box'[q].msg = box[q].msg /\ \A p \in Pos \ {q} : box'[p] = box[p]
      BY <1>1, <2>1, <3>1, <3>3 DEF Entry
    <3> HIDE DEF q
    <3> SUFFICES ASSUME NEW p \in Pos, box'[p] # NULL, box'[p].read
                 PROVE  \/ box'[p].msg \in seen' \cup missed'
                        \/ \E u \in Task : at' = u /\ call'[u].truth = box'[p].msg
      BY DEF ReadMarksAreEarned
    <3>5. CASE p = q
      BY <1>4, <3>2, <3>4, <3>5
    <3>6. CASE p # q
      BY <1>1, <1>4, <3>4, <3>6, NoTaskIsNone DEF ReadMarksAreEarned
    <3> QED BY <3>5, <3>6
  <2>2. CASE ~(q \in Pos /\ box[q] # NULL)
    <3>1. box' = box
      BY <1>4, <2>2 DEF ModuleReads
    <3> QED BY <1>3, <1>4, <3>1
  <2> QED BY <2>1, <2>2
<1>5. call[t].op \in {"read", "text", "delete", "send"}
  BY DEF SendCommand, IInv, Channel, CallInv, InOrder
<1> QED BY <1>2, <1>3, <1>4, <1>5 DEF SendCommand, Reads, channel

LEMMA LinesMarks ==
  ASSUME IInv, ReadMarksAreEarned, NEW t \in Task, HdlrReadPDUMsg(t)
  PROVE  ReadMarksAreEarned'
<1> DEFINE c == call[t]
<1>1. /\ at = t /\ Reading(c) /\ burst # <<>> /\ box' = box
      /\ c \in CallRec /\ box \in [Pos -> Entry \cup {NULL}]
  BY DEF HdlrReadPDUMsg, Reading, module, IInv, Channel, Rest
<1>2. c.truth \in Msg \cup {NULL}
  BY <1>1, Fields
<1>3. CASE at' = at /\ UNCHANGED <<seen, missed>> /\ call'[t].truth = c.truth
  BY <1>1, <1>3, MarksKept
<1>4. CASE ~s_bSMSReadContentFlag /\ Head(burst) = "OK" /\ ReadReturns(t)
  <2>1. c.data = c.truth \/ c.misread
    BY <1>1, <1>4, ReadEnds DEF IInv
  <2>2. /\ seen \subseteq seen' /\ missed \subseteq missed'
        /\ c.truth \in {NULL} \cup seen' \cup missed'
    BY <1>2, <1>4, <2>1, NoMessageIsOther DEF ReadReturns
  <2> QED BY <1>1, <2>2, MarksKept
<1>5. CASE /\ ~s_bSMSReadContentFlag /\ Head(burst) = "ERROR" /\ UNCHANGED <<seen, missed>>
  <2>1. c.truth = NULL
    BY <1>1, <1>5, ReadEnds DEF IInv, Fresh
  <2> QED BY <1>1, <1>5, <2>1, MarksKept
<1>6. ASSUME UNCHANGED <<at, seen, missed>>,
             \/ UNCHANGED call
             \/ call' = [call EXCEPT ![t].data = TextOf(c, Head(burst)), ![t].misread = @ \/ cut]
      PROVE  ReadMarksAreEarned'
  <2>1. call'[t].truth = c.truth
    <3>1. call \in [Task -> CallRec]
      BY DEF IInv, Channel
    <3> QED BY <1>6, <3>1 DEF CallRec
  <2> QED BY <1>3, <1>6, <2>1
<1> QED BY <1>4, <1>5, <1>6 DEF HdlrReadPDUMsg

(* The other steps of a task that holds the channel, or does not.          *)
LEMMA QuietMarks ==
  ASSUME IInv, ReadMarksAreEarned, NEW t \in Task,
         \/ Calls(t) \/ CmdGetStorageInfo(t) \/ StorageFails(t)
         \/ SMS_SET_PDU_MODE(t) \/ ModeAnswered(t) \/ ModeFails(t) \/ HdlrSendPDUMsg(t)
  PROVE  ReadMarksAreEarned'
<1>1. box \in [Pos -> Entry \cup {NULL}] /\ UNCHANGED <<box, seen, missed>>
  BY DEF IInv, Rest, Calls, RIL_SMS_GetStorage, RIL_SMS_SetStorage, RIL_SMS_ReadSMS_PDU,
         RIL_SMS_ReadSMS_Text, RIL_SMS_DeleteSMS, RIL_SMS_SendSMS, Call, Refused,
         ReadNotified, CmdGetStorageInfo, StorageFails, SMS_SET_PDU_MODE, ModeAnswered,
         ModeFails, HdlrSendPDUMsg, module, history
<1>2. CASE at = "none"
  BY <1>1, <1>2, NoTaskIsNone, MarksKept
<1>3. CASE at = t
  <2>1. ~Reading(call[t])
    BY <1>3 DEF Calls, RIL_SMS_GetStorage, RIL_SMS_SetStorage, RIL_SMS_ReadSMS_PDU,
         RIL_SMS_ReadSMS_Text, RIL_SMS_DeleteSMS, RIL_SMS_SendSMS, Call, Refused, MayCall,
         ReadNotified, CmdGetStorageInfo, StorageFails, SMS_SET_PDU_MODE, ModeAnswered,
         ModeFails, HdlrSendPDUMsg, Reading, Reads
  <2>2. call[t].truth = NULL
    BY <1>3, <2>1, HolderIsFresh DEF IInv
  <2> QED BY <1>1, <1>3, <2>2, MarksKept, SMTT(60)
<1>4. CASE at \notin {t, "none"}
  <2>1. at' = at
    BY <1>4, ZenonT(60) DEF Calls, RIL_SMS_GetStorage, RIL_SMS_SetStorage, RIL_SMS_ReadSMS_PDU,
         RIL_SMS_ReadSMS_Text, RIL_SMS_DeleteSMS, RIL_SMS_SendSMS, Call, Refused, channel,
         ReadNotified, CmdGetStorageInfo, StorageFails, SMS_SET_PDU_MODE, ModeAnswered,
         ModeFails, HdlrSendPDUMsg
  <2>2. \A u \in Task \ {t} : call'[u] = call[u]
    <3>1. \E c : call' = [call EXCEPT ![t] = c]
      BY <1>4 DEF Calls, RIL_SMS_GetStorage, RIL_SMS_SetStorage, RIL_SMS_ReadSMS_PDU,
         RIL_SMS_ReadSMS_Text, RIL_SMS_DeleteSMS, RIL_SMS_SendSMS, Call, Refused, Ends,
         ReadNotified, CmdGetStorageInfo, StorageFails, SMS_SET_PDU_MODE, ModeAnswered,
         ModeFails, HdlrSendPDUMsg
    <3> QED BY <3>1 DEF IInv, Channel
  <2> QED BY <1>1, <1>4, <2>1, <2>2, MarksKept, SMTT(60)
<1> QED BY <1>2, <1>3, <1>4, SMTT(60)

LEMMA ExecutesMarks ==
  ASSUME IInv, ReadMarksAreEarned, NEW t \in Task, CommandAnswered(t) \/ CommandTimesOut(t)
  PROVE  ReadMarksAreEarned'
<1>1. box' = box \/ ModuleExecutes(call[t])
  BY DEF CommandAnswered, CommandTimesOut
<1>2. \A p \in Pos : box'[p] = box[p] \/ box'[p] = NULL
  BY <1>1 DEF ModuleExecutes
<1>3. /\ seen \subseteq seen' /\ missed \subseteq missed'
      /\ at = t /\ box \in [Pos -> Entry \cup {NULL}]
  BY DEF CommandAnswered, CommandTimesOut, IInv, Rest
<1>4. call[t].truth \in {NULL} \cup seen' \cup missed'
  <2>1. CASE CommandAnswered(t)
    <3>1. ~Reading(call[t])
      BY <2>1 DEF CommandAnswered, Reading, Reads
    <3> QED BY <1>3, <3>1, HolderIsFresh DEF IInv
  <2>2. CASE CommandTimesOut(t)
    <3>1. call[t].truth \in Msg \cup {NULL}
      BY Fields DEF IInv, Channel
    <3> QED BY <2>2, <3>1 DEF CommandTimesOut
  <2> QED BY <2>1, <2>2
<1> QED BY <1>2, <1>3, <1>4, MarksKept

LEMMA ArrivesMarks ==
  ASSUME IInv, ReadMarksAreEarned, NEW m \in Msg, Arrives(m)
  PROVE  ReadMarksAreEarned'
<1>1. UNCHANGED <<at, call, seen, missed>> /\ box \in [Pos -> Entry \cup {NULL}]
  BY DEF Arrives, ril, channel, IInv, Rest
<1>2. PICK q : box' = [box EXCEPT ![q] = [msg |-> m, read |-> FALSE]]
  BY DEF Arrives
<1>3. \A p \in Pos : box'[p] # NULL /\ box'[p].read => box'[p] = box[p]
  BY <1>1, <1>2
<1> QED BY <1>1, <1>3, MarksKept

LEMMA StepMarks == IInv /\ ReadMarksAreEarned /\ [Next]_vars => ReadMarksAreEarned'
<1>1. ASSUME IInv, ReadMarksAreEarned, Next PROVE ReadMarksAreEarned'
  BY <1>1, QuietMarks, SendMarks, LinesMarks, ExecutesMarks, ArrivesMarks DEF Next
<1>2. ASSUME ReadMarksAreEarned, UNCHANGED vars PROVE ReadMarksAreEarned'
  BY <1>2 DEF ReadMarksAreEarned, vars, ril, channel, module, history
<1> QED BY <1>1, <1>2

(* A message the module counts as read has been returned, is being read,   *)
(* or was lost by a read that timed out, came after a cut one, or failed   *)
(* to decode it.                                                           *)
THEOREM MarksAreEarned == Spec => []ReadMarksAreEarned
<1>1. Init => ReadMarksAreEarned
  BY DEF Init, ReadMarksAreEarned
<1> QED BY <1>1, StepMarks, Invariance, PTL DEF Spec

-----------------------------------------------------------------------------
(* The messages announced: while such a message is in SM it is at the      *)
(* index announced, whoever reads it.                                      *)

Held(b, f, i, m) ==
  f[m] = "SM" => <<"SM", i>> \in Pos /\ b[<<"SM", i>>] # NULL /\ b[<<"SM", i>>].msg = m

Announced(b, f, e) == f[e.msg] # "new" /\ Held(b, f, e.idx, e.msg)

Known(c, b, f) == c.want # NULL =>
  /\ f[c.want] # "new" /\ Reads(c)
  /\ c.pc \in {"storage", "setMode", "mode", "ready"} => Held(b, f, c.idx, c.want)
  /\ c.pc \in {"command", "success"} /\ f[c.want] = "SM" => c.truth = c.want

NoticeInv ==
  /\ \A k \in 1 .. Len(inds) : Announced(box, fate, inds[k])
  /\ \A t \in Task : Known(call[t], box, fate)

(* A step that moves no message that is stored.                            *)
Steady == \A m \in Msg : fate[m] # "new" =>
  /\ fate'[m] # "new"
  /\ fate'[m] = "SM" =>
       /\ fate[m] = "SM"
       /\ \A p \in Pos : box[p] # NULL /\ box[p].msg = m => box'[p] # NULL /\ box'[p].msg = m

LEMMA Stays == ASSUME UNCHANGED <<box, fate>> PROVE Steady
BY DEF Steady

LEMMA HeldKept ==
  ASSUME Steady, NEW i, NEW m \in Msg, fate[m] # "new", Held(box, fate, i, m)
  PROVE  fate'[m] # "new" /\ Held(box', fate', i, m)
BY DEF Steady, Held

LEMMA KnownKept ==
  ASSUME Steady, NEW c \in CallRec, Known(c, box, fate)
  PROVE  Known(c, box', fate')
<1> SUFFICES ASSUME c.want # NULL
             PROVE  /\ fate'[c.want] # "new" /\ Reads(c)
                    /\ c.pc \in {"storage", "setMode", "mode", "ready"} =>
                         Held(box', fate', c.idx, c.want)
                    /\ c.pc \in {"command", "success"} /\ fate'[c.want] = "SM" => c.truth = c.want
  BY DEF Known
<1>1. c.want \in Msg
  BY Fields
<1> QED BY <1>1, HeldKept DEF Known, Steady

LEMMA NoticesKept ==
  ASSUME IInv, NoticeInv, Steady, inds' = inds
  PROVE  \A k \in 1 .. Len(inds') : Announced(box', fate', inds'[k])
<1> SUFFICES ASSUME NEW k \in 1 .. Len(inds) PROVE Announced(box', fate', inds[k])
  OBVIOUS
<1>1. inds[k] \in [idx : Nat, msg : Msg]
  BY ElementOfSeq DEF IInv, Rest
<1>2. inds[k].msg \in Msg
  BY <1>1
<1> QED BY <1>2, HeldKept DEF NoticeInv, Announced

(* A step that changes one call.                                           *)
LEMMA NoticeStep ==
  ASSUME IInv, NoticeInv, Steady, inds' = inds,
         NEW t \in Task, NEW c, call' = [call EXCEPT ![t] = c], Known(c, box', fate')
  PROVE  NoticeInv'
<1>1. ASSUME NEW u \in Task PROVE Known(call'[u], box', fate')
  <2>1. CASE u = t
    <3>1. call'[u] = c
      BY <2>1 DEF IInv, Channel
    <3> QED BY <3>1
  <2>2. CASE u # t
    <3>1. call'[u] = call[u] /\ call[u] \in CallRec
      BY <2>2 DEF IInv, Channel
    <3> QED BY <3>1, KnownKept DEF NoticeInv
  <2> QED BY <2>1, <2>2
<1> QED BY <1>1, NoticesKept DEF NoticeInv

LEMMA Unasked == ASSUME NEW c, c.want = NULL, NEW b, NEW f PROVE Known(c, b, f)
BY DEF Known

LEMMA EndsNotice ==
  ASSUME IInv, NoticeInv, Steady, inds' = inds, NEW t \in Task, Ends(t)
  PROVE  NoticeInv'
BY NoticeStep, NoCallFacts, Unasked DEF Ends

(* The call goes on to a command that is not the last.                     *)
LEMMA GoesNotice ==
  ASSUME IInv, NoticeInv, UNCHANGED <<inds, box, fate>>, NEW t \in Task,
         NEW pc \in {"setMode", "mode", "ready"}, Goes(t, pc),
         call[t].pc \in {"storage", "setMode", "mode"}
  PROVE  NoticeInv'
<1> DEFINE c == call[t]
           d == [c EXCEPT !.pc = pc]
<1>1. c \in CallRec /\ Known(c, box, fate)
  BY DEF IInv, Channel, NoticeInv
<1>2. pc \in Pc
  BY DEF Pc
<1>3. d.pc = pc /\ d.op = c.op /\ d.idx = c.idx /\ d.want = c.want /\ d.truth = c.truth
  BY <1>1, <1>2, WithPc
<1>4. call' = [call EXCEPT ![t] = d]
  BY DEF Goes
<1> HIDE DEF d
<1>5. Known(d, box, fate)
  BY <1>1, <1>3 DEF Known, Reads
<1> QED BY <1>4, <1>5, NoticeStep, Stays

LEMMA StorageNotice ==
  ASSUME IInv, NoticeInv, NEW t \in Task, CmdGetStorageInfo(t)
  PROVE  NoticeInv'
<1> DEFINE c == call[t]
<1>1. UNCHANGED <<inds, box, fate>> /\ c.pc = "storage" /\ c \in CallRec
  BY DEF CmdGetStorageInfo, module, history, IInv, Channel
<1>2. PICK info \in {<<mem1, Total(mem1)>>, <<"SM", 0>>} :
        LET core == ADP_SMS_ConvIdxToCoreIdx(info[1], c.idx, info[2]) IN
        IF c.op = "get" \/ (ByIndex(c) /\ core = 0) THEN Ends(t)
        ELSE call' = [call EXCEPT ![t].pc = "setMode",
                                  ![t].idx = IF Reads(c) THEN core ELSE c.idx]
  BY DEF CmdGetStorageInfo
<1> DEFINE core == ADP_SMS_ConvIdxToCoreIdx(info[1], c.idx, info[2])
<1>3. CASE c.op = "get" \/ (ByIndex(c) /\ core = 0)
  BY <1>1, <1>2, <1>3, EndsNotice, Stays
<1>4. CASE ~(c.op = "get" \/ (ByIndex(c) /\ core = 0))
  <2>1. (IF Reads(c) THEN core ELSE c.idx) = c.idx
    BY <1>4 DEF ADP_SMS_ConvIdxToCoreIdx, ByIndex
  <2>2. call' = [call EXCEPT ![t].pc = "setMode", ![t].idx = c.idx]
    BY <1>2, <1>4, <2>1
  <2>3. call' = [call EXCEPT ![t].pc = "setMode"]
    BY <1>1, <2>2 DEF CallRec
  <2> QED BY <1>1, <2>3, GoesNotice DEF Goes
<1> QED BY <1>3, <1>4

LEMMA CallNotice ==
  ASSUME IInv, NoticeInv, NEW t \in Task, NEW pc \in Waiting, NEW c \in CallRec,
         Call(t, pc, c), c.want = NULL
  PROVE  NoticeInv'
<1> DEFINE d == [c EXCEPT !.pc = pc]
<1>1. UNCHANGED <<inds, box, fate>>
  BY DEF Call, module, history
<1>2. d.want = NULL
  BY WithPc DEF Pc, Waiting
<1>3. CASE call' = [call EXCEPT ![t] = d]
  <2> HIDE DEF d
  <2> QED BY <1>1, <1>2, <1>3, NoticeStep, Stays, Unasked
<1> QED BY <1>1, <1>3, EndsNotice, Stays DEF Call

LEMMA CallsNotice ==
  ASSUME IInv, NoticeInv, NEW t \in Task, Calls(t)
  PROVE  NoticeInv'
<1>2. CASE Refused(t)
  <2>1. UNCHANGED <<inds, box, fate>> /\ Ends(t)
    BY <1>2 DEF Refused, module, history
  <2> QED BY <2>1, EndsNotice, Stays
<1>3. CASE RIL_SMS_GetStorage(t)
  BY <1>3, CallNotice, NoCallFacts DEF RIL_SMS_GetStorage, Waiting
<1>4. ASSUME NEW m \in Mem, RIL_SMS_SetStorage(t, m) PROVE NoticeInv'
  <2> DEFINE c == [NoCall EXCEPT !.op = "set"]
  <2>1. c \in CallRec /\ c.want = NULL
    BY DEF NoCall, CallRec, Op, Flag
  <2>2. Call(t, "command", c) \/ Refused(t)
    BY <1>4 DEF RIL_SMS_SetStorage
  <2> HIDE DEF c
  <2> QED BY <1>2, <2>1, <2>2, CallNotice DEF Waiting
<1>5. ASSUME NEW i \in Indices, NEW o \in {"read", "text"},
             Call(t, "storage", [NoCall EXCEPT !.op = o, !.idx = i])
      PROVE  NoticeInv'
  <2> DEFINE c == [NoCall EXCEPT !.op = o, !.idx = i]
  <2>1. c \in CallRec /\ c.want = NULL
    BY IndicesAreNatural DEF NoCall, CallRec, Op, Flag
  <2>2. Call(t, "storage", c)
    BY <1>5
  <2> HIDE DEF c
  <2> QED BY <2>1, <2>2, CallNotice DEF Waiting
<1>6. ASSUME NEW i \in Indices, NEW f \in Flag, RIL_SMS_DeleteSMS(t, i, f) PROVE NoticeInv'
  <2> DEFINE c == [NoCall EXCEPT !.op = "delete", !.idx = i, !.flag = f]
  <2>1. c \in CallRec /\ c.want = NULL
    BY IndicesAreNatural DEF NoCall, CallRec, Op
  <2>2. Call(t, "storage", c)
    BY <1>6 DEF RIL_SMS_DeleteSMS
  <2> HIDE DEF c
  <2> QED BY <2>1, <2>2, CallNotice DEF Waiting
<1>7. ASSUME NEW valid \in BOOLEAN, RIL_SMS_SendSMS(t, valid) PROVE NoticeInv'
  <2> DEFINE c == [NoCall EXCEPT !.op = "send"]
  <2>1. c \in CallRec /\ c.want = NULL
    BY DEF NoCall, CallRec, Op, Flag
  <2>2. Call(t, "mode", c) \/ Refused(t)
    BY <1>7 DEF RIL_SMS_SendSMS
  <2> HIDE DEF c
  <2> QED BY <1>2, <2>1, <2>2, CallNotice DEF Waiting
<1>8. CASE ReadNotified(t)
  <2> DEFINE e == inds[1]
             d == [NoCall EXCEPT !.pc = "storage", !.op = "read",
                                 !.idx = Head(inds).idx, !.want = Head(inds).msg]
  <2>1. /\ inds \in Seq([idx : Nat, msg : Msg]) /\ inds # <<>> /\ inds' = Tail(inds)
        /\ call' = [call EXCEPT ![t] = d] /\ UNCHANGED <<box, fate>>
    BY <1>8 DEF ReadNotified, history, IInv, Rest
  <2>2. /\ Len(inds) \in Nat \ {0} /\ Head(inds) = e
        /\ Len(inds') = Len(inds) - 1 /\ \A k \in 1 .. Len(inds') : inds'[k] = inds[k + 1]
    BY <2>1, HeadTailProperties, LenProperties
  <2>3. Announced(box, fate, e) /\ e \in [idx : Nat, msg : Msg]
    <3>1. 1 \in 1 .. Len(inds)
      BY <2>2
    <3>2. inds[1] \in [idx : Nat, msg : Msg]
      BY <2>1, <3>1, ElementOfSeq
    <3> QED BY <3>1, <3>2 DEF NoticeInv
  <2>4. /\ d.pc = "storage" /\ d.op = "read" /\ d.idx = e.idx /\ d.want = e.msg
    BY <2>2 DEF NoCall
  <2>5. \A k \in 1 .. Len(inds') : Announced(box, fate, inds'[k])
    BY <2>2 DEF NoticeInv
  <2> HIDE DEF d, e
  <2>6. Known(d, box, fate)
    BY <2>3, <2>4 DEF Known, Announced, Reads
  <2>7. \A u \in Task : Known(call'[u], box, fate)
    <3>1. \A u \in Task : call'[u] = IF u = t THEN d ELSE call[u]
      BY <2>1 DEF IInv, Channel
    <3> QED BY <2>6, <3>1 DEF NoticeInv
  <2> QED BY <2>1, <2>5, <2>7 DEF NoticeInv
<1> QED BY <1>3, <1>4, <1>5, <1>6, <1>7, <1>8
        DEF Calls, RIL_SMS_ReadSMS_PDU, RIL_SMS_ReadSMS_Text

LEMMA SendNotice ==
  ASSUME IInv, NoticeInv, NEW t \in Task, SendCommand(t)
  PROVE  NoticeInv'
<1> DEFINE c == call[t]
           d == [c EXCEPT !.pc = "command"]
           p == <<mem1, c.idx>>
           e == [d EXCEPT !.truth = box[p].msg]
<1>1. /\ c.pc = "ready" /\ c \in CallRec /\ InOrder(c) /\ Aimed(c, mem1, pdu)
      /\ UNCHANGED <<inds, fate>> /\ Known(c, box, fate) /\ box \in [Pos -> Entry \cup {NULL}]
      /\ call \in [Task -> CallRec]
  BY DEF SendCommand, history, IInv, Channel, Rest, CallInv, NoticeInv
<1>2. /\ d \in CallRec /\ d.pc = "command" /\ d.op = c.op
      /\ d.want = c.want /\ d.truth = c.truth
  BY <1>1, WithPc DEF Pc
<1>3. CASE Ends(t) /\ box' = box
  BY <1>1, <1>3, EndsNotice, Stays
<1>4. CASE ~Reads(c) /\ call' = [call EXCEPT ![t] = d] /\ box' = box
  <2> HIDE DEF d
  <2>1. Known(d, box, fate)
    BY <1>1, <1>2, <1>4 DEF Known, Reads
  <2> QED BY <1>1, <1>4, <2>1, NoticeStep, Stays
<1>5. CASE Reads(c) /\ ModuleReads(t)
  <2>1. c.want # NULL /\ fate[c.want] = "SM" =>
          p \in Pos /\ box[p] # NULL /\ box[p].msg = c.want
    <3>1. mem1 = "SM"
      BY <1>1, <1>5 DEF Aimed, ByIndex
    <3> QED BY <1>1, <3>1 DEF Known, Held
  <2>2. CASE p \in Pos /\ box[p] # NULL
    <3>1. /\ box' = [box EXCEPT ![p].read = TRUE]
          /\ call' = [call EXCEPT ![t].pc = "command", ![t].truth = box[p].msg]
      BY <1>5, <2>2 DEF ModuleReads
    <3>2. box[p] \in Entry
      BY <1>1, <2>2
    <3>3. /\ e.pc = "command" /\ e.op = c.op /\ e.want = c.want /\ e.truth = box[p].msg
          /\ call' = [call EXCEPT ![t] = e]
      BY <1>1, <1>2, <3>1 DEF CallRec
    <3>4. \A q \in Pos : box[q] # NULL => box'[q] # NULL /\ box'[q].msg = box[q].msg
      <4>1. [box[p] EXCEPT !.read = TRUE] \in Entry
        BY <3>2 DEF Entry
      <4>2. [box[p] EXCEPT !.read = TRUE] # NULL
        BY <3>2, <4>1, NoEntryIsNull
      <4>3. [box[p] EXCEPT !.read = TRUE].msg = box[p].msg
        BY <3>2 DEF Entry
      <4> QED BY <1>1, <2>2, <3>1, <4>2, <4>3
    <3> HIDE DEF e, d, p
    <3>5. Steady
      BY <1>1, <3>4 DEF Steady
    <3>6. Known(e, box', fate')
      BY <1>1, <2>1, <3>3 DEF Known, Reads
    <3> QED BY <1>1, <3>3, <3>5, <3>6, NoticeStep
  <2>3. CASE ~(p \in Pos /\ box[p] # NULL)
    <3>1. box' = box /\ call' = [call EXCEPT ![t] = d]
      BY <1>5, <2>3 DEF ModuleReads, Goes
    <3> HIDE DEF d, p
    <3>2. Known(d, box, fate)
      BY <1>1, <1>2, <2>1, <2>3 DEF Known, Reads
    <3> QED BY <1>1, <3>1, <3>2, NoticeStep, Stays
  <2> QED BY <2>2, <2>3
<1> QED BY <1>1, <1>3, <1>4, <1>5 DEF SendCommand, InOrder, Reads, Goes

LEMMA LinesNotice ==
  ASSUME IInv, NoticeInv, NEW t \in Task, HdlrReadPDUMsg(t)
  PROVE  NoticeInv'
<1> DEFINE c == call[t]
           d == [c EXCEPT !.data = TextOf(c, Head(burst)), !.misread = @ \/ cut]
           e == [c EXCEPT !.pc = "success"]
<1>1. /\ UNCHANGED <<inds, box, fate>> /\ Known(c, box, fate) /\ c \in CallRec
      /\ c.pc = "command" /\ call \in [Task -> CallRec]
  BY DEF HdlrReadPDUMsg, module, NoticeInv, IInv, Channel
<1>2. CASE Ends(t)
  BY <1>1, <1>2, EndsNotice, Stays
<1>3. CASE call' = [call EXCEPT ![t] = d]
  <2>1. d.pc = c.pc /\ d.op = c.op /\ d.idx = c.idx /\ d.want = c.want /\ d.truth = c.truth
    BY <1>1 DEF CallRec
  <2> HIDE DEF d
  <2>2. Known(d, box, fate)
    BY <1>1, <2>1 DEF Known, Reads
  <2> QED BY <1>1, <1>3, <2>2, NoticeStep, Stays
<1>4. CASE call' = [call EXCEPT ![t] = e]
  <2>1. e.pc = "success" /\ e.op = c.op /\ e.want = c.want /\ e.truth = c.truth
    BY <1>1, WithPc DEF Pc
  <2> HIDE DEF e
  <2>2. Known(e, box, fate)
    BY <1>1, <2>1 DEF Known, Reads
  <2> QED BY <1>1, <1>4, <2>2, NoticeStep, Stays
<1>5. CASE call' = [call EXCEPT ![t].data = TextOf(c, Head(burst)), ![t].misread = @ \/ cut]
  <2>1. call' = [call EXCEPT ![t] = d]
    BY <1>1, <1>5
  <2> QED BY <1>3, <2>1
<1>6. CASE UNCHANGED call
  <2>1. call' = [call EXCEPT ![t] = c]
    BY <1>1, <1>6
  <2> QED BY <1>1, <2>1, NoticeStep, Stays
<1> QED BY <1>2, <1>4, <1>5, <1>6 DEF HdlrReadPDUMsg, ReadReturns

LEMMA SendLineNotice ==
  ASSUME IInv, NoticeInv, NEW t \in Task, HdlrSendPDUMsg(t)
  PROVE  NoticeInv'
<1>1. UNCHANGED <<inds, box, fate>> /\ (Ends(t) \/ UNCHANGED call)
  BY DEF HdlrSendPDUMsg, module, history
<1>2. CASE UNCHANGED call
  BY <1>1, <1>2 DEF NoticeInv
<1> QED BY <1>1, <1>2, EndsNotice, Stays

LEMMA ExecutesNotice ==
  ASSUME IInv, NoticeInv, NEW t \in Task, CommandAnswered(t) \/ CommandTimesOut(t)
  PROVE  NoticeInv'
<1>1. inds' = inds /\ Ends(t)
  BY DEF CommandAnswered, CommandTimesOut
<1>2. Steady
  <2>1. CASE UNCHANGED <<box, fate>>
    BY <2>1, Stays
  <2>2. CASE /\ box' = [p \in Pos |-> IF p \in Deleted(call[t]) THEN NULL ELSE box[p]]
             /\ fate' = [m \in Msg |->
                  IF \E p \in Deleted(call[t]) : box[p].msg = m THEN "gone" ELSE fate[m]]
    BY <2>2 DEF Steady
  <2> QED BY <2>1, <2>2 DEF CommandAnswered, CommandTimesOut, ModuleExecutes
<1> QED BY <1>1, <1>2, EndsNotice

LEMMA ArrivesNotice ==
  ASSUME IInv, NoticeInv, NEW m \in Msg, Arrives(m)
  PROVE  NoticeInv'
<1> DEFINE S == [idx : Nat, msg : Msg]
<1>1. PICK i \in 1 .. Total(mem3) :
        /\ box[<<mem3, i>>] = NULL
        /\ box' = [box EXCEPT ![<<mem3, i>>] = [msg |-> m, read |-> FALSE]]
        /\ inds' = Append(inds, [idx |-> i, msg |-> m])
  BY DEF Arrives
<1>2. /\ fate[m] = "new" /\ fate' = [fate EXCEPT ![m] = mem3] /\ UNCHANGED call
      /\ fate \in [Msg -> Mem \cup {"new", "gone"}] /\ box \in [Pos -> Entry \cup {NULL}]
      /\ mem3 \in Mem /\ inds \in Seq(S) /\ call \in [Task -> CallRec]
  BY DEF Arrives, ril, IInv, Rest, Channel
<1>3. Steady
  <2> SUFFICES ASSUME NEW n \in Msg, fate[n] # "new"
               PROVE  /\ fate'[n] = fate[n]
                      /\ \A p \in Pos : box[p] # NULL => box'[p] = box[p]
    BY DEF Steady
  <2> QED BY <1>1, <1>2
<1>4. i \in Nat /\ <<mem3, i>> \in Pos
  BY <1>1, <1>2, TotalsAreNatural DEF Total, Pos
<1> DEFINE e == [idx |-> i, msg |-> m]
<1>5. Announced(box', fate', e)
  <2>1. fate'[m] = mem3 /\ mem3 # "new"
    BY <1>2 DEF Mem
  <2>2. box'[<<mem3, i>>] = [msg |-> m, read |-> FALSE]
    BY <1>1, <1>2, <1>4
  <2>3. [msg |-> m, read |-> FALSE] # NULL
    <3>1. [msg |-> m, read |-> FALSE] \in Entry
      BY DEF Entry
    <3> QED BY <3>1, NoEntryIsNull
  <2>4. [msg |-> m, read |-> FALSE].msg = m /\ e.idx = i /\ e.msg = m
    OBVIOUS
  <2> HIDE DEF e
  <2> QED BY <1>4, <2>1, <2>2, <2>3, <2>4 DEF Announced, Held
<1>6. \A k \in 1 .. Len(inds') : Announced(box', fate', inds'[k])
  <2>1. e \in S
    BY <1>4
  <2>2. /\ Len(inds') = Len(inds) + 1 /\ inds'[Len(inds) + 1] = e
        /\ \A k \in 1 .. Len(inds) : inds'[k] = inds[k]
    BY <1>1, <1>2, <2>1, AppendProperties
  <2>3. Len(inds) \in Nat
    BY <1>2, LenProperties
  <2>4. ASSUME NEW k \in 1 .. Len(inds) PROVE Announced(box', fate', inds[k])
    <3>1. inds[k] \in S
      BY <1>2, ElementOfSeq
    <3>2. inds[k].msg \in Msg
      BY <3>1
    <3> QED BY <1>3, <3>2, HeldKept DEF NoticeInv, Announced
  <2> HIDE DEF e
  <2> QED BY <1>5, <2>2, <2>3, <2>4
<1>7. \A u \in Task : Known(call'[u], box', fate')
  BY <1>2, <1>3, KnownKept DEF NoticeInv
<1> QED BY <1>6, <1>7 DEF NoticeInv

LEMMA StepNotice == IInv /\ NoticeInv /\ [Next]_vars => NoticeInv'
<1>1. ASSUME IInv, NoticeInv, NEW t \in Task,
             StorageFails(t) \/ SMS_SET_PDU_MODE(t) \/ ModeAnswered(t) \/ ModeFails(t)
      PROVE  NoticeInv'
  <2>1. /\ UNCHANGED <<inds, box, fate>>
        /\ \/ Ends(t)
           \/ call[t].pc \in {"setMode", "mode"} /\ \E pc \in {"mode", "ready"} : Goes(t, pc)
    BY <1>1 DEF StorageFails, SMS_SET_PDU_MODE, ModeAnswered, ModeFails, module, history
  <2> QED BY <1>1, <2>1, EndsNotice, GoesNotice, Stays
<1>2. ASSUME IInv, NoticeInv, Next PROVE NoticeInv'
  BY <1>1, <1>2, CallsNotice, StorageNotice, SendNotice, LinesNotice, SendLineNotice,
     ExecutesNotice, ArrivesNotice DEF Next
<1>3. ASSUME NoticeInv, UNCHANGED vars PROVE NoticeInv'
  BY <1>3 DEF NoticeInv, vars, ril, module, history
<1> QED BY <1>2, <1>3

(* Reading the index a notification announces returns its message, unless  *)
(* it is gone, was stored outside SM, or the read came after a cut one.    *)
THEOREM NotificationsLead == Spec => []NotifiedMessageIsRead
<1>1. Init => NoticeInv
  BY NoCallFacts, Unasked DEF Init, NoticeInv
<1>2. Spec => []NoticeInv
  BY <1>1, StepNotice, Invariance, PTL DEF Spec
<1>3. IInv /\ NoticeInv => NotifiedMessageIsRead
  <2>1. ASSUME IInv, NoticeInv, NEW t \in Task, call[t].pc = "success", call[t].want # NULL,
               fate[call[t].want] = "SM", ~call[t].misread
        PROVE  call[t].data = call[t].want
    BY <2>1 DEF IInv, Channel, CallInv, InOrder, NoticeInv, Known
  <2> QED BY <2>1 DEF NotifiedMessageIsRead
<1> QED BY <1>2, <1>3, Invariance, PTL
=============================================================================
