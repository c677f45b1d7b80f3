--------------------------- MODULE GattClientProofs ---------------------------
(***************************************************************************)
(* Proofs about GattClient, for any number of tasks, any positions and     *)
(* arrays of any size.                                                     *)
(*                                                                         *)
(* What is still to come of a response tells whether the command was       *)
(* carried out, until the line with the result was handled; from then on   *)
(* the cell tells it (Fits), unless another task's line has changed it.    *)
(***************************************************************************)
EXTENDS GattClient, SequenceTheorems, TLAPS

Position == [sid : Nat, cid : Nat, did : Nat]

(* A call has its fields, with these values in those the proofs use.       *)
IsCall(k) ==
  /\ DOMAIN k = {"pc", "fn", "handler", "returns", "reads", "position", "cell", "ret", "val", "executed", "mixed"}
  /\ k.position \in Position
  /\ k.executed \in BOOLEAN /\ k.mixed \in BOOLEAN

Writers == {"reg", "scan", "rn"}

(* Which handler goes with which way of returning.                         *)
KindOK(h, r) ==
  /\ h \in {"NULL", "leaddr", "gdt", "setadv"} \cup Writers
  /\ r = "ret" => h \in {"NULL", "leaddr"}
  /\ r = "result" => h \in {"NULL", "gdt"} \cup Writers
  /\ r = "local" => h = "setadv"
  /\ r = "zero" => h = "NULL"
  /\ r \in {"ret", "result", "local", "zero"}

Truthful(k, res) ==
  /\ k.handler \in Writers => k.mixed \/ (res = "0" <=> k.executed)
  /\ k.handler = "setadv" => (k.cell = "0" <=> k.executed)
  /\ k.handler = "NULL" => k.executed

Refusals == {<<ErrorLine>>, <<CmeError("5")>>}
WithResult(v) == <<Line("result", v), OkLine>>

(* The lines that call k waits for; of a handler without a verdict nothing is known. *)
Fits(k, lines, res) ==
  \/ lines \in Refusals /\ ~k.executed
  \/ k.handler = "leaddr"
  \/ k.handler = "gdt" /\ lines = <<Line("+QBTGATCGDT:", "type"), OkLine>> /\ k.executed
  \/ k.handler \in Writers \cup {"setadv"} /\ lines = WithResult("0") /\ k.executed
  \/ k.handler \in Writers \cup {"setadv"} /\ lines = WithResult("7") /\ ~k.executed
  \/ k.handler # "gdt" /\ lines = <<OkLine>> /\ Truthful(k, res)

(* What is known of a call that was answered.                              *)
Answered(k, res) ==
  /\ k.ret \in {"0", FAILED, "busy", "timeout"}
  /\ k.ret = "busy" => ~k.executed
  /\ k.ret = "0" => k.handler # "gdt" /\ Truthful(k, res)
  /\ k.ret = FAILED /\ k.handler \notin {"gdt", "leaddr"} => ~k.executed
  /\ k.ret = FAILED /\ k.handler \in {"reg", "scan", "gdt"} => k.mixed \/ res = FAILED
  /\ k.ret = FAILED /\ k.handler = "setadv" => k.cell # "0"

ExcusedCall(k) ==
  \/ k.returns = "zero"
  \/ k.returns # "ret" /\ k.ret \in {"busy", "timeout"}
  \/ k.ret = "timeout"
  \/ k.returns = "result" /\ k.mixed
  \/ k.returns = "result" /\ k.handler = "NULL"
  \/ k.handler = "rn" /\ k.ret = FAILED
  \/ k.handler = "gdt" /\ k.executed
  \/ k.handler = "leaddr" /\ k.ret \notin {"busy", "timeout"}

CallOK(k, lines, res) ==
  /\ k.pc \in {"sent", "answered"} => KindOK(k.handler, k.returns)
  /\ k.pc = "sent" => Fits(k, lines, res)
  /\ k.pc = "answered" => Answered(k, res)
  /\ k.pc = "returned" /\ ~ExcusedCall(k) => (k.val = "0" <=> k.executed)

(* A position that is inside for the function that uses it.                *)
Inside(f, p) ==
  /\ p.sid < SERVICE_NUM
  /\ p.cid < CHAR_NUM + (IF f = "RIL_BT_Gatcgc" THEN 1 ELSE 0)
  /\ p.did < DESC_NUM + (IF f = "RIL_BT_Gatcgd" THEN 1 ELSE 0)

IsSequence(s) == \E S : s \in Seq(S)

CallsInv == DOMAIN call = Tasks /\ \A c \in Tasks : IsCall(call[c])
SoundInv == \A c \in Tasks : CallOK(call[c], waiting.lines, result)

ResponsesInv ==
  /\ DOMAIN waiting = {"by", "lines"} /\ waiting.by \in Tasks \cup {NoTask}
  /\ IsSequence(urcs)

IInv == TypeOK /\ CallsInv /\ ResponsesInv /\ SoundInv /\ ReadsStayInside

-----------------------------------------------------------------------------
(* What a call of f at p is, with its name.                                *)
LEMMA Members ==
  ASSUME NEW f \in Names, NEW p \in Position
  PROVE  \/ f = "RIL_BT_Gatcgc" /\ Functions(p)[f] = RIL_BT_Gatcgc(p)
         \/ f = "RIL_BT_Gatcgd" /\ Functions(p)[f] = RIL_BT_Gatcgd(p)
         \/ /\ f \notin {"RIL_BT_Gatcgc", "RIL_BT_Gatcgd"}
            /\ Functions(p)[f] \in
              {RIL_BT_Gatcreg(p), RIL_BT_Gatcscan(p), RIL_BT_Gatccon(p), RIL_BT_Gatcss(p),
               RIL_BT_Gatcrc(p), RIL_BT_Gatcwc(p), RIL_BT_Gatcwd(p), RIL_BT_Gatcrd(p),
               RIL_BT_Gatcrn(p), RIL_BT_Gatcgdt(p), RIL_BT_Gatcl(p), RIL_BT_SetLeTxPwr(p),
               RIL_BT_QBTFMPsreg(p), RIL_BT_QBTPXPsreg(p), RIL_BT_QBTGatadv(p), RIL_BT_QGatSetadv(p),
               RIL_BT_QGatadvData(p), RIL_BT_QGatScanRsp(p), RIL_BT_Gatcpu(p), RIL_BT_QGatsdisc(p),
               RIL_BT_GetLeLocalAddr(p)}
<1>1. f \in
        {"RIL_BT_Gatcreg", "RIL_BT_Gatcscan", "RIL_BT_Gatccon", "RIL_BT_Gatcss", "RIL_BT_Gatcgc",
         "RIL_BT_Gatcgd", "RIL_BT_Gatcrc", "RIL_BT_Gatcwc", "RIL_BT_Gatcwd", "RIL_BT_Gatcrd",
         "RIL_BT_Gatcrn", "RIL_BT_Gatcgdt", "RIL_BT_Gatcl", "RIL_BT_SetLeTxPwr", "RIL_BT_QBTFMPsreg",
         "RIL_BT_QBTPXPsreg", "RIL_BT_QBTGatadv", "RIL_BT_QGatSetadv", "RIL_BT_QGatadvData",
         "RIL_BT_QGatScanRsp", "RIL_BT_Gatcpu", "RIL_BT_QGatsdisc", "RIL_BT_GetLeLocalAddr"}
  BY DEF Names, Functions
<1> QED
  BY <1>1 DEF Functions

(* The handler, the way of returning and the reads of a function.          *)
Is(F, h, r, reads) == F.handler = h /\ F.returns = r /\ F.reads = reads

(* A function that reads by its position only.                             *)
Plainly(F, p) ==
  /\ KindOK(F.handler, F.returns)
  /\ F.reads = Nowhere \/ F.reads = CharOf(p) \/ F.reads = DescOf(p)

(* The handlers and ways of returning of the functions, and what they read. *)
LEMMA Kinds ==
  ASSUME NEW f \in Names, NEW p \in Position
  PROVE  \/ f \notin {"RIL_BT_Gatcgc", "RIL_BT_Gatcgd"} /\ Plainly(Functions(p)[f], p)
         \/ /\ Functions(p)[f].handler = "NULL" /\ Functions(p)[f].returns = "result"
            /\ \/ f = "RIL_BT_Gatcgc" /\ Functions(p)[f].reads = BehindChar(p)
               \/ f = "RIL_BT_Gatcgd" /\ Functions(p)[f].reads = BehindDesc(p)
<1>1. /\ KindOK("reg", "result") /\ KindOK("scan", "result") /\ KindOK("rn", "result")
      /\ KindOK("gdt", "result") /\ KindOK("NULL", "result") /\ KindOK("NULL", "ret")
      /\ KindOK("NULL", "zero") /\ KindOK("setadv", "local") /\ KindOK("leaddr", "ret")
  BY DEF KindOK, Writers
<1>2. /\ Is(RIL_BT_Gatcreg(p), "reg", "result", Nowhere)
      /\ Is(RIL_BT_Gatcscan(p), "scan", "result", Nowhere)
      /\ Is(RIL_BT_Gatccon(p), "NULL", "ret", Nowhere)
      /\ Is(RIL_BT_Gatcss(p), "NULL", "ret", Nowhere)
      /\ Is(RIL_BT_Gatcgc(p), "NULL", "result", BehindChar(p))
      /\ Is(RIL_BT_Gatcgd(p), "NULL", "result", BehindDesc(p))
      /\ Is(RIL_BT_Gatcrc(p), "NULL", "ret", CharOf(p))
      /\ Is(RIL_BT_Gatcwc(p), "NULL", "ret", CharOf(p))
  BY DEF Is, Fn, RIL_BT_Gatcreg, RIL_BT_Gatcscan, RIL_BT_Gatccon, RIL_BT_Gatcss, RIL_BT_Gatcgc,
         RIL_BT_Gatcgd, RIL_BT_Gatcrc, RIL_BT_Gatcwc
<1>3. /\ Is(RIL_BT_Gatcwd(p), "NULL", "ret", DescOf(p))
      /\ Is(RIL_BT_Gatcrd(p), "NULL", "ret", DescOf(p))
      /\ Is(RIL_BT_Gatcrn(p), "rn", "result", CharOf(p))
      /\ Is(RIL_BT_Gatcgdt(p), "gdt", "result", Nowhere)
      /\ Is(RIL_BT_Gatcl(p), "NULL", "result", Nowhere)
      /\ Is(RIL_BT_SetLeTxPwr(p), "NULL", "zero", Nowhere)
      /\ Is(RIL_BT_QGatSetadv(p), "setadv", "local", Nowhere)
      /\ Is(RIL_BT_GetLeLocalAddr(p), "leaddr", "ret", Nowhere)
  BY DEF Is, Fn, RIL_BT_Gatcwd, RIL_BT_Gatcrd, RIL_BT_Gatcrn, RIL_BT_Gatcgdt, RIL_BT_Gatcl,
         RIL_BT_SetLeTxPwr, RIL_BT_QGatSetadv, RIL_BT_GetLeLocalAddr
<1>4. /\ Is(RIL_BT_QBTFMPsreg(p), "NULL", "ret", Nowhere)
      /\ Is(RIL_BT_QBTPXPsreg(p), "NULL", "ret", Nowhere)
      /\ Is(RIL_BT_QBTGatadv(p), "NULL", "ret", Nowhere)
      /\ Is(RIL_BT_QGatadvData(p), "NULL", "ret", Nowhere)
      /\ Is(RIL_BT_QGatScanRsp(p), "NULL", "ret", Nowhere)
      /\ Is(RIL_BT_Gatcpu(p), "NULL", "ret", Nowhere)
      /\ Is(RIL_BT_QGatsdisc(p), "NULL", "ret", Nowhere)
  BY DEF Is, Fn, RIL_BT_QBTFMPsreg, RIL_BT_QBTPXPsreg, RIL_BT_QBTGatadv, RIL_BT_QGatadvData,
         RIL_BT_QGatScanRsp, RIL_BT_Gatcpu, RIL_BT_QGatsdisc
<1>5. ASSUME NEW F, NEW h, NEW r, NEW reads, Is(F, h, r, reads), KindOK(h, r),
             reads = Nowhere \/ reads = CharOf(p) \/ reads = DescOf(p)
      PROVE  Plainly(F, p)
  BY <1>5 DEF Is, Plainly
<1>6. /\ Plainly(RIL_BT_Gatcreg(p), p) /\ Plainly(RIL_BT_Gatcscan(p), p) /\ Plainly(RIL_BT_Gatccon(p), p)
      /\ Plainly(RIL_BT_Gatcss(p), p) /\ Plainly(RIL_BT_Gatcrc(p), p) /\ Plainly(RIL_BT_Gatcwc(p), p)
      /\ Plainly(RIL_BT_Gatcwd(p), p)
  BY <1>1, <1>2, <1>3, <1>4, <1>5
<1>7. /\ Plainly(RIL_BT_Gatcrd(p), p) /\ Plainly(RIL_BT_Gatcrn(p), p) /\ Plainly(RIL_BT_Gatcgdt(p), p)
      /\ Plainly(RIL_BT_Gatcl(p), p) /\ Plainly(RIL_BT_SetLeTxPwr(p), p) /\ Plainly(RIL_BT_QGatSetadv(p), p)
      /\ Plainly(RIL_BT_GetLeLocalAddr(p), p)
  BY <1>1, <1>2, <1>3, <1>4, <1>5
<1>8. /\ Plainly(RIL_BT_QBTFMPsreg(p), p) /\ Plainly(RIL_BT_QBTPXPsreg(p), p) /\ Plainly(RIL_BT_QBTGatadv(p), p)
      /\ Plainly(RIL_BT_QGatadvData(p), p) /\ Plainly(RIL_BT_QGatScanRsp(p), p) /\ Plainly(RIL_BT_Gatcpu(p), p)
      /\ Plainly(RIL_BT_QGatsdisc(p), p)
  BY <1>1, <1>2, <1>3, <1>4, <1>5
<1> QED
  BY <1>2, <1>6, <1>7, <1>8, Members DEF Is

(* A position that is inside is read inside.                               *)
LEMMA InsideIsRead ==
  ASSUME NEW f \in Names, NEW p \in Position, Inside(f, p)
  PROVE  Functions(p)[f].reads \subseteq Elements /\ ReadBeforeCheck(f, p) \subseteq Elements
<1> USE SizesAreNumbers
<1>1. /\ p.sid \in 0 .. SERVICE_NUM - 1
      /\ f # "RIL_BT_Gatcgc" => p.cid \in 0 .. CHAR_NUM - 1
      /\ f # "RIL_BT_Gatcgd" => p.did \in 0 .. DESC_NUM - 1
      /\ p.cid # 0 /\ f = "RIL_BT_Gatcgc" => p.cid - 1 \in 0 .. CHAR_NUM - 1
      /\ p.did # 0 /\ f = "RIL_BT_Gatcgd" => p.did - 1 \in 0 .. DESC_NUM - 1
  BY DEF Inside, Position
<1>2. ServiceOf(p) \subseteq Elements
  BY <1>1 DEF ServiceOf, Elements
<1>3. f # "RIL_BT_Gatcgc" => CharOf(p) \subseteq Elements
  BY <1>1, <1>2 DEF CharOf, Elements
<1>4. f \notin {"RIL_BT_Gatcgc", "RIL_BT_Gatcgd"} => DescOf(p) \subseteq Elements
  BY <1>1, <1>3 DEF DescOf, Elements
<1>5. f = "RIL_BT_Gatcgc" => BehindChar(p) \subseteq Elements
  BY <1>1, <1>2 DEF BehindChar, Elements
<1>6. f = "RIL_BT_Gatcgd" => BehindDesc(p) \subseteq Elements
  BY <1>1, <1>3 DEF BehindDesc, Elements
<1>7. Nowhere \subseteq Elements /\ ReadBeforeCheck(f, p) \subseteq Elements
  BY <1>2 DEF Nowhere, ReadBeforeCheck
<1> QED
  BY Kinds, <1>3, <1>4, <1>5, <1>6, <1>7 DEF Plainly

-----------------------------------------------------------------------------
LEMMA InitOK ==
  ASSUME Init
  PROVE  IInv
<1> USE NoTaskIsNone DEF Init
<1>1. IsCall(NoCall)
  BY DEF NoCall, IsCall, Origin, Position
<1>2. CallsInv
  BY <1>1 DEF CallsInv
<1>3. \A c \in Tasks : call[c] = NoCall
  OBVIOUS
<1>4. TypeOK
  <2>1. \A c \in Tasks : call[c].pc = "idle" /\ call[c].fn = ""
    BY <1>3 DEF NoCall
  <2>2. waiting.by = NoTask /\ Len(urcs) = 0 /\ callback_bt = {}
    BY DEF Free
  <2>3. \A c \in Tasks : ~(call[c].pc = "sent") /\ ~(waiting.by = c)
    BY <2>1, <2>2
  <2>4. \A c \in Tasks : call[c].pc \in Pcs /\ call[c].fn \in MayCall[c] \cup {""}
    BY <2>1 DEF Pcs
  <2>5. callback_bt \subseteq {"server", "client"} /\ Len(urcs) <= MaxUrcs /\ waiting.by \notin Tasks
    BY <2>2, SizesAreNumbers
  <2> HIDE DEF Init
  <2> QED
    BY <2>3, <2>4, <2>5 DEF TypeOK
<1>5. ResponsesInv
  <2>1. IsSequence(<<>>)
    BY DEF IsSequence
  <2>2. DOMAIN Free = {"by", "lines"} /\ Free.by = NoTask
    BY DEF Free
  <2>4. IsSequence(urcs)
    BY <2>1
  <2>5. DOMAIN waiting = {"by", "lines"} /\ waiting.by = NoTask
    BY <2>2
  <2> HIDE DEF Init
  <2> QED
    BY <2>4, <2>5 DEF ResponsesInv
<1>6. SoundInv
  BY <1>3 DEF SoundInv, CallOK, NoCall
<1>7. ReadsStayInside
  BY <1>3 DEF ReadsStayInside, NoCall, Nowhere
<1> QED
  BY <1>2, <1>4, <1>5, <1>6, <1>7 DEF IInv

-----------------------------------------------------------------------------
(* The verdicts of the handlers on the lines of a response.                *)
LEMMA Verdict ==
  ASSUME NEW d
  PROVE  /\ \A h \in Writers : /\ \A v : Handler(h, Line("result", v), d) = Continue(v)
                               /\ Handler(h, OkLine, d) = Success(d)
         /\ \A h \in {"reg", "scan", "gdt"} : /\ Handler(h, ErrorLine, d) = Failed(FAILED)
                                             /\ Handler(h, CmeError("5"), d) = Failed(FAILED)
         /\ \A v : Handler("gdt", Line("+QBTGATCGDT:", v), d) = Failed(FAILED)
         /\ \A h \in {"rn", "NULL"} : /\ Handler(h, ErrorLine, d) = Failed(d)
                                     /\ Handler(h, CmeError("5"), d) = Failed(d)
                                     /\ Handler(h, OkLine, d) = Success(d)
         /\ \A v : Handler("setadv", Line("result", v), d) = Continue(v)
         /\ Handler("setadv", OkLine, d) = Success(d)
         /\ Handler("setadv", ErrorLine, d) = Failed(FAILED)
         /\ Handler("setadv", CmeError("5"), d) = Failed("5")
<1> USE DEF Handler, Line, OkLine, ErrorLine, CmeError
<1>1. \A line : /\ Handler("reg", line, d) = ATRsp_QBTGatcreg_Hdlr(line, d)
                /\ Handler("scan", line, d) = ATRsp_QBTGatcscan_Hdlr(line, d)
                /\ Handler("rn", line, d) = ATRsp_QBTGatcrn_Hdlr(line, d)
                /\ Handler("gdt", line, d) = ATRsp_QBTGatcgdt_Hdlr(line, d)
                /\ Handler("setadv", line, d) = ATRsp_QGatSetadv_Hdlr(line, d)
                /\ Handler("NULL", line, d) = Default_atRsp_callback(line, d)
  OBVIOUS
<1>2. \A h \in {"reg", "scan"} : /\ \A v : Handler(h, Line("result", v), d) = Continue(v)
                                /\ Handler(h, OkLine, d) = Success(d)
                                /\ Handler(h, ErrorLine, d) = Failed(FAILED)
                                /\ Handler(h, CmeError("5"), d) = Failed(FAILED)
  BY <1>1 DEF ATRsp_QBTGatcreg_Hdlr, ATRsp_QBTGatcscan_Hdlr, OkOr
<1>3. /\ Handler("gdt", ErrorLine, d) = Failed(FAILED) /\ Handler("gdt", CmeError("5"), d) = Failed(FAILED)
      /\ \A v : Handler("gdt", Line("+QBTGATCGDT:", v), d) = Failed(FAILED)
  BY <1>1 DEF ATRsp_QBTGatcgdt_Hdlr, OkOr
<1>4. /\ \A v : Handler("rn", Line("result", v), d) = Continue(v)
      /\ \A h \in {"rn", "NULL"} : /\ Handler(h, OkLine, d) = Success(d)
                                  /\ Handler(h, ErrorLine, d) = Failed(d)
                                  /\ Handler(h, CmeError("5"), d) = Failed(d)
  BY <1>1 DEF ATRsp_QBTGatcrn_Hdlr, Default_atRsp_callback, Final, FinalCms, EndsWith
<1>5. /\ \A v : Handler("setadv", Line("result", v), d) = Continue(v)
      /\ Handler("setadv", OkLine, d) = Success(d) /\ Handler("setadv", ErrorLine, d) = Failed(FAILED)
      /\ Handler("setadv", CmeError("5"), d) = Failed("5")
  BY <1>1 DEF ATRsp_QGatSetadv_Hdlr
<1> HIDE DEF Handler, Line, OkLine, ErrorLine, CmeError
<1> QED
  BY <1>2, <1>3, <1>4, <1>5 DEF Writers

(* What a line leaves of call k, whose handler returns out: the rest of    *)
(* the response fits, or the call is answered.                             *)
LEMMA Takes ==
  ASSUME NEW k, NEW k2, NEW lines, NEW res, NEW res2, NEW data, NEW out,
         KindOK(k.handler, k.returns), Fits(k, lines, res),
         data = (IF k.returns = "result" THEN res ELSE k.cell),
         out \in Outcomes(k.handler, Head(lines), data),
         k2.handler = k.handler, k2.executed = k.executed, k2.mixed = k.mixed,
         k2.cell = (IF k.returns = "result" THEN k.cell ELSE out.data),
         res2 = (IF k.returns = "result" THEN out.data ELSE res)
  PROVE  \/ /\ out.verdict = "continue" /\ Fits(k2, Tail(lines), res2)
            /\ Tail(lines) # <<>> \/ k2.handler = "leaddr"
         \/ /\ out.verdict \in {"success", "failed"}
            /\ k2.ret = Verdicts[out.verdict] => Answered(k2, res2)
<1> DEFINE Ends == /\ out.verdict \in {"success", "failed"}
                   /\ k2.ret = Verdicts[out.verdict] => Answered(k2, res2)
<1>1. /\ \A d : /\ Continue(d).verdict = "continue" /\ Continue(d).data = d
                /\ Success(d).verdict = "success" /\ Success(d).data = d
                /\ Failed(d).verdict = "failed" /\ Failed(d).data = d
      /\ Verdicts["success"] = "0" /\ Verdicts["failed"] = FAILED
  BY DEF Continue, Success, Failed, Verdicts
<1>2. /\ Head(<<ErrorLine>>) = ErrorLine /\ Head(<<CmeError("5")>>) = CmeError("5")
      /\ Head(<<OkLine>>) = OkLine
      /\ \A l : Head(<<l, OkLine>>) = l /\ Tail(<<l, OkLine>>) = <<OkLine>>
  OBVIOUS
<1>3. k.handler \in Writers \cup {"gdt"} => k.returns = "result"
  BY DEF KindOK, Writers
<1>4. k.handler = "setadv" => k.returns # "result"
  BY DEF KindOK, Writers
<1> DEFINE GoesOn == out.verdict = "continue" /\ Tail(lines) = <<OkLine>> /\ Fits(k2, <<OkLine>>, res2)
<1>0. <<OkLine>> # <<>>
  OBVIOUS
<1>h. k.handler # "leaddr" => out = Handler(k.handler, Head(lines), data)
  BY DEF Outcomes
<1>5. CASE k.handler # "leaddr" /\ lines \in Refusals /\ ~k.executed
  <2>1. Head(lines) = ErrorLine \/ Head(lines) = CmeError("5")
    BY <1>2, <1>5 DEF Refusals
  <2>2. CASE k.handler \in {"reg", "scan", "gdt"}
    <3>1. out = Failed(FAILED)
      BY <1>5, <1>h, <2>1, <2>2, Verdict
    <3>2. k2.ret = FAILED => Answered(k2, res2)
      BY <3>1, <1>1, <1>3, <1>5, <2>2 DEF Answered, FAILED, Writers
    <3> QED
      BY <3>1, <3>2, <1>1
  <2>3. CASE k.handler \in {"rn", "NULL"}
    <3>1. out = Failed(data)
      BY <1>5, <1>h, <2>1, <2>3, Verdict
    <3>2. k2.ret = FAILED => Answered(k2, res2)
      BY <1>5, <2>3 DEF Answered, FAILED
    <3> QED
      BY <3>1, <3>2, <1>1
  <2>4. CASE k.handler = "setadv"
    <3>1. out = Failed(FAILED) \/ out = Failed("5")
      BY <1>5, <1>h, <2>1, <2>4, Verdict
    <3>2. k2.ret = FAILED => Answered(k2, res2)
      BY <3>1, <1>1, <1>4, <1>5, <2>4 DEF Answered, FAILED
    <3> QED
      BY <3>1, <3>2, <1>1
  <2> QED
    BY <1>5, <2>2, <2>3, <2>4 DEF KindOK, Writers
<1>6. CASE k.handler = "leaddr"
  <2>1. out.verdict \in {"continue", "success", "failed"}
    BY <1>1, <1>6 DEF Outcomes, ATRsp_QBTLEADDR_Hdlr
  <2>2. Fits(k2, Tail(lines), res2)
    BY <1>6 DEF Fits
  <2>3. k2.ret \in {"0", FAILED} => Answered(k2, res2)
    BY <1>6 DEF Answered, Truthful, FAILED, Writers
  <2> QED
    BY <2>1, <2>2, <2>3, <1>1, <1>6
<1>7. CASE k.handler = "gdt" /\ lines = <<Line("+QBTGATCGDT:", "type"), OkLine>> /\ k.executed
  <2>1. out = Failed(FAILED)
    BY <1>2, <1>7, <1>h, Verdict
  <2>2. k2.ret = FAILED => Answered(k2, res2)
    BY <2>1, <1>1, <1>3, <1>7 DEF Answered, FAILED
  <2> QED
    BY <2>1, <2>2, <1>1
<1>8. ASSUME NEW v, k.handler \in Writers \cup {"setadv"}, lines = WithResult(v), (v = "0") <=> k.executed
      PROVE  GoesOn
  <2>1. out = Continue(v) /\ Tail(lines) = <<OkLine>>
    BY <1>2, <1>8, <1>h, Verdict DEF WithResult, Writers
  <2>2. (k.handler \in Writers => res2 = v) /\ (k.handler = "setadv" => k2.cell = v)
    BY <2>1, <1>1, <1>3, <1>4
  <2>3. Truthful(k2, res2)
    BY <2>2, <1>8 DEF Truthful, Writers
  <2> QED
    BY <2>1, <2>3, <1>1, <1>8 DEF Fits, Writers
<1>9. CASE k.handler \notin {"gdt", "leaddr"} /\ lines = <<OkLine>> /\ Truthful(k, res)
  <2>1. out = Success(data)
    BY <1>2, <1>9, <1>h, Verdict DEF KindOK
  <2>2. Truthful(k2, res2)
    BY <2>1, <1>1, <1>3, <1>4, <1>9 DEF Truthful
  <2>3. k2.ret = "0" => Answered(k2, res2)
    BY <2>2, <1>9 DEF Answered, FAILED
  <2> QED
    BY <2>1, <2>3, <1>1
<1> QED
  BY <1>0, <1>5, <1>6, <1>7, <1>8, <1>9 DEF Fits

(* The record of a call that begins.                                       *)
LEMMA Begins ==
  ASSUME NEW f, NEW p, NEW pc, NEW reads, NEW k, f \in Names, p \in Position, k = Begun(f, p, pc, reads)
  PROVE  /\ IsCall(k) /\ k.pc = pc /\ k.fn = f /\ k.position = p /\ k.reads = reads
         /\ k.handler = Functions(p)[f].handler /\ k.returns = Functions(p)[f].returns
         /\ k.executed = FALSE /\ k.mixed = FALSE /\ k.ret = ""
  BY DEF Begun, IsCall, NoCall, Origin, Position

-----------------------------------------------------------------------------
(* The parts of the invariant that are about one call.                     *)
Part(c, k, by, lines, res) ==
  /\ IsCall(k)
  /\ k.pc \in Pcs /\ k.fn \in MayCall[c] \cup {""}
  /\ k.pc = "sent" <=> by = c
  /\ by = c => lines # <<>> \/ k.handler = "leaddr"
  /\ CallOK(k, lines, res)
  /\ Inside(k.fn, k.position) => k.reads \subseteq Elements

Rest ==
  /\ callback_bt \subseteq {"server", "client"}
  /\ Len(urcs) <= MaxUrcs
  /\ ResponsesInv

LEMMA Parts ==
  IInv <=> /\ DOMAIN call = Tasks /\ Rest
           /\ \A c \in Tasks : Part(c, call[c], waiting.by, waiting.lines, result)
<1>1. ReadsStayInside <=> \A c \in Tasks : Inside(call[c].fn, call[c].position) => call[c].reads \subseteq Elements
  BY DEF ReadsStayInside, Inside
<1> QED
  BY <1>1 DEF IInv, TypeOK, CallsInv, SoundInv, Rest, Part

(* The same of the next state.                                              *)
LEMMA PartsNext ==
  ASSUME DOMAIN call' = Tasks, Rest',
         \A c \in Tasks : Part(c, call'[c], waiting'.by, waiting'.lines, result')
  PROVE  IInv'
  BY DEF IInv, TypeOK, CallsInv, SoundInv, Rest, Part, ReadsStayInside, Inside

(* A call that does not wait fits any response.                            *)
LEMMA Unwaiting ==
  ASSUME NEW c, NEW k, NEW by, NEW lines, NEW lines2, NEW res,
         CallOK(k, lines, res), k.pc # "sent"
  PROVE  CallOK(k, lines2, res)
  BY DEF CallOK

(* Only the call of c changes, and only c can be waiting.                  *)
LEMMA OneCall ==
  ASSUME IInv, NEW c, NEW k, c \in Tasks, call' = [call EXCEPT ![c] = k],
         Part(c, k, waiting'.by, waiting'.lines, result'), result' = result, Rest',
         waiting' = waiting \/ \A u \in Tasks \ {c} : waiting.by # u /\ waiting'.by # u
  PROVE  IInv'
<1>1. DOMAIN call = Tasks /\ \A u \in Tasks : Part(u, call[u], waiting.by, waiting.lines, result)
  BY Parts
<1>2. \A u \in Tasks \ {c} : /\ call'[u] = call[u]
                             /\ (call[u].pc = "sent") <=> (waiting'.by = u)
                             /\ waiting' = waiting \/ call[u].pc # "sent"
  BY <1>1, ZenonT(60) DEF Part
<1>3. \A u \in Tasks \ {c} : CallOK(call[u], waiting'.lines, result')
  BY <1>1, <1>2, Unwaiting DEF Part
<1>4. \A u \in Tasks \ {c} : Part(u, call'[u], waiting'.by, waiting'.lines, result')
  <2> TAKE u \in Tasks \ {c}
  <2>1. waiting'.by = u => waiting'.lines # <<>> \/ call[u].handler = "leaddr"
    BY <1>1 DEF Part
  <2>2. Part(u, call[u], waiting.by, waiting.lines, result)
    BY <1>1
  <2> QED
    BY <1>2, <1>3, <2>1, <2>2 DEF Part
<1>5. call'[c] = k /\ DOMAIN call' = Tasks
  BY <1>1
<1>6. \A u \in Tasks : Part(u, call'[u], waiting'.by, waiting'.lines, result')
  BY <1>4, <1>5
<1> QED
  BY <1>5, <1>6, PartsNext

-----------------------------------------------------------------------------
LEMMA Arguments ==
  ASSUME NEW c \in Tasks, NEW f \in MayCall[c], NEW p \in Positions
  PROVE  f \in Names /\ p \in Position
  BY MayCallNames, PositionsAreNumbers DEF Position

LEMMA KindOfFunction ==
  ASSUME NEW f \in Names, NEW p \in Position
  PROVE  KindOK(Functions(p)[f].handler, Functions(p)[f].returns)
<1>1. KindOK("NULL", "result")
  BY DEF KindOK
<1> QED
  BY <1>1, Kinds DEF Plainly

(* A call whose record has the reads of its function or those before its check. *)
LEMMA PartOfBegun ==
  ASSUME NEW c, NEW f, NEW p, NEW k, NEW by, NEW lines, NEW res,
         c \in Tasks, f \in MayCall[c], p \in Positions, IsCall(k), k.pc \in Pcs, k.fn = f, k.position = p, (k.pc = "sent") <=> (by = c),
         k.reads = Functions(p)[f].reads \/ k.reads = ReadBeforeCheck(f, p), CallOK(k, lines, res),
         by = c => lines # <<>>
  PROVE  Part(c, k, by, lines, res)
<1>1. f \in Names /\ p \in Position
  BY Arguments
<1>2. Inside(f, p) => k.reads \subseteq Elements
  BY <1>1, InsideIsRead
<1> QED
  BY <1>2 DEF Part

(* A rejected call returns at once.                                        *)
LEMMA RejectOK ==
  ASSUME IInv, NEW c \in Tasks, NEW f \in MayCall[c], NEW p \in Positions,
         call[c].pc = "idle", Reject(c, f, p)
  PROVE  IInv'
<1> DEFINE b == Begun(f, p, "returned", ReadBeforeCheck(f, p))
           k == [b EXCEPT !.returns = "ret", !.val = "invalid"]
<1>1. f \in Names /\ p \in Position
  BY Arguments
<1>2. /\ IsCall(b) /\ b.pc = "returned" /\ b.fn = f /\ b.position = p /\ b.reads = ReadBeforeCheck(f, p)
      /\ b.executed = FALSE
  BY <1>1 DEF Begun, IsCall, NoCall, Origin, Position
<1> HIDE DEF b
<1>3. /\ IsCall(k) /\ k.pc = "returned" /\ k.fn = f /\ k.position = p /\ k.reads = ReadBeforeCheck(f, p)
      /\ k.val = "invalid" /\ k.executed = FALSE
  BY <1>2 DEF IsCall
<1>4. call' = [call EXCEPT ![c] = k] /\ UNCHANGED <<result, callback_bt, waiting, urcs>>
  BY DEF Reject, b
<1> HIDE DEF k
<1>5. waiting.by # c /\ Rest /\ DOMAIN call = Tasks
  BY Parts DEF Part
<1>6. CallOK(k, waiting'.lines, result')
  BY <1>3 DEF CallOK
<1>7. Part(c, k, waiting'.by, waiting'.lines, result')
  BY <1>3, <1>4, <1>5, <1>6, PartOfBegun DEF Pcs
<1>8. Rest'
  BY <1>4, <1>5 DEF Rest, ResponsesInv
<1>9. \A u \in Tasks : Part(u, call[u], waiting.by, waiting.lines, result)
  BY Parts
<1> QED
  BY <1>3, <1>4, <1>5, <1>7, <1>8, <1>9, OneCall

-----------------------------------------------------------------------------
LEMMA SequenceFacts ==
  ASSUME NEW s, IsSequence(s)
  PROVE  /\ Len(s) \in Nat
         /\ \A x : IsSequence(Append(s, x)) /\ Len(Append(s, x)) = Len(s) + 1
         /\ s # <<>> => IsSequence(Tail(s)) /\ Len(Tail(s)) = Len(s) - 1 /\ Len(s) > 0
<1>1. PICK S : s \in Seq(S)
  BY DEF IsSequence
<1>2. ASSUME NEW x
      PROVE  IsSequence(Append(s, x)) /\ Len(Append(s, x)) = Len(s) + 1
  <2>1. s \in Seq(S \cup {x}) /\ x \in S \cup {x}
    BY <1>1
  <2>2. Append(s, x) \in Seq(S \cup {x}) /\ Len(Append(s, x)) = Len(s) + 1
    BY <2>1, AppendProperties
  <2> QED
    BY <2>2 DEF IsSequence
<1>3. s # <<>> => Tail(s) \in Seq(S) /\ Len(Tail(s)) = Len(s) - 1 /\ Len(s) > 0
  BY <1>1
<1> QED
  BY <1>1, <1>2, <1>3 DEF IsSequence

(* The channel is taken: the call is answered at once.                     *)
LEMMA BusyOK ==
  ASSUME IInv, NEW c \in Tasks, NEW f \in MayCall[c], NEW p \in Positions,
         call[c].pc = "idle", Busy(c, f, p)
  PROVE  IInv'
<1> DEFINE b == Begun(f, p, "answered", Functions(p)[f].reads)
           k == [b EXCEPT !.ret = "busy"]
<1>1. f \in Names /\ p \in Position
  BY Arguments
<1>2. /\ IsCall(b) /\ b.pc = "answered" /\ b.fn = f /\ b.position = p /\ b.reads = Functions(p)[f].reads
      /\ b.handler = Functions(p)[f].handler /\ b.returns = Functions(p)[f].returns
      /\ b.executed = FALSE
  BY <1>1 DEF Begun, IsCall, NoCall, Origin, Position
<1> HIDE DEF b
<1>3. /\ IsCall(k) /\ k.pc = "answered" /\ k.fn = f /\ k.position = p /\ k.reads = Functions(p)[f].reads
      /\ k.handler = Functions(p)[f].handler /\ k.returns = Functions(p)[f].returns
      /\ k.ret = "busy" /\ k.executed = FALSE
  BY <1>2 DEF IsCall
<1>4. call' = [call EXCEPT ![c] = k] /\ UNCHANGED <<result, callback_bt, waiting, urcs>>
  BY DEF Busy, b
<1> HIDE DEF k
<1>5. waiting.by # c /\ Rest /\ DOMAIN call = Tasks
  BY Parts DEF Part
<1>6. CallOK(k, waiting'.lines, result')
  BY <1>1, <1>3, KindOfFunction DEF CallOK, Answered, FAILED
<1>7. Part(c, k, waiting'.by, waiting'.lines, result')
  BY <1>3, <1>4, <1>5, <1>6, PartOfBegun DEF Pcs
<1>8. Rest'
  BY <1>4, <1>5 DEF Rest, ResponsesInv
<1>9. \A u \in Tasks : Part(u, call[u], waiting.by, waiting.lines, result)
  BY Parts
<1> QED
  BY <1>3, <1>4, <1>5, <1>7, <1>8, <1>9, OneCall

(* The ways the module answers.                                            *)
LEMMA AnswerCases ==
  ASSUME NEW h, NEW r, NEW a, KindOK(h, r), a \in Answers(h)
  PROVE  /\ a.lines # <<>> /\ a.done \in BOOLEAN
         /\ \/ a.lines \in Refusals /\ ~a.done
            \/ h \in Writers \cup {"setadv"} /\ a.lines = WithResult("0") /\ a.done
            \/ h \in Writers \cup {"setadv"} /\ a.lines = WithResult("7") /\ ~a.done
            \/ h = "leaddr" /\ a.lines = WithResult("address") /\ a.done
            \/ h = "gdt" /\ a.lines = <<Line("+QBTGATCGDT:", "type"), OkLine>> /\ a.done
            \/ h = "NULL" /\ a.lines = <<OkLine>> /\ a.done
<1> USE DEF Response
<1>1. \A l, m : <<l>> # <<>> /\ <<l, m>> # <<>>
  OBVIOUS
<1>2. ASSUME NEW l, a = Response(<<l>>, FALSE), l = ErrorLine \/ l = CmeError("5")
      PROVE  a.lines # <<>> /\ a.lines \in Refusals /\ a.done = FALSE
  BY <1>1, <1>2 DEF Refusals
<1>3. ASSUME NEW v, NEW d, a = Response(<<Line("result", v), OkLine>>, d)
      PROVE  a.lines # <<>> /\ a.lines = WithResult(v) /\ a.done = d
  BY <1>1, <1>3 DEF WithResult
<1>4. CASE h = "leaddr" /\ a = Response(<<Line("result", "address"), OkLine>>, TRUE)
  BY <1>1, <1>4 DEF WithResult
<1>5. CASE h = "gdt" /\ a = Response(<<Line("+QBTGATCGDT:", "type"), OkLine>>, TRUE)
  BY <1>1, <1>5
<1>6. CASE h = "NULL" /\ a = Response(<<OkLine>>, TRUE)
  BY <1>1, <1>6
<1> HIDE DEF Response
<1> QED
  BY <1>2, <1>3, <1>4, <1>5, <1>6 DEF Answers, KindOK, Writers

(* Each of them fits the call that is answered.                            *)
LEMMA AnswersFit ==
  ASSUME NEW h, NEW r, NEW a, NEW k, NEW res, KindOK(h, r), a \in Answers(h), k.handler = h, k.executed = a.done
  PROVE  Fits(k, a.lines, res)
  BY AnswerCases DEF Fits, Truthful, Writers

LEMMA SendOK ==
  ASSUME IInv, NEW c \in Tasks, NEW f \in MayCall[c], NEW p \in Positions,
         call[c].pc = "idle", Len(urcs) < MaxUrcs, Send(c, f, p)
  PROVE  IInv'
<1> DEFINE b == Begun(f, p, "sent", Functions(p)[f].reads)
<1>1. f \in Names /\ p \in Position
  BY Arguments
<1>2. /\ IsCall(b) /\ b.pc = "sent" /\ b.fn = f /\ b.position = p /\ b.reads = Functions(p)[f].reads
      /\ b.handler = Functions(p)[f].handler /\ b.returns = Functions(p)[f].returns
  BY <1>1 DEF Begun, IsCall, NoCall, Origin, Position
<1>3. PICK a \in Answers(Functions(p)[f].handler) :
        /\ waiting' = [by |-> c, lines |-> a.lines]
        /\ call' = [call EXCEPT ![c] = [b EXCEPT !.executed = a.done]]
        /\ urcs' = urcs \/ urcs' = Append(urcs, Functions(p)[f].leadsTo)
  BY DEF Send
<1> HIDE DEF b
<1> DEFINE k == [b EXCEPT !.executed = a.done]
<1>4. UNCHANGED <<result, callback_bt>> /\ waiting.by = NoTask
  BY DEF Send, Free
<1>5. KindOK(Functions(p)[f].handler, Functions(p)[f].returns)
  BY <1>1, KindOfFunction
<1>6. a.done \in BOOLEAN /\ a.lines # <<>>
  BY <1>5, AnswerCases
<1>7. /\ IsCall(k) /\ k.pc = "sent" /\ k.fn = f /\ k.position = p /\ k.reads = Functions(p)[f].reads
      /\ k.handler = Functions(p)[f].handler /\ k.returns = Functions(p)[f].returns
      /\ k.executed = a.done
  BY <1>2, <1>6 DEF IsCall
<1>8. call' = [call EXCEPT ![c] = k]
  BY <1>3
<1> HIDE DEF k
<1>9. CallOK(k, a.lines, result')
  BY <1>5, <1>7, AnswersFit DEF CallOK
<1>10. waiting'.by = c /\ waiting'.lines = a.lines /\ DOMAIN waiting' = {"by", "lines"}
  BY <1>3
<1>11. Part(c, k, waiting'.by, waiting'.lines, result')
  BY <1>6, <1>7, <1>9, <1>10, PartOfBegun DEF Pcs
<1>12. Rest
  BY Parts
<1>13. Rest'
  <2>0. IsSequence(urcs)
    BY <1>12 DEF Rest, ResponsesInv
  <2>1. /\ IsSequence(urcs) /\ Len(urcs) \in Nat
        /\ \A x : IsSequence(Append(urcs, x)) /\ Len(Append(urcs, x)) = Len(urcs) + 1
    BY <2>0, SequenceFacts
  <2>2. PICK x : urcs' = urcs \/ urcs' = Append(urcs, x)
    BY <1>3
  <2>3. IsSequence(urcs') /\ Len(urcs') <= MaxUrcs
    <3>1. IsSequence(urcs') /\ (Len(urcs') = Len(urcs) \/ Len(urcs') = Len(urcs) + 1)
      BY <2>1, <2>2, Zenon
    <3> QED
      BY <2>1, <3>1, SizesAreNumbers
  <2> QED
    BY <2>3, <1>4, <1>6, <1>10, <1>12 DEF Rest, ResponsesInv
<1>14. \A u \in Tasks \ {c} : waiting.by # u /\ waiting'.by # u
  BY <1>4, <1>10, NoTaskIsNone
<1> QED
  BY <1>4, <1>8, <1>11, <1>13, <1>14, OneCall

LEMMA TimeoutOK ==
  ASSUME IInv, NEW c \in Tasks, Timeout(c)
  PROVE  IInv'
<1> DEFINE k == [call[c] EXCEPT !.pc = "answered", !.ret = "timeout"]
<1>1. /\ call' = [call EXCEPT ![c] = k] /\ waiting' = Free
      /\ UNCHANGED <<result, callback_bt, urcs>> /\ waiting.by = c
  BY DEF Timeout
<1>2. Part(c, call[c], waiting.by, waiting.lines, result) /\ Rest /\ DOMAIN call = Tasks
  BY Parts
<1>3. /\ IsCall(k) /\ k.pc = "answered" /\ k.ret = "timeout" /\ k.fn = call[c].fn
      /\ k.handler = call[c].handler /\ k.returns = call[c].returns /\ k.reads = call[c].reads
      /\ k.position = call[c].position
  BY <1>2 DEF Part, IsCall
<1> HIDE DEF k
<1>4. KindOK(k.handler, k.returns)
  BY <1>1, <1>2, <1>3 DEF Part, CallOK
<1>5. CallOK(k, waiting'.lines, result')
  BY <1>3, <1>4 DEF CallOK, Answered, FAILED
<1>6. waiting'.by = NoTask /\ DOMAIN waiting' = {"by", "lines"}
  BY <1>1 DEF Free
<1>7. Part(c, k, waiting'.by, waiting'.lines, result')
  BY <1>2, <1>3, <1>5, <1>6, NoTaskIsNone DEF Part, Pcs
<1>8. Rest'
  BY <1>1, <1>2, <1>6, NoTaskIsNone DEF Rest, ResponsesInv
<1>9. \A u \in Tasks \ {c} : waiting.by # u /\ waiting'.by # u
  BY <1>1, <1>6, NoTaskIsNone
<1> QED
  BY <1>1, <1>7, <1>8, <1>9, OneCall

-----------------------------------------------------------------------------
(* Another task's line: what is known of call k stays true of k2, the same *)
(* call that knows of the line if the line changed the result.             *)
LEMMA OthersLine ==
  ASSUME NEW k, NEW k2, NEW shared, NEW lines, NEW lines2, NEW res, NEW res2,
         IsCall(k), CallOK(k, lines, res), k.pc # "sent",
         k2 = [k EXCEPT !.mixed = k.mixed \/ (shared /\ k.pc # "idle")],
         ~shared => res2 = res
  PROVE  /\ IsCall(k2) /\ CallOK(k2, lines2, res2)
         /\ k2.pc = k.pc /\ k2.fn = k.fn /\ k2.reads = k.reads /\ k2.position = k.position
<1>1. /\ IsCall(k2) /\ k2.pc = k.pc /\ k2.fn = k.fn /\ k2.reads = k.reads /\ k2.position = k.position
      /\ k2.handler = k.handler /\ k2.returns = k.returns /\ k2.cell = k.cell /\ k2.ret = k.ret
      /\ k2.val = k.val /\ k2.executed = k.executed
      /\ k2.mixed <=> k.mixed \/ (shared /\ k.pc # "idle")
  BY DEF IsCall
<1>2. CASE k.pc = "idle"
  BY <1>1, <1>2 DEF CallOK
<1>3. CASE k.pc = "answered"
  <2>1. Answered(k, res) /\ KindOK(k2.handler, k2.returns)
    BY <1>1, <1>3 DEF CallOK
  <2>2. Answered(k2, res2)
    BY <1>1, <1>3, <2>1 DEF Answered, Truthful, Writers
  <2> QED
    BY <1>1, <1>3, <2>1, <2>2 DEF CallOK
<1>4. CASE k.pc \notin {"idle", "answered"}
  BY <1>1, <1>4 DEF CallOK, ExcusedCall
<1> QED
  BY <1>1, <1>2, <1>3, <1>4

LEMMA TakeLineOK ==
  ASSUME IInv, NEW c \in Tasks, TakeLine(c)
  PROVE  IInv'
<1> DEFINE shared == call[c].returns = "result"
           data == CellOf(c)
           other(u) == [call[u] EXCEPT !.mixed = call[u].mixed \/ (shared /\ call[u].pc # "idle")]
           mine(out) == [call[c] EXCEPT !.pc = IF out.verdict # "continue" THEN "answered" ELSE @,
                                        !.ret = IF out.verdict # "continue" THEN Verdicts[out.verdict] ELSE @,
                                        !.cell = IF shared THEN @ ELSE out.data]
<1>0. PICK out \in Outcomes(call[c].handler, Head(waiting.lines), data) :
        /\ result' = IF shared THEN out.data ELSE result
        /\ call' = [u \in Tasks |-> IF u = c THEN mine(out) ELSE other(u)]
        /\ waiting' = IF out.verdict # "continue" THEN Free ELSE [waiting EXCEPT !.lines = Tail(@)]
  BY DEF TakeLine
<1> DEFINE ends == out.verdict # "continue"
           k == mine(out)
<1>1. /\ waiting.by = c
      /\ result' = IF shared THEN out.data ELSE result
      /\ call' = [u \in Tasks |-> IF u = c THEN k ELSE other(u)]
      /\ waiting' = IF ends THEN Free ELSE [waiting EXCEPT !.lines = Tail(@)]
      /\ UNCHANGED <<callback_bt, urcs>>
  BY <1>0 DEF TakeLine
<1>2. /\ Rest /\ DOMAIN call = Tasks
      /\ \A u \in Tasks : Part(u, call[u], waiting.by, waiting.lines, result)
  BY Parts
<1>3. /\ IsCall(call[c]) /\ call[c].pc = "sent" /\ call[c].fn \in MayCall[c] \cup {""}
      /\ KindOK(call[c].handler, call[c].returns) /\ Fits(call[c], waiting.lines, result)
      /\ Inside(call[c].fn, call[c].position) => call[c].reads \subseteq Elements
  BY <1>1, <1>2 DEF Part, CallOK
<1>4. data = IF call[c].returns = "result" THEN result ELSE call[c].cell
  BY DEF CellOf
<1> HIDE DEF data
<1>5. /\ IsCall(k) /\ k.fn = call[c].fn /\ k.reads = call[c].reads /\ k.position = call[c].position
      /\ k.handler = call[c].handler /\ k.returns = call[c].returns
      /\ k.executed = call[c].executed /\ k.mixed = call[c].mixed
      /\ k.cell = IF call[c].returns = "result" THEN call[c].cell ELSE out.data
      /\ k.pc = IF ends THEN "answered" ELSE "sent"
      /\ ends => k.ret = Verdicts[out.verdict]
  BY <1>3 DEF IsCall
<1>6. out \in Outcomes(call[c].handler, Head(waiting.lines), data)
  BY <1>0
<1> HIDE DEF k, mine
<1>7. \/ /\ out.verdict = "continue" /\ Fits(k, Tail(waiting.lines), result')
         /\ Tail(waiting.lines) # <<>> \/ k.handler = "leaddr"
      \/ /\ out.verdict \in {"success", "failed"}
         /\ k.ret = Verdicts[out.verdict] => Answered(k, result')
  <2>1. result' = IF call[c].returns = "result" THEN out.data ELSE result
    BY <1>1
  <2>2. KindOK(call[c].handler, call[c].returns) /\ Fits(call[c], waiting.lines, result)
    BY <1>3
  <2>3. /\ k.handler = call[c].handler /\ k.executed = call[c].executed /\ k.mixed = call[c].mixed
        /\ k.cell = IF call[c].returns = "result" THEN call[c].cell ELSE out.data
    BY <1>5
  <2> QED
    BY <2>1, <2>2, <2>3, <1>4, <1>6, Takes
<1>8. \A u \in Tasks \ {c} :
        Part(u, call'[u], waiting'.by, waiting'.lines, result') \/ waiting'.by \notin {c, NoTask}
  <2> SUFFICES ASSUME NEW u \in Tasks \ {c}, waiting'.by \in {c, NoTask}
               PROVE  Part(u, call'[u], waiting'.by, waiting'.lines, result')
    OBVIOUS
  <2>1. call[u].pc # "sent" /\ waiting'.by # u /\ Part(u, call[u], waiting.by, waiting.lines, result)
    BY <1>1, <1>2, NoTaskIsNone DEF Part
  <2>2. call'[u] = other(u) /\ (~shared => result' = result)
    BY <1>1
  <2>3. IsCall(call[u]) /\ CallOK(call[u], waiting.lines, result)
    BY <2>1 DEF Part
  <2>4. /\ IsCall(call'[u]) /\ CallOK(call'[u], waiting'.lines, result')
        /\ call'[u].pc = call[u].pc /\ call'[u].fn = call[u].fn
        /\ call'[u].reads = call[u].reads /\ call'[u].position = call[u].position
    BY <2>1, <2>2, <2>3, OthersLine
  <2> QED
    BY <2>1, <2>4 DEF Part
<1>9. DOMAIN call' = Tasks /\ call'[c] = k
  BY <1>1
<1>10. /\ waiting'.by = (IF ends THEN NoTask ELSE c) /\ DOMAIN waiting' = {"by", "lines"}
       /\ ~ends => waiting'.lines = Tail(waiting.lines)
  BY <1>1, <1>2 DEF Free, Rest, ResponsesInv
<1>11. Part(c, k, waiting'.by, waiting'.lines, result')
  <2>1. CASE ends
    <3>1. CallOK(k, waiting'.lines, result')
      BY <1>3, <1>5, <1>7, <2>1 DEF CallOK
    <3> QED
      BY <1>3, <1>5, <1>10, <2>1, <3>1, NoTaskIsNone DEF Part, Pcs
  <2>2. CASE ~ends
    <3>1. CallOK(k, waiting'.lines, result')
      BY <1>3, <1>5, <1>7, <1>10, <2>2 DEF CallOK
    <3> QED
      BY <1>3, <1>5, <1>7, <1>10, <2>2, <3>1 DEF Part, Pcs
  <2> QED
    BY <2>1, <2>2
<1>12. Rest'
  BY <1>1, <1>2, <1>10 DEF Rest, ResponsesInv
<1>13. /\ DOMAIN call' = Tasks /\ Rest'
       /\ \A u \in Tasks : Part(u, call'[u], waiting'.by, waiting'.lines, result')
  BY <1>8, <1>9, <1>10, <1>11, <1>12
<1> QED
  BY <1>13, PartsNext

-----------------------------------------------------------------------------
(* What an answered call returns.                                          *)
LEMMA ReturnsTruth ==
  ASSUME NEW k, NEW res, NEW val, KindOK(k.handler, k.returns), Answered(k, res), ~ExcusedCall(k),
         k.returns = "ret" => val = k.ret, k.returns = "result" => val = res, k.returns = "local" => val = k.cell
  PROVE  val = "0" <=> k.executed
<1>1. CASE k.returns = "ret"
  BY <1>1 DEF KindOK, Answered, ExcusedCall, Truthful, FAILED, Writers
<1>2. CASE k.returns = "result"
  BY <1>2 DEF KindOK, Answered, ExcusedCall, Truthful, FAILED, Writers
<1>3. CASE k.returns = "local"
  BY <1>3 DEF KindOK, Answered, ExcusedCall, Truthful, FAILED, Writers
<1> QED
  BY <1>1, <1>2, <1>3 DEF KindOK, ExcusedCall

LEMMA FinishOK ==
  ASSUME IInv, NEW c \in Tasks, Finish(c)
  PROVE  IInv'
<1> DEFINE k == [call[c] EXCEPT !.pc = "returned", !.val = Value(c)]
<1>1. /\ call[c].pc = "answered" /\ call' = [call EXCEPT ![c] = k]
      /\ UNCHANGED <<result, callback_bt, waiting, urcs>>
  BY DEF Finish
<1>2. Part(c, call[c], waiting.by, waiting.lines, result) /\ Rest /\ DOMAIN call = Tasks
  BY Parts
<1>3. /\ IsCall(k) /\ k.pc = "returned" /\ k.val = Value(c) /\ k.ret = call[c].ret /\ k.fn = call[c].fn
      /\ k.handler = call[c].handler /\ k.returns = call[c].returns /\ k.reads = call[c].reads
      /\ k.position = call[c].position /\ k.executed = call[c].executed /\ k.mixed = call[c].mixed
  BY <1>2 DEF Part, IsCall
<1> HIDE DEF k
<1>4. /\ call[c].returns = "ret" => Value(c) = call[c].ret
      /\ call[c].returns = "result" => Value(c) = result
      /\ call[c].returns = "local" => Value(c) = call[c].cell
  BY DEF Value
<1>5. KindOK(call[c].handler, call[c].returns) /\ Answered(call[c], result)
  BY <1>1, <1>2 DEF Part, CallOK
<1>6. ~ExcusedCall(call[c]) => (Value(c) = "0" <=> call[c].executed)
  BY <1>4, <1>5, ReturnsTruth
<1>7. CallOK(k, waiting'.lines, result')
  BY <1>3, <1>6 DEF CallOK, ExcusedCall
<1>8. Part(c, k, waiting'.by, waiting'.lines, result')
  BY <1>1, <1>2, <1>3, <1>7 DEF Part, Pcs
<1>9. Rest'
  BY <1>1, <1>2 DEF Rest, ResponsesInv
<1> QED
  BY <1>1, <1>8, <1>9, OneCall

LEMMA ReturnOK ==
  ASSUME IInv, NEW c \in Tasks, Return(c)
  PROVE  IInv'
<1>1. /\ call[c].pc = "returned" /\ call' = [call EXCEPT ![c] = NoCall]
      /\ UNCHANGED <<result, callback_bt, waiting, urcs>>
  BY DEF Return
<1>2. Part(c, call[c], waiting.by, waiting.lines, result) /\ Rest
  BY Parts
<1>3. Part(c, NoCall, waiting'.by, waiting'.lines, result')
  <2>1. /\ IsCall(NoCall) /\ NoCall.pc = "idle" /\ NoCall.fn = "" /\ NoCall.reads = {}
    BY DEF NoCall, IsCall, Origin, Position, Nowhere
  <2>2. CallOK(NoCall, waiting'.lines, result')
    BY <2>1 DEF CallOK
  <2> QED
    BY <1>1, <1>2, <2>1, <2>2 DEF Part, Pcs
<1>4. Rest'
  BY <1>1, <1>2 DEF Rest, ResponsesInv
<1> QED
  BY <1>1, <1>3, <1>4, OneCall

(* No call is concerned.                                                   *)
LEMMA CallsStay ==
  ASSUME IInv, UNCHANGED <<call, waiting, result>>, IsSequence(urcs'), Len(urcs') <= MaxUrcs,
         callback_bt' \subseteq {"server", "client"}
  PROVE  IInv'
<1>1. /\ DOMAIN call = Tasks /\ Rest
      /\ \A c \in Tasks : Part(c, call[c], waiting.by, waiting.lines, result)
  BY Parts
<1>2. Rest'
  BY <1>1 DEF Rest, ResponsesInv
<1> QED
  BY <1>1, <1>2, PartsNext

LEMMA StepOK ==
  ASSUME IInv, [Next]_vars
  PROVE  IInv'
<1>1. IsSequence(urcs) /\ Len(urcs) <= MaxUrcs /\ callback_bt \subseteq {"server", "client"}
  BY DEF IInv, ResponsesInv, TypeOK
<1>2. CASE RIL_BLE_Initialize
  BY <1>1, <1>2, CallsStay DEF RIL_BLE_Initialize
<1>3. CASE RIL_BLE_Client_Initialize
  BY <1>1, <1>3, CallsStay DEF RIL_BLE_Client_Initialize
<1>4. ASSUME NEW c \in Tasks, NEW f \in MayCall[c], NEW p \in Positions, Call(c, f, p)
      PROVE  IInv'
  BY <1>4, RejectOK, BusyOK, SendOK DEF Call
<1>5. ASSUME NEW c \in Tasks, TakeLine(c) \/ Timeout(c) \/ Finish(c) \/ Return(c)
      PROVE  IInv'
  BY <1>5, TakeLineOK, TimeoutOK, FinishOK, ReturnOK
<1>6. ASSUME NEW keyword, PeerRequests(keyword)
      PROVE  IInv'
  <2>1. IsSequence(urcs') /\ Len(urcs') = Len(urcs) + 1 /\ Len(urcs) \in Nat
    BY <1>1, <1>6, SequenceFacts DEF PeerRequests
  <2>2. Len(urcs') <= MaxUrcs
    BY <1>6, <2>1, SizesAreNumbers DEF PeerRequests
  <2> QED
    BY <1>1, <1>6, <2>1, <2>2, CallsStay DEF PeerRequests
<1>7. CASE HandleUrc
  <2>1. urcs # <<>> /\ urcs' = Tail(urcs) /\ UNCHANGED <<result, callback_bt, call, waiting>>
    BY <1>7 DEF HandleUrc
  <2>2. IsSequence(urcs') /\ Len(urcs') = Len(urcs) - 1 /\ Len(urcs) \in Nat
    BY <1>1, <2>1, SequenceFacts
  <2>3. Len(urcs') <= MaxUrcs
    BY <1>1, <2>2, SizesAreNumbers
  <2> QED
    BY <1>1, <2>1, <2>2, <2>3, CallsStay
<1>8. CASE UNCHANGED vars
  BY <1>1, <1>8, CallsStay DEF vars
<1> QED
  BY <1>2, <1>3, <1>4, <1>5, <1>6, <1>7, <1>8 DEF Next

LEMMA Invariant == Spec => []IInv
<1>1. Init => IInv
  BY InitOK
<1>2. IInv /\ [Next]_vars => IInv'
  BY StepOK
<1> QED
  BY <1>1, <1>2, PTL DEF Spec

-----------------------------------------------------------------------------
(* The channel is held by the task that waits for it and by no other, in   *)
(* every state of the client.                                              *)
THEOREM ChannelHasOneTask == Spec => []TypeOK
<1>1. IInv => TypeOK
  BY DEF IInv
<1> QED
  BY <1>1, Invariant, PTL

(* A function of the client returns 0 if and only if the module carried    *)
(* out its command, but for the cases of Excused, whatever the tasks call. *)
THEOREM ReturnsAreTrue == Spec => []ReturnIsOfTheCommand
<1>1. IInv => ReturnIsOfTheCommand
  <2> SUFFICES ASSUME IInv, NEW c \in Tasks, call[c].pc = "returned", ~Excused(c)
               PROVE  call[c].val = "0" <=> call[c].executed
    BY DEF ReturnIsOfTheCommand
  <2>1. ~ExcusedCall(call[c])
    BY DEF Excused, ExcusedCall, Interrupted
  <2> QED
    BY <2>1 DEF IInv, SoundInv, CallOK
<1> QED
  BY <1>1, Invariant, PTL

(* No function reads outside of the arrays of the client at a position     *)
(* that is inside for it, however large the arrays are.                    *)
THEOREM ReadsAreInside == Spec => []ReadsStayInside
<1>1. IInv => ReadsStayInside
  BY DEF IInv
<1> QED
  BY <1>1, Invariant, PTL
-----------------------------------------------------------------------------
(* The row of the second table with keyword k.                             *)
TableHandler(k) ==
  CASE k = "+QBTGATSCON:"  -> "BTGatscon"  [] k = "+QBTGATWREQ:" -> "BTGatwreq"
    [] k = "+QBTGATEWREQ:" -> "BTGatewreq" [] k = "+QBTGATRREQ:" -> "BTGatrreq"
    [] k = "+QBTPXPSCON:"  -> "BTpxpscon"  [] k = "+QBTFMPSCONSREG:" -> "BTfmpscon"

TablePlace(k) ==
  CASE k = "+QBTGATSCON:"  -> 16 [] k = "+QBTGATWREQ:" -> 17 [] k = "+QBTGATRREQ:"    -> 18
    [] k = "+QBTGATEWREQ:" -> 19 [] k = "+QBTPXPSCON:" -> 20 [] k = "+QBTFMPSCONSREG:" -> 21

(* The notifications there can be, and those for which the tables have a row. *)
ClientKeywords ==
  {"+QBTGATCSCAN:", "+QBTGATCCON:", "+QBTGATCSS:", "+QBTGATCGC:", "+QBTGATCGD:", "+QBTGATCRC:",
   "+QBTGATCRD:", "+QBTGATCN:"}

ServerKeywords == ServersEvents \cup {"+QBTPXPSCON:"}

Keywords == ClientKeywords \cup ServerKeywords

SystemKeywords ==
  {"+CRING: VOICE", "RING", "BUSY", "NO ANSWER", "NO CARRIER", "NO DIALTONE", "+CLIP:", "+CMTI:", "+CREG:", "+CGREG:",
   "+CPIN:", "+CFUN:", "UNDER_VOLTAGE WARNING", "UNDER_VOLTAGE POWER DOWN", "OVER_VOLTAGE WARNING",
   "OVER_VOLTAGE POWER DOWN", "Call Ready", "SMS Ready", "ALARM RING", "ALARM MODE", "+QCELLLOC:"}

(* The keywords of the first table; none of them is the server's or the client's. *)
LEMMA SystemTable ==
  ASSUME NEW i \in DOMAIN m_SysURCHdlEntry
  PROVE  m_SysURCHdlEntry[i].keyword \in SystemKeywords
<1>1. i \in 1..21
  BY DEF m_SysURCHdlEntry
<1>2. /\ m_SysURCHdlEntry[1].keyword = "+CRING: VOICE" /\ m_SysURCHdlEntry[2].keyword = "RING"
      /\ m_SysURCHdlEntry[3].keyword = "BUSY" /\ m_SysURCHdlEntry[4].keyword = "NO ANSWER"
      /\ m_SysURCHdlEntry[5].keyword = "NO CARRIER" /\ m_SysURCHdlEntry[6].keyword = "NO DIALTONE"
      /\ m_SysURCHdlEntry[7].keyword = "+CLIP:" /\ m_SysURCHdlEntry[8].keyword = "+CMTI:"
      /\ m_SysURCHdlEntry[9].keyword = "+CREG:" /\ m_SysURCHdlEntry[10].keyword = "+CGREG:"
      /\ m_SysURCHdlEntry[11].keyword = "+CPIN:" /\ m_SysURCHdlEntry[12].keyword = "+CFUN:"
      /\ m_SysURCHdlEntry[13].keyword = "UNDER_VOLTAGE WARNING"
      /\ m_SysURCHdlEntry[14].keyword = "UNDER_VOLTAGE POWER DOWN"
      /\ m_SysURCHdlEntry[15].keyword = "OVER_VOLTAGE WARNING"
      /\ m_SysURCHdlEntry[16].keyword = "OVER_VOLTAGE POWER DOWN"
      /\ m_SysURCHdlEntry[17].keyword = "Call Ready" /\ m_SysURCHdlEntry[18].keyword = "SMS Ready"
      /\ m_SysURCHdlEntry[19].keyword = "ALARM RING" /\ m_SysURCHdlEntry[20].keyword = "ALARM MODE"
      /\ m_SysURCHdlEntry[21].keyword = "+QCELLLOC:"
  BY DEF m_SysURCHdlEntry, Entry
<1>3. i \in 1..7 \/ i \in 8..14 \/ i \in 15..21
  BY <1>1
<1>4. CASE i = 1 \/ i = 2 \/ i = 3 \/ i = 4 \/ i = 5 \/ i = 6 \/ i = 7
  BY <1>2, <1>4, ZenonT(60) DEF SystemKeywords
<1>5. CASE i = 8 \/ i = 9 \/ i = 10 \/ i = 11 \/ i = 12 \/ i = 13 \/ i = 14
  BY <1>2, <1>5, ZenonT(60) DEF SystemKeywords
<1>6. CASE i = 15 \/ i = 16 \/ i = 17 \/ i = 18 \/ i = 19 \/ i = 20 \/ i = 21
  BY <1>2, <1>6, ZenonT(60) DEF SystemKeywords
<1> QED
  BY <1>3, <1>4, <1>5, <1>6

LEMMA NoSystemKeyword ==
  ASSUME NEW k \in Keywords
  PROVE  Matches(m_SysURCHdlEntry, Urc({k}, "")) = {}
<1>1. k \notin SystemKeywords
  BY DEF SystemKeywords, Keywords, ClientKeywords, ServerKeywords, ServersEvents
<1> QED
  BY <1>1, SystemTable DEF Matches, Urc

(* Of the others the second table has a row for those of the server only,  *)
(* and one of each.                                                        *)
LEMMA AtKeywords ==
  ASSUME NEW k \in Keywords, NEW i \in DOMAIN m_AtURCHdlEntry, m_AtURCHdlEntry[i].keyword = k
  PROVE  k \in ServerKeywords /\ i = TablePlace(k)
BY DEF m_AtURCHdlEntry, Keywords, ClientKeywords, ServerKeywords, ServersEvents, Entry, TablePlace

LEMMA ServersPlaces ==
  ASSUME NEW k \in ServerKeywords
  PROVE  /\ TablePlace(k) \in DOMAIN m_AtURCHdlEntry /\ TablePlace(k) \in Nat
         /\ m_AtURCHdlEntry[TablePlace(k)].keyword = k
         /\ m_AtURCHdlEntry[TablePlace(k)].handler = TableHandler(k)
BY DEF m_AtURCHdlEntry, ServerKeywords, ServersEvents, TablePlace, TableHandler, Entry

LEMMA AtMatches ==
  ASSUME NEW k \in Keywords
  PROVE  Matches(m_AtURCHdlEntry, Urc({k}, "")) = IF k \in ServerKeywords THEN {TablePlace(k)} ELSE {}
<1>1. ASSUME NEW i, i \in Matches(m_AtURCHdlEntry, Urc({k}, "")) PROVE k \in ServerKeywords /\ i = TablePlace(k)
  BY <1>1, AtKeywords DEF Matches, Urc
<1>2. ASSUME k \in ServerKeywords PROVE TablePlace(k) \in Matches(m_AtURCHdlEntry, Urc({k}, ""))
  BY <1>2, ServersPlaces DEF Matches, Urc
<1> QED
  BY <1>1, <1>2

(* The handler OnURCHandler finds.                                         *)
LEMMA HandlersFound ==
  ASSUME NEW k \in Keywords
  PROVE  HandlerOf(Urc({k}, "")) = IF k \in ServerKeywords THEN TableHandler(k) ELSE "Undefined"
<1>1. CASE k \in ServerKeywords
  <2> DEFINE p == TablePlace(k)
  <2>1. Matches(m_AtURCHdlEntry, Urc({k}, "")) = {p} /\ p <= p /\ {p} # {}
    <3>1. p \in Nat
      BY <1>1, ServersPlaces
    <3>2. Matches(m_AtURCHdlEntry, Urc({k}, "")) = {p}
      BY <1>1, AtMatches
    <3>3. p <= p
      BY <3>1
    <3> QED
      BY <3>2, <3>3
  <2>2. FirstMatch(m_AtURCHdlEntry, Urc({k}, "")) = m_AtURCHdlEntry[p].handler
    <3>1. p = CHOOSE i \in {p} : \A j \in {p} : i <= j
      BY <2>1
    <3> QED
      BY <2>1, <3>1 DEF FirstMatch
  <2>3. m_AtURCHdlEntry[p].handler = TableHandler(k)
    BY <1>1, ServersPlaces
  <2> QED
    BY <1>1, <2>1, <2>2, <2>3, NoSystemKeyword DEF HandlerOf
<1>2. CASE k \notin ServerKeywords
  BY <1>2, NoSystemKeyword, AtMatches DEF HandlerOf
<1> QED
  BY <1>1, <1>2

(* The handler of k tells the application.                                 *)
Hears(k) ==
  LET h == HandlerOf(Urc({k}, ""))
  IN h \in DOMAIN UrcHandlers /\ UrcHandlers[h].prefix = k /\ UrcHandlers[h].whose \in callback_bt

(* The handler of +QBTPXPSCON: looks for the prefix of another notification; *)
(* the others tell what they are for, if the callback of their file is set. *)
LEMMA WhoHears ==
  ASSUME NEW k \in Keywords
  PROVE  /\ Hears(k) <=> k \in ServersEvents /\ "server" \in callback_bt
         /\ Hears(k) => UrcHandlers[HandlerOf(Urc({k}, ""))].msg # "none"
<1> DEFINE h == HandlerOf(Urc({k}, ""))
<1>1. CASE k \in ClientKeywords
  <2>1. h = "Undefined" /\ k \notin ServersEvents
    BY <1>1, HandlersFound DEF ClientKeywords, ServerKeywords, ServersEvents
  <2> QED
    BY <2>1 DEF Hears, UrcHandlers
<1>2. ASSUME k \in ServerKeywords
      PROVE  /\ h = TableHandler(k) /\ h \in DOMAIN UrcHandlers
             /\ UrcHandlers[h].whose = "server" /\ UrcHandlers[h].msg # "none"
             /\ UrcHandlers[h].prefix = (IF k = "+QBTPXPSCON:" THEN "+QBTGATSCON:" ELSE k)
  <2>1. h = TableHandler(k)
    BY <1>2, HandlersFound DEF Keywords
  <2>2. /\ TableHandler(k) \in DOMAIN UrcHandlers
        /\ UrcHandlers[TableHandler(k)].whose = "server" /\ UrcHandlers[TableHandler(k)].msg # "none"
        /\ UrcHandlers[TableHandler(k)].prefix = (IF k = "+QBTPXPSCON:" THEN "+QBTGATSCON:" ELSE k)
    BY <1>2 DEF TableHandler, UrcHandlers, Tells, ServerKeywords, ServersEvents,
       OnURCHandler_BTGatscon, OnURCHandler_BTGatwreq,
       OnURCHandler_BTGatewreq, OnURCHandler_BTGatrreq, OnURCHandler_BTpxpscon, OnURCHandler_BTfmpscon
  <2> QED
    BY <2>1, <2>2
<1>3. CASE k \in ServerKeywords
  BY <1>2, <1>3 DEF Hears, ServerKeywords, ServersEvents
<1> QED
  BY <1>1, <1>3 DEF Keywords

(* What waits is a notification a function leads to or a peer causes.      *)
WaitingInv == urcs \in Seq(Keywords)

LEMMA FunctionsLead ==
  ASSUME NEW p, NEW f \in Names
  PROVE  Functions(p)[f].leadsTo \in Keywords \cup {"none"}
BY DEF Functions, Names, Fn, Keywords, ClientKeywords, ServerKeywords, ServersEvents,
   RIL_BT_Gatcreg, RIL_BT_Gatcscan, RIL_BT_Gatccon, RIL_BT_Gatcss, RIL_BT_Gatcgc, RIL_BT_Gatcgd, RIL_BT_Gatcrc,
   RIL_BT_Gatcwc, RIL_BT_Gatcwd, RIL_BT_Gatcrd, RIL_BT_Gatcrn, RIL_BT_Gatcgdt, RIL_BT_Gatcl, RIL_BT_SetLeTxPwr,
   RIL_BT_QBTFMPsreg, RIL_BT_QBTPXPsreg, RIL_BT_QBTGatadv, RIL_BT_QGatSetadv, RIL_BT_QGatadvData, RIL_BT_QGatScanRsp,
   RIL_BT_Gatcpu, RIL_BT_QGatsdisc, RIL_BT_GetLeLocalAddr

(* Only HandleUrc takes a notification from the queue.                     *)
LEMMA Queue ==
  ASSUME [Next]_vars
  PROVE  \/ HandleUrc
         \/ urcs' = urcs
         \/ \E k \in Keywords : urcs' = Append(urcs, k)
<1>1. ASSUME NEW c \in Tasks, NEW f \in MayCall[c], NEW p \in Positions, Call(c, f, p)
      PROVE  urcs' = urcs \/ \E k \in Keywords : urcs' = Append(urcs, k)
  <2>1. CASE Reject(c, f, p) \/ Busy(c, f, p)
    BY <2>1 DEF Reject, Busy
  <2>2. CASE Send(c, f, p)
    <3>1. f \in Names
      BY MayCallNames
    <3>2. urcs' = urcs \/ (Functions(p)[f].leadsTo # "none" /\ urcs' = Append(urcs, Functions(p)[f].leadsTo))
      BY <2>2, Zenon DEF Send
    <3> QED
      BY <3>1, <3>2, FunctionsLead
  <2> QED
    BY <1>1, <2>1, <2>2 DEF Call
<1>2. ASSUME NEW c \in Tasks, TakeLine(c) \/ Timeout(c) \/ Finish(c) \/ Return(c)
      PROVE  urcs' = urcs
  BY <1>2 DEF TakeLine, Timeout, Finish, Return
<1>3. ASSUME NEW k \in {"+QBTGATWREQ:", "+QBTGATEWREQ:", "+QBTGATRREQ:", "+QBTGATCN:"}, PeerRequests(k)
      PROVE  \E l \in Keywords : urcs' = Append(urcs, l)
  <2>1. k \in Keywords
    BY DEF Keywords, ClientKeywords, ServerKeywords, ServersEvents
  <2> QED
    BY <1>3, <2>1 DEF PeerRequests
<1>4. RIL_BLE_Initialize \/ RIL_BLE_Client_Initialize \/ UNCHANGED vars => urcs' = urcs
  BY DEF RIL_BLE_Initialize, RIL_BLE_Client_Initialize, vars
<1> QED
  BY <1>1, <1>2, <1>3, <1>4 DEF Next

LEMMA WaitingKept ==
  ASSUME WaitingInv, [Next]_vars
  PROVE  WaitingInv'
<1>1. CASE HandleUrc
  <2>1. urcs # <<>> /\ urcs' = Tail(urcs)
    BY <1>1 DEF HandleUrc
  <2> QED
    BY <2>1 DEF WaitingInv
<1> QED
  BY <1>1, Queue DEF WaitingInv

(* The application hears of a notification when it is handled if and only if *)
(* it is one of the server and RIL_BLE_Initialize has been called: nothing *)
(* the client is notified of ever reaches it.                              *)
THEOREM ClientsEventsAreNotTold == Spec => OnlyTheServersEventsAreTold
<1>0. \A n \in Nat : n - 1 # n /\ n - 1 # n + 1
  OBVIOUS
<1>1. Init => WaitingInv
  BY DEF Init, WaitingInv
<1>2. WaitingInv /\ [Next]_vars => WaitingInv'
  BY WaitingKept
<1>3. ASSUME WaitingInv, [Next]_vars
      PROVE  [urcs # <<>> /\ urcs' = Tail(urcs) =>
                (told'.msg # "none" <=> Head(urcs) \in ServersEvents /\ "server" \in callback_bt)]_vars
  <2> SUFFICES ASSUME urcs # <<>>, urcs' = Tail(urcs)
               PROVE  told'.msg # "none" <=> Head(urcs) \in ServersEvents /\ "server" \in callback_bt
    OBVIOUS
  <2>1. /\ Head(urcs) \in Keywords /\ Len(urcs) \in Nat
        /\ Len(Tail(urcs)) = Len(urcs) - 1
        /\ \A k \in Keywords : Len(Append(urcs, k)) = Len(urcs) + 1
    BY <1>3 DEF WaitingInv
  <2>2. HandleUrc
    <3>0. Len(urcs) - 1 # Len(urcs) /\ Len(urcs) - 1 # Len(urcs) + 1
      BY <2>1, <1>0, Zenon
    <3>2. Len(urcs') = Len(urcs) - 1
      BY <2>1, Zenon
    <3>1. urcs' # urcs /\ \A k \in Keywords : urcs' # Append(urcs, k)
      BY <2>1, <3>0, <3>2, Zenon
    <3> QED
      BY <1>3, <3>1, Queue
  <2>3. told'.msg = IF Hears(Head(urcs)) THEN UrcHandlers[HandlerOf(Urc({Head(urcs)}, ""))].msg ELSE "none"
    BY <2>2, Zenon DEF HandleUrc, Hears
  <2> QED
    BY <2>1, <2>3, WhoHears
<1> QED
  BY <1>1, <1>2, <1>3, PTL DEF Spec, OnlyTheServersEventsAreTold
=============================================================================
