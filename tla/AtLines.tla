------------------------------- MODULE AtLines -------------------------------
(***************************************************************************)
(* The vocabulary of the blocking functions of the RIL: response lines,    *)
(* the verdicts of line handlers, and the shape of a function that sends   *)
(* one AT command after another.                                           *)
(*                                                                         *)
(* A line is its kind (the prefix or the whole text the handlers look for) *)
(* and what is behind it.  A handler maps a line and the cell `userdata'   *)
(* points to onto a verdict and the new content of the cell (ril.h 81-93). *)
(***************************************************************************)
EXTENDS Sequences, TLC

Line(k, v) == [kind |-> k, val |-> v]

\* The lines that end a response.
OkLine    == Line("OK", "")
ErrorLine == Line("ERROR", "")
CmeError(n) == Line("+CME ERROR:", n)

Continue(d) == [verdict |-> "continue", data |-> d]
Success(d)  == [verdict |-> "success", data |-> d]
Failed(d)   == [verdict |-> "failed", data |-> d]

\* The tests most handlers end with: OK, the error lines they know, and CONTINUE for any other line.
EndsWith(errors, line, d) ==
  IF line.kind = "OK" THEN Success(d)
  ELSE IF line.kind \in errors THEN Failed(d) ELSE Continue(d)

FinalWithoutCme(line, d) == EndsWith({"ERROR"}, line, d)     \* (mutant) the test for +CME ERROR is missing

Final(line, d) == EndsWith({"ERROR", "+CME ERROR:"}, line, d)

FinalCms(line, d) == EndsWith({"ERROR", "+CME ERROR:", "+CMS ERROR:"}, line, d)

\* A handler that stores the value behind its prefix and goes on.
Stores(prefix, line, d) == IF line.kind = prefix THEN Continue(line.val) ELSE Final(line, d)

\* The line without a prefix is the answer.
PlainAnswer(line, d) ==
  IF line.kind \in {"OK", "ERROR", "+CME ERROR:"} THEN Final(line, d) ELSE Continue(line.val)

\* The handler of a command sent without one, and the error code it records in m_iErrCode.
Default_atRsp_callback(line, d) == FinalCms(line, d)

ErrCode(line, code) ==
  CASE line.kind = "OK"                              -> "0"
    [] line.kind = "ERROR"                           -> "-1"
    [] line.kind \in {"+CME ERROR:", "+CMS ERROR:"} -> line.val
    [] OTHER                                         -> code

-----------------------------------------------------------------------------
(***************************************************************************)
(* A function is the sequence of its commands, with the handler of each    *)
(* and the cell the handler writes; whether it refuses some arguments; what *)
(* is in its cell at first; and how it hands the result over (Outcome).    *)
(***************************************************************************)
Unset == "unset"     \* the variable of the caller as it was before the call
Zero  == "zero"      \* a local that was cleared
Wild  == "wild"      \* an uninitialized local

Cmd(at, hdl) == [at |-> at, hdl |-> hdl, cell |-> "data"]

Function(cmds, start, mode) == [cmds |-> cmds, checks |-> FALSE, start |-> start, mode |-> mode]

\* No result but the return value.
Plain(at) == Function(<<Cmd(at, "Default")>>, Unset, "none")

\* The same with a handler of its own.
Handled(at, hdl) == Function(<<Cmd(at, hdl)>>, Unset, "none")

\* The handler writes a local, which is copied to the caller after success.
Copied(at, hdl, start) == Function(<<Cmd(at, hdl)>>, start, "copied")

\* The handler writes the caller's variable.
Direct(at, hdl) == Function(<<Cmd(at, hdl)>>, Unset, "direct")

Checked(f) == [f EXCEPT !.checks = TRUE]

Returned(ret, out) == [ret |-> ret, out |-> out]

\* The tail of a function: what it returns and what is in the caller's variable, from the result r of
\* its last command, its cell d and the variable as it is.
Outcome(mode, r, d, out) ==
  CASE mode = "none"     -> Returned(r, out)
    [] mode = "direct"   -> Returned(r, d)
    [] mode = "copied"   -> Returned(r, IF r = "success" THEN d ELSE out)
    [] mode = "cleared"  -> Returned(r, IF r = "success" THEN d ELSE Zero)
    [] mode = "accepted" -> Returned(IF r = "success" /\ d # "0" THEN "refused" ELSE r, out)
    [] mode = "checked"  -> IF r = "success" /\ d = "bad" THEN Returned("refused", out)
                            ELSE Returned(r, IF r = "success" THEN d ELSE out)
    [] mode = "lost"     -> Returned(r, IF r = "success" \/ d # Unset THEN out ELSE "-1")
=============================================================================
