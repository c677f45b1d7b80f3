----------------------------- MODULE FtpCommands -----------------------------
(***************************************************************************)
(* The FTP session: the functions of ril_ftp.c other than the two          *)
(* transfers, and their line handlers.                                     *)
(***************************************************************************)
EXTENDS AtLines

\* The result comes in a line of its own behind OK and ends the command.
ATResponse_FTP_handler_Common(prefix, line, d) ==
  CASE line.kind = prefix -> Success(line.val)
    [] line.kind = "OK"   -> Continue(d)
    [] OTHER              -> FinalCms(line, d)

\* A command that answers "prefix: 0" when it was done; the function turns any other result, and the
\* 255 that stands there before, into an error of its own.
Accepted(at) == Cmd(at, "ATResponse_FTP_handler_Common")

OnServer(at) == Function(<<Accepted(at)>>, "255", "accepted")

\* User and password are optional.  A command that fails ends the sequence; what was done is not undone.
RIL_FTP_QFTPOPEN(user, password) ==
  Function((IF user THEN <<Cmd("AT+QFTPUSER", "Default")>> ELSE <<>>)
             \o (IF password THEN <<Cmd("AT+QFTPPASS", "Default")>> ELSE <<>>)
             \o <<Cmd("AT+QFTPCFG=1", "Default"), Cmd("AT+QFTPCFG=6", "Default"),
                  Cmd("AT+QIREGAPP", "Default"), Cmd("AT+QIACT", "Default"), Accepted("+QFTPOPEN:")>>,
           "255", "accepted")

RIL_FTP_QFTPCLOSE  == OnServer("+QFTPCLOSE:")
RIL_FTP_QFTPPATH   == OnServer("+QFTPPATH:")
RIL_FTP_QFTPCFG    == OnServer("+QFTPCFG:")
RIL_FTP_QFTPRENAME == OnServer("+QFTPRENAME:")
RIL_FTP_QFTPDELETE == OnServer("+QFTPDELETE:")
RIL_FTP_QFTPMKDIR  == OnServer("+QFTPMKDIR:")
RIL_FTP_QFTPRMDIR  == OnServer("+QFTPMKDIR:")

\* A negative size is an error.
RIL_FTP_QFTPSIZE == Function(<<Accepted("+QFTPSIZE:")>>, "bad", "checked")

ATResponse_QFTPSTAT_handler(line, d) ==
  IF line.kind = "+QFTPSTAT:" THEN Continue(line.val) ELSE FinalCms(line, d)

ATResponse_QFTPLEN_handler(line, d) ==
  IF line.kind = "+QFTPLEN:" THEN Continue(line.val) ELSE FinalCms(line, d)

\* (mutant) the failure is not marked
ForgetsTheFailure == Function(<<Cmd("AT+QFTPLEN", "ATResponse_QFTPLEN_handler")>>, Unset, "none")

\* The handlers are given the address of the parameter, not what it points to: the value they store
\* replaces the pointer, and the caller's variable stays as it is.  After a failure -1 is written
\* through the pointer, which is the caller's only if no value was stored before.
RIL_FTP_QFTPSTAT == Function(<<Cmd("AT+QFTPSTAT", "ATResponse_QFTPSTAT_handler")>>, Unset, "lost")
RIL_FTP_QFTPLEN  == Function(<<Cmd("AT+QFTPLEN", "ATResponse_QFTPLEN_handler")>>, Unset, "lost")

Callback_QIDEACT(line, d) ==
  CASE line.kind = "DEACT OK" -> Success(d)
    [] line.kind = "ERROR"    -> Failed(d)
    [] OTHER                  -> Continue(d)

RIL_FTP_QIDEACT == Handled("AT+QIDEACT", "Callback_QIDEACT")
=============================================================================
