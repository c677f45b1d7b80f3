------------------------------ MODULE UrcTables ------------------------------
(***************************************************************************)
(* The keywords of notifications (ril_urc.c): OnURCHandler looks for those *)
(* of two tables in the string the core passes and calls the handler of    *)
(* the first one it finds.                                                 *)
(*                                                                         *)
(* A string is the set of the keywords in it and the value behind the one  *)
(* that is handled: a ring and the caller's number come in one string.     *)
(***************************************************************************)
EXTENDS Naturals, Sequences

Urc(keywords, val) == [keywords |-> keywords, val |-> val]
Entry(keyword, handler) == [keyword |-> keyword, handler |-> handler]

m_SysURCHdlEntry ==
  <<Entry("+CRING: VOICE", "Call"), Entry("RING", "Call"), Entry("BUSY", "Call"), Entry("NO ANSWER", "Call"),
    Entry("NO CARRIER", "Call"), Entry("NO DIALTONE", "Call"), Entry("+CLIP:", "Call"), Entry("+CMTI:", "SMS"),
    Entry("+CREG:", "Network"), Entry("+CGREG:", "Network"), Entry("+CPIN:", "SIM"), Entry("+CFUN:", "CFUN"),
    Entry("UNDER_VOLTAGE WARNING", "Voltage"), Entry("UNDER_VOLTAGE POWER DOWN", "Voltage"),
    Entry("OVER_VOLTAGE WARNING", "Voltage"), Entry("OVER_VOLTAGE POWER DOWN", "Voltage"),
    Entry("Call Ready", "InitStat"), Entry("SMS Ready", "InitStat"), Entry("ALARM RING", "AlarmRing"),
    Entry("ALARM MODE", "AlarmRing"), Entry("+QCELLLOC:", "QCELLLocation")>>

m_AtURCHdlEntry ==
  <<Entry("+QHTTPDL:", "HTTP"), Entry("+QFTPGET:", "FTP"), Entry("+QFTPPUT:", "FTP"),
    Entry("+QAUDPIND:", "AudPlayInd"), Entry("+QPLAYRES:", "AudPlayInd"), Entry("+QPRESBG:", "AudPlayInd"),
    Entry("+QBTSCAN:", "BTScan"), Entry("+QBTPAIR:", "BTPair"), Entry("+QBTPAIRCNF:", "BTPairCnf"),
    Entry("+QBTCONN:", "BTConn"), Entry("+QBTACPT:", "BTConnCnf"), Entry("+QBTDISC:", "BTConnCnf"),
    Entry("+QBTDISCONN:", "BTDisconn"), Entry("+QBTIND:", "BTIndication"), Entry("+QBTVISB:", "BTVisible"),
    Entry("+QBTGATSCON:", "BTGatscon"), Entry("+QBTGATWREQ:", "BTGatwreq"), Entry("+QBTGATRREQ:", "BTGatrreq"),
    Entry("+QBTGATEWREQ:", "BTGatewreq"), Entry("+QBTPXPSCON:", "BTpxpscon"),
    Entry("+QBTFMPSCONSREG:", "BTfmpscon"), Entry("+QTONEDET:", "QToneDet"), Entry("+QWDTMF:", "QWDTMF"),
    Entry("+QGNSSCMD:", "GPSCMD"), Entry("+QNTP:", "NTPCMD"), Entry("+QLBS:", "QLBS")>>

\* The places of a table whose keyword is in the string, and the handler of the first.
Matches(table, urc) == {i \in DOMAIN table : table[i].keyword \in urc.keywords}

FirstMatch(table, urc) ==
  table[CHOOSE i \in Matches(table, urc) : \A j \in Matches(table, urc) : i <= j].handler

\* The handler OnURCHandler calls: the second table counts where the first has no match.
HandlerOf(urc) ==
  CASE Matches(m_SysURCHdlEntry, urc) # {} -> FirstMatch(m_SysURCHdlEntry, urc)
    [] Matches(m_SysURCHdlEntry, urc) = {} /\ Matches(m_AtURCHdlEntry, urc) # {} -> FirstMatch(m_AtURCHdlEntry, urc)
    [] OTHER -> "Undefined"

Ql_RIL_IsURCStr(urc) == HandlerOf(urc) # "Undefined"
=============================================================================
