----------------------------- MODULE BtDevTable -----------------------------
(***************************************************************************)
(* The Bluetooth device list of ril_bluetooth.c: the array m_arrBTDev of   *)
(* MAX_BT_DEV_CNT pointers, and the static helpers that read and write it. *)
(* A table is a value here; BtDeviceList holds it in a variable.           *)
(*                                                                         *)
(* A device's name, address and profile are not modelled: the handle is    *)
(* the hash of the address and is taken to identify it, the name is only   *)
(* displayed, and profileId is written at exactly the places where connId  *)
(* is.                                                                     *)
(***************************************************************************)
EXTENDS Integers

CONSTANTS
  Dev,                 \* handles of the remote devices
  EmptyHdl,            \* Ql_GenHash of the empty address
  NULL,                \* an unused slot of m_arrBTDev
  MAX_BT_DEV_CNT,      \* slots of m_arrBTDev
  MAX_BT_PAIRED_CNT,   \* pairings the module keeps
  MAX_BT_SCAN_CNT,     \* devices one scan reports at most
  MaxConn              \* connection ids the module hands out (bound)

Handle == Dev \cup {EmptyHdl}
Slot   == 0 .. (MAX_BT_DEV_CNT - 1)
PairId == 1 .. MAX_BT_PAIRED_CNT
ConnId == 1 .. MaxConn
DevId  == 1 .. MAX_BT_SCAN_CNT

(* ST_BT_DevInfo. devId is 0 until a scan reports the device; -1 in pairId *)
(* (connId) means not paired (not connected).                              *)
DevInfo == [devHdl : Handle,
            devId  : DevId \cup {0},
            pairId : PairId \cup {-1},
            connId : ConnId \cup {-1}]

ASSUME CountsAreNatural ==
  /\ MAX_BT_DEV_CNT \in Nat /\ MAX_BT_PAIRED_CNT \in Nat
  /\ MAX_BT_SCAN_CNT \in Nat /\ MaxConn \in Nat
ASSUME NullIsNothingElse == NULL \notin DevInfo \cup Handle
ASSUME EmptyIsNoDevice == EmptyHdl \notin Dev

Table == [Slot -> DevInfo \cup {NULL}]

-----------------------------------------------------------------------------
(* Reading a table. *)

Holds(t, i, h) == t[i] # NULL /\ t[i].devHdl = h

Listed(t, h) == \E i \in Slot : Holds(t, i, h)

(* Every lookup loop stops at the first record with the handle. *)
IsFirst(t, i, h) == Holds(t, i, h) /\ \A j \in Slot : j < i => ~Holds(t, j, h)

BT_DevMngmt_isFull(t) == \A i \in Slot : t[i] # NULL

(* The getters BT_DevMngmt_GetDeviceId, GetPairedId and GetConnId: 0 when  *)
(* a full table lacks the handle. In a table that is not full the loop     *)
(* reads through a NULL slot instead: it may take whatever lies there for  *)
(* a match (wild) or run to the end (0).                                   *)
BT_DevMngmt_Get(t, h, field, wild) ==
  IF Listed(t, h) THEN {t[i][field] : i \in {k \in Slot : IsFirst(t, k, h)}}
  ELSE IF BT_DevMngmt_isFull(t) THEN {0}
  ELSE wild \cup {0}

ReadsNull(t, h) == ~Listed(t, h) /\ ~BT_DevMngmt_isFull(t)

-----------------------------------------------------------------------------
(* Writing a table. *)

NewRecord(h) == [devHdl |-> h, devId |-> 0, pairId |-> -1, connId |-> -1]

BT_DevMngmt_Clean == [i \in Slot |-> NULL]

FillsLastFree(t, r) ==
  [i \in Slot |->
     IF t[i] = NULL /\ \A j \in Slot : j > i => t[j] # NULL THEN r ELSE t[i]]

BT_DevMngmt_Append(t, r) ==
  [i \in Slot |->
     IF t[i] = NULL /\ \A j \in Slot : j < i => t[j] # NULL THEN r ELSE t[i]]

(* The BT_*UpdateConfirm and BT_DevMngmt_Update* helpers differ only in    *)
(* the fields they write. A write past a NULL slot touches no record.      *)
SetPairId(t, h, id) ==
  [i \in Slot |-> IF IsFirst(t, i, h) THEN [t[i] EXCEPT !.pairId = id] ELSE t[i]]

SetConnId(t, h, id) ==
  [i \in Slot |-> IF IsFirst(t, i, h) THEN [t[i] EXCEPT !.connId = id] ELSE t[i]]

SetDevId(t, h, id) ==
  [i \in Slot |-> IF IsFirst(t, i, h) THEN [t[i] EXCEPT !.devId = id] ELSE t[i]]

(* A +QBTSTATE line refreshes the device's record or else appends the one  *)
(* it allocated, unless the table is full: make room, then set the id.     *)
AppendsAlways(t, h) ==
  IF BT_DevMngmt_isFull(t) THEN t ELSE BT_DevMngmt_Append(t, NewRecord(h))

EnsureListed(t, h) ==
  IF Listed(t, h) \/ BT_DevMngmt_isFull(t) THEN t
  ELSE BT_DevMngmt_Append(t, NewRecord(h))
=============================================================================
