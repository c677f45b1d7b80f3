----------------------------- MODULE BtIdsProofs -----------------------------
(***************************************************************************)
(* The ids in the Bluetooth device list are the module's: what a lookup    *)
(* finds is, in the module, that device's pairing, connection or scan      *)
(* result, a command sent for a device names that device, and a list that  *)
(* nobody is filling is complete.                                          *)
(*                                                                         *)
(* First what a lookup finds in a list and how the helpers that write the  *)
(* list change it, then what every step changes in what the list shows     *)
(* (ShownChange) and in the rest of the state, then the invariants.        *)
(***************************************************************************)
EXTENDS BtDeviceListProofs, WellFoundedInduction, NaturalsInduction

(* A set of numbers that is not empty has a smallest one.                  *)
LEMMA LessIsWellFounded ==
  \E R : IsWellFoundedOn(R, Nat) /\ \A x, y \in Nat : x < y => <<x, y>> \in R
<1>1. \A x, y \in Nat : x < y => <<x, y>> \in {ss \in Nat \X Nat : ss[1] < ss[2]}
  OBVIOUS
<1>2. IsWellFoundedOn({ss \in Nat \X Nat : ss[1] < ss[2]}, Nat)
  BY NatLessThanWellFounded DEF OpToRel
<1> QED BY <1>1, <1>2

LEMMA Smallest ==
  ASSUME NEW T, T \subseteq Nat, T # {}
  PROVE  \E x \in T : \A y \in T : ~(y < x)
<1>1. PICK R : IsWellFoundedOn(R, Nat) /\ \A x, y \in Nat : x < y => <<x, y>> \in R
  BY LessIsWellFounded
<1>2. \E x \in T : \A y \in T : <<y, x>> \notin R
  <2>1. IsWellFoundedOn(R, Nat)
    BY <1>1
  <2> QED BY <2>1, WFMin, Zenon
<1>3. PICK x \in T : \A y \in T : <<y, x>> \notin R
  BY <1>2
<1>4. ASSUME NEW y \in T PROVE ~(y < x)
  <2>1. x \in Nat /\ y \in Nat
    OBVIOUS
  <2>2. <<y, x>> \notin R
    BY <1>3
  <2> QED BY <1>1, <2>1, <2>2
<1> QED BY <1>4

LEMMA SlotsAreNumbers == Slot \subseteq Nat
BY CountsAreNatural DEF Slot

(* Who is listed has a first record, which is found, and only one.         *)
LEMMA FirstRecord ==
  ASSUME NEW t, NEW h
  PROVE  /\ Listed(t, h) <=> \E i \in Slot : IsFirst(t, i, h)
         /\ \A i, j \in Slot : IsFirst(t, i, h) /\ IsFirst(t, j, h) => i = j
<1> DEFINE T == {i \in Slot : Holds(t, i, h)}
<1>1. ASSUME Listed(t, h) PROVE \E i \in Slot : IsFirst(t, i, h)
  <2>1. T \subseteq Nat /\ T # {}
    BY <1>1, SlotsAreNumbers DEF Listed
  <2>2. PICK x \in T : \A y \in T : ~(y < x)
    BY <2>1, Smallest
  <2> QED BY <2>2 DEF IsFirst
<1>2. \A i, j \in Slot : i < j \/ j < i \/ i = j
  BY SlotsAreNumbers
<1> QED BY <1>1, <1>2 DEF IsFirst, Listed

(* The first free slot of a list that has room.                            *)
IsFree(t, i) == t[i] = NULL /\ \A j \in Slot : j < i => t[j] # NULL

LEMMA FirstFreeSlot ==
  ASSUME NEW t
  PROVE  /\ ~BT_DevMngmt_isFull(t) <=> \E i \in Slot : IsFree(t, i)
         /\ \A i, j \in Slot : IsFree(t, i) /\ IsFree(t, j) => i = j
<1> DEFINE T == {i \in Slot : t[i] = NULL}
<1>1. ASSUME ~BT_DevMngmt_isFull(t) PROVE \E i \in Slot : IsFree(t, i)
  <2>1. T \subseteq Nat /\ T # {}
    BY <1>1, SlotsAreNumbers DEF BT_DevMngmt_isFull
  <2>2. PICK x \in T : \A y \in T : ~(y < x)
    BY <2>1, Smallest
  <2> QED BY <2>2 DEF IsFree
<1>2. \A i, j \in Slot : i < j \/ j < i \/ i = j
  BY SlotsAreNumbers
<1> QED BY <1>1, <1>2 DEF IsFree, BT_DevMngmt_isFull

-----------------------------------------------------------------------------
(* What a lookup of h finds in the fields of the list t.                   *)

Fields == {"devId", "pairId", "connId"}

Shows(t, h, f, id) == \E i \in Slot : IsFirst(t, i, h) /\ t[i][f] = id

LEMMA SameRecordsSameFirst ==
  ASSUME NEW s, NEW t, SameRecords(s, t)
  PROVE  /\ \A i \in Slot : \A h : IsFirst(s, i, h) <=> IsFirst(t, i, h)
         /\ BT_DevMngmt_isFull(s) <=> BT_DevMngmt_isFull(t)
<1>1. \A i \in Slot : \A h : Holds(s, i, h) <=> Holds(t, i, h)
  BY DEF SameRecords, Holds
<1>2. \A i \in Slot : s[i] = NULL <=> t[i] = NULL
  BY DEF SameRecords
<1> QED BY <1>1, <1>2 DEF IsFirst, BT_DevMngmt_isFull

(* s is t but for field f of the first record of h, which is x.            *)
IsSet(s, t, h, f, x) ==
  /\ SameRecords(s, t)
  /\ \A i \in Slot : \A g \in Fields :
       t[i] # NULL => s[i][g] = IF IsFirst(t, i, h) /\ g = f THEN x ELSE t[i][g]

LEMMA WritesSet ==
  ASSUME NEW t \in Table, NEW h
  PROVE  /\ \A x \in PairId \cup {-1} : IsSet(SetPairId(t, h, x), t, h, "pairId", x)
         /\ \A x \in ConnId \cup {-1} : IsSet(SetConnId(t, h, x), t, h, "connId", x)
         /\ \A x \in DevId \cup {0} : IsSet(SetDevId(t, h, x), t, h, "devId", x)
<1>1. \A i \in Slot : t[i] # NULL => t[i] \in DevInfo
  BY DEF Table
<1>3. ASSUME NEW x \in PairId \cup {-1} PROVE IsSet(SetPairId(t, h, x), t, h, "pairId", x)
  <2>1. ASSUME NEW i \in Slot, NEW g \in Fields, t[i] # NULL
        PROVE  SetPairId(t, h, x)[i][g] = IF IsFirst(t, i, h) /\ g = "pairId" THEN x ELSE t[i][g]
    <3>1. [t[i] EXCEPT !.pairId = x][g] = IF g = "pairId" THEN x ELSE t[i][g]
      <4>1. t[i] \in DevInfo
        BY <1>1, <2>1
      <4> QED BY <4>1 DEF DevInfo, Fields
    <3>2. SetPairId(t, h, x)[i] = IF IsFirst(t, i, h) THEN [t[i] EXCEPT !.pairId = x] ELSE t[i]
      BY DEF SetPairId
    <3> QED BY <3>1, <3>2
  <2>2. SameRecords(SetPairId(t, h, x), t)
    BY WritesKeepRecords
  <2> QED BY <2>1, <2>2 DEF IsSet
<1>4. ASSUME NEW x \in ConnId \cup {-1} PROVE IsSet(SetConnId(t, h, x), t, h, "connId", x)
  <2>1. ASSUME NEW i \in Slot, NEW g \in Fields, t[i] # NULL
        PROVE  SetConnId(t, h, x)[i][g] = IF IsFirst(t, i, h) /\ g = "connId" THEN x ELSE t[i][g]
    <3>1. [t[i] EXCEPT !.connId = x][g] = IF g = "connId" THEN x ELSE t[i][g]
      <4>1. t[i] \in DevInfo
        BY <1>1, <2>1
      <4> QED BY <4>1 DEF DevInfo, Fields
    <3>2. SetConnId(t, h, x)[i] = IF IsFirst(t, i, h) THEN [t[i] EXCEPT !.connId = x] ELSE t[i]
      BY DEF SetConnId
    <3> QED BY <3>1, <3>2
  <2>2. SameRecords(SetConnId(t, h, x), t)
    BY WritesKeepRecords
  <2> QED BY <2>1, <2>2 DEF IsSet
<1>5. ASSUME NEW x \in DevId \cup {0} PROVE IsSet(SetDevId(t, h, x), t, h, "devId", x)
  <2>1. ASSUME NEW i \in Slot, NEW g \in Fields, t[i] # NULL
        PROVE  SetDevId(t, h, x)[i][g] = IF IsFirst(t, i, h) /\ g = "devId" THEN x ELSE t[i][g]
    <3>1. [t[i] EXCEPT !.devId = x][g] = IF g = "devId" THEN x ELSE t[i][g]
      <4>1. t[i] \in DevInfo
        BY <1>1, <2>1
      <4> QED BY <4>1 DEF DevInfo, Fields
    <3>2. SetDevId(t, h, x)[i] = IF IsFirst(t, i, h) THEN [t[i] EXCEPT !.devId = x] ELSE t[i]
      BY DEF SetDevId
    <3> QED BY <3>1, <3>2
  <2>2. SameRecords(SetDevId(t, h, x), t)
    BY WritesKeepRecords
  <2> QED BY <2>1, <2>2 DEF IsSet
<1> QED BY <1>3, <1>4, <1>5

LEMMA SetShows ==
  ASSUME NEW t, NEW s, NEW h, NEW f \in Fields, NEW x, IsSet(s, t, h, f, x)
  PROVE  /\ \A id : Shows(s, h, f, id) <=> Listed(t, h) /\ id = x
         /\ \A g, id : \A e \in Fields :
              g # h \/ e # f => (Shows(s, g, e, id) <=> Shows(t, g, e, id))
         /\ \A g : Listed(s, g) <=> Listed(t, g)
         /\ BT_DevMngmt_isFull(s) <=> BT_DevMngmt_isFull(t)
<1>1. \A i \in Slot : \A g : IsFirst(s, i, g) <=> IsFirst(t, i, g)
  BY SameRecordsSameFirst DEF IsSet
<1>2. \A i \in Slot : \A g : IsFirst(t, i, g) => t[i] # NULL /\ t[i].devHdl = g
  BY DEF IsFirst, Holds
<1>3. ASSUME NEW g, NEW id, NEW e \in Fields
      PROVE  Shows(s, g, e, id) <=> IF g = h /\ e = f THEN Listed(t, h) /\ id = x ELSE Shows(t, g, e, id)
  <2>1. \A i \in Slot : IsFirst(t, i, g) => s[i][e] = IF g = h /\ e = f THEN x ELSE t[i][e]
    BY <1>2 DEF IsSet
  <2>2. Shows(s, g, e, id) <=> \E i \in Slot : IsFirst(t, i, g) /\ (IF g = h /\ e = f THEN x ELSE t[i][e]) = id
    BY <1>1, <2>1 DEF Shows
  <2>3. Listed(t, h) <=> \E i \in Slot : IsFirst(t, i, h)
    BY FirstRecord
  <2> QED BY <2>2, <2>3 DEF Shows
<1> QED BY <1>3, SameRecordsSameFirst, SameRecordsSameDevices DEF IsSet

(* A record that is appended is shown if its device had none.              *)
LEMMA AppendShows ==
  ASSUME NEW t, IsCompact(t), NEW r \in DevInfo, NEW s, s = BT_DevMngmt_Append(t, r)
  PROVE  /\ \A g, id : \A e \in Fields :
              Shows(s, g, e, id) <=> IF g = r.devHdl /\ ~Listed(t, g) THEN ~BT_DevMngmt_isFull(t) /\ id = r[e]
                                     ELSE Shows(t, g, e, id)
         /\ \A g : Listed(s, g) <=> Listed(t, g) \/ (g = r.devHdl /\ ~BT_DevMngmt_isFull(t))
         /\ BT_DevMngmt_isFull(t) => BT_DevMngmt_isFull(s)
<1>0. r # NULL
  BY NullIsNothingElse
<1>1. \A i \in Slot : s[i] = IF IsFree(t, i) THEN r ELSE t[i]
  BY DEF BT_DevMngmt_Append, IsFree
<1>2. \A i \in Slot : \A g : Holds(s, i, g) <=> IF IsFree(t, i) THEN g = r.devHdl ELSE Holds(t, i, g)
  BY <1>0, <1>1 DEF Holds
<1>3. \A i, j \in Slot : \A g : IsFree(t, i) /\ Holds(t, j, g) => j < i
  <2> SUFFICES ASSUME NEW i \in Slot, NEW j \in Slot, NEW g, IsFree(t, i), Holds(t, j, g)
               PROVE  j < i
    OBVIOUS
  <2>1. i < j \/ i = j \/ j < i
    BY SlotsAreNumbers
  <2> QED BY <2>1 DEF IsFree, Holds, IsCompact
<1>4. \A i, j \in Slot : IsFree(t, i) /\ IsFree(t, j) => i = j
  BY FirstFreeSlot
<1>5. ASSUME NEW g, NEW i \in Slot, g = r.devHdl, ~Listed(t, g)
      PROVE  IsFirst(s, i, g) <=> IsFree(t, i)
  <2>1. \A j \in Slot : Holds(s, j, g) <=> IsFree(t, j)
    BY <1>2, <1>5 DEF Listed
  <2>2. \A j \in Slot : IsFree(t, j) => ~(j < j)
    BY SlotsAreNumbers
  <2> QED BY <2>1, <2>2, <1>4 DEF IsFirst
<1>6. ASSUME NEW g, NEW i \in Slot, g # r.devHdl \/ Listed(t, g)
      PROVE  IsFirst(s, i, g) <=> IsFirst(t, i, g)
  <2>1. \A j \in Slot : IsFree(t, j) => ~Holds(t, j, g)
    BY DEF IsFree, Holds
  <2>2. CASE g # r.devHdl
    <3>1. \A j \in Slot : Holds(s, j, g) <=> Holds(t, j, g)
      BY <1>2, <2>1, <2>2
    <3> QED BY <3>1 DEF IsFirst
  <2>3. CASE Listed(t, g)
    <3>1. PICK k \in Slot : IsFirst(t, k, g)
      BY <2>3, FirstRecord
    <3>2. \A j \in Slot : IsFree(t, j) => k < j /\ ~(j < k)
      <4>1. \A j \in Slot : IsFree(t, j) => k < j
        BY <1>3, <3>1 DEF IsFirst
      <4> QED BY <4>1, SlotsAreNumbers
    <3>3. \A j \in Slot : Holds(t, j, g) => Holds(s, j, g)
      BY <1>2, <2>1
    <3>4. \A j \in Slot : Holds(s, j, g) => Holds(t, j, g) \/ IsFree(t, j)
      BY <1>2
    <3>5. IsFirst(s, k, g)
      BY <3>1, <3>2, <3>3, <3>4 DEF IsFirst
    <3> QED BY <3>1, <3>5, FirstRecord
  <2> QED BY <1>6, <2>2, <2>3
<1>7. ~BT_DevMngmt_isFull(t) <=> \E i \in Slot : IsFree(t, i)
  BY FirstFreeSlot
<1>8. ASSUME NEW g, NEW id, NEW e \in Fields
      PROVE  Shows(s, g, e, id) <=> IF g = r.devHdl /\ ~Listed(t, g) THEN ~BT_DevMngmt_isFull(t) /\ id = r[e]
                                    ELSE Shows(t, g, e, id)
  <2>1. CASE g = r.devHdl /\ ~Listed(t, g)
    BY <1>1, <1>5, <1>7, <2>1 DEF Shows
  <2>2. CASE ~(g = r.devHdl /\ ~Listed(t, g))
    <3>1. \A i \in Slot : IsFirst(s, i, g) => s[i] = t[i]
      BY <1>1, <1>6, <2>2 DEF IsFirst, Holds, IsFree
    <3> QED BY <1>6, <2>2, <3>1 DEF Shows
  <2> QED BY <2>1, <2>2
<1>9. \A g : Listed(s, g) <=> Listed(t, g) \/ (g = r.devHdl /\ ~BT_DevMngmt_isFull(t))
  BY <1>2, <1>7 DEF Listed, IsFree, Holds
<1>10. BT_DevMngmt_isFull(t) => BT_DevMngmt_isFull(s)
  BY <1>0, <1>1 DEF BT_DevMngmt_isFull
<1> QED BY <1>8, <1>9, <1>10

LEMMA EnsureListedShows ==
  ASSUME NEW t \in Table, IsCompact(t), NEW g \in Handle, NEW s, s = EnsureListed(t, g)
  PROVE  /\ \A h, id : \A e \in Fields :
              Shows(s, h, e, id) <=> IF h = g /\ ~Listed(t, g)
                                     THEN ~BT_DevMngmt_isFull(t) /\ id = NewRecord(g)[e]
                                     ELSE Shows(t, h, e, id)
         /\ \A h : Listed(s, h) <=> Listed(t, h) \/ (h = g /\ ~BT_DevMngmt_isFull(t))
         /\ BT_DevMngmt_isFull(t) => BT_DevMngmt_isFull(s)
<1>1. CASE Listed(t, g) \/ BT_DevMngmt_isFull(t)
  <2>1. s = t
    BY <1>1 DEF EnsureListed
  <2>2. \A h, id : \A e \in Fields : Shows(t, h, e, id) => Listed(t, h)
    BY DEF Shows, IsFirst, Listed
  <2> QED BY <1>1, <2>1, <2>2
<1>2. CASE ~(Listed(t, g) \/ BT_DevMngmt_isFull(t))
  <2>1. NewRecord(g) \in DevInfo /\ NewRecord(g).devHdl = g
    BY NewRecordIsTyped
  <2>2. s = BT_DevMngmt_Append(t, NewRecord(g))
    BY <1>2 DEF EnsureListed
  <2> QED BY <1>2, <2>1, <2>2, AppendShows
<1> QED BY <1>1, <1>2

(* The field a line of a query's response sets.                            *)
FieldOf(l) == IF l.kind = "paired" THEN "pairId" ELSE "connId"

NoId(f) == IF f = "devId" THEN 0 ELSE -1

LEMMA NewRecordHasNoId ==
  ASSUME NEW h, NEW f \in Fields
  PROVE  NewRecord(h)[f] = NoId(f)
BY DEF Fields, NewRecord, NoId

LEMMA LineSets ==
  ASSUME NEW s, NEW u, NEW l, IsSet(s, u, l.hdl, FieldOf(l), l.id)
  PROVE  /\ \A id : Shows(s, l.hdl, FieldOf(l), id) <=> Listed(u, l.hdl) /\ id = l.id
         /\ \A h, id : \A e \in Fields :
             h # l.hdl \/ e # FieldOf(l) => (Shows(s, h, e, id) <=> Shows(u, h, e, id))
         /\ BT_DevMngmt_isFull(s) <=> BT_DevMngmt_isFull(u)
<1>1. \A g, x : \A f \in Fields : IsSet(s, u, g, f, x) =>
         /\ \A id : Shows(s, g, f, id) <=> Listed(u, g) /\ id = x
         /\ \A h, id : \A e \in Fields :
             h # g \/ e # f => (Shows(s, h, e, id) <=> Shows(u, h, e, id))
         /\ BT_DevMngmt_isFull(s) <=> BT_DevMngmt_isFull(u)
  BY SetShows
<1>2. FieldOf(l) \in Fields
  BY DEF FieldOf, Fields
<1> QED BY <1>1, <1>2

LEMMA LineShows ==
  ASSUME NEW t \in Table, IsCompact(t), NEW l \in Line, NEW s, s = TakeLine(t, l)
  PROVE  /\ \A h, id : \A e \in Fields :
              Shows(s, h, e, id) <=>
                IF h = l.hdl /\ e = FieldOf(l)
                THEN id = l.id /\ (Listed(t, h) \/ ~BT_DevMngmt_isFull(t))
                ELSE \/ Shows(t, h, e, id)
                     \/ h = l.hdl /\ ~Listed(t, h) /\ ~BT_DevMngmt_isFull(t) /\ id = NoId(e)
         /\ BT_DevMngmt_isFull(t) => BT_DevMngmt_isFull(s)
<1> DEFINE u == EnsureListed(t, l.hdl)
<1>1. l.hdl \in Handle
  BY DEF Line, Handle
<1>2. u \in Table
  BY <1>1, AppendKeepsTable
<1>3. /\ \A h, id : \A e \in Fields :
           Shows(u, h, e, id) <=> IF h = l.hdl /\ ~Listed(t, l.hdl)
                                  THEN ~BT_DevMngmt_isFull(t) /\ id = NewRecord(l.hdl)[e]
                                  ELSE Shows(t, h, e, id)
      /\ \A h : Listed(u, h) <=> Listed(t, h) \/ (h = l.hdl /\ ~BT_DevMngmt_isFull(t))
      /\ BT_DevMngmt_isFull(t) => BT_DevMngmt_isFull(u)
  BY <1>1, EnsureListedShows
<1> HIDE DEF u
<1>4. IsSet(s, u, l.hdl, FieldOf(l), l.id)
  <2>1. s = IF l.kind = "paired" THEN SetPairId(u, l.hdl, l.id) ELSE SetConnId(u, l.hdl, l.id)
    BY DEF TakeLine, u
  <2>2. CASE l.kind = "paired"
    <3>1. l.id \in PairId
      BY <2>2 DEF Line
    <3> QED BY <1>2, <2>1, <2>2, <3>1, WritesSet DEF FieldOf
  <2>3. CASE l.kind # "paired"
    <3>1. l.id \in ConnId
      BY <2>3 DEF Line
    <3> QED BY <1>2, <2>1, <2>3, <3>1, WritesSet DEF FieldOf
  <2> QED BY <2>2, <2>3
<1>5. /\ \A id : Shows(s, l.hdl, FieldOf(l), id) <=> Listed(u, l.hdl) /\ id = l.id
      /\ \A h, id : \A e \in Fields :
           h # l.hdl \/ e # FieldOf(l) => (Shows(s, h, e, id) <=> Shows(u, h, e, id))
      /\ BT_DevMngmt_isFull(s) <=> BT_DevMngmt_isFull(u)
  BY <1>4, LineSets
<1>6. \A h, id : \A e \in Fields : Shows(t, h, e, id) => Listed(t, h)
  BY DEF Shows, IsFirst, Listed
<1> QED BY <1>3, <1>5, <1>6, NewRecordHasNoId

LEMMA ShownIdsAreTyped ==
  ASSUME NEW t \in Table, NEW h, NEW id
  PROVE  /\ Shows(t, h, "devId", id) => id = 0 \/ id \in DevId
         /\ Shows(t, h, "pairId", id) => id = -1 \/ id \in PairId
         /\ Shows(t, h, "connId", id) => id = -1 \/ id \in ConnId
<1>1. \A i \in Slot : IsFirst(t, i, h) => t[i] \in DevInfo
  BY DEF IsFirst, Holds, Table
<1> QED BY <1>1 DEF Shows, DevInfo

LEMMA CleanShowsNothing ==
  ASSUME NEW h, NEW f, NEW id
  PROVE  ~Shows(BT_DevMngmt_Clean, h, f, id)
BY DEF Shows, BT_DevMngmt_Clean, IsFirst, Holds

(* What the helpers that write one id leave to be found.                   *)
OnlySets(s, t, g, f, x) ==
  /\ \A h, id : \A e \in Fields :
       h # g \/ e # f => (Shows(s, h, e, id) <=> Shows(t, h, e, id))
  /\ \A id : Shows(s, g, f, id) => id = x
  /\ BT_DevMngmt_isFull(s) <=> BT_DevMngmt_isFull(t)

LEMMA WritesOnlySet ==
  ASSUME NEW t \in Table, NEW g
  PROVE  /\ \A x \in PairId \cup {-1} : OnlySets(SetPairId(t, g, x), t, g, "pairId", x)
         /\ \A x \in ConnId \cup {-1} : OnlySets(SetConnId(t, g, x), t, g, "connId", x)
         /\ \A x \in DevId \cup {0} : OnlySets(SetDevId(t, g, x), t, g, "devId", x)
<1>1. \A s, x : \A f \in Fields : IsSet(s, t, g, f, x) => OnlySets(s, t, g, f, x)
  BY SetShows, SMTT(60) DEF OnlySets
<1>2. {"pairId", "connId", "devId"} \subseteq Fields
  BY DEF Fields
<1> QED BY <1>1, <1>2, WritesSet

-----------------------------------------------------------------------------
(* What a step of the three actors changes in what the list shows.         *)

(* A query takes the line l into the list.                                 *)
TakesLine(l) ==
  /\ l \in burst.todo
  /\ burst' = [burst EXCEPT !.todo = @ \ {l}]
  /\ m_arrBTDev' = TakeLine(m_arrBTDev, l)

Gains(h, f, id) ==
  \/ ATRsp_QBTSTATE_Line /\ \E l \in burst.todo : l.hdl = h /\ FieldOf(l) = f /\ l.id = id
  \/ OnURCHandler_BTScan /\ f = "devId" /\ Head(urcs).hdl = h /\ Head(urcs).id = id
  \/ ScanCallbackReturns /\ f = "devId" /\ urc.hdl = h /\ urc.id = id

Loses(h, f) ==
  \/ RIL_BT_Initialize \/ RIL_BT_StartScan
  \/ ATRsp_QBTSTATE_Line /\ \E l : TakesLine(l) /\ l.hdl = h /\ FieldOf(l) = f
  \/ UnpairReturns /\ app.hdl = h /\ f \in {"pairId", "connId"}
  \/ OnURCHandler_BTPairCnf_Fail /\ Head(urcs).hdl = h /\ f = "pairId"
  \/ OnURCHandler_BTDisconn /\ Head(urcs).hdl = h /\ f = "connId"
  \/ OnURCHandler_BTScan /\ f = "devId"

(* What a step makes of the list: a device shows no new id but one it      *)
(* gains, keeps what it shows unless it loses it, and room is only made by *)
(* emptying the list.                                                      *)
ShownChange ==
  /\ \A h \in Dev, f \in Fields : \A id :
       id # NoId(f) /\ Shows(m_arrBTDev', h, f, id)
         => Shows(m_arrBTDev, h, f, id) \/ Gains(h, f, id)
  /\ \A h \in Dev, f \in Fields : \A id :
       Shows(m_arrBTDev, h, f, id) => Shows(m_arrBTDev', h, f, id) \/ Loses(h, f)
  /\ \/ BT_DevMngmt_isFull(m_arrBTDev) => BT_DevMngmt_isFull(m_arrBTDev')
     \/ RIL_BT_Initialize \/ RIL_BT_StartScan

LEMMA SummaryShows ==
  ASSUME TypeOK, ListInv, NEW st \in {0, 1, 5}, ATRsp_QBTSTATE_Summary(st)
  PROVE  ShownChange
<1> DEFINE t == EnsureListed(m_arrBTDev, EmptyHdl)
<1>1. m_arrBTDev \in Table /\ IsCompact(m_arrBTDev) /\ EmptyHdl \in Handle
  BY ListInvOfShape DEF TypeOK, RilTypeOK, Handle
<1>2. t \in Table
  BY <1>1, AppendKeepsTable
<1>3. \A h \in Dev : h # EmptyHdl
  BY EmptyIsNoDevice
<1>4. /\ \A h, id : \A e \in Fields :
           h # EmptyHdl => (Shows(t, h, e, id) <=> Shows(m_arrBTDev, h, e, id))
      /\ BT_DevMngmt_isFull(m_arrBTDev) => BT_DevMngmt_isFull(t)
  BY <1>1, EnsureListedShows
<1> HIDE DEF t
<1>5. CASE m_arrBTDev' = m_arrBTDev
  BY <1>5 DEF ShownChange
<1>6. CASE m_arrBTDev' = SetPairId(t, EmptyHdl, -1)
  <2>1. OnlySets(m_arrBTDev', t, EmptyHdl, "pairId", -1)
    BY <1>2, <1>6, WritesOnlySet
  <2> QED BY <1>3, <1>4, <2>1 DEF OnlySets, ShownChange
<1>7. CASE m_arrBTDev' = SetConnId(t, EmptyHdl, -1)
  <2>1. OnlySets(m_arrBTDev', t, EmptyHdl, "connId", -1)
    BY <1>2, <1>7, WritesOnlySet
  <2> QED BY <1>3, <1>4, <2>1 DEF OnlySets, ShownChange
<1> QED BY <1>5, <1>6, <1>7 DEF ATRsp_QBTSTATE_Summary, t

LEMMA TakenLineShows ==
  ASSUME TypeOK, ListInv, NEW l, TakesLine(l)
  PROVE  /\ \A h, id : \A e \in Fields :
              Shows(m_arrBTDev', h, e, id) <=>
                IF h = l.hdl /\ e = FieldOf(l)
                THEN id = l.id /\ (Listed(m_arrBTDev, h) \/ ~BT_DevMngmt_isFull(m_arrBTDev))
                ELSE \/ Shows(m_arrBTDev, h, e, id)
                     \/ /\ h = l.hdl /\ ~Listed(m_arrBTDev, h) /\ ~BT_DevMngmt_isFull(m_arrBTDev)
                        /\ id = NoId(e)
         /\ BT_DevMngmt_isFull(m_arrBTDev) => BT_DevMngmt_isFull(m_arrBTDev')
         /\ ~BT_DevMngmt_isFull(m_arrBTDev') => Shows(m_arrBTDev', l.hdl, FieldOf(l), l.id)
<1>1. m_arrBTDev \in Table /\ IsCompact(m_arrBTDev)
  BY ListInvOfShape DEF TypeOK, RilTypeOK
<1>2. l \in Line /\ m_arrBTDev' = TakeLine(m_arrBTDev, l)
  BY DEF TakesLine, TypeOK, ChannelTypeOK
<1>3. /\ \A h, id : \A e \in Fields :
            Shows(m_arrBTDev', h, e, id) <=>
              IF h = l.hdl /\ e = FieldOf(l)
              THEN id = l.id /\ (Listed(m_arrBTDev, h) \/ ~BT_DevMngmt_isFull(m_arrBTDev))
              ELSE \/ Shows(m_arrBTDev, h, e, id)
                   \/ /\ h = l.hdl /\ ~Listed(m_arrBTDev, h) /\ ~BT_DevMngmt_isFull(m_arrBTDev)
                      /\ id = NoId(e)
      /\ BT_DevMngmt_isFull(m_arrBTDev) => BT_DevMngmt_isFull(m_arrBTDev')
  BY <1>1, <1>2, LineShows
<1>4. FieldOf(l) \in Fields
  BY DEF FieldOf, Fields
<1> QED BY <1>3, <1>4

LEMMA LineStepShows ==
  ASSUME TypeOK, ListInv, ATRsp_QBTSTATE_Line
  PROVE  ShownChange
<1>1. PICK l : TakesLine(l)
  BY DEF ATRsp_QBTSTATE_Line, TakesLine
<1>2. l \in burst.todo
  BY <1>1 DEF TakesLine
<1>3. ASSUME NEW h \in Dev, NEW f \in Fields, NEW id, id # NoId(f),
             Shows(m_arrBTDev', h, f, id)
      PROVE  Shows(m_arrBTDev, h, f, id) \/ Gains(h, f, id)
  BY <1>1, <1>2, <1>3, TakenLineShows DEF Gains
<1>4. ASSUME NEW h \in Dev, NEW f \in Fields, NEW id, Shows(m_arrBTDev, h, f, id)
      PROVE  Shows(m_arrBTDev', h, f, id) \/ Loses(h, f)
  BY <1>1, <1>4, TakenLineShows DEF Loses
<1> QED BY <1>1, <1>3, <1>4, TakenLineShows DEF ShownChange

LEMMA SameListShows ==
  ASSUME m_arrBTDev' = m_arrBTDev
  PROVE  ShownChange
BY DEF ShownChange

LEMMA UnpairShows ==
  ASSUME TypeOK, UnpairReturns
  PROVE  /\ ShownChange
         /\ \A f \in {"pairId", "connId"} : \A id : Shows(m_arrBTDev', app.hdl, f, id) => id = -1
<1> DEFINE t == SetPairId(m_arrBTDev, app.hdl, -1)
<1>1. m_arrBTDev \in Table
  BY DEF TypeOK, RilTypeOK
<1>2. t \in Table
  BY <1>1, WritesKeepTable
<1>3. OnlySets(t, m_arrBTDev, app.hdl, "pairId", -1)
  BY <1>1, WritesOnlySet
<1> HIDE DEF t
<1>4. OnlySets(m_arrBTDev', t, app.hdl, "connId", -1)
  <2>1. m_arrBTDev' = SetConnId(t, app.hdl, -1)
    BY DEF UnpairReturns, Unpaired, t
  <2> QED BY <1>2, <2>1, WritesOnlySet
<1>5. \A f \in {"pairId", "connId"} : \A id : Shows(m_arrBTDev', app.hdl, f, id) => id = -1
  BY <1>3, <1>4 DEF OnlySets, Fields
<1>6. {"pairId", "connId"} \subseteq Fields
  BY DEF Fields
<1>7. ShownChange
  <2>1. ASSUME NEW h \in Dev, NEW f \in Fields, NEW id, id # NoId(f), Shows(m_arrBTDev', h, f, id)
        PROVE  Shows(m_arrBTDev, h, f, id)
    BY <1>3, <1>4, <2>1 DEF OnlySets, NoId
  <2>2. ASSUME NEW h \in Dev, NEW f \in Fields, NEW id, Shows(m_arrBTDev, h, f, id)
        PROVE  Shows(m_arrBTDev', h, f, id) \/ Loses(h, f)
    BY <1>3, <1>4, <2>2 DEF OnlySets, Loses
  <2> QED BY <1>3, <1>4, <2>1, <2>2 DEF OnlySets, ShownChange
<1> QED BY <1>5, <1>7

LEMMA AppStepShows ==
  ASSUME TypeOK, AppCalls \/ AppReturns
  PROVE  ShownChange
<1>1. CASE RIL_BT_Initialize \/ RIL_BT_StartScan
  <2>1. m_arrBTDev' = BT_DevMngmt_Clean
    BY <1>1 DEF RIL_BT_Initialize, RIL_BT_StartScan, CleanAndQuery
  <2> QED BY <1>1, <2>1, CleanShowsNothing DEF ShownChange, Loses
<1>2. CASE UnpairReturns
  BY <1>2, UnpairShows
<1>3. CASE m_arrBTDev' = m_arrBTDev
  BY <1>3, SameListShows
<1> QED BY <1>1, <1>2, <1>3
        DEF AppCalls, AppReturns, RIL_BT_QueryState, RIL_BT_PairReq, RIL_BT_Unpair,
            RIL_BT_ConnReq, RIL_BT_Disconnect, SendFor, SendScan, CommandOk, CommandFails, ril

LEMMA UrcStepShows ==
  ASSUME TypeOK, ListInv, UrcStep
  PROVE  /\ ShownChange
         /\ OnURCHandler_BTPairCnf_Fail =>
              \A id : Shows(m_arrBTDev', Head(urcs).hdl, "pairId", id) => id = -1
         /\ OnURCHandler_BTDisconn =>
              \A id : Shows(m_arrBTDev', Head(urcs).hdl, "connId", id) => id = -1
<1>0. m_arrBTDev \in Table /\ IsCompact(m_arrBTDev) /\ {"pairId", "connId", "devId"} \subseteq Fields
  BY ListInvOfShape DEF TypeOK, RilTypeOK, Fields
<1> DEFINE g == Head(urcs).hdl
<1>1. CASE OnURCHandler_BTScan
  <2>1. Head(urcs) \in Urc /\ Head(urcs).type = "found"
    BY <1>1, NextUrcIsTyped DEF TypeOK, OnURCHandler_BTScan, NextUrc
  <2>2. Head(urcs).id \in DevId
    BY <2>1 DEF Urc
  <2>3. m_arrBTDev' = SetDevId(m_arrBTDev, g, Head(urcs).id)
    BY <1>1 DEF OnURCHandler_BTScan
  <2>4. OnlySets(m_arrBTDev', m_arrBTDev, g, "devId", Head(urcs).id)
    BY <1>0, <2>2, <2>3, WritesOnlySet
  <2>5. ASSUME NEW h \in Dev, NEW f \in Fields, NEW id, id # NoId(f), Shows(m_arrBTDev', h, f, id)
        PROVE  Shows(m_arrBTDev, h, f, id) \/ Gains(h, f, id)
    BY <1>1, <2>4, <2>5 DEF OnlySets, Gains
  <2>6. ASSUME NEW h \in Dev, NEW f \in Fields, NEW id, Shows(m_arrBTDev, h, f, id)
        PROVE  Shows(m_arrBTDev', h, f, id) \/ Loses(h, f)
    BY <1>1, <2>4, <2>6 DEF OnlySets, Loses
  <2>7. ShownChange
    BY <2>4, <2>5, <2>6 DEF OnlySets, ShownChange
  <2> QED BY <1>1, <2>1, <2>7
          DEF OnURCHandler_BTPairCnf_Fail, OnURCHandler_BTDisconn, NextUrc
<1>2. CASE ScanCallbackReturns
  <2> DEFINE r == [NewRecord(urc.hdl) EXCEPT !.devId = urc.id]
  <2>1. urc.hdl \in Handle /\ urc.id \in DevId
    BY <1>2 DEF ScanCallbackReturns, TypeOK, UrcTypeOK, UrcState, Handle
  <2>2. r \in DevInfo /\ r.devHdl = urc.hdl
    BY <2>1, NewRecordIsTyped
  <2>3. \A f \in Fields : r[f] = NoId(f) \/ (f = "devId" /\ r[f] = urc.id)
    BY DEF Fields, NewRecord, NoId
  <2>4. m_arrBTDev' = m_arrBTDev \/ m_arrBTDev' = BT_DevMngmt_Append(m_arrBTDev, r)
    BY <1>2 DEF ScanCallbackReturns
  <2> HIDE DEF r
  <2>5. ASSUME m_arrBTDev' = BT_DevMngmt_Append(m_arrBTDev, r)
        PROVE  ShownChange
    <3>1. /\ \A h, id : \A e \in Fields :
               Shows(m_arrBTDev', h, e, id) <=>
                 IF h = r.devHdl /\ ~Listed(m_arrBTDev, h)
                 THEN ~BT_DevMngmt_isFull(m_arrBTDev) /\ id = r[e]
                 ELSE Shows(m_arrBTDev, h, e, id)
          /\ BT_DevMngmt_isFull(m_arrBTDev) => BT_DevMngmt_isFull(m_arrBTDev')
      BY <1>0, <2>2, <2>5, AppendShows
    <3>2. \A h, id : \A e \in Fields : Shows(m_arrBTDev, h, e, id) => Listed(m_arrBTDev, h)
      BY DEF Shows, IsFirst, Listed
    <3>3. ASSUME NEW h \in Dev, NEW f \in Fields, NEW id, id # NoId(f), Shows(m_arrBTDev', h, f, id)
          PROVE  Shows(m_arrBTDev, h, f, id) \/ Gains(h, f, id)
      <4>1. Shows(m_arrBTDev, h, f, id) \/ (h = r.devHdl /\ id = r[f])
        BY <3>1, <3>3
      <4>2. h = r.devHdl /\ id = r[f] => f = "devId" /\ urc.hdl = h /\ urc.id = id
        BY <2>2, <2>3, <3>3
      <4>3. f = "devId" /\ urc.hdl = h /\ urc.id = id => Gains(h, f, id)
        BY <1>2 DEF Gains
      <4> QED BY <4>1, <4>2, <4>3
    <3> QED BY <3>1, <3>2, <3>3 DEF ShownChange
  <2>6. ShownChange
    BY <2>4, <2>5, SameListShows
  <2>7. ~OnURCHandler_BTPairCnf_Fail /\ ~OnURCHandler_BTDisconn
    BY <1>2 DEF ScanCallbackReturns, OnURCHandler_BTPairCnf_Fail, OnURCHandler_BTDisconn, NextUrc
  <2> QED BY <2>6, <2>7
<1>3. CASE OnURCHandler_BTPairCnf_Fail
  <2>1. OnlySets(m_arrBTDev', m_arrBTDev, g, "pairId", -1)
    BY <1>0, <1>3, WritesOnlySet DEF OnURCHandler_BTPairCnf_Fail
  <2>2. ShownChange
    BY <1>0, <1>3, <2>1 DEF OnlySets, ShownChange, Loses, NoId
  <2> QED BY <1>3, <2>1, <2>2 DEF OnlySets, OnURCHandler_BTPairCnf_Fail, OnURCHandler_BTDisconn, NextUrc
<1>4. CASE OnURCHandler_BTDisconn
  <2>1. OnlySets(m_arrBTDev', m_arrBTDev, g, "connId", -1)
    BY <1>0, <1>4, WritesOnlySet DEF OnURCHandler_BTDisconn
  <2>2. ShownChange
    BY <1>0, <1>4, <2>1 DEF OnlySets, ShownChange, Loses, NoId
  <2> QED BY <1>4, <2>1, <2>2 DEF OnlySets, OnURCHandler_BTPairCnf_Fail, OnURCHandler_BTDisconn, NextUrc
<1>5. CASE m_arrBTDev' = m_arrBTDev /\ ~OnURCHandler_BTPairCnf_Fail /\ ~OnURCHandler_BTDisconn
  BY <1>5, SameListShows
<1> QED BY <1>1, <1>2, <1>3, <1>4, <1>5
        DEF UrcStep, UrcIgnored, OnURCHandler_BTPairCnf_Success, OnURCHandler_BTConn_Success,
            QueryOnUrc, ril

LEMMA StepShows ==
  ASSUME TypeOK, ListInv, [Next]_vars
  PROVE  ShownChange
<1>1. CASE QueryStep
  <2>1. CASE ATRsp_QBTSTATE_OK \/ QueryFails
    BY <2>1, SameListShows DEF ATRsp_QBTSTATE_OK, QueryFails, ril
  <2> QED BY <1>1, <2>1, SummaryShows, LineStepShows DEF QueryStep
<1>2. CASE ModuleStep \/ UNCHANGED vars
  <2>1. m_arrBTDev' = m_arrBTDev
    BY <1>2 DEF ModuleStep, Pairs, PairingFails, Connects, Finds, Disconnects,
       ConnectingFails, ScanEnds, Notify, ril, vars
  <2> QED BY <2>1, SameListShows
<1> QED BY <1>1, <1>2, AppStepShows, UrcStepShows DEF Next

-----------------------------------------------------------------------------
(* What the steps do to the rest of the state.                             *)

Empties == RIL_BT_Initialize \/ RIL_BT_StartScan

Unpairing(h) == app.pc = "unpaired" /\ app.hdl = h

LEMMA EmptiesShowsNothing ==
  ASSUME Empties
  PROVE  \A h, f, id : ~Shows(m_arrBTDev', h, f, id)
<1>1. m_arrBTDev' = BT_DevMngmt_Clean
  BY DEF Empties, RIL_BT_Initialize, RIL_BT_StartScan, CleanAndQuery
<1> QED BY <1>1, CleanShowsNothing

LEMMA DoubtsStay ==
  ASSUME [Next]_vars
  PROVE  /\ "badIds" \in doubt => "badIds" \in doubt' \/ Empties
         /\ "lateScan" \in doubt => "lateScan" \in doubt' \/ (Empties /\ ~FoundPending)
         /\ "outdated" \in doubt => "outdated" \in doubt' \/ ATRsp_QBTSTATE_OK
<1>1. CASE QueryStep
  BY <1>1 DEF QueryStep, ATRsp_QBTSTATE_Summary, ATRsp_QBTSTATE_Line, ATRsp_QBTSTATE_OK, QueryFails
<1>2. CASE Empties
  BY <1>2 DEF Empties, RIL_BT_Initialize, RIL_BT_StartScan, DoubtAfterClean
<1>3. CASE AppReturns \/ (AppCalls /\ ~Empties)
  BY <1>3 DEF AppReturns, AppCalls, Empties, SendScan, CommandOk, CommandFails, UnpairReturns, LosesId,
     RIL_BT_QueryState, RIL_BT_PairReq, RIL_BT_Unpair, RIL_BT_ConnReq, RIL_BT_Disconnect, SendFor
<1>4. CASE UrcStep
  BY <1>4 DEF UrcStep, UrcIgnored, OnURCHandler_BTScan, ScanCallbackReturns,
     OnURCHandler_BTPairCnf_Success, OnURCHandler_BTPairCnf_Fail, OnURCHandler_BTConn_Success,
     OnURCHandler_BTDisconn, QueryOnUrc, LosesId
<1>5. CASE ModuleStep \/ UNCHANGED vars
  BY <1>5 DEF ModuleStep, Pairs, PairingFails, Connects, Finds, Disconnects, ConnectingFails,
     ScanEnds, Notify, vars
<1> QED BY <1>1, <1>2, <1>3, <1>4, <1>5 DEF Next

LEMMA UnpairingStays ==
  ASSUME TypeOK, ChannelInv, [Next]_vars, app.pc = "unpaired"
  PROVE  app' = app \/ UnpairReturns
<1>1. at # "app" /\ app.pc # "idle"
  BY DEF ChannelInv
<1>2. CASE QueryStep
  BY <1>1, <1>2 DEF QueryStep, ATRsp_QBTSTATE_Summary, ATRsp_QBTSTATE_Line, ATRsp_QBTSTATE_OK,
     QueryFails, QueryInFlight, Resume
<1>3. CASE AppReturns
  BY <1>1, <1>3 DEF AppReturns, SendScan, CommandOk, CommandFails
<1>4. CASE AppCalls
  BY <1>1, <1>4 DEF AppCalls, RIL_BT_Initialize, RIL_BT_StartScan, RIL_BT_QueryState,
     RIL_BT_PairReq, RIL_BT_Unpair, RIL_BT_ConnReq, RIL_BT_Disconnect, SendFor
<1>5. CASE UrcStep
  BY <1>5 DEF UrcStep, UrcIgnored, OnURCHandler_BTScan, ScanCallbackReturns,
     OnURCHandler_BTPairCnf_Success, OnURCHandler_BTPairCnf_Fail, OnURCHandler_BTConn_Success,
     OnURCHandler_BTDisconn, QueryOnUrc
<1>6. CASE ModuleStep \/ UNCHANGED vars
  BY <1>6 DEF ModuleStep, Pairs, PairingFails, Connects, Finds, Disconnects, ConnectingFails,
     ScanEnds, Notify, vars
<1> QED BY <1>2, <1>3, <1>4, <1>5, <1>6 DEF Next

(* A notification waits until it is its turn.                              *)
LEMMA QueueChanges ==
  ASSUME [Next]_vars
  PROVE  \/ urcs' = urcs
         \/ UrcStep /\ urc.pc = "idle" /\ urcs # <<>> /\ urcs' = Tail(urcs)
         \/ ModuleStep /\ \E type, h, id : Notify(type, h, id)
<1>1. CASE QueryStep
  BY <1>1 DEF QueryStep, ATRsp_QBTSTATE_Summary, ATRsp_QBTSTATE_Line, ATRsp_QBTSTATE_OK,
     QueryFails
<1>2. CASE AppReturns
  BY <1>2 DEF AppReturns, SendScan, CommandOk, CommandFails, UnpairReturns
<1>3. CASE AppCalls
  BY <1>3 DEF AppCalls, RIL_BT_Initialize, RIL_BT_StartScan, RIL_BT_QueryState,
     RIL_BT_PairReq, RIL_BT_Unpair, RIL_BT_ConnReq, RIL_BT_Disconnect, SendFor
<1>4. CASE UrcStep
  BY <1>4 DEF UrcStep, UrcIgnored, OnURCHandler_BTScan, ScanCallbackReturns, NextUrc,
     OnURCHandler_BTPairCnf_Success, OnURCHandler_BTPairCnf_Fail, OnURCHandler_BTConn_Success,
     OnURCHandler_BTDisconn, QueryOnUrc
<1>5. CASE ModuleStep
  BY <1>5 DEF ModuleStep, Pairs, PairingFails, Connects, Finds, Disconnects, ConnectingFails,
     ScanEnds
<1> QED BY <1>1, <1>2, <1>3, <1>4, <1>5 DEF Next, vars

LEMMA PendingStays ==
  ASSUME UrcTypeOK, [Next]_vars, NEW type, NEW h, Pending(type, h)
  PROVE  \/ Pending(type, h)'
         \/ /\ UrcStep /\ urcs # <<>> /\ urcs' = Tail(urcs)
            /\ Head(urcs).type = type /\ Head(urcs).hdl = h
<1>1. PICK k \in 1 .. Len(urcs) : urcs[k].type = type /\ urcs[k].hdl = h
  BY DEF Pending
<1>2. CASE urcs' = urcs
  BY <1>1, <1>2 DEF Pending
<1>3. CASE UrcStep /\ urcs # <<>> /\ urcs' = Tail(urcs)
  <2>1. CASE k = 1
    BY <1>1, <1>3, <2>1
  <2>2. CASE k # 1
    <3>1. k - 1 \in 1 .. Len(urcs') /\ urcs'[k - 1] = urcs[k]
      BY <1>1, <1>3, <2>2 DEF UrcTypeOK
    <3> QED BY <1>1, <3>1 DEF Pending
  <2> QED BY <2>1, <2>2
<1>4. CASE \E ty, g, id : Notify(ty, g, id)
  <2>1. k \in 1 .. Len(urcs') /\ urcs'[k] = urcs[k]
    BY <1>1, <1>4 DEF Notify, UrcTypeOK
  <2> QED BY <1>1, <2>1 DEF Pending
<1> QED BY <1>2, <1>3, <1>4, QueueChanges

(* The module executes a command; an unpairing whose answer fails is in    *)
(* doubt.                                                                  *)
CommandExecutes ==
  /\ ModuleExecutes
  /\ CommandOk \/ (CommandFails /\ (app.pc = "unpair" => "badIds" \in doubt'))

(* What the module may do to its pairings and connections in a step.       *)
LEMMA ModuleChanges ==
  ASSUME TypeOK, ChannelInv, [Next]_vars
  PROVE  \/ UNCHANGED module
         \/ ModuleStep
         \/ CommandExecutes /\ at = "app"
<1>1. CASE QueryStep
  BY <1>1 DEF QueryStep, ATRsp_QBTSTATE_Summary, ATRsp_QBTSTATE_Line, ATRsp_QBTSTATE_OK,
     QueryFails
<1>2. CASE AppReturns
  BY <1>2 DEF AppReturns, SendScan, CommandOk, CommandFails, UnpairReturns, CommandExecutes
<1>3. CASE AppCalls
  BY <1>3 DEF AppCalls, RIL_BT_Initialize, RIL_BT_StartScan, RIL_BT_QueryState,
     RIL_BT_PairReq, RIL_BT_Unpair, RIL_BT_ConnReq, RIL_BT_Disconnect, SendFor
<1>4. CASE UrcStep
  BY <1>4 DEF UrcStep, UrcIgnored, OnURCHandler_BTScan, ScanCallbackReturns,
     OnURCHandler_BTPairCnf_Success, OnURCHandler_BTPairCnf_Fail, OnURCHandler_BTConn_Success,
     OnURCHandler_BTDisconn, QueryOnUrc
<1> QED BY <1>1, <1>2, <1>3, <1>4 DEF Next, vars

-----------------------------------------------------------------------------
(* What a query has still to deliver is what the module has, since nothing *)
(* changes there while it is in flight.                                    *)
TodoIsCurrent ==
  \A l \in burst.todo : IF l.kind = "paired" THEN pair[l.id] = l.hdl ELSE conn[l.id] = l.hdl

LEMMA TodoOfNewQuery ==
  ASSUME NEW owner, SendQuery(owner), UNCHANGED module
  PROVE  TodoIsCurrent'
<1>1. \A l \in StateLines : IF l.kind = "paired" THEN pair[l.id] = l.hdl ELSE conn[l.id] = l.hdl
  BY DEF StateLines
<1> QED BY <1>1 DEF TodoIsCurrent, SendQuery, module

LEMMA TodoChanges ==
  ASSUME TypeOK, [Next]_vars
  PROVE  \/ burst'.todo \subseteq burst.todo
         \/ burst' = NoBurst
         \/ UNCHANGED module /\ \E owner : SendQuery(owner)
<1>0. burst \in [summary : BOOLEAN, todo : SUBSET Line, wiped : BOOLEAN]
  BY DEF TypeOK, ChannelTypeOK
<1>1. CASE QueryStep
  BY <1>0, <1>1 DEF QueryStep, ATRsp_QBTSTATE_Summary, ATRsp_QBTSTATE_Line, ATRsp_QBTSTATE_OK,
     QueryFails
<1>2. CASE AppReturns
  BY <1>0, <1>2 DEF AppReturns, SendScan, CommandOk, CommandFails, UnpairReturns, LosesId
<1>3. CASE AppCalls
  <2>1. CASE RIL_BT_Initialize
    BY <1>0, <2>1 DEF RIL_BT_Initialize, CleanAndQuery
  <2>2. CASE RIL_BT_StartScan
    BY <1>0, <2>2 DEF RIL_BT_StartScan, CleanAndQuery
  <2>3. CASE RIL_BT_QueryState
    BY <2>3 DEF RIL_BT_QueryState
  <2>4. CASE burst' = burst
    BY <2>4
  <2> QED BY <1>3, <2>1, <2>2, <2>3, <2>4 DEF AppCalls, RIL_BT_PairReq, RIL_BT_Unpair,
          RIL_BT_ConnReq, RIL_BT_Disconnect, SendFor
<1>4. CASE UrcStep
  BY <1>0, <1>4 DEF UrcStep, UrcIgnored, OnURCHandler_BTScan, ScanCallbackReturns,
     OnURCHandler_BTPairCnf_Success, OnURCHandler_BTPairCnf_Fail, OnURCHandler_BTConn_Success,
     OnURCHandler_BTDisconn, QueryOnUrc, LosesId, channel
<1>5. CASE ModuleStep \/ UNCHANGED vars
  BY <1>5 DEF ModuleStep, Pairs, PairingFails, Connects, Finds, Disconnects, ConnectingFails,
     ScanEnds, Notify, vars, channel
<1> QED BY <1>1, <1>2, <1>3, <1>4, <1>5 DEF Next

(* A query in flight holds the module still.                               *)
LEMMA QueryHoldsModule ==
  ASSUME TypeOK, ChannelInv, [Next]_vars
  PROVE  \/ UNCHANGED <<pair, conn, scanned>> /\ (scanning' = scanning \/ ~QueryInFlight)
         \/ burst = NoBurst /\ burst' = burst /\ ~QueryInFlight
<1>1. CASE ModuleStep
  <2>1. ~QueryInFlight /\ burst' = burst
    BY <1>1 DEF ModuleStep, Pairs, PairingFails, Connects, Finds, Disconnects, ConnectingFails,
       ScanEnds, Notify, channel
  <2> QED BY <2>1 DEF ChannelInv
<1>2. CASE CommandExecutes /\ at = "app"
  <2>1. ~QueryInFlight /\ burst' = burst
    BY <1>2 DEF CommandExecutes, CommandOk, CommandFails, ModuleExecutes, QueryInFlight
  <2> QED BY <2>1 DEF ChannelInv
<1> QED BY <1>1, <1>2, ModuleChanges DEF module

LEMMA TodoInductive ==
  ASSUME TypeOK, ChannelInv, TodoIsCurrent, [Next]_vars
  PROVE  TodoIsCurrent'
<1>1. CASE burst' = NoBurst
  BY <1>1 DEF NoBurst, TodoIsCurrent
<1>2. CASE UNCHANGED module /\ \E owner : SendQuery(owner)
  BY <1>2, TodoOfNewQuery
<1>3. CASE burst'.todo \subseteq burst.todo
  <2>1. burst' = NoBurst \/ UNCHANGED <<pair, conn>>
    BY QueryHoldsModule
  <2>2. CASE UNCHANGED <<pair, conn>>
    BY <1>3, <2>2 DEF TodoIsCurrent
  <2> QED BY <1>1, <2>1, <2>2
<1> QED BY <1>1, <1>2, <1>3, TodoChanges

(* Before RIL_BT_Initialize nothing is listed and nobody waits.            *)
IdleUntilReady ==
  ~ready => /\ m_arrBTDev = BT_DevMngmt_Clean
            /\ at = "none" /\ app.pc = "idle" /\ urc.pc = "idle"

LEMMA IdleInductive ==
  ASSUME ChannelInv, IdleUntilReady, [Next]_vars
  PROVE  IdleUntilReady'
<1> SUFFICES ASSUME ~ready' PROVE IdleUntilReady'
  BY DEF IdleUntilReady
<1>1. ~ready
  BY DEF Next, QueryStep, ATRsp_QBTSTATE_Summary, ATRsp_QBTSTATE_Line, ATRsp_QBTSTATE_OK, QueryFails,
     AppReturns, SendScan, CommandOk, CommandFails, UnpairReturns,
     AppCalls, RIL_BT_Initialize, RIL_BT_StartScan, RIL_BT_QueryState,
     RIL_BT_PairReq, RIL_BT_Unpair, RIL_BT_ConnReq, RIL_BT_Disconnect, SendFor,
     UrcStep, UrcIgnored, OnURCHandler_BTScan, ScanCallbackReturns,
     OnURCHandler_BTPairCnf_Success, OnURCHandler_BTPairCnf_Fail, OnURCHandler_BTConn_Success,
     OnURCHandler_BTDisconn, QueryOnUrc, IgnoresUrc,
     ModuleStep, Pairs, PairingFails, Connects, Finds, Disconnects, ConnectingFails,
     ScanEnds, Notify, ril, vars
<1>2. m_arrBTDev = BT_DevMngmt_Clean /\ at = "none" /\ app.pc = "idle" /\ urc.pc = "idle"
  BY <1>1 DEF IdleUntilReady
<1>3. UNCHANGED <<m_arrBTDev, at, app, urc>>
  <2>1. CASE QueryStep
    BY <1>2, <2>1 DEF QueryStep, ATRsp_QBTSTATE_Summary, ATRsp_QBTSTATE_Line, ATRsp_QBTSTATE_OK,
       QueryFails, QueryInFlight
  <2>2. CASE AppReturns
    BY <1>2, <2>2 DEF AppReturns, SendScan, CommandOk, CommandFails, UnpairReturns
  <2>3. CASE AppCalls
    BY <1>1, <2>3 DEF AppCalls, RIL_BT_Initialize, RIL_BT_StartScan, RIL_BT_QueryState,
       RIL_BT_PairReq, RIL_BT_Unpair, RIL_BT_ConnReq, RIL_BT_Disconnect, SendFor
  <2>4. CASE UrcStep
    BY <1>1, <1>2, <2>4 DEF UrcStep, UrcIgnored, OnURCHandler_BTScan, ScanCallbackReturns,
       OnURCHandler_BTPairCnf_Success, OnURCHandler_BTPairCnf_Fail, OnURCHandler_BTConn_Success,
       OnURCHandler_BTDisconn, QueryOnUrc, ril, channel
  <2>5. CASE ModuleStep \/ UNCHANGED vars
    BY <2>5 DEF ModuleStep, Pairs, PairingFails, Connects, Finds, Disconnects, ConnectingFails,
       ScanEnds, Notify, vars, ril, channel
  <2> QED BY <2>1, <2>2, <2>3, <2>4, <2>5 DEF Next
<1> QED BY <1>2, <1>3 DEF IdleUntilReady

-----------------------------------------------------------------------------
(* The invariants, in terms of what a lookup finds.                        *)

PairsShown ==
  \A h \in Dev, id \in PairId : Shows(m_arrBTDev, h, "pairId", id) =>
    pair[id] = h \/ Unpairing(h) \/ "badIds" \in doubt

ConnsShown ==
  \A h \in Dev, id \in ConnId : Shows(m_arrBTDev, h, "connId", id) =>
    conn[id] = h \/ Pending("disc", h) \/ Unpairing(h) \/ "badIds" \in doubt

ScansShown ==
  \A h \in Dev, id \in DevId : Shows(m_arrBTDev, h, "devId", id) =>
    scanned[id] = h \/ "lateScan" \in doubt

LEMMA IdsAreShown ==
  ASSUME TypeOK
  PROVE  /\ PairIdsAreCurrent <=> PairsShown
         /\ ConnIdsAreCurrent <=> ConnsShown
         /\ DevIdsAreCurrent <=> ScansShown
<1>1. /\ \A id \in PairId : id # -1
      /\ \A id \in ConnId : id # -1
      /\ \A id \in DevId : id # 0
  BY CountsAreNatural DEF PairId, ConnId, DevId
<1>2. ASSUME NEW h, NEW i \in Slot, IsFirst(m_arrBTDev, i, h)
      PROVE  /\ m_arrBTDev[i].devId = 0 \/ m_arrBTDev[i].devId \in DevId
             /\ m_arrBTDev[i].pairId = -1 \/ m_arrBTDev[i].pairId \in PairId
             /\ m_arrBTDev[i].connId = -1 \/ m_arrBTDev[i].connId \in ConnId
  BY <1>2 DEF IsFirst, Holds, TypeOK, RilTypeOK, Table, DevInfo
<1>3. PairIdsAreCurrent <=> PairsShown
  <2>1. ASSUME PairIdsAreCurrent PROVE PairsShown
    BY <1>1, <2>1 DEF PairIdsAreCurrent, PairsShown, Shows, Unpairing
  <2>2. ASSUME PairsShown PROVE PairIdsAreCurrent
    BY <1>2, <2>2 DEF PairIdsAreCurrent, PairsShown, Shows, Unpairing
  <2> QED BY <2>1, <2>2
<1>4. ConnIdsAreCurrent <=> ConnsShown
  <2>1. ASSUME ConnIdsAreCurrent PROVE ConnsShown
    BY <1>1, <2>1 DEF ConnIdsAreCurrent, ConnsShown, Shows, Unpairing
  <2>2. ASSUME ConnsShown PROVE ConnIdsAreCurrent
    BY <1>2, <2>2 DEF ConnIdsAreCurrent, ConnsShown, Shows, Unpairing
  <2> QED BY <2>1, <2>2
<1>5. DevIdsAreCurrent <=> ScansShown
  <2>1. ASSUME DevIdsAreCurrent PROVE ScansShown
    BY <1>1, <2>1 DEF DevIdsAreCurrent, ScansShown, Shows
  <2>2. ASSUME ScansShown PROVE DevIdsAreCurrent
    BY <1>2, <2>2 DEF DevIdsAreCurrent, ScansShown, Shows
  <2> QED BY <2>1, <2>2
<1> QED BY <1>3, <1>4, <1>5

(* An unpairing clears the ids of one device: the one whose record is      *)
(* about to lose them too, or the list comes in doubt.                     *)
LEMMA UnpairedIdIsKnown ==
  ASSUME TypeOK, CommandExecutes, app.pc = "unpair", "badIds" \notin doubt'
  PROVE  pair[app.id] = app.hdl /\ app'.pc = "unpaired" /\ app'.hdl = app.hdl
BY DEF CommandExecutes, CommandOk, UnpairsAnother, TypeOK, AppTypeOK, AppState

(* How an id of the module comes to name another device than before.       *)
LEMMA PairingsMove ==
  ASSUME TypeOK, ChannelInv, [Next]_vars, NEW id \in PairId, NEW h \in Dev, pair[id] = h
  PROVE  pair'[id] = h \/ Unpairing(h)' \/ "badIds" \in doubt'
<1>1. CASE ModuleStep
  <2>1. pair' = pair \/ \E d \in Dev : Pairs(d)
    BY <1>1 DEF ModuleStep, PairingFails, Connects, Finds, Disconnects, ConnectingFails, ScanEnds, module
  <2>2. ASSUME NEW d \in Dev, Pairs(d) PROVE pair'[id] = h
    <3>1. PICK i \in PairId : pair[i] = NULL /\ pair' = [pair EXCEPT ![i] = d]
      BY <2>2 DEF Pairs, FirstFree
    <3>2. h # NULL
      BY NullIsNothingElse DEF Handle
    <3> QED BY <3>1, <3>2 DEF TypeOK, ModuleTypeOK
  <2> QED BY <2>1, <2>2
<1>2. CASE CommandExecutes
  <2>1. CASE app.pc # "unpair"
    BY <1>2, <2>1 DEF CommandExecutes, ModuleExecutes, module
  <2>2. CASE app.pc = "unpair" /\ "badIds" \notin doubt'
    <3>1. pair[app.id] = app.hdl /\ app'.pc = "unpaired" /\ app'.hdl = app.hdl
      BY <1>2, <2>2, UnpairedIdIsKnown
    <3>2. pair' = [pair EXCEPT ![app.id] = NULL]
      BY <1>2, <2>2 DEF CommandExecutes, ModuleExecutes
    <3>3. CASE id = app.id
      BY <3>1, <3>3 DEF Unpairing
    <3>4. CASE id # app.id
      BY <3>2, <3>4 DEF TypeOK, ModuleTypeOK
    <3> QED BY <3>3, <3>4
  <2> QED BY <2>1, <2>2
<1>3. CASE UNCHANGED module
  BY <1>3 DEF module
<1> QED BY <1>1, <1>2, <1>3, ModuleChanges

LEMMA ConnectionsMove ==
  ASSUME TypeOK, ChannelInv, [Next]_vars, NEW id \in ConnId, NEW h \in Dev, conn[id] = h
  PROVE  conn'[id] = h \/ Pending("disc", h)' \/ Unpairing(h)' \/ "badIds" \in doubt'
<1>0. h # NULL
  BY NullIsNothingElse DEF Handle
<1>1. CASE ModuleStep
  <2>1. \/ conn' = conn
        \/ \E d \in Dev : Connects(d)
        \/ \E c \in ConnId : Disconnects(c)
    BY <1>1 DEF ModuleStep, PairingFails, Pairs, Finds, ConnectingFails, ScanEnds, module
  <2>2. ASSUME NEW d \in Dev, Connects(d) PROVE conn'[id] = h
    <3>1. PICK c \in ConnId : conn[c] = NULL /\ conn' = [conn EXCEPT ![c] = d]
      BY <2>2 DEF Connects, FirstFree
    <3> QED BY <1>0, <3>1 DEF TypeOK, ModuleTypeOK
  <2>3. ASSUME NEW c \in ConnId, Disconnects(c) PROVE conn'[id] = h \/ Pending("disc", h)'
    <3>1. conn' = [conn EXCEPT ![c] = NULL] /\ Notify("disc", conn[c], 0)
      BY <2>3 DEF Disconnects
    <3>2. CASE id # c
      BY <3>1, <3>2 DEF TypeOK, ModuleTypeOK
    <3>3. CASE id = c
      <4>1. urcs' = Append(urcs, [type |-> "disc", hdl |-> h, id |-> 0])
        BY <3>1, <3>3 DEF Notify
      <4>2. /\ Len(urcs) + 1 \in 1 .. Len(urcs')
            /\ urcs'[Len(urcs) + 1] = [type |-> "disc", hdl |-> h, id |-> 0]
        BY <4>1 DEF TypeOK, UrcTypeOK
      <4> QED BY <4>2 DEF Pending
    <3> QED BY <3>2, <3>3
  <2> QED BY <2>1, <2>2, <2>3
<1>2. CASE CommandExecutes
  <2>1. CASE app.pc # "unpair"
    BY <1>2, <2>1 DEF CommandExecutes, ModuleExecutes, module
  <2>2. CASE app.pc = "unpair" /\ "badIds" \notin doubt'
    <3>1. pair[app.id] = app.hdl /\ app'.pc = "unpaired" /\ app'.hdl = app.hdl
      BY <1>2, <2>2, UnpairedIdIsKnown
    <3>2. conn' = [c \in ConnId |-> IF conn[c] = pair[app.id] THEN NULL ELSE conn[c]]
      BY <1>2, <2>2 DEF CommandExecutes, ModuleExecutes
    <3>3. CASE h = app.hdl
      BY <3>1, <3>3 DEF Unpairing
    <3>4. CASE h # app.hdl
      BY <3>1, <3>2, <3>4
    <3> QED BY <3>3, <3>4
  <2> QED BY <2>1, <2>2
<1>3. CASE UNCHANGED module
  BY <1>3 DEF module
<1> QED BY <1>1, <1>2, <1>3, ModuleChanges

LEMMA LineShowsCurrent ==
  ASSUME TypeOK, ChannelInv, TodoIsCurrent, [Next]_vars, ATRsp_QBTSTATE_Line,
         NEW l \in burst.todo
  PROVE  /\ FieldOf(l) # "devId"
         /\ FieldOf(l) = "pairId" => l.id \in PairId /\ pair'[l.id] = l.hdl
         /\ FieldOf(l) = "connId" => l.id \in ConnId /\ conn'[l.id] = l.hdl
<1>1. pair' = pair /\ conn' = conn
  BY DEF ATRsp_QBTSTATE_Line, module
<1>2. l \in Line
  BY DEF TypeOK, ChannelTypeOK
<1> QED BY <1>1, <1>2 DEF TodoIsCurrent, FieldOf, Line

LEMMA PairsInductive ==
  ASSUME TypeOK, ChannelInv, ListInv, TodoIsCurrent, PairsShown, [Next]_vars
  PROVE  PairsShown'
<1>0. \A id \in PairId : id # NoId("pairId") /\ id # -1
  BY CountsAreNatural DEF PairId, NoId
<1>1. "pairId" \in Fields
  BY DEF Fields
<1> SUFFICES ASSUME NEW h \in Dev, NEW id \in PairId, Shows(m_arrBTDev', h, "pairId", id),
                    "badIds" \notin doubt'
             PROVE  pair'[id] = h \/ Unpairing(h)'
  BY DEF PairsShown
<1>2. "badIds" \notin doubt
  BY DoubtsStay, EmptiesShowsNothing
<1>3. CASE Gains(h, "pairId", id)
  <2>1. PICK l \in burst.todo : l.hdl = h /\ FieldOf(l) = "pairId" /\ l.id = id /\ ATRsp_QBTSTATE_Line
    BY <1>3 DEF Gains
  <2> QED BY <2>1, LineShowsCurrent
<1>4. CASE Shows(m_arrBTDev, h, "pairId", id)
  <2>1. pair[id] = h \/ Unpairing(h)
    BY <1>2, <1>4 DEF PairsShown
  <2>2. CASE Unpairing(h)
    <3>1. app' = app \/ UnpairReturns
      BY <2>2, UnpairingStays DEF Unpairing
    <3>2. ~UnpairReturns
      BY <1>0, <2>2, UnpairShows DEF Unpairing
    <3> QED BY <2>2, <3>1, <3>2 DEF Unpairing
  <2> QED BY <2>1, <2>2, PairingsMove
<1> QED BY <1>0, <1>1, <1>3, <1>4, StepShows DEF ShownChange

LEMMA ConnsInductive ==
  ASSUME TypeOK, ChannelInv, ListInv, TodoIsCurrent, IdleUntilReady, ConnsShown, [Next]_vars
  PROVE  ConnsShown'
<1>0. \A id \in ConnId : id # NoId("connId") /\ id # -1
  BY CountsAreNatural DEF ConnId, NoId
<1>1. "connId" \in Fields
  BY DEF Fields
<1> SUFFICES ASSUME NEW h \in Dev, NEW id \in ConnId, Shows(m_arrBTDev', h, "connId", id),
                    "badIds" \notin doubt'
             PROVE  conn'[id] = h \/ Pending("disc", h)' \/ Unpairing(h)'
  BY DEF ConnsShown
<1>2. "badIds" \notin doubt
  BY DoubtsStay, EmptiesShowsNothing
<1>3. CASE Gains(h, "connId", id)
  <2>1. PICK l \in burst.todo : l.hdl = h /\ FieldOf(l) = "connId" /\ l.id = id /\ ATRsp_QBTSTATE_Line
    BY <1>3 DEF Gains
  <2> QED BY <2>1, LineShowsCurrent
<1>4. CASE Shows(m_arrBTDev, h, "connId", id)
  <2>1. conn[id] = h \/ Pending("disc", h) \/ Unpairing(h)
    BY <1>2, <1>4 DEF ConnsShown
  <2>2. CASE Unpairing(h)
    <3>1. app' = app \/ UnpairReturns
      BY <2>2, UnpairingStays DEF Unpairing
    <3>2. ~UnpairReturns
      BY <1>0, <2>2, UnpairShows DEF Unpairing
    <3> QED BY <2>2, <3>1, <3>2 DEF Unpairing
  <2>3. CASE Pending("disc", h)
    <3>1. ASSUME UrcStep, Head(urcs).type = "disc", Head(urcs).hdl = h, urcs' = Tail(urcs), urcs # <<>>
          PROVE  FALSE
      <4>1. ready
        BY <1>4, CleanShowsNothing DEF IdleUntilReady
      <4>2. OnURCHandler_BTDisconn \/ ScanCallbackReturns
        BY <3>1, <4>1 DEF UrcStep, UrcIgnored, OnURCHandler_BTScan,
           OnURCHandler_BTPairCnf_Success, OnURCHandler_BTPairCnf_Fail,
           OnURCHandler_BTConn_Success, QueryOnUrc, NextUrc
      <4>3. CASE ScanCallbackReturns
        BY <3>1, <4>3 DEF ScanCallbackReturns, TypeOK, UrcTypeOK
      <4>4. CASE OnURCHandler_BTDisconn
        BY <1>0, <3>1, <4>4, UrcStepShows
      <4> QED BY <4>2, <4>3, <4>4
    <3> QED BY <2>3, <3>1, PendingStays DEF TypeOK
  <2> QED BY <2>1, <2>2, <2>3, ConnectionsMove
<1> QED BY <1>0, <1>1, <1>3, <1>4, StepShows DEF ShownChange

-----------------------------------------------------------------------------
(* Scan results. *)

(* What is reported, and not in the list yet, is the module's result.      *)
FoundAreCurrent ==
  /\ \A k \in 1 .. Len(urcs) : urcs[k].type = "found" => scanned[urcs[k].id] = urcs[k].hdl
  /\ urc.pc = "found" => scanned[urc.id] = urc.hdl

(* When a scan starts there is nothing left of the one before.             *)
NothingFoundYet ==
  app.pc \in {"scanQuery", "scanSend", "scan"} =>
    /\ ~scanning /\ ~FoundPending
    /\ \A h \in Dev, id \in DevId : ~Shows(m_arrBTDev, h, "devId", id)

ScanInv == ScansShown /\ ("lateScan" \in doubt \/ (FoundAreCurrent /\ NothingFoundYet))

LEMMA ResultsMove ==
  ASSUME TypeOK, ChannelInv, [Next]_vars, NEW id \in DevId, NEW h \in Dev, scanned[id] = h
  PROVE  scanned'[id] = h \/ (CommandExecutes /\ app.pc = "scan")
<1>0. h # NULL
  BY NullIsNothingElse DEF Handle
<1>1. CASE ModuleStep
  <2>1. scanned' = scanned \/ \E d \in Dev : Finds(d)
    BY <1>1 DEF ModuleStep, PairingFails, Pairs, Connects, Disconnects, ConnectingFails, ScanEnds, module
  <2>2. ASSUME NEW d \in Dev, Finds(d) PROVE scanned'[id] = h
    <3>1. PICK i \in DevId : scanned[i] = NULL /\ scanned' = [scanned EXCEPT ![i] = d]
      BY <2>2 DEF Finds, FirstFree
    <3> QED BY <1>0, <3>1 DEF TypeOK, ModuleTypeOK
  <2> QED BY <2>1, <2>2
<1>2. CASE CommandExecutes /\ app.pc # "scan"
  BY <1>2 DEF CommandExecutes, ModuleExecutes, module
<1>3. CASE UNCHANGED module
  BY <1>3 DEF module
<1> QED BY <1>1, <1>2, <1>3, ModuleChanges

(* Where a report in the queue comes from.                                 *)
LEMMA ReportsMove ==
  ASSUME TypeOK, [Next]_vars, NEW k \in 1 .. Len(urcs'), urcs'[k].type = "found"
  PROVE  \/ \E j \in 1 .. Len(urcs) : urcs[j] = urcs'[k]
         \/ scanning /\ ModuleStep /\ scanned'[urcs'[k].id] = urcs'[k].hdl
<1>0. urcs \in Seq(Urc)
  BY DEF TypeOK, UrcTypeOK
<1>1. CASE urcs' = urcs
  BY <1>1
<1>2. CASE urcs # <<>> /\ urcs' = Tail(urcs)
  <2>1. k + 1 \in 1 .. Len(urcs) /\ urcs[k + 1] = urcs'[k]
    BY <1>0, <1>2
  <2> QED BY <2>1
<1>3. ASSUME NEW type, NEW h, NEW id, Notify(type, h, id)
      PROVE  \/ \E j \in 1 .. Len(urcs) : urcs[j] = urcs'[k]
             \/ urcs'[k] = [type |-> type, hdl |-> h, id |-> id]
  <2>1. CASE k \in 1 .. Len(urcs)
    <3>1. urcs[k] = urcs'[k]
      BY <1>0, <1>3, <2>1 DEF Notify
    <3> QED BY <2>1, <3>1
  <2>2. CASE k \notin 1 .. Len(urcs)
    BY <1>0, <1>3, <2>2 DEF Notify
  <2> QED BY <2>1, <2>2
<1>4. CASE ModuleStep
  <2>1. ASSUME NEW d \in Dev, Finds(d)
        PROVE  \/ \E j \in 1 .. Len(urcs) : urcs[j] = urcs'[k]
               \/ scanning /\ scanned'[urcs'[k].id] = urcs'[k].hdl
    <3>1. PICK i \in DevId : scanned' = [scanned EXCEPT ![i] = d] /\ Notify("found", d, i)
      BY <2>1 DEF Finds
    <3>2. scanned'[i] = d
      BY <3>1 DEF TypeOK, ModuleTypeOK
    <3>3. \/ \E j \in 1 .. Len(urcs) : urcs[j] = urcs'[k]
          \/ urcs'[k] = [type |-> "found", hdl |-> d, id |-> i]
      BY <1>3, <3>1
    <3> QED BY <2>1, <3>2, <3>3 DEF Finds
  <2>2. ASSUME NEW type \in {"pairok", "pairfail", "connok", "disc"}, NEW h, NEW id, Notify(type, h, id)
        PROVE  \E j \in 1 .. Len(urcs) : urcs[j] = urcs'[k]
    <3>1. [type |-> type, hdl |-> h, id |-> id].type # "found"
      BY <2>2
    <3> QED BY <1>3, <2>2, <3>1
  <2>3. \/ urcs' = urcs
        \/ \E d \in Dev : Finds(d)
        \/ \E type \in {"pairok", "pairfail", "connok", "disc"} : \E h, id : Notify(type, h, id)
    BY <1>4 DEF ModuleStep, Pairs, PairingFails, Connects, Disconnects, ConnectingFails, ScanEnds
  <2> QED BY <1>1, <1>4, <2>1, <2>2, <2>3
<1> QED BY <1>1, <1>2, <1>4, QueueChanges

LEMMA HandlerOfReport ==
  ASSUME TypeOK, [Next]_vars, urc'.pc = "found"
  PROVE  urc' = urc \/ OnURCHandler_BTScan
<1>1. CASE QueryStep
  BY <1>1 DEF QueryStep, ATRsp_QBTSTATE_Summary, ATRsp_QBTSTATE_Line, ATRsp_QBTSTATE_OK,
     QueryFails, Resume, NoUrc
<1>2. CASE AppReturns
  BY <1>2 DEF AppReturns, SendScan, CommandOk, CommandFails, UnpairReturns
<1>3. CASE AppCalls
  BY <1>3 DEF AppCalls, RIL_BT_Initialize, RIL_BT_StartScan, RIL_BT_QueryState,
     RIL_BT_PairReq, RIL_BT_Unpair, RIL_BT_ConnReq, RIL_BT_Disconnect, SendFor
<1>4. CASE UrcStep
  <2>1. ~ScanCallbackReturns
    BY DEF ScanCallbackReturns, NoUrc
  <2>2. ASSUME NEW type, QueryOnUrc(type) PROVE urc' = urc
    BY <2>2 DEF QueryOnUrc, NoUrc
  <2> QED BY <1>4, <2>1, <2>2 DEF UrcStep, UrcIgnored, OnURCHandler_BTPairCnf_Success,
          OnURCHandler_BTPairCnf_Fail, OnURCHandler_BTConn_Success, OnURCHandler_BTDisconn
<1>5. CASE ModuleStep \/ UNCHANGED vars
  BY <1>5 DEF ModuleStep, Pairs, PairingFails, Connects, Finds, Disconnects, ConnectingFails,
     ScanEnds, Notify, vars
<1> QED BY <1>1, <1>2, <1>3, <1>4, <1>5 DEF Next

(* The application is about to scan since it was, or since it starts.      *)
LEMMA ScanStarts ==
  ASSUME TypeOK, [Next]_vars, app'.pc \in {"scanQuery", "scanSend", "scan"}
  PROVE  app.pc \in {"scanQuery", "scanSend", "scan"} \/ RIL_BT_StartScan
<1>1. CASE QueryStep
  <2>1. CASE ATRsp_QBTSTATE_Summary(0) \/ ATRsp_QBTSTATE_Summary(1) \/ ATRsp_QBTSTATE_Summary(5)
    BY <2>1 DEF ATRsp_QBTSTATE_Summary, TypeOK, AppTypeOK, AppState
  <2>2. CASE ATRsp_QBTSTATE_OK \/ QueryFails
    <3>1. PICK result : Resume(result)
      BY <2>2 DEF ATRsp_QBTSTATE_OK, QueryFails
    <3>2. CASE app.pc = "scanQuery" \/ at = "urc"
      BY <3>1, <3>2 DEF Resume
    <3>3. CASE app.pc = "initQuery" /\ at # "urc"
      BY <3>1, <3>3 DEF Resume, NoCall
    <3>4. CASE app.pc \notin {"scanQuery", "initQuery"} /\ at # "urc"
      BY <3>1, <3>4 DEF Resume, NoCall
    <3> QED BY <3>2, <3>3, <3>4
  <2> QED BY <1>1, <2>1, <2>2 DEF QueryStep, ATRsp_QBTSTATE_Line
<1>2. CASE AppReturns
  <2>1. CASE SendScan
    BY <2>1 DEF SendScan
  <2>2. CASE CommandOk
    BY <2>2 DEF CommandOk, NoCall, TypeOK, AppTypeOK, AppState
  <2> QED BY <1>2, <2>1, <2>2 DEF AppReturns, CommandFails, UnpairReturns, NoCall
<1>3. CASE AppCalls
  <2>1. CASE RIL_BT_Initialize \/ RIL_BT_QueryState
    BY <2>1 DEF RIL_BT_Initialize, RIL_BT_QueryState, CleanAndQuery, Call, NoCall
  <2>2. ASSUME NEW h, RIL_BT_PairReq(h) \/ RIL_BT_Unpair(h) \/ RIL_BT_ConnReq(h) \/ RIL_BT_Disconnect(h)
        PROVE  FALSE
    BY <2>2 DEF RIL_BT_PairReq, RIL_BT_Unpair, RIL_BT_ConnReq, RIL_BT_Disconnect, SendFor, Call, NoCall
  <2> QED BY <1>3, <2>1, <2>2 DEF AppCalls
<1>4. CASE UrcStep
  BY <1>4 DEF UrcStep, UrcIgnored, OnURCHandler_BTScan, ScanCallbackReturns,
     OnURCHandler_BTPairCnf_Success, OnURCHandler_BTPairCnf_Fail, OnURCHandler_BTConn_Success,
     OnURCHandler_BTDisconn, QueryOnUrc
<1>5. CASE ModuleStep \/ UNCHANGED vars
  BY <1>5 DEF ModuleStep, Pairs, PairingFails, Connects, Finds, Disconnects, ConnectingFails,
     ScanEnds, Notify, vars
<1> QED BY <1>1, <1>2, <1>3, <1>4, <1>5 DEF Next

(* A command that is executed is over, and a scan runs only from then on.  *)
LEMMA ScanRuns ==
  ASSUME TypeOK, ChannelInv, [Next]_vars
  PROVE  /\ scanning' => scanning \/ (CommandExecutes /\ app.pc = "scan")
         /\ CommandExecutes => app'.pc \in {"idle", "unpaired"} /\ urcs' = urcs /\ urc' = urc
<1>1. scanning' => scanning \/ (CommandExecutes /\ app.pc = "scan")
  <2>1. ModuleStep => (scanning' => scanning)
    BY DEF ModuleStep, Pairs, PairingFails, Connects, Finds, Disconnects, ConnectingFails, ScanEnds, module
  <2>2. CommandExecutes => (scanning' => scanning \/ app.pc = "scan")
    BY DEF CommandExecutes, ModuleExecutes, module
  <2> QED BY <2>1, <2>2, ModuleChanges DEF module
<1>2. CommandExecutes => app'.pc \in {"idle", "unpaired"} /\ urcs' = urcs /\ urc' = urc
  BY DEF CommandExecutes, CommandOk, CommandFails, NoCall, TypeOK, AppTypeOK, AppState
<1> QED BY <1>1, <1>2

LEMMA FoundStays ==
  ASSUME TypeOK, ChannelInv, FoundAreCurrent, NothingFoundYet, [Next]_vars
  PROVE  FoundAreCurrent'
<1>0. urcs \in Seq(Urc) /\ urcs' \in Seq(Urc)
  BY TypeInductive DEF TypeOK, UrcTypeOK
<1>1. \A u \in Urc : u.type = "found" => u.id \in DevId /\ u.hdl \in Dev
  BY DEF Urc
<1>2. CommandExecutes /\ app.pc = "scan" => ~FoundPending /\ urcs' = urcs /\ urc' = urc
  BY ScanRuns DEF NothingFoundYet
<1>3. CASE CommandExecutes /\ app.pc = "scan"
  BY <1>2, <1>3 DEF FoundPending, FoundAreCurrent
<1>4. CASE ~(CommandExecutes /\ app.pc = "scan")
  <2>1. ASSUME NEW u \in Urc, u.type = "found", scanned[u.id] = u.hdl
        PROVE  scanned'[u.id] = u.hdl
    BY <1>1, <1>4, <2>1, ResultsMove
  <2>2. ASSUME NEW j \in 1 .. Len(urcs), urcs[j].type = "found"
        PROVE  scanned'[urcs[j].id] = urcs[j].hdl
    <3>1. urcs[j] \in Urc /\ scanned[urcs[j].id] = urcs[j].hdl
      BY <1>0, <2>2 DEF FoundAreCurrent
    <3> QED BY <2>1, <2>2, <3>1
  <2>3. ASSUME NEW k \in 1 .. Len(urcs'), urcs'[k].type = "found"
        PROVE  scanned'[urcs'[k].id] = urcs'[k].hdl
    BY <2>2, <2>3, ReportsMove
  <2>4. ASSUME urc'.pc = "found" PROVE scanned'[urc'.id] = urc'.hdl
    <3>1. CASE urc' = urc
      <4>1. urc.id \in DevId /\ urc.hdl \in Dev /\ scanned[urc.id] = urc.hdl
        BY <2>4, <3>1 DEF TypeOK, UrcTypeOK, UrcState, FoundAreCurrent
      <4> QED BY <1>4, <3>1, <4>1, ResultsMove
    <3>2. CASE OnURCHandler_BTScan
      <4>1. urcs # <<>> /\ Head(urcs) = urcs[1] /\ 1 \in 1 .. Len(urcs) /\ urcs[1].type = "found"
        BY <1>0, <3>2 DEF OnURCHandler_BTScan, NextUrc
      <4>2. urc'.id = Head(urcs).id /\ urc'.hdl = Head(urcs).hdl
        BY <3>2 DEF OnURCHandler_BTScan
      <4> QED BY <2>2, <4>1, <4>2
    <3> QED BY <2>4, <3>1, <3>2, HandlerOfReport
  <2> QED BY <2>3, <2>4 DEF FoundAreCurrent
<1> QED BY <1>3, <1>4

LEMMA NothingFoundStays ==
  ASSUME TypeOK, ChannelInv, ListInv, NothingFoundYet, [Next]_vars, ~Empties
  PROVE  NothingFoundYet'
<1> SUFFICES ASSUME app'.pc \in {"scanQuery", "scanSend", "scan"}
             PROVE  /\ ~scanning' /\ ~FoundPending'
                    /\ \A h \in Dev, id \in DevId : ~Shows(m_arrBTDev', h, "devId", id)
  BY DEF NothingFoundYet
<1>1. /\ ~scanning /\ ~FoundPending
      /\ \A h \in Dev, id \in DevId : ~Shows(m_arrBTDev, h, "devId", id)
  BY ScanStarts DEF NothingFoundYet, Empties
<1>2. ~CommandExecutes
  BY ScanRuns
<1>3. ~OnURCHandler_BTScan /\ ~ScanCallbackReturns
  <2>1. OnURCHandler_BTScan => FoundPending
    <3>1. OnURCHandler_BTScan => 1 \in 1 .. Len(urcs) /\ urcs[1].type = "found"
      BY DEF OnURCHandler_BTScan, NextUrc, TypeOK, UrcTypeOK
    <3> QED BY <3>1 DEF FoundPending
  <2>2. ScanCallbackReturns => FoundPending
    BY DEF ScanCallbackReturns, FoundPending
  <2> QED BY <1>1, <2>1, <2>2
<1>4. ~scanning'
  BY <1>1, <1>2, ScanRuns
<1>5. ~FoundPending'
  <2>1. urc'.pc # "found"
    BY <1>1, <1>3, HandlerOfReport DEF FoundPending
  <2>2. ASSUME NEW k \in 1 .. Len(urcs'), urcs'[k].type = "found" PROVE FALSE
    BY <1>1, <2>2, ReportsMove DEF FoundPending
  <2> QED BY <2>1, <2>2 DEF FoundPending
<1>6. ASSUME NEW h \in Dev, NEW id \in DevId, Shows(m_arrBTDev', h, "devId", id) PROVE FALSE
  <2>1. id # NoId("devId") /\ "devId" \in Fields
    BY CountsAreNatural DEF DevId, NoId, Fields
  <2>2. \A l : FieldOf(l) # "devId"
    BY DEF FieldOf
  <2>3. ~Gains(h, "devId", id)
    BY <1>3, <2>2 DEF Gains
  <2> QED BY <1>1, <1>6, <2>1, <2>3, StepShows DEF ShownChange
<1> QED BY <1>4, <1>5, <1>6

LEMMA ScanInductive ==
  ASSUME TypeOK, ChannelInv, ListInv, ScanInv, [Next]_vars
  PROVE  ScanInv'
<1>1. CASE Empties
  <2>1. ScansShown'
    BY <1>1, EmptiesShowsNothing DEF ScansShown
  <2>2. UNCHANGED <<urcs, urc, scanned, scanning>>
    BY <1>1 DEF Empties, RIL_BT_Initialize, RIL_BT_StartScan, module
  <2>3. ASSUME "lateScan" \notin doubt' PROVE FoundAreCurrent'
    <3>1. CASE "lateScan" \notin doubt
      BY <2>2, <3>1 DEF ScanInv, FoundAreCurrent
    <3>2. CASE "lateScan" \in doubt
      <4>1. ~FoundPending
        BY <2>3, <3>2, DoubtsStay
      <4> QED BY <2>2, <4>1 DEF FoundPending, FoundAreCurrent
    <3> QED BY <3>1, <3>2
  <2>4. ASSUME "lateScan" \notin doubt' PROVE NothingFoundYet'
    <3>1. CASE RIL_BT_StartScan
      <4>1. ~scanning /\ ~FoundPending
        BY <2>4, <3>1 DEF RIL_BT_StartScan
      <4>2. ~scanning' /\ ~FoundPending'
        BY <2>2, <4>1 DEF FoundPending
      <4> QED BY <1>1, <4>2, EmptiesShowsNothing DEF NothingFoundYet
    <3>2. CASE RIL_BT_Initialize
      BY <3>2 DEF RIL_BT_Initialize, CleanAndQuery, Call, NoCall, NothingFoundYet
    <3> QED BY <1>1, <3>1, <3>2 DEF Empties
  <2> QED BY <2>1, <2>3, <2>4 DEF ScanInv
<1>2. CASE ~Empties /\ "lateScan" \notin doubt'
  <2>1. "lateScan" \notin doubt
    BY <1>2, DoubtsStay
  <2>2. ScansShown /\ FoundAreCurrent /\ NothingFoundYet
    BY <2>1 DEF ScanInv
  <2>3. FoundAreCurrent' /\ NothingFoundYet'
    BY <1>2, <2>2, FoundStays, NothingFoundStays
  <2>4. ASSUME NEW h \in Dev, NEW id \in DevId, Shows(m_arrBTDev', h, "devId", id)
        PROVE  scanned'[id] = h
    <3>1. id # NoId("devId") /\ "devId" \in Fields
      BY CountsAreNatural DEF DevId, NoId, Fields
    <3>2. CASE Shows(m_arrBTDev, h, "devId", id)
      <4>1. scanned[id] = h
        BY <2>1, <2>2, <3>2 DEF ScansShown
      <4>2. ~(CommandExecutes /\ app.pc = "scan")
        BY <2>2, <3>2 DEF NothingFoundYet
      <4> QED BY <4>1, <4>2, ResultsMove
    <3>3. CASE Gains(h, "devId", id)
      <4>1. \A l : FieldOf(l) # "devId"
        BY DEF FieldOf
      <4>2. CASE OnURCHandler_BTScan /\ Head(urcs).hdl = h /\ Head(urcs).id = id
        <5>1. Head(urcs) = urcs[1] /\ 1 \in 1 .. Len(urcs) /\ urcs[1].type = "found"
          BY <4>2 DEF OnURCHandler_BTScan, NextUrc, TypeOK, UrcTypeOK
        <5>2. scanned' = scanned
          BY <4>2 DEF OnURCHandler_BTScan, module
        <5> QED BY <2>2, <4>2, <5>1, <5>2 DEF FoundAreCurrent
      <4>3. CASE ScanCallbackReturns /\ urc.hdl = h /\ urc.id = id
        BY <2>2, <4>3 DEF ScanCallbackReturns, FoundAreCurrent, module
      <4> QED BY <3>3, <4>1, <4>2, <4>3 DEF Gains
    <3> QED BY <2>4, <3>1, <3>2, <3>3, StepShows DEF ShownChange
  <2> QED BY <2>3, <2>4 DEF ScanInv, ScansShown
<1>3. CASE ~Empties /\ "lateScan" \in doubt'
  BY <1>3 DEF ScanInv, ScansShown
<1> QED BY <1>1, <1>2, <1>3

-----------------------------------------------------------------------------
(* A quiet list is complete. *)

Room == ~BT_DevMngmt_isFull(m_arrBTDev)

PairingShown(k) == Shows(m_arrBTDev, pair[k], "pairId", k)

ConnectionShown(c) == \E id \in ConnId : Shows(m_arrBTDev, conn[c], "connId", id)

Awaits(kind, id) == \E l \in burst.todo : l.kind = kind /\ l.id = id

OnePairingEach == \A j, k \in PairId : pair[j] # NULL /\ pair[j] = pair[k] => j = k

ConnectedArePaired == \A c \in ConnId : conn[c] # NULL => \E k \in PairId : pair[k] = conn[c]

(* What a query in flight has not put into the list it will still deliver, *)
(* unless the list lost something in the meantime.                         *)
QueryCompletes ==
  QueryInFlight /\ ~burst.wiped /\ Room =>
    /\ \A k \in PairId : pair[k] # NULL => PairingShown(k) \/ Awaits("paired", k)
    /\ \A c \in ConnId : conn[c] # NULL => ConnectionShown(c) \/ Awaits("connected", c)

WipedIsOutdated == QueryInFlight /\ burst.wiped => "outdated" \in doubt

(* No query is in flight that the code needs to complete the list.         *)
Settled == at # "urc" /\ ~(at = "app" /\ app.pc \in {"initQuery", "scanQuery"})

(* What the list lacks is in a notification that is still to be handled.   *)
ListComplete ==
  ready /\ "outdated" \notin doubt /\ Room /\ Settled =>
    /\ \A k \in PairId : pair[k] # NULL => PairingShown(k) \/ Pending("pairok", pair[k])
    /\ \A c \in ConnId : conn[c] # NULL => ConnectionShown(c) \/ Pending("connok", conn[c])

CompleteInv ==
  OnePairingEach /\ ConnectedArePaired /\ QueryCompletes /\ WipedIsOutdated /\ ListComplete

LEMMA ModuleInductive ==
  ASSUME TypeOK, ChannelInv, OnePairingEach, ConnectedArePaired, [Next]_vars
  PROVE  /\ OnePairingEach' /\ ConnectedArePaired'
         /\ \A k \in PairId : pair'[k] # NULL => pair'[k] = pair[k] \/ Pending("pairok", pair[k])'
         /\ \A c \in ConnId : conn'[c] # NULL => conn'[c] = conn[c] \/ Pending("connok", conn[c])'
<1>0. pair \in [PairId -> Dev \cup {NULL}] /\ conn \in [ConnId -> Dev \cup {NULL}] /\ urcs \in Seq(Urc)
  BY DEF TypeOK, ModuleTypeOK, UrcTypeOK
<1>n. NULL \notin Dev
  BY NullIsNothingElse DEF Handle
<1>p. ASSUME NEW type, NEW h, Notify(type, h, 0) PROVE Pending(type, h)'
  <2>1. urcs' = Append(urcs, [type |-> type, hdl |-> h, id |-> 0])
    BY <1>p DEF Notify
  <2>2. /\ Len(urcs) + 1 \in 1 .. Len(urcs')
        /\ urcs'[Len(urcs) + 1] = [type |-> type, hdl |-> h, id |-> 0]
    BY <1>0, <2>1
  <2> QED BY <2>2 DEF Pending
<1>1. ASSUME NEW d \in Dev, Pairs(d)
      PROVE  /\ OnePairingEach' /\ ConnectedArePaired' /\ conn' = conn
             /\ \A k \in PairId : pair'[k] # NULL => pair'[k] = pair[k] \/ Pending("pairok", pair[k])'
  <2>1. PICK i \in PairId : pair[i] = NULL /\ pair' = [pair EXCEPT ![i] = d]
    BY <1>1 DEF Pairs, FirstFree
  <2>2. \A k \in PairId : pair[k] # d
    BY <1>0, <1>1, <1>n DEF Pairs, Devices
  <2>3. \A k \in PairId : pair'[k] = IF k = i THEN d ELSE pair[k]
    BY <1>0, <2>1
  <2>4. OnePairingEach'
    BY <2>2, <2>3 DEF OnePairingEach
  <2>5. ConnectedArePaired' /\ conn' = conn
    BY <1>1, <2>1, <2>3 DEF ConnectedArePaired, Pairs
  <2>6. Pending("pairok", d)'
    BY <1>1, <1>p DEF Pairs
  <2> QED BY <2>3, <2>4, <2>5, <2>6
<1>2. ASSUME NEW d \in Dev, Connects(d)
      PROVE  /\ ConnectedArePaired' /\ pair' = pair
             /\ \A c \in ConnId : conn'[c] # NULL => conn'[c] = conn[c] \/ Pending("connok", conn[c])'
  <2>1. PICK i \in ConnId : conn[i] = NULL /\ conn' = [conn EXCEPT ![i] = d]
    BY <1>2 DEF Connects, FirstFree
  <2>2. pair' = pair /\ \E k \in PairId : pair[k] = d
    BY <1>0, <1>2 DEF Connects, Devices
  <2>3. \A c \in ConnId : conn'[c] = IF c = i THEN d ELSE conn[c]
    BY <1>0, <2>1
  <2>4. ConnectedArePaired'
    BY <2>2, <2>3 DEF ConnectedArePaired
  <2>5. Pending("connok", d)'
    BY <1>2, <1>p DEF Connects
  <2> QED BY <2>2, <2>3, <2>4, <2>5
<1>3. ASSUME NEW c \in ConnId, Disconnects(c)
      PROVE  pair' = pair /\ \A k \in ConnId : conn'[k] # NULL => conn'[k] = conn[k]
  <2>1. pair' = pair /\ conn' = [conn EXCEPT ![c] = NULL]
    BY <1>3 DEF Disconnects
  <2> QED BY <1>0, <2>1
<1>4. ASSUME CommandExecutes, app.pc = "unpair"
      PROVE  /\ OnePairingEach' /\ ConnectedArePaired'
             /\ \A k \in PairId : pair'[k] # NULL => pair'[k] = pair[k]
             /\ \A c \in ConnId : conn'[c] # NULL => conn'[c] = conn[c]
  <2>1. /\ pair' = [pair EXCEPT ![app.id] = NULL]
        /\ conn' = [c \in ConnId |-> IF conn[c] = pair[app.id] THEN NULL ELSE conn[c]]
    BY <1>4 DEF CommandExecutes, ModuleExecutes
  <2>2. \A k \in PairId : pair'[k] = IF k = app.id THEN NULL ELSE pair[k]
    BY <1>0, <2>1
  <2>3. OnePairingEach'
    BY <2>2 DEF OnePairingEach
  <2>4. \A c \in ConnId : conn'[c] # NULL => conn'[c] = conn[c] /\ conn[c] # pair[app.id]
    BY <2>1
  <2>5. ConnectedArePaired'
    BY <2>2, <2>4 DEF ConnectedArePaired
  <2> QED BY <2>2, <2>3, <2>4, <2>5
<1>5. CASE UNCHANGED <<pair, conn>>
  BY <1>5 DEF OnePairingEach, ConnectedArePaired
<1>6. \/ UNCHANGED <<pair, conn>>
      \/ CommandExecutes /\ app.pc = "unpair"
      \/ \E d \in Dev : Pairs(d) \/ Connects(d)
      \/ \E c \in ConnId : Disconnects(c)
  <2>1. ModuleStep => \/ UNCHANGED <<pair, conn>>
                      \/ \E d \in Dev : Pairs(d) \/ Connects(d)
                      \/ \E c \in ConnId : Disconnects(c)
    BY DEF ModuleStep, PairingFails, Finds, ConnectingFails, ScanEnds, module
  <2>2. CommandExecutes => UNCHANGED <<pair, conn>> \/ app.pc = "unpair"
    BY DEF CommandExecutes, ModuleExecutes, module
  <2> QED BY <2>1, <2>2, ModuleChanges DEF module
<1>7. ASSUME NEW d \in Dev, Connects(d) PROVE OnePairingEach'
  BY <1>2, <1>7 DEF OnePairingEach
<1>8. ASSUME NEW c \in ConnId, Disconnects(c) PROVE OnePairingEach' /\ ConnectedArePaired'
  BY <1>3, <1>8 DEF OnePairingEach, ConnectedArePaired
<1> QED BY <1>1, <1>2, <1>3, <1>4, <1>5, <1>6, <1>7, <1>8

(* A step that takes an id of the module out of the list is noted.         *)
Noted == "outdated" \in doubt' /\ (QueryInFlight => burst'.wiped)

LEMMA LossIsNoted ==
  ASSUME TypeOK
  PROVE  /\ UnpairReturns /\ app.hdl \in Devices(pair) => Noted
         /\ OnURCHandler_BTPairCnf_Fail /\ Head(urcs).hdl \in Devices(pair) => Noted
         /\ OnURCHandler_BTDisconn /\ Head(urcs).hdl \in Devices(conn) => Noted
<1>1. ASSUME LosesId(TRUE) PROVE Noted
  BY <1>1 DEF LosesId, Noted, TypeOK, ChannelTypeOK
<1> QED BY <1>1 DEF UnpairReturns, OnURCHandler_BTPairCnf_Fail, OnURCHandler_BTDisconn

LEMMA PairingKept ==
  ASSUME TypeOK, ListInv, TodoIsCurrent, OnePairingEach, [Next]_vars, ~Empties, Room',
         NEW k \in PairId, pair[k] # NULL, PairingShown(k)
  PROVE  Shows(m_arrBTDev', pair[k], "pairId", k) \/ Noted
<1> DEFINE h == pair[k]
<1>1. h \in Dev /\ h \in Devices(pair) /\ "pairId" \in Fields
  BY DEF TypeOK, ModuleTypeOK, Devices, Fields
<1>2. Shows(m_arrBTDev', h, "pairId", k) \/ Loses(h, "pairId")
  BY <1>1, StepShows DEF ShownChange, PairingShown
<1>3. ASSUME NEW l, TakesLine(l), l.hdl = h, FieldOf(l) = "pairId"
      PROVE  Shows(m_arrBTDev', h, "pairId", k)
  <2>1. l.kind = "paired" /\ l \in burst.todo /\ l \in Line
    BY <1>3 DEF FieldOf, TakesLine, TypeOK, ChannelTypeOK
  <2>2. l.id \in PairId /\ pair[l.id] = h
    BY <1>3, <2>1 DEF Line, TodoIsCurrent
  <2>3. l.id = k
    BY <2>2 DEF OnePairingEach
  <2> QED BY <1>3, <2>3, TakenLineShows DEF Room
<1> QED BY <1>1, <1>2, <1>3, LossIsNoted DEF Loses, Empties

LEMMA ConnectionKept ==
  ASSUME TypeOK, ListInv, ConnectedArePaired, [Next]_vars, ~Empties, Room',
         NEW c \in ConnId, conn[c] # NULL, ConnectionShown(c)
  PROVE  (\E id \in ConnId : Shows(m_arrBTDev', conn[c], "connId", id)) \/ Noted
<1> DEFINE h == conn[c]
<1>1. h \in Dev /\ h \in Devices(conn) /\ h \in Devices(pair) /\ "connId" \in Fields
  BY DEF TypeOK, ModuleTypeOK, Devices, Fields, ConnectedArePaired
<1>2. PICK id \in ConnId : Shows(m_arrBTDev, h, "connId", id)
  BY DEF ConnectionShown
<1>3. Shows(m_arrBTDev', h, "connId", id) \/ Loses(h, "connId")
  BY <1>1, <1>2, StepShows DEF ShownChange
<1>4. ASSUME NEW l, TakesLine(l), l.hdl = h, FieldOf(l) = "connId"
      PROVE  l.id \in ConnId /\ Shows(m_arrBTDev', h, "connId", l.id)
  <2>1. l.kind # "paired" /\ l \in Line
    BY <1>4 DEF FieldOf, TakesLine, TypeOK, ChannelTypeOK
  <2>2. l.id \in ConnId
    BY <2>1 DEF Line
  <2> QED BY <1>4, <2>2, TakenLineShows DEF Room
<1> QED BY <1>1, <1>3, <1>4, LossIsNoted DEF Loses, Empties

(* A query in flight was sent in this step, or goes on.                    *)
QuerySent == UNCHANGED module /\ burst' = [summary |-> TRUE, todo |-> StateLines, wiped |-> FALSE]

QueryGoesOn ==
  /\ QueryInFlight /\ UNCHANGED <<pair, conn>>
  /\ burst.wiped => burst'.wiped
  /\ burst'.wiped => burst.wiped \/ "outdated" \in doubt'
  /\ burst'.todo = burst.todo \/ \E l : TakesLine(l)

LEMMA EmptiesOrSends ==
  ASSUME TypeOK, ChannelInv, Empties
  PROVE  \/ QuerySent /\ at' = "app" /\ app'.pc \in {"initQuery", "scanQuery"}
         \/ QueryGoesOn /\ burst'.wiped /\ "outdated" \in doubt'
<1>0. burst \in [summary : BOOLEAN, todo : SUBSET Line, wiped : BOOLEAN]
  BY DEF TypeOK, ChannelTypeOK
<1>1. PICK pc \in {"initQuery", "scanQuery"} : CleanAndQuery(pc)
  BY DEF Empties, RIL_BT_Initialize, RIL_BT_StartScan
<1>2. UNCHANGED module /\ app.pc = "idle" /\ (at # "none" => "outdated" \in doubt')
  BY DEF Empties, RIL_BT_Initialize, RIL_BT_StartScan
<1>3. CASE at = "none"
  BY <1>1, <1>2, <1>3 DEF CleanAndQuery, SendQuery, Call, NoCall, QuerySent
<1>4. CASE at # "none"
  <2>1. at = "urc"
    BY <1>2, <1>4 DEF ChannelInv, TypeOK, ChannelTypeOK
  <2>2. burst'.wiped /\ burst'.todo = burst.todo
    BY <1>0, <1>1, <1>4 DEF CleanAndQuery
  <2> QED BY <1>2, <1>4, <2>1, <2>2 DEF QueryGoesOn, QueryInFlight, module
<1> QED BY <1>3, <1>4

LEMMA QueryChanges ==
  ASSUME TypeOK, ChannelInv, [Next]_vars, QueryInFlight'
  PROVE  QuerySent \/ QueryGoesOn
<1>0. burst \in [summary : BOOLEAN, todo : SUBSET Line, wiped : BOOLEAN]
  BY DEF TypeOK, ChannelTypeOK
<1>1. CASE QueryStep
  <2>1. ~ATRsp_QBTSTATE_OK /\ ~QueryFails
    BY DEF ATRsp_QBTSTATE_OK, QueryFails, QueryInFlight
  <2>2. ASSUME NEW st \in {0, 1, 5}, ATRsp_QBTSTATE_Summary(st)
        PROVE  QueryGoesOn
    BY <1>0, <2>2 DEF ATRsp_QBTSTATE_Summary, module, QueryGoesOn
  <2>3. ASSUME ATRsp_QBTSTATE_Line
        PROVE  QueryGoesOn
    BY <1>0, <2>3 DEF ATRsp_QBTSTATE_Line, module, TakesLine, QueryGoesOn
  <2> QED BY <1>1, <2>1, <2>2, <2>3 DEF QueryStep
<1>2. ASSUME at' = at, app' = app \/ at # "app", burst' = burst, UNCHANGED <<pair, conn>> PROVE QueryGoesOn
  BY <1>2 DEF QueryInFlight, QueryGoesOn
<1>3. CASE AppReturns
  <2>1. ~CommandOk /\ ~CommandFails
    BY DEF CommandOk, CommandFails, QueryInFlight
  <2>2. CASE SendScan
    <3>1. at' # "app"
      BY <2>2 DEF SendScan, QueryInFlight, Call, NoCall, ChannelInv
    <3> QED BY <1>2, <2>2, <3>1 DEF SendScan, module, QueryInFlight, Call, NoCall
  <2>3. CASE UnpairReturns
    <3>1. at' = at /\ at # "app"
      BY <2>3 DEF UnpairReturns, ChannelInv
    <3>2. at = "urc"
      BY <3>1 DEF QueryInFlight
    <3>3. /\ burst'.todo = burst.todo /\ (burst.wiped => burst'.wiped)
          /\ burst'.wiped => burst.wiped \/ "outdated" \in doubt'
      BY <1>0, <2>3 DEF UnpairReturns, LosesId
    <3> QED BY <2>3, <3>2, <3>3 DEF QueryGoesOn, QueryInFlight, UnpairReturns, module
  <2> QED BY <1>3, <2>1, <2>2, <2>3 DEF AppReturns
<1>4. CASE AppCalls
  <2>1. CASE Empties
    BY <2>1, EmptiesOrSends
  <2>2. CASE RIL_BT_QueryState
    BY <2>2 DEF RIL_BT_QueryState, SendQuery, QuerySent
  <2>3. ASSUME NEW h, RIL_BT_PairReq(h) \/ RIL_BT_Unpair(h) \/ RIL_BT_ConnReq(h) \/ RIL_BT_Disconnect(h)
        PROVE  FALSE
    BY <2>3 DEF RIL_BT_PairReq, RIL_BT_Unpair, RIL_BT_ConnReq, RIL_BT_Disconnect, SendFor, Call, NoCall,
       QueryInFlight
  <2> QED BY <1>4, <2>1, <2>2, <2>3 DEF AppCalls, Empties
<1>5. CASE UrcStep
  <2>1. ASSUME NEW type, QueryOnUrc(type) PROVE QuerySent \/ QueryGoesOn
    <3>1. CASE at = "none"
      BY <2>1, <3>1 DEF QueryOnUrc, SendQuery, QuerySent
    <3>2. CASE at # "none"
      BY <1>2, <2>1, <3>2 DEF QueryOnUrc, channel, module
    <3> QED BY <3>1, <3>2
  <2>2. CASE OnURCHandler_BTPairCnf_Fail \/ OnURCHandler_BTDisconn
    <3>1. /\ burst'.todo = burst.todo /\ (burst.wiped => burst'.wiped)
          /\ burst'.wiped => burst.wiped \/ "outdated" \in doubt'
      BY <1>0, <2>2 DEF OnURCHandler_BTPairCnf_Fail, OnURCHandler_BTDisconn, LosesId
    <3> QED BY <2>2, <3>1 DEF QueryGoesOn, QueryInFlight, OnURCHandler_BTPairCnf_Fail,
            OnURCHandler_BTDisconn, module
  <2>3. CASE UrcIgnored \/ OnURCHandler_BTScan \/ ScanCallbackReturns
    BY <1>2, <2>3 DEF UrcIgnored, OnURCHandler_BTScan, ScanCallbackReturns, channel, module
  <2> QED BY <1>5, <2>1, <2>2, <2>3 DEF UrcStep, OnURCHandler_BTPairCnf_Success,
          OnURCHandler_BTConn_Success
<1>6. CASE ModuleStep
  <2>1. ~QueryInFlight /\ at' = at /\ app' = app
    BY <1>6 DEF ModuleStep, Pairs, PairingFails, Connects, Finds, Disconnects, ConnectingFails,
       ScanEnds, Notify, channel
  <2> QED BY <2>1 DEF QueryInFlight
<1>7. CASE UNCHANGED vars
  BY <1>2, <1>7 DEF vars, channel, module
<1> QED BY <1>1, <1>3, <1>4, <1>5, <1>6, <1>7 DEF Next

LEMMA QueryInductive ==
  ASSUME TypeOK, ChannelInv, ListInv, TodoIsCurrent, OnePairingEach, ConnectedArePaired,
         QueryCompletes, WipedIsOutdated, [Next]_vars
  PROVE  QueryCompletes' /\ WipedIsOutdated'
<1>1. WipedIsOutdated'
  <2> SUFFICES ASSUME QueryInFlight', burst'.wiped PROVE "outdated" \in doubt'
    BY DEF WipedIsOutdated
  <2>1. ~QuerySent
    BY DEF QuerySent
  <2>2. QueryGoesOn
    BY <2>1, QueryChanges
  <2>3. ~ATRsp_QBTSTATE_OK
    BY DEF ATRsp_QBTSTATE_OK, QueryInFlight
  <2> QED BY <2>2, <2>3, DoubtsStay DEF QueryGoesOn, WipedIsOutdated
<1>2. QueryCompletes'
  <2> SUFFICES ASSUME QueryInFlight', ~burst'.wiped, Room'
               PROVE  /\ \A k \in PairId : pair'[k] # NULL => PairingShown(k)' \/ Awaits("paired", k)'
                      /\ \A c \in ConnId : conn'[c] # NULL => ConnectionShown(c)' \/ Awaits("connected", c)'
    BY DEF QueryCompletes
  <2>1. CASE QuerySent
    <3>1. /\ pair' = pair /\ conn' = conn /\ burst'.todo = StateLines
          /\ \A k \in PairId : pair[k] # NULL => [kind |-> "paired", id |-> k, hdl |-> pair[k]] \in StateLines
          /\ \A c \in ConnId : conn[c] # NULL => [kind |-> "connected", id |-> c, hdl |-> conn[c]] \in StateLines
      BY <2>1 DEF QuerySent, module, StateLines
    <3>2. ASSUME NEW k \in PairId, pair[k] # NULL PROVE Awaits("paired", k)'
      BY <3>1, <3>2 DEF Awaits
    <3>3. ASSUME NEW c \in ConnId, conn[c] # NULL PROVE Awaits("connected", c)'
      BY <3>1, <3>3 DEF Awaits
    <3> QED BY <3>1, <3>2, <3>3
  <2>2. CASE QueryGoesOn /\ ~QuerySent
    <3>1. ~Empties /\ Room
      <4>1. ~Empties
        BY <2>2, EmptiesOrSends
      <4> QED BY <4>1, StepShows DEF ShownChange, Room, Empties
    <3>2. pair' = pair /\ conn' = conn /\ QueryInFlight /\ ~burst.wiped /\ ~Noted
      BY <2>2 DEF QueryGoesOn, Noted
    <3>3. ASSUME NEW l, TakesLine(l), NEW kind, NEW id, Awaits(kind, id), ~Awaits(kind, id)'
          PROVE  l.kind = kind /\ l.id = id
      BY <3>3 DEF TakesLine, Awaits, TypeOK, ChannelTypeOK
    <3>4. ASSUME NEW l, TakesLine(l)
          PROVE  /\ l \in Line /\ Shows(m_arrBTDev', l.hdl, FieldOf(l), l.id)
                 /\ IF l.kind = "paired" THEN pair[l.id] = l.hdl ELSE conn[l.id] = l.hdl
      BY <3>4, TakenLineShows DEF Room, TakesLine, TodoIsCurrent, TypeOK, ChannelTypeOK
    <3>5. ASSUME NEW k \in PairId, pair[k] # NULL, ~Awaits("paired", k)'
          PROVE  PairingShown(k)'
      <4>1. CASE PairingShown(k)
        BY <3>1, <3>2, <3>5, <4>1, PairingKept DEF PairingShown
      <4>2. CASE Awaits("paired", k)
        <5>1. PICK l : TakesLine(l) /\ l.kind = "paired" /\ l.id = k
          BY <2>2, <3>3, <3>5, <4>2 DEF QueryGoesOn, Awaits
        <5>2. Shows(m_arrBTDev', pair[k], "pairId", k)
          BY <3>4, <5>1 DEF FieldOf
        <5> QED BY <3>2, <5>2 DEF PairingShown
      <4> QED BY <3>1, <3>2, <3>5, <4>1, <4>2 DEF QueryCompletes
    <3>6. ASSUME NEW c \in ConnId, conn[c] # NULL, ~Awaits("connected", c)'
          PROVE  ConnectionShown(c)'
      <4>1. CASE ConnectionShown(c)
        BY <3>1, <3>2, <3>6, <4>1, ConnectionKept DEF ConnectionShown
      <4>2. CASE Awaits("connected", c)
        <5>1. PICK l : TakesLine(l) /\ l.kind = "connected" /\ l.id = c
          BY <2>2, <3>3, <3>6, <4>2 DEF QueryGoesOn, Awaits
        <5>2. Shows(m_arrBTDev', conn[c], "connId", c)
          BY <3>4, <5>1 DEF FieldOf
        <5> QED BY <3>2, <5>2 DEF ConnectionShown
      <4> QED BY <3>1, <3>2, <3>6, <4>1, <4>2 DEF QueryCompletes
    <3> QED BY <3>2, <3>5, <3>6
  <2> QED BY <2>1, <2>2, QueryChanges
<1> QED BY <1>1, <1>2

(* The list is awaited no longer than the query that fills it.             *)
LEMMA SettledBefore ==
  ASSUME TypeOK, ChannelInv, [Next]_vars, ~ATRsp_QBTSTATE_OK, Settled', "outdated" \notin doubt'
  PROVE  Settled /\ ~Empties
<1>1. ~Empties
  BY EmptiesOrSends DEF Settled
<1> SUFFICES Settled
  BY <1>1
<1>2. CASE QueryStep
  <2>1. CASE QueryFails
    BY <2>1 DEF QueryFails, Settled, QueryInFlight
  <2>2. ASSUME NEW st \in {0, 1, 5}, ATRsp_QBTSTATE_Summary(st)
        PROVE  at' = at /\ app'.pc = app.pc
    BY <2>2 DEF ATRsp_QBTSTATE_Summary, TypeOK, AppTypeOK, AppState
  <2> QED BY <1>2, <2>1, <2>2 DEF QueryStep, ATRsp_QBTSTATE_Line, Settled
<1>3. CASE AppReturns
  BY <1>3 DEF AppReturns, SendScan, CommandOk, CommandFails, UnpairReturns, Settled, ModuleExecutes,
     ChannelInv, Call, NoCall
<1>4. CASE AppCalls
  BY <1>1, <1>4 DEF AppCalls, Empties, RIL_BT_QueryState, SendQuery, RIL_BT_PairReq, RIL_BT_Unpair,
     RIL_BT_ConnReq, RIL_BT_Disconnect, SendFor, Settled
<1>5. CASE UrcStep
  <2>1. ASSUME NEW type, QueryOnUrc(type) PROVE FALSE
    BY <2>1 DEF QueryOnUrc, SendQuery, Settled
  <2> QED BY <1>5, <2>1 DEF UrcStep, UrcIgnored, OnURCHandler_BTScan, ScanCallbackReturns,
          OnURCHandler_BTPairCnf_Success, OnURCHandler_BTPairCnf_Fail, OnURCHandler_BTConn_Success,
          OnURCHandler_BTDisconn, channel, Settled
<1>6. CASE ModuleStep \/ UNCHANGED vars
  BY <1>6 DEF ModuleStep, Pairs, PairingFails, Connects, Finds, Disconnects, ConnectingFails,
     ScanEnds, Notify, vars, channel, Settled
<1> QED BY <1>2, <1>3, <1>4, <1>5, <1>6 DEF Next

LEMMA ReadyBefore ==
  ASSUME [Next]_vars, ~Empties, ready'
  PROVE  ready
BY DEF Next, QueryStep, ATRsp_QBTSTATE_Summary, ATRsp_QBTSTATE_Line, ATRsp_QBTSTATE_OK, QueryFails,
   AppReturns, SendScan, CommandOk, CommandFails, UnpairReturns,
   AppCalls, Empties, RIL_BT_QueryState,
   RIL_BT_PairReq, RIL_BT_Unpair, RIL_BT_ConnReq, RIL_BT_Disconnect, SendFor,
   UrcStep, UrcIgnored, OnURCHandler_BTScan, ScanCallbackReturns,
   OnURCHandler_BTPairCnf_Success, OnURCHandler_BTPairCnf_Fail, OnURCHandler_BTConn_Success,
   OnURCHandler_BTDisconn, QueryOnUrc,
   ModuleStep, Pairs, PairingFails, Connects, Finds, Disconnects, ConnectingFails,
   ScanEnds, Notify, ril, vars

(* A report of a pairing or a connection is taken with a query, or noted.  *)
LEMMA ReportsStay ==
  ASSUME TypeOK, [Next]_vars, ready, Settled', "outdated" \notin doubt',
         NEW type \in {"pairok", "connok"}, NEW h, Pending(type, h)
  PROVE  Pending(type, h)'
<1> SUFFICES ASSUME UrcStep, urcs # <<>>, urcs' = Tail(urcs), Head(urcs).type = type
             PROVE  FALSE
  BY PendingStays DEF TypeOK
<1>1. ~ScanCallbackReturns
  <2>1. urcs' # urcs
    BY DEF TypeOK, UrcTypeOK
  <2> QED BY <2>1 DEF ScanCallbackReturns
<1>2. ASSUME NEW ty, QueryOnUrc(ty) PROVE FALSE
  BY <1>2 DEF QueryOnUrc, SendQuery, Settled
<1> QED BY <1>1, <1>2 DEF UrcStep, UrcIgnored, OnURCHandler_BTScan, NextUrc,
        OnURCHandler_BTPairCnf_Success, OnURCHandler_BTPairCnf_Fail, OnURCHandler_BTConn_Success,
        OnURCHandler_BTDisconn

LEMMA ListCompleteInductive ==
  ASSUME TypeOK, ChannelInv, ListInv, TodoIsCurrent, CompleteInv, [Next]_vars
  PROVE  ListComplete'
<1> SUFFICES ASSUME ready', "outdated" \notin doubt', Room', Settled'
             PROVE  /\ \A k \in PairId : pair'[k] # NULL => PairingShown(k)' \/ Pending("pairok", pair[k])'
                    /\ \A c \in ConnId : conn'[c] # NULL => ConnectionShown(c)' \/ Pending("connok", conn[c])'
  BY DEF ListComplete
<1>1. CASE ATRsp_QBTSTATE_OK
  <2>1. /\ m_arrBTDev' = m_arrBTDev /\ pair' = pair /\ conn' = conn /\ QueryInFlight /\ burst.todo = {}
    BY <1>1 DEF ATRsp_QBTSTATE_OK, module
  <2>2. ~burst.wiped
    BY <1>1, <2>1 DEF ATRsp_QBTSTATE_OK, CompleteInv, WipedIsOutdated
  <2>3. Room
    BY <2>1 DEF Room
  <2> QED BY <2>1, <2>2, <2>3 DEF CompleteInv, QueryCompletes, Awaits, PairingShown, ConnectionShown
<1>2. CASE ~ATRsp_QBTSTATE_OK
  <2>1. Settled /\ ~Empties
    BY <1>2, SettledBefore
  <2>2. ready /\ Room /\ "outdated" \notin doubt /\ ~Noted
    BY <1>2, <2>1, ReadyBefore, StepShows, DoubtsStay DEF ShownChange, Room, Empties, Noted
  <2>3. /\ \A k \in PairId : pair[k] # NULL => PairingShown(k) \/ Pending("pairok", pair[k])
        /\ \A c \in ConnId : conn[c] # NULL => ConnectionShown(c) \/ Pending("connok", conn[c])
    BY <2>1, <2>2 DEF CompleteInv, ListComplete
  <2>4. /\ \A k \in PairId : pair'[k] # NULL => pair'[k] = pair[k] \/ Pending("pairok", pair[k])'
        /\ \A c \in ConnId : conn'[c] # NULL => conn'[c] = conn[c] \/ Pending("connok", conn[c])'
    BY ModuleInductive DEF CompleteInv
  <2>5. ASSUME NEW k \in PairId, pair'[k] # NULL, pair'[k] = pair[k]
        PROVE  PairingShown(k)' \/ Pending("pairok", pair[k])'
    <3>1. CASE PairingShown(k)
      BY <2>1, <2>2, <2>5, <3>1, PairingKept DEF CompleteInv, PairingShown
    <3>2. CASE Pending("pairok", pair[k])
      <4>1. PICK h : h = pair[k]
        OBVIOUS
      <4>2. Pending("pairok", h)'
        BY <2>2, <3>2, <4>1, ReportsStay
      <4> QED BY <2>5, <4>1, <4>2 DEF Pending
    <3> QED BY <2>3, <2>5, <3>1, <3>2
  <2>6. ASSUME NEW c \in ConnId, conn'[c] # NULL, conn'[c] = conn[c]
        PROVE  ConnectionShown(c)' \/ Pending("connok", conn[c])'
    <3>1. CASE ConnectionShown(c)
      BY <2>1, <2>2, <2>6, <3>1, ConnectionKept DEF CompleteInv, ConnectionShown
    <3>2. CASE Pending("connok", conn[c])
      <4>1. PICK h : h = conn[c]
        OBVIOUS
      <4>2. Pending("connok", h)'
        BY <2>2, <3>2, <4>1, ReportsStay
      <4> QED BY <2>6, <4>1, <4>2 DEF Pending
    <3> QED BY <2>3, <2>6, <3>1, <3>2
  <2> QED BY <2>4, <2>5, <2>6
<1> QED BY <1>1, <1>2

LEMMA CompleteInductive ==
  ASSUME TypeOK, ChannelInv, ListInv, TodoIsCurrent, CompleteInv, [Next]_vars
  PROVE  CompleteInv'
BY ModuleInductive, QueryInductive, ListCompleteInductive DEF CompleteInv

-----------------------------------------------------------------------------
(* A command that names a device by its id. *)

LEMMA IdsReadAreShown ==
  ASSUME TypeOK, NEW h, Listed(m_arrBTDev, h), NEW f, NEW wild,
         NEW id \in BT_DevMngmt_Get(m_arrBTDev, h, f, wild)
  PROVE  Shows(m_arrBTDev, h, f, id)
BY DEF BT_DevMngmt_Get, Shows

LEMMA CallNamesDevice ==
  ASSUME TypeOK, PairsShown, ConnsShown, ScansShown, NEW h \in Dev,
         RIL_BT_PairReq(h) \/ RIL_BT_Unpair(h) \/ RIL_BT_ConnReq(h) \/ RIL_BT_Disconnect(h)
  PROVE  CommandNamesItsDevice
<1>0. app.pc = "idle" /\ \A g : ~Unpairing(g)
  BY DEF RIL_BT_PairReq, RIL_BT_Unpair, RIL_BT_ConnReq, RIL_BT_Disconnect, SendFor, Unpairing
<1>1. ASSUME NEW pc, NEW f, NEW wild, NEW valid, SendFor(h, pc, f, wild, valid),
             Listed(m_arrBTDev, h)
      PROVE  app'.pc = pc /\ app'.hdl = h /\ app'.id \in valid /\ Shows(m_arrBTDev, h, f, app'.id)
  <2>1. PICK id \in BT_DevMngmt_Get(m_arrBTDev, h, f, wild) \cap valid : Call(pc, h, id)
    BY <1>1 DEF SendFor
  <2>2. app'.pc = pc /\ app'.hdl = h /\ app'.id = id
    BY <2>1 DEF Call, NoCall
  <2>3. Shows(m_arrBTDev, h, f, id)
    BY <1>1, <2>1, IdsReadAreShown
  <2> QED BY <2>1, <2>2, <2>3
<1>2. app'.hdl = h
  BY DEF RIL_BT_PairReq, RIL_BT_Unpair, RIL_BT_ConnReq, RIL_BT_Disconnect, SendFor, Call, NoCall
<1>3. CASE ~Listed(m_arrBTDev, h)
  BY <1>2, <1>3 DEF CommandNamesItsDevice
<1>4. CASE RIL_BT_PairReq(h) /\ Listed(m_arrBTDev, h)
  <2>1. app'.pc = "pair" /\ app'.id \in DevId /\ Shows(m_arrBTDev, h, "devId", app'.id)
    BY <1>1, <1>4 DEF RIL_BT_PairReq
  <2> QED BY <1>2, <2>1 DEF ScansShown, CommandNamesItsDevice
<1>5. CASE RIL_BT_Unpair(h) /\ Listed(m_arrBTDev, h)
  <2>1. app'.pc = "unpair" /\ app'.id \in PairId /\ Shows(m_arrBTDev, h, "pairId", app'.id)
    BY <1>1, <1>5 DEF RIL_BT_Unpair
  <2> QED BY <1>0, <1>2, <2>1 DEF PairsShown, CommandNamesItsDevice
<1>6. CASE RIL_BT_ConnReq(h) /\ Listed(m_arrBTDev, h)
  <2>1. app'.pc = "conn" /\ app'.id \in PairId /\ Shows(m_arrBTDev, h, "pairId", app'.id)
    BY <1>1, <1>6 DEF RIL_BT_ConnReq
  <2> QED BY <1>0, <1>2, <2>1 DEF PairsShown, CommandNamesItsDevice
<1>7. CASE RIL_BT_Disconnect(h) /\ Listed(m_arrBTDev, h)
  <2>1. app'.pc = "disc" /\ app'.id \in ConnId \cup {0} /\ Shows(m_arrBTDev, h, "connId", app'.id)
    BY <1>1, <1>7 DEF RIL_BT_Disconnect
  <2>2. app'.id \in ConnId
    <3>1. app'.id = -1 \/ app'.id \in ConnId
      BY <2>1, ShownIdsAreTyped DEF TypeOK, RilTypeOK
    <3>2. -1 \notin ConnId \cup {0}
      BY CountsAreNatural DEF ConnId
    <3> QED BY <2>1, <3>1, <3>2
  <2> QED BY <1>0, <1>2, <2>1, <2>2 DEF ConnsShown, CommandNamesItsDevice
<1> QED BY <1>3, <1>4, <1>5, <1>6, <1>7

LEMMA StepNamesDevice ==
  ASSUME TypeOK, ChannelInv, PairsShown, ConnsShown, ScansShown, [Next]_vars
  PROVE  [CommandNamesItsDevice]_app
<1> SUFFICES ASSUME app.pc = "idle", app'.pc \in {"pair", "conn", "unpair", "disc"}
             PROVE  CommandNamesItsDevice
  BY DEF CommandNamesItsDevice
<1>0. at # "app" /\ app' # app
  BY DEF ChannelInv
<1>1. CASE AppCalls
  <2>1. ~RIL_BT_Initialize /\ ~RIL_BT_QueryState /\ ~RIL_BT_StartScan
    BY DEF RIL_BT_Initialize, RIL_BT_QueryState, RIL_BT_StartScan, CleanAndQuery, Call, NoCall
  <2> QED BY <1>1, <2>1, CallNamesDevice DEF AppCalls
<1>2. CASE QueryStep
  BY <1>0, <1>2 DEF QueryStep, ATRsp_QBTSTATE_Summary, ATRsp_QBTSTATE_Line, ATRsp_QBTSTATE_OK,
     QueryFails, QueryInFlight, Resume
<1>3. CASE AppReturns
  BY <1>0, <1>3 DEF AppReturns, SendScan, CommandOk, CommandFails, UnpairReturns
<1>4. CASE UrcStep
  BY <1>0, <1>4 DEF UrcStep, UrcIgnored, OnURCHandler_BTScan, ScanCallbackReturns,
     OnURCHandler_BTPairCnf_Success, OnURCHandler_BTPairCnf_Fail, OnURCHandler_BTConn_Success,
     OnURCHandler_BTDisconn, QueryOnUrc
<1>5. CASE ModuleStep \/ UNCHANGED vars
  BY <1>0, <1>5 DEF ModuleStep, Pairs, PairingFails, Connects, Finds, Disconnects, ConnectingFails,
     ScanEnds, Notify, vars
<1> QED BY <1>1, <1>2, <1>3, <1>4, <1>5 DEF Next

-----------------------------------------------------------------------------
(* The invariant all of it is proved from.                                 *)
ListTracksModule ==
  /\ TypeOK /\ ChannelInv /\ ListInv /\ TodoIsCurrent /\ IdleUntilReady
  /\ PairsShown /\ ConnsShown /\ ScanInv /\ CompleteInv

LEMMA InitListTracksModule == Init => ListTracksModule
<1> SUFFICES ASSUME Init PROVE ListTracksModule
  OBVIOUS
<1>1. TypeOK /\ ChannelInv /\ ListInv
  BY InitTypeOK, InitChannelAndPrompt, InitListInv
<1>2. /\ m_arrBTDev = BT_DevMngmt_Clean /\ ~ready /\ at = "none" /\ app.pc = "idle"
      /\ urc.pc = "idle" /\ urcs = <<>> /\ burst.todo = {}
  BY DEF Init, NoCall, NoUrc, NoBurst
<1>3. TodoIsCurrent /\ IdleUntilReady
  BY <1>2 DEF TodoIsCurrent, IdleUntilReady
<1>4. PairsShown /\ ConnsShown /\ ScansShown
  BY <1>2, CleanShowsNothing DEF PairsShown, ConnsShown, ScansShown
<1>5. ScanInv
  BY <1>2, <1>4 DEF ScanInv, FoundAreCurrent, NothingFoundYet
<1>6. OnePairingEach /\ ConnectedArePaired
  BY DEF Init, OnePairingEach, ConnectedArePaired
<1>7. QueryCompletes /\ WipedIsOutdated /\ ListComplete
  BY <1>2 DEF QueryCompletes, WipedIsOutdated, ListComplete, QueryInFlight
<1> QED BY <1>1, <1>3, <1>4, <1>5, <1>6, <1>7 DEF ListTracksModule, CompleteInv

LEMMA ListTracksModuleInductive ==
  ASSUME ListTracksModule, [Next]_vars
  PROVE  ListTracksModule'
BY TypeInductive, ChannelInductive, ListInductive, TodoInductive, IdleInductive, PairsInductive,
   ConnsInductive, ScanInductive, CompleteInductive DEF ListTracksModule

LEMMA ListAlwaysTracksModule == Spec => []ListTracksModule
BY InitListTracksModule, ListTracksModuleInductive, PTL DEF Spec

(* Every pairing id a lookup in the list finds is, in the module, that     *)
(* device's pairing: RIL_BT_ConnReq and RIL_BT_Unpair, which send it, act  *)
(* on no other device, but for an unpairing the list did not record.       *)
THEOREM ListedPairIdsAreCurrent == Spec => []PairIdsAreCurrent
<1>1. ListTracksModule => PairIdsAreCurrent
  BY IdsAreShown DEF ListTracksModule
<1> QED BY <1>1, ListAlwaysTracksModule, PTL

(* Every connection id a lookup finds is one of that device's connections, *)
(* until the report of its end has been handled: RIL_BT_Disconnect, which  *)
(* sends it, ends no other device's connection.                            *)
THEOREM ListedConnIdsAreCurrent == Spec => []ConnIdsAreCurrent
<1>1. ListTracksModule => ConnIdsAreCurrent
  BY IdsAreShown DEF ListTracksModule
<1> QED BY <1>1, ListAlwaysTracksModule, PTL

(* Every scan index a lookup finds is the device's in the module's present *)
(* scan, unless RIL_BT_StartScan was called before the last one's reports  *)
(* were in: BT_DevMngmt_Clean and the order in the queue suffice.          *)
THEOREM ListedScanIdsAreCurrent == Spec => []DevIdsAreCurrent
<1>1. ListTracksModule => DevIdsAreCurrent
  BY IdsAreShown DEF ListTracksModule, ScanInv
<1> QED BY <1>1, ListAlwaysTracksModule, PTL

(* When nobody waits and every report is handled, the list has every       *)
(* pairing of the module, with its id, and every connected device.         *)
THEOREM QuietListMatchesModule == Spec => []QuietListIsComplete
<1>1. ASSUME ListTracksModule PROVE QuietListIsComplete
  <2> SUFFICES ASSUME ready, at = "none", urcs = <<>>, "outdated" \notin doubt, Room
               PROVE  /\ \A k \in PairId : pair[k] # NULL =>
                           \E i \in Slot : IsFirst(m_arrBTDev, i, pair[k]) /\ m_arrBTDev[i].pairId = k
                      /\ \A c \in ConnId : conn[c] # NULL =>
                           \E i \in Slot : IsFirst(m_arrBTDev, i, conn[c]) /\ m_arrBTDev[i].connId # -1
    BY DEF QuietListIsComplete, Room
  <2>1. \A type, h : ~Pending(type, h)
    BY DEF Pending
  <2>2. /\ \A k \in PairId : pair[k] # NULL => PairingShown(k)
        /\ \A c \in ConnId : conn[c] # NULL => ConnectionShown(c)
    BY <1>1, <2>1 DEF ListTracksModule, CompleteInv, ListComplete, Settled
  <2>3. \A id \in ConnId : id # -1
    BY CountsAreNatural DEF ConnId
  <2> QED BY <2>2, <2>3 DEF PairingShown, ConnectionShown, Shows
<1> QED BY <1>1, ListAlwaysTracksModule, PTL

(* A command sent for a listed device carries that device's id, whatever   *)
(* reports and query answers came in between the list and the command.     *)
THEOREM CommandsNameTheirDevice == Spec => CommandsReachTheirDevice
<1>1. ListTracksModule /\ [Next]_vars => [CommandNamesItsDevice]_app
  BY StepNamesDevice DEF ListTracksModule, ScanInv
<1> QED BY <1>1, ListAlwaysTracksModule, PTL DEF Spec, CommandsReachTheirDevice
=============================================================================
