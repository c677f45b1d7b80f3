---------------------------- MODULE MCAtCommands ----------------------------
(* A small instance of AtCommands for TLC: one task calls every function, the other those that share. *)
EXTENDS AtCommands, TextUtil

CONSTANTS T1, T2

\* The functions that share a static with other calls, and those that change what others depend on.
Sharing == {"RIL_AUD_GetVolume_Mic", "RIL_AUD_SetChannel", "RIL_ToneDet_Get", "RIL_BT_SPP_Send",
            "RIL_BT_SPP_Read"}

\* A function that shares nothing but the channel, to be met by the calls of the other task.
Others == {"RIL_NW_GetSignalQuality"}

MCTasks   == {T1, T2}
MCMayCall == (T1 :> Functions) @@ (T2 :> Sharing)
MCValues  == {"5"}

\* The groups of statics that calls have changed.
Touched ==
  (IF s_channel_qmic # "1" \/ audChannel # "1" THEN {"audio"} ELSE {})
    \cup (IF threshold # NoTask THEN {"tones"} ELSE {})
    \cup (IF sppState.snd # NoTask \/ sppState.rcv # NoTask THEN {"spp"} ELSE {})

\* Bound: the functions that share no static are called while the other task is idle and the statics are
\* as they were at first, except for Others; of the groups of statics one is in use; and calls go on
\* after the error code was changed only while the statics are untouched.
OthersAlone ==
  /\ call[T1].fn \notin Sharing \cup Others \cup {""} => call[T2].pc = "idle" /\ Touched = {}
  /\ Touched # {} => ~pdpActive
  /\ Cardinality(Touched) <= 1
  /\ m_iErrCode # "0" => Touched = {} /\ call[T2].pc = "idle"
-----------------------------------------------------------------------------
\* Bounds for the text functions: an end of a line on both sides of the word and one character more; a byte
\* of two digits and one digit more.
Texts   == UNION {[1..n -> {CR, LF, "O"}] : n \in 0..6}
Words   == {<<"O">>, <<"O", "O">>}
Numbers == UNION {[1..n -> {"0", "9", "a", "F"}] : n \in 0..3}

TextFunctionsAgree == LinesAreFound(Texts, Words) /\ NumbersAndNamesAreRead(Numbers, 2)

\* When a handler looks at a line, the functions of ril_util.c with which it tells lines apart, and the
\* conversions of numbers and names, compute what their reference definitions say, for all texts and numbers
\* within the bounds.
TextIsReadRight == waiting.lines # <<>> => TextFunctionsAgree
=============================================================================
