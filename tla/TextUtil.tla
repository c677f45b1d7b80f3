------------------------------ MODULE TextUtil ------------------------------
(***************************************************************************)
(* The text functions of ril_util.c, and the two conversions of            *)
(* ril_system.c and ril_bluetooth.c.  A text is the sequence of its        *)
(* characters, a pointer into it is a position, and NULL is 0.             *)
(***************************************************************************)
EXTENDS Integers, Sequences

CR == "\r"
LF == "\n"

\* The loops of the source: the first of the positions 1..n that passes the test, or 0.
FirstOf(passes, n) ==
  LET from[i \in 1..(n + 1)] == IF i > n THEN 0 ELSE IF i \in passes THEN i ELSE from[i + 1]
  IN IF n < 1 THEN 0 ELSE from[1]

\* Ql_strncmp at a position
StrAt(line, i, str) == i + Len(str) - 1 <= Len(line) /\ SubSeq(line, i, i + Len(str) - 1) = str

\* Both texts are walked as long as they agree; what counts is whether the prefix was used up.
Ql_StrPrefixMatch(str, prefix) ==
  LET n      == Len(str) + 1
      differ == {i \in 1..n : i > Len(str) \/ i > Len(prefix) \/ str[i] # prefix[i]}
  IN FirstOf(differ, n) > Len(prefix)

Ql_RIL_FindString(line, str) ==
  LET n == Len(line) - Len(str) + 1 IN FirstOf({i \in 1..n : StrAt(line, i, str)}, n)

\* First <CR><LF>str<CR><LF> anywhere, then the first of <CR>str<CR>, <LF>str<LF> and str<CR><LF> that
\* begins at one of the positions 1..n.
FoundUpTo(n, line, str) ==
  LET ends  == {<<CR>> \o str \o <<CR>>, <<LF>> \o str \o <<LF>>, str \o <<CR, LF>>}
      whole == Ql_RIL_FindString(line, <<CR, LF>> \o str \o <<CR, LF>>)
  IN IF whole # 0 THEN whole ELSE FirstOf({i \in 1..n : \E e \in ends : StrAt(line, i, e)}, n)

\* (mutant) the loop ends one position early
MissesTheLast(line, str) == FoundUpTo(Len(line) - (Len(str) + 2), line, str)

Ql_RIL_FindLine(line, str) == FoundUpTo(Len(line) - (Len(str) + 2) + 1, line, str)

-----------------------------------------------------------------------------
\* The letters of hexadecimal numbers, the only ones that are converted and looked at.
Digits == <<"0", "1", "2", "3", "4", "5", "6", "7", "8", "9", "A", "B", "C", "D", "E", "F">>
Lower  == <<"a", "b", "c", "d", "e", "f">>
Upper  == <<"A", "B", "C", "D", "E", "F">>

IsDigit(c) == \E k \in DOMAIN Digits : Digits[k] = c
Value(c)   == (CHOOSE k \in DOMAIN Digits : Digits[k] = c) - 1

UpperCase(c) ==
  IF \E k \in DOMAIN Lower : Lower[k] = c THEN Upper[CHOOSE k \in DOMAIN Lower : Lower[k] = c] ELSE c

Ql_StrToUpper(str) == [i \in DOMAIN str |-> UpperCase(str[i])]

Invalid == "FALSE"

SixteenTo(n) == LET power[k \in 0..n] == IF k = 0 THEN 1 ELSE 16 * power[k - 1] IN power[n]

\* The digits are shifted from the right into an integer that has room for w of them (8 in a u32).
Ql_HexStrToInt(str, w) ==
  LET up == Ql_StrToUpper(str)
      u32 == SixteenTo(w)
      temp[i \in 0..Len(up)] == IF i = 0 THEN 0 ELSE (temp[i - 1] * 16 + Value(up[i])) % u32
  IN IF \A i \in DOMAIN up : IsDigit(up[i]) THEN temp[Len(up)] ELSE Invalid

\* Every second digit completes a byte; a last one without a second is dropped.
hexstring_to_value(str) ==
  LET up == Ql_StrToUpper(str)
  IN IF \A i \in DOMAIN up : IsDigit(up[i])
     THEN [j \in 1..(Len(up) \div 2) |-> (Value(up[2 * j - 1]) * 16 + Value(up[2 * j])) % 256]
     ELSE Invalid

-----------------------------------------------------------------------------
\* The names of the profiles, cut where they differ.
pf_name ==
  << <<"SPP">>, <<"OBEX_", "PBA_PROFILE", "_CLIENT">>, <<"OBEX_", "PBA_PROFILE">>,
     <<"OBEX_", "OBJECT_PUSH_", "SERVICE">>, <<"OBEX_", "OBJECT_PUSH_", "CLIENT">>,
     <<"HF", "_PROFILE">>, <<"HF", "G_PROFILE">> >>

\* The comparison is as long as the name received, so any beginning of a known name is taken for it.
BT_DevMngmt_ProfileNameToId(profile_name) ==
  FirstOf({i \in DOMAIN pf_name : StrAt(pf_name[i], 1, profile_name)}, Len(pf_name)) - 1

-----------------------------------------------------------------------------
\* What the functions should compute, over all texts of a set and the words looked for.

LineEnds == {CR, LF}

\* The word alone between the beginning of the text or of a line and the end of a line.
IsWholeLine(line, str) ==
  \E i \in 1..Len(line) :
    \/ StrAt(line, i, <<CR>> \o str \o <<CR>>) \/ StrAt(line, i, <<LF>> \o str \o <<LF>>)
    \/ StrAt(line, i, str \o <<CR, LF>>) /\ (i > 1 => line[i - 1] \in LineEnds)

\* Ql_RIL_FindLine finds a line that is the word and, since it does not look at what is before the word,
\* also a line that merely ends in it; what it finds is before an end of line.  Ql_RIL_FindString finds the
\* word where it is first, and Ql_StrPrefixMatch tells whether that is the beginning.
IsFoundRight(line, str, lineAt, at) ==
  /\ IsWholeLine(line, str) => lineAt # 0
  /\ lineAt # 0 =>
       IsWholeLine(line, str) \/ \E i \in lineAt..Len(line) : StrAt(line, i, str \o <<CR, LF>>)
  /\ at = 0 <=> \A i, j \in 1..Len(line) : SubSeq(line, i, j) # str
  /\ \A i \in 1..(at - 1) : ~StrAt(line, i, str)
  /\ Ql_StrPrefixMatch(line, str) <=> at = 1

LinesAreFound(texts, words) ==
  \A line \in texts, str \in words :
    IsFoundRight(line, str, Ql_RIL_FindLine(line, str), Ql_RIL_FindString(line, str))

\* A number is what its digits say; one too long for the integer keeps its last digits.  Bytes are read as
\* they were written, and half a byte is dropped; of all the profiles only OBEX_PBA_PROFILE is taken for
\* another, whose name goes on where its own ends.
IsReadRight(s, w) ==
  /\ Len(s) \in 1..w => Ql_HexStrToInt(s, w) =
       Ql_HexStrToInt(SubSeq(s, 1, Len(s) - 1), w) * 16 + Value(Ql_StrToUpper(s)[Len(s)])
  /\ Len(s) > w => Ql_HexStrToInt(s, w) = Ql_HexStrToInt(SubSeq(s, Len(s) - w + 1, Len(s)), w)
  /\ Ql_HexStrToInt(s, w) = Ql_HexStrToInt(Ql_StrToUpper(s), w)
  /\ hexstring_to_value(s) =
       [j \in 1..(Len(s) \div 2) |-> Ql_HexStrToInt(SubSeq(s, 2 * j - 1, 2 * j), 2)]

NumbersAndNamesAreRead(numbers, w) ==
  /\ \A s \in numbers : IsReadRight(s, w)
  /\ {i \in DOMAIN pf_name : BT_DevMngmt_ProfileNameToId(pf_name[i]) # i - 1} = {3}
=============================================================================
