--------------------------- MODULE TextUtilProofs ---------------------------
(***************************************************************************)
(* Proofs about TextUtil, for texts and numbers of any length: what the    *)
(* search loops and the conversions compute.  The loops are recursive      *)
(* functions, so the proofs are by induction; for it and for the existence *)
(* of functions defined by recursion the least-number principle is enough, *)
(* which the library states of well-founded relations.                     *)
(*                                                                         *)
(* First the loops and the searches, then recursion, letters, remainders   *)
(* and numbers, then the table of profiles, and last the invariant of the  *)
(* small instance.                                                         *)
(***************************************************************************)
EXTENDS MCAtCommands, SequenceTheorems, WellFoundedInduction, TLAPS

(* The least-number principle, from the well-foundedness of < on Nat; and  *)
(* induction, for a set of numbers.                                        *)
LEMMA LeastNumber ==
  ASSUME NEW S, S \subseteq Nat, S # {}
  PROVE  \E x \in S : \A y \in S : x <= y
<1> DEFINE R == OpToRel(<, Nat)
<1>1. \E x \in S : \A y \in S : <<y, x>> \notin R
  BY WFMin, NatLessThanWellFounded
<1>2. \A a, b \in Nat : a < b => <<a, b>> \in R
  BY DEF OpToRel
<1> HIDE DEF R
<1>3. PICK x \in S : \A y \in S : <<y, x>> \notin R
  BY <1>1
<1>4. ASSUME NEW y \in S PROVE x <= y
  <2>1. <<y, x>> \notin R /\ x \in Nat /\ y \in Nat
    BY <1>3
  <2>2. ~(y < x)
    BY <1>2, <2>1
  <2> QED
    BY <2>1, <2>2
<1> QED
  BY <1>4

LEMMA Induction ==
  ASSUME NEW S, 0 \in S, \A n \in Nat : n \in S => n + 1 \in S
  PROVE  Nat \subseteq S
<1> SUFFICES ASSUME Nat \ S # {} PROVE FALSE
  OBVIOUS
<1>1. PICK x \in Nat \ S : \A y \in Nat \ S : x <= y
  BY LeastNumber
<1>2. x # 0
  BY <1>1
<1>3. x - 1 \in Nat /\ x - 1 \in S
  BY <1>1, <1>2
<1> QED
  BY <1>1, <1>3

(* The loop of FirstOf: its equation has a solution, and what any solution *)
(* begins with is the first number that passes.                            *)
IsFirst(f, passes, n) ==
  \/ f = 0 /\ passes \cap 1..n = {}
  \/ f \in passes \cap 1..n /\ passes \cap 1..(f - 1) = {}

(* The loop's equation, and that just one function satisfies it.           *)
Looks(from, passes, n) ==
  from = [i \in 1..(n + 1) |-> IF i > n THEN 0 ELSE IF i \in passes THEN i ELSE from[i + 1]]

LEMMA LoopHasAResult ==
  ASSUME NEW passes, NEW n \in Nat
  PROVE  \E from : Looks(from, passes, n)
<1> DEFINE Hit(i, k) == k \in passes /\ k \in i..n /\ \A j \in i..(k - 1) : j \notin passes
           Found(i) == IF \E k \in Int : Hit(i, k) THEN CHOOSE k \in Int : Hit(i, k) ELSE 0
           from == [i \in 1..(n + 1) |-> Found(i)]
<1>1. \A i \in Int : i > n => Found(i) = 0
  OBVIOUS
<1>2. ASSUME NEW i \in Int, i <= n, i \in passes PROVE Found(i) = i
  <2>1. \A k \in Int : Hit(i, k) <=> k = i
    BY <1>2
  <2> HIDE DEF Hit
  <2> QED
    BY <2>1
<1>3. ASSUME NEW i \in Int, i <= n, i \notin passes PROVE Found(i) = Found(i + 1)
  <2>1. \A k \in Int : Hit(i, k) <=> Hit(i + 1, k)
    BY <1>3
  <2> HIDE DEF Hit
  <2>2. (CHOOSE k \in Int : Hit(i, k)) = (CHOOSE k \in Int : Hit(i + 1, k))
    BY <2>1
  <2> QED
    BY <2>1, <2>2
<1> HIDE DEF Found
<1>4. \A i \in 1..(n + 1) : i <= n => from[i + 1] = Found(i + 1)
  OBVIOUS
<1>5. \A i \in 1..(n + 1) :
        Found(i) = IF i > n THEN 0 ELSE IF i \in passes THEN i ELSE from[i + 1]
  BY <1>1, <1>2, <1>3, <1>4
<1> QED
  BY <1>5 DEF Looks

LEMMA FirstOfIsFirst ==
  ASSUME NEW passes, NEW n \in Int
  PROVE  IsFirst(FirstOf(passes, n), passes, n)
<1>1. CASE n < 1
  BY <1>1 DEF FirstOf, IsFirst
<1>2. CASE n >= 1
  <2> DEFINE from == CHOOSE g : g = [i \in 1..(n + 1) |-> IF i > n THEN 0 ELSE IF i \in passes THEN i ELSE g[i + 1]]
  <2>1. n \in Nat
    BY <1>2
  <2>2. Looks(from, passes, n)
    <3>1. from = CHOOSE g : Looks(g, passes, n)
      BY DEF Looks
    <3> HIDE DEF from
    <3> QED
      BY <3>1, <2>1, LoopHasAResult
  <2>3. FirstOf(passes, n) = from[1]
    BY <1>2 DEF FirstOf
  <2> HIDE DEF from
  <2>4. from[n + 1] = 0
    BY <2>1, <2>2 DEF Looks
  <2>5. \A i \in 1..n : from[i] = IF i \in passes THEN i ELSE from[i + 1]
    BY <2>1, <2>2 DEF Looks
  <2>6. CASE passes \cap 1..n = {}
    <3> DEFINE S == {k \in Nat : k <= n => from[n + 1 - k] = 0}
    <3>1. 0 \in S
      BY <2>4, <2>1
    <3>2. ASSUME NEW k \in Nat, k \in S PROVE k + 1 \in S
      <4> SUFFICES ASSUME k + 1 <= n PROVE from[n + 1 - (k + 1)] = 0
        OBVIOUS
      <4>1. from[n + 1 - k] = 0 /\ n - k \in 1..n
        BY <3>2, <2>1
      <4>2. n + 1 - (k + 1) = n - k /\ (n - k) + 1 = n + 1 - k /\ n - k \notin passes
        BY <2>1, <2>6, <4>1
      <4> QED
        BY <4>1, <4>2, <2>5
    <3>3. Nat \subseteq S
      BY <3>1, <3>2, Induction
    <3>4. from[n + 1 - n] = 0 /\ n + 1 - n = 1
      BY <3>3, <2>1
    <3> QED
      BY <3>4, <2>3, <2>6 DEF IsFirst
  <2>7. CASE passes \cap 1..n # {}
    <3>1. PICK f \in passes \cap 1..n : \A y \in passes \cap 1..n : f <= y
      BY LeastNumber, passes \cap 1..n \subseteq Nat, <2>7
    <3> DEFINE S == {k \in Nat : k < f => from[f - k] = f}
    <3>2. 0 \in S
      BY <2>5, <2>1, <3>1
    <3>3. ASSUME NEW k \in Nat, k \in S PROVE k + 1 \in S
      <4> SUFFICES ASSUME k + 1 < f PROVE from[f - (k + 1)] = f
        OBVIOUS
      <4>1. from[f - k] = f /\ f - (k + 1) \in 1..n /\ (f - (k + 1)) + 1 = f - k
        BY <3>1, <3>3, <2>1
      <4>2. f - (k + 1) \notin passes
        BY <3>1, <4>1
      <4> QED
        BY <4>1, <4>2, <2>5
    <3>4. f - 1 \in S
      BY <3>1, <3>2, <3>3, Induction, f - 1 \in Nat
    <3>5. from[1] = f
      BY <3>4, <3>1, f - (f - 1) = 1
    <3> QED
      BY <3>1, <3>5, <2>3 DEF IsFirst
  <2> QED
    BY <2>6, <2>7
<1> QED
  BY <1>1, <1>2

-----------------------------------------------------------------------------
(* StrAt compares character by character.                                  *)
LEMMA StrAtComparesCharacters ==
  ASSUME NEW C, NEW line \in Seq(C), NEW str \in Seq(C), NEW i \in Nat \ {0}
  PROVE  StrAt(line, i, str) <=>
           i + Len(str) - 1 <= Len(line) /\ \A k \in 1..Len(str) : line[i + k - 1] = str[k]
<1> DEFINE j == i + Len(str) - 1
           part == SubSeq(line, i, j)
<1>1. Len(str) \in Nat /\ Len(line) \in Nat /\ j \in Int
  BY LenProperties
<1>2. CASE j <= Len(line)
  <2>1. \A k \in i..j : line[k] \in C
    BY <1>1, <1>2, ElementOfSeq
  <2>2. part \in Seq(C) /\ Len(part) = Len(str) /\ \A k \in 1..Len(str) : part[k] = line[i + k - 1]
    BY <2>1, <1>1, SubSeqProperties
  <2>3. part = str <=> \A k \in 1..Len(str) : part[k] = str[k]
    BY <2>2, SeqEqual
  <2> QED
    BY <1>2, <2>2, <2>3 DEF StrAt
<1> QED
  BY <1>2 DEF StrAt

(* Ql_RIL_FindString returns the first place of the word, or 0 if there is *)
(* none.                                                                   *)
LEMMA StringIsFoundFirst ==
  ASSUME NEW C, NEW line \in Seq(C), NEW str \in Seq(C)
  PROVE  LET at == Ql_RIL_FindString(line, str)
         IN \/ at = 0 /\ \A i \in Nat \ {0} : ~StrAt(line, i, str)
            \/ at \in Nat \ {0} /\ StrAt(line, at, str) /\ \A i \in 1..(at - 1) : ~StrAt(line, i, str)
<1> DEFINE n      == Len(line) - Len(str) + 1
           passes == {i \in 1..n : StrAt(line, i, str)}
<1>1. n \in Int /\ Len(str) \in Nat /\ Len(line) \in Nat
  BY LenProperties
<1>2. IsFirst(FirstOf(passes, n), passes, n) /\ FirstOf(passes, n) = Ql_RIL_FindString(line, str)
  BY <1>1, FirstOfIsFirst DEF Ql_RIL_FindString
<1>3. \A i \in Nat \ {0} : StrAt(line, i, str) => i \in passes
  BY <1>1 DEF StrAt
<1> HIDE DEF n
<1> QED
  BY <1>1, <1>2, <1>3 DEF IsFirst

(* It returns 0 just if no part of the text is the word.                   *)
LEMMA StringIsFoundIfThere ==
  ASSUME NEW C, NEW line \in Seq(C), NEW str \in Seq(C), str # <<>>
  PROVE  Ql_RIL_FindString(line, str) = 0 <=>
           \A i, j \in 1..Len(line) : SubSeq(line, i, j) # str
<1>1. Len(str) \in Nat \ {0} /\ Len(line) \in Nat
  BY LenProperties, EmptySeq
<1>2. ASSUME NEW i \in 1..Len(line), NEW j \in 1..Len(line), str = SubSeq(line, i, j)
      PROVE  StrAt(line, i, str)
  <2>1. \A k \in i..j : line[k] \in C
    BY ElementOfSeq
  <2>2. Len(str) = IF i <= j THEN j - i + 1 ELSE 0
    BY <1>2, <2>1, SubSeqProperties
  <2>3. j = i + Len(str) - 1
    BY <2>2, <1>1
  <2> QED
    BY <1>2, <2>3 DEF StrAt
<1>3. ASSUME NEW i \in Nat \ {0}, StrAt(line, i, str)
      PROVE  \E j \in 1..Len(line) : i \in 1..Len(line) /\ str = SubSeq(line, i, j)
  <2>1. i + Len(str) - 1 \in 1..Len(line) /\ i \in 1..Len(line)
    BY <1>1, <1>3 DEF StrAt
  <2> QED
    BY <2>1, <1>3 DEF StrAt
<1> QED
  BY <1>2, <1>3, StringIsFoundFirst

(* The walk of Ql_StrPrefixMatch ends behind the word just if the word is  *)
(* the beginning of the text.                                              *)
LEMMA PrefixIsFoundAtTheBeginning ==
  ASSUME NEW C, NEW line \in Seq(C), NEW str \in Seq(C)
  PROVE  Ql_StrPrefixMatch(line, str) <=> Ql_RIL_FindString(line, str) = 1
<1> DEFINE n      == Len(line) + 1
           differ == {i \in 1..n : i > Len(line) \/ i > Len(str) \/ line[i] # str[i]}
           end    == FirstOf(differ, n)
<1>1. Len(str) \in Nat /\ Len(line) \in Nat /\ n \in Nat
  BY LenProperties
<1>2. IsFirst(end, differ, n)
  BY <1>1, FirstOfIsFirst
<1>3. n \in differ
  BY <1>1
<1>4. end \in differ /\ end \in 1..n /\ \A i \in 1..(end - 1) : i \notin differ
  BY <1>1, <1>2, <1>3 DEF IsFirst
<1>5. end > Len(str) <=> Len(str) <= Len(line) /\ \A k \in 1..Len(str) : line[k] = str[k]
  <2>1. \A k \in 1..n : k \in differ <=> k > Len(line) \/ k > Len(str) \/ line[k] # str[k]
    OBVIOUS
  <2> HIDE DEF differ, end
  <2>2. ASSUME end > Len(str) PROVE Len(str) <= Len(line) /\ \A k \in 1..Len(str) : line[k] = str[k]
    <3>1. \A k \in 1..Len(str) : k \in 1..n /\ k \notin differ
      BY <2>2, <1>1, <1>4
    <3> QED
      BY <3>1, <2>1, <2>2, <1>1, <1>4
  <2>3. ASSUME end <= Len(str) PROVE ~(Len(str) <= Len(line) /\ \A k \in 1..Len(str) : line[k] = str[k])
    BY <2>1, <2>3, <1>1, <1>4
  <2> QED
    BY <2>2, <2>3, <1>1, <1>4
<1>6. Ql_StrPrefixMatch(line, str) <=> end > Len(str)
  BY DEF Ql_StrPrefixMatch
<1>7. StrAt(line, 1, str) <=> Len(str) <= Len(line) /\ \A k \in 1..Len(str) : line[k] = str[k]
  <2>1. PICK i \in Nat \ {0} : i = 1
    OBVIOUS
  <2>2. StrAt(line, i, str) <=>
          i + Len(str) - 1 <= Len(line) /\ \A k \in 1..Len(str) : line[i + k - 1] = str[k]
    BY StrAtComparesCharacters
  <2>3. i + Len(str) - 1 = Len(str) /\ \A k \in 1..Len(str) : i + k - 1 = k
    BY <1>1, <2>1
  <2>4. StrAt(line, i, str) <=> Len(str) <= Len(line) /\ \A k \in 1..Len(str) : line[k] = str[k]
    BY <2>2, <2>3
  <2> QED
    BY <2>1, <2>4
<1>8. StrAt(line, 1, str) <=> Ql_RIL_FindString(line, str) = 1
  BY StringIsFoundFirst
<1> QED
  BY <1>5, <1>6, <1>7, <1>8

(* What FindLine compares with is two characters longer than the word.     *)
LEMMA LineEndsLength ==
  ASSUME NEW C, NEW str \in Seq(C)
  PROVE  LET T == Seq(C \cup {CR, LF})
         IN /\ str \in T /\ str \o <<CR, LF>> \in T /\ <<CR, LF>> \o str \o <<CR, LF>> \in T
            /\ Len(<<CR>> \o str \o <<CR>>) = Len(str) + 2
            /\ Len(<<LF>> \o str \o <<LF>>) = Len(str) + 2
            /\ Len(str \o <<CR, LF>>) = Len(str) + 2
            /\ <<CR, LF>> \o str \o <<CR, LF>> = <<CR, LF>> \o (str \o <<CR, LF>>)
            /\ Len(<<CR, LF>> \o str \o <<CR, LF>>) = Len(str) + 4
<1> DEFINE S == C \cup {CR, LF}
<1>1. <<CR>> \in Seq(S) /\ <<LF>> \in Seq(S) /\ <<CR, LF>> \in Seq(S)
      /\ Len(<<CR>>) = 1 /\ Len(<<LF>>) = 1 /\ Len(<<CR, LF>>) = 2
  OBVIOUS
<1>2. str \in Seq(S) /\ Len(str) \in Nat
  BY SeqMonotonic, C \subseteq S, LenProperties
<1> HIDE DEF S
<1>3. <<CR>> \o str \in Seq(S) /\ Len(<<CR>> \o str) = 1 + Len(str)
      /\ <<LF>> \o str \in Seq(S) /\ Len(<<LF>> \o str) = 1 + Len(str)
      /\ str \o <<CR, LF>> \in Seq(S) /\ Len(str \o <<CR, LF>>) = Len(str) + 2
      /\ <<CR, LF>> \o str \in Seq(S) /\ Len(<<CR, LF>> \o str) = 2 + Len(str)
  BY <1>1, <1>2, ConcatProperties
<1>4. Len(<<CR>> \o str \o <<CR>>) = 1 + Len(str) + 1 /\ Len(<<LF>> \o str \o <<LF>>) = 1 + Len(str) + 1
      /\ <<CR, LF>> \o str \o <<CR, LF>> \in Seq(S)
      /\ Len(<<CR, LF>> \o str \o <<CR, LF>>) = 2 + Len(str) + 2
  BY <1>1, <1>3, ConcatProperties
<1>5. <<CR, LF>> \o str \o <<CR, LF>> = <<CR, LF>> \o (str \o <<CR, LF>>)
  BY <1>1, <1>2, ConcatAssociative
<1>6. 1 + Len(str) + 1 = Len(str) + 2 /\ 2 + Len(str) + 2 = Len(str) + 4
  BY <1>2
<1>7. S = C \cup {CR, LF}
  BY DEF S
<1> QED
  BY <1>2, <1>3, <1>4, <1>5, <1>6, <1>7

(* Where a whole line with both its ends is, its word is two places on.    *)
LEMMA WordOfWholeLine ==
  ASSUME NEW C, NEW line \in Seq(C), NEW str \in Seq(C), NEW i \in Nat \ {0},
         StrAt(line, i, <<CR, LF>> \o str \o <<CR, LF>>)
  PROVE  i + 2 \in i..Len(line) /\ StrAt(line, i + 2, str \o <<CR, LF>>)
<1> DEFINE S     == C \cup {CR, LF}
           word  == str \o <<CR, LF>>
           whole == <<CR, LF>> \o str \o <<CR, LF>>
<1>1. Len(line) \in Nat /\ Len(str) \in Nat /\ line \in Seq(S)
  BY LenProperties, SeqMonotonic, C \subseteq S
<1>2. /\ word \in Seq(S) /\ whole \in Seq(S) /\ whole = <<CR, LF>> \o word
      /\ Len(word) = Len(str) + 2 /\ Len(whole) = Len(str) + 4
  BY LineEndsLength
<1>3. <<CR, LF>> \in Seq(S) /\ Len(<<CR, LF>>) = 2
  OBVIOUS
<1> HIDE DEF S, word
<1>4. \A k \in 1..Len(word) : whole[k + 2] = word[k]
  <2>1. \A k \in 1..(2 + Len(word)) : k > 2 => (<<CR, LF>> \o word)[k] = word[k - 2]
    BY <1>2, <1>3, ConcatProperties
  <2> HIDE DEF whole
  <2> QED
    BY <1>1, <1>2, <2>1
<1> HIDE DEF whole
<1>5. i + Len(whole) - 1 <= Len(line) /\ \A k \in 1..Len(whole) : line[i + k - 1] = whole[k]
  <2>1. StrAt(line, i, whole)
    BY DEF whole
  <2>2. whole \in Seq(S) /\ line \in Seq(S)
    BY <1>1, <1>2
  <2> QED
    BY <2>1, <2>2, StrAtComparesCharacters
<1>6. ASSUME NEW k \in 1..Len(word) PROVE line[(i + 2) + k - 1] = word[k]
  <2>1. k + 2 \in 1..Len(whole) /\ i + (k + 2) - 1 = (i + 2) + k - 1
    BY <1>1, <1>2
  <2> QED
    BY <2>1, <1>4, <1>5
<1>7. (i + 2) + Len(word) - 1 <= Len(line) /\ i + 2 \in i..Len(line) /\ i + 2 \in Nat \ {0}
  BY <1>1, <1>2, <1>5
<1>8. StrAt(line, i + 2, word)
  BY <1>1, <1>2, <1>6, <1>7, StrAtComparesCharacters
<1> QED
  BY <1>7, <1>8 DEF word

(* What Ql_RIL_FindLine returns is the place of one of the four forms of a *)
(* line; and if it is 0, none of the three shorter ones is anywhere.       *)
LEMMA LineIsFoundFirst ==
  ASSUME NEW C, NEW line \in Seq(C), NEW str \in Seq(C)
  PROVE  LET lineAt == Ql_RIL_FindLine(line, str)
             ends == {<<CR>> \o str \o <<CR>>, <<LF>> \o str \o <<LF>>, str \o <<CR, LF>>}
             whole == <<CR, LF>> \o str \o <<CR, LF>>
         IN \/ lineAt = 0 /\ \A i \in Nat \ {0}, e \in ends : ~StrAt(line, i, e)
            \/ lineAt \in Nat \ {0} /\ \E e \in ends \cup {whole} : StrAt(line, lineAt, e)
<1> DEFINE n      == Len(line) - (Len(str) + 2) + 1
           ends   == {<<CR>> \o str \o <<CR>>, <<LF>> \o str \o <<LF>>, str \o <<CR, LF>>}
           whole  == <<CR, LF>> \o str \o <<CR, LF>>
           passes == {i \in 1..n : \E e \in ends : StrAt(line, i, e)}
           S      == C \cup {CR, LF}
<1>1. n \in Int /\ Len(str) \in Nat /\ Len(line) \in Nat
  BY LenProperties
<1>2. line \in Seq(S) /\ whole \in Seq(S)
  BY LineEndsLength, SeqMonotonic, C \subseteq S
<1>3. \A e \in ends : Len(e) = Len(str) + 2
  BY LineEndsLength
<1> HIDE DEF S
<1>4. LET at == Ql_RIL_FindString(line, whole)
      IN at # 0 => at \in Nat \ {0} /\ StrAt(line, at, whole)
  BY <1>2, StringIsFoundFirst
<1> HIDE DEF ends, whole
<1>5. ASSUME NEW i \in Nat \ {0}, NEW e \in ends, StrAt(line, i, e) PROVE i \in passes
  <2>1. i + (Len(str) + 2) - 1 <= Len(line)
    BY <1>3, <1>5 DEF StrAt
  <2> QED
    BY <2>1, <1>1, <1>5
<1>6. IsFirst(FirstOf(passes, n), passes, n)
  BY <1>1, FirstOfIsFirst
<1>7. Ql_RIL_FindLine(line, str) =
        IF Ql_RIL_FindString(line, whole) # 0 THEN Ql_RIL_FindString(line, whole) ELSE FirstOf(passes, n)
  BY DEF Ql_RIL_FindLine, FoundUpTo, ends, whole
<1>8. \/ Ql_RIL_FindLine(line, str) = 0 /\ \A i \in Nat \ {0}, e \in ends : ~StrAt(line, i, e)
      \/ /\ Ql_RIL_FindLine(line, str) \in Nat \ {0}
         /\ \E e \in ends \cup {whole} : StrAt(line, Ql_RIL_FindLine(line, str), e)
  <2>1. CASE Ql_RIL_FindString(line, whole) # 0
    BY <2>1, <1>4, <1>7
  <2>2. CASE Ql_RIL_FindString(line, whole) = 0
    <3>1. CASE FirstOf(passes, n) = 0
      <4>1. passes = {}
        BY <3>1, <1>6, <1>1 DEF IsFirst
      <4> HIDE DEF passes
      <4> QED
        BY <4>1, <3>1, <2>2, <1>5, <1>7
    <3>2. CASE FirstOf(passes, n) # 0
      <4>1. FirstOf(passes, n) \in passes
        BY <3>2, <1>6 DEF IsFirst
      <4>2. FirstOf(passes, n) \in Nat \ {0} /\ \E e \in ends : StrAt(line, FirstOf(passes, n), e)
        BY <4>1, <1>1
      <4> HIDE DEF passes
      <4> QED
        BY <4>2, <3>2, <2>2, <1>7
    <3> QED
      BY <3>1, <3>2
  <2> QED
    BY <2>1, <2>2
<1> QED
  BY <1>8 DEF ends, whole

(* Ql_RIL_FindLine, Ql_RIL_FindString and Ql_StrPrefixMatch find what they *)
(* should in every text, whatever its characters and its length, and for   *)
(* every word but the empty one.                                           *)
THEOREM LinesAreAlwaysFound ==
  ASSUME NEW C
  PROVE  LinesAreFound(Seq(C), Seq(C) \ {<<>>})
<1> SUFFICES ASSUME NEW line \in Seq(C), NEW str \in Seq(C), str # <<>>
             PROVE  IsFoundRight(line, str, Ql_RIL_FindLine(line, str), Ql_RIL_FindString(line, str))
  BY DEF LinesAreFound
<1> DEFINE at     == Ql_RIL_FindString(line, str)
           lineAt == Ql_RIL_FindLine(line, str)
           whole  == <<CR, LF>> \o str \o <<CR, LF>>
<1>1. Len(line) \in Nat /\ Len(str) \in Nat
  BY LenProperties
<1>2. ASSUME IsWholeLine(line, str) PROVE lineAt # 0
  <2>1. \E i \in Nat \ {0} :
          \/ StrAt(line, i, <<CR>> \o str \o <<CR>>) \/ StrAt(line, i, <<LF>> \o str \o <<LF>>)
          \/ StrAt(line, i, str \o <<CR, LF>>)
    BY <1>1, <1>2 DEF IsWholeLine
  <2> QED
    BY <2>1, LineIsFoundFirst
<1>3. ASSUME lineAt # 0
      PROVE  IsWholeLine(line, str) \/ \E i \in lineAt..Len(line) : StrAt(line, i, str \o <<CR, LF>>)
  <2>1. lineAt \in Nat \ {0}
    BY <1>3, LineIsFoundFirst
  <2>2. CASE StrAt(line, lineAt, whole)
    BY <2>1, <2>2, WordOfWholeLine
  <2>3. ASSUME NEW e \in {<<CR>> \o str \o <<CR>>, <<LF>> \o str \o <<LF>>, str \o <<CR, LF>>},
               StrAt(line, lineAt, e)
        PROVE  lineAt \in 1..Len(line) /\ lineAt \in lineAt..Len(line)
    <3>1. Len(e) = Len(str) + 2
      BY <2>3, LineEndsLength
    <3>2. lineAt + Len(e) - 1 <= Len(line)
      BY <2>3 DEF StrAt
    <3> QED
      BY <2>1, <3>1, <3>2, <1>1
  <2> QED
    <3> DEFINE ends == {<<CR>> \o str \o <<CR>>, <<LF>> \o str \o <<LF>>, str \o <<CR, LF>>}
    <3>1. PICK e \in ends \cup {whole} : StrAt(line, lineAt, e)
      BY <1>3, LineIsFoundFirst
    <3>2. CASE e = whole
      <4>1. StrAt(line, lineAt, whole)
        BY <3>1, <3>2
      <4> QED
        BY <4>1, <2>2
    <3>3. CASE e \in ends
      <4>1. lineAt \in 1..Len(line) /\ lineAt \in lineAt..Len(line)
        BY <2>3, <3>1, <3>3
      <4>2. CASE e = str \o <<CR, LF>>
        <5>1. StrAt(line, lineAt, str \o <<CR, LF>>)
          BY <3>1, <4>2
        <5> QED
          BY <5>1, <4>1
      <4>3. CASE e = <<CR>> \o str \o <<CR>>
        <5>1. StrAt(line, lineAt, <<CR>> \o str \o <<CR>>)
          BY <3>1, <4>3
        <5> QED
          BY <5>1, <4>1 DEF IsWholeLine
      <4>4. CASE e = <<LF>> \o str \o <<LF>>
        <5>1. StrAt(line, lineAt, <<LF>> \o str \o <<LF>>)
          BY <3>1, <4>4
        <5> QED
          BY <5>1, <4>1 DEF IsWholeLine
      <4> QED
        BY <3>3, <4>2, <4>3, <4>4
    <3> QED
      BY <3>1, <3>2, <3>3
<1>4. at = 0 <=> \A i, j \in 1..Len(line) : SubSeq(line, i, j) # str
  BY StringIsFoundIfThere
<1>5. \A i \in 1..(at - 1) : ~StrAt(line, i, str)
  BY StringIsFoundFirst
<1>6. Ql_StrPrefixMatch(line, str) <=> at = 1
  BY PrefixIsFoundAtTheBeginning
<1>7. IsFoundRight(line, str, lineAt, at)
  <2> HIDE DEF at, lineAt
  <2> QED
    BY <1>2, <1>3, <1>4, <1>5, <1>6, Zenon DEF IsFoundRight
<1> QED
  BY <1>7

-----------------------------------------------------------------------------
(* Functions can be defined by recursion: for steps of any kind on a set A *)
(* there is a function that starts with a and takes one step after another.*)
(* Stated as an operator, so that the set can be Nat.                      *)
HasRecursions(A) ==
  \A a \in A, n \in Nat : \A step \in [1..n -> [A -> A]] :
    \E g \in [0..n -> A] : g[0] = a /\ \A k \in 1..n : g[k] = step[k][g[k - 1]]

LEMMA RecursionIsDefined ==
  ASSUME NEW A PROVE HasRecursions(A)
<1> SUFFICES ASSUME NEW a \in A, NEW n \in Nat, NEW step \in [1..n -> [A -> A]]
             PROVE  \E g \in [0..n -> A] : g[0] = a /\ \A k \in 1..n : g[k] = step[k][g[k - 1]]
  BY DEF HasRecursions
<1> DEFINE Steps(g, m) == g[0] = a /\ \A k \in 1..m : g[k] = step[k][g[k - 1]]
           S == {m \in Nat : m <= n => \E g \in [0..m -> A] : Steps(g, m)}
<1>1. 0 \in S
  <2> DEFINE g == [k \in 0..0 |-> a]
  <2>1. g \in [0..0 -> A] /\ Steps(g, 0)
    OBVIOUS
  <2> QED
    BY <2>1
<1>2. ASSUME NEW m \in Nat, m \in S PROVE m + 1 \in S
  <2> SUFFICES ASSUME m + 1 <= n PROVE \E h \in [0..(m + 1) -> A] : Steps(h, m + 1)
    OBVIOUS
  <2>1. PICK g \in [0..m -> A] : Steps(g, m)
    BY <1>2
  <2> DEFINE h == [k \in 0..(m + 1) |-> IF k = m + 1 THEN step[m + 1][g[m]] ELSE g[k]]
  <2>2. step[m + 1][g[m]] \in A
    <3>1. m + 1 \in 1..n /\ g[m] \in A
      OBVIOUS
    <3>2. step[m + 1] \in [A -> A]
      BY <3>1
    <3> QED
      BY <3>1, <3>2
  <2>3. h \in [0..(m + 1) -> A]
    BY <2>2
  <2>4. h[0] = a
    BY <2>1
  <2>5. ASSUME NEW k \in 1..(m + 1) PROVE h[k] = step[k][h[k - 1]]
    <3>1. CASE k = m + 1
      <4>1. h[k] = step[m + 1][g[m]] /\ h[k - 1] = g[m]
        BY <3>1
      <4> QED
        BY <4>1, <3>1
    <3>2. CASE k <= m
      <4>1. h[k] = g[k] /\ h[k - 1] = g[k - 1] /\ k \in 1..m
        BY <3>2
      <4> QED
        BY <4>1, <2>1
    <3> QED
      BY <3>1, <3>2
  <2> QED
    BY <2>3, <2>4, <2>5
<1>3. n \in S
  BY <1>1, <1>2, Induction
<1>4. PICK g \in [0..n -> A] : Steps(g, n)
  BY <1>3
<1> QED
  BY <1>4

LEMMA NatRecursionIsDefined ==
  ASSUME NEW a \in Nat, NEW n \in Nat, NEW step \in [1..n -> [Nat -> Nat]]
  PROVE  \E g \in [0..n -> Nat] : g[0] = a /\ \A k \in 1..n : g[k] = step[k][g[k - 1]]
<1>1. HasRecursions(Nat)
  BY RecursionIsDefined
<1> QED
  BY <1>1, ZenonT(30) DEF HasRecursions

-----------------------------------------------------------------------------
(* The powers of sixteen.                                                  *)
IsPower(power, n) == power = [k \in 0..n |-> IF k = 0 THEN 1 ELSE 16 * power[k - 1]]

LEMMA PowerIsDefined ==
  ASSUME NEW n \in Nat
  PROVE  \E power : IsPower(power, n) /\ power[n] = SixteenTo(n)
<1> DEFINE step  == [k \in 1..n |-> [v \in Nat |-> 16 * v]]
           power == CHOOSE p : p = [k \in 0..n |-> IF k = 0 THEN 1 ELSE 16 * p[k - 1]]
<1>1. step \in [1..n -> [Nat -> Nat]]
  OBVIOUS
<1>2. \E p : IsPower(p, n)
  <2> HIDE DEF step
  <2>1. PICK p \in [0..n -> Nat] : p[0] = 1 /\ \A k \in 1..n : p[k] = step[k][p[k - 1]]
    BY <1>1, NatRecursionIsDefined, 1 \in Nat
  <2>2. \A k \in 1..n : p[k - 1] \in Nat
    BY <2>1
  <2>3. \A k \in 1..n : step[k][p[k - 1]] = 16 * p[k - 1]
    BY <2>2 DEF step
  <2>4. p = [k \in 0..n |-> IF k = 0 THEN 1 ELSE 16 * p[k - 1]]
    BY <2>1, <2>3
  <2> QED
    BY <2>4 DEF IsPower
<1>3. power = CHOOSE p : IsPower(p, n)
  BY DEF IsPower
<1>4. SixteenTo(n) = power[n]
  BY DEF SixteenTo
<1> HIDE DEF power
<1> QED
  BY <1>2, <1>3, <1>4

(* Two tables of powers agree as far as both go.                           *)
LEMMA PowersAgree ==
  ASSUME NEW m \in Nat, NEW n \in Nat, m <= n, NEW p, NEW q, IsPower(p, m), IsPower(q, n)
  PROVE  \A k \in 0..m : p[k] = q[k] /\ p[k] \in Nat \ {0}
<1> DEFINE S == {k \in Nat : k <= m => p[k] = q[k] /\ p[k] \in Nat \ {0}}
<1>1. p[0] = 1 /\ q[0] = 1
  BY DEF IsPower
<1>2. \A k \in 1..m : p[k] = 16 * p[k - 1] /\ q[k] = 16 * q[k - 1]
  BY DEF IsPower
<1>3. 0 \in S
  BY <1>1
<1>4. ASSUME NEW k \in Nat, k \in S PROVE k + 1 \in S
  BY <1>2, <1>4
<1>5. Nat \subseteq S
  BY <1>3, <1>4, Induction
<1> QED
  BY <1>5

LEMMA SixteenToFacts ==
  /\ SixteenTo(0) = 1
  /\ \A n \in Nat : SixteenTo(n) \in Nat \ {0} /\ SixteenTo(n + 1) = 16 * SixteenTo(n)
<1>1. SixteenTo(0) = 1
  <2>1. PICK p : IsPower(p, 0) /\ p[0] = SixteenTo(0)
    BY PowerIsDefined
  <2> QED
    BY <2>1 DEF IsPower
<1>2. ASSUME NEW n \in Nat PROVE SixteenTo(n) \in Nat \ {0} /\ SixteenTo(n + 1) = 16 * SixteenTo(n)
  <2>1. PICK p : IsPower(p, n) /\ p[n] = SixteenTo(n)
    BY PowerIsDefined
  <2>2. PICK q : IsPower(q, n + 1) /\ q[n + 1] = SixteenTo(n + 1)
    BY PowerIsDefined, n + 1 \in Nat
  <2>3. p[n] = q[n] /\ p[n] \in Nat \ {0}
    BY <2>1, <2>2, PowersAgree, n \in 0..n, n <= n + 1, n + 1 \in Nat
  <2>4. q[n + 1] = 16 * q[n]
    BY <2>2 DEF IsPower
  <2> QED
    BY <2>1, <2>2, <2>3, <2>4
<1> QED
  BY <1>1, <1>2

LEMMA PowersGrow ==
  ASSUME NEW k \in Nat, NEW n \in Nat, k <= n
  PROVE  SixteenTo(k) <= SixteenTo(n)
<1> DEFINE S == {d \in Nat : SixteenTo(k) <= SixteenTo(k + d)}
<1>1. 0 \in S
  BY SixteenToFacts
<1>2. ASSUME NEW d \in Nat, d \in S PROVE d + 1 \in S
  <2>1. SixteenTo((k + d) + 1) = 16 * SixteenTo(k + d) /\ SixteenTo(k + d) \in Nat /\ SixteenTo(k) \in Nat
    BY SixteenToFacts, k + d \in Nat
  <2>2. SixteenTo(k + (d + 1)) = SixteenTo((k + d) + 1)
    BY k + (d + 1) = (k + d) + 1
  <2> QED
    BY <2>1, <2>2, <1>2
<1>3. n - k \in S
  BY <1>1, <1>2, Induction, n - k \in Nat
<1>4. k + (n - k) = n
  OBVIOUS
<1> QED
  BY <1>3, <1>4

-----------------------------------------------------------------------------
(* The letters of hexadecimal numbers, before and after Ql_StrToUpper.     *)
HexLetters == {Digits[k] : k \in DOMAIN Digits} \cup {Lower[k] : k \in DOMAIN Lower}
UpperLetters == {Digits[k] : k \in DOMAIN Digits}

LEMMA LowerIsNoDigit ==
  ASSUME NEW k \in DOMAIN Lower, NEW j \in DOMAIN Digits
  PROVE  Lower[k] # Digits[j]
<1>1. k = 1 \/ k = 2 \/ k = 3 \/ k = 4 \/ k = 5 \/ k = 6
  BY DEF Lower
<1>2. \/ j = 1 \/ j = 2 \/ j = 3 \/ j = 4 \/ j = 5 \/ j = 6 \/ j = 7 \/ j = 8
      \/ j = 9 \/ j = 10 \/ j = 11 \/ j = 12 \/ j = 13 \/ j = 14 \/ j = 15 \/ j = 16
  BY DEF Digits
<1>3. Lower[k] \in {"a", "b", "c", "d", "e", "f"}
  BY <1>1 DEF Lower
<1>4. Digits[j] \in {"0", "1", "2", "3", "4", "5", "6", "7", "8", "9", "A", "B", "C", "D", "E", "F"}
  BY <1>2 DEF Digits
<1> QED
  BY <1>3, <1>4

LEMMA UpperCaseFacts ==
  /\ \A c \in UpperLetters : UpperCase(c) = c /\ IsDigit(c) /\ Value(c) \in 0..15
  /\ \A c \in HexLetters : UpperCase(c) \in UpperLetters
<1>1. ASSUME NEW c \in UpperLetters PROVE UpperCase(c) = c /\ IsDigit(c) /\ Value(c) \in 0..15
  <2>1. PICK j \in DOMAIN Digits : c = Digits[j]
    BY DEF UpperLetters
  <2>2. UpperCase(c) = c
    BY <2>1, LowerIsNoDigit DEF UpperCase
  <2>3. (CHOOSE k \in DOMAIN Digits : Digits[k] = c) \in DOMAIN Digits
    BY <2>1
  <2>4. DOMAIN Digits = 1..16
    BY DEF Digits
  <2> QED
    BY <2>1, <2>2, <2>3, <2>4 DEF IsDigit, Value
<1>2. ASSUME NEW c \in HexLetters PROVE UpperCase(c) \in UpperLetters
  <2>1. CASE c \in UpperLetters
    BY <2>1, <1>1
  <2>2. CASE \E k \in DOMAIN Lower : c = Lower[k]
    <3> DEFINE k == CHOOSE k \in DOMAIN Lower : Lower[k] = c
    <3>1. k \in DOMAIN Lower
      BY <2>2
    <3>2. UpperCase(c) = Upper[k]
      BY <2>2 DEF UpperCase
    <3> HIDE DEF k
    <3>3. k = 1 \/ k = 2 \/ k = 3 \/ k = 4 \/ k = 5 \/ k = 6
      BY <3>1 DEF Lower
    <3>4. k + 10 \in DOMAIN Digits /\ Upper[k] = Digits[k + 10]
      BY <3>3 DEF Upper, Digits
    <3> QED
      BY <3>2, <3>4 DEF UpperLetters
  <2> QED
    BY <2>1, <2>2 DEF HexLetters, UpperLetters
<1> QED
  BY <1>1, <1>2, SMTT(60)

(* Sequences with the same positions are of the same length.               *)
LEMMA SameInterval ==
  ASSUME NEW a \in Nat, NEW b \in Nat, 1..a = 1..b
  PROVE  a = b
<1>1. a >= 1 => a \in 1..b
  OBVIOUS
<1>2. b >= 1 => b \in 1..a
  OBVIOUS
<1> QED
  BY <1>1, <1>2, SMTT(60)

(* Ql_StrToUpper, character by character.                                  *)
LEMMA ToUpperFacts ==
  ASSUME NEW s \in Seq(HexLetters)
  PROVE  /\ Ql_StrToUpper(s) \in Seq(UpperLetters) /\ Len(Ql_StrToUpper(s)) = Len(s)
         /\ \A i \in 1..Len(s) : Ql_StrToUpper(s)[i] = UpperCase(s[i]) /\ s[i] \in HexLetters
         /\ \A i \in 1..Len(s) : Ql_StrToUpper(s)[i] \in UpperLetters
<1>1. Len(s) \in Nat /\ DOMAIN s = 1..Len(s) /\ \A i \in 1..Len(s) : s[i] \in HexLetters
  BY LenProperties, ElementOfSeq
<1>2. \A i \in 1..Len(s) : UpperCase(s[i]) \in UpperLetters
  BY <1>1, UpperCaseFacts
<1>3. Ql_StrToUpper(s) \in [1..Len(s) -> UpperLetters]
  BY <1>1, <1>2 DEF Ql_StrToUpper
<1>4. Ql_StrToUpper(s) \in Seq(UpperLetters)
  BY <1>1, <1>3, SeqDef
<1>5. DOMAIN Ql_StrToUpper(s) = 1..Len(s)
  <2>1. DOMAIN Ql_StrToUpper(s) = DOMAIN s
    BY ZenonT(60) DEF Ql_StrToUpper
  <2> QED
    BY <1>1, <2>1
<1>6. Len(Ql_StrToUpper(s)) = Len(s)
  <2>1. DOMAIN Ql_StrToUpper(s) = 1..Len(Ql_StrToUpper(s)) /\ Len(Ql_StrToUpper(s)) \in Nat
    BY <1>4, LenProperties
  <2> QED
    BY <2>1, <1>1, <1>5, SameInterval
<1> QED
  BY <1>1, <1>2, <1>4, <1>6 DEF Ql_StrToUpper

LEMMA UpperStaysUpper ==
  ASSUME NEW s \in Seq(UpperLetters)
  PROVE  Ql_StrToUpper(s) = s /\ s \in Seq(HexLetters)
<1>1. s \in Seq(HexLetters)
  BY SeqMonotonic, UpperLetters \subseteq HexLetters DEF UpperLetters, HexLetters
<1>2. \A i \in 1..Len(s) : Ql_StrToUpper(s)[i] = s[i]
  BY <1>1, ToUpperFacts, ElementOfSeq, UpperCaseFacts
<1> QED
  BY <1>1, <1>2, ToUpperFacts, SeqEqual

-----------------------------------------------------------------------------
(* The loop of Ql_HexStrToInt: what the integer holds after each digit.    *)
IsShifted(temp, up, u32) ==
  temp = [i \in 0..Len(up) |-> IF i = 0 THEN 0 ELSE (temp[i - 1] * 16 + Value(up[i])) % u32]

LEMMA ModType ==
  ASSUME NEW m \in Nat \ {0}, NEW x \in Nat
  PROVE  x % m \in 0..(m - 1)
  OBVIOUS

(* The number read is the content after the last digit.                    *)
LEMMA NumberIsShifted ==
  ASSUME NEW s \in Seq(HexLetters), NEW w \in Nat
  PROVE  \E temp : /\ IsShifted(temp, Ql_StrToUpper(s), SixteenTo(w))
                   /\ Ql_HexStrToInt(s, w) = temp[Len(s)]
<1> DEFINE up   == Ql_StrToUpper(s)
           u32  == SixteenTo(w)
           step == [i \in 1..Len(up) |-> [v \in Nat |-> (v * 16 + Value(up[i])) % u32]]
           temp == CHOOSE t : t = [i \in 0..Len(up) |-> IF i = 0 THEN 0 ELSE (t[i - 1] * 16 + Value(up[i])) % u32]
<1>1. Len(up) = Len(s) /\ Len(s) \in Nat /\ DOMAIN up = 1..Len(up) /\ \A i \in 1..Len(up) : up[i] \in UpperLetters
  BY ToUpperFacts, LenProperties
<1>2. u32 \in Nat \ {0}
  BY SixteenToFacts
<1>3. \A i \in DOMAIN up : IsDigit(up[i])
  BY <1>1, UpperCaseFacts
<1>4. Ql_HexStrToInt(s, w) = temp[Len(s)]
  <2>1. Ql_HexStrToInt(s, w) = temp[Len(up)]
    BY <1>3 DEF Ql_HexStrToInt
  <2> QED
    BY <2>1, <1>1
<1>5. temp = CHOOSE t : IsShifted(t, up, u32)
  BY DEF IsShifted
<1> HIDE DEF temp, up, u32
<1>6. step \in [1..Len(up) -> [Nat -> Nat]]
  <2>1. ASSUME NEW i \in 1..Len(up), NEW v \in Nat PROVE (v * 16 + Value(up[i])) % u32 \in Nat
    <3>1. v * 16 + Value(up[i]) \in Nat
      BY <1>1, UpperCaseFacts
    <3>2. \A x \in Nat : x % u32 \in Nat
      BY <1>2, ModType
    <3> QED
      BY <3>1, <3>2
  <2> QED
    BY <2>1
<1>7. \E t : IsShifted(t, up, u32)
  <2> HIDE DEF step
  <2>1. PICK t \in [0..Len(up) -> Nat] : t[0] = 0 /\ \A i \in 1..Len(up) : t[i] = step[i][t[i - 1]]
    <3>1. Len(up) \in Nat /\ 0 \in Nat
      BY <1>1
    <3> QED
      BY <3>1, <1>6, NatRecursionIsDefined
  <2>2. \A i \in 1..Len(up) : t[i - 1] \in Nat
    BY <2>1, <1>1, SMTT(60)
  <2>3. \A i \in 1..Len(up) : step[i][t[i - 1]] = (t[i - 1] * 16 + Value(up[i])) % u32
    BY <2>2 DEF step
  <2>4. t = [i \in 0..Len(up) |-> IF i = 0 THEN 0 ELSE (t[i - 1] * 16 + Value(up[i])) % u32]
    BY <2>1, <2>3
  <2> QED
    BY <2>4 DEF IsShifted
<1>8. IsShifted(temp, up, u32)
  BY <1>5, <1>7
<1> QED
  BY <1>4, <1>8 DEF up, u32

(* Division: quotient and remainder exist and are unique, and a remainder  *)
(* can be taken of a summand first.                                        *)
LEMMA Remainder ==
  ASSUME NEW m \in Nat \ {0}, NEW x \in Nat
  PROVE  \E q \in Nat : x = q * m + (x % m) /\ x % m \in 0..(m - 1)
<1>1. x = (x \div m) * m + (x % m) /\ x \div m \in Nat
  OBVIOUS
<1> QED
  BY <1>1, ModType

LEMMA RemainderIsUnique ==
  ASSUME NEW m \in Nat \ {0}, NEW q \in Nat, NEW r \in 0..(m - 1)
  PROVE  (q * m + r) % m = r
<1> DEFINE x == q * m + r
<1>1. x \in Nat
  OBVIOUS
<1>2. PICK p \in Nat : x = p * m + (x % m) /\ x % m \in 0..(m - 1)
  BY <1>1, Remainder
<1>3. PICK t \in 0..(m - 1) : t = x % m
  BY <1>2
<1>4. q * m + r = p * m + t
  BY <1>2, <1>3
<1>5. ~(p < q)
  <2> SUFFICES ASSUME p + 1 <= q PROVE FALSE
    OBVIOUS
  <2>1. (p + 1) * m <= q * m
    OBVIOUS
  <2>2. (p + 1) * m = p * m + m
    OBVIOUS
  <2> QED
    BY <2>1, <2>2, <1>4
<1>6. ~(q < p)
  <2> SUFFICES ASSUME q + 1 <= p PROVE FALSE
    OBVIOUS
  <2>1. (q + 1) * m <= p * m
    OBVIOUS
  <2>2. (q + 1) * m = q * m + m
    OBVIOUS
  <2> QED
    BY <2>1, <2>2, <1>4
<1> QED
  BY <1>3, <1>4, <1>5, <1>6

LEMMA RemainderOfShift ==
  ASSUME NEW m \in Nat \ {0}, NEW x \in Nat, NEW v \in Nat
  PROVE  ((x % m) * 16 + v) % m = (x * 16 + v) % m
<1>1. PICK q \in Nat, r \in 0..(m - 1) : x = q * m + r /\ x % m = r
  BY Remainder
<1>2. PICK p \in Nat, t \in 0..(m - 1) : r * 16 + v = p * m + t /\ (r * 16 + v) % m = t
  BY Remainder, r * 16 + v \in Nat
<1>3. x * 16 + v = (q * 16 + p) * m + t
  <2>1. x * 16 = (q * 16) * m + r * 16
    BY <1>1
  <2>2. (q * 16 + p) * m = (q * 16) * m + p * m
    OBVIOUS
  <2> QED
    BY <2>1, <2>2, <1>2
<1>4. (x * 16 + v) % m = t
  <2>1. PICK z \in Nat : z = q * 16 + p
    OBVIOUS
  <2>2. (z * m + t) % m = t
    BY RemainderIsUnique
  <2> QED
    BY <1>3, <2>1, <2>2
<1> QED
  BY <1>1, <1>2, <1>4

LEMMA RemainderOfSum ==
  ASSUME NEW m \in Nat \ {0}, NEW x \in Nat, NEW y \in Nat
  PROVE  (x + (y % m)) % m = (x + y) % m
<1>1. PICK q \in Nat, r \in 0..(m - 1) : y = q * m + r /\ y % m = r
  BY Remainder
<1>2. PICK p \in Nat, t \in 0..(m - 1) : x + r = p * m + t /\ (x + r) % m = t
  BY Remainder, x + r \in Nat
<1>3. x + y = (q + p) * m + t
  <2>1. (q + p) * m = q * m + p * m
    OBVIOUS
  <2> QED
    BY <2>1, <1>1, <1>2
<1>4. (x + y) % m = t
  BY <1>3, RemainderIsUnique, q + p \in Nat
<1> QED
  BY <1>1, <1>2, <1>4

(* The content is always one of the integer's values.                      *)
LEMMA ShiftedType ==
  ASSUME NEW up \in Seq(UpperLetters), NEW m \in Nat \ {0}, NEW temp, IsShifted(temp, up, m)
  PROVE  /\ temp[0] = 0
         /\ \A i \in 0..Len(up) : temp[i] \in 0..(m - 1)
         /\ \A i \in 1..Len(up) : Value(up[i]) \in 0..15 /\ temp[i] = (temp[i - 1] * 16 + Value(up[i])) % m
<1>1. Len(up) \in Nat /\ \A i \in 1..Len(up) : Value(up[i]) \in 0..15
  BY LenProperties, ElementOfSeq, UpperCaseFacts
<1>2. temp[0] = 0 /\ \A i \in 1..Len(up) : temp[i] = (temp[i - 1] * 16 + Value(up[i])) % m
  BY <1>1 DEF IsShifted
<1> DEFINE S == {i \in Nat : i <= Len(up) => temp[i] \in 0..(m - 1)}
<1>3. 0 \in S
  BY <1>2
<1>4. ASSUME NEW i \in Nat, i \in S PROVE i + 1 \in S
  <2> SUFFICES ASSUME i + 1 <= Len(up) PROVE temp[i + 1] \in 0..(m - 1)
    OBVIOUS
  <2>1. i + 1 \in 1..Len(up) /\ temp[i] \in Nat
    BY <1>1, <1>4
  <2>2. temp[i + 1] = (temp[i] * 16 + Value(up[i + 1])) % m
    BY <2>1, <1>2
  <2>3. temp[i] * 16 + Value(up[i + 1]) \in Nat
    <3>1. temp[i] \in Nat /\ Value(up[i + 1]) \in Nat
      BY <2>1, <1>1, SMTT(60)
    <3> QED
      BY <3>1
  <2> QED
    BY <2>2, <2>3, ModType
<1>5. Nat \subseteq S
  BY <1>3, <1>4, Induction
<1> QED
  BY <1>1, <1>2, <1>5

(* The digits that two texts begin with are shifted in alike.              *)
LEMMA SameBeginning ==
  ASSUME NEW a \in Seq(UpperLetters), NEW b \in Seq(UpperLetters), NEW m \in Nat \ {0}, NEW t, NEW u,
         IsShifted(t, a, m), IsShifted(u, b, m),
         NEW n \in Nat, n <= Len(a), n <= Len(b), \A i \in 1..n : a[i] = b[i]
  PROVE  t[n] = u[n]
<1> DEFINE S == {i \in Nat : i <= n => t[i] = u[i]}
<1>1. Len(a) \in Nat /\ Len(b) \in Nat
  BY LenProperties
<1>2. 0 \in S
  BY ShiftedType
<1>3. \A i \in 1..Len(a) : t[i] = (t[i - 1] * 16 + Value(a[i])) % m
  BY ShiftedType
<1>4. \A i \in 1..Len(b) : u[i] = (u[i - 1] * 16 + Value(b[i])) % m
  BY ShiftedType
<1>5. ASSUME NEW i \in Nat, i \in S PROVE i + 1 \in S
  <2> SUFFICES ASSUME i + 1 <= n PROVE t[i + 1] = u[i + 1]
    OBVIOUS
  <2>1. t[i] = u[i] /\ a[i + 1] = b[i + 1] /\ i + 1 \in 1..Len(a) /\ i + 1 \in 1..Len(b) /\ (i + 1) - 1 = i
    BY <1>1, <1>5
  <2>2. t[i + 1] = (t[(i + 1) - 1] * 16 + Value(a[i + 1])) % m
    BY <1>3, <2>1
  <2>3. u[i + 1] = (u[(i + 1) - 1] * 16 + Value(b[i + 1])) % m
    BY <1>4, <2>1
  <2> QED
    BY <2>1, <2>2, <2>3
<1>6. Nat \subseteq S
  BY <1>2, <1>5, Induction
<1> QED
  BY <1>6

LEMMA OneDigitMore ==
  ASSUME NEW y \in Nat, NEW p \in Nat, NEW v \in 0..15, y + 1 <= p
  PROVE  y * 16 + v \in Nat /\ y * 16 + v < 16 * p
  OBVIOUS

(* Until the integer is full nothing is lost.                              *)
LEMMA NothingLost ==
  ASSUME NEW up \in Seq(UpperLetters), NEW w \in Nat, NEW temp, IsShifted(temp, up, SixteenTo(w))
  PROVE  \A i \in 1..Len(up) : i <= w => temp[i] = temp[i - 1] * 16 + Value(up[i])
<1> DEFINE m == SixteenTo(w)
           S == {i \in Nat : i <= Len(up) /\ i <= w => temp[i] < SixteenTo(i)}
<1>1. Len(up) \in Nat /\ m \in Nat \ {0}
  BY LenProperties, SixteenToFacts
<1> HIDE DEF m
<1>2. /\ temp[0] = 0
      /\ \A i \in 0..Len(up) : temp[i] \in 0..(m - 1)
      /\ \A i \in 1..Len(up) : Value(up[i]) \in 0..15 /\ temp[i] = (temp[i - 1] * 16 + Value(up[i])) % m
  BY <1>1, ShiftedType DEF m
<1>3. ASSUME NEW i \in Nat, i + 1 <= Len(up), i + 1 <= w, temp[i] < SixteenTo(i)
      PROVE  temp[i + 1] = temp[i] * 16 + Value(up[i + 1]) /\ temp[i + 1] < SixteenTo(i + 1)
  <2>1. SixteenTo(i + 1) <= m
    BY <1>3, PowersGrow, i + 1 \in Nat DEF m
  <2>2. SixteenTo(i + 1) = 16 * SixteenTo(i) /\ SixteenTo(i) \in Nat
    BY SixteenToFacts
  <2>3. i + 1 \in 1..Len(up) /\ i \in 0..Len(up) /\ (i + 1) - 1 = i
    BY <1>1, <1>3
  <2>4. Value(up[i + 1]) \in 0..15 /\ temp[i] \in Nat /\ temp[i + 1] = (temp[i] * 16 + Value(up[i + 1])) % m
    <3>1. temp[i + 1] = (temp[(i + 1) - 1] * 16 + Value(up[i + 1])) % m
      BY <1>2, <2>3
    <3> QED
      BY <1>1, <1>2, <2>3, <3>1
  <2>5. PICK x : x = temp[i] * 16 + Value(up[i + 1])
    OBVIOUS
  <2>6. x \in Nat /\ x < SixteenTo(i + 1) /\ x \in 0..(m - 1)
    <3>1. temp[i] + 1 <= SixteenTo(i) /\ temp[i] \in Nat /\ Value(up[i + 1]) \in 0..15
      BY <1>3, <2>2, <2>4
    <3>2. x \in Nat /\ x < SixteenTo(i + 1)
      BY <3>1, <2>2, <2>5, OneDigitMore
    <3> QED
      BY <3>2, <2>1, <2>2, <1>1
  <2>7. x % m = x
    <3>1. (0 * m + x) % m = x
      BY <1>1, <2>6, RemainderIsUnique
    <3> QED
      BY <1>1, <2>6, <3>1
  <2> QED
    BY <2>4, <2>5, <2>6, <2>7
<1>4. 0 \in S
  <2>1. temp[0] = 0 /\ SixteenTo(0) = 1
    BY <1>2, SixteenToFacts
  <2> QED
    BY <2>1
<1>5. ASSUME NEW i \in Nat, i \in S PROVE i + 1 \in S
  BY <1>1, <1>3, <1>5
<1>6. Nat \subseteq S
  BY <1>4, <1>5, Induction
<1>7. ASSUME NEW i \in 1..Len(up), i <= w PROVE temp[i] = temp[i - 1] * 16 + Value(up[i])
  <2>1. i - 1 \in Nat /\ (i - 1) + 1 = i /\ (i - 1) + 1 <= Len(up) /\ (i - 1) + 1 <= w
    BY <1>1, <1>7
  <2>2. temp[i - 1] < SixteenTo(i - 1)
    BY <1>1, <1>6, <1>7, <2>1
  <2>3. temp[(i - 1) + 1] = temp[i - 1] * 16 + Value(up[(i - 1) + 1])
    BY <1>3, <2>1, <2>2
  <2> QED
    BY <2>1, <2>3
<1> QED
  BY <1>7

LEMMA ProductIsNat ==
  ASSUME NEW x \in Nat, NEW y \in Nat
  PROVE  x * y \in Nat
  OBVIOUS

(* The digits b are those of a from place p on.                            *)
EndsIn(a, p, b) == p \in Nat /\ p + Len(b) = Len(a) /\ \A i \in 1..Len(b) : a[p + i] = b[i]

(* A number that ends in another, from place p on, is what is before times *)
(* a power of sixteen, and the other.                                      *)
LEMMA DigitsFromThePlaceOn ==
  ASSUME NEW a \in Seq(UpperLetters), NEW b \in Seq(UpperLetters), NEW m \in Nat \ {0}, NEW t, NEW u,
         IsShifted(t, a, m), IsShifted(u, b, m), NEW p, EndsIn(a, p, b)
  PROVE  t[Len(a)] = (t[p] * SixteenTo(Len(b)) + u[Len(b)]) % m
<1>0. PICK n \in Nat : n = Len(b) /\ p + n = Len(a) /\ p \in Nat /\ \A i \in 1..n : a[p + i] = b[i]
  <2>1. Len(b) \in Nat
    BY LenProperties
  <2> QED
    BY <2>1 DEF EndsIn
<1> DEFINE S == {k \in Nat : k <= n => t[p + k] = (t[p] * SixteenTo(k) + u[k]) % m}
<1>1. PICK x \in 0..(m - 1) : x = t[p]
  <2>1. p \in 0..Len(a)
    BY <1>0
  <2> QED
    BY <2>1, ShiftedType
<1>2. 0 \in S
  <2>1. SixteenTo(0) = 1 /\ u[0] = 0 /\ x * 1 + 0 = x /\ p + 0 = p
    BY <1>0, SixteenToFacts, ShiftedType
  <2>2. (0 * m + x) % m = x /\ 0 * m + x = x
    BY RemainderIsUnique
  <2> QED
    BY <1>1, <2>1, <2>2
<1>3. ASSUME NEW k \in Nat, k \in S PROVE k + 1 \in S
  <2> SUFFICES ASSUME k + 1 <= n PROVE t[p + (k + 1)] = (t[p] * SixteenTo(k + 1) + u[k + 1]) % m
    OBVIOUS
  <2>1. /\ p + (k + 1) \in 1..Len(a) /\ (p + (k + 1)) - 1 = p + k
        /\ k + 1 \in 1..Len(b) /\ (k + 1) - 1 = k /\ k + 1 \in 1..n /\ k \in 0..Len(b)
    BY <1>0
  <2>2. PICK v \in 0..15 : v = Value(b[k + 1]) /\ v = Value(a[p + (k + 1)])
    BY <1>0, <2>1, ShiftedType
  <2>3. PICK y \in 0..(m - 1) : y = u[k]
    BY <2>1, ShiftedType
  <2>4. PICK s \in Nat : s = SixteenTo(k) /\ SixteenTo(k + 1) = 16 * s
    BY SixteenToFacts
  <2>5. t[p + (k + 1)] = (t[p + k] * 16 + v) % m
    <3>1. \A i \in 1..Len(a) : t[i] = (t[i - 1] * 16 + Value(a[i])) % m
      BY ShiftedType
    <3>2. t[p + (k + 1)] = (t[(p + (k + 1)) - 1] * 16 + Value(a[p + (k + 1)])) % m
      BY <2>1, <3>1
    <3> QED
      BY <2>1, <2>2, <3>2
  <2>6. u[k + 1] = (y * 16 + v) % m
    <3>1. \A i \in 1..Len(b) : u[i] = (u[i - 1] * 16 + Value(b[i])) % m
      BY ShiftedType
    <3>2. u[k + 1] = (u[(k + 1) - 1] * 16 + Value(b[k + 1])) % m
      BY <2>1, <3>1
    <3> QED
      BY <2>1, <2>2, <2>3, <3>2
  <2>7. PICK z \in Nat : z = x * s /\ x * (16 * s) = 16 * z
    <3>1. x * s \in Nat
      BY ProductIsNat, x \in Nat
    <3>2. x * (16 * s) = 16 * (x * s)
      OBVIOUS
    <3> QED
      BY <3>1, <3>2
  <2>8. PICK c \in Nat, d \in Nat : c = z + y /\ d = y * 16 + v
    OBVIOUS
  <2>9. t[p + k] = c % m
    BY <1>1, <1>3, <2>3, <2>4, <2>7, <2>8
  <2>10. t[p + (k + 1)] = (c * 16 + v) % m
    <3>1. ((c % m) * 16 + v) % m = (c * 16 + v) % m
      BY RemainderOfShift, v \in Nat
    <3> QED
      BY <2>5, <2>9, <3>1
  <2>11. (16 * z + u[k + 1]) % m = (16 * z + d) % m
    <3>1. (16 * z + (d % m)) % m = (16 * z + d) % m
      BY RemainderOfSum, 16 * z \in Nat
    <3> QED
      BY <2>6, <2>8, <3>1
  <2>12. c * 16 + v = 16 * z + d
    BY <2>8
  <2>13. t[p] * SixteenTo(k + 1) = 16 * z
    BY <1>1, <2>4, <2>7
  <2> QED
    BY <2>10, <2>11, <2>12, <2>13
<1>4. Nat \subseteq S
  BY <1>2, <1>3, Induction
<1>5. t[p + n] = (t[p] * SixteenTo(n) + u[n]) % m
  BY <1>0, <1>4
<1> QED
  BY <1>0, <1>5

(* A part of a text in upper case is that part of the text in upper case.  *)
LEMMA PartInUpperCase ==
  ASSUME NEW s \in Seq(HexLetters), NEW i \in Nat \ {0}, NEW j \in Nat, i <= j + 1, j <= Len(s)
  PROVE  LET part == SubSeq(s, i, j)
         IN /\ part \in Seq(HexLetters) /\ Len(part) = j - i + 1 /\ Len(part) \in Nat
            /\ \A k \in 1..Len(part) : Ql_StrToUpper(part)[k] = Ql_StrToUpper(s)[i + k - 1]
<1> DEFINE part == SubSeq(s, i, j)
<1>1. Len(s) \in Nat /\ \A k \in i..j : k \in 1..Len(s) /\ s[k] \in HexLetters
  BY LenProperties, ElementOfSeq
<1>2. /\ part \in Seq(HexLetters) /\ Len(part) = IF i <= j THEN j - i + 1 ELSE 0
      /\ \A k \in 1..(j - i + 1) : part[k] = s[i + k - 1]
  BY <1>1, SubSeqProperties
<1>3. Len(part) = j - i + 1 /\ j - i + 1 \in Nat
  BY <1>2
<1> HIDE DEF part
<1>4. ASSUME NEW k \in 1..Len(part) PROVE Ql_StrToUpper(part)[k] = Ql_StrToUpper(s)[i + k - 1]
  <2>1. part[k] = s[i + k - 1] /\ i + k - 1 \in 1..Len(s)
    BY <1>1, <1>2, <1>3
  <2> QED
    BY <2>1, <1>2, ToUpperFacts
<1> QED
  BY <1>2, <1>3, <1>4 DEF part

(* What IsReadRight says of a number, clause by clause.                    *)
LEMMA NumberIsItsDigits ==
  ASSUME NEW s \in Seq(HexLetters), NEW w \in Nat, Len(s) \in 1..w
  PROVE  Ql_HexStrToInt(s, w) =
           Ql_HexStrToInt(SubSeq(s, 1, Len(s) - 1), w) * 16 + Value(Ql_StrToUpper(s)[Len(s)])
<1> DEFINE front == SubSeq(s, 1, Len(s) - 1)
           up    == Ql_StrToUpper(s)
           m     == SixteenTo(w)
<1>1. Len(s) - 1 \in Nat /\ Len(s) \in Nat
  BY LenProperties
<1>2. /\ front \in Seq(HexLetters) /\ Len(front) = Len(s) - 1
      /\ \A k \in 1..Len(front) : Ql_StrToUpper(front)[k] = up[k]
  <2>1. 1 \in Nat \ {0} /\ 1 <= (Len(s) - 1) + 1 /\ Len(s) - 1 <= Len(s)
    BY <1>1
  <2>2. front \in Seq(HexLetters) /\ Len(front) = (Len(s) - 1) - 1 + 1
        /\ \A k \in 1..Len(front) : Ql_StrToUpper(front)[k] = up[1 + k - 1]
    BY <2>1, <1>1, PartInUpperCase
  <2>3. \A k \in 1..Len(front) : 1 + k - 1 = k
    BY <1>1, <2>2
  <2> HIDE DEF front, up
  <2> QED
    BY <1>1, <2>2, <2>3
<1> HIDE DEF front
<1>3. PICK t : IsShifted(t, up, m) /\ Ql_HexStrToInt(s, w) = t[Len(s)]
  BY NumberIsShifted
<1>4. PICK u : IsShifted(u, Ql_StrToUpper(front), m) /\ Ql_HexStrToInt(front, w) = u[Len(front)]
  BY <1>2, NumberIsShifted
<1>5. /\ up \in Seq(UpperLetters) /\ Len(up) = Len(s)
      /\ Ql_StrToUpper(front) \in Seq(UpperLetters) /\ Len(Ql_StrToUpper(front)) = Len(front)
  BY <1>2, ToUpperFacts
<1>6. m \in Nat \ {0}
  BY SixteenToFacts
<1> HIDE DEF up
<1>7. t[Len(s)] = t[Len(s) - 1] * 16 + Value(up[Len(s)])
  BY <1>1, <1>3, <1>5, NothingLost
<1> HIDE DEF m
<1>8. t[Len(front)] = u[Len(front)]
  <2>1. Len(front) \in Nat /\ Len(front) <= Len(up) /\ Len(front) <= Len(Ql_StrToUpper(front))
    BY <1>1, <1>2, <1>5
  <2>2. \A k \in 1..Len(front) : up[k] = Ql_StrToUpper(front)[k]
    BY <1>2
  <2> QED
    BY <2>1, <2>2, <1>3, <1>4, <1>5, <1>6, SameBeginning
<1> QED
  BY <1>2, <1>3, <1>4, <1>7, <1>8 DEF front, up

(* The part of the long number before its last w digits is shifted out.    *)
LEMMA LongNumberKeepsItsEnd ==
  ASSUME NEW s \in Seq(HexLetters), NEW w \in Nat, Len(s) > w
  PROVE  Ql_HexStrToInt(s, w) = Ql_HexStrToInt(SubSeq(s, Len(s) - w + 1, Len(s)), w)
<1> DEFINE end == SubSeq(s, Len(s) - w + 1, Len(s))
           up  == Ql_StrToUpper(s)
           p   == Len(s) - w
           m   == SixteenTo(w)
<1>1. Len(s) \in Nat /\ p \in Nat /\ p + w = Len(s)
  BY LenProperties
<1>2. /\ end \in Seq(HexLetters) /\ Len(end) = w
      /\ \A k \in 1..w : Ql_StrToUpper(end)[k] = up[p + k]
  <2>1. /\ Len(s) - w + 1 \in Nat \ {0} /\ Len(s) - w + 1 <= Len(s) + 1 /\ Len(s) <= Len(s)
        /\ Len(s) - (Len(s) - w + 1) + 1 = w
        /\ \A k \in 1..w : (Len(s) - w + 1) + k - 1 = p + k
    BY <1>1
  <2>2. /\ end \in Seq(HexLetters) /\ Len(end) = Len(s) - (Len(s) - w + 1) + 1
        /\ \A k \in 1..Len(end) : Ql_StrToUpper(end)[k] = up[(Len(s) - w + 1) + k - 1]
    BY <2>1, <1>1, PartInUpperCase
  <2> HIDE DEF end, up, p
  <2> QED
    BY <2>1, <2>2
<1> HIDE DEF end, p
<1>3. PICK t : IsShifted(t, up, m) /\ Ql_HexStrToInt(s, w) = t[Len(s)]
  BY NumberIsShifted
<1>4. PICK u : IsShifted(u, Ql_StrToUpper(end), m) /\ Ql_HexStrToInt(end, w) = u[Len(end)]
  BY <1>2, NumberIsShifted
<1>5. /\ up \in Seq(UpperLetters) /\ Len(up) = Len(s)
      /\ Ql_StrToUpper(end) \in Seq(UpperLetters) /\ Len(Ql_StrToUpper(end)) = w
  BY <1>2, ToUpperFacts
<1>6. m \in Nat \ {0}
  BY SixteenToFacts
<1> HIDE DEF up, m
<1>7. t[p + w] = (t[p] * SixteenTo(w) + u[w]) % m
  <2>1. PICK b : b = Ql_StrToUpper(end)
    OBVIOUS
  <2>2. b \in Seq(UpperLetters) /\ Len(b) = w /\ IsShifted(u, b, m)
    BY <2>1, <1>4, <1>5
  <2>3. EndsIn(up, p, b)
    BY <2>1, <2>2, <1>1, <1>2, <1>5 DEF EndsIn
  <2>4. t[Len(up)] = (t[p] * SixteenTo(Len(b)) + u[Len(b)]) % m
    BY <2>2, <2>3, <1>3, <1>5, <1>6, DigitsFromThePlaceOn
  <2> QED
    BY <2>2, <2>4, <1>1, <1>5
<1>8. t[p] \in Nat /\ u[w] \in 0..(m - 1)
  BY <1>1, <1>3, <1>4, <1>5, <1>6, ShiftedType, p \in 0..Len(up), w \in 0..w
<1>9. (t[p] * m + u[w]) % m = u[w]
  BY <1>6, <1>8, RemainderIsUnique
<1> QED
  BY <1>1, <1>2, <1>3, <1>4, <1>7, <1>9 DEF m, end

LEMMA CaseDoesNotMatter ==
  ASSUME NEW s \in Seq(HexLetters), NEW w \in Nat
  PROVE  Ql_HexStrToInt(s, w) = Ql_HexStrToInt(Ql_StrToUpper(s), w)
<1>1. Ql_StrToUpper(Ql_StrToUpper(s)) = Ql_StrToUpper(s)
  BY ToUpperFacts, UpperStaysUpper
<1> QED
  BY <1>1 DEF Ql_HexStrToInt

(* The two digits of a byte are read as a number of two digits is.         *)
LEMMA BytesAreRead ==
  ASSUME NEW s \in Seq(HexLetters)
  PROVE  hexstring_to_value(s) =
           [j \in 1..(Len(s) \div 2) |-> Ql_HexStrToInt(SubSeq(s, 2 * j - 1, 2 * j), 2)]
<1> DEFINE up == Ql_StrToUpper(s)
<1>1. Len(s) \in Nat /\ Len(up) = Len(s) /\ \A i \in DOMAIN up : up[i] \in UpperLetters /\ IsDigit(up[i])
  BY ToUpperFacts, LenProperties, UpperCaseFacts
<1>2. hexstring_to_value(s) =
        [j \in 1..(Len(s) \div 2) |-> (Value(up[2 * j - 1]) * 16 + Value(up[2 * j])) % 256]
  <2> HIDE DEF up
  <2>1. \A i \in DOMAIN up : IsDigit(up[i])
    BY <1>1
  <2>2. hexstring_to_value(s) =
          [j \in 1..(Len(up) \div 2) |-> (Value(up[2 * j - 1]) * 16 + Value(up[2 * j])) % 256]
    BY <2>1 DEF hexstring_to_value, up
  <2> QED
    BY <2>2, <1>1
<1>3. ASSUME NEW j \in 1..(Len(s) \div 2)
      PROVE  Ql_HexStrToInt(SubSeq(s, 2 * j - 1, 2 * j), 2) = (Value(up[2 * j - 1]) * 16 + Value(up[2 * j])) % 256
  <2> DEFINE byte == SubSeq(s, 2 * j - 1, 2 * j)
             b    == Ql_StrToUpper(byte)
  <2>1. 2 * j - 1 \in Nat \ {0} /\ 2 * j \in Nat /\ 2 * j - 1 <= 2 * j + 1 /\ 2 * j <= Len(s)
    BY <1>1
  <2>2. /\ byte \in Seq(HexLetters) /\ Len(byte) = 2 * j - (2 * j - 1) + 1
        /\ \A k \in 1..Len(byte) : b[k] = up[(2 * j - 1) + k - 1]
    BY <2>1, PartInUpperCase
  <2> HIDE DEF byte, up
  <2>3. Len(byte) = 2 /\ b[1] = up[2 * j - 1] /\ b[2] = up[2 * j]
    BY <2>1, <2>2
  <2>4. b \in Seq(UpperLetters) /\ Len(b) = 2
    BY <2>2, <2>3, ToUpperFacts
  <2>5. PICK t : IsShifted(t, b, SixteenTo(2)) /\ Ql_HexStrToInt(byte, 2) = t[Len(byte)]
    BY <2>2, NumberIsShifted, 2 \in Nat
  <2>6. SixteenTo(2) = 256
    BY SixteenToFacts, SixteenTo(0 + 1) = 16 * SixteenTo(0), SixteenTo(1 + 1) = 16 * SixteenTo(1)
  <2> HIDE DEF b
  <2>7. /\ t[0] = 0 /\ t[1] = (t[0] * 16 + Value(b[1])) % 256 /\ t[2] = (t[1] * 16 + Value(b[2])) % 256
        /\ Value(b[1]) \in 0..15 /\ Value(b[2]) \in 0..15
    <3>0. b \in Seq(UpperLetters)
      BY <2>4
    <3>1. PICK m \in Nat \ {0} : m = 256 /\ IsShifted(t, b, m)
      BY <2>5, <2>6
    <3>2. /\ t[0] = 0
          /\ \A i \in 1..Len(b) : Value(b[i]) \in 0..15 /\ t[i] = (t[i - 1] * 16 + Value(b[i])) % m
      BY <3>0, <3>1, ShiftedType
    <3>3. t[1] = (t[1 - 1] * 16 + Value(b[1])) % 256 /\ t[2] = (t[2 - 1] * 16 + Value(b[2])) % 256
      BY <3>1, <3>2, <2>4
    <3> QED
      BY <3>2, <3>3, <2>4
  <2>8. t[1] = Value(b[1])
    BY <2>7, SMTT(60)
  <2> QED
    BY <2>3, <2>5, <2>7, <2>8 DEF byte
<1> HIDE DEF up
<1> QED
  BY <1>2, <1>3

-----------------------------------------------------------------------------
(* The table of profile names, taken apart.                                *)
Parts == {"SPP", "OBEX_", "PBA_PROFILE", "_CLIENT", "OBJECT_PUSH_", "SERVICE", "CLIENT", "HF", "_PROFILE",
          "G_PROFILE"}

LEMMA ProfileNames ==
  /\ DOMAIN pf_name = 1..7 /\ Len(pf_name) = 7
  /\ \A i \in 1..7 : pf_name[i] \in Seq(Parts)
<1>1. ASSUME NEW C, NEW x \in C, NEW y \in C, NEW z \in C
      PROVE  <<x>> \in Seq(C) /\ <<x, y>> \in Seq(C) /\ <<x, y, z>> \in Seq(C)
  OBVIOUS
<1>2. ASSUME NEW i \in 1..7 PROVE pf_name[i] \in Seq(Parts)
  <2>1. /\ pf_name[1] = <<"SPP">>
        /\ pf_name[2] = <<"OBEX_", "PBA_PROFILE", "_CLIENT">>
        /\ pf_name[3] = <<"OBEX_", "PBA_PROFILE">>
        /\ pf_name[4] = <<"OBEX_", "OBJECT_PUSH_", "SERVICE">>
        /\ pf_name[5] = <<"OBEX_", "OBJECT_PUSH_", "CLIENT">>
        /\ pf_name[6] = <<"HF", "_PROFILE">>
        /\ pf_name[7] = <<"HF", "G_PROFILE">>
    BY DEF pf_name
  <2>2. i = 1 \/ i = 2 \/ i = 3 \/ i = 4 \/ i = 5 \/ i = 6 \/ i = 7
    OBVIOUS
  <2>3. {"SPP", "OBEX_", "PBA_PROFILE", "_CLIENT", "OBJECT_PUSH_", "SERVICE", "CLIENT", "HF", "_PROFILE",
         "G_PROFILE"} \subseteq Parts
    BY DEF Parts
  <2>4. /\ <<"SPP">> \in Seq(Parts)
        /\ <<"OBEX_", "PBA_PROFILE", "_CLIENT">> \in Seq(Parts) /\ <<"OBEX_", "PBA_PROFILE">> \in Seq(Parts)
        /\ <<"OBEX_", "OBJECT_PUSH_", "SERVICE">> \in Seq(Parts) 
        /\ <<"OBEX_", "OBJECT_PUSH_", "CLIENT">> \in Seq(Parts)
        /\ <<"HF", "_PROFILE">> \in Seq(Parts) /\ <<"HF", "G_PROFILE">> \in Seq(Parts)
    BY <1>1, <2>3
  <2> QED
    BY <2>1, <2>2, <2>4
<1>3. DOMAIN pf_name = 1..7 /\ Len(pf_name) = 7
  BY DEF pf_name
<1> QED
  BY <1>2, <1>3

(* A name begins with another: the second with the third, and no others.   *)
Begins(i, j) ==
  /\ Len(pf_name[i]) <= Len(pf_name[j])
  /\ \A k \in 1..Len(pf_name[i]) : pf_name[j][k] = pf_name[i][k]

LEMMA OneNameBeginsAnother ==
  ASSUME NEW i \in 1..7, NEW j \in 1..7
  PROVE  Begins(i, j) <=> (i = j \/ (i = 3 /\ j = 2))
<1>1. i = 1 \/ i = 2 \/ i = 3 \/ i = 4 \/ i = 5 \/ i = 6 \/ i = 7
  OBVIOUS
<1>2. j = 1 \/ j = 2 \/ j = 3 \/ j = 4 \/ j = 5 \/ j = 6 \/ j = 7
  OBVIOUS
<1>3. /\ Len(pf_name[1]) = 1 /\ pf_name[1][1] = "SPP"
      /\ Len(pf_name[2]) = 3 /\ pf_name[2][1] = "OBEX_" /\ pf_name[2][2] = "PBA_PROFILE"
      /\ Len(pf_name[3]) = 2 /\ pf_name[3][1] = "OBEX_" /\ pf_name[3][2] = "PBA_PROFILE"
      /\ Len(pf_name[4]) = 3 /\ pf_name[4][1] = "OBEX_" /\ pf_name[4][2] = "OBJECT_PUSH_"
         /\ pf_name[4][3] = "SERVICE"
      /\ Len(pf_name[5]) = 3 /\ pf_name[5][1] = "OBEX_" /\ pf_name[5][2] = "OBJECT_PUSH_"
         /\ pf_name[5][3] = "CLIENT"
      /\ Len(pf_name[6]) = 2 /\ pf_name[6][1] = "HF" /\ pf_name[6][2] = "_PROFILE"
      /\ Len(pf_name[7]) = 2 /\ pf_name[7][1] = "HF" /\ pf_name[7][2] = "G_PROFILE"
  BY DEF pf_name
<1>4. CASE i = j
  <2>1. Len(pf_name[i]) \in Nat
    BY <1>1, <1>3
  <2> QED
    BY <2>1, <1>4 DEF Begins
<1>5. CASE i # j /\ ~(i = 3 /\ j = 2)
  <2> DEFINE Differ(k) == k \in 1..Len(pf_name[i]) /\ pf_name[i][k] # pf_name[j][k]
  <2>1. ASSUME NEW k, Differ(k) PROVE ~Begins(i, j)
    BY <2>1 DEF Begins
  <2>2. CASE Len(pf_name[i]) > Len(pf_name[j])
    <3>1. Len(pf_name[i]) \in Nat /\ Len(pf_name[j]) \in Nat
      BY <1>1, <1>2, <1>3
    <3> QED
      BY <2>2, <3>1, <1>5 DEF Begins
  <2>3. Len(pf_name[i]) > Len(pf_name[j]) \/ Differ(1) \/ Differ(2) \/ Differ(3)
    BY <1>1, <1>2, <1>3, <1>5, SMTT(60)
  <2> HIDE DEF Differ
  <2> QED
    BY <2>1, <2>2, <2>3, <1>5
<1>6. CASE i = 3 /\ j = 2
  <2>1. 1..Len(pf_name[3]) = {1, 2}
    BY <1>3
  <2>2. Len(pf_name[3]) <= Len(pf_name[2])
    BY <1>3
  <2>3. \A k \in {1, 2} : pf_name[2][k] = pf_name[3][k]
    BY <1>3
  <2>4. Begins(3, 2)
    BY <2>1, <2>2, <2>3 DEF Begins
  <2> QED
    BY <1>6, <2>4
<1> QED
  BY <1>4, <1>5, <1>6

(* The search returns the second profile for the third, and each other one *)
(* for itself.                                                             *)
LEMMA ProfilesAreTold ==
  ASSUME NEW i \in 1..7
  PROVE  BT_DevMngmt_ProfileNameToId(pf_name[i]) = IF i = 3 THEN 1 ELSE i - 1
<1> DEFINE passes == {j \in DOMAIN pf_name : StrAt(pf_name[j], 1, pf_name[i])}
<1>1. ASSUME NEW j \in 1..7 PROVE StrAt(pf_name[j], 1, pf_name[i]) <=> Begins(i, j)
  <2>1. PICK a \in Seq(Parts), b \in Seq(Parts), o \in Nat \ {0} :
          a = pf_name[j] /\ b = pf_name[i] /\ o = 1
    BY SMTT(60), ProfileNames
  <2>2. StrAt(a, o, b) <=> /\ o + Len(b) - 1 <= Len(a)
                           /\ \A k \in 1..Len(b) : a[o + k - 1] = b[k]
    BY StrAtComparesCharacters
  <2>3. Len(b) \in Nat /\ Len(a) \in Nat
    BY LenProperties
  <2>4. StrAt(a, 1, b) <=> Len(b) <= Len(a) /\ \A k \in 1..Len(b) : a[k] = b[k]
    BY <2>1, <2>2, <2>3
  <2> QED
    BY <2>1, <2>4 DEF Begins
<1>2. passes = IF i = 3 THEN {2, 3} ELSE {i}
  <2>1. \A j \in 1..7 : j \in passes <=> i = j \/ (i = 3 /\ j = 2)
    BY <1>1, OneNameBeginsAnother, ProfileNames
  <2>2. passes \subseteq 1..7
    BY ProfileNames
  <2> HIDE DEF passes
  <2>3. CASE i = 3
    <3>1. 2 \in passes /\ 3 \in passes
      BY <2>1, <2>3
    <3>2. \A j \in passes : j = 2 \/ j = 3
      BY <2>1, <2>2, <2>3
    <3> QED
      BY <3>1, <3>2, <2>3
  <2>4. CASE i # 3
    BY <2>1, <2>2, <2>4
  <2> QED
    BY <2>3, <2>4
<1>3. IsFirst(FirstOf(passes, 7), passes, 7)
  BY FirstOfIsFirst
<1>4. BT_DevMngmt_ProfileNameToId(pf_name[i]) = FirstOf(passes, 7) - 1
  BY ProfileNames DEF BT_DevMngmt_ProfileNameToId
<1>5. FirstOf(passes, 7) = IF i = 3 THEN 2 ELSE i
  <2> HIDE DEF passes
  <2> QED
    BY <1>2, <1>3 DEF IsFirst
<1> QED
  BY <1>4, <1>5

(* Numbers of any length are read right, into integers of any width, and so*)
(* are bytes: a number that fits is what its digits say, one too long      *)
(* keeps its last digits.  And just one profile is taken for another.      *)
THEOREM NumbersAreAlwaysRead ==
  ASSUME NEW w \in Nat
  PROVE  NumbersAndNamesAreRead(Seq(HexLetters), w)
<1>1. ASSUME NEW s \in Seq(HexLetters) PROVE IsReadRight(s, w)
  BY NumberIsItsDigits, LongNumberKeepsItsEnd, CaseDoesNotMatter, BytesAreRead DEF IsReadRight
<1>2. {i \in DOMAIN pf_name : BT_DevMngmt_ProfileNameToId(pf_name[i]) # i - 1} = {3}
  BY ProfileNames, ProfilesAreTold
<1> QED
  BY <1>1, <1>2 DEF NumbersAndNamesAreRead

(* What the run enumerates are such texts and numbers.                     *)
LEMMA TextsAreTexts ==
  /\ Texts \subseteq Seq({CR, LF, "O"})
  /\ Words \subseteq Seq({CR, LF, "O"}) \ {<<>>}
  /\ Numbers \subseteq Seq(HexLetters)
<1>1. Texts \subseteq Seq({CR, LF, "O"})
  <2>1. \A n \in 0..6 : n \in Nat
    OBVIOUS
  <2> QED
    BY <2>1, SeqDef DEF Texts
<1>2. Words \subseteq Seq({CR, LF, "O"}) \ {<<>>}
  BY DEF Words
<1>3. Numbers \subseteq Seq(HexLetters)
  <2>1. {"0", "9", "a", "F"} \subseteq HexLetters
    <3>1. "0" = Digits[1] /\ "9" = Digits[10] /\ "F" = Digits[16] /\ "a" = Lower[1]
      BY DEF Digits, Lower
    <3> QED
      BY <3>1 DEF HexLetters, Digits, Lower
  <2>2. ASSUME NEW n \in 0..3, NEW s \in [1..n -> {"0", "9", "a", "F"}] PROVE s \in Seq(HexLetters)
    <3>1. n \in Nat /\ s \in [1..n -> HexLetters]
      BY <2>1
    <3> QED
      BY <3>1, SeqDef
  <2> QED
    BY <2>2 DEF Numbers
<1> QED
  BY <1>1, <1>2, <1>3

(* The functions with which the handlers look at lines, and those that     *)
(* convert numbers and names, are right whenever a line is looked at.      *)
THEOREM TextsAreRead == Spec => []TextIsReadRight
<1>1. LinesAreFound(Seq({CR, LF, "O"}), Seq({CR, LF, "O"}) \ {<<>>})
  BY LinesAreAlwaysFound
<1>2. LinesAreFound(Texts, Words)
  BY <1>1, TextsAreTexts DEF LinesAreFound
<1>3. NumbersAndNamesAreRead(Seq(HexLetters), 2)
  BY NumbersAreAlwaysRead, 2 \in Nat
<1>4. NumbersAndNamesAreRead(Numbers, 2)
  BY <1>3, TextsAreTexts DEF NumbersAndNamesAreRead
<1>5. TextIsReadRight
  BY <1>2, <1>4 DEF TextIsReadRight, TextFunctionsAgree
<1> QED
  BY <1>5, PTL
=============================================================================
