------------------------- MODULE IsPalindrome_proofs -------------------------
(* The verdict of is_palindrome, for data of any length.                   *)
EXTENDS IsPalindrome, Numbers_proofs, SequenceTheorems, TLAPS

(* What the loops have established when they are interrupted.              *)
Copied ==
  /\ pc = "copy" => \A k \in 1..(i - 1) : k <= Len(data) => data[k] \notin Letters
  /\ pc \in {"strip", "compare"} => ~HasLetter(data)

Stripped ==
  /\ pc \in {"strip", "compare"} =>
       /\ i <= Len(tmp) + 1
       /\ \A k \in 1..(i - 1) : tmp[k] = Zero
  /\ pc = "compare" /\ i <= Len(tmp) => tmp[i] # Zero

Compared ==
  pc = "compare" /\ i <= Len(tmp) =>
    /\ i <= head /\ head <= tail
    /\ head + tail = i + Len(tmp)
    /\ \A k \in i..(head - 1) : tmp[k] = tmp[Len(tmp) + i - k]

IInv ==
  /\ LibTypeOK
  /\ Copied
  /\ Stripped
  /\ Compared
  /\ LettersRefused
  /\ AnswersMirror

-----------------------------------------------------------------------------
(* The lengths of the data and of the digits copied are natural numbers.   *)
LEMMA Lengths ==
  ASSUME LibTypeOK
  PROVE  /\ Len(data) \in Nat /\ \A k \in 1..Len(data) : data[k] \in Characters
         /\ Len(tmp) \in Nat /\ \A k \in 1..Len(tmp) : tmp[k] \in Digits
<1>1. data \in Seq(Characters) /\ tmp \in Seq(Digits)
  BY InputsAreText DEF LibTypeOK
<1> QED
  BY <1>1, LenProperties

(* With a significant digit, stripping stops at one, and at the first.     *)
LEMMA StripStopsAtFirst ==
  ASSUME LibTypeOK, Stripped, pc = "compare"
  PROVE  /\ Significant(tmp) # {} <=> i <= Len(tmp)
         /\ Significant(tmp) # {} => i \in Significant(tmp) /\ \A k \in Significant(tmp) : i <= k
<1>1. i \in Nat \ {0} /\ Len(tmp) \in Nat
  BY Lengths DEF LibTypeOK
<1>2. \A k \in Significant(tmp) : i <= k
  BY <1>1 DEF Stripped, Significant
<1>3. i <= Len(tmp) => i \in Significant(tmp)
  BY <1>1 DEF Stripped, Significant
<1>4. Significant(tmp) # {} => i <= Len(tmp)
  BY <1>1, <1>2 DEF Significant
<1> QED
  BY <1>2, <1>3, <1>4

(* Halfway is enough: when the pointers have met or crossed, the pairs     *)
(* compared cover the whole number.                                        *)
LEMMA HalfIsEnough ==
  ASSUME NEW s, NEW a \in Nat, NEW n \in Nat, NEW h \in Int, NEW t \in Int,
         a <= h, h + t = a + n, h + 1 > t - 1,
         \A k \in a..h : s[k] = s[n + a - k]
  PROVE  \A k \in a..n : s[k] = s[n + a - k]
<1> TAKE k \in a..n
<1>1. CASE k <= h
  BY <1>1
<1>2. CASE k > h
  <2> DEFINE m == n + a - k
  <2>1. m \in a..h
    BY <1>2
  <2>2. s[m] = s[n + a - m]
    BY <2>1
  <2>3. n + a - m = k
    OBVIOUS
  <2> QED
    BY <2>2, <2>3
<1> QED
  BY <1>1, <1>2

(* The function starts with nothing copied and nothing known.              *)
LEMMA InitIInv == LibInit => IInv
<1> SUFFICES ASSUME LibInit PROVE IInv
  OBVIOUS
<1>1. tmp \in Seq(Digits)
  BY EmptySeq DEF LibInit
<1>2. LibTypeOK
  BY <1>1 DEF LibInit, LibTypeOK
<1>3. Copied /\ Stripped /\ Compared /\ LettersRefused /\ AnswersMirror
  BY DEF LibInit, Copied, Stripped, Compared, LettersRefused, AnswersMirror
<1> QED
  BY <1>2, <1>3 DEF IInv

(* The loop at lines 52-61.                                                *)
LEMMA CopyKeepsIInv ==
  ASSUME IInv, CopyDigit \/ RejectLetter \/ SkipOther \/ EndCopy
  PROVE  IInv'
<1> USE CharacterClasses
<1>1. LibTypeOK /\ Copied /\ pc = "copy" /\ data' = data /\ UNCHANGED <<head, tail>>
  BY DEF IInv, CopyDigit, RejectLetter, SkipOther, EndCopy
<1>2. Len(data) \in Nat /\ i \in Nat \ {0} /\ \A k \in 1..(i - 1) : k <= Len(data) => data[k] \notin Letters
  BY <1>1, Lengths DEF LibTypeOK, Copied
<1>3. LibTypeOK'
  <2>1. CASE CopyDigit
    <3>1. Append(tmp, data[i]) \in Seq(Digits)
      BY <1>1, <2>1, AppendProperties DEF CopyDigit, LibTypeOK
    <3> QED
      BY <1>1, <2>1, <3>1 DEF CopyDigit, LibTypeOK
  <2> QED
    BY <1>1, <2>1 DEF RejectLetter, SkipOther, EndCopy, Return, LibTypeOK
<1>4. Copied'
  <2>1. CASE CopyDigit \/ SkipOther
    <3>1. data[i] \notin Letters /\ i' = i + 1
      BY <2>1 DEF CopyDigit, SkipOther, IsAlpha, Digits
    <3> QED
      BY <1>1, <1>2, <2>1, <3>1 DEF Copied, CopyDigit, SkipOther
  <2>2. CASE EndCopy
    <3>1. \A k \in 1..Len(data) : data[k] \notin Letters
      BY <1>2, <2>2 DEF EndCopy
    <3> QED
      BY <1>1, <2>2, <3>1 DEF Copied, EndCopy, HasLetter
  <2> QED
    BY <2>1, <2>2 DEF RejectLetter, Return, Copied
<1>5. Stripped'
  <2>1. CASE EndCopy
    <3>1. Len(tmp) \in Nat
      BY <1>1, Lengths
    <3> QED
      BY <2>1, <3>1 DEF EndCopy, Stripped
  <2> QED
    BY <1>1, <2>1 DEF CopyDigit, RejectLetter, SkipOther, Return, Stripped
<1>6. LettersRefused'
  BY <1>1, <1>2 DEF CopyDigit, RejectLetter, SkipOther, EndCopy, Return, LettersRefused, HasLetter, IsAlpha
<1>7. Compared' /\ AnswersMirror'
  BY <1>1 DEF CopyDigit, RejectLetter, SkipOther, EndCopy, Return, Compared, AnswersMirror
<1> QED
  BY <1>3, <1>4, <1>5, <1>6, <1>7 DEF IInv

(* The loop at lines 64-68 and the assignments of the pointers.            *)
LEMMA StripKeepsIInv ==
  ASSUME IInv, StripZero \/ EndStrip
  PROVE  IInv'
<1>1. LibTypeOK /\ Copied /\ Stripped /\ pc = "strip" /\ UNCHANGED <<data, tmp, result>>
  BY DEF IInv, StripZero, EndStrip
<1>2. Len(tmp) \in Nat /\ i \in Nat \ {0}
  BY <1>1, Lengths DEF LibTypeOK
<1>3. LibTypeOK'
  BY <1>1, <1>2 DEF StripZero, EndStrip, LibTypeOK
<1>4. Copied'
  BY <1>1 DEF StripZero, EndStrip, Copied
<1>5. Stripped'
  BY <1>1, <1>2 DEF StripZero, EndStrip, AtLeadingZero, Stripped
<1>6. Compared'
  BY <1>1, <1>2 DEF StripZero, EndStrip, Compared
<1>7. LettersRefused' /\ AnswersMirror'
  BY <1>1 DEF StripZero, EndStrip, LettersRefused, AnswersMirror
<1> QED
  BY <1>3, <1>4, <1>5, <1>6, <1>7 DEF IInv

(* The loop at lines 73-78.                                                *)
LEMMA CompareKeepsIInv ==
  ASSUME IInv, EndsDiffer \/ EndsAgree
  PROVE  IInv'
<1>1. /\ LibTypeOK /\ Copied /\ Stripped /\ Compared /\ pc = "compare"
      /\ UNCHANGED <<data, tmp, i>>
  BY DEF IInv, EndsDiffer, EndsAgree
<1>2. /\ Len(tmp) \in Nat /\ i \in Nat \ {0} /\ head \in Int /\ tail \in Int
  BY <1>1, Lengths DEF LibTypeOK
<1>3. /\ Significant(tmp) # {} <=> i <= Len(tmp)
      /\ Significant(tmp) # {} => i \in Significant(tmp) /\ \A k \in Significant(tmp) : i <= k
  BY <1>1, StripStopsAtFirst
<1>4. i <= Len(tmp) => Byte(head) = {tmp[head]} /\ Byte(tail) = {tmp[tail]}
  BY <1>1, <1>2 DEF Compared, Byte
<1>5. LibTypeOK'
  BY <1>1, <1>2 DEF EndsDiffer, EndsAgree, Return, LibTypeOK
<1>6. Copied' /\ Stripped'
  BY <1>1 DEF EndsDiffer, EndsAgree, Return, Copied, Stripped
<1>7. LettersRefused'
  BY <1>1 DEF EndsDiffer, EndsAgree, Return, Copied, LettersRefused
<1>8. CASE EndsDiffer
  <2>1. pc' = "done" /\ result' = 0
    BY <1>8 DEF EndsDiffer, Return
  <2>2. i <= Len(tmp) => ~ \A k \in i..Len(tmp) : tmp[k] = tmp[Len(tmp) + i - k]
    <3> SUFFICES ASSUME i <= Len(tmp)
                 PROVE  head \in i..Len(tmp) /\ tmp[head] # tmp[Len(tmp) + i - head]
      OBVIOUS
    <3>1. tmp[head] # tmp[tail]
      BY <1>4, <1>8 DEF EndsDiffer
    <3>2. i <= head /\ head <= tail /\ head + tail = i + Len(tmp)
      BY <1>1 DEF Compared
    <3>3. tail = Len(tmp) + i - head /\ head \in i..Len(tmp)
      BY <1>2, <3>2
    <3> QED
      BY <3>1, <3>3
  <2>3. Compared' /\ AnswersMirror'
    BY <1>1, <1>3, <2>1, <2>2 DEF Compared, AnswersMirror
  <2> QED
    BY <1>5, <1>6, <1>7, <2>3 DEF IInv
<1>9. CASE EndsAgree
  <2>1. head' = head + 1 /\ tail' = tail - 1
    BY <1>9 DEF EndsAgree
  <2>2. i <= Len(tmp) => /\ i <= head /\ head <= tail /\ head + tail = i + Len(tmp)
                         /\ \A k \in i..head : tmp[k] = tmp[Len(tmp) + i - k]
    <3> SUFFICES ASSUME i <= Len(tmp)
                 PROVE  /\ i <= head /\ head <= tail /\ head + tail = i + Len(tmp)
                        /\ \A k \in i..head : tmp[k] = tmp[Len(tmp) + i - k]
      OBVIOUS
    <3>1. /\ i <= head /\ head <= tail /\ head + tail = i + Len(tmp)
          /\ \A k \in i..(head - 1) : tmp[k] = tmp[Len(tmp) + i - k]
      BY <1>1 DEF Compared
    <3>2. tmp[head] = tmp[tail] /\ tail = Len(tmp) + i - head
      BY <1>2, <1>4, <1>9, <3>1 DEF EndsAgree
    <3>3. \A k \in i..head : k \in i..(head - 1) \/ k = head
      BY <1>2
    <3> QED
      BY <3>1, <3>2, <3>3
  <2>3. CASE More
    <3>1. pc' = pc /\ result' = result
      BY <1>9, <2>3 DEF EndsAgree
    <3>2. Compared'
      <4>1. head' - 1 = head /\ head' + tail' = head + tail /\ head' <= tail'
        BY <1>2, <2>1, <2>3 DEF More
      <4>2. i <= Len(tmp) => i <= head'
        BY <1>2, <2>1, <2>2
      <4> QED
        BY <1>1, <2>2, <4>1, <4>2 DEF Compared
    <3>3. AnswersMirror'
      BY <1>1, <3>1 DEF AnswersMirror
    <3> QED
      BY <1>5, <1>6, <1>7, <3>2, <3>3 DEF IInv
  <2>4. CASE ~More
    <3>1. pc' = "done" /\ result' = 1
      BY <1>9, <2>4 DEF EndsAgree, Return
    <3>2. i <= Len(tmp) => \A k \in i..Len(tmp) : tmp[k] = tmp[Len(tmp) + i - k]
      BY <1>2, <2>2, <2>4, HalfIsEnough DEF More
    <3>3. Compared' /\ AnswersMirror'
      BY <1>1, <1>3, <3>1, <3>2 DEF Compared, AnswersMirror
    <3> QED
      BY <1>5, <1>6, <1>7, <3>3 DEF IInv
  <2> QED
    BY <2>3, <2>4
<1> QED
  BY <1>8, <1>9

(* Every step keeps the loop invariants.                                   *)
LEMMA NextKeepsIInv == IInv /\ [LibNext]_libVars => IInv'
<1> SUFFICES ASSUME IInv, [LibNext]_libVars PROVE IInv'
  OBVIOUS
<1>1. CASE UNCHANGED libVars
  BY <1>1 DEF libVars, IInv, LibTypeOK, Copied, Stripped, Compared, LettersRefused, AnswersMirror
<1> QED
  BY <1>1, CopyKeepsIInv, StripKeepsIInv, CompareKeepsIInv DEF LibNext

(* -1 is returned exactly for data with a letter (line 57).                *)
THEOREM LettersAreRefused == LibSpec => []LettersRefused
<1>1. IInv => LettersRefused
  BY DEF IInv
<1> QED
  BY <1>1, InitIInv, NextKeepsIInv, PTL DEF LibSpec

(* 1 is returned exactly when the digits from the first significant one    *)
(* read the same in both directions, if there is a significant one.        *)
THEOREM AnswerIsMirror == LibSpec => []AnswersMirror
<1>1. IInv => AnswersMirror
  BY DEF IInv
<1> QED
  BY <1>1, InitIInv, NextKeepsIInv, PTL DEF LibSpec

(* The comparison reads no byte outside the number, if there is one.       *)
THEOREM PointersStayInside == LibSpec => []PointersInside
<1>1. IInv => PointersInside
  <2> SUFFICES ASSUME IInv, pc = "compare", Significant(tmp) # {}
               PROVE  head \in 1..Len(tmp) /\ tail \in 1..Len(tmp)
    BY DEF PointersInside
  <2>1. LibTypeOK /\ Stripped /\ Compared
    BY DEF IInv
  <2>2. i <= Len(tmp) /\ Len(tmp) \in Nat /\ i \in Nat \ {0} /\ head \in Int /\ tail \in Int
    BY <2>1, StripStopsAtFirst, Lengths DEF LibTypeOK
  <2> QED
    BY <2>1, <2>2 DEF Compared
<1> QED
  BY <1>1, InitIInv, NextKeepsIInv, PTL DEF LibSpec

-----------------------------------------------------------------------------
(* The digits among the first n characters of s, and that there is such a  *)
(* function: by the least n for which there would be none.                 *)
Steps(g, s, n) ==
  [k \in 0..n |-> IF k = 0 THEN <<>>
                  ELSE IF s[k] \in Digits THEN Append(g[k - 1], s[k]) ELSE g[k - 1]]
UpTo(s) == CHOOSE g : g = Steps(g, s, Len(s))

LEMMA StepsExist ==
  ASSUME NEW s, NEW m \in Nat
  PROVE  \E g : g = Steps(g, s, m)
<1> DEFINE Bad == {n \in Nat : ~ \E g : g = Steps(g, s, n)}
<1> SUFFICES ASSUME Bad # {} PROVE FALSE
  OBVIOUS
<1>1. PICK n \in Bad : \A l \in Bad : n <= l
  <2>1. Bad \in SUBSET Nat
    OBVIOUS
  <2> HIDE DEF Bad
  <2> QED
    BY <2>1, LeastNumber
<1>2. n # 0
  <2> SUFFICES ASSUME n = 0 PROVE FALSE
    OBVIOUS
  <2> DEFINE g == [k \in 0..0 |-> <<>>]
  <2>1. g = Steps(g, s, 0)
    BY \A k \in 0..0 : k = 0 DEF Steps
  <2> QED
    BY <2>1, <1>1
<1>3. n \in Nat /\ n - 1 \in Nat /\ n - 1 \notin Bad
  <2>1. n \in Nat
    BY <1>1
  <2>2. n - 1 \in Nat /\ n - 1 < n
    BY <2>1, <1>2
  <2> HIDE DEF Bad
  <2> QED
    BY <2>1, <2>2, <1>1
<1>4. PICK g : g = Steps(g, s, n - 1)
  BY <1>3
<1> DEFINE last == IF s[n] \in Digits THEN Append(g[n - 1], s[n]) ELSE g[n - 1]
           h == [k \in 0..n |-> IF k < n THEN g[k] ELSE last]
<1>5. \A k \in 0 .. n - 1 : g[k] = IF k = 0 THEN <<>>
                                   ELSE IF s[k] \in Digits THEN Append(g[k - 1], s[k]) ELSE g[k - 1]
  BY <1>4 DEF Steps
<1> HIDE DEF Bad
<1>6. \A k \in 0..n : h[k] = IF k = 0 THEN <<>>
                             ELSE IF s[k] \in Digits THEN Append(h[k - 1], s[k]) ELSE h[k - 1]
  <2> SUFFICES ASSUME NEW k \in 0..n
               PROVE  h[k] = IF k = 0 THEN <<>>
                             ELSE IF s[k] \in Digits THEN Append(h[k - 1], s[k]) ELSE h[k - 1]
    OBVIOUS
  <2>1. k # 0 => k - 1 \in 0..n /\ k - 1 < n
    BY <1>3
  <2>2. CASE k < n
    BY <2>1, <2>2, <1>3, <1>5
  <2>3. CASE k = n
    BY <2>1, <2>3, <1>2, <1>3
  <2> QED
    BY <1>3, <2>2, <2>3
<1>7. h = Steps(h, s, n)
  <2> HIDE DEF last
  <2> QED
    BY <1>6 DEF Steps
<1>8. n \notin Bad
  BY <1>7 DEF Bad
<1> QED
  BY <1>1, <1>8

LEMMA UpToSteps ==
  ASSUME NEW s \in Seq(Characters)
  PROVE  /\ UpTo(s)[0] = <<>> /\ UpTo(s)[Len(s)] = DigitsOf(s)
         /\ \A k \in 1..Len(s) :
              UpTo(s)[k] = IF s[k] \in Digits THEN Append(UpTo(s)[k - 1], s[k]) ELSE UpTo(s)[k - 1]
<1>1. Len(s) \in Nat
  BY LenProperties
<1>2. UpTo(s) = Steps(UpTo(s), s, Len(s))
  BY <1>1, StepsExist DEF UpTo
<1>3. UpTo(s)[Len(s)] = DigitsOf(s)
  BY DEF UpTo, Steps, DigitsOf
<1>4. /\ 0 \in 0..Len(s) /\ \A k \in 1..Len(s) : k \in 0..Len(s) /\ k # 0
  BY <1>1
<1> QED
  BY <1>2, <1>3, <1>4 DEF Steps

(* What was copied is what DigitsOf selects from the characters seen.       *)
Selected ==
  /\ pc = "copy" => i <= Len(data) + 1 /\ tmp = UpTo(data)[i - 1]
  /\ pc \in {"strip", "compare"} \/ (pc = "done" /\ result # -1) => tmp = DigitsOf(data)

LEMMA NextKeepsSelected == IInv /\ Selected /\ [LibNext]_libVars => Selected'
<1> SUFFICES ASSUME IInv, Selected, [LibNext]_libVars PROVE Selected'
  OBVIOUS
<1>1. data \in Seq(Characters) /\ Len(data) \in Nat /\ i \in Nat \ {0}
  BY InputsAreText, LenProperties DEF IInv, LibTypeOK
<1>2. CASE CopyDigit
  <2>1. i \in 1..Len(data) /\ (i + 1) - 1 = i
    BY <1>1, <1>2 DEF CopyDigit
  <2>2. UpTo(data)[i] = Append(UpTo(data)[i - 1], data[i])
    BY <1>1, <1>2, <2>1, UpToSteps DEF CopyDigit
  <2> QED
    BY <1>1, <1>2, <2>1, <2>2 DEF CopyDigit, Selected
<1>3. CASE SkipOther
  <2>1. i \in 1..Len(data) /\ (i + 1) - 1 = i
    BY <1>1, <1>3 DEF SkipOther
  <2>2. UpTo(data)[i] = UpTo(data)[i - 1]
    BY <1>1, <1>3, <2>1, UpToSteps DEF SkipOther
  <2> QED
    BY <1>1, <1>3, <2>1, <2>2 DEF SkipOther, Selected
<1>4. CASE RejectLetter
  BY <1>4 DEF RejectLetter, Return, Selected
<1>5. CASE EndCopy
  <2>1. i - 1 = Len(data)
    BY <1>1, <1>5 DEF EndCopy, Selected
  <2> QED
    BY <1>1, <1>5, <2>1, UpToSteps DEF EndCopy, Selected
<1>6. CASE StripZero \/ EndStrip
  BY <1>6 DEF StripZero, EndStrip, Selected
<1>7. CASE EndsDiffer \/ EndsAgree
  BY <1>7 DEF EndsDiffer, EndsAgree, Return, Selected
<1>8. CASE UNCHANGED libVars
  BY <1>8 DEF libVars, Selected
<1> QED
  BY <1>2, <1>3, <1>4, <1>5, <1>6, <1>7, <1>8 DEF LibNext

(* The answer on the digits from the first significant one is the verdict. *)
LEMMA MirrorIsVerdict == IInv /\ Selected => ReturnsVerdict
<1> SUFFICES ASSUME IInv, Selected, pc = "done" PROVE result \in Verdicts(data)
  BY DEF ReturnsVerdict
<1>1. result \in {-1, 0, 1} /\ (result = -1 <=> HasLetter(data))
  BY DEF IInv, LibTypeOK, LettersRefused
<1>2. CASE HasLetter(data)
  BY <1>1, <1>2 DEF Verdicts
<1>3. CASE ~HasLetter(data)
  <2>1. result \in {0, 1} /\ result # -1 /\ tmp = DigitsOf(data)
    BY <1>1, <1>3 DEF Selected
  <2> DEFINE L == Len(tmp)  first == CHOOSE k \in Significant(tmp) : \A l \in Significant(tmp) : k <= l
             n == SubSeq(tmp, first, L)
  <2>2. tmp \in Seq(Digits) /\ L \in Nat
    BY LenProperties DEF IInv, LibTypeOK
  <2>3. CASE Significant(tmp) = {}
    BY <1>3, <2>1, <2>3 DEF Verdicts, Number
  <2>4. CASE Significant(tmp) # {}
    <3>1. /\ i \in Significant(tmp) /\ \A k \in Significant(tmp) : i <= k
          /\ result = 1 <=> \A k \in i..L : tmp[k] = tmp[L + i - k]
      BY <2>1, <2>4 DEF IInv, AnswersMirror
    <3>2. Significant(tmp) \subseteq 1..L
      BY DEF Significant
    <3>3. first = i
      <4>1. first \in Significant(tmp) /\ \A l \in Significant(tmp) : first <= l
        BY <3>1
      <4> HIDE DEF first
      <4> QED
        BY <2>2, <3>1, <3>2, <4>1
    <3>4. Number(data) = n
      BY <2>1, <2>4 DEF Number
    <3> HIDE DEF first
    <3>5. /\ i \in 1..L /\ n = SubSeq(tmp, i, L)
      BY <3>1, <3>2, <3>3
    <3> HIDE DEF n
    <3>6. /\ n \in Seq(Digits) /\ Len(n) = L - i + 1
          /\ \A k \in 1..(L - i + 1) : n[k] = tmp[i + k - 1]
      BY <2>2, <3>5, SubSeqProperties
    <3> HIDE DEF L
    <3>7. n # <<>>
      <4>1. L - i + 1 # 0
        BY <2>2, <3>5
      <4>2. Len(n) # 0
        BY <3>6, <4>1
      <4> QED
        BY <4>2, EmptySeq
    <3>8. Mirrored(n) <=> \A k \in i..L : tmp[k] = tmp[L + i - k]
      <4>1. ASSUME Mirrored(n), NEW k \in i..L PROVE tmp[k] = tmp[L + i - k]
        <5> DEFINE j == k - i + 1
        <5>1. j \in 1..(L - i + 1) /\ (L - i + 1) + 1 - j \in 1..(L - i + 1)
          BY <2>2, <3>5
        <5>2. i + j - 1 = k /\ i + ((L - i + 1) + 1 - j) - 1 = L + i - k
          BY <2>2, <3>5
        <5>3. n[j] = n[(L - i + 1) + 1 - j]
          BY <3>6, <4>1, <5>1 DEF Mirrored
        <5> HIDE DEF j
        <5> QED
          BY <3>6, <5>1, <5>2, <5>3
      <4>2. ASSUME \A k \in i..L : tmp[k] = tmp[L + i - k], NEW j \in 1..(L - i + 1)
            PROVE  n[j] = n[(L - i + 1) + 1 - j]
        <5> DEFINE k == i + j - 1
        <5>1. k \in i..L /\ (L - i + 1) + 1 - j \in 1..(L - i + 1)
          BY <2>2, <3>5
        <5>2. i + ((L - i + 1) + 1 - j) - 1 = L + i - k
          BY <2>2, <3>5
        <5>3. tmp[k] = tmp[L + i - k]
          BY <4>2, <5>1
        <5> QED
          BY <3>6, <5>1, <5>2, <5>3
      <4> QED
        BY <3>6, <4>1, <4>2 DEF Mirrored
    <3> QED
      BY <1>3, <2>1, <3>1, <3>4, <3>7, <3>8 DEF Verdicts, L
  <2> QED
    BY <2>3, <2>4
<1> QED
  BY <1>2, <1>3

(* For data of any length the loops return what the data deserve: -1 for a *)
(* letter, else whether the number without its leading zeros reads the     *)
(* same in both directions (libpalindrome.c 52-82).                        *)
THEOREM VerdictIsDeserved == LibSpec => []ReturnsVerdict
<1>1. LibInit => Selected
  <2> SUFFICES ASSUME LibInit PROVE Selected
    OBVIOUS
  <2>1. data \in Seq(Characters) /\ Len(data) \in Nat
    BY InputsAreText, LenProperties DEF LibInit
  <2> QED
    BY <2>1, UpToSteps DEF LibInit, Selected
<1> QED
  BY <1>1, InitIInv, NextKeepsIInv, NextKeepsSelected, MirrorIsVerdict, PTL DEF LibSpec
=============================================================================
