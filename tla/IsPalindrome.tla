---------------------------- MODULE IsPalindrome ----------------------------
(***************************************************************************)
(* is_palindrome of Lab01/zad3/libpalindrome.c, one iteration of its loops *)
(* at a time: the copy of the digits, the walk over leading zeros, and the *)
(* comparison of the two ends.  A byte of the allocated buffer that was    *)
(* not written, or one outside it, may hold any character.                 *)
(***************************************************************************)
EXTENDS LibPalindrome

CONSTANTS
  Inputs      (* the data the function may be called with                 *)

ASSUME InputsAreText == Inputs \subseteq Seq(Characters)

VARIABLES
  pc,         (* "copy", "strip", "compare" or "done"                     *)
  data,       (* buff[0 .. buff_len-1], numbered from 1                   *)
  i,          (* the loop index of lines 52 and 64                        *)
  tmp,        (* the bytes of tmp written so far; j is its length         *)
  head, tail, (* the two pointers, as positions in tmp                    *)
  result      (* the value returned                                       *)

libVars == <<pc, data, i, tmp, head, tail, result>>

LibTypeOK ==
  /\ pc \in {"copy", "strip", "compare", "done"}
  /\ data \in Inputs
  /\ i \in Nat \ {0}
  /\ tmp \in Seq(Digits)
  /\ head \in Int
  /\ tail \in Int
  /\ result \in {-1, 0, 1}

LibInit ==
  /\ pc = "copy"
  /\ data \in Inputs
  /\ i = 1
  /\ tmp = <<>>
  /\ head = 0
  /\ tail = 0
  /\ result = 0

Return(r) == pc' = "done" /\ result' = r

IsAlpha(c) == c \in Letters

CopyDigit ==
  /\ pc = "copy"
  /\ i <= Len(data)
  /\ data[i] \in Digits
  /\ tmp' = Append(tmp, data[i])
  /\ i' = i + 1
  /\ UNCHANGED <<pc, data, head, tail, result>>

RejectLetter ==
  /\ pc = "copy"
  /\ i <= Len(data)
  /\ data[i] \notin Digits
  /\ IsAlpha(data[i])
  /\ Return(-1)
  /\ UNCHANGED <<data, i, tmp, head, tail>>

SkipOther ==
  /\ pc = "copy"
  /\ i <= Len(data)
  /\ data[i] \notin Digits
  /\ ~IsAlpha(data[i])
  /\ i' = i + 1
  /\ UNCHANGED <<pc, data, tmp, head, tail, result>>

EndCopy ==
  /\ pc = "copy"
  /\ i > Len(data)
  /\ pc' = "strip"
  /\ i' = 1
  /\ UNCHANGED <<data, tmp, head, tail, result>>

StripAnyZero == FALSE             \* mutant: the loop at lines 64-68 is dropped
AtLeadingZero == i <= Len(tmp) /\ tmp[i] = Zero

StripZero ==
  /\ pc = "strip"
  /\ AtLeadingZero
  /\ i' = i + 1
  /\ UNCHANGED <<pc, data, tmp, head, tail, result>>

EndStrip ==
  /\ pc = "strip"
  /\ ~AtLeadingZero
  /\ pc' = "compare"
  /\ head' = i
  /\ tail' = Len(tmp)
  /\ UNCHANGED <<data, i, tmp, result>>

(* What a pointer into tmp reads.                                          *)
Byte(k) == IF k \in 1..Len(tmp) THEN {tmp[k]} ELSE Characters

More == head + 1 <= tail - 1

EndsDiffer ==
  /\ pc = "compare"
  /\ \E a \in Byte(head), b \in Byte(tail) : a # b
  /\ Return(0)
  /\ UNCHANGED <<data, i, tmp, head, tail>>

EndsAgree ==
  /\ pc = "compare"
  /\ \E a \in Byte(head), b \in Byte(tail) : a = b
  /\ head' = head + 1
  /\ tail' = tail - 1
  /\ IF More THEN UNCHANGED <<pc, result>> ELSE Return(1)
  /\ UNCHANGED <<data, i, tmp>>

LibNext ==
  \/ CopyDigit \/ RejectLetter \/ SkipOther \/ EndCopy
  \/ StripZero \/ EndStrip
  \/ EndsDiffer \/ EndsAgree

LibSpec == LibInit /\ [][LibNext]_libVars

-----------------------------------------------------------------------------
(* The loops compute Verdicts, which the service's model takes a call to   *)
(* return: -1 for a letter, as the comment at lines 48-49 has it, else     *)
(* whether the number among the other characters, without its leading      *)
(* zeros, reads the same in both directions.  This is the code's own rule: *)
(* where it departs from line 24 is RefusesMarks below.                    *)
ReturnsVerdict == pc = "done" => result \in Verdicts(data)

(* The documentation, line 24: -1 is returned when the data have           *)
(* characters that are not digits or white space.                          *)
RefusesMarks ==
  pc = "done" /\ (\E k \in 1..Len(data) : data[k] \notin Digits \cup Blanks) => result = -1

(* A letter anywhere is found, and only a letter is refused (line 57).     *)
LettersRefused == pc = "done" => (result = -1 <=> HasLetter(data))

(* The two pointers stay inside the digits copied, if one is significant   *)
(* (lines 70-78).                                                          *)
PointersInside ==
  pc = "compare" /\ Significant(tmp) # {} => head \in 1..Len(tmp) /\ tail \in 1..Len(tmp)

(* The early answer 0 and the loop's condition give the verdict on all of  *)
(* the number, which begins at i (lines 63-78).                            *)
AnswersMirror ==
  pc = "done" /\ result # -1 /\ Significant(tmp) # {} =>
    /\ i \in Significant(tmp) /\ \A k \in Significant(tmp) : i <= k
    /\ result = 1 <=> \A k \in i..Len(tmp) : tmp[k] = tmp[Len(tmp) + i - k]
=============================================================================
