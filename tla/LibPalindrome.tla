---------------------------- MODULE LibPalindrome ----------------------------
(***************************************************************************)
(* What is_palindrome of Lab01/zad3/libpalindrome.c returns, as a function *)
(* of its input.  Characters are the strings of the constant sets below;   *)
(* the code treats blanks and marks alike, its documentation does not.     *)
(***************************************************************************)
EXTENDS Integers, Sequences

CONSTANTS
  Zero,       (* the character '0'                                        *)
  Figures,    (* the other digits                                         *)
  Letters,    (* the characters isalpha accepts                           *)
  Blanks,     (* white space                                              *)
  Marks       (* every other character: signs and punctuation             *)

Others == Blanks \cup Marks

ASSUME CharacterClasses ==
  /\ Zero \notin Figures \cup Letters \cup Others
  /\ Blanks \cap Marks = {}
  /\ Figures \cap Letters = {}
  /\ Figures \cap Others = {}
  /\ Letters \cap Others = {}

Digits == Figures \cup {Zero}
Characters == Digits \cup Letters \cup Others

HasLetter(s) == \E i \in 1..Len(s) : s[i] \in Letters

(* The number in the data: its digits from the first one that is not zero. *)
DigitsOf(s) ==
  LET UpTo[n \in 0..Len(s)] ==
        IF n = 0 THEN <<>>
        ELSE IF s[n] \in Digits THEN Append(UpTo[n - 1], s[n]) ELSE UpTo[n - 1]
  IN UpTo[Len(s)]
Significant(d) == {k \in 1..Len(d) : d[k] # Zero}
Number(s) ==
  LET d == DigitsOf(s)
  IN IF Significant(d) = {} THEN <<>>
     ELSE SubSeq(d, CHOOSE k \in Significant(d) : \A l \in Significant(d) : k <= l, Len(d))

Mirrored(n) == \A k \in 1..Len(n) : n[k] = n[Len(n) + 1 - k]

(* The values the code of is_palindrome may return.  It refuses letters    *)
(* (line 57) and skips marks, whatever line 24 says of them (RefusesMarks  *)
(* of IsPalindrome).  Without a significant digit the loop at lines 73-78  *)
(* compares bytes outside the number: either answer.                       *)
Verdicts(s) ==
  IF HasLetter(s) THEN {-1}
  ELSE IF Number(s) = <<>> THEN {0, 1}
  ELSE IF Mirrored(Number(s)) THEN {1} ELSE {0}
=============================================================================
