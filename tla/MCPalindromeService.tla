------------------------ MODULE MCPalindromeService ------------------------
(* Two clients and lines that are a palindrome or not, longer or shorter   *)
(* than each other, with a letter, without a significant digit, and longer *)
(* than a client's buffer.                                                 *)
EXTENDS PalindromeService

(* For the search for a wrong verdict: many kinds of lines.                *)
SomeLines == {<<"1">>, <<"1", "2">>, <<"0", "1", "1">>, <<"a", "2">>, <<"1", "2", "1", "1">>}

(* For the complete check: a shorter, a longer and a cut line.             *)
FewLines == {<<"1", "2">>, <<"1">>, <<"1", "2", "a", "2">>}
=============================================================================
