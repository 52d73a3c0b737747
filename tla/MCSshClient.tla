----------------------------- MODULE MCSshClient -----------------------------
(* Command lines of up to three arguments after the program's name, for a   *)
(* program that nobody types at; and a whole session with a plain one.      *)
EXTENDS SshClient

Names == {"prog", "-p", "-p443", "-p0", "0", "443", "70000", "u@h", "w@k", "@h"}
Ports == {"-p", "-p443", "-p0"}
After == [o \in {"-p443", "-p0"} |-> IF o = "-p0" THEN "0" ELSE "443"]
Numbers == [t \in Names |-> CASE t = "443" -> 443 [] t = "70000" -> 70000 [] OTHER -> 0]
Users == [t \in Names |-> CASE t = "u@h" -> "u" [] t = "w@k" -> "w" [] t = "@h" -> ""
                            [] OTHER -> Null]

Lines == {<<"prog">> \o l : l \in UNION {[1..n -> Names] : n \in 0..3}}
Plain == <<"prog", "-p", "443", "u@h">>

Letters == {"y", "t", "n"}
Typed == {<<"y">>, <<"t">>, <<"n", "t">>, <<"n", "y", "t", "t">>}
Files == {<<>>, <<<<"y">>>>, <<<<"y">>, <<"t">>>>, <<<<"n", "y", "t", "t">>, <<"y">>>>}

(* The command lines are tried until the session begins.                    *)
MCNext == (argv = Plain \/ pc = "parse") /\ Next

MCInit ==
  /\ argv \in Args /\ Init
  /\ argv # Plain => size = 0 /\ ~tty /\ queue = <<>>

MCSpec ==
  /\ MCInit /\ [][MCNext]_vars
  /\ WF_vars(MCNext /\ Program)
  /\ WF_vars(\E s \in Signals : Deliver(s) /\ UNCHANGED clientVars)
  /\ WF_vars(Answer /\ UNCHANGED clientVars)
=============================================================================
