------------------------------ MODULE MCIptTool ------------------------------
(* Three tools at work on two tables, two of them iptcmod; and each of the  *)
(* two programs alone with every command line of up to MaxArgs arguments.   *)
EXTENDS IptTool

CONSTANT MaxArgs

Words == {"-t", "-N", "-D", "-P", "-h", "1", "filter", "ACCEPT"}
AllTokens == Words \cup {"2", "nat", "INPUT", "own", "DROP"}
Options == {"-t", "-N", "-D", "-P", "-h"}
Numbers == [t \in AllTokens |-> CASE t = "1" -> 1 [] t = "2" -> 2 [] OTHER -> 0]

Lines == UNION {[1..n -> Words] : n \in 0..MaxArgs}
Commands ==
  {<<"-t", "filter", "-D", "INPUT", "1">>, <<"-D", "INPUT", "2", "-t", "filter">>,
   <<"-t", "filter", "-N", "own">>, <<"-t", "filter", "-P", "INPUT", "DROP">>,
   <<"-P", "own", "ACCEPT", "-t", "filter">>, <<"-t", "filter", "-P", "filter", "DROP">>,
   <<"-t", "nat", "-D", "INPUT", "1">>, <<"-t", "own", "-N", "filter">>}
EitherArgs == Lines \cup Commands

Tables ==
  LET with(n) == [rules |-> [c \in AllTokens |-> CASE c = "INPUT" -> n
                                                  [] c = "filter" -> <<>>
                                                  [] OTHER -> Null],
                  policy |-> [c \in Builtin |-> "ACCEPT"], number |-> Len(n) + 3]
  IN [n \in {"filter", "nat"} |-> IF n = "filter" THEN with(<<"r1", "r2">>) ELSE with(<<>>)]

Concurrent == argv \in [Tools -> Commands] /\ Init

Alone ==
  /\ pos = [p \in Tools |-> 1]
  /\ rule = [p \in Tools |-> NoRule]
  /\ handle = [p \in Tools |-> NoHandle]
  /\ tables = Start
  /\ \E p \in Tools, a \in Lines :
       /\ argv = [q \in Tools |-> IF q = p THEN a ELSE <<>>]
       /\ pc = [q \in Tools |-> IF q = p THEN "parse" ELSE "refused"]

MCSpec == (Concurrent \/ Alone) /\ [][Next]_vars
=============================================================================
