--------------------------- MODULE IptTool_proofs ---------------------------
(* Theorems about the iptables tools: however many run at once, no string   *)
(* leaks, a line is understood or refused, a commit does what its line asks *)
(* for, and no deletion is undone by another.                               *)
EXTENDS IptTool, SequenceTheorems, TLAPS

(* The argument looked at is one of the tool's; while an operation may      *)
(* still come, no chain is stored.                                          *)
ChainAwaited ==
  \A p \in Tools :
    /\ pos[p] >= 1
    /\ pc[p] = "parse" /\ Fresh(p) => rule[p].chain = Null /\ rule[p].rule_num = 0

(* What main works with: a whole rule, and a table taken from the kernel.   *)
RuleComplete ==
  \A p \in Tools :
    /\ pc[p] \in {"init", "change", "commit"} => rule[p].table \in Tokens
    /\ rule[p].operation # "NONE" => rule[p].chain \in Tokens
HandleTaken ==
  \A p \in Tools :
    pc[p] \in {"change", "commit"} =>
      /\ rule[p].table \in TableNames
      /\ handle[p] \in [was : Table, now : Table]

(* What main changed in its copy is what the rule says.                     *)
ChangeIsRule ==
  \A p \in Tools :
    /\ pc[p] = "change" => handle[p].now = handle[p].was
    /\ pc[p] = "commit" => /\ handle[p].now = Carried(rule[p], handle[p].was)
                           /\ rule[p].operation # "NONE"
                           /\ rule[p].operation = "DELETE_RULE" =>
                                handle[p].now.number = handle[p].was.number - 1

(* Among tools that only delete, a table that is not the one of a snapshot  *)
(* has fewer entries.                                                       *)
OnlyDeleting == \A p \in Tools : rule[p].operation \in {"NONE", "DELETE_RULE"}
NumberTells ==
  \A p \in Tools :
    pc[p] \in {"change", "commit"} =>
      LET t == tables[rule[p].table]
      IN t = handle[p].was \/ t.number < handle[p].was.number
Deletions == OnlyDeletions => OnlyDeleting /\ NumberTells

IInv == TypeOK /\ ChainAwaited /\ RuleComplete /\ HandleTaken /\ ChangeIsRule /\ Deletions

-----------------------------------------------------------------------------
(* Deleting from a sequence: what the two halves are put together to.       *)
LEMMA WithoutElement ==
  ASSUME NEW S, NEW s \in Seq(S), NEW n \in Nat, n < Len(s)
  PROVE  /\ Without(s, n) \in Seq(S)
         /\ Without(s, n) = [k \in 1..(Len(s) - 1) |-> s[IF k <= n THEN k ELSE k + 1]]
<1> DEFINE a == SubSeq(s, 1, n)
           b == SubSeq(s, n + 2, Len(s))
           w == [k \in 1..(Len(s) - 1) |-> s[IF k <= n THEN k ELSE k + 1]]
<1>1. Len(s) \in Nat /\ \A i \in 1..Len(s) : s[i] \in S
  BY LenProperties
<1>2. a \in Seq(S) /\ Len(a) = n /\ \A i \in 1..n : a[i] = s[i]
  BY <1>1, SubSeqProperties
<1>3. b \in Seq(S) /\ Len(b) = Len(s) - n - 1 /\ \A i \in 1..(Len(s) - n - 1) : b[i] = s[n + 1 + i]
  BY <1>1, SubSeqProperties
<1> HIDE DEF a, b
<1>4. /\ a \o b \in Seq(S) /\ Len(a \o b) = Len(s) - 1
      /\ \A i \in 1..(Len(s) - 1) : (a \o b)[i] = IF i <= n THEN a[i] ELSE b[i - n]
  <2>1. /\ a \o b \in Seq(S) /\ Len(a \o b) = Len(a) + Len(b)
        /\ \A i \in 1..(Len(a) + Len(b)) : (a \o b)[i] = IF i <= Len(a) THEN a[i] ELSE b[i - Len(a)]
    BY ONLY <1>2, <1>3, ConcatProperties
  <2>2. Len(a) + Len(b) = Len(s) - 1
    BY <1>1, <1>2, <1>3
  <2> QED
    BY ONLY <1>2, <2>1, <2>2
<1>5. \A i \in 1..(Len(s) - 1) : (a \o b)[i] = s[IF i <= n THEN i ELSE i + 1]
  <2> TAKE i \in 1..(Len(s) - 1)
  <2>1. CASE i <= n
    BY <1>1, <1>2, <1>4, <2>1
  <2>2. CASE i > n
    <3>1. i - n \in 1..(Len(s) - n - 1) /\ n + 1 + (i - n) = i + 1
      BY <1>1, <2>2
    <3>2. (a \o b)[i] = b[i - n]
      BY <1>1, <1>4, <2>2
    <3> QED
      BY <1>1, <1>3, <2>2, <3>1, <3>2
  <2>3. i <= n \/ i > n
    BY <1>1
  <2> QED
    BY <2>1, <2>2, <2>3
<1>6. a \o b = w
  BY <1>1, <1>4, <1>5, LenProperties
<1> QED
  BY <1>4, <1>6 DEF Without, a, b

(* The initial state.                                                       *)
LEMMA InitIInv == Init => IInv
<1> SUFFICES ASSUME Init PROVE IInv
  OBVIOUS
<1>1. NoRule \in RuleType
  BY DEF NoRule, RuleType, Opcodes
<1>2. TypeOK
  BY <1>1, StartsWithTables DEF Init, TypeOK, NoRule
<1> QED
  BY <1>2 DEF Init, IInv, ChainAwaited, RuleComplete, HandleTaken, ChangeIsRule, Deletions,
              OnlyDeleting, NumberTells, NoRule

-----------------------------------------------------------------------------
(* A step of parse(), or an exit: it leaves the tables alone, and what it   *)
(* does to the rule is to complete it, or to free it.                       *)
Places == {"parse", "error", "init", "change", "commit", "close",
           "refused", "failed", "helped", "done"}

NextRule(p, r, where) ==
  /\ r \in RuleType
  /\ where \in Places \ {"change", "commit", "close"}
  /\ r.operation # "NONE" => r.chain \in Tokens /\ r.rule_num >= 0
  /\ where = "parse" /\ r.operation = "NONE" => r.chain = Null /\ r.rule_num = 0
  /\ where = "init" => r.table \in Tokens
  /\ OnlyDeletions => r.operation \in {"NONE", "DELETE_RULE"}
  /\ \/ r = NoRule
     \/ rule[p].chain \in {Null, r.chain} /\ rule[p].table \in {Null, r.table}

Quiet(p, r, where, n) ==
  /\ NextRule(p, r, where)
  /\ n \in Nat /\ n >= 1
  /\ rule' = [rule EXCEPT ![p] = r]
  /\ pc' = [pc EXCEPT ![p] = where]
  /\ pos' = [pos EXCEPT ![p] = n]
  /\ UNCHANGED <<argv, handle, tables>>

(* What one tool's place and rule must be when only they change.            *)
LEMMA QuietKeeps ==
  ASSUME IInv, NEW p \in Tools, NEW r, NEW where, NEW n, Quiet(p, r, where, n)
  PROVE  IInv'
<1> USE DEF IInv, Quiet
<1>1. /\ rule' \in [Tools -> RuleType] /\ pc' \in [Tools -> Places] /\ pos' \in [Tools -> Nat]
      /\ rule'[p] = r /\ pc'[p] = where /\ pos'[p] = n
      /\ \A q \in Tools : q # p => rule'[q] = rule[q] /\ pc'[q] = pc[q] /\ pos'[q] = pos[q]
  BY DEF TypeOK, NextRule, Places
<1>2. TypeOK'
  <2>1. \A q \in Tools : rule'[q].operation # "NONE" => rule'[q].rule_num >= 0
    BY <1>1 DEF TypeOK, NextRule
  <2> QED
    BY <1>1, <2>1 DEF TypeOK, Places
<1>3. ChainAwaited'
  BY <1>1 DEF ChainAwaited, Fresh, NextRule
<1>4. RuleComplete'
  BY <1>1 DEF RuleComplete, NextRule
<1>5. \A q \in Tools : pc'[q] \in {"change", "commit"} => q # p
  BY <1>1 DEF NextRule
<1>6. HandleTaken' /\ ChangeIsRule'
  <2>1. \A q \in Tools : pc'[q] \in {"change", "commit"} =>
          pc'[q] = pc[q] /\ rule'[q] = rule[q] /\ handle'[q] = handle[q]
    BY <1>1, <1>5
  <2>2. HandleTaken'
    BY <2>1 DEF HandleTaken
  <2>3. \A q \in Tools : Carried(rule[q], handle[q].was)' = Carried(rule'[q], handle'[q].was)
    BY DEF Carried
  <2> QED
    BY <2>1, <2>2, <2>3 DEF ChangeIsRule
<1>7. Deletions'
  BY <1>1, <1>5 DEF Deletions, OnlyDeletions, OnlyDeleting, NumberTells, NextRule
<1> QED
  BY <1>2, <1>3, <1>4, <1>6, <1>7

(* The argument at a place parse() looks at.                                *)
LEMMA ArgumentIsToken ==
  ASSUME IInv, NEW p \in Tools, NEW k \in Nat, Here(p, k)
  PROVE  /\ Arg(p, k) \in Tokens
         /\ OnlyDeletions => Arg(p, k) \notin {"-N", "-P"}
<1>1. argv[p] \in Seq(Tokens) /\ pos[p] \in Nat /\ pos[p] >= 1
  BY ToolConstants DEF IInv, TypeOK, ChainAwaited
<1>2. pos[p] + k \in 1..Len(argv[p])
  BY <1>1, LenProperties DEF Here
<1> QED
  BY <1>1, <1>2, ElementOfSeq DEF Arg, OnlyDeletions

LEMMA ParseIsQuiet ==
  ASSUME IInv, NEW p \in Tools, Parse(p)
  PROVE  \E r, where, n : Quiet(p, r, where, n)
<1>1. /\ rule \in [Tools -> RuleType] /\ pc \in [Tools -> Places] /\ pos \in [Tools -> Nat]
      /\ rule[p] \in RuleType /\ pos[p] \in Nat /\ pos[p] >= 1
      /\ rule[p].operation # "NONE" => rule[p].chain \in Tokens /\ rule[p].rule_num >= 0
      /\ pc[p] = "parse" /\ rule[p].operation = "NONE" => rule[p].chain = Null /\ rule[p].rule_num = 0
      /\ OnlyDeletions => rule[p].operation \in {"NONE", "DELETE_RULE"}
  BY DEF IInv, TypeOK, ChainAwaited, RuleComplete, Deletions, OnlyDeleting, Fresh, Places
<1>2. NoRule \in RuleType
  BY DEF NoRule, RuleType, Opcodes
<1>3. ASSUME Break(p) PROVE Quiet(p, rule[p], "error", pos[p])
  BY <1>1, <1>3 DEF Break, Go, Quiet, NextRule, Places
<1>4. ASSUME NEW r, NEW where, NextRule(p, r, where), rule' = [rule EXCEPT ![p] = r],
             Go(p, where), UNCHANGED <<argv, pos, handle, tables>>
      PROVE  Quiet(p, r, where, pos[p])
  BY <1>1, <1>4 DEF Go, Quiet
<1>5. ASSUME NEW r, NextRule(p, r, "parse"), rule' = [rule EXCEPT ![p] = r], pc[p] = "parse",
             NEW k \in Nat, Skip(p, k), UNCHANGED <<argv, pc, handle, tables>>
      PROVE  Quiet(p, r, "parse", pos[p] + k)
  BY <1>1, <1>5 DEF Skip, Quiet
<1> DEFINE With(operation, num) ==
             [rule[p] EXCEPT !.operation = operation, !.chain = Arg(p, 1), !.rule_num = num]
<1>6. ASSUME HasValue(p, 1), Fresh(p), pc[p] = "parse", NEW num \in Int
      PROVE  /\ NextRule(p, With("NONE", num), "error")
             /\ num >= 0 => NextRule(p, With("DELETE_RULE", num), "parse")
  <2>1. Arg(p, 1) \in Tokens /\ Arg(p, 1) # Null /\ rule[p].chain = Null
    BY <1>1, <1>6, ArgumentIsToken, ToolConstants DEF HasValue, Fresh
  <2>2. \A o \in Opcodes : /\ With(o, num) \in RuleType
                            /\ With(o, num).operation = o /\ With(o, num).chain = Arg(p, 1)
                            /\ With(o, num).rule_num = num /\ With(o, num).table = rule[p].table
    BY <1>1, <1>6, <2>1 DEF RuleType, Opcodes
  <2> HIDE DEF With
  <2>3. NextRule(p, With("NONE", num), "error")
    BY <2>1, <2>2 DEF NextRule, Opcodes, Places
  <2>4. ASSUME num >= 0 PROVE NextRule(p, With("DELETE_RULE", num), "parse")
    BY <2>1, <2>2, <2>4 DEF NextRule, Opcodes, Places
  <2> QED
    BY <2>3, <2>4
<1>7. ASSUME HasValue(p, 1), Fresh(p), pc[p] = "parse", Here(p, 0), Arg(p, 0) \in {"-N", "-P"},
             NEW operation \in Opcodes \ {"NONE"}
      PROVE  /\ NextRule(p, With(operation, 0), "parse")
             /\ With(operation, 0) = [rule[p] EXCEPT !.operation = operation, !.chain = Arg(p, 1)]
  <2>1. Arg(p, 1) \in Tokens /\ rule[p].chain = Null /\ rule[p].rule_num = 0
    BY <1>1, <1>7, ArgumentIsToken, ToolConstants DEF HasValue, Fresh
  <2>2. ~OnlyDeletions
    BY <1>7, ArgumentIsToken
  <2>3. /\ With(operation, 0) \in RuleType /\ With(operation, 0).operation = operation
        /\ With(operation, 0).chain = Arg(p, 1) /\ With(operation, 0).rule_num = 0
        /\ With(operation, 0).table = rule[p].table
    BY <1>1, <1>7, <2>1 DEF RuleType, Opcodes
  <2>4. With(operation, 0) = [rule[p] EXCEPT !.operation = operation, !.chain = Arg(p, 1)]
    BY <1>1, <2>1 DEF RuleType
  <2> HIDE DEF With
  <2>5. NextRule(p, With(operation, 0), "parse")
    BY <1>7, <2>1, <2>2, <2>3 DEF NextRule, Opcodes, Places
  <2> QED
    BY <2>4, <2>5
<1>8. \A num \in Int : ChainThen(p, "NONE", num) <=> rule' = [rule EXCEPT ![p] = With("NONE", num)]
  BY DEF ChainThen
<1>9. \A o \in Opcodes, num \in Int : ChainThen(p, o, num) <=> rule' = [rule EXCEPT ![p] = With(o, num)]
  BY DEF ChainThen
<1> HIDE DEF With
<1>10. ASSUME HasValue(p, 1), Fresh(p), pc[p] = "parse", NEW num \in Int, BreakWithChain(p, num)
       PROVE  Quiet(p, With("NONE", num), "error", pos[p])
  BY <1>4, <1>6, <1>8, <1>10 DEF BreakWithChain
<1>11. CASE ParseTable(p)
  <2>1. CASE HasValue(p, 1) /\ rule[p].table = Null
    <3> DEFINE r == [rule[p] EXCEPT !.table = Arg(p, 1)]
    <3>1. Arg(p, 1) \in Tokens
      BY <2>1, ArgumentIsToken DEF HasValue
    <3>2. r \in RuleType /\ r.operation = rule[p].operation /\ r.chain = rule[p].chain
          /\ r.rule_num = rule[p].rule_num
      BY <1>1, <3>1 DEF RuleType
    <3>3. pc[p] = "parse" /\ rule' = [rule EXCEPT ![p] = r] /\ Skip(p, 2)
          /\ UNCHANGED <<argv, pc, handle, tables>>
      BY <1>11, <2>1 DEF ParseTable, Option
    <3> HIDE DEF r
    <3>4. NextRule(p, r, "parse")
      BY <1>1, <2>1, <3>2, <3>3 DEF NextRule, Places
    <3> QED
      BY <1>5, <3>3, <3>4
  <2> QED
    BY <1>3, <1>11, <2>1 DEF ParseTable
<1>12. CASE ParseNewChain(p)
  <2>1. CASE Fresh(p) /\ HasValue(p, 1)
    <3>1. /\ pc[p] = "parse" /\ Here(p, 0) /\ Arg(p, 0) = "-N" /\ Skip(p, 2)
          /\ rule' = [rule EXCEPT ![p] = [rule[p] EXCEPT !.operation = "NEW_CHAIN", !.chain = Arg(p, 1)]]
          /\ UNCHANGED <<argv, pc, handle, tables>>
      BY <1>12, <2>1 DEF ParseNewChain, Option
    <3>2. "NEW_CHAIN" \in Opcodes \ {"NONE"}
      BY DEF Opcodes
    <3>3. /\ NextRule(p, With("NEW_CHAIN", 0), "parse")
          /\ rule' = [rule EXCEPT ![p] = With("NEW_CHAIN", 0)]
      BY <1>7, <2>1, <3>1, <3>2
    <3> QED
      BY <1>5, <3>1, <3>3
  <2> QED
    BY <1>3, <1>12, <2>1 DEF ParseNewChain
<1>13. CASE ParseDelete(p)
  <2>1. pc[p] = "parse"
    BY <1>13 DEF ParseDelete, Option
  <2>2. CASE ~Fresh(p) \/ ~HasValue(p, 1)
    BY <1>3, <1>13, <2>2 DEF ParseDelete
  <2>3. CASE Fresh(p) /\ HasValue(p, 1) /\ ~HasValue(p, 2)
    BY <1>10, <1>13, <2>1, <2>3 DEF ParseDelete
  <2>4. CASE Fresh(p) /\ HasValue(p, 1) /\ HasValue(p, 2)
    <3>1. NumberGiven(p) \in Int
      BY <2>4, ArgumentIsToken, ToolConstants DEF HasValue, NumberGiven
    <3>2. CASE Invalid(NumberGiven(p))
      BY <1>10, <1>13, <2>1, <2>4, <3>1, <3>2 DEF ParseDelete
    <3>3. CASE ~Invalid(NumberGiven(p))
      <4>1. NumberGiven(p) >= 0
        BY <3>1, <3>3 DEF Invalid
      <4>2. ChainThen(p, "DELETE_RULE", NumberGiven(p)) /\ Skip(p, 3)
            /\ UNCHANGED <<argv, pc, handle, tables>>
        BY <1>13, <2>4, <3>3 DEF ParseDelete
      <4>3. rule' = [rule EXCEPT ![p] = With("DELETE_RULE", NumberGiven(p))]
        BY <1>9, <3>1, <4>2 DEF Opcodes
      <4> QED
        BY <1>5, <1>6, <2>1, <2>4, <3>1, <4>1, <4>2, <4>3
    <3> QED
      BY <3>2, <3>3
  <2> QED
    BY <2>2, <2>3, <2>4
<1>14. CASE ParsePolicy(p)
  <2>1. pc[p] = "parse" /\ Here(p, 0) /\ Arg(p, 0) = "-P"
    BY <1>14 DEF ParsePolicy, Option
  <2>2. CASE ~Fresh(p) \/ ~HasValue(p, 1)
    BY <1>3, <1>14, <2>2 DEF ParsePolicy
  <2>3. CASE Fresh(p) /\ HasValue(p, 1) /\ (~HasValue(p, 2) \/ Arg(p, 2) \notin Policies)
    BY <1>10, <1>14, <2>1, <2>3 DEF ParsePolicy
  <2>4. CASE Fresh(p) /\ HasValue(p, 1) /\ HasValue(p, 2) /\ Arg(p, 2) \in Policies
    <3> DEFINE o == IF Arg(p, 2) = "ACCEPT" THEN "POLICY_ACCEPT" ELSE "POLICY_DROP"
    <3>1. ChainThen(p, o, 0) /\ Skip(p, 3) /\ UNCHANGED <<argv, pc, handle, tables>>
      BY <1>14, <2>4 DEF ParsePolicy
    <3>2. o \in Opcodes /\ o # "NONE"
      BY DEF Opcodes
    <3> HIDE DEF o
    <3>3. NextRule(p, With(o, 0), "parse")
      BY <1>7, <2>1, <2>4, <3>2
    <3>4. rule' = [rule EXCEPT ![p] = With(o, 0)]
      BY <1>9, <3>1, <3>2
    <3> QED
      BY <1>5, <2>1, <3>1, <3>3, <3>4
  <2> QED
    BY <2>2, <2>3, <2>4
<1>15. CASE ParseHelp(p) \/ Refuse(p)
  <2>1. NextRule(p, NoRule, "helped") /\ NextRule(p, NoRule, "refused")
    BY <1>2 DEF NextRule, NoRule, Places
  <2>2. CASE ParseHelp(p)
    <3>1. Go(p, "helped") /\ rule' = [rule EXCEPT ![p] = NoRule] /\ UNCHANGED <<argv, pos, handle, tables>>
      BY <2>2 DEF ParseHelp
    <3> QED
      BY <1>4, <2>1, <3>1
  <2>3. CASE Refuse(p)
    <3>1. Go(p, "refused") /\ rule' = [rule EXCEPT ![p] = NoRule] /\ UNCHANGED <<argv, pos, handle, tables>>
      BY <2>3 DEF Refuse
    <3> QED
      BY <1>4, <2>1, <3>1
  <2> QED
    BY <1>15, <2>2, <2>3
<1>16. CASE ParseUnknown(p)
  BY <1>3, <1>16 DEF ParseUnknown
<1>17. CASE EndParse(p)
  <2> DEFINE w == IF rule[p].operation # "NONE" /\ rule[p].table # Null THEN "init" ELSE "error"
  <2>1. NextRule(p, rule[p], w)
    BY <1>1 DEF NextRule, Places, RuleType
  <2>2. Go(p, w) /\ rule' = [rule EXCEPT ![p] = rule[p]] /\ UNCHANGED <<argv, pos, handle, tables>>
    BY <1>1, <1>17 DEF EndParse
  <2> HIDE DEF w
  <2> QED
    BY <1>4, <2>1, <2>2
<1> QED
  BY <1>11, <1>12, <1>13, <1>14, <1>15, <1>16, <1>17 DEF Parse

-----------------------------------------------------------------------------
(* main                                                                     *)

LEMMA FailIsQuiet ==
  ASSUME IInv, NEW p \in Tools, Fail(p)
  PROVE  \E r, where, n : Quiet(p, r, where, n)
<1>1. /\ rule \in [Tools -> RuleType] /\ pos \in [Tools -> Nat] /\ rule[p] \in RuleType
      /\ pos[p] \in Nat /\ pos[p] >= 1
      /\ rule[p].operation # "NONE" => rule[p].chain \in Tokens /\ rule[p].rule_num >= 0
      /\ OnlyDeletions => rule[p].operation \in {"NONE", "DELETE_RULE"}
  BY DEF IInv, TypeOK, ChainAwaited, RuleComplete, Deletions, OnlyDeleting
<1> QED
  <2>1. Quiet(p, rule[p], "failed", pos[p])
    BY <1>1 DEF Fail, Go, Quiet, NextRule, Places
  <2> QED
    BY <2>1

(* A step of main that leaves the rule and the command line alone.          *)
OnlyPlace(p, where) ==
  /\ pc' = [pc EXCEPT ![p] = where]
  /\ where \in Places \ {"parse", "init"}
  /\ UNCHANGED <<argv, pos, rule>>

LEMMA OnlyPlaceKeeps ==
  ASSUME IInv, NEW p \in Tools, NEW where, OnlyPlace(p, where),
         where \in {"change", "commit"} => rule[p].table \in TableNames
  PROVE  /\ ChainAwaited' /\ RuleComplete' /\ OnlyDeletions' = OnlyDeletions
         /\ OnlyDeletions => OnlyDeleting'
         /\ pc' \in [Tools -> Places] /\ pc'[p] = where
         /\ \A q \in Tools : q # p => pc'[q] = pc[q]
<1>1. pc' \in [Tools -> Places] /\ pc'[p] = where /\ \A q \in Tools : q # p => pc'[q] = pc[q]
  BY DEF IInv, TypeOK, OnlyPlace, Places
<1>2. ChainAwaited' /\ RuleComplete'
  BY <1>1, StartsWithTables DEF IInv, ChainAwaited, RuleComplete, OnlyPlace, Fresh
<1>3. OnlyDeletions' = OnlyDeletions /\ (OnlyDeletions => OnlyDeleting')
  BY DEF IInv, Deletions, OnlyDeletions, OnlyDeleting, OnlyPlace
<1> QED
  BY <1>1, <1>2, <1>3

LEMMA OpenKeeps ==
  ASSUME IInv, NEW p \in Tools, Open(p)
  PROVE  IInv'
<1> DEFINE t == tables[rule[p].table]
<1>1. rule[p].table \in TableNames /\ t \in Table /\ OnlyPlace(p, "change")
      /\ handle' = [handle EXCEPT ![p] = [was |-> t, now |-> t]] /\ tables' = tables /\ rule' = rule
  BY DEF IInv, TypeOK, Open, Go, OnlyPlace, Places
<1>2. /\ ChainAwaited' /\ RuleComplete' /\ OnlyDeletions' = OnlyDeletions
      /\ OnlyDeletions => OnlyDeleting'
      /\ pc' \in [Tools -> Places] /\ pc'[p] = "change"
      /\ \A q \in Tools : q # p => pc'[q] = pc[q]
  BY <1>1, OnlyPlaceKeeps
<1> HIDE DEF t
<1>3. /\ handle' \in [Tools -> {NoHandle} \cup [was : Table, now : Table]]
      /\ handle'[p] \in [was : Table, now : Table] /\ handle'[p].was = t /\ handle'[p].now = t
      /\ \A q \in Tools : q # p => handle'[q] = handle[q]
  BY <1>1 DEF IInv, TypeOK
<1>4. TypeOK'
  BY <1>1, <1>2, <1>3 DEF IInv, TypeOK, OnlyPlace, Places
<1>5. HandleTaken'
  BY <1>1, <1>2, <1>3 DEF IInv, HandleTaken
<1>6. ChangeIsRule'
  <2>1. \A q \in Tools : q # p => Carried(rule[q], handle[q].was)' = Carried(rule[q], handle[q].was)
    BY <1>1, <1>3
  <2> QED
    BY <1>1, <1>2, <1>3, <2>1 DEF IInv, ChangeIsRule
<1>7. Deletions'
  BY <1>1, <1>2, <1>3 DEF IInv, Deletions, NumberTells, t
<1> QED
  BY <1>2, <1>4, <1>5, <1>6, <1>7 DEF IInv

(* The four operations: what each makes of the tool's copy.                 *)
LEMMA ChangedKeeps ==
  ASSUME IInv, NEW p \in Tools, NEW t \in Table, pc[p] = "change", Changed(p, t),
         rule[p].operation # "NONE", t = Carried(rule[p], handle[p].was),
         rule[p].operation = "DELETE_RULE" => t.number = handle[p].was.number - 1
  PROVE  IInv'
<1>1. rule[p].table \in TableNames /\ OnlyPlace(p, "commit")
      /\ handle' = [handle EXCEPT ![p].now = t] /\ tables' = tables /\ rule' = rule
      /\ handle[p] \in [was : Table, now : Table]
  BY DEF IInv, HandleTaken, Changed, Go, OnlyPlace, Places
<1>2. /\ ChainAwaited' /\ RuleComplete' /\ OnlyDeletions' = OnlyDeletions
      /\ OnlyDeletions => OnlyDeleting'
      /\ pc' \in [Tools -> Places] /\ pc'[p] = "commit"
      /\ \A q \in Tools : q # p => pc'[q] = pc[q]
  BY <1>1, OnlyPlaceKeeps
<1>3. /\ handle' \in [Tools -> {NoHandle} \cup [was : Table, now : Table]]
      /\ handle'[p] \in [was : Table, now : Table]
      /\ handle'[p].was = handle[p].was /\ handle'[p].now = t
      /\ \A q \in Tools : q # p => handle'[q] = handle[q]
  BY <1>1 DEF IInv, TypeOK
<1>4. TypeOK'
  BY <1>1, <1>2, <1>3 DEF IInv, TypeOK, OnlyPlace, Places
<1>5. HandleTaken'
  BY <1>1, <1>2, <1>3 DEF IInv, HandleTaken
<1>6. ChangeIsRule'
  <2>1. \A q \in Tools : Carried(rule[q], handle[q].was)' = Carried(rule[q], handle[q].was)
    BY <1>1, <1>3
  <2> QED
    BY <1>1, <1>2, <1>3, <2>1 DEF IInv, ChangeIsRule
<1>7. Deletions'
  BY <1>1, <1>2, <1>3 DEF IInv, Deletions, NumberTells
<1> QED
  BY <1>2, <1>4, <1>5, <1>6, <1>7 DEF IInv

LEMMA CommitKeeps ==
  ASSUME IInv, NEW p \in Tools, Commit(p)
  PROVE  IInv' /\ (OnlyDeletions => Serial(p))
<1>1. /\ rule[p].table \in TableNames /\ OnlyPlace(p, "close") /\ handle' = handle /\ rule' = rule
      /\ handle[p] \in [was : Table, now : Table] /\ pc[p] = "commit"
      /\ tables' = [tables EXCEPT ![rule[p].table] = handle[p].now]
  BY DEF IInv, HandleTaken, Commit, Go, OnlyPlace, Places, Now
<1>2. /\ ChainAwaited' /\ RuleComplete' /\ OnlyDeletions' = OnlyDeletions
      /\ OnlyDeletions => OnlyDeleting'
      /\ pc' \in [Tools -> Places] /\ pc'[p] = "close"
      /\ \A q \in Tools : q # p => pc'[q] = pc[q]
  BY <1>1, OnlyPlaceKeeps
<1>3. TypeOK'
  BY <1>1, <1>2 DEF IInv, TypeOK, OnlyPlace, Places
<1>4. HandleTaken'
  BY <1>1, <1>2 DEF IInv, HandleTaken
<1>5. \A q \in Tools : Carried(rule[q], handle[q].was)' = Carried(rule[q], handle[q].was)
  BY <1>1 DEF Carried
<1>6. ChangeIsRule'
  BY <1>1, <1>2, <1>5 DEF IInv, ChangeIsRule
<1>7. ASSUME OnlyDeletions
      PROVE  /\ tables[rule[p].table] = handle[p].was
             /\ handle[p].now.number = tables[rule[p].table].number - 1
             /\ handle[p].now = Carried(rule[p], tables[rule[p].table])
  <2>1. /\ tables[rule[p].table].number \in Int /\ handle[p].was.number \in Int
        /\ tables[rule[p].table].number = handle[p].was.number
    BY <1>1 DEF IInv, TypeOK, Table, Commit, Current
  <2>2. tables[rule[p].table] = handle[p].was
    BY <1>1, <1>7, <2>1 DEF IInv, Deletions, NumberTells
  <2>3. rule[p].operation = "DELETE_RULE"
    BY <1>1, <1>7 DEF IInv, Deletions, OnlyDeleting, ChangeIsRule
  <2> QED
    BY <1>1, <2>2, <2>3 DEF IInv, ChangeIsRule
<1>8. OnlyDeletions => Serial(p)
  BY <1>1, <1>7 DEF IInv, TypeOK, Serial
<1>9. Deletions'
  <2> SUFFICES ASSUME OnlyDeletions
               PROVE  \A q \in Tools : pc'[q] \in {"change", "commit"} =>
                        \/ tables'[rule[q].table] = handle[q].was
                        \/ tables'[rule[q].table].number < handle[q].was.number
    <3>1. NumberTells' <=> \A q \in Tools : pc'[q] \in {"change", "commit"} =>
                             \/ tables'[rule[q].table] = handle[q].was
                             \/ tables'[rule[q].table].number < handle[q].was.number
      BY <1>1 DEF NumberTells
    <3> QED
      BY <1>2, <3>1 DEF Deletions
  <2> TAKE q \in Tools
  <2> HAVE pc'[q] \in {"change", "commit"}
  <2>1. q # p /\ pc[q] \in {"change", "commit"}
    BY <1>2
  <2>2. rule[q].table \in TableNames /\ handle[q] \in [was : Table, now : Table]
    BY <2>1 DEF IInv, HandleTaken
  <2>3. \/ tables[rule[q].table] = handle[q].was
        \/ tables[rule[q].table].number < handle[q].was.number
    BY <2>1 DEF IInv, Deletions, NumberTells
  <2>4. handle[q].was.number \in Int /\ tables[rule[q].table].number \in Int
    BY <2>2 DEF IInv, TypeOK, Table
  <2>5. CASE rule[q].table = rule[p].table
    BY <1>1, <1>7, <2>2, <2>3, <2>4, <2>5 DEF IInv, TypeOK
  <2>6. CASE rule[q].table # rule[p].table
    BY <1>1, <2>2, <2>3, <2>6 DEF IInv, TypeOK
  <2> QED
    BY <2>5, <2>6
<1> QED
  BY <1>2, <1>3, <1>4, <1>6, <1>8, <1>9 DEF IInv

LEMMA CloseKeeps ==
  ASSUME IInv, NEW p \in Tools, Close(p)
  PROVE  IInv'
<1>1. /\ pc' = [pc EXCEPT ![p] = "done"] /\ rule' = [rule EXCEPT ![p] = NoRule]
      /\ handle' = [handle EXCEPT ![p] = NoHandle]
      /\ argv' = argv /\ pos' = pos /\ tables' = tables
  BY DEF Close, Go
<1>2. NoRule \in RuleType /\ NoRule.operation = "NONE"
  BY DEF NoRule, RuleType, Opcodes
<1>3. /\ pc' \in [Tools -> Places] /\ rule' \in [Tools -> RuleType] /\ pc'[p] = "done"
      /\ handle' \in [Tools -> {NoHandle} \cup [was : Table, now : Table]]
      /\ rule'[p] = NoRule
      /\ \A q \in Tools : q # p => rule'[q] = rule[q] /\ pc'[q] = pc[q] /\ handle'[q] = handle[q]
  BY <1>1, <1>2 DEF IInv, TypeOK, Places
<1>4. TypeOK'
  <2>1. \A q \in Tools : rule'[q].operation # "NONE" => rule'[q].rule_num >= 0
    BY <1>2, <1>3 DEF IInv, TypeOK
  <2> QED
    BY <1>1, <1>3, <2>1 DEF IInv, TypeOK, Places
<1>5. ChainAwaited' /\ RuleComplete'
  BY <1>1, <1>2, <1>3 DEF IInv, ChainAwaited, RuleComplete, Fresh
<1>6. \A q \in Tools : pc'[q] \in {"change", "commit"} => q # p
  BY <1>3
<1>7. HandleTaken'
  BY <1>3, <1>6 DEF IInv, HandleTaken
<1>8. ChangeIsRule'
  <2>1. \A q \in Tools : q # p => Carried(rule[q], handle[q].was)' = Carried(rule[q], handle[q].was)
    BY <1>3
  <2> QED
    BY <1>3, <1>6, <2>1 DEF IInv, ChangeIsRule
<1>9. Deletions'
  BY <1>1, <1>2, <1>3, <1>6 DEF IInv, Deletions, OnlyDeletions, OnlyDeleting, NumberTells
<1> QED
  BY <1>4, <1>5, <1>7, <1>8, <1>9 DEF IInv

(* Rules replaced and entries counted, a table is still a table.            *)
LEMMA ChangedTable ==
  ASSUME NEW t \in Table, NEW c \in Tokens, NEW w \in Seq(Rules)
  PROVE  /\ [t EXCEPT !.rules[c] = w, !.number = @ - 1] \in Table
         /\ [t EXCEPT !.rules[c] = w, !.number = @ - 1].number = t.number - 1
         /\ [t EXCEPT !.rules[c] = w, !.number = @ + 2] \in Table
<1> DEFINE v == [t EXCEPT !.rules[c] = w]
<1>1. v \in Table /\ v.number = t.number
  BY DEF Table
<1>2. [t EXCEPT !.rules[c] = w, !.number = @ - 1] = [v EXCEPT !.number = @ - 1]
  BY DEF Table
<1>3. [t EXCEPT !.rules[c] = w, !.number = @ + 2] = [v EXCEPT !.number = @ + 2]
  BY DEF Table
<1> HIDE DEF v
<1> QED
  BY <1>1, <1>2, <1>3 DEF Table

(* Each operation changes the copy to what the rule says.                   *)
LEMMA OperationKeeps ==
  ASSUME IInv, NEW p \in Tools, DeleteRule(p) \/ CreateChain(p) \/ PolicyAccept(p) \/ PolicyDrop(p)
  PROVE  IInv' /\ tables' = tables /\ pc'[p] # "close"
               /\ (rule' = rule \/ \E r, where, n : Quiet(p, r, where, n))
<1> DEFINE r == rule[p]
           t == handle[p].now
<1>1. /\ t \in Table /\ t = handle[p].was /\ r \in RuleType /\ pc[p] = "change"
      /\ r.operation # "NONE" => r.chain \in Tokens /\ r.rule_num \in Nat
      /\ r.operation # "NONE"
  <2>1. pc[p] = "change" /\ r.operation # "NONE"
    BY DEF DeleteRule, CreateChain, PolicyAccept, PolicyDrop, SetPolicy, Doing
  <2>2. t \in Table /\ t = handle[p].was
    BY <2>1 DEF IInv, HandleTaken, ChangeIsRule
  <2>3. r \in RuleType /\ r.chain \in Tokens /\ r.rule_num \in Nat
    BY <2>1 DEF IInv, TypeOK, RuleComplete, RuleType
  <2> QED
    BY <2>1, <2>2, <2>3
<1>2. t = [rules |-> t.rules, policy |-> t.policy, number |-> t.number]
      /\ t.rules \in [Tokens -> {Null} \cup Seq(Rules)] /\ t.policy \in [Builtin -> Policies]
      /\ t.number \in Int
  BY <1>1 DEF Table
<1>3. ASSUME Fail(p)
      PROVE  IInv' /\ tables' = tables /\ pc'[p] # "close" /\ \E ru, where, n : Quiet(p, ru, where, n)
  <2>1. IInv'
    BY <1>3, FailIsQuiet, QuietKeeps
  <2>2. tables' = tables /\ pc'[p] # "close"
    BY <1>3 DEF Fail, Go, IInv, TypeOK
  <2> QED
    BY <1>3, <2>1, <2>2, FailIsQuiet
<1>4. ASSUME NEW u \in Table, Changed(p, u), u = Carried(r, t),
             r.operation = "DELETE_RULE" => u.number = t.number - 1
      PROVE  IInv' /\ tables' = tables /\ pc'[p] # "close" /\ rule' = rule
  <2>1. IInv'
    BY <1>1, <1>4, ChangedKeeps
  <2>2. tables' = tables /\ rule' = rule /\ pc'[p] # "close"
    BY <1>4 DEF Changed, Go, IInv, TypeOK
  <2> QED
    BY <2>1, <2>2
<1>5. CASE DeleteRule(p)
  <2>1. r.operation = "DELETE_RULE"
    BY <1>5 DEF DeleteRule, Doing
  <2>2. CASE IsChain(p) /\ r.rule_num < Len(t.rules[r.chain])
    <3> DEFINE w == Without(t.rules[r.chain], r.rule_num)
               u == [t EXCEPT !.rules[r.chain] = w, !.number = @ - 1]
    <3>1. t.rules[r.chain] \in Seq(Rules)
      BY <1>1, <1>2, <2>2 DEF IsChain, Now
    <3>2. w \in Seq(Rules)
          /\ w = [k \in 1..(Len(t.rules[r.chain]) - 1) |->
                    t.rules[r.chain][IF k <= r.rule_num THEN k ELSE k + 1]]
      BY <1>1, <2>2, <3>1, WithoutElement
    <3>3. Changed(p, u)
      BY <1>5, <2>2 DEF DeleteRule, Now
    <3>4. u = Carried(r, t)
      <4> DEFINE e == [k \in 1..(Len(t.rules[r.chain]) - 1) |->
                         t.rules[r.chain][IF k <= r.rule_num THEN k ELSE k + 1]]
      <4>1. Carried(r, t) = [t EXCEPT !.rules[r.chain] = e, !.number = @ - 1]
        BY <2>1 DEF Carried
      <4>2. w = e
        BY <3>2
      <4> HIDE DEF w, e
      <4> QED
        BY ONLY <4>1, <4>2
    <3> HIDE DEF w
    <3>5. u \in Table /\ u.number = t.number - 1
      BY <1>1, <3>2, ChangedTable
    <3> QED
      BY <1>4, <3>3, <3>4, <3>5
  <2> QED
    BY <1>3, <1>5, <2>2 DEF DeleteRule, Now
<1>6. CASE CreateChain(p)
  <2>1. r.operation = "NEW_CHAIN"
    BY <1>6 DEF CreateChain, Doing
  <2>2. CASE ~IsChain(p) /\ r.chain \notin Targets
    <3> DEFINE u == [t EXCEPT !.rules[r.chain] = <<>>, !.number = @ + 2]
    <3>1. t.rules[r.chain] = Null
      BY <2>2 DEF IsChain, Now
    <3>2. Changed(p, u)
      BY <1>6, <2>2 DEF CreateChain, Now
    <3>3. u = Carried(r, t)
      <4> DEFINE e == IF t.rules[r.chain] = Null THEN <<>> ELSE t.rules[r.chain]
      <4>1. Carried(r, t) = [t EXCEPT !.rules[r.chain] = e, !.number = @ + 2]
        BY <2>1 DEF Carried
      <4>2. e = <<>>
        BY <3>1
      <4> HIDE DEF e
      <4> QED
        BY ONLY <4>1, <4>2
    <3>4. u \in Table
      <4>1. <<>> \in Seq(Rules)
        OBVIOUS
      <4> QED
        BY <1>1, <4>1, ChangedTable
    <3> QED
      BY <1>4, <2>1, <3>2, <3>3, <3>4
  <2> QED
    BY <1>3, <1>6, <2>2 DEF CreateChain
<1>7. ASSUME NEW o \in {"POLICY_ACCEPT", "POLICY_DROP"}, NEW y \in Policies, SetPolicy(p, o, y),
             y = IF o = "POLICY_ACCEPT" THEN "ACCEPT" ELSE "DROP"
      PROVE  IInv' /\ tables' = tables /\ pc'[p] # "close"
                   /\ (rule' = rule \/ \E ru, where, n : Quiet(p, ru, where, n))
  <2>1. r.operation = o
    BY <1>7 DEF SetPolicy, Doing
  <2>2. CASE IsChain(p) /\ r.chain \in Builtin
    <3> DEFINE u == [t EXCEPT !.policy[r.chain] = y]
    <3>1. Changed(p, u)
      BY <1>7, <2>2 DEF SetPolicy, Now
    <3>2. u = Carried(r, t)
      BY <1>1, <1>7, <2>1 DEF Carried, Table
    <3>3. u \in Table
      BY <1>1, <1>2, <1>7 DEF Table
    <3> QED
      BY <1>4, <1>7, <2>1, <3>1, <3>2, <3>3
  <2> QED
    BY <1>3, <1>7, <2>2 DEF SetPolicy
<1> QED
  BY <1>5, <1>6, <1>7 DEF PolicyAccept, PolicyDrop, Policies

-----------------------------------------------------------------------------
(* Every step keeps the invariant, and a stutter does.                      *)
LEMMA NextKeeps ==
  ASSUME IInv, [Next]_vars
  PROVE  IInv'
<1>1. CASE UNCHANGED vars
  <2>1. argv' = argv /\ pos' = pos /\ rule' = rule /\ pc' = pc /\ handle' = handle /\ tables' = tables
    BY <1>1 DEF vars
  <2>2. TypeOK' /\ ChainAwaited' /\ RuleComplete' /\ HandleTaken'
    BY <2>1 DEF IInv, TypeOK, ChainAwaited, RuleComplete, HandleTaken, Fresh
  <2>3. ChangeIsRule'
    <3>1. \A q \in Tools : Carried(rule[q], handle[q].was)' = Carried(rule[q], handle[q].was)
      BY <2>1
    <3> QED
      BY <2>1, <3>1 DEF IInv, ChangeIsRule
  <2>4. Deletions'
    BY <2>1 DEF IInv, Deletions, OnlyDeletions, OnlyDeleting, NumberTells
  <2> QED
    BY <2>2, <2>3, <2>4 DEF IInv
<1>2. ASSUME NEW p \in Tools, Parse(p) PROVE IInv'
  BY <1>2, ParseIsQuiet, QuietKeeps
<1>3. ASSUME NEW p \in Tools, Main(p) PROVE IInv'
  <2>1. CASE Open(p)
    BY <2>1, OpenKeeps
  <2>2. CASE OpenFails(p) \/ CommitFails(p)
    BY <2>2, FailIsQuiet, QuietKeeps DEF OpenFails, CommitFails
  <2>3. CASE DeleteRule(p) \/ CreateChain(p) \/ PolicyAccept(p) \/ PolicyDrop(p)
    BY <2>3, OperationKeeps
  <2>4. CASE Commit(p)
    BY <2>4, CommitKeeps
  <2>5. CASE Close(p)
    BY <2>5, CloseKeeps
  <2> QED
    BY <1>3, <2>1, <2>2, <2>3, <2>4, <2>5 DEF Main
<1> QED
  BY <1>1, <1>2, <1>3 DEF Next

LEMMA Invariance == Spec => []IInv
<1>1. IInv /\ [Next]_vars => IInv'
  BY NextKeeps
<1> QED
  BY InitIInv, <1>1, PTL DEF Spec

(* Whatever is on the command lines, however many tools run: what each has  *)
(* in hand is a rule and a table, and no rule number is negative.           *)
THEOREM TypeCorrect == Spec => []TypeOK
<1>1. IInv => TypeOK
  BY DEF IInv
<1> QED
  BY Invariance, <1>1, PTL

(* No chain or table name is overwritten by a later option: the strings     *)
(* parse() allocates (strdup, lines 124 to 230) are all freed with the rule.*)
THEOREM NoLeak == Spec => NoneOverwritten
<1> DEFINE Kept == \A p \in Tools : rule'[p] = NoRule
                     \/ /\ rule[p].chain \in {Null, rule'[p].chain}
                        /\ rule[p].table \in {Null, rule'[p].table}
<1>1. ASSUME rule' = rule PROVE Kept
  BY <1>1
<1>2. ASSUME IInv, NEW p \in Tools, NEW r, NEW where, NEW n, Quiet(p, r, where, n) PROVE Kept
  BY <1>2 DEF IInv, TypeOK, Quiet, NextRule
<1>3. ASSUME IInv, NEW p \in Tools, Close(p) PROVE Kept
  BY <1>3 DEF IInv, TypeOK, Close
<1> HIDE DEF Kept
<1>4. ASSUME IInv, NEW p \in Tools, Parse(p) PROVE Kept
  BY <1>2, <1>4, ParseIsQuiet
<1>5. ASSUME IInv, NEW p \in Tools, Main(p) PROVE Kept
  <2>1. CASE Open(p) \/ Commit(p)
    BY <1>1, <2>1 DEF Open, Commit
  <2>2. CASE OpenFails(p) \/ CommitFails(p)
    BY <1>1, <2>2 DEF OpenFails, CommitFails, Fail
  <2>3. CASE DeleteRule(p) \/ CreateChain(p) \/ PolicyAccept(p) \/ PolicyDrop(p)
    BY <1>1, <1>2, <1>5, <2>3, OperationKeeps
  <2>4. CASE Close(p)
    BY <1>3, <1>5, <2>4
  <2> QED
    BY <1>5, <2>1, <2>2, <2>3, <2>4 DEF Main
<1>6. IInv /\ [Next]_vars => [Kept]_vars
  BY <1>4, <1>5 DEF Next
<1> USE DEF Kept
<1> QED
  BY Invariance, <1>6, PTL DEF Spec, NoneOverwritten

(* Nothing but Commit commits, or touches a table.                          *)
LEMMA OtherSteps ==
  ASSUME IInv, NEW q \in Tools, Parse(q) \/ Main(q)
  PROVE  Commit(q) \/ (tables' = tables /\ \E where : where # "close" /\ pc' = [pc EXCEPT ![q] = where])
<1>1. CASE Parse(q)
  BY <1>1, ParseIsQuiet DEF Quiet, NextRule
<1>2. ASSUME Fail(q) PROVE tables' = tables /\ pc' = [pc EXCEPT ![q] = "failed"]
  BY <1>2 DEF Fail, Go
<1>3. CASE Open(q)
  BY <1>3 DEF Open, Go
<1>4. CASE DeleteRule(q) \/ CreateChain(q) \/ PolicyAccept(q) \/ PolicyDrop(q)
  <2>1. Fail(q) \/ \E t : Changed(q, t)
    BY <1>4 DEF DeleteRule, CreateChain, PolicyAccept, PolicyDrop, SetPolicy
  <2> QED
    BY <1>2, <2>1 DEF Changed, Go
<1>5. CASE Close(q)
  BY <1>5 DEF Close, Go
<1> QED
  BY <1>1, <1>2, <1>3, <1>4, <1>5 DEF Main, OpenFails, CommitFails

LEMMA CommitsCommit ==
  ASSUME IInv, NEW p \in Tools, Commits(p), [Next]_vars
  PROVE  Commit(p)
<1>1. pc[p] = "commit" /\ pc'[p] = "close" /\ pc \in [Tools -> Places]
  BY DEF Commits, IInv, TypeOK, Places
<1>2. PICK q \in Tools : Parse(q) \/ Main(q)
  BY <1>1 DEF Next, vars
<1>3. ASSUME NEW where, where # "close", pc' = [pc EXCEPT ![q] = where] PROVE FALSE
  BY <1>1, <1>3
<1>4. Commit(q)
  BY <1>2, <1>3, OtherSteps
<1>5. q = p
  BY <1>1, <1>4 DEF Commit, Go
<1> QED
  BY <1>4, <1>5

(* Tools that only delete rules, any number at any speed, never undo each   *)
(* other: what is committed is the deletion, done to the table as it is.    *)
THEOREM DeletionsAreSerial == Spec => DeletionsSerialize
<1> DEFINE S == OnlyDeletions => \A p \in Tools : Commits(p) => Serial(p)
<1>1. ASSUME IInv, NEW p \in Tools, Commits(p), [Next]_vars, OnlyDeletions PROVE Serial(p)
  BY <1>1, CommitsCommit, CommitKeeps
<1>2. IInv /\ [Next]_vars => [S]_vars
  BY <1>1
<1> QED
  BY Invariance, <1>2, PTL DEF Spec, DeletionsSerialize

-----------------------------------------------------------------------------
(* A command line, place by place: the table asked for at place k, an       *)
(* operation of l arguments there, and the rule it means.                   *)
TableAt(a, k) == a[k] = "-t" /\ a[k + 1] \notin Dashed
OperationAt(p, a, k, l) ==
  /\ a[k + 1] \notin Dashed
  /\ \/ a[k] = "-N" /\ l = 2
     \/ a[k] = "-D" /\ l = 3 /\ a[k + 2] \notin Dashed /\ Atoi[a[k + 2]] > 0
     \/ a[k] = "-P" /\ l = 3 /\ a[k + 2] \in Policies /\ p \in ModTools
RuleAt(a, k) ==
  [operation |-> IF a[k] = "-N" THEN "NEW_CHAIN"
                 ELSE IF a[k] = "-D" THEN "DELETE_RULE"
                 ELSE IF a[k + 2] = "ACCEPT" THEN "POLICY_ACCEPT" ELSE "POLICY_DROP",
   chain |-> a[k + 1], table |-> Null,
   rule_num |-> IF a[k] = "-D" THEN Atoi[a[k + 2]] - 1 ELSE 0]
OnTable(r, t) == [r EXCEPT !.table = t]

(* The whole line: one of each, in either order.                            *)
TableFirst(p, a, l) == TableAt(a, 1) /\ OperationAt(p, a, 3, l)
TableLast(p, a, l) == OperationAt(p, a, 1, l) /\ TableAt(a, l + 1)
Acceptable(p, a) == \E l \in {2, 3} : Len(a) = l + 2 /\ (TableFirst(p, a, l) \/ TableLast(p, a, l))

LEMMA FilledIn ==
  ASSUME NEW x, NEW y, NEW z
  PROVE  [NoRule EXCEPT !.chain = x, !.operation = y, !.rule_num = z] =
           [operation |-> y, chain |-> x, table |-> Null, rule_num |-> z]
<1> DEFINE S == [operation : {"NONE", y}, chain : {Null, x}, table : {Null}, rule_num : {0, z}]
           f == [NoRule EXCEPT !.chain = x, !.operation = y, !.rule_num = z]
<1>1. NoRule \in S
  BY DEF NoRule
<1>2. f \in S /\ f.chain = x /\ f.operation = y /\ f.rule_num = z /\ f.table = Null
  BY <1>1
<1> HIDE DEF f
<1>3. f = [operation |-> f.operation, chain |-> f.chain, table |-> f.table, rule_num |-> f.rule_num]
  BY <1>2
<1> QED
  BY <1>2, <1>3 DEF f

(* The part s of the line, read as an operation.                            *)
ReadAs(p, s) == Operation(s, p \in ModTools)

Copies(p, s, k, l) == Len(s) = l /\ \A i \in 1..l : s[i] = argv[p][k + i - 1]
Means(p, s, k, l) ==
  /\ ReadAs(p, s).operation # "NONE" <=> l \in {2, 3} /\ OperationAt(p, argv[p], k, l)
  /\ OperationAt(p, argv[p], k, l) /\ l \in {2, 3} => ReadAs(p, s) = RuleAt(argv[p], k)

LEMMA OperationOfPart ==
  ASSUME NEW p \in Tools, argv[p] \in Seq(Tokens), NEW k \in Nat, k >= 1, NEW l \in Nat,
         k + l - 1 <= Len(argv[p]), NEW s, s = SubSeq(argv[p], k, k + l - 1)
  PROVE  Copies(p, s, k, l) /\ Means(p, s, k, l)
<1> USE DEF Copies, Means
<1> DEFINE a == argv[p]
           m == p \in ModTools
<1>1. Len(a) \in Nat /\ \A i \in 1..Len(a) : a[i] \in Tokens
  BY LenProperties
<1>2. \A i \in k..(k + l - 1) : a[i] \in Tokens
  BY <1>1
<1>3. Len(s) = l /\ \A i \in 1..l : s[i] = a[k + i - 1]
  <2>1. /\ Len(s) = IF k <= k + l - 1 THEN k + l - 1 - k + 1 ELSE 0
        /\ \A i \in 1..(k + l - 1 - k + 1) : s[i] = a[k + i - 1]
    BY <1>2, SubSeqProperties
  <2>2. k + l - 1 - k + 1 = l /\ (k <= k + l - 1 <=> l # 0)
    OBVIOUS
  <2> QED
    BY <2>1, <2>2
<1>4. CASE l \notin {2, 3}
  <2>1. Operation(s, m) = NoRule
    BY <1>3, <1>4 DEF Operation
  <2> QED
    BY <1>3, <1>4, <2>1 DEF NoRule, ReadAs
<1>5. CASE l \in {2, 3}
  <2>1. /\ s[1] = a[k] /\ s[2] = a[k + 1] /\ (l = 3 => s[3] = a[k + 2])
    <3>1. 1 \in 1..l /\ 2 \in 1..l /\ (l = 3 => 3 \in 1..l) /\ k + 1 - 1 = k /\ k + 2 - 1 = k + 1 /\ k + 3 - 1 = k + 2
      BY <1>5
    <3> QED
      BY <1>3, <3>1
  <2> HIDE DEF a, m
  <2>2. (\E i \in 2..Len(s) : s[i] \in Dashed) <=> s[2] \in Dashed \/ (l = 3 /\ s[3] \in Dashed)
    <3>1. \A i : i \in 2..Len(s) <=> i = 2 \/ (l = 3 /\ i = 3)
      BY <1>3, <1>5
    <3> QED
      BY <3>1
  <2> DEFINE o == CASE s[1] = "-N" /\ Len(s) = 2 -> "NEW_CHAIN"
                    [] s[1] = "-D" /\ Len(s) = 3 /\ Atoi[s[3]] > 0 -> "DELETE_RULE"
                    [] s[1] = "-P" /\ Len(s) = 3 /\ s[3] = "ACCEPT" /\ m -> "POLICY_ACCEPT"
                    [] s[1] = "-P" /\ Len(s) = 3 /\ s[3] = "DROP" /\ m -> "POLICY_DROP"
                    [] OTHER -> "NONE"
             n == IF s[1] = "-D" /\ Len(s) = 3 THEN Atoi[s[3]] - 1 ELSE 0
  <2>3. Operation(s, m) = IF s[2] \in Dashed \/ (l = 3 /\ s[3] \in Dashed) THEN NoRule
                          ELSE [operation |-> o, chain |-> s[2], table |-> Null, rule_num |-> n]
    <3>1. Operation(s, m) = IF Len(s) \notin {2, 3} \/ \E i \in 2..Len(s) : s[i] \in Dashed THEN NoRule
                            ELSE [NoRule EXCEPT !.chain = s[2], !.operation = o, !.rule_num = n]
      BY DEF Operation
    <3> HIDE DEF o, n
    <3>2. [NoRule EXCEPT !.chain = s[2], !.operation = o, !.rule_num = n] =
            [operation |-> o, chain |-> s[2], table |-> Null, rule_num |-> n]
      BY FilledIn
    <3> QED
      BY <1>3, <1>5, <2>2, <3>1, <3>2
  <2>4. "ACCEPT" \notin Dashed /\ "DROP" \notin Dashed
    BY ToolConstants
  <2>5. OperationAt(p, argv[p], k, l) <=> ~(s[2] \in Dashed \/ (l = 3 /\ s[3] \in Dashed)) /\ o # "NONE"
    BY <1>3, <1>5, <2>1, <2>4 DEF OperationAt, Policies, a, m
  <2>6. o # "NONE" => /\ o = RuleAt(argv[p], k).operation
                      /\ n = RuleAt(argv[p], k).rule_num
    BY <1>3, <1>5, <2>1 DEF RuleAt, a
  <2>7. RuleAt(argv[p], k) = [operation |-> RuleAt(argv[p], k).operation, chain |-> s[2], table |-> Null,
                        rule_num |-> RuleAt(argv[p], k).rule_num]
    BY <2>1 DEF RuleAt, a
  <2> HIDE DEF o, n
  <2>8. Operation(s, m).operation # "NONE" <=> OperationAt(p, argv[p], k, l)
    <3> DEFINE e == s[2] \in Dashed \/ (l = 3 /\ s[3] \in Dashed)
               y == [operation |-> o, chain |-> s[2], table |-> Null, rule_num |-> n]
    <3>1. NoRule.operation = "NONE" /\ y.operation = o
      BY DEF NoRule
    <3>2. Operation(s, m) = IF e THEN NoRule ELSE y
      BY <2>3
    <3>3. OperationAt(p, argv[p], k, l) <=> ~e /\ o # "NONE"
      BY <2>5
    <3> HIDE DEF e, y
    <3>4. CASE e
      BY <3>1, <3>2, <3>3, <3>4
    <3>5. CASE ~e
      BY <3>1, <3>2, <3>3, <3>5
    <3> QED
      BY <3>4, <3>5
  <2>9. OperationAt(p, argv[p], k, l) => Operation(s, m) = RuleAt(argv[p], k)
    BY <2>3, <2>5, <2>6, <2>7
  <2> QED
    BY <1>3, <1>5, <2>8, <2>9 DEF a, m, ReadAs
<1> QED
  BY <1>4, <1>5

(* What Asked makes of the halves of the line.                              *)
LEMMA AskedIs ==
  ASSUME NEW p \in Tools, argv[p] \in Seq(Tokens), NEW r
  PROVE  r \in Asked(p) <=>
           \E l \in {2, 3} :
             /\ Len(argv[p]) = l + 2
             /\ \/ TableFirst(p, argv[p], l) /\ r = OnTable(RuleAt(argv[p], 3), argv[p][2])
                \/ TableLast(p, argv[p], l) /\ r = OnTable(RuleAt(argv[p], 1), argv[p][l + 2])
<1> DEFINE a == argv[p]
           n == Len(a)
           front == SubSeq(a, 1, n - 2)
           back == SubSeq(a, n - 1, n)
           first == SubSeq(a, 1, 2)
           rest == SubSeq(a, 3, n)
           of(t, o) == IF n > 2 /\ IsTable(t) /\ ReadAs(p, o).operation # "NONE"
                       THEN {[ReadAs(p, o) EXCEPT !.table = t[2]]} ELSE {}
<1>1. Asked(p) = of(back, front) \cup of(first, rest)
  BY DEF Asked, ReadAs
<1>2. n \in Nat
  BY LenProperties
<1>3. CASE n <= 2
  <2>1. ~(n > 2) /\ \A k \in {2, 3} : n # k + 2
    <3> HIDE DEF n
    <3>1. ~(n > 2) /\ n # 2 + 2 /\ n # 3 + 2
      BY <1>2, <1>3
    <3> QED
      BY <3>1
  <2>2. Asked(p) = {}
    BY <1>1, <2>1
  <2> QED
    BY <2>1, <2>2
<1>4. CASE n > 2
  <2> DEFINE l == n - 2
  <2>1. l \in Nat /\ l >= 1 /\ 1 + l - 1 = n - 2 /\ 3 + l - 1 = n /\ l + 2 = n /\ l + 1 = n - 1
        /\ 1 + l - 1 <= n /\ 3 + l - 1 <= n
    BY <1>2, <1>4
  <2>2. Means(p, front, 1, l)
    <3>1. front = SubSeq(argv[p], 1, 1 + l - 1)
      BY <2>1
    <3>2. 1 \in Nat /\ 1 >= 1 /\ l \in Nat /\ 1 + l - 1 <= Len(argv[p])
      BY <2>1
    <3> HIDE DEF l, front
    <3> QED
      BY <3>1, <3>2, OperationOfPart
  <2>3. Means(p, rest, 3, l)
    <3>1. rest = SubSeq(argv[p], 3, 3 + l - 1)
      BY <2>1
    <3>2. 3 \in Nat /\ 3 >= 1 /\ l \in Nat /\ 3 + l - 1 <= Len(argv[p])
      BY <2>1
    <3> HIDE DEF l, rest
    <3> QED
      BY <3>1, <3>2, OperationOfPart
  <2>4. /\ Len(first) = 2 /\ first[1] = a[1] /\ first[2] = a[2]
    <3>1. first = SubSeq(argv[p], 1, 1 + 2 - 1)
      OBVIOUS
    <3>2. 1 \in Nat /\ 1 >= 1 /\ 2 \in Nat /\ 1 + 2 - 1 <= Len(argv[p])
      BY <1>2, <1>4
    <3> HIDE DEF first
    <3>3. Copies(p, first, 1, 2)
      BY <3>1, <3>2, OperationOfPart
    <3> QED
      BY <3>3 DEF Copies
  <2>5. /\ Len(back) = 2 /\ back[1] = a[l + 1] /\ back[2] = a[l + 2]
    <3>1. back = SubSeq(argv[p], n - 1, n - 1 + 2 - 1)
      BY <1>2
    <3>2. /\ n - 1 \in Nat /\ n - 1 >= 1 /\ 2 \in Nat /\ n - 1 + 2 - 1 <= Len(argv[p])
          /\ n - 1 + 1 - 1 = l + 1 /\ n - 1 + 2 - 1 = l + 2
      BY <1>2, <1>4
    <3> DEFINE m == n - 1
    <3> HIDE DEF back, l, m
    <3>3. Copies(p, back, m, 2)
      BY <3>1, <3>2, OperationOfPart DEF m
    <3> QED
      BY <3>2, <3>3 DEF Copies, m
  <2> HIDE DEF front, back, first, rest, l
  <2>6. r \in of(back, front) <=> l \in {2, 3} /\ TableLast(p, argv[p], l) /\ r = OnTable(RuleAt(argv[p], 1), a[l + 2])
    BY <1>4, <2>2, <2>5 DEF Means, IsTable, TableLast, TableAt, OnTable
  <2>7. r \in of(first, rest) <=> l \in {2, 3} /\ TableFirst(p, argv[p], l) /\ r = OnTable(RuleAt(argv[p], 3), a[2])
    BY <1>4, <2>3, <2>4 DEF Means, IsTable, TableFirst, TableAt, OnTable
  <2>8. \A k \in {2, 3} : n = k + 2 <=> k = l
    BY <1>2, <2>1 DEF l
  <2> QED
    BY <1>1, <2>6, <2>7, <2>8
<1> QED
  BY <1>2, <1>3, <1>4

(* Where an operation begins and where a table does, and how long it is,    *)
(* the line itself tells.                                                   *)
LEMMA OneReading ==
  ASSUME NEW p, NEW a, NEW k, NEW l, NEW j
  PROVE  /\ ~(TableAt(a, k) /\ OperationAt(p, a, k, l))
         /\ OperationAt(p, a, k, l) /\ OperationAt(p, a, k, j) => l = j
BY DEF TableAt, OperationAt

(* The rule r was read from the option at k; or nothing was read into it.   *)
ReadAt(r, a, k) ==
  /\ r.operation = RuleAt(a, k).operation
  /\ r.chain = RuleAt(a, k).chain
  /\ r.rule_num = RuleAt(a, k).rule_num
Empty(r) == r.operation = "NONE" /\ r.chain = Null /\ r.rule_num = 0

(* The line up to its place l + 2 is acceptable, and r is what it means.    *)
Wanted(p, a, r, l) ==
  \/ TableFirst(p, a, l) /\ ReadAt(r, a, 3) /\ r.table = a[2]
  \/ TableLast(p, a, l) /\ ReadAt(r, a, 1) /\ r.table = a[l + 2]

(* What parse() has in hand when it looks at place n: nothing, the table,   *)
(* the operation, or both.                                                  *)
ReadSoFar(p, a, n, r) ==
  \/ n = 1 /\ Empty(r) /\ r.table = Null
  \/ n = 3 /\ 2 <= Len(a) /\ TableAt(a, 1) /\ Empty(r) /\ r.table = a[2]
  \/ \E l \in {2, 3} :
       n = l + 1 /\ l <= Len(a) /\ OperationAt(p, a, 1, l) /\ ReadAt(r, a, 1) /\ r.table = Null
  \/ \E l \in {2, 3} : n = l + 3 /\ l + 2 <= Len(a) /\ Wanted(p, a, r, l)

Meant(p, a, r) == \E l \in {2, 3} : Len(a) = l + 2 /\ Wanted(p, a, r, l)
LineRead(p, a, n, r, where) ==
  /\ where = "parse" => ReadSoFar(p, a, n, r)
  /\ where \in {"init", "change", "commit", "close"} => Meant(p, a, r)
  /\ where \in {"error", "refused", "helped"} => ~Acceptable(p, a)
LinesRead == \A p \in Tools : LineRead(p, argv[p], pos[p], rule[p], pc[p])

(* What parse() must find at place n if the line is acceptable.             *)
NextIsRight(p, a, n, r) ==
  \/ n + 1 <= Len(a) /\ TableAt(a, n) /\ r.table = Null
  \/ \E l \in {2, 3} : n + l - 1 <= Len(a) /\ OperationAt(p, a, n, l) /\ r.operation = "NONE"
  \/ n > Len(a) /\ r.operation # "NONE" /\ r.table # Null

(* A rule read from an option has an operation, and its table is a token.   *)
LEMMA SomethingRead ==
  ASSUME NEW p, NEW a \in Seq(Tokens), NEW r
  PROVE  /\ \A k : ReadAt(r, a, k) => r.operation # "NONE"
         /\ \A l \in {2, 3} : l + 2 <= Len(a) /\ Wanted(p, a, r, l) =>
              r.operation # "NONE" /\ r.table # Null
<1>1. \A k : ReadAt(r, a, k) => r.operation # "NONE"
  BY DEF ReadAt, RuleAt
<1>2. ASSUME NEW l \in {2, 3}, l + 2 <= Len(a) PROVE a[2] # Null /\ a[l + 2] # Null
  <2>1. Len(a) \in Nat /\ \A i \in 1..Len(a) : a[i] \in Tokens
    BY LenProperties
  <2>2. 2 \in 1..Len(a) /\ l + 2 \in 1..Len(a)
    BY <1>2, <2>1
  <2> QED
    BY <2>1, <2>2, ToolConstants
<1> QED
  BY <1>1, <1>2 DEF Wanted

LEMMA Expected ==
  ASSUME NEW p \in Tools, NEW a \in Seq(Tokens), NEW n \in Nat, NEW r,
         ReadSoFar(p, a, n, r), Acceptable(p, a)
  PROVE  NextIsRight(p, a, n, r)
<1>1. Len(a) \in Nat
  BY LenProperties
<1>2. PICK j \in {2, 3} : Len(a) = j + 2 /\ (TableFirst(p, a, j) \/ TableLast(p, a, j))
  BY DEF Acceptable
<1>3. CASE n = 1 /\ Empty(r) /\ r.table = Null
  <2>1. n + 1 <= Len(a) /\ n + j - 1 <= Len(a)
    BY <1>2, <1>3
  <2> QED
    BY <1>2, <1>3, <2>1 DEF TableFirst, TableLast, NextIsRight, Empty
<1>4. CASE n = 3 /\ 2 <= Len(a) /\ TableAt(a, 1) /\ Empty(r) /\ r.table = a[2]
  <2>1. OperationAt(p, a, 3, j)
    BY <1>2, <1>4, OneReading DEF TableFirst, TableLast
  <2>2. n + j - 1 <= Len(a)
    BY <1>2, <1>4
  <2> QED
    BY <1>4, <2>1, <2>2 DEF NextIsRight, Empty
<1>5. ASSUME NEW l \in {2, 3}, n = l + 1, l <= Len(a), OperationAt(p, a, 1, l), ReadAt(r, a, 1), r.table = Null
      PROVE  NextIsRight(p, a, n, r)
  <2>1. TableAt(a, l + 1) /\ j = l
    BY <1>2, <1>5, OneReading DEF TableFirst, TableLast
  <2>2. n + 1 <= Len(a)
    BY <1>2, <1>5, <2>1
  <2> QED
    BY <1>5, <2>1, <2>2 DEF NextIsRight
<1>6. ASSUME NEW l \in {2, 3}, n = l + 3, l + 2 <= Len(a), Wanted(p, a, r, l)
      PROVE  NextIsRight(p, a, n, r)
  <2>1. j = l
    BY <1>2, <1>6, OneReading DEF Wanted, TableFirst, TableLast
  <2>2. n > Len(a)
    BY <1>1, <1>2, <1>6, <2>1
  <2> QED
    BY <1>6, <2>2, SomethingRead DEF NextIsRight
<1> QED
  BY <1>3, <1>4, <1>5, <1>6 DEF ReadSoFar

(* An operation, or a table, that comes where none was.                     *)
LEMMA OperationRead ==
  ASSUME NEW p \in Tools, NEW a \in Seq(Tokens), NEW n \in Nat, NEW r, ReadSoFar(p, a, n, r),
         r.operation = "NONE", NEW l \in {2, 3}, n + l - 1 <= Len(a), OperationAt(p, a, n, l),
         NEW s, ReadAt(s, a, n), s.table = r.table
  PROVE  ReadSoFar(p, a, n + l, s)
<1>1. Len(a) \in Nat
  BY LenProperties
<1>2. CASE n = 1 /\ r.table = Null
  <2>1. n + l = l + 1 /\ l <= Len(a)
    BY <1>1, <1>2
  <2> QED
    BY <1>2, <2>1 DEF ReadSoFar
<1>3. CASE n = 3 /\ TableAt(a, 1) /\ r.table = a[2]
  <2>1. n + l = l + 3 /\ l + 2 <= Len(a)
    BY <1>1, <1>3
  <2>2. Wanted(p, a, s, l)
    BY <1>3 DEF Wanted, TableFirst
  <2> QED
    BY <2>1, <2>2 DEF ReadSoFar
<1> QED
  BY <1>2, <1>3, SomethingRead DEF ReadSoFar

LEMMA TableRead ==
  ASSUME NEW p \in Tools, NEW a \in Seq(Tokens), NEW n \in Nat, NEW r, ReadSoFar(p, a, n, r),
         r.table = Null, n + 1 <= Len(a), TableAt(a, n),
         NEW s, s.operation = r.operation, s.chain = r.chain, s.rule_num = r.rule_num, s.table = a[n + 1]
  PROVE  ReadSoFar(p, a, n + 2, s)
<1>1. Len(a) \in Nat
  BY LenProperties
<1>2. CASE n = 1 /\ Empty(r)
  <2>1. n + 2 = 3 /\ 2 <= Len(a) /\ n + 1 = 2
    BY <1>2
  <2> QED
    BY <1>2, <2>1 DEF ReadSoFar, Empty
<1>3. ASSUME NEW l \in {2, 3}, n = l + 1, OperationAt(p, a, 1, l), ReadAt(r, a, 1)
      PROVE  ReadSoFar(p, a, n + 2, s)
  <2>1. n + 2 = l + 3 /\ l + 2 <= Len(a) /\ n + 1 = l + 2
    BY <1>1, <1>3
  <2>2. ReadAt(s, a, 1)
    BY <1>3 DEF ReadAt
  <2>3. Wanted(p, a, s, l)
    BY <1>3, <2>1, <2>2 DEF Wanted, TableLast
  <2> QED
    BY <2>1, <2>3 DEF ReadSoFar
<1>4. a[2] = Null => ~(2 <= Len(a))
  <2>1. \A i \in 1..Len(a) : a[i] \in Tokens
    BY LenProperties
  <2>2. 2 <= Len(a) => 2 \in 1..Len(a)
    BY <1>1
  <2> QED
    BY <2>1, <2>2, ToolConstants
<1> QED
  BY <1>2, <1>3, <1>4, SomethingRead DEF ReadSoFar

(* What parse() does with the option at its place.                          *)
LEMMA ParseReads ==
  ASSUME IInv, NEW p \in Tools, Parse(p), LineRead(p, argv[p], pos[p], rule[p], pc[p])
  PROVE  LineRead(p, argv[p], pos'[p], rule'[p], pc'[p])
<1> DEFINE a == argv[p]
           n == pos[p]
           r == rule[p]
<1>1. /\ a \in Seq(Tokens) /\ n \in Nat /\ n >= 1 /\ r \in RuleType
      /\ pos \in [Tools -> Nat] /\ rule \in [Tools -> RuleType] /\ pc \in [Tools -> Places]
  BY ToolConstants DEF IInv, TypeOK, ChainAwaited, Places
<1>2. Len(a) \in Nat /\ \A i \in 1..Len(a) : a[i] \in Tokens
  BY <1>1, LenProperties
<1>3. \A k : (Here(p, k) <=> n + k <= Len(a)) /\ Arg(p, k) = a[n + k]
  BY DEF Here, Arg
<1>4. n + 0 = n
  BY <1>1
<1>5. pc[p] = "parse" => ReadSoFar(p, a, n, r)
  BY DEF LineRead
<1> SUFFICES LineRead(p, a, pos'[p], rule'[p], pc'[p])
  OBVIOUS
<1> HIDE DEF a, n, r
<1>6. ASSUME ~Acceptable(p, a), NEW m, NEW s, NEW where \in {"error", "refused", "helped"}
      PROVE  LineRead(p, a, m, s, where)
  BY <1>6 DEF LineRead
<1>7. ASSUME pc[p] = "parse", ~NextIsRight(p, a, n, r) PROVE ~Acceptable(p, a)
  BY <1>1, <1>5, <1>7, Expected
<1>8. ASSUME NEW m, NEW s, ReadSoFar(p, a, m, s) PROVE LineRead(p, a, m, s, "parse")
  BY <1>8 DEF LineRead
<1>9. ASSUME Break(p), pc[p] = "parse", ~NextIsRight(p, a, n, r)
      PROVE  LineRead(p, a, pos'[p], rule'[p], pc'[p])
  <2>1. pc'[p] = "error"
    BY <1>1, <1>9 DEF Break, Go
  <2> QED
    BY <1>6, <1>7, <1>9, <2>1
<1>10. ASSUME NEW num, BreakWithChain(p, num), pc[p] = "parse", ~NextIsRight(p, a, n, r)
       PROVE  LineRead(p, a, pos'[p], rule'[p], pc'[p])
  <2>1. pc'[p] = "error"
    BY <1>1, <1>10 DEF BreakWithChain, Go
  <2> QED
    BY <1>6, <1>7, <1>10, <2>1
<1>11. ASSUME NEW s, rule' = [rule EXCEPT ![p] = s], pc[p] = "parse", pc' = pc, NEW k \in Nat, Skip(p, k),
              ReadSoFar(p, a, n + k, s)
       PROVE  LineRead(p, a, pos'[p], rule'[p], pc'[p])
  <2>1. pos'[p] = n + k /\ rule'[p] = s /\ pc'[p] = "parse"
    BY <1>1, <1>11 DEF Skip, n
  <2> QED
    BY <1>8, <1>11, <2>1
<1>12. ASSUME NEW o, Option(p, o) PROVE pc[p] = "parse" /\ n <= Len(a) /\ a[n] = o
  BY <1>3, <1>4, <1>12 DEF Option
<1>13. ASSUME NEW k \in Nat PROVE HasValue(p, k) <=> n + k <= Len(a) /\ a[n + k] \notin Dashed
  BY <1>3 DEF HasValue
<1>14. Fresh(p) <=> r.operation = "NONE"
  BY DEF Fresh, r
<1>15. ASSUME NEW l \in {2, 3}, OperationAt(p, a, n, l), n + l - 1 <= Len(a), Fresh(p),
              NEW s, ReadAt(s, a, n), s.table = r.table, rule' = [rule EXCEPT ![p] = s],
              pc[p] = "parse", pc' = pc, Skip(p, l)
       PROVE  LineRead(p, a, pos'[p], rule'[p], pc'[p])
  <2>1. ReadSoFar(p, a, n + l, s)
    BY <1>1, <1>5, <1>14, <1>15, OperationRead
  <2>2. l \in Nat
    OBVIOUS
  <2> QED
    BY <1>11, <1>15, <2>1, <2>2
<1>16. CASE ParseTable(p)
  <2>1. pc[p] = "parse" /\ n <= Len(a) /\ a[n] = "-t"
    BY <1>12, <1>16 DEF ParseTable
  <2>2. CASE HasValue(p, 1) /\ rule[p].table = Null
    <3> DEFINE s == [r EXCEPT !.table = a[n + 1]]
    <3>1. rule' = [rule EXCEPT ![p] = s] /\ Skip(p, 2) /\ pc' = pc
      BY <1>3, <1>16, <2>2 DEF ParseTable, r
    <3>2. s.operation = r.operation /\ s.chain = r.chain /\ s.rule_num = r.rule_num /\ s.table = a[n + 1]
      BY <1>1 DEF RuleType
    <3>3. TableAt(a, n) /\ n + 1 <= Len(a) /\ r.table = Null
      BY <1>13, <2>1, <2>2 DEF TableAt, r
    <3> HIDE DEF s
    <3>4. ReadSoFar(p, a, n + 2, s)
      BY <1>1, <1>5, <2>1, <3>2, <3>3, TableRead
    <3> QED
      BY <1>11, <2>1, <3>1, <3>4
  <2>3. CASE ~(HasValue(p, 1) /\ rule[p].table = Null)
    <3>1. ~NextIsRight(p, a, n, r)
      BY <1>1, <1>2, <1>13, <2>1, <2>3 DEF NextIsRight, TableAt, OperationAt, r
    <3> QED
      BY <1>9, <1>16, <2>1, <2>3, <3>1 DEF ParseTable
  <2> QED
    BY <2>2, <2>3
<1>17. CASE ParseNewChain(p)
  <2>1. pc[p] = "parse" /\ n <= Len(a) /\ a[n] = "-N"
    BY <1>12, <1>17 DEF ParseNewChain
  <2>2. CASE Fresh(p) /\ HasValue(p, 1)
    <3> DEFINE s == [r EXCEPT !.operation = "NEW_CHAIN", !.chain = a[n + 1]]
    <3>1. rule' = [rule EXCEPT ![p] = s] /\ Skip(p, 2) /\ pc' = pc
      BY <1>3, <1>17, <2>2 DEF ParseNewChain, r
    <3>2. s.operation = "NEW_CHAIN" /\ s.chain = a[n + 1] /\ s.rule_num = r.rule_num /\ s.table = r.table
      BY <1>1 DEF RuleType
    <3>3. r.rule_num = 0
      BY <2>1, <2>2 DEF IInv, ChainAwaited, r
    <3>4. n + 2 - 1 <= Len(a) /\ OperationAt(p, a, n, 2)
      BY <1>1, <1>13, <2>1, <2>2 DEF OperationAt
    <3> HIDE DEF s
    <3>5. ReadAt(s, a, n)
      BY <2>1, <3>2, <3>3 DEF ReadAt, RuleAt
    <3> QED
      BY <1>15, <2>1, <2>2, <3>1, <3>2, <3>4, <3>5
  <2>3. CASE ~(Fresh(p) /\ HasValue(p, 1))
    <3>1. ~NextIsRight(p, a, n, r)
      BY <1>1, <1>2, <1>13, <1>14, <2>1, <2>3 DEF NextIsRight, TableAt, OperationAt
    <3> QED
      BY <1>9, <1>17, <2>1, <2>3, <3>1 DEF ParseNewChain
  <2> QED
    BY <2>2, <2>3
<1>18. ASSUME NEW operation \in Opcodes, NEW num \in Int, ChainThen(p, operation, num)
       PROVE  \E s : /\ rule' = [rule EXCEPT ![p] = s] /\ s.operation = operation
                     /\ s.chain = a[n + 1] /\ s.rule_num = num /\ s.table = r.table
  <2> DEFINE s == [r EXCEPT !.operation = operation, !.chain = a[n + 1], !.rule_num = num]
  <2>1. rule' = [rule EXCEPT ![p] = s]
    BY <1>3, <1>18 DEF ChainThen, r
  <2>2. s.operation = operation /\ s.chain = a[n + 1] /\ s.rule_num = num /\ s.table = r.table
    BY <1>1 DEF RuleType
  <2> HIDE DEF s
  <2> QED
    BY <2>1, <2>2
<1>19. CASE ParseDelete(p)
  <2>1. pc[p] = "parse" /\ n <= Len(a) /\ a[n] = "-D"
    BY <1>12, <1>19 DEF ParseDelete
  <2>2. NumberGiven(p) = Atoi[a[n + 2]] - 1
    BY <1>3 DEF NumberGiven
  <2>3. CASE Fresh(p) /\ HasValue(p, 1) /\ HasValue(p, 2)
    <3>1. n + 1 <= Len(a) /\ a[n + 1] \notin Dashed /\ n + 2 <= Len(a) /\ a[n + 2] \notin Dashed
      BY <1>13, <2>3
    <3>2. Atoi[a[n + 2]] \in Int
      BY <1>1, <1>2, <3>1, ToolConstants
    <3>3. CASE ~Invalid(NumberGiven(p))
      <4>1. ChainThen(p, "DELETE_RULE", NumberGiven(p)) /\ Skip(p, 3) /\ pc' = pc
        BY <1>19, <2>3, <3>3 DEF ParseDelete
      <4>2. "DELETE_RULE" \in Opcodes /\ NumberGiven(p) \in Int
        BY <2>2, <3>2 DEF Opcodes
      <4>3. PICK s : /\ rule' = [rule EXCEPT ![p] = s] /\ s.operation = "DELETE_RULE"
                     /\ s.chain = a[n + 1] /\ s.rule_num = NumberGiven(p) /\ s.table = r.table
        BY <1>18, <4>1, <4>2
      <4>4. Atoi[a[n + 2]] > 0
        BY <2>2, <3>2, <3>3 DEF Invalid
      <4>5. OperationAt(p, a, n, 3) /\ n + 3 - 1 <= Len(a)
        BY <1>1, <2>1, <3>1, <4>4 DEF OperationAt
      <4>6. ReadAt(s, a, n)
        BY <2>1, <2>2, <4>3 DEF ReadAt, RuleAt
      <4> QED
        BY <1>15, <2>1, <2>3, <4>1, <4>3, <4>5, <4>6
    <3>4. CASE Invalid(NumberGiven(p))
      <4>1. ~(Atoi[a[n + 2]] > 0)
        BY <2>2, <3>2, <3>4 DEF Invalid
      <4>2. ~NextIsRight(p, a, n, r)
        BY <1>1, <1>2, <2>1, <4>1 DEF NextIsRight, TableAt, OperationAt
      <4>3. BreakWithChain(p, NumberGiven(p))
        BY <1>19, <2>3, <3>4 DEF ParseDelete
      <4> QED
        BY <1>10, <2>1, <4>2, <4>3
    <3> QED
      BY <3>3, <3>4
  <2>4. CASE ~(Fresh(p) /\ HasValue(p, 1) /\ HasValue(p, 2))
    <3>1. ~NextIsRight(p, a, n, r)
      <4>1. ~(r.operation = "NONE" /\ n + 1 <= Len(a) /\ a[n + 1] \notin Dashed
              /\ n + 2 <= Len(a) /\ a[n + 2] \notin Dashed)
        BY <1>13, <1>14, <2>4
      <4> QED
        BY <1>1, <1>2, <2>1, <4>1 DEF NextIsRight, TableAt, OperationAt
    <3>2. Break(p) \/ BreakWithChain(p, 0)
      BY <1>19, <2>4 DEF ParseDelete
    <3> QED
      BY <1>9, <1>10, <2>1, <3>1, <3>2
  <2> QED
    BY <2>3, <2>4
<1>20. CASE ParsePolicy(p)
  <2>1. pc[p] = "parse" /\ n <= Len(a) /\ a[n] = "-P" /\ p \in ModTools
    BY <1>12, <1>20 DEF ParsePolicy
  <2>2. Arg(p, 2) = a[n + 2]
    BY <1>3
  <2>3. CASE Fresh(p) /\ HasValue(p, 1) /\ HasValue(p, 2) /\ Arg(p, 2) \in Policies
    <3> DEFINE o == IF a[n + 2] = "ACCEPT" THEN "POLICY_ACCEPT" ELSE "POLICY_DROP"
    <3>1. n + 1 <= Len(a) /\ a[n + 1] \notin Dashed /\ n + 2 <= Len(a) /\ a[n + 2] \in Policies
      BY <1>13, <2>2, <2>3
    <3>2. ChainThen(p, o, 0) /\ Skip(p, 3) /\ pc' = pc
      BY <1>20, <2>2, <2>3 DEF ParsePolicy
    <3>3. o \in Opcodes
      BY DEF Opcodes
    <3> HIDE DEF o
    <3>4. PICK s : /\ rule' = [rule EXCEPT ![p] = s] /\ s.operation = o
                   /\ s.chain = a[n + 1] /\ s.rule_num = 0 /\ s.table = r.table
      BY <1>18, <3>2, <3>3
    <3>5. OperationAt(p, a, n, 3) /\ n + 3 - 1 <= Len(a)
      BY <1>1, <2>1, <3>1 DEF OperationAt
    <3>6. ReadAt(s, a, n)
      BY <2>1, <3>4 DEF ReadAt, RuleAt, o
    <3> QED
      BY <1>15, <2>1, <2>3, <3>2, <3>4, <3>5, <3>6
  <2>4. CASE ~(Fresh(p) /\ HasValue(p, 1) /\ HasValue(p, 2) /\ Arg(p, 2) \in Policies)
    <3>1. ~NextIsRight(p, a, n, r)
      <4>1. "ACCEPT" \notin Dashed /\ "DROP" \notin Dashed
        BY ToolConstants
      <4>2. ~(r.operation = "NONE" /\ n + 1 <= Len(a) /\ a[n + 1] \notin Dashed
              /\ n + 2 <= Len(a) /\ a[n + 2] \in Policies)
        BY <1>13, <1>14, <2>2, <2>4, <4>1 DEF Policies
      <4> QED
        BY <1>1, <1>2, <2>1, <4>2 DEF NextIsRight, TableAt, OperationAt
    <3>2. Break(p) \/ BreakWithChain(p, 0)
      BY <1>20, <2>4 DEF ParsePolicy
    <3> QED
      BY <1>9, <1>10, <2>1, <3>1, <3>2
  <2> QED
    BY <2>3, <2>4
<1>21. CASE ParseHelp(p)
  <2>1. pc[p] = "parse" /\ n <= Len(a) /\ a[n] = "-h"
    BY <1>12, <1>21 DEF ParseHelp
  <2>2. ~NextIsRight(p, a, n, r)
    BY <1>1, <1>2, <2>1 DEF NextIsRight, TableAt, OperationAt
  <2>3. pc'[p] = "helped"
    BY <1>1, <1>21 DEF ParseHelp, Go
  <2> QED
    BY <1>6, <1>7, <2>1, <2>2, <2>3
<1>22. CASE ParseUnknown(p)
  <2>1. pc[p] = "parse" /\ n <= Len(a) /\ a[n] \notin Known(p)
    BY <1>3, <1>4, <1>22 DEF ParseUnknown
  <2>2. ~NextIsRight(p, a, n, r)
    BY <1>1, <1>2, <2>1 DEF NextIsRight, TableAt, OperationAt, Known
  <2> QED
    BY <1>9, <1>22, <2>1, <2>2 DEF ParseUnknown
<1>23. CASE EndParse(p)
  <2>1. pc[p] = "parse" /\ n > Len(a) /\ rule'[p] = r
    BY <1>1, <1>2, <1>3, <1>4, <1>23 DEF EndParse, r
  <2>2. CASE r.operation # "NONE" /\ r.table # Null
    <3>1. pc'[p] = "init"
      BY <1>1, <1>23, <2>2 DEF EndParse, Go, r
    <3>2. Meant(p, a, r)
      <4>1. PICK l \in {2, 3} : n = l + 3 /\ l + 2 <= Len(a) /\ Wanted(p, a, r, l)
        BY <1>5, <2>1, <2>2 DEF ReadSoFar, Empty
      <4>2. Len(a) = l + 2
        BY <1>2, <2>1, <4>1
      <4> QED
        BY <4>1, <4>2 DEF Meant
    <3> QED
      BY <2>1, <3>1, <3>2 DEF LineRead
  <2>3. CASE ~(r.operation # "NONE" /\ r.table # Null)
    <3>1. pc'[p] = "error"
      BY <1>1, <1>23, <2>3 DEF EndParse, Go, r
    <3>2. ~NextIsRight(p, a, n, r)
      BY <1>1, <1>2, <2>1, <2>3 DEF NextIsRight
    <3> QED
      BY <1>6, <1>7, <2>1, <3>1, <3>2
  <2> QED
    BY <2>2, <2>3
<1>24. CASE Refuse(p)
  <2>1. pc[p] = "error" /\ pc'[p] = "refused"
    BY <1>1, <1>24 DEF Refuse, Go
  <2>2. ~Acceptable(p, a)
    BY <2>1 DEF LineRead, a
  <2> QED
    BY <1>6, <2>1, <2>2
<1>25. Parse(p)
  OBVIOUS
<1> QED
  BY <1>16, <1>17, <1>19, <1>20, <1>21, <1>22, <1>23, <1>24, <1>25 DEF Parse

(* One tool's step, seen from its own line and from those of the others.    *)
LEMMA MainReads ==
  ASSUME IInv, NEW p \in Tools, Main(p), LineRead(p, argv[p], pos[p], rule[p], pc[p])
  PROVE  LineRead(p, argv[p], pos'[p], rule'[p], pc'[p])
<1>1. pc \in [Tools -> Places] /\ rule \in [Tools -> RuleType]
  BY DEF IInv, TypeOK, Places
<1>2. ASSUME pc'[p] \in {"failed", "done"} PROVE LineRead(p, argv[p], pos'[p], rule'[p], pc'[p])
  BY <1>2 DEF LineRead
<1>3. ASSUME pc[p] \in {"init", "change", "commit"}, pc'[p] \in {"change", "commit", "close"}, rule' = rule
      PROVE  LineRead(p, argv[p], pos'[p], rule'[p], pc'[p])
  BY <1>3 DEF LineRead
<1>4. ASSUME Fail(p) PROVE pc'[p] = "failed"
  BY <1>1, <1>4 DEF Fail, Go
<1>5. CASE OpenFails(p) \/ CommitFails(p)
  BY <1>2, <1>4, <1>5 DEF OpenFails, CommitFails
<1>6. CASE Open(p)
  BY <1>1, <1>3, <1>6 DEF Open, Go
<1>7. CASE DeleteRule(p) \/ CreateChain(p) \/ PolicyAccept(p) \/ PolicyDrop(p)
  <2>1. pc[p] = "change" /\ (Fail(p) \/ \E t : Changed(p, t))
    BY <1>7 DEF DeleteRule, CreateChain, PolicyAccept, PolicyDrop, SetPolicy, Doing
  <2>2. CASE \E t : Changed(p, t)
    BY <1>1, <1>3, <2>1, <2>2 DEF Changed, Go
  <2> QED
    BY <1>2, <1>4, <2>1, <2>2
<1>8. CASE Commit(p)
  BY <1>1, <1>3, <1>8 DEF Commit, Go
<1>9. CASE Close(p)
  BY <1>1, <1>2, <1>9 DEF Close, Go
<1> QED
  BY <1>5, <1>6, <1>7, <1>8, <1>9 DEF Main

LEMMA OthersStay ==
  ASSUME IInv, NEW p \in Tools, Parse(p) \/ Main(p), NEW q \in Tools, q # p
  PROVE  argv' = argv /\ pos'[q] = pos[q] /\ rule'[q] = rule[q] /\ pc'[q] = pc[q]
<1>1. pc \in [Tools -> Places] /\ rule \in [Tools -> RuleType] /\ pos \in [Tools -> Nat]
  BY DEF IInv, TypeOK, Places
<1>2. CASE Parse(p)
  BY <1>1, <1>2, ParseIsQuiet DEF Quiet
<1>3. ASSUME Fail(p) PROVE argv' = argv /\ pos'[q] = pos[q] /\ rule'[q] = rule[q] /\ pc'[q] = pc[q]
  BY <1>1, <1>3 DEF Fail, Go
<1>4. CASE Open(p) \/ Commit(p) \/ Close(p)
  BY <1>1, <1>4 DEF Open, Commit, Close, Go
<1>5. CASE DeleteRule(p) \/ CreateChain(p) \/ PolicyAccept(p) \/ PolicyDrop(p)
  <2>1. Fail(p) \/ \E t : Changed(p, t)
    BY <1>5 DEF DeleteRule, CreateChain, PolicyAccept, PolicyDrop, SetPolicy
  <2> QED
    BY <1>1, <1>3, <2>1 DEF Changed, Go
<1> QED
  BY <1>2, <1>3, <1>4, <1>5 DEF Main, OpenFails, CommitFails

LEMMA LinesStep ==
  ASSUME IInv, LinesRead, [Next]_vars
  PROVE  LinesRead'
<1> SUFFICES ASSUME NEW q \in Tools PROVE LineRead(q, argv'[q], pos'[q], rule'[q], pc'[q])
  BY DEF LinesRead
<1>1. LineRead(q, argv[q], pos[q], rule[q], pc[q])
  BY DEF LinesRead
<1>2. CASE UNCHANGED vars
  BY <1>1, <1>2 DEF vars
<1>3. ASSUME NEW p \in Tools, Parse(p) \/ Main(p), p # q
      PROVE  LineRead(q, argv'[q], pos'[q], rule'[q], pc'[q])
  BY <1>1, <1>3, OthersStay
<1>4. ASSUME Parse(q) \/ Main(q)
      PROVE  LineRead(q, argv'[q], pos'[q], rule'[q], pc'[q])
  <2>1. LineRead(q, argv[q], pos'[q], rule'[q], pc'[q])
    BY <1>1, <1>4, ParseReads, MainReads
  <2>2. argv' = argv
    BY <1>4, ParseIsQuiet DEF Quiet, Main, Open, OpenFails, CommitFails, Fail, Commit, Close, Changed,
         DeleteRule, CreateChain, PolicyAccept, PolicyDrop, SetPolicy
  <2> QED
    BY <2>1, <2>2
<1> QED
  BY <1>2, <1>3, <1>4 DEF Next

LEMMA InitLines == Init => LinesRead
<1> SUFFICES ASSUME Init, NEW p \in Tools PROVE LineRead(p, argv[p], pos[p], rule[p], pc[p])
  BY DEF LinesRead
<1>1. pos[p] = 1 /\ rule[p] = NoRule /\ pc[p] = "parse"
  BY DEF Init
<1> QED
  BY <1>1 DEF LineRead, ReadSoFar, Empty, NoRule

LEMMA LinesInvariance == Spec => [](IInv /\ LinesRead)
<1>1. IInv /\ LinesRead /\ [Next]_vars => IInv' /\ LinesRead'
  BY NextKeeps, LinesStep
<1> QED
  BY InitIInv, InitLines, <1>1, PTL DEF Spec

(* A rule read in full is the one the line asks for.                        *)
LEMMA MeantIsAsked ==
  ASSUME NEW p \in Tools, argv[p] \in Seq(Tokens), rule[p] \in RuleType, Meant(p, argv[p], rule[p])
  PROVE  Asked(p) = {rule[p]}
<1> DEFINE a == argv[p]
           r == rule[p]
<1>1. PICK l \in {2, 3} : Len(a) = l + 2 /\ Wanted(p, a, r, l)
  BY DEF Meant
<1>2. ASSUME NEW k, ReadAt(r, a, k) PROVE r = OnTable(RuleAt(a, k), r.table)
  <2>1. r = [operation |-> r.operation, chain |-> r.chain, table |-> r.table, rule_num |-> r.rule_num]
    BY DEF RuleType
  <2> HIDE DEF a, r
  <2>2. OnTable(RuleAt(a, k), r.table) =
          [operation |-> RuleAt(a, k).operation, chain |-> RuleAt(a, k).chain, table |-> r.table,
           rule_num |-> RuleAt(a, k).rule_num]
    BY DEF OnTable, RuleAt
  <2> QED
    BY <1>2, <2>1, <2>2 DEF ReadAt
<1> HIDE DEF r
<1>3. \A s : s \in Asked(p) <=> s = r
  <2> TAKE s
  <2>1. s \in Asked(p) <=>
           \E j \in {2, 3} :
             /\ Len(a) = j + 2
             /\ \/ TableFirst(p, a, j) /\ s = OnTable(RuleAt(a, 3), a[2])
                \/ TableLast(p, a, j) /\ s = OnTable(RuleAt(a, 1), a[j + 2])
    BY AskedIs
  <2> HIDE DEF a
  <2>2. \A j \in {2, 3} : Len(a) = j + 2 <=> j = l
    BY <1>1
  <2>3. s \in Asked(p) <=> \/ TableFirst(p, a, l) /\ s = OnTable(RuleAt(a, 3), a[2])
                           \/ TableLast(p, a, l) /\ s = OnTable(RuleAt(a, 1), a[l + 2])
    BY <2>1, <2>2
  <2>4. ~(TableFirst(p, a, l) /\ TableLast(p, a, l))
    BY OneReading DEF TableFirst, TableLast
  <2> QED
    BY <1>1, <1>2, <2>3, <2>4 DEF Wanted
<1> QED
  BY <1>3 DEF r

LEMMA ReadIsParsed == IInv /\ LinesRead => ParsesCommands
<1> SUFFICES ASSUME IInv, LinesRead, NEW p \in Tools
             PROVE  /\ pc[p] \in {"init", "change", "commit", "close"} => Asked(p) = {rule[p]}
                    /\ pc[p] \in {"error", "refused", "helped"} => Asked(p) = {}
  BY DEF ParsesCommands
<1>1. argv[p] \in Seq(Tokens) /\ rule[p] \in RuleType /\ LineRead(p, argv[p], pos[p], rule[p], pc[p])
  BY ToolConstants DEF IInv, TypeOK, LinesRead
<1>2. ASSUME ~Acceptable(p, argv[p]) PROVE Asked(p) = {}
  BY <1>1, <1>2, AskedIs DEF Acceptable
<1> QED
  BY <1>1, <1>2, MeantIsAsked DEF LineRead

(* However the options of a line are ordered and repeated, it is accepted   *)
(* exactly when it names one table and one operation and nothing else, and  *)
(* the rule returned is the one it stands for (iptcmod.c 116-311).          *)
THEOREM CommandsAreUnderstood == Spec => []ParsesCommands
BY LinesInvariance, ReadIsParsed, PTL

(* Only a commit changes a table, and what it puts in place is the table as *)
(* it was taken, changed as the line asks (iptcmod.c 315-483).              *)
THEOREM CommitsDoWhatWasAsked == Spec => DoesWhatWasAsked
<1> DEFINE A == /\ (\A p \in Tools : ~Commits(p)) => tables' = tables
                /\ \A p \in Tools : Commits(p) =>
                     \E r \in Asked(p) : /\ tables'[r.table] = Carried(r, handle[p].was)
                                         /\ \A n \in TableNames \ {r.table} : tables'[n] = tables[n]
<1>1. ASSUME IInv, [Next]_vars, \A p \in Tools : ~Commits(p) PROVE tables' = tables
  <2>1. CASE UNCHANGED vars
    BY <2>1 DEF vars
  <2>2. ASSUME NEW q \in Tools, Parse(q) \/ Main(q) PROVE tables' = tables
    <3>1. ~Commit(q)
      BY <1>1 DEF Commit, Go, Commits, IInv, TypeOK
    <3> QED
      BY <1>1, <2>2, <3>1, OtherSteps
  <2> QED
    BY <1>1, <2>1, <2>2 DEF Next
<1>2. ASSUME IInv, LinesRead, [Next]_vars, NEW p \in Tools, Commits(p)
      PROVE  \E r \in Asked(p) : /\ tables'[r.table] = Carried(r, handle[p].was)
                                 /\ \A n \in TableNames \ {r.table} : tables'[n] = tables[n]
  <2>1. Commit(p)
    BY <1>2, CommitsCommit
  <2>2. pc[p] = "commit" /\ tables' = [tables EXCEPT ![rule[p].table] = handle[p].now]
    BY <2>1 DEF Commit, Now
  <2>3. rule[p].table \in TableNames /\ handle[p].now = Carried(rule[p], handle[p].was)
    BY <1>2, <2>2 DEF IInv, HandleTaken, ChangeIsRule
  <2>4. rule[p] \in Asked(p)
    BY <1>2, <2>2, ReadIsParsed DEF ParsesCommands
  <2>5. tables \in [TableNames -> Table]
    BY <1>2 DEF IInv, TypeOK
  <2> QED
    BY <2>2, <2>3, <2>4, <2>5
<1>3. IInv /\ LinesRead /\ [Next]_vars => [A]_vars
  BY <1>1, <1>2
<1> QED
  BY LinesInvariance, <1>3, PTL DEF Spec, DoesWhatWasAsked
=============================================================================
