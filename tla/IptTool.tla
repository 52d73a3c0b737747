------------------------------- MODULE IptTool -------------------------------
(***************************************************************************)
(* The iptables tools of Lab07, iptc.c and iptcmod.c (the same program     *)
(* with the option -P): parse() turns the command line into a rule, main   *)
(* takes a snapshot of a table through libiptc, changes the snapshot, and  *)
(* commits it.  Several tools run at once and nothing locks the table.     *)
(*                                                                         *)
(* The kernel accepts a commit when the table has as many entries as the   *)
(* snapshot had; this is its only protection against concurrent changes.   *)
(* A deleted rule is one entry less, a new chain two more (its head and    *)
(* its end), a policy changes none.                                        *)
(***************************************************************************)
EXTENDS Integers, Sequences

CONSTANTS
  Tools,      (* processes running one of the tools, once                 *)
  ModTools,   (* those that run iptcmod: they know -P                     *)
  Args,       (* the command lines they may be given                      *)
  Tokens,     (* the arguments on them                                    *)
  Dashed,     (* arguments that begin with a dash                         *)
  Atoi,       (* what atoi makes of an argument                           *)
  Null,       (* a NULL pointer                                           *)
  Builtin,    (* chains that have a policy                                *)
  Rules,      (* the rules of the tables                                  *)
  Start       (* the tables before the tools run, by name                 *)

ASSUME ToolConstants ==
  /\ ModTools \subseteq Tools
  /\ Args \subseteq Seq(Tokens)
  /\ {"-t", "-N", "-D", "-P", "-h"} \subseteq Dashed
  /\ Null \notin Tokens
  /\ Atoi \in [Tokens -> Int]
  /\ Builtin \subseteq Tokens
  /\ "ACCEPT" \notin Dashed /\ "DROP" \notin Dashed

Opcodes == {"NONE", "DELETE_RULE", "NEW_CHAIN", "POLICY_ACCEPT", "POLICY_DROP"}
Policies == {"ACCEPT", "DROP"}

(* A table: the rules of each chain that exists, the policies, and the     *)
(* number of entries.                                                      *)
Table == [rules : [Tokens -> {Null} \cup Seq(Rules)],
          policy : [Builtin -> Policies], number : Int]
TableNames == DOMAIN Start

ASSUME StartsWithTables == TableNames \subseteq Tokens /\ Start \in [TableNames -> Table]

NoRule == [operation |-> "NONE", chain |-> Null, table |-> Null, rule_num |-> 0]
NoHandle == [was |-> Null, now |-> Null]

VARIABLES
  argv,       (* each tool's command line, never changed                  *)
  pos,        (* argv in parse(): the argument looked at                  *)
  rule,       (* r: the rule under construction, or being carried out     *)
  pc,         (* where the tool is                                        *)
  handle,     (* h: the table when it was taken, and as changed since     *)
  tables      (* the kernel's                                             *)

vars == <<argv, pos, rule, pc, handle, tables>>

RuleType == [operation : Opcodes, chain : Tokens \cup {Null},
             table : Tokens \cup {Null}, rule_num : Int]

TypeOK ==
  /\ argv \in [Tools -> Args]
  /\ pos \in [Tools -> Nat]
  /\ rule \in [Tools -> RuleType]
  /\ \A p \in Tools : rule[p].operation # "NONE" => rule[p].rule_num >= 0
  /\ pc \in [Tools -> {"parse", "error", "init", "change", "commit", "close",
                       "refused", "failed", "helped", "done"}]
  /\ handle \in [Tools -> {NoHandle} \cup [was : Table, now : Table]]
  /\ tables \in [TableNames -> Table]

Init ==
  /\ argv \in [Tools -> Args]
  /\ pos = [p \in Tools |-> 1]
  /\ rule = [p \in Tools |-> NoRule]
  /\ pc = [p \in Tools |-> "parse"]
  /\ handle = [p \in Tools |-> NoHandle]
  /\ tables = Start

-----------------------------------------------------------------------------
(* parse()                                                                 *)

Here(p, k) == pos[p] + k <= Len(argv[p])
Arg(p, k) == argv[p][pos[p] + k]
Option(p, o) == pc[p] = "parse" /\ Here(p, 0) /\ Arg(p, 0) = o

(* An argument follows that is not an option.                              *)
HasValue(p, k) == Here(p, k) /\ Arg(p, k) \notin Dashed

Go(p, where) == pc' = [pc EXCEPT ![p] = where]
Skip(p, n) == pos' = [pos EXCEPT ![p] = @ + n]

(* parse_error and break.                                                  *)
Break(p) == Go(p, "error") /\ UNCHANGED <<argv, pos, rule, handle, tables>>

ParseTable(p) ==
  /\ Option(p, "-t")
  /\ IF HasValue(p, 1) /\ rule[p].table = Null
     THEN /\ rule' = [rule EXCEPT ![p].table = Arg(p, 1)]
          /\ Skip(p, 2)
          /\ UNCHANGED <<argv, pc, handle, tables>>
     ELSE Break(p)

Fresh(p) == rule[p].operation = "NONE"

ParseNewChain(p) ==
  /\ Option(p, "-N")
  /\ IF Fresh(p) /\ HasValue(p, 1)
     THEN /\ rule' = [rule EXCEPT ![p].operation = "NEW_CHAIN", ![p].chain = Arg(p, 1)]
          /\ Skip(p, 2)
          /\ UNCHANGED <<argv, pc, handle, tables>>
     ELSE Break(p)

(* The chain is stored before the argument after it is looked at.          *)
ChainThen(p, operation, num) ==
  rule' = [rule EXCEPT ![p].operation = operation, ![p].chain = Arg(p, 1), ![p].rule_num = num]

BreakWithChain(p, num) ==
  /\ ChainThen(p, "NONE", num)
  /\ Go(p, "error")
  /\ UNCHANGED <<argv, pos, handle, tables>>

NumberFromOne(p) == Atoi[Arg(p, 2)]      \* mutant: rules are numbered from 0 on the command line
NumberGiven(p) == Atoi[Arg(p, 2)] - 1

InvalidNever(num) == FALSE               \* mutant: rule 0 is not refused
Invalid(num) == num < 0

ParseDelete(p) ==
  /\ Option(p, "-D")
  /\ IF ~Fresh(p) \/ ~HasValue(p, 1) THEN Break(p)
     ELSE IF ~HasValue(p, 2) THEN BreakWithChain(p, 0)
     ELSE IF Invalid(NumberGiven(p)) THEN BreakWithChain(p, NumberGiven(p))
     ELSE /\ ChainThen(p, "DELETE_RULE", NumberGiven(p))
          /\ Skip(p, 3)
          /\ UNCHANGED <<argv, pc, handle, tables>>

(* Only in iptcmod; iptc takes -P for an unknown option.                   *)
ParsePolicy(p) ==
  /\ Option(p, "-P")
  /\ p \in ModTools
  /\ IF ~Fresh(p) \/ ~HasValue(p, 1) THEN Break(p)
     ELSE IF ~HasValue(p, 2) \/ Arg(p, 2) \notin Policies THEN BreakWithChain(p, 0)
     ELSE /\ ChainThen(p, IF Arg(p, 2) = "ACCEPT" THEN "POLICY_ACCEPT" ELSE "POLICY_DROP", 0)
          /\ Skip(p, 3)
          /\ UNCHANGED <<argv, pc, handle, tables>>

(* The help text is printed, the rule so far is freed.                     *)
ParseHelp(p) ==
  /\ Option(p, "-h")
  /\ rule' = [rule EXCEPT ![p] = NoRule]
  /\ Go(p, "helped")
  /\ UNCHANGED <<argv, pos, handle, tables>>

Known(p) == {"-t", "-N", "-D", "-h"} \cup (IF p \in ModTools THEN {"-P"} ELSE {})

ParseUnknown(p) ==
  /\ pc[p] = "parse"
  /\ Here(p, 0)
  /\ Arg(p, 0) \notin Known(p)
  /\ Break(p)

EndParse(p) ==
  /\ pc[p] = "parse"
  /\ ~Here(p, 0)
  /\ Go(p, IF rule[p].operation # "NONE" /\ rule[p].table # Null THEN "init" ELSE "error")
  /\ UNCHANGED <<argv, pos, rule, handle, tables>>

(* parse() frees the rule and returns NULL, on which main exits.           *)
Refuse(p) ==
  /\ pc[p] = "error"
  /\ rule' = [rule EXCEPT ![p] = NoRule]
  /\ Go(p, "refused")
  /\ UNCHANGED <<argv, pos, handle, tables>>

-----------------------------------------------------------------------------
(* main, and the function of each operation.                               *)

Open(p) ==
  /\ pc[p] = "init"
  /\ rule[p].table \in TableNames
  /\ LET t == tables[rule[p].table] IN handle' = [handle EXCEPT ![p] = [was |-> t, now |-> t]]
  /\ Go(p, "change")
  /\ UNCHANGED <<argv, pos, rule, tables>>

(* exit(EXIT_FAILURE) anywhere in main: no such table, no permission, an   *)
(* operation that does not apply, a commit the kernel refuses.             *)
Fail(p) == Go(p, "failed") /\ UNCHANGED <<argv, pos, rule, handle, tables>>

OpenFails(p) == pc[p] = "init" /\ Fail(p)

Now(p) == handle[p].now
IsChain(p) == Now(p).rules[rule[p].chain] # Null
Doing(p, o) == pc[p] = "change" /\ rule[p].operation = o

Changed(p, table) ==
  /\ handle' = [handle EXCEPT ![p].now = table]
  /\ Go(p, "commit")
  /\ UNCHANGED <<argv, pos, rule, tables>>

WithoutNext(s, n) ==                     \* mutant: the rule after the one meant
  SubSeq(s, 1, n + 1) \o SubSeq(s, n + 3, Len(s))
Without(s, n) == SubSeq(s, 1, n) \o SubSeq(s, n + 2, Len(s))

DeleteRule(p) ==
  /\ Doing(p, "DELETE_RULE")
  /\ IF IsChain(p) /\ rule[p].rule_num < Len(Now(p).rules[rule[p].chain])
     THEN Changed(p, [Now(p) EXCEPT !.rules[rule[p].chain] = Without(@, rule[p].rule_num),
                                    !.number = @ - 1])
     ELSE Fail(p)

(* The names of the standard targets are refused as names of chains.       *)
Targets == {"ACCEPT", "DROP", "QUEUE", "RETURN"}

CreateChain(p) ==
  /\ Doing(p, "NEW_CHAIN")
  /\ IF ~IsChain(p) /\ rule[p].chain \notin Targets
     THEN Changed(p, [Now(p) EXCEPT !.rules[rule[p].chain] = <<>>, !.number = @ + 2])
     ELSE Fail(p)

SetPolicy(p, operation, policy) ==
  /\ Doing(p, operation)
  /\ IF IsChain(p) /\ rule[p].chain \in Builtin
     THEN Changed(p, [Now(p) EXCEPT !.policy[rule[p].chain] = policy])
     ELSE Fail(p)

PolicyAccept(p) == SetPolicy(p, "POLICY_ACCEPT", "ACCEPT")
PolicyDrop(p) == SetPolicy(p, "POLICY_DROP", "DROP")

(* EAGAIN unless the number of entries is the one of the snapshot.         *)
AlwaysCurrent(p) == TRUE                 \* mutant: the number in the snapshot is not sent
Current(p) == handle[p].was.number = tables[rule[p].table].number

Commit(p) ==
  /\ pc[p] = "commit"
  /\ Current(p)
  /\ tables' = [tables EXCEPT ![rule[p].table] = Now(p)]
  /\ Go(p, "close")
  /\ UNCHANGED <<argv, pos, rule, handle>>

CommitFails(p) == pc[p] = "commit" /\ Fail(p)

(* The rule is freed, and so is the handle, which iptc_commit left alone.  *)
Close(p) ==
  /\ pc[p] = "close"
  /\ rule' = [rule EXCEPT ![p] = NoRule]
  /\ handle' = [handle EXCEPT ![p] = NoHandle]
  /\ Go(p, "done")
  /\ UNCHANGED <<argv, pos, tables>>

-----------------------------------------------------------------------------

Parse(p) ==
  \/ ParseTable(p) \/ ParseNewChain(p) \/ ParseDelete(p) \/ ParsePolicy(p)
  \/ ParseHelp(p) \/ ParseUnknown(p) \/ EndParse(p) \/ Refuse(p)

Main(p) ==
  \/ Open(p) \/ OpenFails(p)
  \/ DeleteRule(p) \/ CreateChain(p) \/ PolicyAccept(p) \/ PolicyDrop(p)
  \/ Commit(p) \/ CommitFails(p) \/ Close(p)

Next == \E p \in Tools : Parse(p) \/ Main(p)

Spec == Init /\ [][Next]_vars

-----------------------------------------------------------------------------
(* What a command line asks for: one table and one operation, in either    *)
(* order, and nothing else.                                                *)

IsTable(s) == Len(s) = 2 /\ s[1] = "-t" /\ s[2] \notin Dashed

Operation(s, mod) ==
  IF Len(s) \notin {2, 3} \/ \E k \in 2..Len(s) : s[k] \in Dashed THEN NoRule
  ELSE [NoRule EXCEPT
    !.chain = s[2],
    !.operation = CASE s[1] = "-N" /\ Len(s) = 2 -> "NEW_CHAIN"
                    [] s[1] = "-D" /\ Len(s) = 3 /\ Atoi[s[3]] > 0 -> "DELETE_RULE"
                    [] s[1] = "-P" /\ Len(s) = 3 /\ s[3] = "ACCEPT" /\ mod -> "POLICY_ACCEPT"
                    [] s[1] = "-P" /\ Len(s) = 3 /\ s[3] = "DROP" /\ mod -> "POLICY_DROP"
                    [] OTHER -> "NONE",
    !.rule_num = IF s[1] = "-D" /\ Len(s) = 3 THEN Atoi[s[3]] - 1 ELSE 0]

(* The rules a command line stands for: one, or none if it is wrong.       *)
Asked(p) ==
  LET front == SubSeq(argv[p], 1, Len(argv[p]) - 2)
      back  == SubSeq(argv[p], Len(argv[p]) - 1, Len(argv[p]))
      first == SubSeq(argv[p], 1, 2)
      rest  == SubSeq(argv[p], 3, Len(argv[p]))
      of(t, o) == IF Len(argv[p]) > 2 /\ IsTable(t) /\ Operation(o, p \in ModTools).operation # "NONE"
                  THEN {[Operation(o, p \in ModTools) EXCEPT !.table = t[2]]} ELSE {}
  IN of(back, front) \cup of(first, rest)

(* parse() accepts exactly these command lines, and returns their rule.    *)
ParsesCommands ==
  \A p \in Tools :
    /\ pc[p] \in {"init", "change", "commit", "close"} => Asked(p) = {rule[p]}
    /\ pc[p] \in {"error", "refused", "helped"} => Asked(p) = {}

(* A string that parse() allocated is never overwritten by another, it is  *)
(* freed with the whole rule: repeated options do not leak.                *)
NoneOverwritten ==
  [][\A p \in Tools : rule'[p] = NoRule
       \/ /\ rule[p].chain \in {Null, rule'[p].chain}
          /\ rule[p].table \in {Null, rule'[p].table}]_vars

(* The table t after a rule was carried out.                               *)
Carried(r, t) ==
  CASE r.operation = "DELETE_RULE" ->
         [t EXCEPT !.rules[r.chain] = [k \in 1..(Len(@) - 1) |->
                                         @[IF k <= r.rule_num THEN k ELSE k + 1]],
                   !.number = @ - 1]
    [] r.operation = "NEW_CHAIN" ->
         [t EXCEPT !.rules[r.chain] = IF @ = Null THEN <<>> ELSE @, !.number = @ + 2]
    [] r.operation = "POLICY_ACCEPT" -> [t EXCEPT !.policy[r.chain] = "ACCEPT"]
    [] r.operation = "POLICY_DROP" -> [t EXCEPT !.policy[r.chain] = "DROP"]

Commits(p) == pc[p] = "commit" /\ pc'[p] = "close"

(* A commit puts in place what the command line asks for, done to the      *)
(* table as it was when the tool took its snapshot; every other table, and *)
(* every table in any other step, stays as it is.                          *)
DoesWhatWasAsked ==
  [][/\ (\A p \in Tools : ~Commits(p)) => tables' = tables
     /\ \A p \in Tools : Commits(p) =>
          \E r \in Asked(p) : /\ tables'[r.table] = Carried(r, handle[p].was)
                              /\ \A n \in TableNames \ {r.table} : tables'[n] = tables[n]]_vars

(* Tools that only delete never undo each other: each commit is done to    *)
(* the table as it is, since a table that lost a rule in the meantime has  *)
(* fewer entries than the snapshot.                                        *)
OnlyDeletions == \A p \in Tools : \A k \in 1..Len(argv[p]) : argv[p][k] \notin {"-N", "-P"}

Serial(p) == tables'[rule[p].table] = Carried(rule[p], tables[rule[p].table])

DeletionsSerialize == [][OnlyDeletions => \A p \in Tools : Commits(p) => Serial(p)]_vars

(* iptcmod.c, line 336: a commit approves the tool's changes, the ones it  *)
(* made; it does not take back what others committed.                      *)
CommitsSerialize == [][\A p \in Tools : Commits(p) => Serial(p)]_vars
=============================================================================
