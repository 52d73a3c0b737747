------------------------------ MODULE SshClient ------------------------------
(***************************************************************************)
(* The SSH clients of Lab12, sftp_get.c and exec_rsa.c, with what they     *)
(* share in libcommon.c: the command line is turned into connection data,  *)
(* a session is opened and the server's key shown to the user, the user is *)
(* authenticated, and then a directory is listed and a file downloaded, or *)
(* the output of a command is printed.                                     *)
(*                                                                         *)
(* Every call of libssh2 may fail.  An answer of fgets or scanf that did   *)
(* not come leaves whatever the variable held: any answer at all.          *)
(***************************************************************************)
EXTENDS GetPassword

CONSTANTS
  Args,         (* command lines, the program's name first                *)
  Tokens,       (* the arguments on them                                  *)
  PortOptions,  (* arguments that begin with "-p"                         *)
  AfterOption,  (* what follows "-p" within an argument                   *)
  Strtol,       (* the number an argument begins with                     *)
  UserOf,       (* what precedes the first "@" of an argument, or Null    *)
  Null,
  Unset,        (* what was never written                                 *)
  BufSize,      (* BUF_SIZE, and sizeof(mem) of a download                *)
  MaxSize       (* bound: entries of the directory, bytes of the answer   *)

ASSUME ClientConstants ==
  /\ Args \subseteq Seq(Tokens) \ {<<>>}
  /\ "-p" \in PortOptions /\ PortOptions \subseteq Tokens
  /\ AfterOption \in [PortOptions \ {"-p"} -> Tokens]
  /\ Strtol \in [Tokens -> Nat] /\ Strtol["-p"] = 0
  /\ Unset # Null
  /\ BufSize \in Nat \ {0}
  /\ MaxSize \in Nat

VARIABLES
  prog,         (* "sftp_get" or "exec_rsa"                               *)
  argv,         (* its command line                                       *)
  pos,          (* argvp in parse_connection_data                         *)
  cd,           (* the connection data; the address by the argument       *)
  required,     (* what is still missing                                  *)
  stdio,        (* what stdin holds back from the last read               *)
  ret,          (* the character exec_rsa last read for an answer         *)
  size,         (* what the server has: entries, bytes                    *)
  listed,       (* the entries printed                                    *)
  received,     (* bytes received                                         *)
  got,          (* bytes in buf, or in the local file                     *)
  fault         (* a read or a write of the download failed               *)

argVars == <<argv, pos, cd, required>>
dataVars == <<size, listed, received, got, fault>>
clientVars == <<prog, argVars, stdio, ret, dataVars>>
vars == <<passVars, clientVars>>

NoData == [username |-> Unset, address |-> Unset, port |-> 22]

(* The calls that succeed or end the program, and what comes after each.   *)
Shared == [connect |-> "init", init |-> "startup", startup |-> "hostkey",
           disconnect |-> "session_free", session_free |-> "success"]
Sftp == [sftp_init |-> "opendir", opendir |-> "readdir", closedir |-> "name",
         sftp_open |-> "local", sftp_shutdown |-> "disconnect"]
Exec == [channel |-> "exec", exec |-> "output", close |-> "channel_free",
         channel_free |-> "disconnect"]
IsSftp == prog = "sftp_get"
Work == IF IsSftp THEN "sftp_init" ELSE "channel"

PasswordPlaces == {"block", "hide", "read", "show", "unblock", "try",
                   "show_error", "unblock_error", "failure"}
Places == PasswordPlaces \cup DOMAIN Shared \cup DOMAIN Sftp \cup DOMAIN Exec
          \cup {"parse", "hostkey", "methods", "publickey", "ask", "readdir", "name",
                "local", "download", "output", "success", "crashed"}

PortNumbers == 1..65535
ConnectionData ==
  [username : {UserOf[t] : t \in Tokens} \cup {Unset}, address : Tokens \cup {Unset}, port : PortNumbers]

ArgTypeOK ==
  /\ argv \in Args /\ pos \in Nat \ {0}
  /\ cd \in ConnectionData
  /\ required \subseteq {"username", "address"}
StdinTypeOK == stdio \in Seq(Chars \cup {"\n"}) /\ ret \in Chars \cup {"\n", Unset}
DataTypeOK ==
  /\ size \in 0..MaxSize
  /\ listed \in Seq(0..MaxSize \cup {Unset})
  /\ received \in 0..MaxSize
  /\ got \in Seq(1..MaxSize)
  /\ fault \in BOOLEAN

TypeOK ==
  /\ PassTypeOK
  /\ pc \in Places /\ prog \in {"sftp_get", "exec_rsa"}
  /\ ArgTypeOK /\ StdinTypeOK /\ DataTypeOK

Init ==
  /\ prog \in {"sftp_get", "exec_rsa"}
  /\ argv \in Args
  /\ pc = "parse"
  /\ pos = 1
  /\ cd = NoData
  /\ required = {"username", "address"}
  /\ stdio = <<>>
  /\ ret = Unset
  /\ size \in 0..MaxSize
  /\ listed = <<>>
  /\ received = 0
  /\ got = <<>>
  /\ fault = FALSE
  /\ PassInit

(* The program goes from one place to the next.                            *)
Reaches(place) == pc' = place /\ UNCHANGED <<life, ttyVars>>
Exits == Reaches("failure")
NoTyping == UNCHANGED <<password, taken>>

-----------------------------------------------------------------------------
(* parse_connection_data, an argument at a time from argv[0] on.           *)

Parsing == At("parse") /\ Len(argv) > 1 /\ pos <= Len(argv)

(* goto free: the name is freed if it is not NULL, and a name that was     *)
(* never stored is whatever malloc left there.                             *)
Free == /\ \/ Exits
           \/ cd.username = Unset /\ Reaches("crashed")
        /\ cd' = NoData
        /\ UNCHANGED <<prog, argv, pos, required, stdio, ret, dataVars>> /\ NoTyping

Usage ==
  /\ At("parse")
  /\ Len(argv) < 2
  /\ Exits
  /\ UNCHANGED clientVars /\ NoTyping

(* The loops over the digits (lines 329 and 362) refuse nothing: what      *)
(* counts is the number at the beginning.                                  *)
ZeroPasses(port) == port <= 65535        \* mutant: port 0 is not refused
ValidPort(port) == port > 0 /\ port <= 65535

(* The number in, or after, a port option: argv[k] holds it.               *)
PortOf(k) == IF argv[k] \in PortOptions \ {"-p"} /\ k = pos THEN Strtol[AfterOption[argv[k]]]
             ELSE Strtol[argv[k]]

ParsePort ==
  /\ Parsing
  /\ argv[pos] \in PortOptions
  /\ LET last == IF argv[pos] = "-p" THEN pos + 1 ELSE pos
     IN IF last > Len(argv) THEN Free
        ELSE IF ~ValidPort(PortOf(last)) THEN Free
        ELSE /\ cd' = [cd EXCEPT !.port = PortOf(last)]
             /\ pos' = last + 1
             /\ UNCHANGED <<pc, life, ttyVars, prog, argv, required, stdio, ret, dataVars>>
             /\ NoTyping

IsHost(t) == t \notin PortOptions /\ UserOf[t] # Null

(* An earlier name is overwritten.                                         *)
FirstStays(t) ==                         \* mutant: only the first name is kept
  IF cd.username = Unset THEN UserOf[t] ELSE cd.username
NameIn(t) == UserOf[t]

ParseHost ==
  /\ Parsing
  /\ IsHost(argv[pos])
  /\ IF UserOf[argv[pos]] = "" THEN Free
     ELSE /\ cd' = [cd EXCEPT !.username = NameIn(argv[pos]), !.address = argv[pos]]
          /\ required' = {}
          /\ pos' = pos + 1
          /\ UNCHANGED <<pc, life, ttyVars, prog, argv, stdio, ret, dataVars>> /\ NoTyping

(* malloc of cd fails, or getaddrinfo: there is nothing to free, or a name.*)
ParseFails ==
  /\ Parsing
  /\ \/ pos = 1
     \/ IsHost(argv[pos]) /\ UserOf[argv[pos]] # ""
  /\ Exits
  /\ cd' = NoData
  /\ UNCHANGED <<prog, argv, pos, required, stdio, ret, dataVars>> /\ NoTyping

ParseOther ==
  /\ Parsing
  /\ argv[pos] \notin PortOptions /\ ~IsHost(argv[pos])
  /\ pos' = pos + 1
  /\ UNCHANGED <<passVars, prog, argv, cd, required, stdio, ret, dataVars>>

EndParse ==
  /\ At("parse") /\ Len(argv) > 1
  /\ pos > Len(argv)
  /\ IF required # {} THEN Free
     ELSE Reaches("connect") /\ UNCHANGED clientVars /\ NoTyping

-----------------------------------------------------------------------------
(* The session.                                                            *)

Call(calls) ==
  /\ pc \in DOMAIN calls /\ At(pc)
  /\ Exits \/ Reaches(calls[pc])
  /\ UNCHANGED clientVars /\ NoTyping

SharedCall == Call(Shared)
SftpCall == Call(Sftp)
ExecCall == Call(Exec)

(* stdin takes the next line of a terminal, and all there is of a pipe.    *)
SQ == INSTANCE SequencesExt
WithEnd(line) == Append(line.left, "\n")
Refill == IF tty THEN WithEnd(Head(queue))
          ELSE SQ!FlattenSeq([k \in DOMAIN queue |-> WithEnd(queue[k])])
Remaining == IF tty THEN Tail(queue) ELSE <<>>

(* fgets: up to the end of the line; the first character decides.          *)
AuthenticateServer ==
  /\ At("hostkey")
  /\ queue # <<>>
  /\ LET end == CHOOSE k \in 1..Len(Refill) :
                  Refill[k] = "\n" /\ \A l \in 1..(k - 1) : Refill[l] # "\n"
     IN stdio' = SubSeq(Refill, end + 1, Len(Refill))
  /\ queue' = Remaining
  /\ pc' = IF Refill[1] = "y" THEN "methods" ELSE "failure"
  /\ UNCHANGED <<life, tty, echo, blocked, pending, prog, argVars, ret, dataVars>> /\ NoTyping

(* fgets gives NULL, and accept is not initialised; or there is no hash.   *)
AuthenticateFails ==
  /\ At("hostkey")
  /\ Exits \/ (queue = <<>> /\ Reaches("methods"))
  /\ UNCHANGED clientVars /\ NoTyping

(* The list of methods: exec_rsa goes on with "publickey", sftp_get with   *)
(* that or with "password".  No list, or the method "none", ends both.     *)
Methods ==
  /\ At("methods")
  /\ \E methods \in SUBSET {"publickey", "password"} :
       \/ "publickey" \in methods /\ Reaches(IF IsSftp THEN "publickey" ELSE "ask")
       \/ IsSftp /\ "password" \in methods /\ Reaches("block")
       \/ methods = {} /\ Exits
  /\ UNCHANGED clientVars /\ NoTyping

PublicKey ==
  /\ At("publickey")
  /\ Reaches(Work) \/ Reaches("block") \/ Exits
  /\ UNCHANGED clientVars /\ NoTyping

(* exec_rsa asks whether the key has a password: "t", "n", or once more.   *)
Chosen(c) ==
  /\ pc' = CASE c = "t" -> "block" [] c = "n" -> "try" [] OTHER -> "ask"
  /\ IF c = "n" THEN password' = <<>> /\ taken' = NoLine ELSE NoTyping
  /\ UNCHANGED <<life, tty, echo, blocked, pending, prog, argVars, dataVars>>

(* scanf: a character of what stdin holds, or of what it reads.            *)
Ask ==
  /\ At("ask")
  /\ stdio # <<>> \/ queue # <<>>
  /\ LET held == IF stdio # <<>> THEN stdio ELSE Refill
     IN ret' = Head(held) /\ stdio' = Tail(held) /\ Chosen(Head(held))
  /\ queue' = IF stdio # <<>> THEN queue ELSE Remaining

(* The input ends: ret is as it was, or anything if it was never written.  *)
AskEof ==
  /\ At("ask")
  /\ stdio = <<>> /\ queue = <<>>
  /\ \E c \in (IF ret = Unset THEN Chars \cup {"\n"} ELSE {ret}) : ret' = c /\ Chosen(c)
  /\ UNCHANGED <<stdio, queue>>

(* The server accepts the password, which is cleared, or the user is asked *)
(* again, without end.                                                     *)
Try ==
  /\ At("try")
  /\ \/ Reaches(Work) /\ password' = <<>> /\ UNCHANGED taken
     \/ Reaches(IF IsSftp THEN "block" ELSE "ask") /\ NoTyping
  /\ ret' = Unset
  /\ UNCHANGED <<prog, argVars, stdio, dataVars>>

-----------------------------------------------------------------------------
(* sftp_get: the listing and the download.                                 *)

(* Every call of readdir is followed by a line, the last one too.          *)
Printed == IF listed = <<>> THEN Unset ELSE listed[Len(listed)]

ReadDir ==
  /\ At("readdir")
  /\ \/ /\ Len(listed) < size
        /\ listed' = Append(listed, Len(listed) + 1)
        /\ UNCHANGED <<pc, life, ttyVars>>
     \/ /\ listed' = Append(listed, Printed)
        /\ IF Len(listed) = size THEN Reaches("closedir") \/ Exits ELSE Exits
  /\ UNCHANGED <<prog, argVars, stdio, ret, size, received, got, fault>> /\ NoTyping

(* Nothing reads the input after the name.  A local file that cannot be    *)
(* opened is noticed by nobody.                                            *)
Name ==
  /\ At("name")
  /\ Reaches("sftp_open")
  /\ UNCHANGED clientVars /\ NoTyping

OpenLocal ==
  /\ At("local")
  /\ Reaches("download")
  /\ fault' \in BOOLEAN
  /\ UNCHANGED <<prog, argVars, stdio, ret, size, listed, received, got>> /\ NoTyping

(* The handle is kept in an int: one that does not fit goes astray when it *)
(* is first used.                                                          *)
HandleCut ==
  /\ At("download")
  /\ received = 0
  /\ Reaches("crashed")
  /\ UNCHANGED clientVars /\ NoTyping

Bytes(n) == [k \in 1..n |-> received + k]

WholeBuffer(n) == BufSize                \* mutant: all of mem is written
Written(n) == n

(* A write may store less, or nothing.                                     *)
Download ==
  /\ At("download")
  /\ \E n \in 1..BufSize :
       /\ received + n <= size
       /\ received' = received + n
       /\ \/ got' = got \o Bytes(Written(n)) /\ UNCHANGED fault
          \/ \E w \in 0..(n - 1) : got' = got \o Bytes(w) /\ fault' = TRUE
  /\ UNCHANGED <<passVars, prog, argVars, stdio, ret, size, listed>>

(* The end of the file, or an error: the loop does not tell them apart.    *)
EndDownload ==
  /\ At("download")
  /\ Reaches("sftp_shutdown")
  /\ IF received = size THEN UNCHANGED fault ELSE fault' = TRUE
  /\ UNCHANGED <<prog, argVars, stdio, ret, size, listed, received, got>> /\ NoTyping

-----------------------------------------------------------------------------
(* exec_rsa: the output of the command.                                    *)

FromStart == 0                           \* mutant: read to buf, not buf + total
Total == received

ReadOutput ==
  /\ At("output")
  /\ \E n \in 1..(BufSize - received) :
       /\ received + n <= size
       /\ received' = received + n
       /\ got' = SubSeq(got, 1, Total) \o Bytes(n)
  /\ IF received' < BufSize THEN UNCHANGED <<pc, life, ttyVars>> ELSE Reaches("close")
  /\ UNCHANGED <<prog, argVars, stdio, ret, size, listed, fault>> /\ NoTyping

EndOutput ==
  /\ At("output")
  /\ Exits \/ (received = size /\ Reaches("close"))
  /\ UNCHANGED clientVars /\ NoTyping

-----------------------------------------------------------------------------

Parse == Usage \/ ParsePort \/ ParseHost \/ ParseFails \/ ParseOther \/ EndParse
Session == \/ SharedCall \/ SftpCall \/ ExecCall
           \/ AuthenticateServer \/ AuthenticateFails \/ Methods \/ PublicKey
           \/ Ask \/ AskEof \/ Try
Transfer == ReadDir \/ Name \/ OpenLocal \/ HandleCut \/ Download \/ EndDownload \/ ReadOutput \/ EndOutput

Program == Parse \/ Session \/ Transfer \/ (PasswordStep /\ UNCHANGED clientVars)
Next == Program \/ (User /\ UNCHANGED clientVars)

Spec == Init /\ [][Next]_vars

(* The program and the kernel go on, and the user ends a line asked for.   *)
FairSpec ==
  /\ Spec
  /\ WF_vars(Program)
  /\ WF_vars(\E s \in Signals : Deliver(s) /\ UNCHANGED clientVars)
  /\ WF_vars(Answer /\ UNCHANGED clientVars)

-----------------------------------------------------------------------------
(* What a command line asks for: the last host on it, with the last port   *)
(* or 22.  An argument after "-p" is its number, whatever it looks like.   *)
IsNumber(k) == k > 1 /\ argv[k - 1] = "-p"
PortsGiven == {k \in DOMAIN argv : IsNumber(k) \/ argv[k] \in PortOptions \ {"-p"}}
HostsGiven == {k \in DOMAIN argv : ~IsNumber(k) /\ IsHost(argv[k])}
PortGiven(k) == Strtol[IF IsNumber(k) THEN argv[k] ELSE AfterOption[argv[k]]]
LastIn(S) == CHOOSE k \in S : \A l \in S : l <= k

(* The program connects to what its command line names, and only if every  *)
(* port on it is one.                                                      *)
ConnectsAsAsked ==
  pc \notin {"parse", "failure", "crashed"} =>
    /\ HostsGiven # {}
    /\ argv[Len(argv)] # "-p"
    /\ \A k \in PortsGiven : PortGiven(k) \in PortNumbers
    /\ cd = [username |-> UserOf[argv[LastIn(HostsGiven)]],
             address |-> argv[LastIn(HostsGiven)],
             port |-> IF PortsGiven = {} THEN 22 ELSE PortGiven(LastIn(PortsGiven))]

(* A program that ends with success has listed every entry in order, and   *)
(* saved the file as it is, unless a read or a write failed; or printed as *)
(* much of the output as its buffer holds.                                 *)
AllOf(n) == [k \in 1..n |-> k]
DeliversData ==
  pc = "success" =>
    IF IsSftp THEN SubSeq(listed, 1, size) = AllOf(size) /\ (~fault => got = AllOf(size))
    ELSE got = AllOf(IF size < BufSize THEN size ELSE BufSize)
=============================================================================
