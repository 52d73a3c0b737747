-------------------------- MODULE SshClient_proofs --------------------------
(* Theorems about the SSH clients: the terminal is put back, the password   *)
(* is the line typed unseen, the program connects to what its command line  *)
(* names, and a download or an output that ends with success is whole.      *)
EXTENDS SshClient, Numbers_proofs, SequenceTheorems, TLAPS

(* get_password is the only one to touch the terminal and the signals.      *)
Masked == {"hide", "read", "show", "unblock", "show_error", "unblock_error"}
Quiet == {"read", "show", "show_error"}
TerminalInv ==
  /\ blocked \in BOOLEAN /\ echo \in BOOLEAN /\ tty \in BOOLEAN
  /\ blocked <=> pc \in Masked
  /\ blocked => life = "running"
  /\ ~echo => pc \in Quiet

(* What is queued at a terminal when the line is read was typed unseen and  *)
(* is whole.                                                                *)
QueueUnseen ==
  tty /\ pc = "read" =>
    ~echo /\ \A k \in DOMAIN queue : ~queue[k].shown /\ queue[k].left = queue[k].text
Unseen ==
  IF taken = NoLine THEN password = <<>>
  ELSE /\ ~taken.shown
       /\ Len(password) <= Longest
       /\ password = SubSeq(taken.text, 1, Len(password))
       /\ Len(password) < Longest => password = taken.text
PasswordInv ==
  /\ QueueUnseen
  /\ tty /\ pc \in {"show", "unblock", "try"} => Unseen

(* Which places each program has, and what it holds at each.                *)
Least(m, n) == IF m < n THEN m ELSE n
SftpPlaces == {"publickey", "sftp_init", "opendir", "readdir", "closedir", "name",
               "sftp_open", "local", "download", "sftp_shutdown"}
ExecPlaces == {"ask", "channel", "exec", "output", "close", "channel_free"}
Closing == {"disconnect", "session_free", "success"}
Listed == {"closedir", "name", "sftp_open", "local", "download", "sftp_shutdown"} \cup Closing
Saved == {"sftp_shutdown"} \cup Closing
Output == {"close", "channel_free"} \cup Closing
Waiting == {"readdir", "output", "failure", "crashed"} \cup Listed \cup Output
OwnPlaces == (pc \in SftpPlaces => IsSftp) /\ (pc \in ExecPlaces => ~IsSftp)
Untouched == received = 0 /\ got = <<>> /\ ~fault
ListingInv ==
  /\ pc \notin Waiting => listed = <<>>
  /\ pc = "readdir" => Len(listed) <= size /\ listed = AllOf(Len(listed))
  /\ IsSftp /\ pc \in Listed => size <= Len(listed) /\ SubSeq(listed, 1, size) = AllOf(size)
SavingInv ==
  /\ pc \notin Waiting \/ pc \in {"readdir", "closedir", "name", "sftp_open", "local"} => Untouched
  /\ pc = "download" => received <= size /\ (~fault => got = AllOf(received))
  /\ IsSftp /\ pc \in Saved => (~fault => got = AllOf(size))
OutputInv ==
  /\ pc = "output" => received <= Least(size, BufSize) /\ got = AllOf(received)
  /\ ~IsSftp /\ pc \in Output => got = AllOf(Least(size, BufSize))
DataInv == OwnPlaces /\ ListingInv /\ SavingInv /\ OutputInv

(* The loop over the arguments has seen those before pos, and knows the     *)
(* last host and the last port among them.                                  *)
HostsSeen == {k \in HostsGiven : k < pos}
PortsSeen == {k \in PortsGiven : k < pos}
IsLast(k, S) == k \in S /\ \A l \in S : l <= k
ArgumentsSeen ==
  /\ pos <= Len(argv) + 1
  /\ pos > 1 => argv[pos - 1] # "-p"
  /\ \A k \in PortsSeen : PortGiven(k) \in PortNumbers
  /\ HostsSeen = {} => required # {}
  /\ HostsSeen # {} =>
       /\ required = {}
       /\ \E k \in HostsSeen : IsLast(k, HostsSeen) /\ cd.username = UserOf[argv[k]] /\ cd.address = argv[k]
  /\ PortsSeen = {} => cd.port = 22
  /\ PortsSeen # {} => \E k \in PortsSeen : IsLast(k, PortsSeen) /\ cd.port = PortGiven(k)
ParseInv ==
  /\ pc = "parse" => ArgumentsSeen
  /\ pc \notin {"parse", "failure", "crashed"} => ArgumentsSeen /\ pos = Len(argv) + 1 /\ HostsSeen # {}

(* The sequences put together end as each of them does: by the least number *)
(* of them for which they would not.                                        *)
LEMMA FlattenSeqEnded ==
  ASSUME NEW S, NEW e, NEW ss \in Seq(Seq(S)), ss # <<>>,
         \A i \in 1..Len(ss) : ss[i] # <<>> /\ ss[i][Len(ss[i])] = e
  PROVE  LET q == SQ!FlattenSeq(ss)
         IN q \in Seq(S) /\ q # <<>> /\ q[Len(q)] = e
<1> DEFINE N == Len(ss)
           R == {q \in Seq(S) : q # <<>> /\ q[Len(q)] = e}
           F(g, n) == [i \in 1..n |-> IF i = 1 THEN ss[i] ELSE g[i - 1] \o ss[i]]
           flatten == CHOOSE g : g = F(g, N)
<1>0. N \in Nat \ {0} /\ N \in 0..N /\ N \in 1..N /\ 0..N \in SUBSET Nat
  <2>1. N \in Nat \ {0}
    BY EmptySeq
  <2> QED
    BY <2>1
<1>1. \A i \in 1..N : ss[i] \in R
  <2>1. N \in Nat \ {0}
    BY <1>0
  <2>2. \A i \in 1..N : ss[i] \in Seq(S)
    BY ElementOfSeq
  <2> QED
    BY <2>1, <2>2
<1>2. ASSUME NEW p \in R, NEW q \in R PROVE p \o q \in R
  <2>1. /\ p \o q \in Seq(S) /\ Len(p \o q) = Len(p) + Len(q)
        /\ \A i \in 1..Len(p) + Len(q) : (p \o q)[i] = IF i <= Len(p) THEN p[i] ELSE q[i - Len(p)]
    BY <1>2, ConcatProperties
  <2>2. Len(p) \in Nat \ {0} /\ Len(q) \in Nat \ {0}
    BY <1>2, EmptySeq
  <2>3. (p \o q)[Len(p) + Len(q)] = e
    BY <1>2, <2>1, <2>2
  <2>4. p \o q # <<>>
    BY <2>1, <2>2, EmptySeq
  <2> QED
    BY <2>1, <2>3, <2>4
<1>3. \A n \in 0..N : \E g : g = F(g, n) /\ \A i \in 1..n : g[i] \in R
  <2> DEFINE Bad == {n \in 0..N : ~ \E g : g = F(g, n) /\ \A i \in 1..n : g[i] \in R}
  <2> SUFFICES ASSUME Bad # {} PROVE FALSE
    OBVIOUS
  <2>1. PICK n \in Bad : \A l \in Bad : n <= l
    <3>1. Bad \in SUBSET Nat
      <4> HIDE DEF R, F
      <4> QED
        BY <1>0
    <3> HIDE DEF Bad
    <3> QED
      BY <3>1, LeastNumber
  <2>2. n # 0
    <3> SUFFICES ASSUME n = 0 PROVE FALSE
      OBVIOUS
    <3> DEFINE g == [i \in 1..0 |-> 0]
    <3>1. 1..0 = {}
      OBVIOUS
    <3>2. g = F(g, 0)
      BY <3>1
    <3> QED
      BY <3>1, <3>2, <2>1
  <2>3. n \in 1..N /\ n - 1 \in 0..N /\ n - 1 \notin Bad
    <3>1. n \in 0..N
      OBVIOUS
    <3>2. n \in 1..N /\ n - 1 \in 0..N /\ n - 1 < n
      BY <3>1, <1>0, <2>2
    <3> HIDE DEF Bad
    <3> QED
      BY <3>2, <1>0, <2>1
  <2>4. PICK g : g = F(g, n - 1) /\ \A i \in 1..(n - 1) : g[i] \in R
    BY <2>3
  <2> DEFINE last == IF n = 1 THEN ss[n] ELSE g[n - 1] \o ss[n]
             h == [i \in 1..n |-> IF i < n THEN g[i] ELSE last]
  <2>5. last \in R
    <3>1. CASE n = 1
      BY <3>1, <1>1, <2>3
    <3>2. CASE n # 1
      <4> HIDE DEF R, F
      <4>1. n - 1 \in 1..(n - 1) /\ g[n - 1] \in R /\ ss[n] \in R
        BY <3>2, <1>0, <1>1, <2>3, <2>4
      <4> QED
        BY <3>2, <4>1, <1>2
    <3> QED
      BY <3>1, <3>2
  <2>6. \A i \in 1..n : h[i] \in R
    <3> HIDE DEF R, last
    <3> QED
      BY <2>3, <2>4, <2>5
  <2>7. \A i \in 1..(n - 1) : g[i] = IF i = 1 THEN ss[i] ELSE g[i - 1] \o ss[i]
    <3> HIDE DEF R
    <3> QED
      BY <2>4
  <2>8. \A i \in 1..n : h[i] = IF i = 1 THEN ss[i] ELSE h[i - 1] \o ss[i]
    <3> SUFFICES ASSUME NEW i \in 1..n PROVE h[i] = IF i = 1 THEN ss[i] ELSE h[i - 1] \o ss[i]
      OBVIOUS
    <3>1. CASE i < n
      BY <3>1, <2>3, <2>7
    <3>2. CASE i = n
      BY <3>2, <2>3
    <3> QED
      BY <3>1, <3>2, <2>3
  <2>9. h = F(h, n)
    <3> HIDE DEF R, last
    <3> QED
      BY <2>8
  <2> QED
    <3> HIDE DEF h, R
    <3>1. n \notin Bad
      BY <2>6, <2>9, <2>1
    <3> QED
      BY <3>1, <2>1
<1>4. flatten = F(flatten, N)
  <2>1. \E g : g = F(g, N)
    <3> HIDE DEF R, F
    <3> QED
      BY <1>0, <1>3
  <2> QED
    BY <2>1
<1> HIDE DEF R
<1>5. \A i \in 1..N : flatten[i] = IF i = 1 THEN ss[i] ELSE flatten[i - 1] \o ss[i]
  <2> HIDE DEF flatten
  <2> QED
    BY <1>4
<1>6. SQ!FlattenSeq(ss) = flatten[N]
  BY <1>0 DEF SQ!FlattenSeq
<1> HIDE DEF flatten
<1>7. flatten[N] \in R
  <2> DEFINE Bad == {n \in 1..N : flatten[n] \notin R}
  <2> HIDE DEF R
  <2> SUFFICES ASSUME Bad # {} PROVE FALSE
    BY <1>0
  <2>1. PICK n \in Bad : \A l \in Bad : n <= l
    <3>1. Bad \in SUBSET Nat
      BY <1>0
    <3> HIDE DEF Bad
    <3> QED
      BY <3>1, LeastNumber
  <2>2. CASE n = 1
    BY <2>1, <2>2, <1>0, <1>1, <1>5
  <2>3. CASE n # 1
    <3>1. n - 1 \in 1..N /\ flatten[n - 1] \in R /\ ss[n] \in R
      BY <2>1, <2>3, <1>0, <1>1
    <3> QED
      BY <2>1, <2>3, <3>1, <1>2, <1>5
  <2> QED
    BY <2>2, <2>3
<1> QED
  BY <1>6, <1>7 DEF R

-----------------------------------------------------------------------------
(* A line taken for stdin is characters up to the end of a line.            *)
LEMMA LineEnded ==
  ASSUME NEW line \in Line
  PROVE  /\ WithEnd(line) \in Seq(Chars \cup {"\n"})
         /\ WithEnd(line) # <<>>
         /\ WithEnd(line)[Len(WithEnd(line))] = "\n"
<1>1. line.left \in Seq(Chars \cup {"\n"})
  BY SeqMonotonic DEF Line
<1>2. /\ Append(line.left, "\n") \in Seq(Chars \cup {"\n"})
      /\ Append(line.left, "\n") # <<>>
      /\ Len(Append(line.left, "\n")) = Len(line.left) + 1
      /\ Append(line.left, "\n")[Len(line.left) + 1] = "\n"
  BY <1>1, AppendProperties
<1> QED
  BY <1>2 DEF WithEnd

(* What stdin takes ends as a line does, and what is left is lines.         *)
LEMMA RefillEnded ==
  ASSUME queue \in Seq(Line), queue # <<>>
  PROVE  /\ Refill \in Seq(Chars \cup {"\n"})
         /\ Refill # <<>>
         /\ Refill[Len(Refill)] = "\n"
         /\ Remaining \in Seq(Line)
<1> DEFINE ss == [k \in DOMAIN queue |-> WithEnd(queue[k])]
<1>1. Head(queue) \in Line /\ Tail(queue) \in Seq(Line)
  BY HeadTailProperties
<1>2. Len(queue) \in Nat \ {0} /\ DOMAIN queue = 1..Len(queue)
  BY EmptySeq, LenProperties
<1>3. \A k \in 1..Len(queue) : queue[k] \in Line
  BY ElementOfSeq
<1>4. ss \in Seq(Seq(Chars \cup {"\n"})) /\ Len(ss) = Len(queue)
  <2>1. ss \in [1..Len(queue) -> Seq(Chars \cup {"\n"})]
    BY <1>2, <1>3, LineEnded
  <2> HIDE DEF ss
  <2> QED
    BY <1>2, <2>1, SeqDef
<1>5. ss # <<>>
  <2> HIDE DEF ss
  <2> QED
    BY <1>2, <1>4, EmptySeq
<1>6. \A k \in 1..Len(ss) : ss[k] # <<>> /\ ss[k][Len(ss[k])] = "\n"
  BY <1>2, <1>3, <1>4, LineEnded
<1>7. LET q == SQ!FlattenSeq(ss)
      IN q \in Seq(Chars \cup {"\n"}) /\ q # <<>> /\ q[Len(q)] = "\n"
  <2> HIDE DEF ss
  <2> QED
    BY <1>4, <1>5, <1>6, FlattenSeqEnded
<1>8. CASE tty
  BY <1>1, <1>8, LineEnded DEF Refill, Remaining
<1>9. CASE ~tty
  BY <1>7, <1>9, EmptySeq DEF Refill, Remaining
<1> QED
  BY <1>8, <1>9

(* What is left of a sequence after one of its elements.                    *)
LEMMA AfterElement ==
  ASSUME NEW S, NEW s \in Seq(S), NEW m \in 1..(Len(s) + 2)
  PROVE  SubSeq(s, m, Len(s)) \in Seq(S)
<1>1. Len(s) \in Nat /\ \A i \in 1..Len(s) : s[i] \in S
  BY LenProperties, ElementOfSeq
<1>2. \A i \in m..Len(s) : s[i] \in S
  BY <1>1
<1>3. m \in Int /\ Len(s) \in Int
  BY <1>1
<1> QED
  BY <1>2, <1>3, SubSeqProperties

-----------------------------------------------------------------------------
(* Types.                                                                   *)
LEMMA PasswordStepTypes ==
  ASSUME TypeOK, PasswordStep, UNCHANGED clientVars
  PROVE  TypeOK'
<1> USE PasswordConstants DEF At
<1>1. PassTypeOK
  BY DEF TypeOK
<1>2. <<>> \in Seq(Line) /\ <<>> \in Seq(Chars) /\ Len(<<>>) = 0
  BY EmptySeq
<1>3. PassTypeOK' /\ pc' \in PasswordPlaces
  <2> USE DEF PassTypeOK, ttyVars, PasswordPlaces
  <2>1. CASE Block
    BY <1>1, <2>1 DEF Block
  <2>2. CASE Hide
    BY <1>1, <1>2, <2>2 DEF Hide, Flushed
  <2>3. CASE ReadLine
    <3> DEFINE line == Head(queue)
               rest == [line EXCEPT !.left = SubSeq(@, PassLen + 1, Len(@))]
    <3>1. line \in Line /\ Tail(queue) \in Seq(Line)
      BY <1>1, <2>3, HeadTailProperties DEF ReadLine
    <3>2. line.left \in Seq(Chars) /\ Len(line.left) \in Nat
      BY <3>1, LenProperties DEF Line
    <3>3. CASE Len(line.left) <= Longest
      BY <1>1, <2>3, <3>1, <3>2, <3>3 DEF ReadLine, Longest
    <3>4. CASE ~(Len(line.left) <= Longest)
      <4>1. Longest \in Nat /\ Longest \in Int /\ Longest <= Len(line.left) /\ PassLen + 1 \in 1..(Len(line.left) + 2)
        BY <3>2, <3>4 DEF Longest
      <4>2. \A i \in 1..Longest : line.left[i] \in Chars
        BY <3>2, <4>1, ElementOfSeq
      <4>3. SubSeq(line.left, 1, Longest) \in Seq(Chars) /\ Len(SubSeq(line.left, 1, Longest)) = Longest
        BY <4>1, <4>2, SubSeqProperties
      <4>4. SubSeq(line.left, PassLen + 1, Len(line.left)) \in Seq(Chars)
        BY <3>2, <4>1, AfterElement
      <4>5. rest \in Line
        BY <3>1, <4>4 DEF Line
      <4>6. <<rest>> \o Tail(queue) \in Seq(Line)
        <5> HIDE DEF rest
        <5>1. <<rest>> \in Seq(Line)
          BY <4>5
        <5> QED
          BY <5>1, <3>1, ConcatProperties
      <4>7. password' = SubSeq(line.left, 1, Longest) /\ queue' = <<rest>> \o Tail(queue) /\ taken' = line
        BY <2>3, <3>4 DEF ReadLine
      <4>8. Len(password') < PassLen
        BY <4>3, <4>7 DEF Longest
      <4> HIDE DEF line, rest
      <4> QED
        BY <1>1, <2>3, <3>1, <4>3, <4>6, <4>7, <4>8 DEF ReadLine
    <3> QED
      BY <3>3, <3>4
  <2>4. CASE ReadEof \/ ReadError
    <3>1. <<>> \in Seq(Chars) /\ Len(<<>>) < PassLen
      BY <1>2
    <3>2. password' = <<>> /\ taken' = NoLine /\ UNCHANGED <<life, ttyVars>> /\ pc' \in {"show", "show_error"}
      BY <2>4 DEF ReadEof, ReadError
    <3> QED
      BY <1>1, <3>1, <3>2
  <2>5. CASE Show
    BY <1>1, <1>2, <2>5 DEF Show, Flushed, Restored
  <2>6. CASE Unblock
    BY <1>1, <2>6 DEF Unblock, OldMask
  <2> QED
    BY <2>1, <2>2, <2>3, <2>4, <2>5, <2>6 DEF PasswordStep
<1> HIDE DEF At
<1> QED
  BY <1>3 DEF TypeOK, Places, clientVars, argVars, dataVars, ArgTypeOK, StdinTypeOK, DataTypeOK

(* So does the user.                                                        *)
LEMMA UserTypes ==
  ASSUME TypeOK, User, UNCHANGED clientVars
  PROVE  TypeOK'
<1> USE PasswordConstants
<1>1. PassTypeOK
  BY DEF TypeOK
<1>2. PassTypeOK' /\ pc' = pc
  <2> USE DEF PassTypeOK
  <2>1. ASSUME NEW line \in TypedLines, Type(line) PROVE PassTypeOK' /\ pc' = pc
    <3>1. [text |-> line, left |-> line, shown |-> echo] \in Line
      BY <1>1 DEF Line
    <3>2. queue' \in Seq(Line)
      BY <1>1, <2>1, <3>1, AppendProperties DEF Type
    <3> QED
      BY <1>1, <2>1, <3>2 DEF Type
  <2>2. ASSUME NEW s \in Signals, Send(s) \/ Deliver(s) PROVE PassTypeOK' /\ pc' = pc
    BY <1>1, <2>2 DEF Send, Deliver, Effect
  <2>3. CASE Continue
    BY <1>1, <2>3 DEF Continue
  <2> QED
    BY <2>1, <2>2, <2>3 DEF User
<1> QED
  BY <1>2 DEF TypeOK, clientVars, argVars, dataVars, ArgTypeOK, StdinTypeOK, DataTypeOK

(* A record of connection data with another port.                           *)
LEMMA RecordWithPort ==
  ASSUME NEW U, NEW A, NEW P, NEW c \in [username : U, address : A, port : P], NEW n \in P
  PROVE  LET d == [c EXCEPT !.port = n]
         IN /\ d \in [username : U, address : A, port : P]
            /\ d.username = c.username /\ d.address = c.address /\ d.port = n
<1>1. [c EXCEPT !.port = n] \in [username : U, address : A, port : P]
  OBVIOUS
<1>2. [c EXCEPT !.port = n].username = c.username /\ [c EXCEPT !.port = n].address = c.address
  OBVIOUS
<1>3. [c EXCEPT !.port = n].port = n
  OBVIOUS
<1> QED
  BY <1>1, <1>2, <1>3, Zenon

(* A record of connection data with another host.                           *)
LEMMA RecordWithHost ==
  ASSUME NEW U, NEW A, NEW P, NEW c \in [username : U, address : A, port : P],
         NEW u \in U, NEW a \in A
  PROVE  LET d == [c EXCEPT !.username = u, !.address = a]
         IN /\ d \in [username : U, address : A, port : P]
            /\ d.username = u /\ d.address = a /\ d.port = c.port
<1>1. [c EXCEPT !.username = u, !.address = a] \in [username : U, address : A, port : P]
  OBVIOUS
<1>2. LET d == [c EXCEPT !.username = u, !.address = a]
      IN d.username = u /\ d.address = a /\ d.port = c.port
  OBVIOUS
<1> QED
  BY <1>1, <1>2, Zenon

(* So for the record of the client.                                         *)
LEMMA WithPort ==
  ASSUME NEW c \in ConnectionData, NEW n \in PortNumbers
  PROVE  LET d == [c EXCEPT !.port = n]
         IN /\ d \in ConnectionData
            /\ d.username = c.username /\ d.address = c.address /\ d.port = n
BY RecordWithPort, Zenon DEF ConnectionData

(* And for a host.                                                          *)
LEMMA WithHost ==
  ASSUME NEW c \in ConnectionData, NEW t \in Tokens
  PROVE  LET d == [c EXCEPT !.username = UserOf[t], !.address = t]
         IN /\ d \in ConnectionData
            /\ d.username = UserOf[t] /\ d.address = t /\ d.port = c.port
<1>1. UserOf[t] \in {UserOf[s] : s \in Tokens} \cup {Unset} /\ t \in Tokens \cup {Unset}
  OBVIOUS
<1> QED
  BY <1>1, RecordWithHost, Zenon DEF ConnectionData

(* The check of line 330 and 363 lets exactly the port numbers pass.        *)
LEMMA ValidIsPort ==
  ASSUME NEW n \in Nat
  PROVE  ValidPort(n) <=> n \in PortNumbers
BY SMT DEF ValidPort, PortNumbers

(* The loop over the arguments keeps the types, and ends at the session or  *)
(* at the end of the program.                                               *)
LEMMA ParseTypes ==
  ASSUME TypeOK, Parse
  PROVE  /\ TypeOK' /\ UNCHANGED <<prog, argv, dataVars>>
         /\ pc = "parse" /\ pc' \in {"parse", "connect", "failure", "crashed"}
<1> USE ClientConstants
<1>1. /\ PassTypeOK /\ ArgTypeOK /\ StdinTypeOK /\ DataTypeOK
      /\ prog \in {"sftp_get", "exec_rsa"} /\ argv \in Seq(Tokens)
  BY DEF TypeOK, ArgTypeOK
<1>2. \A k \in 1..Len(argv) : argv[k] \in Tokens
  BY <1>1, ElementOfSeq
<1>3. NoData \in ConnectionData
  BY SMT DEF NoData, ConnectionData, PortNumbers
<1>4. Len(argv) \in Nat
  BY <1>1, LenProperties
<1> DEFINE Kept == UNCHANGED <<prog, argv, life, ttyVars, stdio, ret, dataVars, password, taken>>
           Moves == /\ pc' \in {"parse", "connect", "failure", "crashed"}
                    /\ cd' \in ConnectionData /\ pos' \in Nat \ {0} /\ required' \subseteq {"username", "address"}
<1>5. Kept /\ Moves
  <2>1. ASSUME Free PROVE Kept /\ (pos' = pos /\ required' = required => Moves)
    BY <2>1, <1>1, <1>3 DEF Free, ArgTypeOK, NoTyping, Reaches, Exits
  <2>2. CASE Usage
    BY <2>2, <1>1 DEF Usage, ArgTypeOK, NoTyping, Reaches, Exits, clientVars, argVars
  <2>3. CASE ParsePort
    <3> DEFINE last == IF argv[pos] = "-p" THEN pos + 1 ELSE pos
    <3>1. CASE Free
      BY <2>1, <3>1, Zenon DEF Free
    <3>2. CASE ~Free
      <4>1. /\ ValidPort(PortOf(last)) /\ ~(last > Len(argv))
            /\ cd' = [cd EXCEPT !.port = PortOf(last)]
            /\ pos' = last + 1
            /\ UNCHANGED <<pc, life, ttyVars, prog, argv, required, stdio, ret, dataVars>>
            /\ NoTyping
        BY <2>3, <3>2, Zenon DEF ParsePort
      <4>2. pos \in Nat \ {0} /\ pos <= Len(argv) /\ pc = "parse"
        BY <1>1, <2>3, Zenon DEF ParsePort, ArgTypeOK, Parsing, At
      <4>3. last \in 1..Len(argv) /\ pos \in 1..Len(argv)
        BY <1>4, <4>1, <4>2
      <4> HIDE DEF last
      <4>4. PortOf(last) \in Nat
        <5>1. argv[last] \in Tokens /\ argv[pos] \in Tokens
          BY <1>2, <4>3
        <5>2. argv[last] \in PortOptions \ {"-p"} => AfterOption[argv[last]] \in Tokens
          BY ClientConstants
        <5>3. \A t \in Tokens : Strtol[t] \in Nat
          BY ClientConstants
        <5> QED
          BY <5>1, <5>2, <5>3, Zenon DEF PortOf
      <4>5. PortOf(last) \in PortNumbers
        <5>1. ValidPort(PortOf(last))
          BY <4>1, Zenon
        <5> QED
          BY <4>4, <5>1, ValidIsPort, Zenon
      <4>6. cd' \in ConnectionData
        BY <1>1, <4>1, <4>5, WithPort, Zenon DEF ArgTypeOK
      <4>7. pos' \in Nat \ {0}
        BY <4>1, <4>3
      <4>8. pc' = "parse" /\ required' \subseteq {"username", "address"}
        BY <1>1, <4>1, <4>2, Zenon DEF ArgTypeOK
      <4> QED
        BY <4>1, <4>6, <4>7, <4>8, Zenon DEF NoTyping
    <3> QED
      BY <3>1, <3>2
  <2>4. CASE ParseHost
    <3>1. argv[pos] \in Tokens
      <4>1. pos \in Nat \ {0} /\ pos <= Len(argv)
        BY <1>1, <2>4, Zenon DEF ParseHost, ArgTypeOK, Parsing
      <4> QED
        BY <1>2, <1>4, <4>1
    <3>2. CASE Free
      BY <2>1, <3>2, Zenon DEF Free
    <3>3. CASE ~Free
      <4>1. /\ cd' = [cd EXCEPT !.username = UserOf[argv[pos]], !.address = argv[pos]]
            /\ required' = {} /\ pos' = pos + 1 /\ pc = "parse"
            /\ UNCHANGED <<pc, life, ttyVars, prog, argv, stdio, ret, dataVars>> /\ NoTyping
        BY <2>4, <3>3, Zenon DEF ParseHost, NameIn, Parsing, At
      <4>2. cd' \in ConnectionData
        BY <1>1, <3>1, <4>1, WithHost, Zenon DEF ArgTypeOK
      <4>3. pos' \in Nat \ {0}
        BY <1>1, <4>1 DEF ArgTypeOK
      <4> QED
        BY <1>1, <4>1, <4>2, <4>3, Zenon DEF NoTyping
    <3> QED
      BY <3>2, <3>3
  <2>5. CASE ParseFails
    BY <2>5, <1>1, <1>3 DEF ParseFails, ArgTypeOK, NoTyping, Reaches, Exits
  <2>6. CASE ParseOther
    <3>1. /\ pos' = pos + 1 /\ pc = "parse"
          /\ UNCHANGED <<passVars, prog, argv, cd, required, stdio, ret, dataVars>>
      BY <2>6, Zenon DEF ParseOther, Parsing, At
    <3>2. pos' \in Nat \ {0} /\ pc' = pc /\ cd' \in ConnectionData /\ required' \subseteq {"username", "address"}
      BY <1>1, <3>1 DEF passVars, ArgTypeOK
    <3>3. Kept
      BY <3>1 DEF passVars, ttyVars
    <3> QED
      BY <3>1, <3>2, <3>3, Zenon
  <2>7. CASE EndParse
    <3>1. CASE Free
      BY <2>1, <3>1, Zenon DEF Free
    <3> QED
      BY <2>7, <3>1, <1>1 DEF EndParse, ArgTypeOK, NoTyping, Reaches, clientVars, argVars
  <2> QED
    BY <2>2, <2>3, <2>4, <2>5, <2>6, <2>7 DEF Parse
<1>6. PassTypeOK'
  BY <1>1, <1>5 DEF PassTypeOK, ttyVars
<1>7. ArgTypeOK' /\ StdinTypeOK' /\ DataTypeOK'
  BY <1>1, <1>5 DEF TypeOK, ArgTypeOK, StdinTypeOK, DataTypeOK, dataVars
<1>8. pc' \in Places
  BY <1>5 DEF Places, Shared, PasswordPlaces
<1>9. pc = "parse"
  BY DEF Parse, Usage, ParsePort, ParseHost, ParseFails, ParseOther, EndParse, Parsing, At
<1> HIDE DEF Kept
<1>10. UNCHANGED <<prog, argv, dataVars>> /\ UNCHANGED prog
  BY <1>5 DEF Kept
<1> HIDE DEF Moves
<1>11. TypeOK'
  BY <1>1, <1>6, <1>7, <1>8, <1>10 DEF TypeOK
<1> QED
  BY <1>5, <1>9, <1>10, <1>11 DEF Moves

(* The session keeps the types, and touches neither arguments nor data.     *)
LEMMA SessionTypes ==
  ASSUME TypeOK, Session
  PROVE  TypeOK' /\ UNCHANGED <<prog, argVars, dataVars>>
<1>1. /\ PassTypeOK /\ ArgTypeOK /\ StdinTypeOK /\ DataTypeOK
      /\ prog \in {"sftp_get", "exec_rsa"}
  BY DEF TypeOK
<1>2. <<>> \in Seq(Line) /\ <<>> \in Seq(Chars) /\ Len(<<>>) < PassLen
  BY EmptySeq, PasswordConstants
<1> DEFINE Kept == UNCHANGED <<prog, argVars, dataVars, life, tty, echo, blocked, pending>>
           Typed == /\ password' \in Seq(Chars) /\ Len(password') < PassLen
                    /\ taken' \in Line \cup {NoLine}
           Read == queue' \in Seq(Line) /\ StdinTypeOK'
<1>3. Typed <=> Typed
  OBVIOUS
<1>4. NoTyping => Typed
  BY <1>1 DEF NoTyping, PassTypeOK
<1>5. UNCHANGED <<queue, stdio, ret>> => Read
  BY <1>1 DEF PassTypeOK, StdinTypeOK
<1>6. queue # <<>> => /\ Refill \in Seq(Chars \cup {"\n"}) /\ Refill # <<>>
                      /\ Remaining \in Seq(Line)
  BY <1>1, RefillEnded DEF PassTypeOK
<1>7. Kept /\ Typed /\ Read
  <2> HIDE DEF Typed, Read
  <2> USE DEF Reaches, Exits, ttyVars, clientVars
  <2>1. CASE SharedCall \/ SftpCall \/ ExecCall
    BY <2>1, <1>4, <1>5 DEF SharedCall, SftpCall, ExecCall, Call
  <2>2. CASE AuthenticateServer
    <3> DEFINE end == CHOOSE k \in 1..Len(Refill) :
                        Refill[k] = "\n" /\ \A l \in 1..(k - 1) : Refill[l] # "\n"
    <3>1. queue # <<>> /\ stdio' = SubSeq(Refill, end + 1, Len(Refill)) /\ queue' = Remaining /\ ret' = ret
      BY <2>2 DEF AuthenticateServer
    <3>2. end \in 1..Len(Refill)
      <4> DEFINE Ends == {k \in 1..Len(Refill) : Refill[k] = "\n"}
      <4>1. Len(Refill) \in Nat \ {0}
        BY <1>6, <3>1, EmptySeq
      <4>2. Len(Refill) \in Ends /\ Ends \in SUBSET Nat
        BY <1>1, <3>1, <4>1, RefillEnded DEF PassTypeOK
      <4>3. PICK k \in Ends : \A l \in Ends : k <= l
        <5> HIDE DEF Ends
        <5> QED
          BY <4>2, LeastNumber
      <4>4. k \in 1..Len(Refill) /\ Refill[k] = "\n"
        OBVIOUS
      <4>5. \A l \in 1..(k - 1) : Refill[l] # "\n"
        <5> SUFFICES ASSUME NEW l \in 1..(k - 1), Refill[l] = "\n" PROVE FALSE
          OBVIOUS
        <5>1. l \in 1..Len(Refill) /\ ~(k <= l)
          BY <4>1, <4>4
        <5> QED
          BY <4>3, <5>1
      <4> QED
        BY <4>4, <4>5
    <3> HIDE DEF end
    <3>3. end + 1 \in 1..(Len(Refill) + 2)
      <4>1. Len(Refill) \in Nat
        BY <1>6, <3>1, LenProperties
      <4> QED
        BY <3>2, <4>1
    <3>4. stdio' \in Seq(Chars \cup {"\n"})
      BY <1>6, <3>1, <3>3, AfterElement
    <3>5. Read
      BY <1>1, <1>6, <3>1, <3>4 DEF Read, StdinTypeOK
    <3> QED
      BY <2>2, <1>4, <3>5 DEF AuthenticateServer, argVars, dataVars
  <2>3. CASE AuthenticateFails
    BY <2>3, <1>4, <1>5 DEF AuthenticateFails
  <2>4. CASE Methods \/ PublicKey
    BY <2>4, <1>4, <1>5 DEF Methods, PublicKey
  <2>5. ASSUME NEW c, Chosen(c) PROVE Kept /\ Typed
    BY <2>5, <1>2, <1>4 DEF Chosen, Typed
  <2>6. CASE Ask
    <3> DEFINE held == IF stdio # <<>> THEN stdio ELSE Refill
    <3>1. Chosen(Head(held)) /\ ret' = Head(held) /\ stdio' = Tail(held)
      BY <2>6 DEF Ask
    <3>2. held \in Seq(Chars \cup {"\n"}) /\ held # <<>>
      BY <1>1, <1>6, <2>6 DEF Ask, StdinTypeOK
    <3>3. Head(held) \in Chars \cup {"\n"} /\ Tail(held) \in Seq(Chars \cup {"\n"})
      <4> HIDE DEF held
      <4> QED
        BY <3>2, HeadTailProperties
    <3>4. queue' \in Seq(Line)
      BY <1>1, <1>6, <2>6 DEF Ask, PassTypeOK
    <3> HIDE DEF held
    <3>5. Read
      BY <3>1, <3>3, <3>4 DEF Read, StdinTypeOK
    <3> QED
      BY <2>5, <3>1, <3>5
  <2>7. CASE AskEof
    <3>1. PICK c \in (IF ret = Unset THEN Chars \cup {"\n"} ELSE {ret}) : ret' = c /\ Chosen(c)
      BY <2>7 DEF AskEof
    <3>2. Read
      BY <1>1, <2>7, <3>1 DEF AskEof, Read, StdinTypeOK, PassTypeOK
    <3> QED
      BY <2>5, <3>1, <3>2
  <2>8. CASE Try
    <3>1. Typed
      BY <2>8, <1>1, <1>2, <1>4 DEF Try, Typed, PassTypeOK
    <3>2. Read
      BY <2>8, <1>1 DEF Try, Read, StdinTypeOK, PassTypeOK
    <3> QED
      BY <2>8, <3>1, <3>2 DEF Try
  <2> QED
    BY <2>1, <2>2, <2>3, <2>4, <2>6, <2>7, <2>8 DEF Session
<1>8. PassTypeOK'
  BY <1>1, <1>7 DEF PassTypeOK
<1>9. ArgTypeOK' /\ DataTypeOK'
  BY <1>1, <1>7 DEF ArgTypeOK, DataTypeOK, dataVars, argVars
<1>10. pc' \in Places
  <2> USE DEF Reaches, Exits, Places, PasswordPlaces, Work
  <2>1. CASE SharedCall
    BY <2>1 DEF SharedCall, Call, Shared
  <2>2. CASE SftpCall
    BY <2>2 DEF SftpCall, Call, Sftp, Shared
  <2>3. CASE ExecCall
    BY <2>3 DEF ExecCall, Call, Exec, Shared
  <2>4. CASE AuthenticateServer \/ AuthenticateFails
    BY <2>4 DEF AuthenticateServer, AuthenticateFails
  <2>5. CASE Methods \/ PublicKey
    BY <2>5 DEF Methods, PublicKey, Sftp, Exec
  <2>6. CASE Ask \/ AskEof
    BY <2>6 DEF Ask, AskEof, Chosen
  <2>7. CASE Try
    BY <2>7 DEF Try, Sftp, Exec
  <2> QED
    BY <2>1, <2>2, <2>3, <2>4, <2>5, <2>6, <2>7 DEF Session
<1>11. UNCHANGED prog /\ UNCHANGED <<prog, argVars, dataVars>>
  BY <1>7, Zenon
<1>12. TypeOK'
  BY <1>1, <1>7, <1>8, <1>9, <1>10, <1>11 DEF TypeOK
<1> QED
  BY <1>11, <1>12

-----------------------------------------------------------------------------
(* Data.                                                                    *)
LEMMA SequenceOfElements ==
  ASSUME NEW S, NEW n \in Nat, NEW s \in [1..n -> S]
  PROVE  s \in Seq(S) /\ Len(s) = n
BY SeqDef

(* The elements counted from 1 are a sequence of that length.               *)
LEMMA AllOfProperties ==
  ASSUME NEW n \in Nat
  PROVE  /\ AllOf(n) \in Seq(1..n) /\ AllOf(n) \in Seq(Nat) /\ Len(AllOf(n)) = n
         /\ \A k \in 1..n : AllOf(n)[k] = k
         /\ SubSeq(AllOf(n), 1, n) = AllOf(n)
<1>1. AllOf(n) \in [1..n -> 1..n] /\ AllOf(n) \in [1..n -> Nat]
  BY DEF AllOf
<1>2. AllOf(n) \in Seq(1..n) /\ AllOf(n) \in Seq(Nat) /\ Len(AllOf(n)) = n
  BY <1>1, SequenceOfElements
<1>3. SubSeq(AllOf(n), 1, Len(AllOf(n))) = AllOf(n)
  BY <1>2, SubSeqFull
<1> QED
  BY <1>2, <1>3 DEF AllOf

(* A sequence of counted elements is known by its length.                   *)
LEMMA IsAllOf ==
  ASSUME NEW n \in Nat, NEW s \in Seq(Nat), Len(s) = n, \A k \in 1..n : s[k] = k
  PROVE  s = AllOf(n)
<1>1. \A i \in 1..n : s[i] = AllOf(n)[i]
  BY AllOfProperties
<1> QED
  BY <1>1, AllOfProperties, SeqEqual

(* No element, counted.                                                     *)
LEMMA NoneOf == <<>> = AllOf(0)
<1>1. <<>> \in Seq(Nat) /\ Len(<<>>) = 0
  BY EmptySeq
<1>2. \A k \in 1..0 : <<>>[k] = k
  OBVIOUS
<1> QED
  BY <1>1, <1>2, IsAllOf

(* One more element read from the directory.                                *)
LEMMA AllOfAppend ==
  ASSUME NEW n \in Nat
  PROVE  Append(AllOf(n), n + 1) = AllOf(n + 1)
<1> DEFINE s == Append(AllOf(n), n + 1)
<1>1. AllOf(n) \in Seq(Nat) /\ Len(AllOf(n)) = n /\ n + 1 \in Nat
  BY AllOfProperties
<1>2. s \in Seq(Nat) /\ Len(s) = n + 1 /\ (\A k \in 1..n : s[k] = AllOf(n)[k]) /\ s[n + 1] = n + 1
  BY <1>1, AppendProperties
<1>3. \A k \in 1..(n + 1) : s[k] = k
  <2> HIDE DEF s
  <2> TAKE k \in 1..(n + 1)
  <2>1. CASE k \in 1..n
    <3>1. AllOf(n)[k] = k
      BY <2>1, AllOfProperties
    <3> QED
      BY <1>2, <2>1, <3>1
  <2>2. CASE k = n + 1
    BY <1>2, <2>2
  <2> QED
    BY <2>1, <2>2
<1> HIDE DEF s
<1>4. s = AllOf(n + 1)
  BY <1>1, <1>2, <1>3, IsAllOf
<1> QED
  BY <1>4 DEF s

(* The next bytes of an answer.                                             *)
LEMMA AllOfConcat ==
  ASSUME received \in Nat, NEW n \in Nat
  PROVE  AllOf(received) \o Bytes(n) = AllOf(received + n)
<1> DEFINE s == AllOf(received) \o Bytes(n)
<1>1. AllOf(received) \in Seq(Nat) /\ Len(AllOf(received)) = received
  BY AllOfProperties
<1>2. Bytes(n) \in Seq(Nat) /\ Len(Bytes(n)) = n /\ \A k \in 1..n : Bytes(n)[k] = received + k
  <2>1. Bytes(n) \in [1..n -> Nat]
    BY DEF Bytes
  <2> QED
    BY <2>1, SequenceOfElements DEF Bytes
<1>3. /\ s \in Seq(Nat) /\ Len(s) = Len(AllOf(received)) + Len(Bytes(n))
      /\ \A i \in 1..(Len(AllOf(received)) + Len(Bytes(n))) :
           s[i] = IF i <= Len(AllOf(received)) THEN AllOf(received)[i] ELSE Bytes(n)[i - Len(AllOf(received))]
  <2>1. Bytes(n) \in Seq(Nat)
    BY <1>2
  <2> QED
    BY <1>1, <2>1, ConcatProperties
<1> HIDE DEF s
<1>4. \A i \in 1..(received + n) : s[i] = IF i <= received THEN AllOf(received)[i] ELSE Bytes(n)[i - received]
  BY <1>1, <1>2, <1>3
<1>5. \A k \in 1..(received + n) : s[k] = k
  <2> TAKE k \in 1..(received + n)
  <2>1. CASE k <= received
    <3>1. k \in 1..received
      BY <2>1
    <3>2. AllOf(received)[k] = k
      BY <3>1, AllOfProperties
    <3> QED
      BY <1>4, <2>1, <3>2
  <2>2. CASE k > received
    <3>1. k - received \in 1..n
      BY <2>2
    <3>2. Bytes(n)[k - received] = received + (k - received)
      BY <1>2, <3>1
    <3> QED
      BY <1>4, <2>2, <3>2
  <2> QED
    BY <2>1, <2>2
<1>6. s = AllOf(received + n)
  <2>1. received + n \in Nat /\ Len(s) = received + n
    BY <1>1, <1>2, <1>3
  <2> QED
    BY <1>3, <1>5, <2>1, IsAllOf
<1> QED
  BY <1>6 DEF s

(* What a program holds while the data stays as it is depends on where it   *)
(* is, and on nothing else.                                                 *)
LEMMA SameData ==
  ASSUME DataInv, UNCHANGED <<prog, dataVars>>, pc' \in {"failure", "crashed"} \/ pc' = pc
  PROVE  DataInv'
<1> USE DEF DataInv, dataVars
<1>1. CASE pc' = pc
  BY <1>1 DEF OwnPlaces, ListingInv, SavingInv, OutputInv, Untouched, IsSftp
<1>2. CASE pc' \in {"failure", "crashed"}
  BY <1>2 DEF OwnPlaces, ListingInv, SavingInv, OutputInv, SftpPlaces, ExecPlaces, Waiting,
              Listed, Saved, Output, Closing
<1> QED
  BY <1>1, <1>2

(* Before the work begins there is no data.                                 *)
LEMMA BeforeWork ==
  ASSUME DataInv, UNCHANGED <<prog, dataVars>>, pc \notin Waiting, pc' \notin Waiting,
         pc' \in SftpPlaces => IsSftp, pc' \in ExecPlaces => ~IsSftp
  PROVE  DataInv'
BY DEF DataInv, dataVars, OwnPlaces, ListingInv, SavingInv, OutputInv, Untouched, IsSftp,
       Waiting, Listed, Saved, Output, Closing

(* The calls of the session, to the beginning of the work and from its end. *)
LEMMA SessionData ==
  ASSUME TypeOK, DataInv, Session
  PROVE  DataInv'
<1> USE DEF Reaches, Exits
<1>1. UNCHANGED <<prog, dataVars>>
  BY SessionTypes, Zenon
<1>2. ASSUME pc \notin Waiting, pc' \notin Waiting \/ pc' = "failure",
             pc' \in SftpPlaces => IsSftp, pc' \in ExecPlaces => ~IsSftp
      PROVE  DataInv'
  BY <1>1, <1>2, SameData, BeforeWork
<1>3. CASE SharedCall
  <2>1. pc \in {"connect", "init", "startup", "disconnect", "session_free"}
        /\ (pc' = "failure" \/ pc' = Shared[pc])
    BY <1>3 DEF SharedCall, Call, Shared
  <2>2. CASE pc' = "failure"
    BY <1>1, <2>2, SameData
  <2>3. CASE pc \in {"connect", "init", "startup"} /\ pc' = Shared[pc]
    <3>1. pc' \in {"init", "startup", "hostkey"}
      BY <2>3 DEF Shared
    <3> QED
      BY <1>2, <2>3, <3>1 DEF Waiting, Listed, Output, Closing, SftpPlaces, ExecPlaces
  <2>4. CASE pc \in {"disconnect", "session_free"} /\ pc' = Shared[pc]
    <3>1. pc' \in {"session_free", "success"}
      BY <2>4 DEF Shared
    <3> QED
      BY <1>1, <2>4, <3>1 DEF DataInv, dataVars, OwnPlaces, ListingInv, SavingInv, OutputInv,
           IsSftp, SftpPlaces, ExecPlaces, Waiting, Listed, Saved, Output, Closing
  <2> QED
    BY <2>1, <2>2, <2>3, <2>4
<1>4. CASE SftpCall
  <2>1. pc \in {"sftp_init", "opendir", "closedir", "sftp_open", "sftp_shutdown"}
        /\ (pc' = "failure" \/ pc' = Sftp[pc])
    BY <1>4 DEF SftpCall, Call, Sftp
  <2>2. CASE pc' = "failure"
    BY <1>1, <2>2, SameData
  <2>3. CASE pc' = Sftp[pc]
    <3>1. /\ pc = "sftp_init" => pc' = "opendir"
          /\ pc = "opendir" => pc' = "readdir"
          /\ pc = "closedir" => pc' = "name"
          /\ pc = "sftp_open" => pc' = "local"
          /\ pc = "sftp_shutdown" => pc' = "disconnect"
      BY <2>3 DEF Sftp
    <3>2. IsSftp /\ IsSftp'
      BY <1>1, <2>1 DEF DataInv, OwnPlaces, SftpPlaces, IsSftp
    <3>3. CASE pc = "opendir"
      <4>1. listed = <<>> /\ Untouched
        BY <3>3 DEF DataInv, ListingInv, SavingInv, Waiting, Listed, Output, Closing
      <4>2. Len(listed) = 0 /\ listed = AllOf(0) /\ 0 <= size
        <5>1. Len(<<>>) = 0
          BY EmptySeq
        <5> QED
          BY <4>1, <5>1, NoneOf, ClientConstants DEF TypeOK, DataTypeOK
      <4> QED
        BY <1>1, <3>1, <3>2, <3>3, <4>1, <4>2 DEF DataInv, dataVars, OwnPlaces, ListingInv, SavingInv,
             OutputInv, Untouched, ExecPlaces, Waiting, Listed, Saved, Output, Closing
    <3>4. CASE pc # "opendir"
      BY <1>1, <2>1, <3>1, <3>2, <3>4 DEF DataInv, dataVars, OwnPlaces, ListingInv, SavingInv,
             OutputInv, Untouched, ExecPlaces, Waiting, Listed, Saved, Output, Closing
    <3> QED
      BY <3>3, <3>4
  <2> QED
    BY <2>1, <2>2, <2>3
<1>5. CASE ExecCall
  <2>1. pc \in {"channel", "exec", "close", "channel_free"}
        /\ (pc' = "failure" \/ pc' = Exec[pc])
    BY <1>5 DEF ExecCall, Call, Exec
  <2>2. CASE pc' = "failure"
    BY <1>1, <2>2, SameData
  <2>3. CASE pc' = Exec[pc]
    <3>1. /\ pc = "channel" => pc' = "exec"
          /\ pc = "exec" => pc' = "output"
          /\ pc = "close" => pc' = "channel_free"
          /\ pc = "channel_free" => pc' = "disconnect"
      BY <2>3 DEF Exec
    <3>2. ~IsSftp /\ ~IsSftp'
      BY <1>1, <2>1 DEF DataInv, OwnPlaces, ExecPlaces, IsSftp
    <3>3. CASE pc = "exec"
      <4>1. Untouched
        BY <3>3 DEF DataInv, SavingInv, Waiting, Listed, Output, Closing
      <4>2. <<>> = AllOf(0) /\ 0 <= Least(size, BufSize)
        BY NoneOf, ClientConstants DEF TypeOK, DataTypeOK, Least
      <4>3. UNCHANGED Least(size, BufSize)
        BY <1>1 DEF dataVars, Least
      <4> QED
        BY <1>1, <3>1, <3>2, <3>3, <4>1, <4>2, <4>3 DEF DataInv, dataVars, OwnPlaces, ListingInv, SavingInv,
             OutputInv, Untouched, SftpPlaces, Waiting, Listed, Saved, Output, Closing
    <3>4. CASE pc # "exec"
      <4>3. UNCHANGED Least(size, BufSize)
        BY <1>1 DEF dataVars, Least
      <4> QED
        BY <1>1, <2>1, <3>1, <3>2, <3>4, <4>3 DEF DataInv, dataVars, OwnPlaces, ListingInv, SavingInv,
             OutputInv, Untouched, SftpPlaces, Waiting, Listed, Saved, Output, Closing
    <3> QED
      BY <3>3, <3>4
  <2> QED
    BY <2>1, <2>2, <2>3
<1>6. CASE AuthenticateServer \/ AuthenticateFails
  <2>1. pc = "hostkey" /\ pc' \in {"methods", "failure"}
    BY <1>6 DEF AuthenticateServer, AuthenticateFails, At
  <2> QED
    BY <1>2, <2>1 DEF Waiting, Listed, Output, Closing, SftpPlaces, ExecPlaces
<1>7. CASE Methods \/ PublicKey \/ Ask \/ AskEof \/ Try
  <2>1. /\ pc \in {"methods", "publickey", "ask", "try"}
        /\ pc' \in {"publickey", "ask", "block", "failure", "try", "sftp_init", "channel"}
        /\ pc' \in {"publickey", "sftp_init"} => IsSftp
        /\ pc = "publickey" => pc' # "ask"
        /\ pc' = "channel" => ~IsSftp
        /\ pc' = "ask" /\ pc # "ask" => ~IsSftp
    <3>1. CASE Methods
      BY <3>1 DEF Methods, At
    <3>2. CASE PublicKey \/ Try
      BY <3>2 DEF PublicKey, Try, At, Work
    <3>3. CASE Ask \/ AskEof
      BY <3>3 DEF Ask, AskEof, Chosen, At
    <3> QED
      BY <1>7, <3>1, <3>2, <3>3
  <2>2. pc' = "ask" => ~IsSftp
    BY <2>1 DEF DataInv, OwnPlaces, ExecPlaces
  <2> QED
    BY <1>2, <2>1, <2>2 DEF Waiting, Listed, Output, Closing, SftpPlaces, ExecPlaces
<1> QED
  BY <1>3, <1>4, <1>5, <1>6, <1>7 DEF Session

(* A transfer leaves everything but the data, and the place, as it is.      *)
LEMMA TransferKeeps ==
  ASSUME Transfer
  PROVE  /\ UNCHANGED <<prog, argVars, stdio, ret, life, ttyVars, password, taken, size>>
         /\ pc \in {"readdir", "name", "local", "download", "output"}
BY DEF Transfer, ReadDir, Name, OpenLocal, HandleCut, Download, EndDownload, ReadOutput, EndOutput,
       Reaches, Exits, NoTyping, passVars, ttyVars, clientVars, argVars, dataVars, At

(* What a step of the work adds keeps the data in order.                    *)
LEMMA TransferData ==
  ASSUME TypeOK, DataInv, Transfer
  PROVE  DataInv' /\ DataTypeOK' /\ pc' \in Places
<1> USE DEF Reaches, Exits
<1>1. UNCHANGED prog /\ UNCHANGED size /\ (IsSftp' <=> IsSftp)
  BY TransferKeeps DEF IsSftp
<1>2. DataTypeOK /\ pc \in Places /\ size \in Nat /\ received \in Nat
  BY ClientConstants DEF TypeOK, DataTypeOK
<1> DEFINE Goal == DataInv' /\ DataTypeOK' /\ pc' \in Places
<1>3. ASSUME UNCHANGED dataVars, pc' \in {"failure", "crashed"} PROVE Goal
  <2>1. pc' \in Places
    BY <1>3 DEF Places, PasswordPlaces
  <2>2. DataTypeOK'
    BY <1>2, <1>3 DEF DataTypeOK, dataVars
  <2> QED
    BY <1>1, <1>3, <2>1, <2>2, SameData
<1>4. CASE ReadDir
  <2>0. pc = "readdir" /\ UNCHANGED <<size, received, got, fault>>
    BY <1>4 DEF ReadDir, At
  <2>1. /\ Len(listed) <= size /\ listed = AllOf(Len(listed)) /\ Untouched /\ IsSftp
        /\ Len(listed) \in Nat /\ listed \in Seq(0..MaxSize \cup {Unset})
    BY <1>2, <2>0, LenProperties DEF DataInv, ListingInv, SavingInv, OwnPlaces, SftpPlaces, DataTypeOK
  <2>2. CASE Len(listed) < size /\ listed' = Append(listed, Len(listed) + 1) /\ UNCHANGED pc
    <3>1. listed' = AllOf(Len(listed) + 1)
      BY <2>1, <2>2, AllOfAppend
    <3>2. Len(listed') = Len(listed) + 1
      BY <2>1, <3>1, AllOfProperties
    <3>3. Len(listed') <= size' /\ listed' = AllOf(Len(listed'))
      BY <1>1, <1>2, <2>1, <2>2, <3>1, <3>2
    <3>4. Len(listed) + 1 \in 0..MaxSize \cup {Unset}
      <4>1. size <= MaxSize
        BY <1>2, ClientConstants DEF DataTypeOK
      <4>2. Len(listed) + 1 \in 0..MaxSize
        BY <1>2, <2>1, <2>2, <4>1, ClientConstants
      <4> QED
        BY <4>2
    <3>5. listed' \in Seq(0..MaxSize \cup {Unset})
      BY <2>1, <2>2, <3>4, AppendProperties
    <3>6. DataInv'
      BY <1>1, <2>0, <2>1, <2>2, <3>3 DEF DataInv, OwnPlaces, ListingInv, SavingInv, OutputInv, Untouched,
           SftpPlaces, ExecPlaces, Waiting, Listed, Saved, Output, Closing
    <3> QED
      BY <1>2, <2>0, <2>2, <3>5, <3>6 DEF DataTypeOK
  <2>3. CASE /\ listed' = Append(listed, Printed)
             /\ pc' = "failure" \/ (Len(listed) = size /\ pc' = "closedir")
    <3>1. Printed \in 0..MaxSize \cup {Unset}
      <4>1. listed # <<>> => Len(listed) \in 1..Len(listed)
        BY <2>1, EmptySeq
      <4> QED
        BY <2>1, <4>1, ElementOfSeq DEF Printed
    <3>2. /\ listed' \in Seq(0..MaxSize \cup {Unset}) /\ Len(listed') = Len(listed) + 1
          /\ \A k \in 1..Len(listed) : listed'[k] = listed[k]
      BY <2>1, <2>3, <3>1, AppendProperties
    <3>3. CASE pc' = "failure"
      BY <1>1, <1>2, <2>0, <3>2, <3>3 DEF DataInv, OwnPlaces, ListingInv, SavingInv, OutputInv,
         DataTypeOK, Places, PasswordPlaces, SftpPlaces, ExecPlaces, Waiting, Listed, Saved, Output, Closing
    <3>4. CASE Len(listed) = size /\ pc' = "closedir"
      <4>1. \A k \in 1..size : listed'[k] = k
        BY <2>1, <3>2, <3>4, AllOfProperties
      <4>2. SubSeq(listed', 1, size) = AllOf(size)
        <5>1. /\ SubSeq(listed', 1, size) \in Seq(Nat) /\ Len(SubSeq(listed', 1, size)) = size
              /\ \A k \in 1..size : SubSeq(listed', 1, size)[k] = listed'[k]
          <6>1. \A k \in 1..size : listed'[k] \in Nat
            BY <1>2, <4>1
          <6>2. size \in Int /\ 1 \in Int /\ size - 1 + 1 = size
            BY <1>2
          <6>3. /\ SubSeq(listed', 1, size) \in Seq(Nat)
                /\ Len(SubSeq(listed', 1, size)) = IF 1 <= size THEN size - 1 + 1 ELSE 0
                /\ \A k \in 1..size - 1 + 1 : SubSeq(listed', 1, size)[k] = listed'[1 + k - 1]
            BY <6>1, <6>2, SubSeqProperties
          <6> QED
            BY <1>2, <6>3
        <5> QED
          BY <1>2, <4>1, <5>1, IsAllOf
      <4>3. size <= Len(listed')
        BY <1>2, <3>2, <3>4
      <4>4. DataInv'
        BY <1>1, <2>0, <2>1, <3>4, <4>2, <4>3 DEF DataInv, OwnPlaces, ListingInv, SavingInv, OutputInv, Untouched,
           SftpPlaces, ExecPlaces, Waiting, Listed, Saved, Output, Closing
      <4>5. pc' \in Places
        BY <3>4 DEF Places, Sftp
      <4> QED
        BY <1>2, <2>0, <3>2, <4>4, <4>5 DEF DataTypeOK
    <3> QED
      BY <2>3, <3>3, <3>4
  <2> QED
    BY <1>4, <2>2, <2>3 DEF ReadDir
<1>5. CASE Name \/ HandleCut
  <2>1. CASE HandleCut
    BY <1>3, <2>1 DEF HandleCut, clientVars
  <2>2. CASE Name
    <3>1. pc = "name" /\ pc' = "sftp_open" /\ UNCHANGED dataVars
      BY <2>2 DEF Name, At, clientVars
    <3>2. DataInv'
      BY <1>1, <3>1 DEF DataInv, dataVars, OwnPlaces, ListingInv, SavingInv, OutputInv, Untouched,
           SftpPlaces, ExecPlaces, Waiting, Listed, Saved, Output, Closing
    <3>3. pc' \in Places
      BY <3>1 DEF Places, Sftp
    <3> QED
      BY <1>2, <3>1, <3>2, <3>3 DEF DataTypeOK, dataVars
  <2> QED
    BY <1>5, <2>1, <2>2
<1>6. CASE OpenLocal
  <2>1. pc = "local" /\ pc' = "download" /\ UNCHANGED <<size, listed, received, got>> /\ fault' \in BOOLEAN
    BY <1>6 DEF OpenLocal, At
  <2>2. received = 0 /\ got = AllOf(received)
    BY <2>1, NoneOf DEF DataInv, SavingInv, Untouched
  <2>3. DataInv'
    BY <1>1, <1>2, <2>1, <2>2 DEF DataInv, OwnPlaces, ListingInv, SavingInv, OutputInv,
           SftpPlaces, ExecPlaces, Waiting, Listed, Saved, Output, Closing
  <2>4. pc' \in Places
    BY <2>1 DEF Places
  <2> QED
    BY <1>2, <2>1, <2>3, <2>4 DEF DataTypeOK
<1>7. ASSUME NEW n \in Nat, received + n <= size
      PROVE  /\ Bytes(n) \in Seq(1..MaxSize)
             /\ got \o Bytes(n) \in Seq(1..MaxSize)
             /\ received + n \in 0..MaxSize
  <2>1. size <= MaxSize /\ MaxSize \in Nat
    BY <1>2, ClientConstants DEF DataTypeOK
  <2>2. Bytes(n) \in [1..n -> 1..MaxSize]
    BY <1>2, <1>7, <2>1 DEF Bytes
  <2>3. Bytes(n) \in Seq(1..MaxSize)
    BY <2>2, SequenceOfElements
  <2>4. got \o Bytes(n) \in Seq(1..MaxSize)
    BY <1>2, <2>3, ConcatProperties DEF DataTypeOK
  <2> QED
    BY <1>2, <1>7, <2>1, <2>3, <2>4
<1>8. CASE Download
  <2>1. PICK n \in 1..BufSize :
          /\ received + n <= size /\ received' = received + n
          /\ \/ got' = got \o Bytes(n) /\ UNCHANGED fault
             \/ \E w \in 0..(n - 1) : got' = got \o Bytes(w) /\ fault' = TRUE
    BY <1>8 DEF Download, Written
  <2>2. n \in Nat /\ pc = "download" /\ pc' = pc /\ UNCHANGED <<size, listed>>
    BY <1>8, ClientConstants DEF Download, passVars, At
  <2>3. received' \in 0..MaxSize /\ got' \in Seq(1..MaxSize) /\ fault' \in BOOLEAN
    <3>1. CASE got' = got \o Bytes(n) /\ UNCHANGED fault
      BY <1>2, <1>7, <2>1, <2>2, <3>1 DEF DataTypeOK
    <3>2. ASSUME NEW w \in 0..(n - 1), got' = got \o Bytes(w) /\ fault' = TRUE
          PROVE  got' \in Seq(1..MaxSize) /\ fault' \in BOOLEAN
      <4>1. w \in Nat /\ received + w <= size
        BY <1>2, <2>1, <2>2
      <4> QED
        BY <1>7, <3>2, <4>1
    <3>3. received' \in 0..MaxSize
      BY <1>7, <2>1, <2>2
    <3> QED
      BY <2>1, <3>1, <3>2, <3>3
  <2>4. received' <= size' /\ (~fault' => got' = AllOf(received'))
    <3>1. ~fault' => ~fault /\ got' = got \o Bytes(n)
      BY <2>1
    <3>2. ~fault => got = AllOf(received)
      BY <2>2 DEF DataInv, SavingInv
    <3>3. AllOf(received) \o Bytes(n) = AllOf(received + n)
      BY <1>2, <2>2, AllOfConcat
    <3> QED
      BY <2>1, <2>2, <3>1, <3>2, <3>3
  <2>5. DataInv'
    BY <1>1, <2>2, <2>4 DEF DataInv, OwnPlaces, ListingInv, SavingInv, OutputInv,
           SftpPlaces, ExecPlaces, Waiting, Listed, Saved, Output, Closing
  <2> QED
    BY <1>2, <2>2, <2>3, <2>5 DEF DataTypeOK
<1>9. CASE EndDownload
  <2>1. /\ pc = "download" /\ pc' = "sftp_shutdown" /\ UNCHANGED <<size, listed, received, got>>
        /\ IF received = size THEN UNCHANGED fault ELSE fault' = TRUE
    BY <1>9 DEF EndDownload, At
  <2>2. fault' \in BOOLEAN /\ (~fault' => got' = AllOf(size'))
    BY <1>2, <2>1 DEF DataInv, SavingInv, DataTypeOK
  <2>3. DataInv'
    BY <1>1, <2>1, <2>2 DEF DataInv, OwnPlaces, ListingInv, SavingInv, OutputInv,
           SftpPlaces, ExecPlaces, Waiting, Listed, Saved, Output, Closing
  <2>4. pc' \in Places
    BY <2>1 DEF Places, Sftp
  <2> QED
    BY <1>2, <2>1, <2>2, <2>3, <2>4 DEF DataTypeOK
<1>10. CASE ReadOutput
  <2>1. PICK n \in 1..(BufSize - received) :
          received + n <= size /\ received' = received + n /\ got' = SubSeq(got, 1, received) \o Bytes(n)
    BY <1>10 DEF ReadOutput, Total
  <2>2. /\ pc = "output" /\ UNCHANGED <<size, listed, fault>>
        /\ (received' < BufSize /\ pc' = "output") \/ (~(received' < BufSize) /\ pc' = "close")
    BY <1>10 DEF ReadOutput, At
  <2>3. /\ n \in Nat /\ BufSize \in Nat /\ received + n <= BufSize
        /\ got = AllOf(received) /\ SubSeq(got, 1, received) = got
    BY <1>2, <2>1, <2>2, AllOfProperties, ClientConstants DEF DataInv, OutputInv
  <2>4. received' \in 0..MaxSize /\ got' \in Seq(1..MaxSize)
    BY <1>7, <2>1, <2>3
  <2>5. got' = AllOf(received')
    BY <1>2, <2>1, <2>3, AllOfConcat
  <2>6. /\ received' <= Least(size', BufSize)
        /\ pc' = "close" => received' = Least(size', BufSize)
    BY <1>2, <2>1, <2>2, <2>3 DEF Least
  <2>7. ~IsSftp
    BY <2>2 DEF DataInv, OwnPlaces, ExecPlaces
  <2>8. DataInv'
    BY <1>1, <2>2, <2>5, <2>6, <2>7 DEF DataInv, OwnPlaces, ListingInv, SavingInv, OutputInv,
           SftpPlaces, ExecPlaces, Waiting, Listed, Saved, Output, Closing
  <2>9. pc' \in Places
    BY <2>2 DEF Places, Exec
  <2> QED
    BY <1>2, <2>2, <2>4, <2>8, <2>9 DEF DataTypeOK
<1>11. CASE EndOutput
  <2>1. pc = "output" /\ UNCHANGED dataVars /\ (pc' = "failure" \/ (received = size /\ pc' = "close"))
    BY <1>11 DEF EndOutput, At, clientVars
  <2>2. CASE pc' = "close" /\ received = size
    <3>1. got = AllOf(Least(size, BufSize)) /\ ~IsSftp
      BY <1>2, <2>1, <2>2, ClientConstants DEF DataInv, OutputInv, Least, OwnPlaces, ExecPlaces
    <3>2. UNCHANGED Least(size, BufSize)
      BY <1>1 DEF Least
    <3>3. DataInv'
      BY <1>1, <2>1, <2>2, <3>1, <3>2 DEF DataInv, dataVars, OwnPlaces, ListingInv, SavingInv, OutputInv,
           SftpPlaces, ExecPlaces, Waiting, Listed, Saved, Output, Closing
    <3>4. pc' \in Places
      BY <2>2 DEF Places, Exec
    <3> QED
      BY <1>2, <2>1, <3>3, <3>4 DEF DataTypeOK, dataVars
  <2> QED
    BY <1>3, <2>1, <2>2
<1> QED
  BY <1>4, <1>5, <1>6, <1>8, <1>9, <1>10, <1>11 DEF Transfer

(* The types and the data are kept together: a step of exec_rsa writes where *)
(* its count says.                                                          *)
LEMMA TypesStep ==
  ASSUME TypeOK, DataInv, [Next]_vars
  PROVE  TypeOK' /\ DataInv'
<1>1. CASE Parse
  <2>1. /\ TypeOK' /\ UNCHANGED <<prog, argv, dataVars>>
        /\ pc = "parse" /\ pc' \in {"parse", "connect", "failure", "crashed"}
    BY <1>1, ParseTypes, Zenon
  <2>2. CASE pc' = "connect"
    BY <2>1, <2>2, BeforeWork DEF Waiting, Listed, Output, Closing, SftpPlaces, ExecPlaces
  <2> QED
    BY <2>1, <2>2, SameData
<1>2. CASE Session
  BY <1>2, SessionTypes, SessionData, Zenon
<1>3. CASE Transfer
  <2>1. DataInv' /\ DataTypeOK' /\ pc' \in Places
    BY <1>3, TransferData
  <2>2. UNCHANGED <<prog, argVars, stdio, ret, life, ttyVars, password, taken, size>>
    BY <1>3, TransferKeeps, Zenon
  <2>3. ArgTypeOK' /\ StdinTypeOK' /\ PassTypeOK'
    BY <2>2 DEF TypeOK, ArgTypeOK, StdinTypeOK, PassTypeOK, argVars, ttyVars
  <2> QED
    BY <2>1, <2>2, <2>3 DEF TypeOK
<1>4. CASE PasswordStep /\ UNCHANGED clientVars
  <2>1. TypeOK'
    BY <1>4, PasswordStepTypes
  <2>2. UNCHANGED <<prog, dataVars>>
    BY <1>4 DEF clientVars
  <2>3. pc \in PasswordPlaces \ {"failure"} /\ pc' \in PasswordPlaces
    BY <1>4 DEF PasswordStep, Block, Hide, ReadLine, ReadEof, ReadError, Show, Unblock, At, PasswordPlaces
  <2>4. CASE pc' = "failure"
    BY <2>1, <2>2, <2>4, SameData
  <2>5. CASE pc' # "failure"
    BY <2>1, <2>2, <2>3, <2>5, BeforeWork DEF PasswordPlaces, Waiting, Listed, Output, Closing, SftpPlaces, ExecPlaces
  <2> QED
    BY <2>1, <2>4, <2>5
<1>5. CASE User /\ UNCHANGED clientVars
  <2>1. pc' = pc /\ UNCHANGED <<prog, dataVars>>
    BY <1>5 DEF User, Type, Send, Deliver, Continue, clientVars
  <2> QED
    BY <1>5, <2>1, UserTypes, SameData
<1>6. CASE UNCHANGED vars
  <2>1. pc' = pc /\ UNCHANGED <<prog, dataVars>>
    BY <1>6 DEF vars, passVars, clientVars
  <2>2. TypeOK'
    BY <1>6 DEF vars, passVars, clientVars, argVars, dataVars, TypeOK, ArgTypeOK, StdinTypeOK, DataTypeOK, PassTypeOK
  <2> QED
    BY <2>1, <2>2, SameData
<1> QED
  BY <1>1, <1>2, <1>3, <1>4, <1>5, <1>6 DEF Next, Program

(* They hold at the start.                                                  *)
LEMMA InitTypes == Init => TypeOK /\ DataInv
<1> SUFFICES ASSUME Init PROVE TypeOK /\ DataInv
  OBVIOUS
<1>1. <<>> \in Seq(Chars) /\ Len(<<>>) < PassLen
  BY EmptySeq, PasswordConstants
<1>2. queue \in Seq(Line)
  <2>1. CASE queue = <<>>
    BY <2>1, EmptySeq
  <2>2. ASSUME NEW lines \in Piped,
               queue = [k \in 1..Len(lines) |-> [text |-> lines[k], left |-> lines[k], shown |-> FALSE]]
        PROVE  queue \in Seq(Line)
    <3>1. lines \in Seq(TypedLines) /\ Len(lines) \in Nat
      BY PasswordConstants, LenProperties
    <3>2. \A k \in 1..Len(lines) : lines[k] \in TypedLines /\ lines[k] \in Seq(Chars)
      BY <3>1, ElementOfSeq, PasswordConstants
    <3>3. \A k \in 1..Len(lines) : [text |-> lines[k], left |-> lines[k], shown |-> FALSE] \in Line
      BY <3>2 DEF Line
    <3>4. queue \in [1..Len(lines) -> Line]
      BY <2>2, <3>3
    <3> QED
      BY <3>1, <3>4, SequenceOfElements
  <2> QED
    BY <2>1, <2>2 DEF Init, PassInit
<1>3. PassTypeOK
  BY <1>1, <1>2 DEF Init, PassInit, PassTypeOK
<1>4. NoData \in ConnectionData
  BY SMT DEF NoData, ConnectionData, PortNumbers
<1>5. ArgTypeOK
  BY <1>4 DEF Init, ArgTypeOK
<1>6. StdinTypeOK
  BY EmptySeq DEF Init, StdinTypeOK
<1>7. DataTypeOK
  <2>1. <<>> \in Seq(0..MaxSize \cup {Unset}) /\ <<>> \in Seq(1..MaxSize)
    BY EmptySeq
  <2>2. 0 \in 0..MaxSize
    BY ClientConstants
  <2> QED
    BY <2>1, <2>2 DEF Init, DataTypeOK
<1>8. pc \in Places /\ prog \in {"sftp_get", "exec_rsa"}
  BY DEF Init, Places
<1>9. DataInv
  BY DEF Init, DataInv, OwnPlaces, ListingInv, SavingInv, OutputInv, Untouched, SftpPlaces, ExecPlaces,
         Waiting, Listed, Saved, Output, Closing
<1> QED
  BY <1>3, <1>5, <1>6, <1>7, <1>8, <1>9 DEF TypeOK

(* And always.                                                              *)
LEMMA TypesAlways == Spec => [](TypeOK /\ DataInv)
<1>1. TypeOK /\ DataInv /\ [Next]_vars => (TypeOK /\ DataInv)'
  BY TypesStep
<1> QED
  BY <1>1, InitTypes, PTL DEF Spec

(* The variables of the program and of the terminal keep their types.       *)
THEOREM ClientTypes == Spec => []TypeOK
BY TypesAlways, PTL

(* A program that ends with success has listed every entry in order, and    *)
(* saved the file as it is unless something failed, or printed as much of   *)
(* the output as its buffer holds.                                          *)
THEOREM DataDelivered == Spec => []DeliversData
<1>1. DataInv => DeliversData
  BY DEF DataInv, ListingInv, SavingInv, OutputInv, DeliversData, Listed, Saved, Output, Closing, Least
<1> QED
  BY <1>1, TypesAlways, PTL

(* No step outside get_password touches the terminal or the signals, nor    *)
(* enters or leaves get_password while they are blocked.                    *)
LEMMA ClientStepLeavesTerminal ==
  ASSUME Parse \/ Session \/ Transfer
  PROVE  /\ UNCHANGED <<life, tty, echo, blocked, pending>>
         /\ life = "running"
         /\ pc \notin Masked /\ pc' \notin Masked
<1> USE DEF Masked, Reaches, Exits, At, ttyVars
<1>1. CASE Parse
  <2> USE DEF Free, Parsing, passVars
  <2>1. CASE Usage
    BY <2>1 DEF Usage
  <2>2. CASE ParsePort
    BY <2>2 DEF ParsePort
  <2>3. CASE ParseHost
    BY <2>3 DEF ParseHost
  <2>4. CASE ParseFails
    BY <2>4 DEF ParseFails
  <2>5. CASE ParseOther
    BY <2>5 DEF ParseOther
  <2>6. CASE EndParse
    BY <2>6 DEF EndParse
  <2> QED
    BY <1>1, <2>1, <2>2, <2>3, <2>4, <2>5, <2>6 DEF Parse
<1>2. CASE Session
  <2>1. CASE SharedCall
    BY <2>1 DEF SharedCall, Call, Shared
  <2>2. CASE SftpCall
    BY <2>2 DEF SftpCall, Call, Sftp
  <2>3. CASE ExecCall
    BY <2>3 DEF ExecCall, Call, Exec
  <2>4. CASE AuthenticateServer
    BY <2>4 DEF AuthenticateServer
  <2>5. CASE AuthenticateFails
    BY <2>5 DEF AuthenticateFails
  <2>6. CASE Methods
    BY <2>6 DEF Methods
  <2>7. CASE PublicKey
    BY <2>7 DEF PublicKey, Work
  <2>8. CASE Ask
    BY <2>8 DEF Ask, Chosen
  <2>9. CASE AskEof
    BY <2>9 DEF AskEof, Chosen
  <2>10. CASE Try
    BY <2>10 DEF Try, Work
  <2> QED
    BY <1>2, <2>1, <2>2, <2>3, <2>4, <2>5, <2>6, <2>7, <2>8, <2>9, <2>10 DEF Session
<1>3. CASE Transfer
  <2>1. CASE ReadDir
    BY <2>1 DEF ReadDir
  <2>2. CASE Name \/ OpenLocal \/ HandleCut \/ EndDownload
    BY <2>2 DEF Name, OpenLocal, HandleCut, EndDownload
  <2>3. CASE Download
    BY <2>3 DEF Download, passVars
  <2>4. CASE ReadOutput
    BY <2>4 DEF ReadOutput
  <2>5. CASE EndOutput
    BY <2>5 DEF EndOutput
  <2> QED
    BY <1>3, <2>1, <2>2, <2>3, <2>4, <2>5 DEF Transfer
<1> QED
  BY <1>1, <1>2, <1>3

(* The state of the terminal follows from the place.                        *)
LEMMA TerminalStep == TerminalInv /\ [Next]_vars => TerminalInv'
<1> SUFFICES ASSUME TerminalInv, [Next]_vars PROVE TerminalInv'
  OBVIOUS
<1> USE DEF TerminalInv, Quiet
<1>1. CASE Parse \/ Session \/ Transfer
  BY <1>1, ClientStepLeavesTerminal DEF Masked
<1>2. CASE PasswordStep
  <2> USE DEF Masked, At, ttyVars
  <2>1. CASE Block \/ Hide
    BY <2>1 DEF Block, Hide
  <2>2. CASE ReadLine \/ ReadEof \/ ReadError
    BY <2>2 DEF ReadLine, ReadEof, ReadError
  <2>3. CASE Show \/ Unblock
    BY <2>3 DEF Show, Unblock, Restored, OldMask
  <2> QED
    BY <1>2, <2>1, <2>2, <2>3 DEF PasswordStep
<1>3. CASE User
  <2>1. ASSUME NEW line \in TypedLines, Type(line) PROVE TerminalInv'
    BY <2>1 DEF Type, Masked
  <2>2. ASSUME NEW s \in Signals, Send(s) PROVE TerminalInv'
    BY <2>2 DEF Send, Effect, Masked
  <2>3. ASSUME NEW s \in Signals, Deliver(s) PROVE TerminalInv'
    BY <2>3 DEF Deliver, Effect, Masked
  <2>4. CASE Continue
    BY <2>4 DEF Continue, Masked
  <2> QED
    BY <1>3, <2>1, <2>2, <2>3, <2>4 DEF User
<1>4. CASE UNCHANGED vars
  BY <1>4 DEF vars, passVars
<1> QED
  BY <1>1, <1>2, <1>3, <1>4 DEF Next, Program

(* Always.                                                                  *)
LEMMA TerminalAlways == Spec => []TerminalInv
<1>1. Init => TerminalInv
  BY DEF Init, PassInit, TerminalInv, Masked, Quiet
<1> QED
  BY <1>1, TerminalStep, PTL DEF Spec

(* Whenever the program does not run, or is at its end, the terminal shows *)
(* what is typed, and at its end no signal is blocked.                      *)
THEOREM TerminalIsRestored == Spec => []TerminalRestored
<1>1. TerminalInv => TerminalRestored
  BY DEF TerminalInv, TerminalRestored, Masked, Quiet
<1> QED
  BY <1>1, TerminalAlways, PTL

-----------------------------------------------------------------------------
(* The password.                                                            *)
LEMMA WholeLine ==
  ASSUME NEW s \in Seq(Chars)
  PROVE  s = SubSeq(s, 1, Len(s))
BY SubSeqFull

(* The line read is one typed unseen, cut to the buffer.                    *)
LEMMA ReadLineUnseen ==
  ASSUME TypeOK, QueueUnseen, ReadLine, tty
  PROVE  Unseen'
<1> DEFINE line == Head(queue)
<1>1. pc = "read" /\ queue # <<>> /\ queue \in Seq(Line) /\ taken' = line
  BY DEF ReadLine, At, TypeOK, PassTypeOK
<1>2. line \in Line /\ ~line.shown /\ line.left = line.text
  <2>1. Len(queue) \in Nat \ {0} /\ DOMAIN queue = 1..Len(queue)
    BY <1>1, EmptySeq, LenProperties
  <2>2. 1 \in DOMAIN queue /\ queue[1] \in Line /\ line = queue[1]
    BY <1>1, <2>1, ElementOfSeq
  <2> QED
    BY <1>1, <2>2 DEF QueueUnseen
<1>3. line.text \in Seq(Chars) /\ Len(line.text) \in Nat
  BY <1>2, LenProperties DEF Line
<1>4. line # NoLine
  BY <1>2, PasswordConstants DEF Line
<1>5. Longest \in Nat
  BY PasswordConstants DEF Longest
<1>6. password' = IF Len(line.text) <= Longest THEN line.text ELSE SubSeq(line.text, 1, Longest)
  BY <1>2 DEF ReadLine
<1> HIDE DEF line
<1>7. CASE Len(line.text) <= Longest
  <2>1. password' = line.text
    BY <1>6, <1>7
  <2>2. password' = SubSeq(line.text, 1, Len(password'))
    BY <1>3, <2>1, WholeLine
  <2> QED
    BY <1>1, <1>2, <1>4, <1>7, <2>1, <2>2 DEF Unseen, Longest
<1>8. CASE ~(Len(line.text) <= Longest)
  <2>1. password' = SubSeq(line.text, 1, Longest)
    BY <1>6, <1>8
  <2>2. \A i \in 1..Longest : line.text[i] \in Chars
    BY <1>3, <1>5, <1>8, ElementOfSeq
  <2>3. Len(password') = Longest
    BY <1>5, <2>1, <2>2, SubSeqProperties
  <2> QED
    BY <1>1, <1>2, <1>4, <1>5, <2>1, <2>3 DEF Unseen, Longest
<1> QED
  BY <1>7, <1>8

(* From the question to the attempt nothing else becomes the password.      *)
LEMMA PasswordStepUnseen ==
  ASSUME TypeOK, PasswordInv, [Next]_vars
  PROVE  PasswordInv'
<1>1. CASE Parse \/ Session \/ Transfer
  <2>1. pc' \notin Masked /\ tty' = tty
    BY <1>1, ClientStepLeavesTerminal
  <2>2. pc' = "try" => password' = <<>> /\ taken' = NoLine
    <3>1. CASE Parse
      BY <3>1, ParseTypes
    <3>2. CASE Transfer
      BY <3>2 DEF Transfer, ReadDir, Name, OpenLocal, HandleCut, Download, EndDownload, ReadOutput, EndOutput,
                  Reaches, Exits, passVars, At
    <3>3. CASE Session
      <4> USE DEF Reaches, Exits, At
      <4>1. CASE SharedCall
        BY <4>1 DEF SharedCall, Call, Shared
      <4>2. CASE SftpCall
        BY <4>2 DEF SftpCall, Call, Sftp
      <4>3. CASE ExecCall
        BY <4>3 DEF ExecCall, Call, Exec
      <4>4. CASE AuthenticateServer \/ AuthenticateFails
        BY <4>4 DEF AuthenticateServer, AuthenticateFails
      <4>5. CASE Methods \/ PublicKey \/ Try
        BY <4>5 DEF Methods, PublicKey, Try, Work
      <4>6. CASE Ask \/ AskEof
        BY <4>6 DEF Ask, AskEof, Chosen
      <4> QED
        BY <3>3, <4>1, <4>2, <4>3, <4>4, <4>5, <4>6 DEF Session
    <3> QED
      BY <1>1, <3>1, <3>2, <3>3
  <2> QED
    BY <2>1, <2>2 DEF PasswordInv, QueueUnseen, Unseen, Masked
<1>2. CASE PasswordStep
  <2>1. CASE Block
    BY <2>1 DEF Block, PasswordInv, QueueUnseen
  <2>2. CASE Hide
    <3>1. pc' = "read" /\ echo' = ~tty /\ tty' = tty /\ (tty => queue' = <<>>) /\ tty \in BOOLEAN
      BY <2>2 DEF Hide, Flushed, TypeOK, PassTypeOK
    <3>2. DOMAIN <<>> = {}
      OBVIOUS
    <3>3. tty => ~echo'
      BY <3>1
    <3> QED
      BY <3>1, <3>2, <3>3 DEF PasswordInv, QueueUnseen
  <2>3. CASE ReadLine
    <3>1. pc' = "show" /\ tty' = tty
      BY <2>3 DEF ReadLine
    <3> QED
      BY <2>3, <3>1, ReadLineUnseen DEF PasswordInv, QueueUnseen
  <2>4. CASE ReadEof \/ ReadError
    BY <2>4 DEF ReadEof, ReadError, PasswordInv, QueueUnseen, Unseen, ttyVars
  <2>5. CASE Show \/ Unblock
    BY <2>5 DEF Show, Unblock, At, PasswordInv, QueueUnseen, Unseen
  <2> QED
    BY <1>2, <2>1, <2>2, <2>3, <2>4, <2>5 DEF PasswordStep
<1>3. CASE User
  <2>1. ASSUME NEW line \in TypedLines, Type(line) PROVE PasswordInv'
    <3> DEFINE e == [text |-> line, left |-> line, shown |-> echo]
    <3>1. UNCHANGED <<pc, tty, echo, password, taken>> /\ queue' = Append(queue, e)
      BY <2>1 DEF Type
    <3>2. CASE tty /\ pc = "read"
      <4>1. queue \in Seq(Line) /\ e \in Line /\ ~echo
        BY <3>2, PasswordConstants DEF TypeOK, PassTypeOK, PasswordInv, QueueUnseen, Line
      <4>2. Len(queue) \in Nat /\ DOMAIN queue = 1..Len(queue)
        BY <4>1, LenProperties
      <4> HIDE DEF e
      <4>3. /\ queue' \in Seq(Line) /\ Len(queue') = Len(queue) + 1
            /\ \A k \in 1..Len(queue) : queue'[k] = queue[k]
            /\ queue'[Len(queue) + 1] = e
        BY <3>1, <4>1, AppendProperties
      <4>4. DOMAIN queue' = 1..(Len(queue) + 1)
        BY <4>3, LenProperties
      <4>5. ~e.shown /\ e.left = e.text
        BY <4>1 DEF e
      <4>6. ASSUME NEW k \in DOMAIN queue' PROVE ~queue'[k].shown /\ queue'[k].left = queue'[k].text
        <5>1. CASE k \in DOMAIN queue
          BY <3>2, <4>2, <4>3, <5>1 DEF PasswordInv, QueueUnseen
        <5>2. CASE k = Len(queue) + 1
          BY <4>3, <4>5, <5>2
        <5> QED
          BY <4>2, <4>4, <4>6, <5>1, <5>2
      <4>7. QueueUnseen'
        BY <3>1, <4>1, <4>6 DEF QueueUnseen
      <4> QED
        BY <3>1, <3>2, <4>7 DEF PasswordInv, Unseen
    <3>3. CASE ~(tty /\ pc = "read")
      BY <3>1, <3>3 DEF PasswordInv, QueueUnseen, Unseen
    <3> QED
      BY <3>2, <3>3
  <2>2. ASSUME NEW s \in Signals, Send(s) \/ Deliver(s) PROVE PasswordInv'
    BY <2>2 DEF Send, Deliver, PasswordInv, QueueUnseen, Unseen
  <2>3. CASE Continue
    BY <2>3 DEF Continue, PasswordInv, QueueUnseen, Unseen
  <2> QED
    BY <1>3, <2>1, <2>2, <2>3 DEF User
<1>4. CASE UNCHANGED vars
  BY <1>4 DEF vars, passVars, PasswordInv, QueueUnseen, Unseen
<1> QED
  BY <1>1, <1>2, <1>3, <1>4 DEF Next, Program

(* At a terminal, the password that is tried is the line typed while it was *)
(* not shown, cut to the buffer.                                            *)
THEOREM PasswordWasTypedUnseen == Spec => []PasswordIsLine
<1>1. Init => PasswordInv
  BY DEF Init, PasswordInv, QueueUnseen
<1>2. TypeOK /\ PasswordInv /\ [Next]_vars => PasswordInv'
  BY PasswordStepUnseen
<1>3. PasswordInv => PasswordIsLine
  BY DEF PasswordInv, Unseen, PasswordIsLine
<1> QED
  BY <1>1, <1>2, <1>3, ClientTypes, PTL DEF Spec

-----------------------------------------------------------------------------
(* The command line.                                                        *)
LEMMA LastInIs ==
  ASSUME NEW S \in SUBSET Nat, NEW k, IsLast(k, S)
  PROVE  LastIn(S) = k
<1>1. \A m \in S : (\A l \in S : l <= m) => m = k
  BY DEF IsLast
<1>2. \E m \in S : \A l \in S : l <= m
  BY DEF IsLast
<1> QED
  BY <1>1, <1>2 DEF LastIn, IsLast

(* What a command line asks for changes with nothing but the command line.  *)
LEMMA ArgumentsFrame ==
  ASSUME UNCHANGED argv
  PROVE  /\ UNCHANGED HostsGiven /\ UNCHANGED PortsGiven
         /\ \A k : UNCHANGED PortGiven(k)
BY DEF HostsGiven, PortsGiven, PortGiven, IsNumber

(* The next argument is not the number of a port option: it is what it      *)
(* looks like.                                                              *)
LEMMA NextArgument ==
  ASSUME ArgTypeOK, ArgumentsSeen, pos <= Len(argv)
  PROVE  /\ pos \in Nat \ {0} /\ Len(argv) \in Nat /\ DOMAIN argv = 1..Len(argv)
         /\ HostsGiven \in SUBSET Nat /\ PortsGiven \in SUBSET Nat
         /\ pos \in DOMAIN argv /\ argv[pos] \in Tokens
         /\ pos + 1 <= Len(argv) => argv[pos + 1] \in Tokens
         /\ pos \in HostsGiven <=> IsHost(argv[pos])
         /\ pos \in PortsGiven <=> argv[pos] \in PortOptions \ {"-p"}
         /\ pos \in PortsGiven => PortGiven(pos) = Strtol[AfterOption[argv[pos]]]
<1>1. pos \in Nat \ {0} /\ argv \in Seq(Tokens)
  BY ClientConstants DEF ArgTypeOK
<1>2. Len(argv) \in Nat /\ DOMAIN argv = 1..Len(argv)
  BY <1>1, LenProperties
<1>3. \A k \in 1..Len(argv) : argv[k] \in Tokens
  BY <1>1, ElementOfSeq
<1>4. pos \in DOMAIN argv
  BY <1>1, <1>2
<1>5. ~IsNumber(pos)
  BY DEF IsNumber, ArgumentsSeen
<1>6. HostsGiven \in SUBSET Nat /\ PortsGiven \in SUBSET Nat
  BY <1>2 DEF HostsGiven, PortsGiven
<1>7. pos + 1 <= Len(argv) => argv[pos + 1] \in Tokens
  BY <1>1, <1>2, <1>3
<1> QED
  BY <1>1, <1>2, <1>3, <1>4, <1>5, <1>6, <1>7 DEF HostsGiven, PortsGiven, PortGiven

(* What is seen when pos moves over one argument.                           *)
LEMMA OneMore ==
  ASSUME NEW S \in SUBSET Nat, NEW p \in Nat
  PROVE  /\ p \notin S => {k \in S : k < p + 1} = {k \in S : k < p}
         /\ p \in S => /\ {k \in S : k < p + 1} = {k \in S : k < p} \cup {p}
                       /\ IsLast(p, {k \in S : k < p + 1})
<1>1. \A k \in S : k < p + 1 <=> k < p \/ k = p
  OBVIOUS
<1>2. p \notin S => {k \in S : k < p + 1} = {k \in S : k < p}
  BY <1>1
<1>3. p \in S => {k \in S : k < p + 1} = {k \in S : k < p} \cup {p}
  BY <1>1
<1>4. \A k \in S : k < p + 1 => k <= p
  OBVIOUS
<1>5. p \in S => IsLast(p, {k \in S : k < p + 1})
  BY <1>1, <1>4 DEF IsLast
<1> QED
  BY <1>2, <1>3, <1>5

(* An argument that is neither is passed over.                              *)
LEMMA OtherSeen ==
  ASSUME ArgTypeOK, ArgumentsSeen, ParseOther
  PROVE  ArgumentsSeen'
<1>1. /\ pos <= Len(argv) /\ pos' = pos + 1 /\ UNCHANGED <<argv, cd, required>>
      /\ argv[pos] \notin PortOptions /\ ~IsHost(argv[pos])
  BY DEF ParseOther, Parsing
<1>2. /\ pos \notin HostsGiven /\ pos \notin PortsGiven /\ pos \in Nat /\ Len(argv) \in Nat
      /\ HostsGiven \in SUBSET Nat /\ PortsGiven \in SUBSET Nat
  BY <1>1, NextArgument
<1>3. UNCHANGED HostsGiven /\ UNCHANGED PortsGiven /\ \A k : UNCHANGED PortGiven(k)
  BY <1>1, ArgumentsFrame
<1>4. HostsSeen' = HostsSeen /\ PortsSeen' = PortsSeen
  <2>1. /\ HostsSeen' = {k \in HostsGiven : k < pos + 1}
        /\ PortsSeen' = {k \in PortsGiven : k < pos + 1}
    BY <1>1, <1>3 DEF HostsSeen, PortsSeen
  <2> QED
    BY <1>2, <2>1, OneMore DEF HostsSeen, PortsSeen
<1>5. argv'[pos' - 1] # "-p" /\ pos' <= Len(argv') + 1
  <2>1. pos' - 1 = pos
    BY <1>1, <1>2
  <2> QED
    BY <1>1, <1>2, <2>1, ClientConstants
<1> QED
  BY <1>1, <1>3, <1>4, <1>5 DEF ArgumentsSeen, IsLast

(* A host replaces the earlier ones.                                        *)
LEMMA HostSeen ==
  ASSUME ArgTypeOK, ArgumentsSeen, ParseHost, ~Free
  PROVE  ArgumentsSeen'
<1>1. /\ pos <= Len(argv) /\ pos' = pos + 1 /\ UNCHANGED argv /\ required' = {}
      /\ cd' = [cd EXCEPT !.username = UserOf[argv[pos]], !.address = argv[pos]]
      /\ IsHost(argv[pos])
  BY Zenon DEF ParseHost, Parsing, NameIn
<1>2. /\ pos \in HostsGiven /\ pos \in Nat /\ Len(argv) \in Nat /\ argv[pos] \in Tokens
      /\ HostsGiven \in SUBSET Nat /\ PortsGiven \in SUBSET Nat
  BY <1>1, NextArgument
<1>3. argv[pos] \notin PortOptions
  BY <1>1, Zenon DEF IsHost
<1>4. pos \notin PortsGiven
  BY <1>1, <1>3, NextArgument
<1>5. UNCHANGED HostsGiven /\ UNCHANGED PortsGiven /\ \A k : UNCHANGED PortGiven(k)
  BY <1>1, ArgumentsFrame
<1>6. PortsSeen' = PortsSeen
  BY <1>1, <1>2, <1>4, <1>5, OneMore DEF PortsSeen
<1>7. IsLast(pos, HostsSeen')
  BY <1>1, <1>2, <1>5, OneMore DEF HostsSeen
<1>8. cd'.username = UserOf[argv[pos]] /\ cd'.address = argv[pos] /\ cd'.port = cd.port
  <2>1. cd \in ConnectionData
    BY DEF ArgTypeOK
  <2> QED
    BY <1>1, <1>2, <2>1, WithHost, Zenon
<1>9. argv'[pos' - 1] # "-p" /\ pos' <= Len(argv') + 1
  <2>1. pos' - 1 = pos
    BY <1>1, <1>2
  <2>2. argv'[pos' - 1] \notin PortOptions
    BY <1>1, <1>3, <2>1, Zenon
  <2> QED
    BY <1>1, <1>2, <2>2, ClientConstants
<1>10. HostsSeen' # {} /\ required' = {}
       /\ \E k \in HostsSeen' : IsLast(k, HostsSeen') /\ cd'.username = UserOf[argv'[k]] /\ cd'.address = argv'[k]
  <2>1. pos \in HostsSeen' /\ argv' = argv
    BY <1>1, <1>7, Zenon DEF IsLast
  <2> QED
    BY <1>1, <1>7, <1>8, <2>1, Zenon
<1> HIDE DEF HostsSeen, PortsSeen, IsLast
<1> QED
  BY <1>5, <1>6, <1>8, <1>9, <1>10, Zenon DEF ArgumentsSeen, IsLast

(* A port option ends at its number, or is its own.                         *)
LEMMA PortSeen ==
  ASSUME ArgTypeOK, ArgumentsSeen, ParsePort, ~Free
  PROVE  ArgumentsSeen'
<1> DEFINE last == IF argv[pos] = "-p" THEN pos + 1 ELSE pos
<1>1. /\ ~(last > Len(argv)) /\ ValidPort(PortOf(last)) /\ pos' = last + 1
      /\ UNCHANGED argv /\ UNCHANGED required
      /\ cd' = [cd EXCEPT !.port = PortOf(last)]
      /\ argv[pos] \in PortOptions /\ pos <= Len(argv)
  BY Zenon DEF ParsePort, Parsing
<1>2. /\ pos \in Nat \ {0} /\ Len(argv) \in Nat /\ DOMAIN argv = 1..Len(argv) /\ argv[pos] \in Tokens
      /\ HostsGiven \in SUBSET Nat /\ PortsGiven \in SUBSET Nat
  BY <1>1, NextArgument
<1>3. pos \notin HostsGiven
  <2>1. ~IsHost(argv[pos])
    BY <1>1, Zenon DEF IsHost
  <2> QED
    BY <1>1, <2>1, NextArgument
<1>4. UNCHANGED HostsGiven /\ UNCHANGED PortsGiven /\ \A k : UNCHANGED PortGiven(k)
  BY <1>1, ArgumentsFrame, Zenon
<1> HIDE DEF last
<1>5. /\ last \in 1..Len(argv) /\ argv[last] # "-p" /\ PortOf(last) \in PortNumbers
      /\ PortGiven(last) = PortOf(last)
      /\ HostsSeen' = HostsSeen
      /\ PortsSeen' = PortsSeen \cup {last} /\ IsLast(last, PortsSeen')
  <2>1. CASE argv[pos] = "-p"
    <3>1. last = pos + 1 /\ last \in DOMAIN argv /\ last \in Nat /\ last # pos /\ last <= Len(argv) /\ last - 1 = pos /\ last > 1
      BY <1>1, <1>2, <2>1 DEF last
    <3>2. argv[last] \in Tokens
      BY <1>1, <3>1, NextArgument
    <3>3. IsNumber(last)
      BY <2>1, <3>1, Zenon DEF IsNumber
    <3>4. last \in PortsGiven /\ last \notin HostsGiven /\ PortGiven(last) = Strtol[argv[last]]
      BY <3>1, <3>3, Zenon DEF PortsGiven, HostsGiven, PortGiven
    <3>5. PortOf(last) = Strtol[argv[last]]
      BY <3>1, Zenon DEF PortOf
    <3>6. Strtol[argv[last]] \in Nat /\ Strtol["-p"] = 0
      BY <3>2, ClientConstants
    <3>7. PortOf(last) \in PortNumbers
      BY <1>1, <3>5, <3>6, ValidIsPort, Zenon
    <3>8. argv[last] # "-p"
      <4>1. 0 \notin PortNumbers
        BY SMT DEF PortNumbers
      <4> QED
        BY <3>5, <3>6, <3>7, <4>1, Zenon
    <3>9. pos \notin PortsGiven
      BY <1>1, <2>1, NextArgument
    <3>10. pos' = pos + 1 + 1 /\ pos + 1 \in Nat
      BY <1>1, <1>2, <3>1
    <3>11. HostsSeen' = HostsSeen
      <4>1. /\ HostsSeen' = {k \in HostsGiven : k < pos + 1 + 1}
            /\ {k \in HostsGiven : k < pos + 1 + 1} = {k \in HostsGiven : k < pos + 1}
        BY <1>2, <1>4, <3>1, <3>4, <3>10, OneMore DEF HostsSeen
      <4>2. {k \in HostsGiven : k < pos + 1} = {k \in HostsGiven : k < pos}
        BY <1>2, <1>3, OneMore
      <4> QED
        BY <4>1, <4>2 DEF HostsSeen
    <3>12. PortsSeen' = PortsSeen \cup {last} /\ IsLast(last, PortsSeen')
      <4>1. PortsSeen' = {k \in PortsGiven : k < last + 1}
        BY <1>4, <3>1, <3>10 DEF PortsSeen
      <4>2. /\ {k \in PortsGiven : k < last + 1} = {k \in PortsGiven : k < last} \cup {last}
            /\ IsLast(last, {k \in PortsGiven : k < last + 1})
        BY <1>2, <3>1, <3>4, OneMore
      <4>3. {k \in PortsGiven : k < last} = {k \in PortsGiven : k < pos}
        <5>1. {k \in PortsGiven : k < pos + 1} = {k \in PortsGiven : k < pos}
          BY <1>2, <3>1, <3>9, OneMore
        <5>2. last = pos + 1
          BY <3>1
        <5> QED
          BY <5>1, <5>2
      <4> QED
        BY <4>1, <4>2, <4>3 DEF PortsSeen
    <3>13. last \in 1..Len(argv)
      BY <1>2, <3>1
    <3> QED
      BY <3>4, <3>5, <3>7, <3>8, <3>11, <3>12, <3>13, Zenon
  <2>2. CASE argv[pos] # "-p"
    <3>1. last = pos /\ last \in 1..Len(argv) /\ pos' = pos + 1 /\ pos \in Nat
      BY <1>1, <1>2, <2>2 DEF last
    <3>2. pos \in PortsGiven /\ PortGiven(pos) = Strtol[AfterOption[argv[pos]]]
      BY <1>1, <2>2, NextArgument
    <3>3. PortOf(last) = Strtol[AfterOption[argv[pos]]]
      BY <1>1, <2>2, <3>1, Zenon DEF PortOf
    <3>4. Strtol[AfterOption[argv[pos]]] \in Nat
      BY <1>1, <2>2, ClientConstants
    <3>5. PortOf(last) \in PortNumbers
      BY <1>1, <3>3, <3>4, ValidIsPort, Zenon
    <3>6. HostsSeen' = HostsSeen
      <4>1. HostsSeen' = {k \in HostsGiven : k < pos + 1}
        BY <1>4, <3>1 DEF HostsSeen
      <4>2. {k \in HostsGiven : k < pos + 1} = {k \in HostsGiven : k < pos}
        BY <1>2, <1>3, OneMore
      <4> QED
        BY <4>1, <4>2 DEF HostsSeen
    <3>7. PortsSeen' = PortsSeen \cup {last} /\ IsLast(last, PortsSeen')
      <4>1. PortsSeen' = {k \in PortsGiven : k < pos + 1}
        BY <1>4, <3>1 DEF PortsSeen
      <4>2. /\ {k \in PortsGiven : k < pos + 1} = {k \in PortsGiven : k < pos} \cup {pos}
            /\ IsLast(pos, {k \in PortsGiven : k < pos + 1})
        BY <1>2, <3>2, OneMore
      <4> QED
        BY <3>1, <4>1, <4>2 DEF PortsSeen
    <3> QED
      BY <2>2, <3>1, <3>2, <3>3, <3>5, <3>6, <3>7, Zenon
  <2> QED
    BY <2>1, <2>2
<1>6. cd'.username = cd.username /\ cd'.address = cd.address /\ cd'.port = PortGiven(last)
  <2>1. cd \in ConnectionData
    BY DEF ArgTypeOK
  <2> QED
    BY <1>1, <1>5, <2>1, WithPort, Zenon
<1>7. argv'[pos' - 1] # "-p" /\ pos' <= Len(argv') + 1
  <2>1. pos' - 1 = last
    BY <1>1, <1>2, <1>5
  <2>2. argv'[pos' - 1] # "-p"
    BY <1>1, <1>5, <2>1, Zenon
  <2>3. pos' <= Len(argv) + 1
    BY <1>1, <1>2, <1>5
  <2> QED
    BY <1>1, <2>2, <2>3, Zenon
<1>8. \A k \in PortsSeen' : PortGiven(k)' \in PortNumbers
  BY <1>4, <1>5, Zenon DEF ArgumentsSeen
<1>9. PortsSeen' # {} /\ \E k \in PortsSeen' : IsLast(k, PortsSeen') /\ cd'.port = PortGiven(k)'
  <2>1. last \in PortsSeen'
    BY <1>5, Zenon DEF IsLast
  <2> QED
    BY <1>4, <1>5, <1>6, <2>1, Zenon
<1>10. /\ HostsSeen' = {} => required' # {}
       /\ HostsSeen' # {} =>
            /\ required' = {}
            /\ \E k \in HostsSeen' : IsLast(k, HostsSeen') /\ cd'.username = UserOf[argv'[k]] /\ cd'.address = argv'[k]
  BY <1>1, <1>5, <1>6, Zenon DEF ArgumentsSeen
<1> QED
  BY <1>7, <1>8, <1>9, <1>10, Zenon DEF ArgumentsSeen, IsLast

(* Once the command line is read nothing touches what was read.             *)
LEMMA AfterParse ==
  ASSUME Session \/ Transfer \/ PasswordStep
  PROVE  pc \notin {"parse", "failure", "crashed"} /\ pc' # "parse"
<1> USE DEF Reaches, Exits, At
<1>1. CASE Transfer
  BY <1>1 DEF Transfer, ReadDir, Name, OpenLocal, HandleCut, Download, EndDownload, ReadOutput, EndOutput,
              passVars
<1>2. CASE PasswordStep
  BY <1>2 DEF PasswordStep, Block, Hide, ReadLine, ReadEof, ReadError, Show, Unblock
<1>3. CASE SharedCall
  BY <1>3 DEF SharedCall, Call, Shared
<1>4. CASE SftpCall
  BY <1>4 DEF SftpCall, Call, Sftp
<1>5. CASE ExecCall
  BY <1>5 DEF ExecCall, Call, Exec
<1>6. CASE AuthenticateServer \/ AuthenticateFails
  BY <1>6 DEF AuthenticateServer, AuthenticateFails
<1>7. CASE Methods \/ PublicKey \/ Try
  BY <1>7 DEF Methods, PublicKey, Try, Work
<1>8. CASE Ask \/ AskEof
  BY <1>8 DEF Ask, AskEof, Chosen
<1> QED
  BY <1>1, <1>2, <1>3, <1>4, <1>5, <1>6, <1>7, <1>8 DEF Session

(* What was seen changes with the variables of the loop only.               *)
LEMMA SameArguments ==
  ASSUME UNCHANGED argVars
  PROVE  UNCHANGED ArgumentsSeen /\ UNCHANGED HostsSeen /\ UNCHANGED Len(argv)
<1>1. UNCHANGED argv /\ UNCHANGED pos /\ UNCHANGED cd /\ UNCHANGED required
  BY DEF argVars
<1> QED
  BY <1>1, ArgumentsFrame DEF ArgumentsSeen, HostsSeen, PortsSeen

(* What the loop has seen is kept by every step.                            *)
LEMMA ParseStep ==
  ASSUME TypeOK, ParseInv, [Next]_vars
  PROVE  ParseInv'
<1>1. ArgTypeOK
  BY DEF TypeOK
<1>2. ASSUME UNCHANGED argVars,
             pc \in {"parse", "failure", "crashed"} => pc' = pc,
             pc \notin {"parse", "failure", "crashed"} => pc' # "parse"
      PROVE  ParseInv'
  <2>1. UNCHANGED ArgumentsSeen /\ UNCHANGED HostsSeen /\ UNCHANGED Len(argv) /\ UNCHANGED pos
    BY <1>2, SameArguments DEF argVars
  <2> QED
    BY <1>2, <2>1 DEF ParseInv
<1>3. CASE Parse
  <2>1. pc = "parse" /\ ArgumentsSeen
    BY <1>3, ParseTypes DEF ParseInv
  <2>2. ASSUME pc' \in {"failure", "crashed"} PROVE ParseInv'
    BY <2>2 DEF ParseInv
  <2>3. Free => pc' \in {"failure", "crashed"}
    BY DEF Free, Exits, Reaches
  <2>4. ASSUME ArgumentsSeen', UNCHANGED pc PROVE ParseInv'
    BY <2>1, <2>4 DEF ParseInv
  <2>5. CASE Usage \/ ParseFails
    BY <2>2, <2>5 DEF Usage, ParseFails, Exits, Reaches
  <2>6. CASE ParsePort
    <3>1. ~Free => UNCHANGED pc
      BY <2>6 DEF ParsePort
    <3> QED
      BY <1>1, <2>1, <2>2, <2>3, <2>4, <2>6, <3>1, PortSeen
  <2>7. CASE ParseHost
    <3>1. ~Free => UNCHANGED pc
      BY <2>7 DEF ParseHost
    <3> QED
      BY <1>1, <2>1, <2>2, <2>3, <2>4, <2>7, <3>1, HostSeen
  <2>8. CASE ParseOther
    <3>1. UNCHANGED pc
      BY <2>8 DEF ParseOther, passVars
    <3> QED
      BY <1>1, <2>1, <2>4, <2>8, <3>1, OtherSeen
  <2>9. CASE EndParse
    <3>1. CASE Free
      BY <2>2, <2>3, <3>1
    <3>2. CASE ~Free
      <4>1. required = {} /\ pc' = "connect" /\ UNCHANGED argVars /\ pos > Len(argv)
        BY <2>9, <3>2 DEF EndParse, Reaches, clientVars
      <4>2. Len(argv) \in Nat /\ pos \in Nat
        BY <1>1, ClientConstants, LenProperties DEF ArgTypeOK
      <4>3. pos = Len(argv) + 1 /\ HostsSeen # {}
        BY <2>1, <4>1, <4>2 DEF ArgumentsSeen
      <4>4. UNCHANGED ArgumentsSeen /\ UNCHANGED HostsSeen /\ UNCHANGED Len(argv) /\ UNCHANGED pos
        BY <4>1, SameArguments DEF argVars
      <4> QED
        BY <2>1, <4>1, <4>3, <4>4 DEF ParseInv
    <3> QED
      BY <3>1, <3>2
  <2> QED
    BY <1>3, <2>5, <2>6, <2>7, <2>8, <2>9 DEF Parse
<1>4. CASE Session \/ Transfer
  <2>1. UNCHANGED argVars
    BY <1>4, SessionTypes, TransferKeeps, Zenon
  <2> QED
    BY <1>2, <1>4, <2>1, AfterParse
<1>5. CASE PasswordStep /\ UNCHANGED clientVars
  BY <1>2, <1>5, AfterParse DEF clientVars
<1>6. CASE User /\ UNCHANGED clientVars
  <2>1. UNCHANGED pc
    BY <1>6 DEF User, Type, Send, Deliver, Continue
  <2> QED
    BY <1>2, <1>6, <2>1 DEF clientVars
<1>7. CASE UNCHANGED vars
  BY <1>2, <1>7 DEF vars, passVars, clientVars
<1> QED
  BY <1>3, <1>4, <1>5, <1>6, <1>7 DEF Next, Program

(* The program connects to the last host its command line names, as the     *)
(* last user, on the last port or 22; and only if every port on it is one.  *)
THEOREM ConnectsToTheLast == Spec => []ConnectsAsAsked
<1>1. Init => ParseInv
  <2> SUFFICES ASSUME Init PROVE ParseInv
    OBVIOUS
  <2>1. argv \in Seq(Tokens) /\ Len(argv) \in Nat /\ DOMAIN argv = 1..Len(argv)
    BY ClientConstants, LenProperties DEF Init
  <2>2. pos = 1 /\ pc = "parse" /\ required # {} /\ cd.port = 22
    BY DEF Init, NoData
  <2>3. HostsSeen = {} /\ PortsSeen = {}
    BY <2>1, <2>2 DEF HostsSeen, PortsSeen, HostsGiven, PortsGiven
  <2> QED
    BY <2>1, <2>2, <2>3 DEF ParseInv, ArgumentsSeen
<1>2. TypeOK /\ ParseInv /\ [Next]_vars => ParseInv'
  BY ParseStep
<1>3. TypeOK /\ ParseInv => ConnectsAsAsked
  <2> SUFFICES ASSUME TypeOK, ParseInv, pc \notin {"parse", "failure", "crashed"}
               PROVE  /\ HostsGiven # {}
                      /\ argv[Len(argv)] # "-p"
                      /\ \A k \in PortsGiven : PortGiven(k) \in PortNumbers
                      /\ cd = [username |-> UserOf[argv[LastIn(HostsGiven)]],
                               address |-> argv[LastIn(HostsGiven)],
                               port |-> IF PortsGiven = {} THEN 22 ELSE PortGiven(LastIn(PortsGiven))]
    BY Zenon DEF ConnectsAsAsked
  <2>1. ArgumentsSeen /\ pos = Len(argv) + 1 /\ HostsSeen # {}
    BY DEF ParseInv
  <2>2. argv \in Seq(Tokens) \ {<<>>} /\ cd \in ConnectionData
    BY ClientConstants DEF TypeOK, ArgTypeOK
  <2>3. Len(argv) \in Nat \ {0} /\ DOMAIN argv = 1..Len(argv)
    BY <2>2, LenProperties, EmptySeq
  <2>4. /\ HostsGiven \in SUBSET Nat /\ PortsGiven \in SUBSET Nat
        /\ HostsSeen = HostsGiven /\ PortsSeen = PortsGiven
    BY <2>1, <2>3 DEF HostsSeen, PortsSeen, HostsGiven, PortsGiven
  <2>5. pos > 1 /\ pos - 1 = Len(argv)
    BY <2>1, <2>3
  <2>6. argv[Len(argv)] # "-p"
    BY <2>1, <2>5, Zenon DEF ArgumentsSeen
  <2>7. cd.username = UserOf[argv[LastIn(HostsGiven)]] /\ cd.address = argv[LastIn(HostsGiven)]
    <3>1. PICK k \in HostsGiven : IsLast(k, HostsGiven) /\ cd.username = UserOf[argv[k]] /\ cd.address = argv[k]
      BY <2>1, <2>4, Zenon DEF ArgumentsSeen
    <3> QED
      BY <2>4, <3>1, LastInIs, Zenon
  <2>8. cd.port = IF PortsGiven = {} THEN 22 ELSE PortGiven(LastIn(PortsGiven))
    <3>1. CASE PortsGiven = {}
      BY <2>1, <2>4, <3>1, Zenon DEF ArgumentsSeen
    <3>2. CASE PortsGiven # {}
      <4>1. PICK k \in PortsGiven : IsLast(k, PortsGiven) /\ cd.port = PortGiven(k)
        BY <2>1, <2>4, <3>2, Zenon DEF ArgumentsSeen
      <4> QED
        BY <2>4, <3>2, <4>1, LastInIs, Zenon
    <3> QED
      BY <3>1, <3>2
  <2>9. cd = [username |-> cd.username, address |-> cd.address, port |-> cd.port]
    BY <2>2 DEF ConnectionData
  <2>10. \A k \in PortsGiven : PortGiven(k) \in PortNumbers
    BY <2>1, <2>4, Zenon DEF ArgumentsSeen
  <2> QED
    BY <2>1, <2>4, <2>6, <2>7, <2>8, <2>9, <2>10, Zenon
<1> QED
  BY <1>1, <1>2, <1>3, ClientTypes, PTL DEF Spec
=============================================================================
