---------------------- MODULE PalindromeService_proofs ----------------------
(* The server's buffer stays terminated, a text with a letter is refused   *)
(* and, unless datagrams are duplicated, the answer is the one to the last *)
(* line: for any number of clients, any lines and buffers of any size.     *)
EXTENDS PalindromeService, Numbers_proofs, SequenceTheorems, TLAPS

(* Every datagram on its way to the server leaves room for a terminator.   *)
ShortRequests ==
  \A m \in requests : m.text \in Seq(Characters) /\ Len(m.text) < BufSize

Buffer == buff \in [1..BufSize -> Characters \cup {Nul}]

IInv == Buffer /\ ShortRequests /\ Terminated

-----------------------------------------------------------------------------
(* getline stores fewer characters than the buffer has.                    *)
LEMMA CutLine ==
  ASSUME NEW line \in Lines
  PROVE  LET text == IF Len(line) > LineLimit THEN SubSeq(line, 1, LineLimit) ELSE line
         IN text \in Seq(Characters) /\ Len(text) < BufSize
<1>1. line \in Seq(Characters) /\ BufSize \in Nat \ {0, 1}
  BY ServiceConstants
<1>2. CASE Len(line) > LineLimit
  <2>1. LineLimit \in Nat /\ 1 <= LineLimit + 1 /\ LineLimit <= Len(line) /\ Len(line) \in Nat
    BY <1>1, <1>2, LenProperties DEF LineLimit
  <2>2. SubSeq(line, 1, LineLimit) \in Seq(Characters) /\ Len(SubSeq(line, 1, LineLimit)) = LineLimit
    BY <1>1, <2>1, SubSeqProperties
  <2> QED
    BY <1>1, <1>2, <2>2 DEF LineLimit
<1>3. CASE ~(Len(line) > LineLimit)
  BY <1>1, <1>3, LenProperties DEF LineLimit
<1> QED
  BY <1>2, <1>3

(* A client adds a short datagram.                                         *)
LEMMA SendKeepsIInv ==
  ASSUME IInv, NEW c, NEW t \in Seq(Characters), Len(t) < BufSize,
         requests' = requests \cup {[from |-> c, text |-> t]}, buff' = buff
  PROVE  IInv'
<1>1. [from |-> c, text |-> t].text = t
  OBVIOUS
<1>2. ShortRequests'
  BY <1>1 DEF IInv, ShortRequests
<1> QED
  BY <1>2 DEF IInv, Buffer, Terminated

(* The server starts with a cleared buffer (line 32).                      *)
LEMMA InitIInv == Init => IInv
BY ServiceConstants DEF Init, IInv, Buffer, ShortRequests, Terminated

(* recvfrom overwrites a prefix only, and never the last byte.             *)
LEMMA ServeKeepsIInv ==
  ASSUME IInv, NEW m \in requests, Serve(m)
  PROVE  IInv'
<1>1. BufSize \in Nat \ {0, 1} /\ m.text \in Seq(Characters) /\ Len(m.text) < BufSize
  BY ServiceConstants DEF IInv, ShortRequests
<1>2. Len(m.text) \in Nat /\ \A k \in 1..Len(m.text) : m.text[k] \in Characters
  BY <1>1, LenProperties
<1>3. buff' = Overwritten(m.text) /\ requests' \subseteq requests
  BY DEF Serve, Arrived, Consumed
<1>4. Buffer'
  BY <1>1, <1>2, <1>3 DEF IInv, Buffer, Overwritten
<1>5. Terminated'
  BY <1>1, <1>2, <1>3 DEF IInv, Terminated, Overwritten
<1> QED
  BY <1>3, <1>4, <1>5 DEF IInv, ShortRequests

(* Every step keeps the invariant.                                         *)
LEMMA NextKeepsIInv == IInv /\ [Next]_vars => IInv'
<1> SUFFICES ASSUME IInv, [Next]_vars PROVE IInv'
  OBVIOUS
<1>1. CASE UNCHANGED <<buff, requests>>
  BY <1>1 DEF IInv, Buffer, ShortRequests, Terminated
<1>2. ASSUME NEW c \in Clients, NEW line \in Lines, Ask(c, line)
      PROVE  IInv'
  <2> DEFINE text == IF Len(line) > LineLimit THEN SubSeq(line, 1, LineLimit) ELSE line
  <2>1. requests' = requests \cup {[from |-> c, text |-> text]} /\ buff' = buff
    BY <1>2 DEF Ask
  <2>2. text \in Seq(Characters) /\ Len(text) < BufSize
    BY CutLine
  <2> HIDE DEF text
  <2> QED
    BY <2>1, <2>2, SendKeepsIInv
<1>3. ASSUME NEW c \in Clients, Quit(c)
      PROVE  IInv'
  <2>1. requests' = requests \cup {[from |-> c, text |-> <<>>]} /\ buff' = buff
    BY <1>3 DEF Quit
  <2>2. <<>> \in Seq(Characters) /\ Len(<<>>) < BufSize
    BY EmptySeq, ServiceConstants
  <2> QED
    BY <2>1, <2>2, SendKeepsIInv
<1>4. ASSUME NEW m \in requests, Serve(m)
      PROVE  IInv'
  BY <1>4, ServeKeepsIInv
<1>5. CASE Vanish \/ \E m \in requests : ShutDown(m) \/ Bounce(m)
  <2>1. requests' \subseteq requests /\ buff' = buff
    BY <1>5 DEF Vanish, ShutDown, Bounce, Consumed
  <2> QED
    BY <2>1 DEF IInv, Buffer, ShortRequests, Terminated
<1>6. CASE \E c \in Clients : TakeReply(c)
  BY <1>1, <1>6 DEF TakeReply
<1>7. CASE UNCHANGED vars
  BY <1>1, <1>7 DEF vars
<1> QED
  BY <1>2, <1>3, <1>4, <1>5, <1>6, <1>7 DEF Next

(* strlen at line 129 always stops inside the buffer, because the lines of *)
(* the clients are one character shorter than it.                          *)
THEOREM StrlenStops == Spec => []Terminated
<1>1. IInv => Terminated
  BY DEF IInv
<1> QED
  BY <1>1, InitIInv, NextKeepsIInv, PTL DEF Spec

-----------------------------------------------------------------------------
(* strlen at line 129 counts all of the text just received, and then maybe  *)
(* old bytes: no byte of a datagram is zero.                                *)
LEMMA TextBegins ==
  ASSUME NEW b \in [1..BufSize -> Characters \cup {Nul}], NEW t \in Seq(Characters),
         Len(t) < BufSize, \A k \in 1..Len(t) : b[k] = t[k]
  PROVE  Len(Text(b)) >= Len(t) /\ Len(Text(b)) \in Nat /\ \A k \in 1..Len(t) : Text(b)[k] = t[k]
<1> DEFINE ends == {k \in 1..BufSize : b[k] = Nul} \cup {BufSize + 1}
           end == CHOOSE k \in ends : \A l \in ends : k <= l
<1>0. BufSize \in Nat /\ Len(t) \in Nat /\ \A k \in 1..Len(t) : t[k] \in Characters
  BY ServiceConstants, LenProperties
<1>1. ends \in SUBSET Nat /\ ends # {}
  BY <1>0
<1>2. end \in ends
  <2> HIDE DEF ends
  <2> QED
    BY <1>1, LeastNumber
<1>3. \A k \in ends : k > Len(t) /\ k \in 1..(BufSize + 1)
  BY <1>0, ServiceConstants
<1> HIDE DEF end
<1>4. end - 1 \in 0..BufSize /\ end - 1 >= Len(t)
  BY <1>0, <1>2, <1>3
<1>5. b \in Seq(Characters \cup {Nul}) /\ Len(b) = BufSize
  BY <1>0, IsASeq, LenProperties
<1>6. /\ Len(SubSeq(b, 1, end - 1)) = end - 1
      /\ \A k \in 1..(end - 1) : SubSeq(b, 1, end - 1)[k] = b[k]
  <2>1. CASE end - 1 = 0
    BY <1>5, <2>1, SubSeqProperties
  <2>2. CASE end - 1 # 0
    BY <1>0, <1>4, <1>5, <2>2, SubSeqProperties
  <2> QED
    BY <2>1, <2>2
<1>7. Text(b) = SubSeq(b, 1, end - 1)
  BY DEF Text, end
<1> QED
  BY <1>0, <1>4, <1>6, <1>7

(* A reply is made by Serve only.                                           *)
LEMMA RepliesAdded ==
  ASSUME [Next]_vars
  PROVE  replies' \subseteq replies \/ \E m \in requests : Serve(m)
BY DEF Next, vars, Ask, Quit, TakeReply, Arrived, ShutDown, Vanish, Bounce

LEMMA RefusalsKept == IInv /\ LettersAlwaysRefused /\ [Next]_vars => LettersAlwaysRefused'
<1> SUFFICES ASSUME IInv, LettersAlwaysRefused, [Next]_vars PROVE LettersAlwaysRefused'
  OBVIOUS
<1>1. CASE replies' \subseteq replies
  BY <1>1 DEF LettersAlwaysRefused
<1>2. ASSUME NEW m \in requests, Serve(m) PROVE LettersAlwaysRefused'
  <2>1. PICK v \in Verdicts(Text(buff')) :
          replies' = replies \cup {[to |-> Sender(m), verdict |-> v, re |-> m.text]}
    BY <1>2 DEF Serve
  <2>2. m.text \in Seq(Characters) /\ Len(m.text) < BufSize /\ buff' = Overwritten(m.text)
    BY <1>2 DEF IInv, ShortRequests, Serve
  <2>3. buff' \in [1..BufSize -> Characters \cup {Nul}]
    BY <1>2, ServeKeepsIInv DEF IInv, Buffer
  <2>4. \A k \in 1..Len(m.text) : buff'[k] = m.text[k]
    BY <2>2, ServiceConstants, LenProperties DEF Overwritten
  <2>5. /\ Len(Text(buff')) >= Len(m.text) /\ Len(Text(buff')) \in Nat
        /\ \A k \in 1..Len(m.text) : Text(buff')[k] = m.text[k]
    BY <2>2, <2>3, <2>4, TextBegins
  <2>6. HasLetter(m.text) => HasLetter(Text(buff'))
    BY <2>2, <2>5, LenProperties DEF HasLetter
  <2>7. HasLetter(m.text) => v = -1
    BY <2>1, <2>6 DEF Verdicts
  <2> DEFINE r == [to |-> Sender(m), verdict |-> v, re |-> m.text]
  <2>8. r.re = m.text /\ r.verdict = v
    OBVIOUS
  <2> HIDE DEF r
  <2>9. replies' = replies \cup {r}
    BY <2>1 DEF r
  <2> QED
    BY <2>7, <2>8, <2>9 DEF LettersAlwaysRefused
<1> QED
  BY <1>1, <1>2, RepliesAdded

(* Whatever was served before, a text with a letter is refused: what is     *)
(* left in the buffer can only be appended to it (server3.cpp 74 and 129).  *)
THEOREM LettersNeverPass == Spec => []LettersAlwaysRefused
<1>1. Init => LettersAlwaysRefused
  BY DEF Init, LettersAlwaysRefused
<1> QED
  BY <1>1, InitIInv, NextKeepsIInv, RefusalsKept, PTL DEF Spec

-----------------------------------------------------------------------------
(* A client that types has nothing under way, and one that waits has one    *)
(* datagram under way at most, about its last line.                         *)
Datagrams ==
  /\ requests \subseteq [from : Clients, text : Seq(Characters)]
  /\ client \in [Clients -> {"typing", "waiting", "quit", "failed"}]
  /\ DOMAIN message = Clients /\ DOMAIN answer = Clients
AtTyping(c) ==
  client[c] = "typing" =>
    /\ \A m \in requests : m.from # c
    /\ \A r \in replies : r.to # c
    /\ answer[c] # NoAnswer => answer[c].re = message[c]
AtWaiting(c) ==
  client[c] = "waiting" =>
    /\ \A m \in requests : m.from = c => m.text = message[c]
    /\ \A r \in replies : r.to = c => r.re = message[c]
    /\ \A m \in requests, r \in replies : ~(m.from = c /\ r.to = c)
    /\ \A r, q \in replies : r.to = c /\ q.to = c => r = q
OneUnderWay ==
  /\ Datagrams
  /\ network # "duplicating" => \A c \in Clients : AtTyping(c) /\ AtWaiting(c)

LEMMA OneUnderWayInit == Init => OneUnderWay
<1> SUFFICES ASSUME Init PROVE OneUnderWay
  OBVIOUS
<1> QED
  BY DEF Init, OneUnderWay, Datagrams, AtTyping, AtWaiting

(* Who takes no part, and of whom no datagram is new.                       *)
LEMMA OtherClient ==
  ASSUME NEW e \in Clients, AtTyping(e), AtWaiting(e),
         client'[e] = client[e], message'[e] = message[e], answer'[e] = answer[e],
         \A m \in requests' : m.from = e => m \in requests,
         \A r \in replies' : r.to = e => r \in replies
  PROVE  AtTyping(e)' /\ AtWaiting(e)'
<1>1. AtTyping(e)'
  BY DEF AtTyping
<1>2. AtWaiting(e)'
  BY DEF AtWaiting
<1> QED
  BY <1>1, <1>2

LEMMA SendKeepsOne ==
  ASSUME OneUnderWay, NEW c \in Clients, NEW t \in Seq(Characters),
         NEW new \in {"waiting", "quit"}, client[c] = "typing",
         requests' = requests \cup {[from |-> c, text |-> t]},
         message' = [message EXCEPT ![c] = t],
         client' = [client EXCEPT ![c] = new],
         UNCHANGED <<network, replies, answer>>
  PROVE  OneUnderWay'
<1> DEFINE q == [from |-> c, text |-> t]
<1>1. q \in [from : Clients, text : Seq(Characters)] /\ q.from = c /\ q.text = t
  OBVIOUS
<1>2. requests' = requests \cup {q}
  OBVIOUS
<1> HIDE DEF q
<1>3. Datagrams'
  BY <1>1, <1>2 DEF OneUnderWay, Datagrams
<1>4. /\ client'[c] = new /\ message'[c] = t
      /\ \A e \in Clients \ {c} : client'[e] = client[e] /\ message'[e] = message[e]
  BY DEF OneUnderWay, Datagrams
<1>5. ASSUME network # "duplicating", NEW e \in Clients PROVE AtTyping(e)' /\ AtWaiting(e)'
  <2>1. AtTyping(e) /\ AtWaiting(e)
    BY <1>5 DEF OneUnderWay
  <2>2. CASE e # c
    BY <1>1, <1>2, <1>4, <2>1, <2>2, OtherClient
  <2>3. CASE e = c
    BY <1>1, <1>2, <1>4, <2>1, <2>3 DEF AtTyping, AtWaiting
  <2> QED
    BY <2>2, <2>3
<1> QED
  BY <1>3, <1>5 DEF OneUnderWay

LEMMA TakeKeepsOne ==
  ASSUME OneUnderWay, NEW c \in Clients, TakeReply(c)
  PROVE  OneUnderWay'
<1>1. PICK r \in replies :
        /\ r.to = c
        /\ answer' = [answer EXCEPT ![c] = r]
        /\ Arrived(replies, replies' = replies \ {r})
  BY DEF TakeReply
<1>2. /\ client[c] = "waiting" /\ client' = [client EXCEPT ![c] = "typing"]
      /\ UNCHANGED <<requests, message>> /\ network' = network
  BY <1>1 DEF TakeReply, Arrived, netVars
<1>3. Datagrams'
  BY <1>1, <1>2 DEF OneUnderWay, Datagrams
<1>4. /\ client'[c] = "typing" /\ answer'[c] = r
      /\ \A e \in Clients \ {c} : client'[e] = client[e] /\ answer'[e] = answer[e]
  BY <1>1, <1>2 DEF OneUnderWay, Datagrams
<1>5. ASSUME network # "duplicating", NEW e \in Clients PROVE AtTyping(e)' /\ AtWaiting(e)'
  <2>1. AtTyping(e) /\ AtWaiting(e) /\ replies' = replies \ {r}
    BY <1>1, <1>5 DEF OneUnderWay, Arrived
  <2>2. CASE e # c
    BY <1>2, <1>4, <2>1, <2>2, OtherClient
  <2>3. CASE e = c
    <3>1. r.re = message[c] /\ \A m \in requests : m.from # c
      BY <1>1, <1>2, <2>1, <2>3 DEF AtWaiting
    <3>2. \A q \in replies' : q.to # c
      BY <1>1, <1>2, <2>1, <2>3 DEF AtWaiting
    <3> QED
      BY <1>2, <1>4, <2>3, <3>1, <3>2 DEF AtTyping, AtWaiting
  <2> QED
    BY <2>2, <2>3
<1> QED
  BY <1>2, <1>3, <1>5 DEF OneUnderWay

LEMMA ServeKeepsOne ==
  ASSUME OneUnderWay, NEW m \in requests, Serve(m)
  PROVE  OneUnderWay'
<1>1. PICK v : replies' = replies \cup {[to |-> m.from, verdict |-> v, re |-> m.text]}
  BY DEF Serve, Sender
<1> DEFINE r == [to |-> m.from, verdict |-> v, re |-> m.text]
<1>2. r.to = m.from /\ r.re = m.text
  OBVIOUS
<1>3. replies' = replies \cup {r}
  BY <1>1
<1> HIDE DEF r
<1>4. /\ UNCHANGED <<client, message, answer>> /\ requests' \subseteq requests
      /\ network' = network
      /\ network # "duplicating" => requests' = requests \ {m}
  BY DEF Serve, Arrived, Consumed, netVars
<1>5. Datagrams' /\ m \in [from : Clients, text : Seq(Characters)]
  BY <1>4 DEF OneUnderWay, Datagrams
<1>6. ASSUME network # "duplicating", NEW e \in Clients PROVE AtTyping(e)' /\ AtWaiting(e)'
  <2>1. AtTyping(e) /\ AtWaiting(e)
    BY <1>6 DEF OneUnderWay
  <2>2. CASE e # m.from
    BY <1>2, <1>3, <1>4, <2>1, <2>2, OtherClient
  <2>3. CASE e = m.from
    <3>1. client[e] # "typing"
      BY <2>1, <2>3 DEF AtTyping
    <3>2. ASSUME client[e] = "waiting"
          PROVE  /\ r.re = message[e] /\ \A q \in replies : q.to # e
                 /\ \A q \in requests' : q.from # e
      <4>1. m.text = message[e] /\ \A q \in replies : q.to # e
        BY <2>1, <2>3, <3>2 DEF AtWaiting
      <4>2. ASSUME NEW q \in requests, q.from = e PROVE q = m
        <5>1. q.text = m.text /\ q.from = m.from
          BY <2>1, <2>3, <3>2, <4>1, <4>2 DEF AtWaiting
        <5>2. q \in [from : Clients, text : Seq(Characters)]
          BY DEF OneUnderWay, Datagrams
        <5> QED
          BY <1>5, <5>1, <5>2
      <4> QED
        BY <1>2, <1>4, <1>6, <4>1, <4>2
    <3> QED
      BY <1>3, <1>4, <3>1, <3>2 DEF AtTyping, AtWaiting
  <2> QED
    BY <2>2, <2>3
<1> QED
  BY <1>4, <1>5, <1>6 DEF OneUnderWay

LEMMA LossKeepsOne ==
  ASSUME OneUnderWay, UNCHANGED <<network, message, answer>>,
         requests' \subseteq requests, replies' \subseteq replies,
         client' \in [Clients -> {"typing", "waiting", "quit", "failed"}],
         \A e \in Clients : client'[e] \in {client[e], "failed"}
  PROVE  OneUnderWay'
<1>1. Datagrams'
  BY DEF OneUnderWay, Datagrams
<1>2. ASSUME network # "duplicating", NEW e \in Clients PROVE AtTyping(e)' /\ AtWaiting(e)'
  <2>1. AtTyping(e) /\ AtWaiting(e)
    BY <1>2 DEF OneUnderWay
  <2>2. CASE client'[e] = client[e]
    BY <2>1, <2>2, OtherClient
  <2>3. CASE client'[e] = "failed"
    BY <2>3 DEF AtTyping, AtWaiting
  <2> QED
    BY <2>2, <2>3
<1> QED
  BY <1>1, <1>2 DEF OneUnderWay

LEMMA NextKeepsOne == OneUnderWay /\ [Next]_vars => OneUnderWay'
<1> SUFFICES ASSUME OneUnderWay, [Next]_vars PROVE OneUnderWay'
  OBVIOUS
<1>1. ASSUME NEW c \in Clients, NEW line \in Lines, Ask(c, line)
      PROVE  OneUnderWay'
  <2> DEFINE text == IF Len(line) > LineLimit THEN SubSeq(line, 1, LineLimit) ELSE line
  <2>1. text \in Seq(Characters)
    BY CutLine
  <2>2. /\ requests' = requests \cup {[from |-> c, text |-> text]}
        /\ message' = [message EXCEPT ![c] = text]
    BY <1>1 DEF Ask
  <2> HIDE DEF text
  <2> QED
    BY <1>1, <2>1, <2>2, SendKeepsOne DEF Ask, netVars
<1>2. ASSUME NEW c \in Clients, Quit(c)
      PROVE  OneUnderWay'
  <2>1. <<>> \in Seq(Characters)
    BY EmptySeq
  <2> QED
    BY <1>2, <2>1, SendKeepsOne DEF Quit, netVars
<1>3. ASSUME NEW m \in requests, ShutDown(m) \/ Bounce(m)
      PROVE  OneUnderWay'
  <2>1. /\ client' \in [Clients -> {"typing", "waiting", "quit", "failed"}]
        /\ \A e \in Clients : client'[e] \in {client[e], "failed"}
    BY <1>3 DEF ShutDown, Bounce, OneUnderWay, Datagrams
  <2> QED
    BY <1>3, <2>1, LossKeepsOne DEF ShutDown, Bounce, Consumed, netVars
<1>4. CASE Vanish
  BY <1>4, LossKeepsOne DEF Vanish, netVars, OneUnderWay, Datagrams
<1>5. CASE UNCHANGED vars
  BY <1>5, LossKeepsOne DEF vars, OneUnderWay, Datagrams
<1> QED
  BY <1>1, <1>2, <1>3, <1>4, <1>5, TakeKeepsOne, ServeKeepsOne DEF Next

(* Unless the network duplicates, the reply a client prints is the one to   *)
(* the line it sent last, though nothing numbers them: it asks one thing at *)
(* a time, and what is lost leaves it waiting (client3.cpp 70-103).         *)
THEOREM AnswersAreCurrent == Spec => []AnswersLastLine
<1>1. OneUnderWay => AnswersLastLine
  BY DEF OneUnderWay, AtTyping, AnswersLastLine
<1> QED
  BY <1>1, OneUnderWayInit, NextKeepsOne, PTL DEF Spec
=============================================================================
