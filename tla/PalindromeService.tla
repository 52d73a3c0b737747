-------------------------- MODULE PalindromeService --------------------------
(***************************************************************************)
(* The UDP service of Lab01/zad3: server3.cpp receives a text, asks        *)
(* is_palindrome about it and sends one letter back; client3.cpp sends a   *)
(* line, waits for the letter without a timeout, and ends the server with  *)
(* an empty datagram when its user enters an empty line.                   *)
(*                                                                         *)
(* The server keeps one buffer for all clients and clears it only at its   *)
(* start, while recvfrom writes just the bytes of the datagram: is_palin-  *)
(* drome is given everything up to the first zero byte.  Datagrams may be  *)
(* reordered, and lost or duplicated, as the network of a behaviour has it.*)
(***************************************************************************)
EXTENDS LibPalindrome, FiniteSets

CONSTANTS
  Clients,      (* processes running client3.cpp                          *)
  Lines,        (* what their users may type                              *)
  BufSize,      (* sizeof(buff) in the server and of message in a client  *)
  Nul,          (* a zero byte                                            *)
  NoAnswer,     (* a client that was answered nothing yet                 *)
  MaxCopies     (* bound: datagrams delivered once too often              *)

ASSUME ServiceConstants ==
  /\ Lines \subseteq Seq(Characters) \ {<<>>}
  /\ BufSize \in Nat \ {0, 1}
  /\ Nul \notin Characters
  /\ MaxCopies \in Nat

VARIABLES
  network,    (* "reliable", "lossy" or "duplicating", once and for all   *)
  copies,     (* datagrams delivered once more than they were sent        *)
  up,         (* the server runs                                          *)
  buff,       (* the server's buffer                                      *)
  requests,   (* datagrams on their way to the server or queued there     *)
  replies,    (* datagrams on their way to a client or queued there       *)
  client,     (* "typing", "waiting", "quit" or "failed"                  *)
  input,      (* cin of each client: "good", or "failed" by a long line   *)
  message,    (* what each client sent last                               *)
  answer      (* the reply each client printed last                       *)

vars == <<network, copies, up, buff, requests, replies, client, input, message, answer>>

netVars == <<network, copies>>

(* A reply carries the verdict only; re remembers the text it was sent for.*)
Reply == [to : Clients, verdict : {-1, 0, 1}, re : Seq(Characters)]

TypeOK ==
  /\ network \in {"reliable", "lossy", "duplicating"}
  /\ copies \in 0..MaxCopies
  /\ up \in BOOLEAN
  /\ buff \in [1..BufSize -> Characters \cup {Nul}]
  /\ \A m \in requests : m.from \in Clients /\ m.text \in Seq(Characters)
  /\ replies \subseteq Reply
  /\ client \in [Clients -> {"typing", "waiting", "quit", "failed"}]
  /\ input \in [Clients -> {"good", "failed"}]
  /\ message \in [Clients -> Seq(Characters)]
  /\ answer \in [Clients -> Reply \cup {NoAnswer}]

Init ==
  /\ network \in {"reliable", "lossy", "duplicating"}
  /\ copies = 0
  /\ up = TRUE
  /\ buff = [k \in 1..BufSize |-> Nul]
  /\ requests = {}
  /\ replies = {}
  /\ client = [c \in Clients |-> "typing"]
  /\ input = [c \in Clients |-> "good"]
  /\ message = [c \in Clients |-> <<>>]
  /\ answer = [c \in Clients |-> NoAnswer]

-----------------------------------------------------------------------------
(* client3.cpp                                                             *)

(* getline stores at most BufSize - 1 characters and a terminator.         *)
LineLimitUnterminated == BufSize   \* mutant: the terminator is not counted
LineLimit == BufSize - 1

(* A longer line is cut and leaves cin failed.                             *)
Ask(c, line) ==
  /\ client[c] = "typing"
  /\ input[c] = "good"
  /\ LET text == IF Len(line) > LineLimit THEN SubSeq(line, 1, LineLimit) ELSE line
     IN /\ requests' = requests \cup {[from |-> c, text |-> text]}
        /\ message' = [message EXCEPT ![c] = text]
  /\ input' = IF Len(line) > LineLimit THEN [input EXCEPT ![c] = "failed"] ELSE input
  /\ client' = [client EXCEPT ![c] = "waiting"]
  /\ UNCHANGED <<netVars, up, buff, replies, answer>>

(* An empty line, the end of the input, or a cin that failed: the empty    *)
(* datagram goes out, and the client ends.                                 *)
Quit(c) ==
  /\ client[c] = "typing"
  /\ requests' = requests \cup {[from |-> c, text |-> <<>>]}
  /\ message' = [message EXCEPT ![c] = <<>>]
  /\ client' = [client EXCEPT ![c] = "quit"]
  /\ UNCHANGED <<netVars, up, buff, replies, input, answer>>

(* A datagram that is received is gone, or once more on its way.           *)
Arrived(all, rest) ==
  \/ rest /\ UNCHANGED netVars
  \/ /\ network = "duplicating"
     /\ copies < MaxCopies
     /\ copies' = copies + 1
     /\ UNCHANGED <<network, all>>

(* recvfrom gives whatever reply is there.                                 *)
TakeReply(c) ==
  /\ client[c] = "waiting"
  /\ \E r \in replies :
        /\ r.to = c
        /\ answer' = [answer EXCEPT ![c] = r]
        /\ Arrived(replies, replies' = replies \ {r})
  /\ client' = [client EXCEPT ![c] = "typing"]
  /\ UNCHANGED <<up, buff, requests, input, message>>

-----------------------------------------------------------------------------
(* server3.cpp                                                             *)

Shortened(t) ==                    \* mutant: the last byte is taken for a line end
  [k \in 1..BufSize |-> IF k < Len(t) THEN t[k] ELSE buff[k]]
Overwritten(t) ==
  [k \in 1..BufSize |-> IF k <= Len(t) THEN t[k] ELSE buff[k]]

(* The bytes strlen counts; without a zero byte it would go on past them.  *)
Text(b) == LET ends == {k \in 1..BufSize : b[k] = Nul} \cup {BufSize + 1}
               end == CHOOSE k \in ends : \A l \in ends : k <= l
           IN SubSeq(b, 1, end - 1)

Peeked(m) == requests              \* mutant: recvfrom with MSG_PEEK
Consumed(m) == requests \ {m}

FirstClient(m) == CHOOSE c \in Clients : TRUE   \* mutant: client_addr is not refreshed
Sender(m) == m.from

Serve(m) ==
  /\ up
  /\ m.text # <<>>
  /\ buff' = Overwritten(m.text)
  /\ \E v \in Verdicts(Text(buff')) :
        replies' = replies \cup {[to |-> Sender(m), verdict |-> v, re |-> m.text]}
  /\ Arrived(requests, requests' = Consumed(m))
  /\ UNCHANGED <<up, client, input, message, answer>>

(* An empty datagram, from whomever it comes, ends the server; what is     *)
(* queued at its socket by then is dropped (Vanish).                       *)
ShutDown(m) ==
  /\ up
  /\ m.text = <<>>
  /\ up' = FALSE
  /\ requests' = Consumed(m)
  /\ UNCHANGED <<netVars, buff, replies, client, input, message, answer>>

-----------------------------------------------------------------------------
(* The network.                                                            *)

Vanish ==
  /\ \/ /\ network = "lossy" \/ ~up
        /\ \E m \in requests : requests' = requests \ {m}
        /\ UNCHANGED replies
     \/ /\ network = "lossy"
        /\ \E r \in replies : replies' = replies \ {r}
        /\ UNCHANGED requests
  /\ UNCHANGED <<netVars, up, buff, client, input, message, answer>>

(* A datagram that finds no server bounces, and the next call of the       *)
(* client on its connected socket fails: it exits.                         *)
Bounce(m) ==
  /\ ~up
  /\ requests' = requests \ {m}
  /\ client' = IF client[m.from] = "quit" THEN client
               ELSE [client EXCEPT ![m.from] = "failed"]
  /\ UNCHANGED <<netVars, up, buff, replies, input, message, answer>>

-----------------------------------------------------------------------------

Next ==
  \/ \E c \in Clients : \/ \E line \in Lines : Ask(c, line)
                        \/ Quit(c)
                        \/ TakeReply(c)
  \/ \E m \in requests : Serve(m) \/ ShutDown(m) \/ Bounce(m)
  \/ Vanish

Spec == Init /\ [][Next]_vars

(* The server's loop goes on, and recvfrom of a client returns a reply     *)
(* that has arrived.                                                       *)
FairSpec ==
  /\ Spec
  /\ \A c \in Clients :
       /\ WF_vars(TakeReply(c))
       /\ WF_vars(\E m \in requests : m.from = c /\ (Serve(m) \/ ShutDown(m)))

-----------------------------------------------------------------------------
(* Whatever lines are typed, strlen stops inside the server's buffer: the  *)
(* limit of the clients (line 77) protects the server (line 129).          *)
Terminated == buff[BufSize] = Nul

(* Old bytes can only be appended to a text, so one with a letter is       *)
(* always refused, whoever was served before.                              *)
LettersAlwaysRefused == \A r \in replies : HasLetter(r.re) => r.verdict = -1

(* The reply a client prints is the one to the line it sent last: clients  *)
(* number nothing, they rely on asking one thing at a time.                *)
AnswersLastLine ==
  network # "duplicating" => \A c \in Clients :
    client[c] = "typing" /\ answer[c] # NoAnswer => answer[c].re = message[c]

(* Without loss a client is answered, or somebody has ended the server.    *)
WaitEnds ==
  \A c \in Clients :
    network = "reliable" /\ client[c] = "waiting" ~> client[c] # "waiting" \/ ~up

(* libpalindrome.c, lines 20-21: the length passed is the number of bytes  *)
(* recvfrom returned, so the verdict is about the datagram.                *)
VerdictOfDatagram == \A r \in replies : r.verdict \in Verdicts(r.re)
=============================================================================
