------------------------------ MODULE SctpEcho ------------------------------
(***************************************************************************)
(* The SCTP echo service of Lab04/zad3: server3 on one socket for all its  *)
(* associations, answering on the stream of the request (wybor 0) or on    *)
(* the next one (wybor 1), and client3, which sends its next line on the   *)
(* stream of the last answer.  SCTP keeps the order within a stream, not   *)
(* across streams.  client3 initialises none of i, stream and flags.       *)
(***************************************************************************)
EXTENDS Integers, Sequences

CONSTANTS
  Talkers,    (* the clients                                              *)
  Streams,    (* streams of an association in each direction; 5           *)
  Garbage,    (* what an uninitialised stream holds; Streams if no stream *)
  MaxLines    (* lines a client is given at most                          *)

ASSUME EchoConstants ==
  /\ Streams \in Nat \ {0} /\ MaxLines \in Nat
  /\ Garbage \subseteq 0..Streams

Stream == 0 .. Streams - 1
Lines == 1..MaxLines

(* What sctp_recvmsg makes of the flags it is given by the caller: takes   *)
(* the message and waits for one, leaves it in place, or does not wait.    *)
Flags == {"take", "peek", "hurry"}

VARIABLES
  wybor,      (* argv[2] of the server                                    *)
  echo,       (* the server: "up" or "stopped"                            *)
  requests, answers,    (* of each client on each stream, under way       *)
  doing,      (* the client: "off", "line", "answer" or "ended"           *)
  first,      (* i = 0                                                    *)
  stream, flags,        (* its variables                                  *)
  began,      (* ghost: the stream it starts on and the flags it has then *)
  typed,      (* the number of lines it has sent                          *)
  heard       (* the answers it printed, with their streams               *)

clientEnd == <<doing, first, stream, flags, began, typed, heard>>
echoVars == <<wybor, echo, requests, answers, clientEnd>>

EchoTypeOK ==
  /\ wybor \in {0, 1} /\ echo \in {"up", "stopped"}
  /\ requests \in [Talkers -> [Stream -> Seq(Lines)]]
  /\ answers \in [Talkers -> [Stream -> Seq(Lines)]]
  /\ doing \in [Talkers -> {"off", "line", "answer", "ended"}]
  /\ first \in [Talkers -> BOOLEAN]
  /\ stream \in [Talkers -> 0..Streams]
  /\ flags \in [Talkers -> Flags]
  /\ began \in [Talkers -> [stream : 0..Streams, flags : Flags]]
  /\ typed \in [Talkers -> 0..MaxLines]
  /\ heard \in [Talkers -> Seq([line : Lines, stream : Stream])]

Silent == [c \in Talkers |-> [s \in Stream |-> <<>>]]

(* Either choice, lines 33-77 of the server.                               *)
EchoInit ==
  /\ wybor \in {0, 1} /\ echo = "up"
  /\ requests = Silent /\ answers = Silent
  /\ doing = [c \in Talkers |-> "off"]
  /\ first = [c \in Talkers |-> TRUE]
  /\ stream = [c \in Talkers |-> 0]
  /\ flags = [c \in Talkers |-> "take"]
  /\ began = [c \in Talkers |-> [stream |-> 0, flags |-> "take"]]
  /\ typed = [c \in Talkers |-> 0]
  /\ heard = [c \in Talkers |-> <<>>]

-----------------------------------------------------------------------------
(* client3, lines 17-77: i, stream and flags may hold anything.            *)
Open(c) ==
  /\ doing[c] = "off"
  /\ doing' = [doing EXCEPT ![c] = IF echo = "up" THEN "line" ELSE "ended"]
  /\ first' \in {[first EXCEPT ![c] = b] : b \in BOOLEAN}
  /\ stream' \in {[stream EXCEPT ![c] = s] : s \in Garbage}
  /\ flags' \in {[flags EXCEPT ![c] = f] : f \in Flags}
  /\ began' = [began EXCEPT ![c] = [stream |-> IF first'[c] THEN 0 ELSE stream'[c], flags |-> flags'[c]]]
  /\ UNCHANGED <<wybor, echo, requests, answers, typed, heard>>

(* Lines 79-80, and the end of the association.                            *)
Close(c) ==
  /\ doing[c] = "line"
  /\ doing' = [doing EXCEPT ![c] = "ended"]
  /\ UNCHANGED <<wybor, echo, requests, answers, first, stream, flags, began, typed, heard>>

OnStream(c) == IF first[c] THEN 0 ELSE stream[c]

(* Lines 82-103.                                                           *)
SendLine(c) ==
  /\ doing[c] = "line" /\ typed[c] < MaxLines
  /\ echo = "up" /\ OnStream(c) \in Stream
  /\ typed' = [typed EXCEPT ![c] = @ + 1]
  /\ requests' = [requests EXCEPT ![c][OnStream(c)] = Append(@, typed'[c])]
  /\ first' = [first EXCEPT ![c] = FALSE]
  /\ doing' = [doing EXCEPT ![c] = "answer"]
  /\ UNCHANGED <<wybor, echo, answers, stream, flags, began, heard>>

SendFails(c) ==
  /\ doing[c] = "line" /\ typed[c] < MaxLines
  /\ echo = "stopped" \/ OnStream(c) \notin Stream
  /\ doing' = [doing EXCEPT ![c] = "ended"]
  /\ UNCHANGED <<wybor, echo, requests, answers, first, stream, flags, began, typed, heard>>

StreamKept(c, s) == stream[c]    \* mutant: line 116 missing
StreamAfter(c, s) == s

(* Lines 105-117; sctp_recvmsg leaves in flags that a record was complete, *)
(* which as an argument asks for nothing.                                  *)
Hear(c) ==
  /\ doing[c] = "answer"
  /\ \E s \in Stream :
       /\ answers[c][s] # <<>>
       /\ answers' = (IF flags[c] = "peek" THEN answers
                      ELSE [answers EXCEPT ![c][s] = Tail(@)])
       /\ heard' = [heard EXCEPT ![c] = Append(@, [line |-> Head(answers[c][s]), stream |-> s])]
       /\ stream' = [stream EXCEPT ![c] = StreamAfter(c, s)]
  /\ flags' = [flags EXCEPT ![c] = "take"]
  /\ doing' = [doing EXCEPT ![c] = "line"]
  /\ UNCHANGED <<wybor, echo, requests, first, began, typed>>

HearNothingRetried(c) ==     \* mutant: a failed receive is tried again
  doing[c] = "answer" /\ (\A s \in Stream : answers[c][s] = <<>>) /\ UNCHANGED echoVars

(* It fails at once, or when the association is gone.                      *)
HearNothing(c) ==
  /\ doing[c] = "answer"
  /\ \A s \in Stream : answers[c][s] = <<>>
  /\ flags[c] = "hurry" \/ echo = "stopped"
  /\ doing' = [doing EXCEPT ![c] = "line"]
  /\ UNCHANGED <<wybor, echo, requests, answers, first, stream, flags, began, typed, heard>>

-----------------------------------------------------------------------------
(* server3, lines 80-110.                                                  *)
NextStream(s) == IF wybor = 0 THEN s ELSE IF s + 1 < Streams THEN s + 1 ELSE 0

(* sctp_sendmsg fails for a stream that does not exist, and may fail for   *)
(* an association whose client has gone: the server exits.                 *)
Echo(c, s) ==
  /\ echo = "up" /\ requests[c][s] # <<>>
  /\ requests' = [requests EXCEPT ![c][s] = Tail(@)]
  /\ \/ /\ NextStream(s) \in Stream
        /\ answers' = [answers EXCEPT ![c][NextStream(s)] = Append(@, Head(requests[c][s]))]
        /\ UNCHANGED echo
     \/ /\ NextStream(s) \notin Stream \/ doing[c] = "ended"
        /\ echo' = "stopped"
        /\ UNCHANGED answers
  /\ UNCHANGED <<wybor, clientEnd>>

EchoTo(c) == \E s \in Stream : Echo(c, s)
Listen(c) == Hear(c) \/ HearNothing(c)

EchoNext ==
  \E c \in Talkers :
    EchoTo(c) \/ Open(c) \/ Close(c) \/ SendLine(c) \/ SendFails(c) \/ Listen(c)

EchoFairness ==
  \A c \in Talkers : WF_echoVars(EchoTo(c)) /\ WF_echoVars(Listen(c))
EchoSpec == EchoInit /\ [][EchoNext]_echoVars /\ EchoFairness

-----------------------------------------------------------------------------
(* Line n is answered by answer n, and the streams go round: the stream of *)
(* an answer is as many steps from the first as lines were answered, one   *)
(* side adding one and the other following (server lines 87-104, client    *)
(* lines 82-116).  It holds for a client whose uninitialised flags asked   *)
(* for nothing; otherwise it hears an answer twice or not at all.          *)
EchoesInTurn ==
  \A c \in Talkers :
    began[c].flags = "take" =>
      /\ \A n \in DOMAIN heard[c] :
           heard[c][n] = [line |-> n, stream |-> (began[c].stream + n * wybor) % Streams]
      /\ typed[c] - Len(heard[c]) \in {0, 1}

(* A client that waits for an answer goes on: with the answer, or because  *)
(* the server ended.  No request is left and none is answered to another   *)
(* client (server lines 84-104).                                           *)
LinesAnswered == \A c \in Talkers : doing[c] = "answer" ~> doing[c] # "answer"
=============================================================================
