--------------------------- MODULE GreetingServer ---------------------------
(***************************************************************************)
(* The greeting servers of Lab02 and their clients: server4 accepts,       *)
(* greets and closes; server6 does the same on a descriptor that is 0,     *)
(* because line 78 assigns the comparison and not what accept returned.    *)
(***************************************************************************)
EXTENDS Posix, Sequences

CONSTANTS
  Visitors,
  Places,     (* the descriptors of the process, 0 its standard input     *)
  Absent      (* no visitor                                               *)

ASSUME PlacesAreNumbers ==
  /\ Places \subseteq Nat /\ {0, 1, 2} \subseteq Places
  /\ Absent \notin Visitors
  /\ Visitors \cap {"terminal", "file", "listening", "free"} = {}

VARIABLES
  which,      (* "server4" or "server6"                                   *)
  greeter,    (* "open", "accept", "greet", "close" or "stopped"          *)
  holds,      (* what each descriptor is open on: "terminal", "file" (to  *)
              (* read), "listening", a visitor, or "free"                 *)
  csd,        (* clientSocketDescriptor, new_socket                       *)
  callers,    (* the visitors accepted, in order                          *)
  calling,    (* those who wait for accept, in order                      *)
  visit,      (* "away", "waiting", "left" or "greeted"                   *)
  sentTo      (* those to whom the greeting was sent                      *)

greeterVars == <<which, greeter, holds, csd, callers, calling, sentTo>>
greetVars == <<greeterVars, visit>>

GreetTypeOK ==
  /\ which \in {"server4", "server6"}
  /\ greeter \in {"open", "accept", "greet", "close", "stopped"}
  /\ holds \in [Places -> Visitors \cup {"terminal", "file", "listening", "free"}]
  /\ csd \in Places
  /\ callers \in Seq(Visitors) /\ calling \in Seq(Visitors)
  /\ visit \in [Visitors -> {"away", "waiting", "left", "greeted"}]
  /\ sentTo \subseteq Visitors

(* A shell starts the server on a terminal, or with its input from a file. *)
GreetInit ==
  /\ which \in {"server4", "server6"} /\ greeter = "open"
  /\ \E input \in {"terminal", "file", "free"} :
       holds = [d \in Places |-> IF d = 0 THEN input ELSE IF d \in {1, 2} THEN "terminal" ELSE "free"]
  /\ csd = 1 /\ callers = <<>> /\ calling = <<>> /\ sentTo = {}
  /\ visit = [v \in Visitors |-> "away"]

Free == {d \in Places : holds[d] = "free"}
Stop == greeter' = "stopped" /\ UNCHANGED <<which, holds, csd, callers, calling, sentTo, visit>>

(* Lines 18-70 of server6, 25-92 of server4.                               *)
OpenGreeter ==
  /\ greeter = "open"
  /\ \/ /\ Free # {}
        /\ holds' = [holds EXCEPT ![Lowest(Free)] = "listening"]
        /\ greeter' = "accept"
        /\ UNCHANGED <<which, csd, callers, calling, sentTo, visit>>
     \/ Stop

-----------------------------------------------------------------------------
(* The clients client.cpp, client4.cpp and client6.c connect, receive once,*)
(* print and end; a user may end them before.                              *)
Connect(v) ==
  /\ greeter \notin {"open", "stopped"} /\ visit[v] = "away"
  /\ visit' = [visit EXCEPT ![v] = "waiting"]
  /\ calling' = Append(calling, v)
  /\ UNCHANGED <<which, greeter, holds, csd, callers, sentTo>>

ReadGreeting(v) ==
  /\ visit[v] = "waiting" /\ v \in sentTo
  /\ visit' = [visit EXCEPT ![v] = "greeted"]
  /\ UNCHANGED greeterVars

ReadEnd(v) ==
  /\ visit[v] = "waiting" /\ greeter = "stopped" /\ v \notin sentTo
  /\ visit' = [visit EXCEPT ![v] = "left"]
  /\ UNCHANGED greeterVars

GiveUp(v) ==
  /\ visit[v] = "waiting"
  /\ visit' = [visit EXCEPT ![v] = "left"]
  /\ UNCHANGED greeterVars

-----------------------------------------------------------------------------
(* In server6 the comparison with -1 is false once accept has succeeded.   *)
Assigned(d) == IF which = "server6" THEN 0 ELSE d

AcceptVisitor ==
  /\ greeter = "accept" /\ calling # <<>>
  /\ IF Free = {} THEN Stop
     ELSE /\ holds' = [holds EXCEPT ![Lowest(Free)] = Head(calling)]
          /\ csd' = Assigned(Lowest(Free))
          /\ callers' = Append(callers, Head(calling))
          /\ calling' = Tail(calling)
          /\ greeter' = "greet"
          /\ UNCHANGED <<which, sentTo, visit>>

(* A write to a terminal succeeds; to a file open for reading or a socket  *)
(* that listens it fails and ends server6; to a client that has gone it    *)
(* may succeed, fail, or end the server by SIGPIPE.  server6 prints the    *)
(* address to where an uninitialised pointer points, which may end it too. *)
Greet ==
  /\ greeter = "greet"
  /\ \/ /\ holds[csd] \in Visitors \cup {"terminal"}
        /\ sentTo' = sentTo \cup ({holds[csd]} \cap Visitors)
        /\ greeter' = "close"
        /\ UNCHANGED <<which, holds, csd, callers, calling, visit>>
     \/ /\ \/ which = "server6"
           \/ holds[csd] \in Visitors /\ visit[holds[csd]] = "left"
        /\ Stop

CsdLeftOpen == holds      \* mutant: close missing
CsdClosed == [holds EXCEPT ![csd] = "free"]

CloseGreeted ==
  /\ greeter = "close"
  /\ holds' = CsdClosed
  /\ greeter' = "accept"
  /\ UNCHANGED <<which, csd, callers, calling, sentTo, visit>>

Greeter == OpenGreeter \/ AcceptVisitor \/ Greet \/ CloseGreeted
Reader(v) == ReadGreeting(v) \/ ReadEnd(v)

GreetNext == Greeter \/ \E v \in Visitors : Connect(v) \/ Reader(v) \/ GiveUp(v)

GreetFairness == WF_greetVars(Greeter) /\ \A v \in Visitors : WF_greetVars(Reader(v))
GreetSpec == GreetInit /\ [][GreetNext]_greetVars /\ GreetFairness

-----------------------------------------------------------------------------
(* Each visitor is greeted on its own connection, which is then closed,    *)
(* but for the first of server6: its greeting goes to the terminal, whose  *)
(* descriptor 0 is closed for it; that makes 0 the descriptor of all later *)
(* connections, and the assignment at line 78 right by accident.  The      *)
(* first connection stays open and silent as long as the server runs.      *)
OnlyFirstUngreeted ==
  greeter = "accept" =>
    \A k \in DOMAIN callers :
      LET lost == which = "server6" /\ k = 1 IN
      /\ callers[k] \in sentTo <=> ~lost
      /\ (\E d \in Places : holds[d] = callers[k]) <=> lost
=============================================================================
