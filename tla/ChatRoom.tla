------------------------------ MODULE ChatRoom ------------------------------
(***************************************************************************)
(* What the chat server of Lab01/zad4/server4.cpp promises its clients, as *)
(* one reads it off checkForNewConnection and checkConnectedClients without *)
(* descriptors, buffers or system calls: a member speaks, and before       *)
(* anyone joins, leaves or speaks again the message goes exactly once to   *)
(* every other member, in some order; a member whose connection is lost    *)
(* misses it.  The server may stop at any moment.                          *)
(***************************************************************************)
EXTENDS Sequences

CONSTANTS
  Peers,      (* those who may join                                       *)
  NoPeer,     (* the value of speaker when nobody speaks                  *)
  Welcome     (* what a new member reads first                            *)

VARIABLES
  running,    (* the server has not ended                                 *)
  line,       (* each peer's connection: "down", "up" or "lost"           *)
  members,    (* who takes part                                           *)
  inbox,      (* what each peer has been sent and has not read            *)
  speaker,    (* whose message is being passed on                         *)
  todo        (* the members it has not been passed on to                 *)

roomVars == <<running, line, members, inbox, speaker, todo>>

Quiet == running /\ speaker = NoPeer

Init ==
  /\ running = TRUE
  /\ line = [p \in Peers |-> "down"]
  /\ members = {}
  /\ inbox = [p \in Peers |-> <<>>]
  /\ speaker = NoPeer
  /\ todo = {}

Call(p) ==
  /\ running
  /\ line[p] = "down"
  /\ line' = [line EXCEPT ![p] = "up"]
  /\ UNCHANGED <<running, members, inbox, speaker, todo>>

Lose(p) ==
  /\ running
  /\ line[p] = "up"
  /\ line' = [line EXCEPT ![p] = "lost"]
  /\ inbox' = [inbox EXCEPT ![p] = <<>>]
  /\ UNCHANGED <<running, members, speaker, todo>>

Hear(p) ==
  /\ running
  /\ inbox[p] # <<>>
  /\ inbox' = [inbox EXCEPT ![p] = Tail(@)]
  /\ UNCHANGED <<running, line, members, speaker, todo>>

(* A message reaches a peer only while its line is up.                     *)
Put(p, m) ==
  inbox' = IF line[p] = "up" THEN [inbox EXCEPT ![p] = Append(@, m)] ELSE inbox

Join(p) ==
  /\ Quiet
  /\ p \notin members
  /\ line[p] # "down"
  /\ members' = members \cup {p}
  /\ Put(p, Welcome)
  /\ UNCHANGED <<running, line, speaker, todo>>

Leave(p) ==
  /\ Quiet
  /\ p \in members
  /\ line[p] = "lost"
  /\ members' = members \ {p}
  /\ line' = [line EXCEPT ![p] = "down"]
  /\ UNCHANGED <<running, inbox, speaker, todo>>

Speak(p) ==
  /\ Quiet
  /\ p \in members
  /\ speaker' = p
  /\ todo' = members \ {p}
  /\ UNCHANGED <<running, line, members, inbox>>

Deliver(m) ==
  /\ running
  /\ m \in todo
  /\ todo' = todo \ {m}
  /\ Put(m, speaker)
  /\ UNCHANGED <<running, line, members, speaker>>

Finish ==
  /\ running
  /\ speaker # NoPeer
  /\ todo = {}
  /\ speaker' = NoPeer
  /\ UNCHANGED <<running, line, members, inbox, todo>>

Halt ==
  /\ running
  /\ running' = FALSE
  /\ speaker' = NoPeer
  /\ todo' = {}
  /\ UNCHANGED <<line, members, inbox>>

Next ==
  \/ \E p \in Peers : \/ Call(p) \/ Lose(p) \/ Hear(p)
                      \/ Join(p) \/ Leave(p) \/ Speak(p) \/ Deliver(p)
  \/ Finish
  \/ Halt

Spec == Init /\ [][Next]_roomVars
=============================================================================
