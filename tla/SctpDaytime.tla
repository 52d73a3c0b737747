----------------------------- MODULE SctpDaytime -----------------------------
(***************************************************************************)
(* The SCTP daytime service of Lab04/zad2: server2 sends whoever connects  *)
(* the date on stream 0 and the time on stream 1 and never closes the      *)
(* association; client2 reads as many messages as it asked for streams,    *)
(* less one, and leaves.  Messages of two streams come in either order.    *)
(***************************************************************************)
EXTENDS Integers

CONSTANTS
  Callers,    (* the clients                                              *)
  OutStreams  (* sinit_num_ostreams of client2; 3                         *)

ASSUME DaytimeConstants == OutStreams \in Nat \ {0}

Nobody == "nobody"
Messages == {"date", "time"}      \* stream 0 and stream 1

VARIABLES
  clock,      (* the server: "accept", "date", "time" or "stopped"        *)
  guest,      (* whom it serves                                           *)
  taken,      (* the associations accepted and never closed               *)
  call,       (* the client: "away", "connected", "left" or "cut"         *)
  toRead,     (* the rounds of its loop to come                           *)
  asks,       (* its uninitialised flags: "take", "peek", "hurry"         *)
  sound,      (* ghost: they asked for nothing when it began              *)
  mail,       (* messages that have reached it or will                    *)
  shown       (* what it printed                                          *)

serverEnd == <<clock, guest, taken>>
callerEnd == <<call, toRead, asks, sound, shown>>
dayVars == <<serverEnd, callerEnd, mail>>

RoundsOfAll == OutStreams         \* mutant: one round for each stream asked for
Rounds == OutStreams - 1          \* line 84 of client2

DayTypeOK ==
  /\ clock \in {"accept", "date", "time", "stopped"}
  /\ guest \in Callers \cup {Nobody}
  /\ taken \subseteq Callers
  /\ call \in [Callers -> {"away", "connected", "left", "cut"}]
  /\ toRead \in [Callers -> 0..Rounds]
  /\ asks \in [Callers -> {"take", "peek", "hurry"}]
  /\ sound \in [Callers -> BOOLEAN]
  /\ mail \in [Callers -> SUBSET Messages]
  /\ shown \in [Callers -> SUBSET Messages]

(* Lines 28-62 of server2.                                                 *)
DayInit ==
  /\ clock = "accept" /\ guest = Nobody /\ taken = {}
  /\ call = [c \in Callers |-> "away"]
  /\ toRead = [c \in Callers |-> 0]
  /\ asks = [c \in Callers |-> "take"]
  /\ sound = [c \in Callers |-> TRUE]
  /\ mail = [c \in Callers |-> {}]
  /\ shown = [c \in Callers |-> {}]

-----------------------------------------------------------------------------
(* client2, lines 17-77.                                                   *)
Call(c) ==
  /\ clock # "stopped" /\ call[c] = "away"
  /\ call' = [call EXCEPT ![c] = "connected"]
  /\ toRead' = [toRead EXCEPT ![c] = Rounds]
  /\ \E f \in {"take", "peek", "hurry"} :
       asks' = [asks EXCEPT ![c] = f] /\ sound' = [sound EXCEPT ![c] = (f = "take")]
  /\ UNCHANGED <<serverEnd, mail, shown>>

(* A round of lines 84-95.                                                 *)
ReadMail(c) ==
  /\ call[c] = "connected" /\ toRead[c] > 0
  /\ \E m \in mail[c] :
       /\ shown' = [shown EXCEPT ![c] = @ \cup {m}]
       /\ mail' = [mail EXCEPT ![c] = IF asks[c] = "peek" THEN @ ELSE @ \ {m}]
  /\ asks' = [asks EXCEPT ![c] = "take"]
  /\ toRead' = [toRead EXCEPT ![c] = @ - 1]
  /\ UNCHANGED <<serverEnd, call, sound>>

(* A round in which sctp_recvmsg fails: it does not wait, or the server    *)
(* has ended.                                                              *)
ReadNone(c) ==
  /\ call[c] = "connected" /\ toRead[c] > 0 /\ mail[c] = {}
  /\ asks[c] = "hurry" \/ clock = "stopped"
  /\ toRead' = [toRead EXCEPT ![c] = @ - 1]
  /\ UNCHANGED <<serverEnd, call, asks, sound, mail, shown>>

Leave(c) ==
  /\ call[c] = "connected" /\ toRead[c] = 0
  /\ call' = [call EXCEPT ![c] = "left"]
  /\ UNCHANGED <<serverEnd, toRead, asks, sound, mail, shown>>

(* The user interrupts it.                                                 *)
Cut(c) ==
  /\ call[c] = "connected"
  /\ call' = [call EXCEPT ![c] = "cut"]
  /\ UNCHANGED <<serverEnd, toRead, asks, sound, mail, shown>>

-----------------------------------------------------------------------------
(* server2, lines 64-102.  accept fails for want of a descriptor, which    *)
(* every association accepted and not closed brings nearer.                *)
AcceptCall(c) ==
  /\ clock = "accept" /\ call[c] # "away" /\ c \notin taken
  /\ clock' = "date" /\ guest' = c /\ taken' = taken \cup {c}
  /\ UNCHANGED <<callerEnd, mail>>

AcceptCallFails ==
  /\ clock = "accept"
  /\ clock' = "stopped"
  /\ UNCHANGED <<guest, taken, callerEnd, mail>>

SendDay(m, then) ==
  /\ \/ clock' = then /\ mail' = [mail EXCEPT ![guest] = @ \cup {m}]
     \/ call[guest] \in {"left", "cut"} /\ clock' = "stopped" /\ UNCHANGED mail
  /\ UNCHANGED <<guest, taken, callerEnd>>

SendDate == clock = "date" /\ SendDay("date", "time")
SendTime == clock = "time" /\ SendDay("time", "accept")

Daytime == (\E c \in Callers : AcceptCall(c)) \/ SendDate \/ SendTime
Caller(c) == ReadMail(c) \/ ReadNone(c) \/ Leave(c)

DayNext == Daytime \/ AcceptCallFails \/ \E c \in Callers : Call(c) \/ Caller(c) \/ Cut(c)

(* accept need never fail, so its failure is not among the steps owed.     *)
DayFairness == WF_dayVars(Daytime) /\ \A c \in Callers : WF_dayVars(Caller(c))
DaySpec == DayInit /\ [][DayNext]_dayVars /\ DayFairness

-----------------------------------------------------------------------------
(* Whoever calls with flags that ask for nothing leaves with the date and  *)
(* the time, in whichever order they came, unless the server ended before  *)
(* it was served or the user cut the call: the number of streams asked for *)
(* is one more than the messages sent (client2 lines 55 and 84, server2    *)
(* lines 83 and 95).                                                       *)
ToldBoth ==
  \A c \in Callers :
    call[c] = "connected" /\ sound[c] ~>
      \/ call[c] = "left" /\ shown[c] = Messages
      \/ call[c] = "cut"
      \/ clock = "stopped" /\ c \notin taken
=============================================================================
