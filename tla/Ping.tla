-------------------------------- MODULE Ping --------------------------------
(***************************************************************************)
(* Lab03/zad5/ping.cpp: after a fork the child sends Count echo requests   *)
(* on the raw socket and the parent prints the first Count ICMP packets    *)
(* that arrive there, whatever they are, and ends; it never gives up.      *)
(***************************************************************************)
EXTENDS Integers, Sequences

CONSTANT Count      (* 4                                                   *)

ASSUME CountIsNat == Count \in Nat

Seqno == 1..Count
PingPackets == [type : {"request", "reply"}, id : {"own", "foreign"}, seqno : Seqno]
Packet(type, id, n) == [type |-> type, id |-> id, seqno |-> n]

VARIABLES
  net,        (* what is between: "clean", "lossy", "busy" (another ping  *)
              (* runs on this host) or "loopback" (the target is this host)*)
  sender, receiver,   (* "off", "on", "done" or "failed"                  *)
  pinged,     (* the requests sent                                        *)
  under,      (* packets on their way to the socket                       *)
  queue,      (* what the socket holds; both processes have it open       *)
  printed     (* what the parent printed                                  *)

pingVars == <<net, sender, receiver, pinged, under, queue, printed>>

PingTypeOK ==
  /\ net \in {"clean", "lossy", "busy", "loopback"}
  /\ sender \in {"off", "on", "done", "failed"}
  /\ receiver \in {"off", "on", "done", "failed"}
  /\ pinged \in 0..Count
  /\ under \subseteq PingPackets
  /\ queue \in Seq(PingPackets)
  /\ printed \in Seq(PingPackets)

PingInit ==
  /\ net \in {"clean", "lossy", "busy", "loopback"}
  /\ sender = "off" /\ receiver = "off"
  /\ pinged = 0 /\ under = {} /\ queue = <<>> /\ printed = <<>>

(* Lines 24-84: a name that does not resolve, no raw socket, no fork.      *)
Fork ==
  /\ receiver = "off"
  /\ \/ sender' = "on" /\ receiver' = "on"
     \/ sender' = "failed" /\ receiver' = "failed"
  /\ UNCHANGED <<net, pinged, under, queue, printed>>

-----------------------------------------------------------------------------
(* The child, lines 87-125.                                                *)
MoreToSendAndOne == pinged <= Count     \* mutant: i starts at 0
MoreToSend == pinged < Count

SendEcho ==
  /\ net # "loopback"
  /\ sender = "on" /\ MoreToSend
  /\ pinged' = pinged + 1
  /\ under' = under \cup {Packet("reply", "own", pinged')}
  /\ UNCHANGED <<net, sender, receiver, queue, printed>>

(* A target on this host answers at once, and the raw socket sees the      *)
(* request as well.                                                        *)
SendEchoHere ==
  /\ net = "loopback"
  /\ sender = "on" /\ MoreToSend
  /\ pinged' = pinged + 1
  /\ queue' = queue \o <<Packet("request", "own", pinged'), Packet("reply", "own", pinged')>>
  /\ UNCHANGED <<net, sender, receiver, under, printed>>

SendEchoFails ==
  /\ sender = "on" /\ MoreToSend
  /\ sender' = "failed"
  /\ UNCHANGED <<net, receiver, pinged, under, queue, printed>>

EndSender ==
  /\ sender = "on" /\ ~MoreToSend
  /\ sender' = "done"
  /\ UNCHANGED <<net, receiver, pinged, under, queue, printed>>

-----------------------------------------------------------------------------
(* The network: in any order, and what is not clean may lose.              *)
Reach(p) ==
  /\ p \in under
  /\ under' = under \ {p}
  /\ queue' = Append(queue, p)
  /\ UNCHANGED <<net, sender, receiver, pinged, printed>>

Lose(p) ==
  /\ net = "lossy" /\ p \in under
  /\ under' = under \ {p}
  /\ UNCHANGED <<net, sender, receiver, pinged, queue, printed>>

(* The kernel hands every ICMP packet to every raw ICMP socket.            *)
Stray ==
  /\ net = "busy" /\ Len(queue) + Len(printed) < Count
  /\ receiver = "on"
  /\ \E n \in Seqno : queue' = Append(queue, Packet("reply", "foreign", n))
  /\ UNCHANGED <<net, sender, receiver, pinged, under, printed>>

-----------------------------------------------------------------------------
(* The parent, lines 128-157.                                              *)
ExpectedOneMore == Count + 1     \* mutant: i <= 4
Expected == Count

RecvEcho ==
  /\ receiver = "on" /\ Len(printed) < Expected /\ queue # <<>>
  /\ printed' = Append(printed, Head(queue))
  /\ queue' = Tail(queue)
  /\ UNCHANGED <<net, sender, receiver, pinged, under>>

EndReceiver ==
  /\ receiver = "on" /\ Len(printed) = Expected
  /\ receiver' = "done"
  /\ UNCHANGED <<net, sender, pinged, under, queue, printed>>

PingNext ==
  \/ Fork \/ SendEcho \/ SendEchoHere \/ SendEchoFails \/ EndSender
  \/ \E p \in under : Reach(p) \/ Lose(p)
  \/ Stray \/ RecvEcho \/ EndReceiver

Child == SendEcho \/ SendEchoHere \/ SendEchoFails \/ EndSender
Parent == RecvEcho \/ EndReceiver
Network == \E p \in under : Reach(p)
PingFairness == WF_pingVars(Child) /\ WF_pingVars(Parent) /\ WF_pingVars(Network)
PingSpec == PingInit /\ [][PingNext]_pingVars /\ PingFairness

-----------------------------------------------------------------------------
(* Over a network that loses nothing, with no other ping and a target that *)
(* is another host, the parent, which counts packets and looks at none,    *)
(* ends and has printed each of the replies once (lines 100 and 140-142).  *)
Reported ==
  net = "clean" /\ receiver = "on" ~>
    \/ receiver = "done" /\ {printed[k] : k \in DOMAIN printed} = {Packet("reply", "own", n) : n \in Seqno}
    \/ sender = "failed"
=============================================================================
