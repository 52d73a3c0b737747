---------------------------- MODULE MCChatServer ----------------------------
(* Bounded instances of ChatServer for TLC.                                *)
EXTENDS ChatServer, SequencesExt

(* A gathering: three clients have joined and read their greeting, nobody  *)
(* else comes.  Peers leave, or stay, in every order and grouping, so the  *)
(* walk skips and revisits elements in every way it can.                   *)
Gathered ==
  LET order == SetToSeq(Peers)
      number(f) == Cardinality({g \in Fd : g <= f})
  IN /\ phase = [p \in Peers |-> "open"]
     /\ conn = [f \in Fd |-> order[number(f)]]
     /\ slots = SetToSortSeq(Fd, <)
     /\ size = Cardinality(Fd)
     /\ queued = {}
     /\ avail = [p \in Peers |-> 0]
     /\ outbox = [p \in Peers |-> <<>>]
     /\ ready = {}
     /\ pc = "select"
     /\ it = 1
     /\ sendIt = 1
     /\ buf = Blank
     /\ text = {}

GatheringNext ==
  \/ Server
  \/ \E p \in Peers : Write(p) \/ Drain(p) \/ Hangup(p)

(* Fairness of the server alone, as in FairSpec.                           *)
GatheringSpec == Gathered /\ [][GatheringNext]_vars /\ WF_vars(Server)
=============================================================================
