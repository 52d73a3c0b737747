-------------------------------- MODULE MCLabs --------------------------------
(* The programs of Lab02 to Lab08 that stand for themselves: turn tells        *)
(* whether one of the six small services runs, or queuemod of Lab07.         *)
EXTENDS MCServices, MCNfQueue

VARIABLE turn

LabInit ==
  /\ turn \in {"service", "queue"}
  /\ MCInit /\ Init
  /\ turn = "queue" => active = "priv"

LabNext ==
  /\ \/ turn = "service" /\ MCNext /\ UNCHANGED vars
     \/ turn = "queue" /\ Next /\ UNCHANGED <<active, allVars>>
  /\ UNCHANGED turn

(* MCFairness asks nothing while the programs of Lab08 are the active ones.    *)
LabSpec ==
  /\ LabInit /\ [][LabNext]_<<turn, allVars, vars>>
  /\ MCFairness /\ WF_vars(turn = "queue" /\ Program)

-----------------------------------------------------------------------------
(* The state of each service is of its type, and every byte that queuemod    *)
(* writes into a packet is a byte.                                           *)
LabsTypeOK == ServicesTypeOK /\ TypeOK
=============================================================================
