------------------------------- MODULE MCLab01 -------------------------------
(* What Lab01 has beside the chat server: turn tells whether is_palindrome   *)
(* or its service runs, or the HTTP server.  They share nothing, and what    *)
(* does not run stays as it begins.                                          *)
EXTENDS MCPalindrome, MCThreadServer

VARIABLE turn

LabInit ==
  /\ turn \in {"palindrome", "http"}
  /\ MCInit /\ HttpInit
  /\ turn = "palindrome" => ~trouble
  /\ turn = "http" => active = "library" /\ data = <<Zero>>

LabNext ==
  /\ \/ turn = "palindrome" /\ MCNext /\ UNCHANGED httpVars
     \/ turn = "http" /\ HttpNext /\ UNCHANGED <<active, vars, libVars>>
  /\ UNCHANGED turn

(* The fairness of each, for the time that it is the one that runs.          *)
LabFairness ==
  /\ \A c \in Clients :
       /\ WF_vars(TakeReply(c))
       /\ WF_vars(\E m \in requests : m.from = c /\ (Serve(m) \/ ShutDown(m)))
  /\ WF_httpVars(turn = "http" /\ MainStep)
  /\ \A t \in Threads : WF_httpVars(turn = "http" /\ ThreadStep(t))

LabSpec == LabInit /\ [][LabNext]_<<turn, active, vars, libVars, httpVars>> /\ LabFairness

-----------------------------------------------------------------------------
(* The service's buffer and datagrams, and the descriptors, requests, pages  *)
(* and threads of the HTTP server, are of their types.                       *)
LabTypeOK == TypeOK /\ HttpTypeOK
=============================================================================
