----------------------------- MODULE MCPalindrome -----------------------------
(* Either the function alone, on every text of one to five characters, or   *)
(* the service: active tells which, and the other stays as it begins.       *)
EXTENDS MCPalindromeService, IsPalindrome

CONSTANT MaxLen   (* bound: the longest text *)

Texts == UNION {[1..n -> Characters] : n \in 1..MaxLen}

VARIABLE active

MCInit ==
  /\ active \in {"library", "service"}
  /\ Init /\ LibInit
  /\ active = "library" => network = "reliable"
  /\ active = "service" => data = <<Zero>>

MCNext ==
  /\ \/ active = "library" /\ LibNext /\ UNCHANGED vars
     \/ active = "service" /\ Next /\ UNCHANGED libVars
  /\ UNCHANGED active

(* The fairness of the service.                                             *)
MCSpec ==
  /\ MCInit /\ [][MCNext]_<<active, vars, libVars>>
  /\ \A c \in Clients :
       /\ WF_vars(TakeReply(c))
       /\ WF_vars(\E m \in requests : m.from = c /\ (Serve(m) \/ ShutDown(m)))
=============================================================================
