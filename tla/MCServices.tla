------------------------------ MODULE MCServices ------------------------------
(* Six small services with their clients.  They share nothing: active is the   *)
(* one that runs, and the others stay as they begin.                         *)
EXTENDS Privileges, SctpEcho, SctpDaytime, Ping, GreetingServer, RawSenders

CONSTANTS c1, c2, c3

MCKnown == [s \in Senders |-> IF s = "tcp" THEN 5 ELSE 2]

VARIABLE active
allVars == <<active, privVars, echoVars, dayVars, pingVars, greetVars, rawVars>>

MCInit ==
  /\ active \in {"priv", "echo", "day", "ping", "greet", "raw"}
  /\ PrivInit /\ EchoInit /\ DayInit /\ PingInit /\ GreetInit /\ RawInit
  /\ active # "echo" => wybor = 0
  /\ active # "ping" => net = "clean"
  /\ active # "greet" => which = "server4" /\ holds[0] = "terminal"
  /\ active # "raw" => tool = "tcp" /\ number = 0 /\ results = <<>>

MCNext ==
  /\ \/ /\ active = "priv" /\ PrivNext
        /\ UNCHANGED <<echoVars, dayVars, pingVars, greetVars, rawVars>>
     \/ /\ active = "echo" /\ EchoNext
        /\ UNCHANGED <<privVars, dayVars, pingVars, greetVars, rawVars>>
     \/ /\ active = "day" /\ DayNext
        /\ UNCHANGED <<privVars, echoVars, pingVars, greetVars, rawVars>>
     \/ /\ active = "ping" /\ PingNext
        /\ UNCHANGED <<privVars, echoVars, dayVars, greetVars, rawVars>>
     \/ /\ active = "greet" /\ GreetNext
        /\ UNCHANGED <<privVars, echoVars, dayVars, pingVars, rawVars>>
     \/ /\ active = "raw" /\ RawNext
        /\ UNCHANGED <<privVars, echoVars, dayVars, pingVars, greetVars>>
  /\ UNCHANGED active

(* The fairness of each service, for the time that it is the active one.     *)
Runs(service, Step) == active = service /\ Step
MCFairness ==
  /\ \A c \in Talkers : /\ WF_echoVars(Runs("echo", EchoTo(c)))
                        /\ WF_echoVars(Runs("echo", Listen(c)))
  /\ WF_dayVars(Runs("day", Daytime))
  /\ \A c \in Callers : WF_dayVars(Runs("day", Caller(c)))
  /\ WF_pingVars(Runs("ping", Child))
  /\ WF_pingVars(Runs("ping", Parent))
  /\ WF_pingVars(Runs("ping", Network))

MCSpec == MCInit /\ [][MCNext]_allVars /\ MCFairness

-----------------------------------------------------------------------------
(* The state of each service is well typed: its descriptors are ones the     *)
(* process has, its requests, pages and messages ones that can be sent.      *)
ServicesTypeOK ==
  PrivTypeOK /\ EchoTypeOK /\ DayTypeOK /\ PingTypeOK /\ GreetTypeOK /\ RawTypeOK
=============================================================================
