----------------------------- MODULE Privileges -----------------------------
(***************************************************************************)
(* The three servers of Lab08 that take a port below 1024 and then want to *)
(* serve without privilege: rootserver (Zad2) by setuid, fserver (Zad4)    *)
(* with a file capability that it keeps, capserver (Zad5) by raising and   *)
(* clearing a capability.  The kernel's rules for user ids and capabilities*)
(* are modelled as far as the calls of the three depend on them.           *)
(***************************************************************************)
EXTENDS Integers

CONSTANT Users      (* user ids, 0 among them                              *)

ASSUME RootIsUser == Users \subseteq Nat /\ 0 \in Users

Programs == {"rootserver", "fserver", "capserver"}
Caps == {"bind", "setuid"}        \* CAP_NET_BIND_SERVICE, CAP_SETUID

VARIABLES
  program,    (* which of the three runs                                  *)
  low,        (* port_number < 1024                                       *)
  uid,        (* argv[2] of rootserver; atoi makes 0 of what is no number *)
  step,       (* the next thing it does                                   *)
  ruid, euid, suid,
  permitted, effective,
  seen        (* euid and suid as getresuid reported them last            *)

ids == <<ruid, euid, suid>>
caps == <<permitted, effective>>
run == <<program, low, uid>>
privVars == <<run, step, ids, caps, seen>>

Steps == {"exec", "args", "socket", "bind", "drop", "free", "verify", "accept", "serve", "exited"}

PrivTypeOK ==
  /\ program \in Programs /\ low \in BOOLEAN /\ uid \in Users
  /\ step \in Steps
  /\ ruid \in Users /\ euid \in Users /\ suid \in Users
  /\ permitted \subseteq Caps /\ effective \subseteq permitted
  /\ seen \in [euid : Users, suid : Users]

PrivInit ==
  /\ program = "rootserver" /\ low = TRUE /\ uid = 0 /\ step = "exec"
  /\ ruid = 0 /\ euid = 0 /\ suid = 0 /\ permitted = {} /\ effective = {}
  /\ seen = [euid |-> 0, suid |-> 0]

Quit == step' = "exited" /\ UNCHANGED <<run, ids, caps, seen>>

-----------------------------------------------------------------------------
(* The kernel.  A user runs one of the files: owned by owner with its      *)
(* set-user-ID bit, or with a capability, or plain.  Root, real or         *)
(* effective, is permitted everything; what is effective follows euid.     *)
Exec ==
  /\ step = "exec" /\ step' = "args"
  /\ program' \in Programs /\ low' \in BOOLEAN /\ uid' \in Users
  /\ \E user \in Users, owner \in Users, setuidBit, fileCap, raised \in BOOLEAN :
       /\ ~(setuidBit /\ fileCap)
       /\ ruid' = user
       /\ euid' = (IF setuidBit THEN owner ELSE user) /\ suid' = euid'
       /\ permitted' = (IF 0 \in {ruid', euid'} THEN Caps ELSE IF fileCap THEN {"bind"} ELSE {})
       /\ effective' = (IF euid' = 0 THEN Caps ELSE IF fileCap /\ raised THEN permitted' ELSE {})
  /\ UNCHANGED seen

(* setuid: with the capability it sets all three ids; else only the        *)
(* effective one, to one of the others; else it fails.  Leaving root with  *)
(* all three clears the capabilities.                                      *)
SetUid(u) ==
  /\ IF "setuid" \in effective THEN ruid' = u /\ euid' = u /\ suid' = u
     ELSE /\ euid' = (IF u \in {ruid, suid} THEN u ELSE euid)
          /\ UNCHANGED <<ruid, suid>>
  /\ permitted' = (IF 0 \in {ruid, euid, suid} /\ 0 \notin {ruid', euid', suid'} THEN {} ELSE permitted)
  /\ effective' = (CASE euid = 0 /\ euid' # 0 -> {}
                     [] euid # 0 /\ euid' = 0 -> permitted'
                     [] OTHER -> effective \cap permitted')

(* cap_set_proc: a thread may permit itself no more than it is permitted.  *)
MaySet(p) == p \subseteq permitted
-----------------------------------------------------------------------------
(* rootserver, lines 33-58.                                                *)
RootArgs ==
  /\ program = "rootserver" /\ step = "args"
  /\ IF low /\ euid # 0 THEN Quit
     ELSE step' = "socket" /\ UNCHANGED <<run, ids, caps, seen>>

(* fserver asks for nothing (lines 31-40).                                 *)
FileArgs ==
  /\ program = "fserver" /\ step = "args"
  /\ step' = "socket"
  /\ UNCHANGED <<run, ids, caps, seen>>

(* capserver, lines 34-63: what it may permit itself it makes effective.   *)
CapRaise ==
  /\ program = "capserver" /\ step = "args"
  /\ IF low /\ ~MaySet({"bind"}) THEN Quit
     ELSE /\ step' = "socket"
          /\ permitted' = (IF low THEN {"bind"} ELSE permitted)
          /\ effective' = (IF low THEN {"bind"} ELSE effective)
          /\ UNCHANGED <<run, ids, seen>>

(* socket, then getresuid; each of the calls may fail.                     *)
Socket ==
  /\ step = "socket"
  /\ \/ Quit
     \/ /\ step' = "bind"
        /\ seen' = [euid |-> euid, suid |-> suid]
        /\ UNCHANGED <<run, ids, caps>>

Bind ==
  /\ step = "bind"
  /\ \/ Quit
     \/ /\ low => "bind" \in effective
        /\ step' = (IF program = "fserver" THEN "verify" ELSE "drop")
        /\ UNCHANGED <<run, ids, caps, seen>>

(* rootserver, lines 92-97: the result of setuid is not looked at.         *)
RootDrop ==
  /\ program = "rootserver" /\ step = "drop"
  /\ SetUid(uid)
  /\ seen' = [euid |-> euid', suid |-> suid']
  /\ step' = "verify"
  /\ UNCHANGED run

CapKept == permitted      \* mutant: privilege_off passed, which keeps the permission
CapCleared == {}

(* capserver, lines 97-100.                                                *)
CapClear ==
  /\ program = "capserver" /\ step = "drop"
  /\ permitted' = CapCleared
  /\ effective' = {}
  /\ step' = "free"
  /\ UNCHANGED <<run, ids, seen>>

(* capserver, lines 102-105: privilege_on is uninitialised above port 1023,*)
(* so cap_free refuses it or crashes, unless it happens to be NULL.        *)
CapFree ==
  /\ program = "capserver" /\ step = "free"
  /\ \/ ~low /\ Quit
     \/ step' = "verify" /\ UNCHANGED <<run, ids, caps, seen>>

Refused == seen.euid = 0 \/ seen.suid = 0

(* The check of the ids, and listen, which may fail.                       *)
Verify ==
  /\ step = "verify"
  /\ \/ Quit
     \/ /\ ~Refused
        /\ step' = "accept"
        /\ UNCHANGED <<run, ids, caps, seen>>

AcceptOne ==
  /\ step = "accept"
  /\ \/ Quit
     \/ step' = "serve" /\ UNCHANGED <<run, ids, caps, seen>>

CloseBoth ==
  /\ step = "serve" /\ step' = "exited"
  /\ UNCHANGED <<run, ids, caps, seen>>

PrivNext ==
  \/ Exec \/ RootArgs \/ FileArgs \/ CapRaise \/ Socket \/ Bind
  \/ RootDrop \/ CapClear \/ CapFree \/ Verify \/ AcceptOne \/ CloseBoth

PrivSpec == PrivInit /\ [][PrivNext]_privVars

-----------------------------------------------------------------------------
Serving == step \in {"accept", "serve"}

(* No way back: while it listens or serves, rootserver on a low port is    *)
(* root by none of its ids and permitted nothing, whoever ran it with      *)
(* whatever UID, and capserver is permitted nothing.  Only capserver may   *)
(* still be root, by the real id that is not looked at, when root itself   *)
(* ran it (rootserver lines 45-105, capserver lines 45-111).               *)
NoWayBack ==
  /\ Serving /\ program = "rootserver" /\ low => 0 \notin {ruid, euid, suid} /\ permitted = {}
  /\ Serving /\ program = "capserver" => permitted = {} /\ 0 \notin {euid, suid}
=============================================================================
