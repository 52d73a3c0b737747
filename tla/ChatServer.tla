----------------------------- MODULE ChatServer -----------------------------
(***************************************************************************)
(* The select() chat server of Lab01/zad4/server4.cpp: one process, a      *)
(* vector of client descriptors, and a main loop that selects, accepts at  *)
(* most one connection and then walks the vector, reading from every ready *)
(* client and broadcasting what it read to all the others.                 *)
(*                                                                         *)
(* The clients act at any moment between two system calls of the server.   *)
(* Four things the model keeps in detail because they are where the code   *)
(* is fragile:                                                             *)
(*   - the answer of select (watchedSockets) is computed once and used     *)
(*     later in the pass;                                                  *)
(*   - clients.erase runs inside the range-for over the same vector, whose *)
(*     end was taken when the pass began: the walk skips the element after *)
(*     the erased one and revisits what the shift left past the new end;   *)
(*   - messageBuffer is cleared once per pass, not once per read;          *)
(*   - a send may block, fail, or end the process by SIGPIPE, depending on *)
(*     what the client at the other end has done.                          *)
(***************************************************************************)
EXTENDS Integers, Sequences, FiniteSets

CONSTANTS
  Peers,      (* the remote ends of connections                           *)
  NoPeer,     (* the value of conn for a descriptor that is not open      *)
  Fd,         (* descriptors accept may return: the process's fd table    *)
  Listener,   (* listenSocketDescriptor                                   *)
  BufSize,    (* sizeof(messageBuffer), 256 in the code                   *)
  MaxAvail,   (* bound: bytes a peer has sent that were not read yet      *)
  Window,     (* broadcasts a peer may leave unread before send blocks    *)
  Welcome,    (* the greeting sent by checkForNewConnection               *)
  Nul,        (* a cell of messageBuffer that holds a zero byte           *)
  Junk        (* whatever follows messageBuffer on the stack              *)

ASSUME ChatConstants ==
  /\ NoPeer \notin Peers
  /\ Welcome \notin Peers
  /\ Nul \notin Peers
  /\ Junk \notin Peers
  /\ Fd \subseteq Nat
  /\ Listener \in Nat \ Fd
  /\ BufSize \in Nat \ {0}
  /\ MaxAvail \in Nat
  /\ Window \in Nat \ {0}

VARIABLES
  phase,      (* what each peer has done with its connection              *)
  queued,     (* peers whose connection waits in the listen queue         *)
  avail,      (* bytes of each peer the server can read                   *)
  outbox,     (* broadcasts each peer can read, by sender                 *)
  conn,       (* the peer behind each open descriptor                     *)
  slots,      (* memory of clients, up to the end taken by the range-for  *)
  size,       (* clients.size()                                           *)
  ready,      (* watchedSockets after select                              *)
  pc,         (* the place of the server in its main loop                 *)
  it,         (* the outer range-for: element is slots[it]                *)
  sendIt,     (* the inner range-for: el is slots[sendIt]                 *)
  buf,        (* messageBuffer: who sent the byte in each cell, or Nul    *)
  text        (* whose bytes the string message carries                   *)

peerVars == <<phase, queued, avail, outbox>>
serverVars == <<conn, slots, size, ready, pc, it, sendIt, buf, text>>
vars == <<phase, queued, avail, outbox, conn, slots, size, ready, pc, it,
          sendIt, buf, text>>

(***************************************************************************)
(* A connection is "open" until the peer closes it ("closed": a FIN, read  *)
(* returns 0) or aborts it ("reset": the next call on the socket fails).   *)
(* "dead" is a connection whose error the server has already been told of, *)
(* or that answered a send with a reset: read returns 0 and send raises    *)
(* SIGPIPE.  "idle" peers have no connection.                              *)
(***************************************************************************)
Phases == {"idle", "open", "closed", "reset", "dead"}
Places == {"select", "accept", "visit", "send", "exited", "killed"}
Blank == [c \in 1..BufSize |-> Nul]

TypeOK ==
  /\ phase \in [Peers -> Phases]
  /\ queued \in SUBSET Peers
  /\ avail \in [Peers -> 0..MaxAvail]
  /\ outbox \in [Peers -> Seq(Peers \cup {Welcome})]
  /\ conn \in [Fd -> Peers \cup {NoPeer}]
  /\ slots \in Seq(Fd)
  /\ size \in 0..Len(slots)
  /\ ready \in SUBSET (Fd \cup {Listener})
  /\ pc \in Places
  /\ it \in Nat \ {0}
  /\ sendIt \in Nat \ {0}
  /\ buf \in [1..BufSize -> Peers \cup {Nul}]
  /\ text \in SUBSET (Peers \cup {Junk})

Init ==
  /\ phase = [p \in Peers |-> "idle"]
  /\ queued = {}
  /\ avail = [p \in Peers |-> 0]
  /\ outbox = [p \in Peers |-> <<>>]
  /\ conn = [f \in Fd |-> NoPeer]
  /\ slots = <<>>
  /\ size = 0
  /\ ready = {}
  /\ pc = "select"
  /\ it = 1
  /\ sendIt = 1
  /\ buf = Blank
  /\ text = {}

-----------------------------------------------------------------------------
(* What the server's descriptors stand for.                                *)

Open(f) == conn[f] # NoPeer
Clients == {slots[i] : i \in 1..size}
Members == {conn[f] : f \in Clients}
Element == slots[it]
Speaker == conn[Element]
Running == pc \notin {"exited", "killed"}

(* read on f returns without waiting: the condition select reports.        *)
Readable(f) == avail[conn[f]] > 0 \/ phase[conn[f]] # "open"

FreeFd == {f \in Fd : ~Open(f)}
LowestFree(f) == f \in FreeFd /\ \A g \in FreeFd : f <= g

-----------------------------------------------------------------------------
(* The clients, as the server's sockets show them.                         *)

Connect(p) ==
  /\ Running
  /\ phase[p] = "idle"
  /\ phase' = [phase EXCEPT ![p] = "open"]
  /\ queued' = queued \cup {p}
  /\ UNCHANGED <<avail, outbox, serverVars>>

Write(p) ==
  /\ Running
  /\ phase[p] = "open"
  /\ \E n \in 1..(MaxAvail - avail[p]) :
        avail' = [avail EXCEPT ![p] = @ + n]
  /\ UNCHANGED <<phase, queued, outbox, serverVars>>

Drain(p) ==
  /\ Running
  /\ outbox[p] # <<>>
  /\ outbox' = [outbox EXCEPT ![p] = Tail(@)]
  /\ UNCHANGED <<phase, queued, avail, serverVars>>

(* The peer ends the connection in order (FIN) or aborts it (RST).         *)
Hangup(p) ==
  /\ Running
  /\ phase[p] = "open"
  /\ \E how \in {"closed", "reset"} : phase' = [phase EXCEPT ![p] = how]
  /\ outbox' = [outbox EXCEPT ![p] = <<>>]
  /\ UNCHANGED <<queued, avail, serverVars>>

-----------------------------------------------------------------------------
(* main: rebuild watchedSockets from the vector and wait in select.        *)

Watched == {slots[i] : i \in 1..size}

AnswerLost == Watched          \* mutant: the set is filled again after select
Answer == {f \in Watched : Readable(f)}

Select ==
  /\ pc = "select"
  /\ LET knocking == IF queued = {} THEN {} ELSE {Listener}
     IN /\ Answer \cup knocking # {}
        /\ ready' = Answer \cup knocking
  /\ pc' = "accept"
  /\ UNCHANGED <<peerVars, conn, slots, size, it, sendIt, buf, text>>

(* The pass over the vector begins; its end is fixed here as Len(slots').  *)
StartPass ==
  /\ pc' = "visit"
  /\ it' = 1

NoNewConnection ==
  /\ pc = "accept"
  /\ Listener \notin ready
  /\ StartPass
  /\ UNCHANGED <<peerVars, conn, slots, size, ready, sendIt, buf, text>>

(* accept gives the lowest free descriptor, the greeting is sent, and the  *)
(* descriptor is appended.  The greeting cannot block: the socket buffer   *)
(* is new.  A peer that closed meanwhile may answer it with a reset.       *)
Accept(p, f) ==
  /\ pc = "accept"
  /\ Listener \in ready
  /\ p \in queued
  /\ phase[p] # "reset"
  /\ LowestFree(f)
  /\ queued' = queued \ {p}
  /\ conn' = [conn EXCEPT ![f] = p]
  /\ IF phase[p] = "open"
     THEN /\ outbox' = [outbox EXCEPT ![p] = Append(@, Welcome)]
          /\ UNCHANGED phase
     ELSE /\ \E ph \in {"closed", "dead"} : phase' = [phase EXCEPT ![p] = ph]
          /\ UNCHANGED outbox
  /\ slots' = Append(slots, f)
  /\ size' = size + 1
  /\ StartPass
  /\ UNCHANGED <<avail, ready, sendIt, buf, text>>

(* accept fails (no free descriptor, or the uninitialised address length   *)
(* is rejected), or the greeting does (the peer has reset the connection): *)
(* the program exits.                                                      *)
AcceptFails ==
  /\ pc = "accept"
  /\ Listener \in ready
  /\ pc' = "exited"
  /\ UNCHANGED <<peerVars, conn, slots, size, ready, it, sendIt, buf, text>>

-----------------------------------------------------------------------------
(* checkConnectedClients: one iteration of the outer range-for.            *)

Visiting == pc = "visit" /\ it <= Len(slots)
Advance == it' = it + 1

SkipNotReady ==
  /\ Visiting
  /\ Element \notin ready
  /\ Advance
  /\ UNCHANGED <<peerVars, conn, slots, size, ready, pc, sendIt, buf, text>>

(* The bytes operator<< takes from a buffer: the cells before the first    *)
(* Nul; when there is none it reads on past the array.                     *)
Printed(b) == {b[c] : c \in {k \in 1..BufSize : \A l \in 1..k : b[l] # Nul}}
Texts(b) == IF \E c \in 1..BufSize : b[c] = Nul
            THEN {Printed(b)}
            ELSE {Printed(b), Printed(b) \cup {Junk}}

Broadcast(b) ==
  /\ pc' = "send"
  /\ sendIt' = 1
  /\ text' \in Texts(b)

(* What read answers when no byte is left: 0 after a FIN or on a dead      *)
(* connection, -1 after a reset; on an open one it waits.                  *)
ReadZeroIgnored(p) == FALSE    \* mutant: the test for 0 at line 66 is dropped
ReadZero(p) == avail[p] = 0 /\ phase[p] \in {"closed", "dead"}
ReadFails(p) == avail[p] = 0 /\ phase[p] # "open" /\ ~ReadZero(p)

(* read returns what there is, at most a bufferful.                        *)
TakenUncapped(p) == BufSize    \* mutant: the count asked for is taken for the count read
Taken(p) == IF avail[p] < BufSize THEN avail[p] ELSE BufSize

(* read returns n > 0 bytes: they overwrite the first n cells only.        *)
ReadData ==
  /\ Visiting
  /\ Element \in ready
  /\ avail[Speaker] > 0
  /\ LET n == Taken(Speaker)
         b == [c \in 1..BufSize |-> IF c <= n THEN Speaker ELSE buf[c]]
     IN /\ avail' = [avail EXCEPT ![Speaker] = @ - n]
        /\ buf' = b
        /\ Broadcast(b)
  /\ UNCHANGED <<phase, queued, outbox, conn, slots, size, ready, it>>

(* read returns -1 (ECONNRESET): not 0, so the buffer is broadcast as it   *)
(* is, as a message of the client that is gone.                            *)
ReadError ==
  /\ Visiting
  /\ Element \in ready
  /\ ReadFails(Speaker)
  /\ phase' = [phase EXCEPT ![Speaker] = "dead"]
  /\ Broadcast(buf)
  /\ UNCHANGED <<queued, avail, outbox, conn, slots, size, ready, it, buf>>

(* std::find over the live part of the vector.                             *)
PositionLast(f) == size        \* mutant: pop_back in place of erase
Position(f) == CHOOSE i \in 1..size : slots[i] = f /\ \A j \in 1..(i - 1) : slots[j] # f

(* vector::erase shifts the later elements down; the memory past the new   *)
(* end keeps its last value, and the range-for still walks over it.        *)
ErasedShort(k) ==              \* mutant: the shift stops one element early
  [i \in 1..Len(slots) |-> IF k <= i /\ i + 1 < size THEN slots[i + 1] ELSE slots[i]]
Erased(k) == [i \in 1..Len(slots) |-> IF k <= i /\ i < size THEN slots[i + 1] ELSE slots[i]]

FdClrForgotten(f) == ready     \* mutant: the set is left as select filled it
FdClr(f) == ready \ {f}

(* read returns 0: the client has left.                                    *)
ReadEof ==
  /\ Visiting
  /\ Element \in ready
  /\ ReadZero(Speaker)
  /\ phase' = [phase EXCEPT ![Speaker] = "idle"]
  /\ conn' = [conn EXCEPT ![Element] = NoPeer]
  /\ ready' = FdClr(Element)
  /\ slots' = Erased(Position(Element))
  /\ size' = size - 1
  /\ Advance
  /\ UNCHANGED <<queued, avail, outbox, pc, sendIt, buf, text>>

-----------------------------------------------------------------------------
(* The inner range-for: send the message to every client but its author.   *)

Sending == pc = "send" /\ sendIt <= size
Target == slots[sendIt]
Hearer == conn[Target]
IsAuthorNever(f) == FALSE      \* mutant: the test el!=element is dropped
IsAuthor(f) == f = Element
NextTarget == sendIt' = sendIt + 1

SkipSpeaker ==
  /\ Sending
  /\ IsAuthor(Target)
  /\ NextTarget
  /\ UNCHANGED <<peerVars, conn, slots, size, ready, pc, it, buf, text>>

(* A send to an open client waits for room in its window.                  *)
SendToOpen ==
  /\ Sending
  /\ ~IsAuthor(Target)
  /\ phase[Hearer] = "open"
  /\ Len(outbox[Hearer]) < Window
  /\ outbox' = [outbox EXCEPT ![Hearer] = Append(@, Speaker)]
  /\ NextTarget
  /\ UNCHANGED <<phase, queued, avail, conn, slots, size, ready, pc, it, buf, text>>

(* The result of send is not looked at: a message to a client that closed  *)
(* is lost (and answered by a reset, sooner or later), and one to a client *)
(* that reset its connection fails and takes the pending error with it.    *)
SendToLeaver ==
  /\ Sending
  /\ ~IsAuthor(Target)
  /\ phase[Hearer] \in {"closed", "reset"}
  /\ \E ph \in {phase[Hearer], "dead"} :
        /\ ph # "reset"
        /\ phase' = [phase EXCEPT ![Hearer] = ph]
  /\ NextTarget
  /\ UNCHANGED <<queued, avail, outbox, conn, slots, size, ready, pc, it, buf, text>>

(* A send on a connection already known dead raises SIGPIPE, for which the *)
(* program installs no handler and which send is not told to suppress.     *)
SendToDead ==
  /\ Sending
  /\ ~IsAuthor(Target)
  /\ phase[Hearer] = "dead"
  /\ pc' = "killed"
  /\ UNCHANGED <<peerVars, conn, slots, size, ready, it, sendIt, buf, text>>

EndSend ==
  /\ pc = "send"
  /\ sendIt > size
  /\ pc' = "visit"
  /\ sendIt' = 1
  /\ text' = {}
  /\ Advance
  /\ UNCHANGED <<peerVars, conn, slots, size, ready, buf>>

(* messageBuffer is zeroed when the next pass begins; nobody reads it      *)
(* before that, so the model does it as this pass ends.                    *)
BufferKept == buf              \* mutant: the buffer is static and never cleared
FreshBuffer == Blank

(* The range-for ends; watchedSockets is rebuilt from the vector.          *)
EndPass ==
  /\ pc = "visit"
  /\ it > Len(slots)
  /\ pc' = "select"
  /\ it' = 1
  /\ slots' = [i \in 1..size |-> slots[i]]
  /\ ready' = {}
  /\ buf' = FreshBuffer
  /\ UNCHANGED <<peerVars, conn, size, sendIt, text>>

-----------------------------------------------------------------------------

PeerAct(p) == Connect(p) \/ Write(p) \/ Drain(p) \/ Hangup(p)

Server ==
  \/ Select
  \/ NoNewConnection
  \/ \E p \in Peers, f \in Fd : Accept(p, f)
  \/ AcceptFails
  \/ SkipNotReady
  \/ ReadData
  \/ ReadError
  \/ ReadEof
  \/ SkipSpeaker
  \/ SendToOpen
  \/ SendToLeaver
  \/ SendToDead
  \/ EndSend
  \/ EndPass

Next == Server \/ \E p \in Peers : PeerAct(p)

Spec == Init /\ [][Next]_vars

(* The server keeps running while it can.  Nothing is supposed of the      *)
(* clients: one may stay and be quiet, or never read, for ever.            *)
FairSpec == Spec /\ WF_vars(Server)
-----------------------------------------------------------------------------
(* Every descriptor the pass takes for a ready client is a live entry of   *)
(* the vector: the walk over erased memory never reads a closed socket.    *)
ReadyAreClients == ready \ {Listener} \subseteq Clients

(* The vector holds each open descriptor exactly once, so select is never  *)
(* given a closed one and none is forgotten open.                          *)
VectorMatchesDescriptors ==
  /\ \A i, j \in 1..size : slots[i] = slots[j] => i = j
  /\ Clients = {f \in Fd : Open(f)}

(* What a broadcast carries was sent by clients that were ready in this    *)
(* pass (the author among them or not): no byte survives from an earlier   *)
(* pass, and none comes from a client that was already erased.             *)
TextFromThisPass ==
  pc = "send" => text \ {Junk} \subseteq {conn[f] : f \in ready \ {Listener}}

(* A client is dropped only after it left and all it had sent was read.    *)
OnlyLeaversDropped ==
  [][\A p \in Members : p \in Members' \/ (phase[p] # "open" /\ avail[p] = 0)]_vars

(* One call of the server waits for one client: the read of a client with  *)
(* nothing to read, or the send to one whose window is full.               *)
ReadWaits == Visiting /\ Element \in ready /\ Open(Element) /\ ~Readable(Element)
SendWaits ==
  /\ Sending
  /\ ~IsAuthor(Target)
  /\ Open(Target)
  /\ phase[Hearer] = "open"
  /\ Len(outbox[Hearer]) >= Window
HeldUp == ReadWaits \/ SendWaits

(* A read waits only where the walk has run past the end of the vector, to *)
(* what an erasure left there: the first read of a client in a pass, the   *)
(* one select answered for, never does, whatever came between.             *)
WaitsPastEndOnly == ReadWaits => it > size

(* A client that left is dropped in the end, or the server itself ends,    *)
(* unless the server is held up for good: by a client that stays, is quiet *)
(* and was visited twice in a pass, or by one that does not read.  No      *)
(* fairness of the clients is assumed, so both can happen.                 *)
LeaverDropped ==
  \A p \in Peers :
     \/ p \in Members /\ phase[p] # "open" ~> p \notin Members \/ ~Running
     \/ <>[]HeldUp

(* The server, seen without descriptors and system calls, is a chat room:  *)
(* each broadcast reaches every other client of that moment exactly once,  *)
(* and nobody joins or leaves in the middle of one.                        *)
Line(p) == CASE phase[p] = "idle" -> "down"
             [] phase[p] = "open" -> "up"
             [] OTHER -> "lost"

Room == INSTANCE ChatRoom WITH
          running <- Running,
          line    <- [p \in Peers |-> Line(p)],
          members <- Members,
          inbox   <- outbox,
          speaker <- IF pc = "send" THEN Speaker ELSE NoPeer,
          todo    <- IF pc = "send"
                     THEN {conn[slots[i]] : i \in sendIt..size} \ {Speaker}
                     ELSE {}

RefinesRoom == Room!Spec

(* The same of every step, from a state in which clients have gathered.    *)
RoomSteps == [][Room!Next]_(Room!roomVars)

(* The comment at line 64: a client in the set is ready when it is read.   *)
ReadNeverWaits == ~ReadWaits

(* Line 77: what was received from a client's socket is what is printed.   *)
TextIsAuthors == pc = "send" => text \subseteq {Speaker}
=============================================================================
