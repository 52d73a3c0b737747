---------------------------- MODULE ThreadServer ----------------------------
(***************************************************************************)
(* The HTTP server of Lab01/zad5/server5.cpp: main accepts and starts a    *)
(* thread for each connection; the thread reads once, lists the pictures   *)
(* the request names, writes the page and ends.  A thread that fails ends  *)
(* the process.  No connection is closed and no thread is joined, so each  *)
(* keeps its descriptor and its stack.  A request or a page that does not  *)
(* fit its buffer overwrites memory: what its thread does then is Wild.    *)
(***************************************************************************)
EXTENDS Posix, Sequences, FiniteSets

CONSTANTS
  Browsers,
  Numbers,    (* descriptors left when the server listens; none is 0, for *)
              (* which the loop of main would end: the listening socket   *)
              (* took it if it was free                                   *)
  Stacks,     (* threads the process has room for                         *)
  Paths,      (* what a request may name                                  *)
  Nested,     (* the paths with a '/' after the first character           *)
  Pictures,   (* the files in img/                                        *)
  Images,     (* those with .png, .jpg or .jpeg in their name             *)
  Naming,     (* for each path, the files whose name contains it          *)
  Tight,      (* the paths whose copy in memory of length strlen(url) - 1 *)
              (* is cleared or ended past what malloc gave (lines 49-54)  *)
  PageRoom,   (* the number of files whose tags fit into buff_send        *)
  MayAsk,     (* the requests each client may send                        *)
  None

ASSUME ServerConstants ==
  /\ Numbers \subseteq Nat \ {0} /\ IsFiniteSet(Numbers)
  /\ Stacks \in Nat /\ PageRoom \in Nat
  /\ Nested \subseteq Paths /\ Tight \subseteq Paths /\ Images \subseteq Pictures
  /\ IsFiniteSet(Browsers) /\ IsFiniteSet(Pictures)
  /\ Naming \in [Paths -> SUBSET Pictures]
  /\ None \notin Browsers /\ None # "dir" /\ "dir" \notin Browsers
  /\ MayAsk \in [Browsers -> SUBSET [path : Paths, form : {"http11", "other", "odd"}]]

(* A request of HTTP/1.1, one of another protocol, and an odd one: recv    *)
(* returned its beginning only, or as much as client_message holds, or one *)
(* of its words is longer than the 256 bytes it is read into.              *)
Requests == [path : Paths, form : {"http11", "other", "odd"}]
NoRequest == [path |-> None, form |-> "none"]
Threads == 1..Stacks
Pages == [kind : {"list"}, files : SUBSET Pictures]
Junk == [kind |-> "junk", files |-> {}]      \* what an uninitialised buffer holds
NoPage == [kind |-> "none", files |-> {}]

VARIABLES
  main,       (* "accept", "create" or "stopped"                          *)
  newSocket,  (* new_socket of main                                       *)
  trouble,    (* whether calls may fail for reasons outside the process:  *)
              (* no img/, no memory, a full table of the system           *)
  backlog,    (* connections that wait for accept                         *)
  opened,     (* what each descriptor is open on: a client, "dir", None   *)
  peer,       (* "new", "open" or "gone"                                  *)
  asked,      (* the request of each client                               *)
  inbox,      (* the request its socket holds unread                      *)
  reply       (* the page it was sent                                     *)

VARIABLES     (* of each thread                                           *)
  at,         (* "free", "made", "recv", "open", "list", "write", "ended", *)
              (* and "wild" when it has overwritten memory                *)
  box,        (* the int allocated for it at line 216                     *)
  sock,       (* its local sock                                           *)
  dir,        (* its directory's descriptor                               *)
  path,       (* the path it looks for                                    *)
  page        (* its buff_send                                            *)

mainVars == <<main, newSocket, backlog, opened, trouble>>
clientVars == <<peer, asked, inbox, reply>>
threadVars == <<at, box, sock, dir, path, page>>
httpVars == <<mainVars, clientVars, threadVars>>

HttpTypeOK ==
  /\ main \in {"accept", "create", "stopped"}
  /\ newSocket \in Numbers \cup {0}
  /\ backlog \in Seq(Browsers)
  /\ trouble \in BOOLEAN
  /\ opened \in [Numbers -> Browsers \cup {"dir", None}]
  /\ peer \in [Browsers -> {"new", "open", "gone"}]
  /\ asked \in [Browsers -> Requests \cup {NoRequest}]
  /\ inbox \in [Browsers -> Requests \cup {NoRequest}]
  /\ reply \in [Browsers -> Pages \cup {Junk, NoPage}]
  /\ at \in [Threads -> {"free", "made", "recv", "open", "list", "write", "ended", "wild"}]
  /\ box \in [Threads -> Numbers \cup {0}]
  /\ sock \in [Threads -> Numbers \cup {0}]
  /\ dir \in [Threads -> Numbers \cup {0}]
  /\ path \in [Threads -> Paths \cup {None}]
  /\ page \in [Threads -> Pages \cup {Junk}]

(* Lines 162-200: the server listens.                                      *)
HttpInit ==
  /\ main = "accept" /\ newSocket = 0 /\ backlog = <<>> /\ trouble \in BOOLEAN
  /\ opened = [d \in Numbers |-> None]
  /\ peer = [c \in Browsers |-> "new"]
  /\ asked = [c \in Browsers |-> NoRequest]
  /\ inbox = [c \in Browsers |-> NoRequest]
  /\ reply = [c \in Browsers |-> NoPage]
  /\ at = [t \in Threads |-> "free"]
  /\ box = [t \in Threads |-> 0]
  /\ sock = [t \in Threads |-> 0]
  /\ dir = [t \in Threads |-> 0]
  /\ path = [t \in Threads |-> None]
  /\ page = [t \in Threads |-> Junk]

Unused == {d \in Numbers : opened[d] = None}

(* exit in any thread ends the process.                                    *)
Exit == main' = "stopped" /\ UNCHANGED <<newSocket, backlog, opened, trouble, clientVars, threadVars>>

-----------------------------------------------------------------------------
(* The clients.                                                            *)
Arrive(c) ==
  /\ main # "stopped" /\ peer[c] = "new"
  /\ peer' = [peer EXCEPT ![c] = "open"]
  /\ backlog' = Append(backlog, c)
  /\ UNCHANGED <<main, newSocket, opened, trouble, asked, inbox, reply, threadVars>>

Request(c) ==
  /\ peer[c] = "open" /\ asked[c] = NoRequest
  /\ \E r \in MayAsk[c] : asked' = [asked EXCEPT ![c] = r] /\ inbox' = [inbox EXCEPT ![c] = r]
  /\ UNCHANGED <<mainVars, peer, reply, threadVars>>

GoAway(c) ==
  /\ peer[c] = "open"
  /\ peer' = [peer EXCEPT ![c] = "gone"]
  /\ UNCHANGED <<mainVars, asked, inbox, reply, threadVars>>

-----------------------------------------------------------------------------
(* main, lines 203-227.                                                    *)
AskedToAcceptAfterJoin ==   \* mutant: the join of line 226 is not commented out
  backlog # <<>> /\ \A t \in Threads : at[t] \in {"free", "ended"}
AskedToAccept == backlog # <<>>

Accept ==
  /\ main = "accept" /\ AskedToAccept /\ Unused # {}
  /\ newSocket' = Lowest(Unused)
  /\ opened' = [opened EXCEPT ![newSocket'] = Head(backlog)]
  /\ backlog' = Tail(backlog)
  /\ main' = "create"
  /\ UNCHANGED <<trouble, clientVars, threadVars>>

AcceptRefused == main = "accept" /\ Unused = {} /\ Exit

(* A call that may wait fails, or malloc returns NULL at line 216: nothing *)
(* says that this ever happens.                                            *)
CallFails ==
  /\ main # "stopped" /\ trouble
  /\ main \in {"accept", "create"} \/ \E t \in Threads : at[t] = "recv"
  /\ Exit

(* pthread_create returns a positive number when it fails, which line 219  *)
(* does not notice: the connection gets no thread.                         *)
CreateThread ==
  /\ main = "create"
  /\ main' = "accept"
  /\ \/ \E t \in Threads :
          /\ at[t] = "free" /\ \A u \in Threads : u < t => at[u] # "free"
          /\ at' = [at EXCEPT ![t] = "made"]
          /\ box' = [box EXCEPT ![t] = newSocket]
          /\ UNCHANGED <<sock, dir, path, page>>
     \/ (trouble \/ \A t \in Threads : at[t] # "free") /\ UNCHANGED threadVars
  /\ UNCHANGED <<newSocket, backlog, opened, trouble, clientVars>>

-----------------------------------------------------------------------------
(* A thread, lines 18-154.                                                 *)
ArgumentFreed(t) == -1           \* mutant: main frees the copy after pthread_create
ArgumentShared(t) == newSocket   \* mutant: &new_socket passed instead of a copy
Argument(t) == box[t]

Begin(t) ==
  /\ at[t] = "made"
  /\ sock' = [sock EXCEPT ![t] = Argument(t)]
  /\ at' = [at EXCEPT ![t] = "recv"]
  /\ UNCHANGED <<mainVars, clientVars, box, dir, path, page>>

(* What sscanf and the comparison of line 47 make of what recv returned:   *)
(* the fields an odd request did not fill are uninitialised.               *)
Understood(r, p) ==
  \/ r.form = "http11" /\ p = r.path
  \/ r.form = "odd" /\ p \in Paths
NotUnderstood(r) == r.form \in {"other", "odd"}

(* Line 41 writes past client_message when recv filled it, line 42 past a  *)
(* field when a word is longer, lines 50 and 54 past the copy of the url.  *)
Overwrites(r) == r.form = "odd" \/ \E p \in Tight : Understood(r, p)

Receive(t) ==
  /\ at[t] = "recv"
  /\ LET c == opened[sock[t]] IN
     /\ inbox[c] # NoRequest
     /\ inbox' = [inbox EXCEPT ![c] = NoRequest]
     /\ \/ \E p \in Paths :
             /\ Understood(inbox[c], p)
             /\ path' = [path EXCEPT ![t] = p]
             /\ at' = [at EXCEPT ![t] = "open"]
        \/ /\ NotUnderstood(inbox[c])
           /\ at' = [at EXCEPT ![t] = "write"]
           /\ UNCHANGED path
        \/ /\ Overwrites(inbox[c])
           /\ at' = [at EXCEPT ![t] = "wild"]
           /\ UNCHANGED path
  /\ UNCHANGED <<mainVars, peer, asked, reply, box, sock, dir, page>>

(* recv returns 0 at the end of the connection and -1 when it was reset.   *)
NothingReceived(t) ==
  /\ at[t] = "recv"
  /\ peer[opened[sock[t]]] = "gone"
  /\ Exit

OpenDirectory(t) ==
  /\ at[t] = "open" /\ Unused # {}
  /\ dir' = [dir EXCEPT ![t] = Lowest(Unused)]
  /\ opened' = [opened EXCEPT ![dir'[t]] = "dir"]
  /\ at' = [at EXCEPT ![t] = "list"]
  /\ UNCHANGED <<main, newSocket, backlog, trouble, clientVars, box, sock, path, page>>

(* opendir fails without a descriptor, or for a reason of its own.         *)
DirectoryRefused(t) == at[t] = "open" /\ (Unused = {} \/ trouble) /\ Exit

Listing(p) == IF p \in Nested THEN Images ELSE Naming[p]

ClosedNever(d) == opened    \* mutant: closedir missing
Closed(d) == [opened EXCEPT ![d] = None]

Fits(p) == Cardinality(Listing(p)) <= PageRoom

(* Lines 69-89 and 111-132: the page is made, or written past buff_send.   *)
MakePage(t) ==
  /\ at[t] = "list"
  /\ opened' = Closed(dir[t])
  /\ IF Fits(path[t])
       THEN /\ page' = [page EXCEPT ![t] = [kind |-> "list", files |-> Listing(path[t])]]
            /\ at' = [at EXCEPT ![t] = "write"]
       ELSE at' = [at EXCEPT ![t] = "wild"] /\ UNCHANGED page
  /\ UNCHANGED <<main, newSocket, backlog, trouble, clientVars, box, sock, dir, path>>

(* A buffer that was never written may begin with a zero byte: then        *)
(* nothing is sent, and the connection stays open.                         *)
WritePage(t) ==
  /\ at[t] = "write"
  /\ \/ reply' = [reply EXCEPT ![opened[sock[t]]] = page[t]]
     \/ page[t] = Junk /\ UNCHANGED reply
  /\ at' = [at EXCEPT ![t] = "ended"]
  /\ UNCHANGED <<mainVars, peer, asked, inbox, box, sock, dir, path, page>>

(* write fails, or raises SIGPIPE, when the client is gone.                *)
WriteFails(t) ==
  /\ at[t] = "write"
  /\ trouble \/ peer[opened[sock[t]]] = "gone"
  /\ Exit

(* Overwritten memory ends the process at once or later, lets the thread   *)
(* send anything on any connection, or changes nothing that is seen.       *)
Wild(t) ==
  /\ main # "stopped" /\ at[t] = "wild"
  /\ \/ Exit
     \/ /\ \E d \in Numbers : opened[d] \in Browsers /\ reply' = [reply EXCEPT ![opened[d]] = Junk]
        /\ UNCHANGED <<mainVars, peer, asked, inbox, threadVars>>

MainStep == Accept \/ AcceptRefused \/ CreateThread
ThreadStep(t) ==
  /\ main # "stopped"
  /\ \/ Begin(t) \/ Receive(t) \/ NothingReceived(t) \/ OpenDirectory(t) \/ DirectoryRefused(t)
     \/ MakePage(t) \/ WritePage(t) \/ WriteFails(t)

HttpNext ==
  \/ \E c \in Browsers : Arrive(c) \/ Request(c) \/ GoAway(c)
  \/ MainStep \/ CallFails
  \/ \E t \in Threads : ThreadStep(t) \/ Wild(t)

(* What the scheduler owes main and the threads.  Nothing is assumed of    *)
(* the clients, of calls that fail, or of overwritten memory.              *)
HttpFairness == WF_httpVars(MainStep) /\ \A t \in Threads : WF_httpVars(ThreadStep(t))
HttpSpec == HttpInit /\ [][HttpNext]_httpVars /\ HttpFairness

-----------------------------------------------------------------------------
Started(t) == at[t] \notin {"free", "made"}

(* The request makes its thread overwrite memory, by itself or with the   *)
(* page it names.                                                          *)
Harms(r) == Overwrites(r) \/ \E p \in Paths : Understood(r, p) /\ ~Fits(p)
Sound(r) == r.form = "http11" /\ ~Harms(r)

(* However the threads and main take turns, a connection has one thread,   *)
(* which reads and writes no other, and the page a client gets is the one  *)
(* its own request deserves: lines 21 and 216-219.                         *)
OwnHandler ==
  /\ \A t, u \in Threads : Started(t) /\ Started(u) /\ t # u => sock[t] # sock[u]
  /\ \A t \in Threads : Started(t) => opened[sock[t]] \in Browsers
  /\ \A c \in Browsers :
       reply[c].kind = "list" /\ asked[c].form = "http11"
         => reply[c].files = Listing(asked[c].path)

(* When no call fails for a reason outside the process, the server is      *)
(* brought down only by a client that leaves, by a request that makes it   *)
(* overwrite memory (lines 41-54, 79-86), or by the connections it took    *)
(* since it started together with the directories being read: nothing else *)
(* uses up descriptors (lines 29-39, 59, 101, 144, 205).                   *)
StopsForCause ==
  main = "stopped" =>
    \/ trouble
    \/ \E c \in Browsers : peer[c] = "gone" \/ Harms(asked[c])
    \/ Cardinality({c \in Browsers : peer[c] # "new"})
         + Cardinality({t \in Threads : at[t] = "list"}) >= Cardinality(Numbers)

(* A client that sends a request of HTTP/1.1 which does no harm, and       *)
(* stays, gets its page, whatever the others do with their connections, as *)
(* long as the server runs, no thread has overwritten memory and there was *)
(* room for its own: lines 203-227 wait for no thread.  A client of        *)
(* another protocol is promised nothing: line 144 sends it what is in a    *)
(* buffer never written, which may be nothing.                             *)
WithoutThread(c) ==
  /\ main = "accept" /\ c \in {opened[d] : d \in Numbers}
  /\ \A t \in Threads : at[t] # "free" => opened[box[t]] # c
  /\ trouble \/ \A t \in Threads : at[t] # "free"
Heard ==
  \A c \in {b \in Browsers : \E r \in MayAsk[b] : Sound(r)} :
    Sound(asked[c]) ~> \/ reply[c].kind = "list" \/ peer[c] = "gone"
                       \/ main = "stopped" \/ WithoutThread(c)
                       \/ \E t \in Threads : at[t] = "wild"
=============================================================================
