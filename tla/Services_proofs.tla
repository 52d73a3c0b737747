--------------------------- MODULE Services_proofs ---------------------------
(* Theorems about the small services: the threads of the HTTP server keep    *)
(* to their own connections and it stops for a cause, the greeting servers   *)
(* lose one visitor at most, the SCTP echo answers in turn, what the raw     *)
(* senders send verifies, and no privilege is left to a server that listens. *)
EXTENDS MCServices, ThreadServer, Numbers_proofs, SequenceTheorems, FiniteSetTheorems, TLAPS

(* The lowest descriptor of a set is in it, and none is lower.              *)
LEMMA LowestIsLowest ==
  ASSUME NEW S \in SUBSET Nat, S # {}
  PROVE  Lowest(S) \in S /\ \A e \in S : Lowest(S) <= e
<1> QED
  BY LeastNumber DEF Lowest

-----------------------------------------------------------------------------
(* Who has called, and on what the process has its connections and         *)
(* directories: nothing is open twice.                                     *)
Busy(t) == at[t] # "free"
Queued ==
  /\ \A i, j \in DOMAIN backlog : backlog[i] = backlog[j] => i = j
  /\ \A i \in DOMAIN backlog : peer[backlog[i]] # "new" /\ \A d \in Numbers : opened[d] # backlog[i]
Connected ==
  /\ \A d, e \in Numbers : opened[d] \in Browsers /\ opened[d] = opened[e] => d = e
  /\ \A d \in Numbers : opened[d] \in Browsers => peer[opened[d]] # "new"
Reading ==
  /\ \A t \in Threads : at[t] = "list" => dir[t] \in Numbers /\ opened[dir[t]] = "dir"
  /\ \A t, u \in Threads : at[t] = "list" /\ at[u] = "list" /\ dir[t] = dir[u] => t = u
  /\ \A d \in Numbers : opened[d] = "dir" => \E t \in Threads : at[t] = "list" /\ dir[t] = d

(* Each thread has a connection of its own, and so has main the one for    *)
(* which it is about to start a thread.                                    *)
Handling ==
  /\ \A t \in Threads : Busy(t) => box[t] \in Numbers /\ opened[box[t]] \in Browsers
  /\ \A t \in Threads : Started(t) => sock[t] = box[t]
  /\ \A t, u \in Threads : Busy(t) /\ Busy(u) /\ box[t] = box[u] => t = u
  /\ main = "create" =>
       /\ newSocket \in Numbers /\ opened[newSocket] \in Browsers
       /\ \A t \in Threads : Busy(t) => box[t] # newSocket

(* What a thread looks for and has found is what its own client asked.     *)
Deserved(page_, r) == page_.kind = "list" /\ r.form = "http11" => page_.files = Listing(r.path)
Attending ==
  \A t \in Threads :
    LET r == asked[opened[box[t]]] IN
    /\ at[t] \in {"open", "list"} => Understood(r, path[t])
    /\ at[t] = "write" => r # NoRequest /\ Deserved(page[t], r)
    /\ at[t] \in {"made", "recv", "open", "list"} => page[t] = Junk
    /\ at[t] = "free" => page[t] = Junk
    /\ at[t] = "wild" => Harms(r)
Served ==
  \A c \in Browsers :
    /\ inbox[c] # NoRequest => inbox[c] = asked[c]
    /\ reply[c].kind = "list" => asked[c] # NoRequest
    /\ Deserved(reply[c], asked[c])

HttpInv == HttpTypeOK /\ Queued /\ Connected /\ Reading /\ Handling /\ Attending /\ Served

(* socket, accept and opendir give a descriptor that was not open.         *)
LEMMA LowestUnused ==
  ASSUME HttpTypeOK, Unused # {}
  PROVE  Lowest(Unused) \in Numbers /\ opened[Lowest(Unused)] = None
<1>1. Unused \in SUBSET Nat
  BY ServerConstants DEF Unused
<1>2. Lowest(Unused) \in Unused
  BY <1>1, LowestIsLowest
<1> QED
  BY <1>2 DEF Unused

LEMMA HttpInitInv == HttpInit => HttpInv
<1> SUFFICES ASSUME HttpInit PROVE HttpInv
  OBVIOUS
<1> USE ServerConstants
<1>1. backlog = <<>> /\ backlog \in Seq(Browsers) /\ DOMAIN backlog = {}
  BY EmptySeq DEF HttpInit
<1>2. HttpTypeOK
  BY <1>1 DEF HttpInit, HttpTypeOK
<1>3. Queued /\ Connected /\ Reading
  BY <1>1 DEF HttpInit, Queued, Connected, Reading
<1>4. Handling /\ Attending
  BY DEF HttpInit, Handling, Attending, Busy, Started
<1>5. Served
  BY DEF HttpInit, Served, Deserved, NoPage, NoRequest
<1> QED
  BY <1>2, <1>3, <1>4, <1>5 DEF HttpInv

(* A client calls, asks or goes.                                           *)
LEMMA ArriveKeeps ==
  ASSUME HttpInv, NEW c \in Browsers, Arrive(c)
  PROVE  HttpInv'
<1> USE DEF HttpInv, threadVars
<1>1. /\ peer[c] = "new" /\ peer' = [peer EXCEPT ![c] = "open"]
      /\ backlog' = Append(backlog, c)
      /\ UNCHANGED <<main, newSocket, opened, trouble, asked, inbox, reply, at, box, sock, dir, path, page>>
  BY DEF Arrive
<1>2. /\ backlog \in Seq(Browsers) /\ peer \in [Browsers -> {"new", "open", "gone"}]
  BY DEF HttpTypeOK
<1>3. /\ backlog' \in Seq(Browsers) /\ Len(backlog) \in Nat
      /\ DOMAIN backlog = 1..Len(backlog) /\ DOMAIN backlog' = 1 .. Len(backlog) + 1
      /\ \A k \in 1..Len(backlog) : backlog'[k] = backlog[k] /\ backlog[k] \in Browsers
      /\ backlog'[Len(backlog) + 1] = c
  BY <1>1, <1>2, AppendProperties, LenProperties, ElementOfSeq
<1>4. HttpTypeOK'
  BY <1>1, <1>3 DEF HttpTypeOK
<1>5. \A w \in Browsers : peer[w] # "new" => peer'[w] # "new"
  BY <1>1, <1>2
<1>6. \A k \in DOMAIN backlog' : k \in DOMAIN backlog \/ k = Len(backlog) + 1
  BY <1>3
<1>7. /\ \A k \in DOMAIN backlog : backlog[k] # c
      /\ \A d \in Numbers : opened[d] # c
  BY <1>1 DEF Queued, Connected
<1>8. Queued'
  <2>1. \A i, j \in DOMAIN backlog' : backlog'[i] = backlog'[j] => i = j
    BY <1>3, <1>6, <1>7 DEF Queued
  <2>2. \A i \in DOMAIN backlog' : peer'[backlog'[i]] # "new"
    BY <1>1, <1>2, <1>3, <1>5, <1>6 DEF Queued
  <2>3. \A i \in DOMAIN backlog' : \A d \in Numbers : opened[d] # backlog'[i]
    BY <1>3, <1>6, <1>7 DEF Queued
  <2> QED
    BY <1>1, <2>1, <2>2, <2>3 DEF Queued
<1>9. Connected'
  BY <1>1, <1>5 DEF Connected
<1>10. Reading' /\ Attending' /\ Served'
  BY <1>1, Zenon DEF Reading, Attending, Served
<1>11. Handling'
  BY <1>1 DEF Handling, Busy, Started
<1> QED
  BY <1>4, <1>8, <1>9, <1>10, <1>11

LEMMA AskKeeps ==
  ASSUME HttpInv, NEW c \in Browsers, Request(c)
  PROVE  HttpInv'
<1> USE DEF HttpInv, threadVars, mainVars
<1>1. PICK r \in MayAsk[c] : asked' = [asked EXCEPT ![c] = r] /\ inbox' = [inbox EXCEPT ![c] = r]
  BY DEF Request
<1>2. /\ asked[c] = NoRequest
      /\ UNCHANGED <<main, newSocket, backlog, opened, trouble, peer, reply, at, box, sock, dir, path, page>>
  BY DEF Request
<1>3. r \in Requests /\ r # NoRequest
  BY ServerConstants DEF Requests, NoRequest
<1>4. /\ asked \in [Browsers -> Requests \cup {NoRequest}]
      /\ inbox \in [Browsers -> Requests \cup {NoRequest}]
  BY DEF HttpTypeOK
<1>5. /\ asked'[c] = r /\ inbox'[c] = r
      /\ \A w \in Browsers \ {c} : asked'[w] = asked[w] /\ inbox'[w] = inbox[w]
      /\ asked' \in [Browsers -> Requests \cup {NoRequest}]
      /\ inbox' \in [Browsers -> Requests \cup {NoRequest}]
  BY <1>1, <1>3, <1>4
<1>6. HttpTypeOK'
  BY <1>2, <1>5 DEF HttpTypeOK
<1>7. Queued' /\ Connected' /\ Reading' /\ Handling'
  <2>1. Queued' /\ Connected' /\ Reading'
    BY <1>2, Zenon DEF Queued, Connected, Reading
  <2>2. Handling'
    BY <1>2 DEF Handling, Busy, Started
  <2> QED
    BY <2>1, <2>2
<1>8. Attending'
  <2>1. ASSUME NEW t \in Threads, at[t] \in {"open", "list", "write", "wild"}
        PROVE  asked'[opened[box[t]]] = asked[opened[box[t]]]
    <3>1. opened[box[t]] \in Browsers
      BY <2>1 DEF Handling, Busy
    <3>2. asked[opened[box[t]]] # NoRequest
      BY <2>1 DEF Attending, Harms, Overwrites, Understood, NoRequest
    <3> QED
      BY <1>2, <1>5, <3>1, <3>2
  <2> QED
    BY <1>2, <2>1 DEF Attending
<1>9. Served'
  <2>1. reply[c].kind # "list"
    BY <1>2 DEF Served
  <2> QED
    BY <1>2, <1>3, <1>5, <2>1 DEF Served, Deserved
<1> QED
  BY <1>6, <1>7, <1>8, <1>9

LEMMA GoAwayKeeps ==
  ASSUME HttpInv, NEW c \in Browsers, GoAway(c)
  PROVE  HttpInv'
<1> USE DEF HttpInv, threadVars, mainVars
<1>1. /\ peer' = [peer EXCEPT ![c] = "gone"]
      /\ UNCHANGED <<main, newSocket, backlog, opened, trouble, asked, inbox, reply, at, box, sock, dir, path, page>>
  BY DEF GoAway
<1>2. HttpTypeOK' /\ \A w \in Browsers : peer[w] # "new" => peer'[w] # "new"
  BY <1>1 DEF HttpTypeOK
<1>3. \A i \in DOMAIN backlog : backlog[i] \in Browsers
  BY LenProperties, ElementOfSeq DEF HttpTypeOK
<1>4. Queued' /\ Connected'
  BY <1>1, <1>2, <1>3 DEF Queued, Connected
<1>5. Reading' /\ Attending' /\ Served'
  BY <1>1, Zenon DEF Reading, Attending, Served
<1>6. Handling'
  BY <1>1 DEF Handling, Busy, Started
<1> QED
  BY <1>2, <1>4, <1>5, <1>6

-----------------------------------------------------------------------------
(* main.                                                                   *)
LEMMA AcceptKeeps ==
  ASSUME HttpInv, Accept
  PROVE  HttpInv'
<1> USE DEF HttpInv
<1> DEFINE d == Lowest(Unused)  v == Head(backlog)
<1>1. /\ backlog # <<>> /\ Unused # {}
      /\ newSocket' = d /\ opened' = [opened EXCEPT ![d] = v]
      /\ backlog' = Tail(backlog) /\ main' = "create"
      /\ UNCHANGED <<trouble, peer, asked, inbox, reply, at, box, sock, dir, path, page>>
  BY DEF Accept, AskedToAccept, clientVars, threadVars
<1>2. d \in Numbers /\ opened[d] = None
  BY <1>1, LowestUnused
<1> HIDE DEF d
<1>3. backlog \in Seq(Browsers) /\ opened \in [Numbers -> Browsers \cup {"dir", None}]
  BY DEF HttpTypeOK
<1>4. /\ v \in Browsers /\ v = backlog[1] /\ backlog' \in Seq(Browsers)
      /\ Len(backlog') = Len(backlog) - 1 /\ Len(backlog) \in Nat \ {0}
      /\ \A k \in 1..Len(backlog') : backlog'[k] = backlog[k + 1]
  BY <1>1, <1>3, HeadTailProperties, LenProperties, EmptySeq
<1> HIDE DEF v
<1>5. /\ DOMAIN backlog = 1..Len(backlog) /\ DOMAIN backlog' = 1..Len(backlog')
      /\ \A k \in DOMAIN backlog' : k + 1 \in DOMAIN backlog /\ k + 1 # 1 /\ k \in Int
      /\ 1 \in DOMAIN backlog
  BY <1>3, <1>4, LenProperties
<1>6. /\ opened'[d] = v /\ \A e \in Numbers \ {d} : opened'[e] = opened[e]
      /\ opened' \in [Numbers -> Browsers \cup {"dir", None}]
      /\ opened[d] \notin Browsers /\ opened[d] # "dir" /\ v # "dir"
  BY <1>1, <1>2, <1>3, <1>4, ServerConstants
<1>7. HttpTypeOK'
  BY <1>1, <1>2, <1>4, <1>6 DEF HttpTypeOK
<1>8. peer[v] # "new" /\ \A e \in Numbers : opened[e] # v
  BY <1>4, <1>5 DEF Queued
<1>9. Queued'
  <2>1. \A i, j \in DOMAIN backlog' : backlog'[i] = backlog'[j] => i = j
    BY <1>4, <1>5 DEF Queued
  <2>2. \A i \in DOMAIN backlog' : peer[backlog'[i]] # "new"
    BY <1>4, <1>5 DEF Queued
  <2>3. \A i \in DOMAIN backlog' : \A e \in Numbers : opened'[e] # backlog'[i]
    BY <1>4, <1>5, <1>6 DEF Queued
  <2> QED
    BY <1>1, <2>1, <2>2, <2>3 DEF Queued
<1>10. Connected'
  BY <1>1, <1>6, <1>8 DEF Connected
<1>11. Reading'
  BY <1>1, <1>6 DEF Reading
<1>12. \A t \in Threads : Busy(t) => box[t] \in Numbers \ {d} /\ opened'[box[t]] = opened[box[t]]
  BY <1>6 DEF Handling
<1>13. Handling'
  BY <1>1, <1>2, <1>4, <1>6, <1>12 DEF Handling, Busy, Started
<1>14. Attending'
  BY <1>1, <1>12 DEF Attending, Busy
<1>15. Served'
  BY <1>1 DEF Served
<1> QED
  BY <1>7, <1>9, <1>10, <1>11, <1>13, <1>14, <1>15

LEMMA CreateKeeps ==
  ASSUME HttpInv, CreateThread
  PROVE  HttpInv'
<1> USE DEF HttpInv
<1>1. /\ main = "create" /\ main' = "accept"
      /\ UNCHANGED <<newSocket, backlog, opened, trouble, peer, asked, inbox, reply, sock, dir, path, page>>
  BY DEF CreateThread, clientVars, threadVars
<1>2. Queued' /\ Connected' /\ Served'
  BY <1>1, Zenon DEF Queued, Connected, Served
<1>3. CASE UNCHANGED threadVars
  BY <1>1, <1>2, <1>3 DEF threadVars, HttpTypeOK, Reading, Handling, Attending, Busy, Started
<1>4. ASSUME NEW t \in Threads, at[t] = "free",
             at' = [at EXCEPT ![t] = "made"], box' = [box EXCEPT ![t] = newSocket]
      PROVE  HttpInv'
  <2>1. HttpTypeOK'
    BY <1>1, <1>4 DEF HttpTypeOK
  <2>2. /\ at'[t] = "made" /\ box'[t] = newSocket
        /\ \A u \in Threads \ {t} : at'[u] = at[u] /\ box'[u] = box[u]
    BY <1>4 DEF HttpTypeOK
  <2>3. Reading'
    BY <1>1, <1>4, <2>2 DEF Reading
  <2>4. Handling'
    BY <1>1, <1>4, <2>2 DEF Handling, Busy, Started
  <2>5. Attending'
    BY <1>1, <1>4, <2>2 DEF Attending
  <2> QED
    BY <1>2, <2>1, <2>3, <2>4, <2>5
<1> QED
  BY <1>3, <1>4 DEF CreateThread

LEMMA ExitKeeps ==
  ASSUME HttpInv, Exit
  PROVE  HttpInv'
<1>1. HttpTypeOK' /\ Handling'
  BY DEF Exit, threadVars, clientVars, HttpInv, HttpTypeOK, Handling, Busy, Started
<1>2. Queued' /\ Connected' /\ Reading' /\ Attending' /\ Served'
  BY Zenon DEF Exit, threadVars, clientVars, HttpInv, Queued, Connected, Reading, Attending, Served
<1> QED
  BY <1>1, <1>2 DEF HttpInv

-----------------------------------------------------------------------------
(* A thread.                                                               *)
LEMMA BeginKeeps ==
  ASSUME HttpInv, NEW t \in Threads, Begin(t)
  PROVE  HttpInv'
<1> USE DEF HttpInv
<1>1. /\ at[t] = "made" /\ sock' = [sock EXCEPT ![t] = box[t]] /\ at' = [at EXCEPT ![t] = "recv"]
      /\ UNCHANGED <<main, newSocket, backlog, opened, trouble, peer, asked, inbox, reply, box, dir, path, page>>
  BY DEF Begin, Argument, mainVars, clientVars
<1>2. HttpTypeOK'
  BY <1>1 DEF HttpTypeOK
<1>3. /\ at'[t] = "recv" /\ sock'[t] = box[t]
      /\ \A u \in Threads \ {t} : at'[u] = at[u] /\ sock'[u] = sock[u]
  BY <1>1 DEF HttpTypeOK
<1>4. Queued' /\ Connected' /\ Served'
  BY <1>1, Zenon DEF Queued, Connected, Served
<1>5. Reading' /\ Attending'
  BY <1>1, <1>3 DEF Reading, Attending
<1>6. Handling'
  BY <1>1, <1>3 DEF Handling, Busy, Started
<1> QED
  BY <1>2, <1>4, <1>5, <1>6

LEMMA ReceiveKeeps ==
  ASSUME HttpInv, NEW t \in Threads, Receive(t)
  PROVE  HttpInv'
<1> USE DEF HttpInv
<1> DEFINE c == opened[box[t]]
<1>1. /\ at[t] = "recv" /\ inbox[c] # NoRequest
      /\ inbox' = [inbox EXCEPT ![c] = NoRequest]
      /\ UNCHANGED <<main, newSocket, backlog, opened, trouble, peer, asked, reply, box, sock, dir, page>>
      /\ \/ /\ \E p \in Paths : Understood(inbox[c], p) /\ path' = [path EXCEPT ![t] = p]
            /\ at' = [at EXCEPT ![t] = "open"]
         \/ NotUnderstood(inbox[c]) /\ at' = [at EXCEPT ![t] = "write"] /\ UNCHANGED path
         \/ Overwrites(inbox[c]) /\ at' = [at EXCEPT ![t] = "wild"] /\ UNCHANGED path
  <2>1. sock[t] = box[t]
    BY DEF Receive, Handling, Started
  <2> QED
    BY <2>1 DEF Receive, mainVars
<1>2. c \in Browsers /\ inbox[c] = asked[c] /\ page[t] = Junk
  BY <1>1 DEF Handling, Busy, Served, Attending
<1> HIDE DEF c
<1>3. inbox' \in [Browsers -> Requests \cup {NoRequest}]
      /\ inbox'[c] = NoRequest /\ \A w \in Browsers \ {c} : inbox'[w] = inbox[w]
  BY <1>1, <1>2 DEF HttpTypeOK
<1>4. /\ at' \in [Threads -> {"free", "made", "recv", "open", "list", "write", "ended", "wild"}]
      /\ path' \in [Threads -> Paths \cup {None}]
      /\ at'[t] \in {"open", "write", "wild"}
      /\ at'[t] = "open" => Understood(asked[c], path'[t])
      /\ at'[t] = "wild" => Harms(asked[c])
      /\ \A u \in Threads \ {t} : at'[u] = at[u] /\ path'[u] = path[u]
  <2>1. CASE at' = [at EXCEPT ![t] = "write"] /\ UNCHANGED path
    BY <2>1 DEF HttpTypeOK
  <2>3. CASE Overwrites(inbox[c]) /\ at' = [at EXCEPT ![t] = "wild"] /\ UNCHANGED path
    BY <1>2, <2>3 DEF HttpTypeOK, Harms
  <2>2. ASSUME NEW p \in Paths, Understood(inbox[c], p), path' = [path EXCEPT ![t] = p],
               at' = [at EXCEPT ![t] = "open"]
        PROVE  <1>4!:
    <3>1. path'[t] = p /\ at'[t] = "open"
      BY <2>2 DEF HttpTypeOK
    <3> QED
      BY <1>2, <2>2, <3>1 DEF HttpTypeOK
  <2> QED
    BY <1>1, <2>1, <2>2, <2>3
<1>5. HttpTypeOK'
  BY <1>1, <1>3, <1>4 DEF HttpTypeOK
<1>6. Queued' /\ Connected'
  BY <1>1, Zenon DEF Queued, Connected
<1>7. Reading'
  BY <1>1, <1>4 DEF Reading
<1>8. Handling'
  BY <1>1, <1>4 DEF Handling, Busy, Started
<1>9. Attending'
  BY <1>1, <1>2, <1>4 DEF Attending, Deserved, Junk, c
<1>10. Served'
  BY <1>1, <1>3 DEF Served
<1> QED
  BY <1>5, <1>6, <1>7, <1>8, <1>9, <1>10

LEMMA OpenDirectoryKeeps ==
  ASSUME HttpInv, NEW t \in Threads, OpenDirectory(t)
  PROVE  HttpInv'
<1> USE DEF HttpInv
<1> DEFINE d == Lowest(Unused)
<1>1. /\ at[t] = "open" /\ Unused # {}
      /\ dir' = [dir EXCEPT ![t] = d] /\ dir'[t] = d
      /\ opened' = [opened EXCEPT ![d] = "dir"]
      /\ at' = [at EXCEPT ![t] = "list"]
      /\ UNCHANGED <<main, newSocket, backlog, trouble, peer, asked, inbox, reply, box, sock, path, page>>
  BY DEF OpenDirectory, clientVars, HttpTypeOK
<1>2. d \in Numbers /\ opened[d] = None
  BY <1>1, LowestUnused
<1> HIDE DEF d
<1>3. HttpTypeOK'
  BY <1>1, <1>2 DEF HttpTypeOK
<1>4. /\ opened'[d] = "dir" /\ \A e \in Numbers \ {d} : opened'[e] = opened[e]
      /\ opened[d] \notin Browsers /\ opened[d] # "dir" /\ "dir" \notin Browsers
  BY <1>1, <1>2, ServerConstants DEF HttpTypeOK
<1>5. /\ at'[t] = "list"
      /\ \A u \in Threads \ {t} : at'[u] = at[u] /\ dir'[u] = dir[u]
  BY <1>1 DEF HttpTypeOK
<1>6. Queued' /\ Connected' /\ Served'
  <2>1. \A i \in DOMAIN backlog : backlog[i] \in Browsers
    BY LenProperties, ElementOfSeq DEF HttpTypeOK
  <2> QED
    BY <1>1, <1>4, <2>1 DEF Queued, Connected, Served
<1>7. Reading'
  <2>1. \A u \in Threads : at'[u] = "list" => dir'[u] \in Numbers /\ opened'[dir'[u]] = "dir"
    BY <1>1, <1>2, <1>4, <1>5 DEF Reading
  <2>2. \A u \in Threads \ {t} : at[u] = "list" => dir[u] # d
    BY <1>4 DEF Reading
  <2>3. \A u, w \in Threads : at'[u] = "list" /\ at'[w] = "list" /\ dir'[u] = dir'[w] => u = w
    BY <1>1, <1>5, <2>2 DEF Reading
  <2>4. \A e \in Numbers : opened'[e] = "dir" => \E u \in Threads : at'[u] = "list" /\ dir'[u] = e
    <3>1. ASSUME NEW e \in Numbers \ {d}, opened'[e] = "dir"
          PROVE  \E u \in Threads : at'[u] = "list" /\ dir'[u] = e
      <4>1. PICK u \in Threads : at[u] = "list" /\ dir[u] = e
        BY <1>4, <3>1 DEF Reading
      <4> QED
        BY <1>1, <1>5, <4>1
    <3> QED
      BY <1>1, <1>5, <3>1
  <2> QED
    BY <2>1, <2>3, <2>4 DEF Reading
<1>8. \A u \in Threads : Busy(u) => box[u] \in Numbers \ {d} /\ opened'[box[u]] = opened[box[u]]
  BY <1>4 DEF Handling
<1>9. Handling'
  <2>1. main = "create" => newSocket # d
    BY <1>4 DEF Handling
  <2> QED
    BY <1>1, <1>4, <1>5, <1>8, <2>1 DEF Handling, Busy, Started
<1>10. Attending'
  BY <1>1, <1>5, <1>8 DEF Attending, Busy
<1> QED
  BY <1>3, <1>6, <1>7, <1>9, <1>10

LEMMA MakePageKeeps ==
  ASSUME HttpInv, NEW t \in Threads, MakePage(t)
  PROVE  HttpInv'
<1> USE DEF HttpInv
<1> DEFINE d == dir[t]  r == asked[opened[box[t]]]
           p == IF Fits(path[t]) THEN [kind |-> "list", files |-> Listing(path[t])] ELSE page[t]
           then == IF Fits(path[t]) THEN "write" ELSE "wild"
<1>1. /\ at[t] = "list"
      /\ page' = [page EXCEPT ![t] = p]
      /\ opened' = [opened EXCEPT ![d] = None]
      /\ at' = [at EXCEPT ![t] = then]
      /\ UNCHANGED <<main, newSocket, backlog, trouble, peer, asked, inbox, reply, box, sock, dir, path>>
  <2>1. UNCHANGED page => page' = [page EXCEPT ![t] = page[t]]
    BY DEF HttpTypeOK
  <2> QED
    BY <2>1 DEF MakePage, clientVars, Closed
<1>2. d \in Numbers /\ opened[d] = "dir" /\ Understood(r, path[t]) /\ opened[box[t]] \in Browsers
  BY <1>1 DEF Reading, Attending, Handling, Busy
<1>3. path[t] \in Paths /\ r # NoRequest /\ r \in Requests
  BY <1>2 DEF Understood, HttpTypeOK, Requests, NoRequest
<1>4. p \in Pages \cup {Junk} /\ then \in {"write", "wild"}
  <2>1. Listing(path[t]) \in SUBSET Pictures
    BY <1>3, ServerConstants DEF Listing
  <2> QED
    BY <2>1 DEF Pages, HttpTypeOK
<1>5. Deserved(p, r) /\ (then = "wild" => Harms(r))
  <2>1. page[t] = Junk
    BY <1>1 DEF Attending
  <2> QED
    BY <1>2, <1>3, <2>1 DEF Deserved, Understood, Junk, Harms
<1> HIDE DEF d, r, p, then
<1>6. HttpTypeOK'
  BY <1>1, <1>2, <1>4 DEF HttpTypeOK
<1>7. /\ opened'[d] = None /\ \A e \in Numbers \ {d} : opened'[e] = opened[e]
      /\ None \notin Browsers /\ "dir" \notin Browsers /\ None # "dir"
  BY <1>1, <1>2, ServerConstants DEF HttpTypeOK
<1>8. /\ at'[t] = then /\ page'[t] = p
      /\ \A u \in Threads \ {t} : at'[u] = at[u] /\ page'[u] = page[u]
  BY <1>1 DEF HttpTypeOK
<1>8a. then \notin {"free", "made", "recv", "open", "list"}
  BY <1>4
<1>9. Queued' /\ Connected' /\ Served'
  <2>1. \A i \in DOMAIN backlog : backlog[i] \in Browsers
    BY LenProperties, ElementOfSeq DEF HttpTypeOK
  <2> QED
    BY <1>1, <1>7, <2>1 DEF Queued, Connected, Served
<1>10. Reading'
  <2>1. \A u \in Threads \ {t} : at[u] = "list" => dir[u] # d
    BY <1>1 DEF Reading, d
  <2>2. \A u \in Threads : at'[u] = "list" => dir'[u] \in Numbers /\ opened'[dir'[u]] = "dir"
    BY <1>1, <1>7, <1>8, <1>8a, <2>1 DEF Reading
  <2>3. \A u, w \in Threads : at'[u] = "list" /\ at'[w] = "list" /\ dir'[u] = dir'[w] => u = w
    BY <1>1, <1>8, <1>8a DEF Reading
  <2>4. \A e \in Numbers : opened'[e] = "dir" => \E u \in Threads : at'[u] = "list" /\ dir'[u] = e
    <3>1. ASSUME NEW e \in Numbers, opened'[e] = "dir"
          PROVE  \E u \in Threads : at'[u] = "list" /\ dir'[u] = e
      <4>1. e # d /\ opened[e] = "dir"
        BY <1>7, <3>1
      <4>2. PICK u \in Threads : at[u] = "list" /\ dir[u] = e
        BY <4>1 DEF Reading
      <4>3. u # t
        BY <4>1, <4>2 DEF d
      <4> QED
        BY <1>1, <1>8, <4>2, <4>3
    <3> QED
      BY <3>1
  <2> QED
    BY <2>2, <2>3, <2>4 DEF Reading
<1>11. \A u \in Threads : Busy(u) => box[u] \in Numbers \ {d} /\ opened'[box[u]] = opened[box[u]]
  BY <1>2, <1>7 DEF Handling
<1>12. Handling'
  <2>1. main = "create" => newSocket # d
    BY <1>2, <1>7 DEF Handling
  <2> QED
    BY <1>1, <1>7, <1>8, <1>11, <1>8a, <2>1 DEF Handling, Busy, Started
<1>13. Attending'
  <2>1. asked'[opened'[box'[t]]] = r
    BY <1>1, <1>11 DEF Busy, r
  <2>2. ASSUME NEW u \in Threads \ {t}, at[u] # "free"
        PROVE  asked'[opened'[box'[u]]] = asked[opened[box[u]]]
    BY <1>1, <1>11, <2>2 DEF Busy
  <2> QED
    BY <1>1, <1>3, <1>4, <1>5, <1>8, <2>1, <2>2 DEF Attending
<1> QED
  BY <1>6, <1>9, <1>10, <1>12, <1>13

LEMMA WritePageKeeps ==
  ASSUME HttpInv, NEW t \in Threads, WritePage(t)
  PROVE  HttpInv'
<1> USE DEF HttpInv
<1> DEFINE c == opened[box[t]]
<1>1. /\ at[t] = "write"
      /\ reply' = [reply EXCEPT ![c] = page[t]] \/ UNCHANGED reply
      /\ at' = [at EXCEPT ![t] = "ended"]
      /\ UNCHANGED <<main, newSocket, backlog, opened, trouble, peer, asked, inbox, box, sock, dir, path, page>>
  <2>1. sock[t] = box[t]
    BY DEF WritePage, Handling, Started
  <2> QED
    BY <2>1 DEF WritePage, mainVars
<1>2. c \in Browsers /\ asked[c] # NoRequest /\ Deserved(page[t], asked[c])
  BY <1>1 DEF Handling, Busy, Attending
<1> HIDE DEF c
<1>3. HttpTypeOK'
  BY <1>1 DEF HttpTypeOK
<1>4. /\ at'[t] = "ended" /\ \A u \in Threads \ {t} : at'[u] = at[u]
      /\ reply'[c] \in {page[t], reply[c]} /\ \A w \in Browsers \ {c} : reply'[w] = reply[w]
  BY <1>1, <1>2 DEF HttpTypeOK
<1>5. Queued' /\ Connected'
  BY <1>1, Zenon DEF Queued, Connected
<1>6. Reading' /\ Attending'
  BY <1>1, <1>4 DEF Reading, Attending
<1>7. Handling'
  BY <1>1, <1>4 DEF Handling, Busy, Started
<1>8. Served'
  BY <1>1, <1>2, <1>4 DEF Served
<1> QED
  BY <1>3, <1>5, <1>6, <1>7, <1>8

LEMMA WildKeeps ==
  ASSUME HttpInv, NEW t \in Threads, Wild(t)
  PROVE  HttpInv'
<1> USE DEF HttpInv
<1>1. CASE Exit
  BY <1>1, ExitKeeps
<1>2. ASSUME NEW d \in Numbers, opened[d] \in Browsers, reply' = [reply EXCEPT ![opened[d]] = Junk],
             UNCHANGED <<mainVars, peer, asked, inbox, threadVars>>
      PROVE  HttpInv'
  <2>1. UNCHANGED <<main, newSocket, backlog, opened, trouble, peer, asked, inbox, at, box, sock, dir, path, page>>
    BY <1>2 DEF mainVars, threadVars
  <2>2. /\ reply'[opened[d]] = Junk /\ \A w \in Browsers \ {opened[d]} : reply'[w] = reply[w]
        /\ reply' \in [Browsers -> Pages \cup {Junk, NoPage}]
    BY <1>2 DEF HttpTypeOK
  <2>3. HttpTypeOK'
    BY <2>1, <2>2 DEF HttpTypeOK
  <2>4. Queued' /\ Connected' /\ Reading' /\ Attending'
    BY <2>1, Zenon DEF Queued, Connected, Reading, Attending
  <2>5. Handling'
    BY <2>1 DEF Handling, Busy, Started
  <2>6. Served'
    BY <2>1, <2>2 DEF Served, Deserved, Junk
  <2> QED
    BY <2>3, <2>4, <2>5, <2>6
<1> QED
  BY <1>1, <1>2 DEF Wild

LEMMA HttpInvStep == HttpInv /\ [HttpNext]_httpVars => HttpInv'
<1> SUFFICES ASSUME HttpInv, [HttpNext]_httpVars PROVE HttpInv'
  OBVIOUS
<1>1. ASSUME NEW c \in Browsers, Arrive(c) \/ Request(c) \/ GoAway(c) PROVE HttpInv'
  BY <1>1, ArriveKeeps, AskKeeps, GoAwayKeeps
<1>2. CASE MainStep
  BY <1>2, AcceptKeeps, CreateKeeps, ExitKeeps DEF MainStep, AcceptRefused
<1>2a. CASE CallFails
  BY <1>2a, ExitKeeps DEF CallFails
<1>3. ASSUME NEW t \in Threads, ThreadStep(t) \/ Wild(t) PROVE HttpInv'
  BY <1>3, BeginKeeps, ReceiveKeeps, OpenDirectoryKeeps, MakePageKeeps, WritePageKeeps, WildKeeps, ExitKeeps
     DEF ThreadStep, NothingReceived, DirectoryRefused, WriteFails
<1>4. CASE UNCHANGED httpVars
  <2>1. UNCHANGED <<main, newSocket, backlog, opened, trouble, peer, asked, inbox, reply,
                    at, box, sock, dir, path, page>>
    BY <1>4 DEF httpVars, mainVars, clientVars, threadVars
  <2>2. HttpTypeOK'
    BY <2>1 DEF HttpInv, HttpTypeOK
  <2>3. Queued' /\ Connected' /\ Reading' /\ Attending' /\ Served'
    BY <2>1, Zenon DEF HttpInv, Queued, Connected, Reading, Attending, Served
  <2>4. Handling'
    BY <2>1 DEF HttpInv, Handling, Busy, Started
  <2> QED
    BY <2>2, <2>3, <2>4 DEF HttpInv
<1> QED
  BY <1>1, <1>2, <1>3, <1>4, <1>2a DEF HttpNext

LEMMA HttpInvKept == HttpSpec => []HttpInv
BY HttpInitInv, HttpInvStep, PTL DEF HttpSpec

(* Requests, pages, descriptors and what each thread is doing are always of *)
(* the kinds the code knows.                                                *)
THEOREM HttpIsTyped == HttpSpec => []HttpTypeOK
BY HttpInvKept, PTL DEF HttpInv

(* A connection has one thread, which reads and writes no other, and the    *)
(* page a client gets is the one its own request deserves, in whatever      *)
(* order main and the threads run (server5.cpp 18-154 and 203-227).         *)
THEOREM HandlersAreOwn == HttpSpec => []OwnHandler
<1>1. HttpInv => OwnHandler
  <2> SUFFICES ASSUME HttpInv PROVE OwnHandler
    OBVIOUS
  <2>1. \A t \in Threads : Started(t) => Busy(t) /\ sock[t] = box[t] /\ opened[box[t]] \in Browsers
    BY DEF HttpInv, Handling, Busy, Started
  <2>2. \A t, u \in Threads : Busy(t) /\ Busy(u) /\ box[t] = box[u] => t = u
    BY DEF HttpInv, Handling
  <2>3. \A c \in Browsers : Deserved(reply[c], asked[c])
    BY DEF HttpInv, Served
  <2> QED
    BY <2>1, <2>2, <2>3 DEF OwnHandler, Deserved
<1> QED
  BY <1>1, HttpInvKept, PTL

(* A process without a free descriptor has them all on clients that have    *)
(* called, one for each, and on directories being read, one for each.       *)
LEMMA AllTaken ==
  ASSUME HttpInv, Unused = {}
  PROVE  Cardinality({c \in Browsers : peer[c] # "new"})
           + Cardinality({t \in Threads : at[t] = "list"}) >= Cardinality(Numbers)
<1> DEFINE C == {c \in Browsers : peer[c] # "new"}
           T == {t \in Threads : at[t] = "list"}
           D == {d \in Numbers : opened[d] \in Browsers}
           E == {d \in Numbers : opened[d] = "dir"}
<1>1. IsFiniteSet(C) /\ IsFiniteSet(T) /\ IsFiniteSet(Numbers)
  <2>1. IsFiniteSet(Threads)
    BY ServerConstants, FS_Interval DEF Threads
  <2>2. C \in SUBSET Browsers /\ T \in SUBSET Threads
    OBVIOUS
  <2> HIDE DEF C, T
  <2> QED
    BY <2>1, <2>2, ServerConstants, FS_Subset
<1>2. Numbers = D \cup E
  BY DEF HttpInv, HttpTypeOK, Unused
<1>3. IsFiniteSet(D) /\ Cardinality(D) <= Cardinality(C)
  <2> DEFINE f == [d \in D |-> opened[d]]
  <2>1. \A d \in D : opened[d] \in C
    BY DEF HttpInv, Connected
  <2>2. \A d, e \in D : opened[d] = opened[e] => d = e
    BY DEF HttpInv, Connected
  <2> HIDE DEF C, D
  <2>3. f \in [D -> C] /\ \A d, e \in D : f[d] = f[e] => d = e
    BY <2>1, <2>2
  <2> HIDE DEF f
  <2>4. f \in Injection(D, C)
    BY <2>3 DEF Injection, IsInjective
  <2> QED
    BY <1>1, <2>4, FS_Injection
<1>4. IsFiniteSet(E) /\ Cardinality(E) <= Cardinality(T)
  <2> DEFINE g == [d \in E |-> CHOOSE t \in T : dir[t] = d]
  <2>1. \A d \in E : \E t \in T : dir[t] = d
    BY DEF HttpInv, Reading
  <2> HIDE DEF E, T
  <2>2. \A d \in E : g[d] \in T /\ dir[g[d]] = d
    BY <2>1
  <2>3. g \in [E -> T]
    BY <2>2
  <2> HIDE DEF g
  <2>4. g \in Injection(E, T)
    BY <2>2, <2>3 DEF Injection, IsInjective
  <2> QED
    BY <1>1, <2>4, FS_Injection
<1> HIDE DEF C, T, D, E
<1>5. IsFiniteSet(D \cap E) /\ Cardinality(D \cap E) \in Nat
  BY <1>3, FS_Subset, FS_CardinalityType
<1>6. Cardinality(D \cup E) = Cardinality(D) + Cardinality(E) - Cardinality(D \cap E)
  BY <1>3, <1>4, FS_Union
<1>7. /\ Cardinality(C) \in Nat /\ Cardinality(T) \in Nat
      /\ Cardinality(D) \in Nat /\ Cardinality(E) \in Nat
  BY <1>1, <1>3, <1>4, FS_CardinalityType
<1>8. Cardinality(C) + Cardinality(T) >= Cardinality(Numbers)
  BY <1>2, <1>3, <1>4, <1>5, <1>6, <1>7
<1> QED
  BY <1>8 DEF C, T

(* What brought the server down stays so, whatever the clients do then.     *)
LEMMA CauseStays ==
  ASSUME HttpInv, StopsForCause, NEW c \in Browsers, Arrive(c) \/ Request(c) \/ GoAway(c)
  PROVE  StopsForCause'
<1> SUFFICES ASSUME main = "stopped" PROVE StopsForCause'
  BY DEF Arrive, Request, GoAway, mainVars, StopsForCause
<1>1. CASE Request(c)
  <2>1. PICK r \in MayAsk[c] : asked' = [asked EXCEPT ![c] = r]
    BY <1>1 DEF Request
  <2>2. ASSUME NEW w \in Browsers, Harms(asked[w])
        PROVE  asked'[w] = asked[w]
    <3>1. asked[w] # NoRequest
      BY <2>2 DEF Harms, Overwrites, Understood, NoRequest
    <3> QED
      BY <1>1, <2>1, <3>1 DEF Request, HttpInv, HttpTypeOK
  <2>3. UNCHANGED <<peer, at, trouble>>
    BY <1>1 DEF Request, threadVars, mainVars
  <2>4. CASE trouble \/ \E w \in Browsers : peer[w] = "gone"
    BY <2>3, <2>4 DEF StopsForCause
  <2>5. ASSUME NEW w \in Browsers, Harms(asked[w])
        PROVE  StopsForCause'
    <3>1. Harms(asked'[w])
      BY <2>2, <2>5
    <3> QED
      BY <3>1, Zenon DEF StopsForCause, Harms, Overwrites
  <2>6. CASE Cardinality({w \in Browsers : peer[w] # "new"})
               + Cardinality({t \in Threads : at[t] = "list"}) >= Cardinality(Numbers)
    BY <2>3, <2>6, Zenon DEF StopsForCause
  <2> QED
    BY <2>4, <2>5, <2>6 DEF StopsForCause
<1>2. CASE GoAway(c)
  <2>1. peer'[c] = "gone"
    BY <1>2 DEF GoAway, HttpInv, HttpTypeOK
  <2> QED
    BY <2>1 DEF StopsForCause
<1> QED
  BY <1>1, <1>2 DEF Arrive

LEMMA CauseKept == HttpInv /\ StopsForCause /\ [HttpNext]_httpVars => StopsForCause'
<1> SUFFICES ASSUME HttpInv, StopsForCause, [HttpNext]_httpVars PROVE StopsForCause'
  OBVIOUS
<1>1. ASSUME NEW c \in Browsers, Arrive(c) \/ Request(c) \/ GoAway(c) PROVE StopsForCause'
  BY <1>1, CauseStays
<1>2. ASSUME Exit, Unused = {} PROVE StopsForCause'
  <2>1. UNCHANGED <<peer, at>>
    BY <1>2 DEF Exit, clientVars, threadVars
  <2>2. (Cardinality({c \in Browsers : peer[c] # "new"})
           + Cardinality({t \in Threads : at[t] = "list"}) >= Cardinality(Numbers))'
    BY <1>2, <2>1, AllTaken
  <2> QED
    BY <2>2, Zenon DEF StopsForCause
<1>2a. ASSUME Exit, trouble PROVE StopsForCause'
  BY <1>2a DEF Exit, StopsForCause
<1>3. ASSUME NEW t \in Threads, ThreadStep(t) PROVE StopsForCause'
  <2>1. CASE Begin(t) \/ Receive(t) \/ OpenDirectory(t) \/ MakePage(t) \/ WritePage(t)
    <3>1. main' # "stopped"
      BY <1>3, <2>1 DEF ThreadStep, Begin, Receive, OpenDirectory, MakePage, WritePage, mainVars
    <3> QED
      BY <3>1 DEF StopsForCause
  <2>2. ASSUME Exit, at[t] \in {"recv", "write"}, peer[opened[sock[t]]] = "gone"
        PROVE  StopsForCause'
    <3>1. sock[t] = box[t] /\ opened[box[t]] \in Browsers
      BY <2>2 DEF HttpInv, Handling, Started, Busy
    <3>2. \E c \in Browsers : peer'[c] = "gone"
      BY <2>2, <3>1 DEF Exit, clientVars
    <3> QED
      BY <3>2 DEF StopsForCause
  <2>3. CASE NothingReceived(t) \/ WriteFails(t)
    BY <1>2a, <2>2, <2>3 DEF NothingReceived, WriteFails
  <2>4. CASE DirectoryRefused(t)
    BY <1>2, <1>2a, <2>4 DEF DirectoryRefused
  <2> QED
    BY <1>3, <2>1, <2>3, <2>4 DEF ThreadStep
<1>7. ASSUME NEW t \in Threads, Wild(t) PROVE StopsForCause'
  <2>1. CASE Exit
    <3> DEFINE c == opened[box[t]]
    <3>1. c \in Browsers /\ Harms(asked[c])
      BY <1>7 DEF Wild, HttpInv, Handling, Busy, Attending
    <3>2. Harms(asked'[c])
      BY <2>1, <3>1 DEF Exit, clientVars
    <3> HIDE DEF c
    <3> QED
      BY <3>1, <3>2, Zenon DEF StopsForCause, Harms, Overwrites
  <2>2. CASE main' = main
    BY <1>7, <2>2 DEF Wild, StopsForCause
  <2> QED
    BY <1>7, <2>1, <2>2 DEF Wild, mainVars
<1>8. CASE CallFails
  BY <1>2a, <1>8 DEF CallFails
<1>4. CASE MainStep
  <2>1. main' # "stopped" \/ (Exit /\ Unused = {})
    BY <1>4 DEF MainStep, Accept, AcceptRefused, CreateThread
  <2> QED
    BY <1>2, <2>1 DEF StopsForCause
<1>5. CASE UNCHANGED httpVars
  BY <1>5, Zenon DEF httpVars, mainVars, clientVars, threadVars, StopsForCause
<1> QED
  BY <1>1, <1>3, <1>4, <1>5, <1>7, <1>8 DEF HttpNext

(* When no call fails for a reason outside the process, only a client that  *)
(* left, a request that makes its thread overwrite memory (by itself, lines *)
(* 41-54, or by its page, 79-86), or connections and directories on every   *)
(* descriptor bring the server down (server5.cpp 29-39, 59, 101, 144, 205). *)
THEOREM StopsForGoodCause == HttpSpec => []StopsForCause
<1>1. HttpInit => StopsForCause
  BY DEF HttpInit, StopsForCause
<1> QED
  BY <1>1, HttpInvKept, CauseKept, PTL DEF HttpSpec

-----------------------------------------------------------------------------
(* Which of a server's connections are dealt with, and which is lost.       *)
Held(v) == \E d \in Places : holds[d] = v
LostOne(k) == which = "server6" /\ k = 1
Settled(k) == k < Len(callers) \/ greeter = "accept"

(* Nobody calls twice.                                                      *)
CallersDiffer ==
  /\ \A i, j \in DOMAIN callers : callers[i] = callers[j] => i = j
  /\ \A i, j \in DOMAIN calling : calling[i] = calling[j] => i = j
  /\ \A i \in DOMAIN callers, j \in DOMAIN calling : callers[i] # calling[j]
  /\ \A i \in DOMAIN callers : visit[callers[i]] # "away"
  /\ \A i \in DOMAIN calling : visit[calling[i]] # "away"

(* Only connections that were accepted are held or greeted.                 *)
OnlyCallers ==
  \A v \in Visitors : v \in sentTo \/ Held(v) => \E k \in DOMAIN callers : callers[k] = v

SettledGreeted ==
  \A k \in DOMAIN callers : Settled(k) =>
    (callers[k] \in sentTo <=> ~LostOne(k)) /\ (Held(callers[k]) <=> LostOne(k))

(* The connection being greeted is the one in csd, and nowhere else; the    *)
(* first one of server6 is somewhere else.                                  *)
CurrentGreeted ==
  greeter \in {"greet", "close"} =>
    LET n == Len(callers)  c == callers[n] IN
    /\ n >= 1
    /\ IF LostOne(n) THEN holds[csd] \notin Visitors /\ c \notin sentTo /\ Held(c)
       ELSE /\ \A d \in Places : holds[d] = c <=> d = csd
            /\ c \in sentTo <=> greeter = "close"

(* Descriptor 0 of server6 is taken until it is closed for the first one.   *)
ZeroTaken ==
  which = "server6" =>
    /\ greeter = "accept" => (holds[0] = "free" <=> callers # <<>>)
    /\ greeter \in {"greet", "close"} => csd = 0

GreetInv == GreetTypeOK /\ CallersDiffer /\ OnlyCallers /\ SettledGreeted /\ CurrentGreeted /\ ZeroTaken
            /\ (greeter = "open" => callers = <<>>)

LEMMA LowestFree ==
  ASSUME GreetTypeOK, Free # {}
  PROVE  /\ Lowest(Free) \in Places /\ holds[Lowest(Free)] = "free"
         /\ holds[0] = "free" => Lowest(Free) = 0
<1>1. Free \in SUBSET Nat /\ Free \subseteq Places
  BY PlacesAreNumbers DEF Free
<1>2. Lowest(Free) \in Free /\ \A e \in Free : Lowest(Free) <= e
  BY <1>1, LowestIsLowest
<1>3. holds[0] = "free" => 0 \in Free
  BY PlacesAreNumbers DEF Free
<1>4. ASSUME 0 \in Free PROVE Lowest(Free) = 0
  <2> DEFINE l == Lowest(Free)
  <2>1. l \in Nat /\ l <= 0
    <3> HIDE DEF Free
    <3> QED
      BY <1>1, <1>2, <1>4
  <2> HIDE DEF l
  <2>2. l = 0
    BY <2>1
  <2> QED
    BY <2>2 DEF l
<1> QED
  BY <1>2, <1>3, <1>4 DEF Free

LEMMA GreetInitInv == GreetInit => GreetInv
<1> SUFFICES ASSUME GreetInit PROVE GreetInv
  OBVIOUS
<1> USE PlacesAreNumbers
<1>1. callers = <<>> /\ calling = <<>> /\ sentTo = {} /\ greeter = "open"
  BY DEF GreetInit
<1>2. GreetTypeOK
  <2>1. holds \in [Places -> Visitors \cup {"terminal", "file", "listening", "free"}]
    BY DEF GreetInit
  <2>2. callers \in Seq(Visitors) /\ calling \in Seq(Visitors)
    BY <1>1, EmptySeq
  <2> QED
    BY <2>1, <2>2 DEF GreetInit, GreetTypeOK
<1>3. DOMAIN callers = {} /\ DOMAIN calling = {}
  BY <1>1, EmptySeq
<1>4. \A v \in Visitors : ~Held(v)
  BY DEF GreetInit, Held
<1> QED
  BY <1>1, <1>2, <1>3, <1>4 DEF GreetInv, CallersDiffer, OnlyCallers, SettledGreeted, CurrentGreeted, ZeroTaken

(* A visitor that calls, reads or leaves.                                   *)
LEMMA VisitorKeepsGreetInv ==
  ASSUME GreetInv, NEW v \in Visitors, Connect(v) \/ Reader(v) \/ GiveUp(v)
  PROVE  GreetInv'
<1> USE DEF GreetInv, GreetTypeOK
<1>1. UNCHANGED <<which, greeter, holds, csd, callers, sentTo>>
  BY DEF Connect, Reader, ReadGreeting, ReadEnd, GiveUp, greeterVars
<1>2. /\ visit' \in [Visitors -> {"away", "waiting", "left", "greeted"}]
      /\ \A w \in Visitors : visit[w] # "away" => visit'[w] # "away"
  BY DEF Connect, Reader, ReadGreeting, ReadEnd, GiveUp
<1>3. calling' \in Seq(Visitors) /\ CallersDiffer'
  <2>1. CASE Connect(v)
    <3>1. /\ calling' \in Seq(Visitors) /\ Len(calling') = Len(calling) + 1
          /\ \A k \in 1..Len(calling) : calling'[k] = calling[k]
          /\ calling'[Len(calling) + 1] = v
      BY <2>1, AppendProperties DEF Connect
    <3>2. /\ DOMAIN calling' = 1 .. Len(calling) + 1 /\ DOMAIN calling = 1..Len(calling)
          /\ Len(calling) \in Nat
      BY <3>1, LenProperties
    <3>3. visit[v] = "away" /\ visit'[v] # "away"
      BY <2>1 DEF Connect
    <3>4. /\ \A k \in DOMAIN calling : calling[k] # v /\ calling[k] \in Visitors
          /\ \A k \in DOMAIN callers : callers[k] # v /\ callers[k] \in Visitors
      BY <3>3, LenProperties, ElementOfSeq DEF CallersDiffer
    <3>5. \A k \in DOMAIN calling' : k \in DOMAIN calling \/ k = Len(calling) + 1
      BY <3>2
    <3>6. \A i, j \in DOMAIN calling' : calling'[i] = calling'[j] => i = j
      BY <3>1, <3>2, <3>4, <3>5 DEF CallersDiffer
    <3>7. \A i \in DOMAIN callers, j \in DOMAIN calling' : callers[i] # calling'[j]
      BY <3>1, <3>2, <3>4, <3>5 DEF CallersDiffer
    <3>8. \A i \in DOMAIN callers : visit'[callers[i]] # "away"
      BY <1>2, <3>4 DEF CallersDiffer
    <3>9. \A i \in DOMAIN calling' : visit'[calling'[i]] # "away"
      BY <1>2, <3>1, <3>2, <3>3, <3>4, <3>5 DEF CallersDiffer
    <3> QED
      BY <1>1, <3>1, <3>6, <3>7, <3>8, <3>9 DEF CallersDiffer
  <2>2. CASE UNCHANGED calling
    <3>1. /\ \A k \in DOMAIN calling : calling[k] \in Visitors
          /\ \A k \in DOMAIN callers : callers[k] \in Visitors
      BY LenProperties, ElementOfSeq
    <3> QED
      BY <1>1, <1>2, <2>2, <3>1 DEF CallersDiffer
  <2> QED
    BY <2>1, <2>2 DEF Connect, Reader, ReadGreeting, ReadEnd, GiveUp, greeterVars
<1>4. OnlyCallers' /\ SettledGreeted' /\ CurrentGreeted' /\ ZeroTaken'
  BY <1>1, Zenon DEF OnlyCallers, SettledGreeted, CurrentGreeted, ZeroTaken, Held, Settled, LostOne
<1>5. greeter' # "open" \/ callers' = <<>>
  BY <1>1
<1> QED
  BY <1>1, <1>2, <1>3, <1>4, <1>5

(* The process stops: nothing is accepted any more.                         *)
LEMMA StopKeepsGreetInv ==
  ASSUME GreetInv, Stop
  PROVE  GreetInv'
<1> USE DEF GreetInv, GreetTypeOK, Stop
<1>1. CallersDiffer' /\ OnlyCallers'
  BY Zenon DEF CallersDiffer, OnlyCallers, Held
<1>2. SettledGreeted'
  BY DEF SettledGreeted, Settled, Held, LostOne
<1> QED
  BY <1>1, <1>2 DEF CurrentGreeted, ZeroTaken

LEMMA OpenKeepsGreetInv ==
  ASSUME GreetInv, OpenGreeter
  PROVE  GreetInv'
<1> USE PlacesAreNumbers DEF GreetInv
<1>1. CASE Stop
  BY <1>1, StopKeepsGreetInv
<1>2. CASE ~Stop
  <2> DEFINE d == Lowest(Free)
  <2>1. /\ Free # {} /\ greeter = "open" /\ greeter' = "accept"
        /\ holds' = [holds EXCEPT ![d] = "listening"]
        /\ UNCHANGED <<which, csd, callers, calling, sentTo, visit>>
    BY <1>2 DEF OpenGreeter
  <2>2. d \in Places /\ holds[d] = "free" /\ (holds[0] = "free" => d = 0)
    BY <2>1, LowestFree
  <2> HIDE DEF d
  <2>3. callers = <<>> /\ DOMAIN callers = {}
    BY <2>1, EmptySeq
  <2>4. GreetTypeOK'
    BY <2>1, <2>2 DEF GreetTypeOK
  <2>5. CallersDiffer'
    BY <2>1, Zenon DEF CallersDiffer
  <2>6. \A v \in Visitors : Held(v)' => Held(v)
    BY <2>1, <2>2 DEF Held, GreetTypeOK
  <2>7. OnlyCallers'
    BY <2>1, <2>6 DEF OnlyCallers
  <2>8. holds'[0] # "free"
    BY <2>1, <2>2 DEF GreetTypeOK
  <2> QED
    BY <2>1, <2>3, <2>4, <2>5, <2>7, <2>8 DEF SettledGreeted, CurrentGreeted, ZeroTaken
<1> QED
  BY <1>1, <1>2

LEMMA AcceptKeepsGreetInv ==
  ASSUME GreetInv, AcceptVisitor
  PROVE  GreetInv'
<1> USE PlacesAreNumbers DEF GreetInv
<1>1. CASE Free = {}
  BY <1>1, StopKeepsGreetInv DEF AcceptVisitor
<1>2. CASE Free # {}
  <2> DEFINE d == Lowest(Free)  v == Head(calling)  n == Len(callers) + 1
  <2>1. /\ greeter = "accept" /\ calling # <<>> /\ greeter' = "greet"
        /\ holds' = [holds EXCEPT ![d] = v]
        /\ csd' = Assigned(d)
        /\ callers' = Append(callers, v)
        /\ calling' = Tail(calling)
        /\ UNCHANGED <<which, sentTo, visit>>
    BY <1>2 DEF AcceptVisitor
  <2>2. d \in Places /\ holds[d] = "free" /\ (holds[0] = "free" => d = 0)
    BY <1>2, LowestFree
  <2> HIDE DEF d
  <2>3. /\ v \in Visitors /\ v = calling[1] /\ calling' \in Seq(Visitors)
        /\ Len(calling') = Len(calling) - 1 /\ Len(calling) \in Nat \ {0}
        /\ \A k \in 1..Len(calling') : calling'[k] = calling[k + 1]
    BY <2>1, HeadTailProperties, LenProperties DEF GreetTypeOK
  <2> HIDE DEF v
  <2>4. /\ callers' \in Seq(Visitors) /\ Len(callers') = n /\ Len(callers) \in Nat
        /\ \A k \in 1..Len(callers) : callers'[k] = callers[k]
        /\ callers'[n] = v
    BY <2>1, <2>3, AppendProperties, LenProperties DEF GreetTypeOK
  <2>5. /\ DOMAIN callers = 1..Len(callers) /\ DOMAIN callers' = 1..n
        /\ DOMAIN calling = 1..Len(calling) /\ DOMAIN calling' = 1..Len(calling')
    BY <2>3, <2>4, LenProperties DEF GreetTypeOK
  <2>6. \A k \in DOMAIN callers' : k \in DOMAIN callers \/ k = n
    BY <2>4, <2>5
  <2>7. /\ \A k \in DOMAIN calling' : k + 1 \in DOMAIN calling /\ k + 1 # 1
        /\ 1 \in DOMAIN calling
    BY <2>3, <2>5
  <2>8. GreetTypeOK'
    <3>1. csd' \in Places
      BY <2>1, <2>2 DEF Assigned, GreetTypeOK
    <3>2. holds' \in [Places -> Visitors \cup {"terminal", "file", "listening", "free"}]
      BY <2>1, <2>2, <2>3 DEF GreetTypeOK
    <3> QED
      BY <2>1, <2>3, <2>4, <3>1, <3>2 DEF GreetTypeOK
  <2>9. \A k \in DOMAIN callers : callers[k] # v /\ callers[k] \in Visitors
    BY <2>3, <2>5, <2>7, ElementOfSeq DEF CallersDiffer, GreetTypeOK
  <2>10. CallersDiffer'
    <3>1. \A i, j \in DOMAIN callers' : callers'[i] = callers'[j] => i = j
      BY <2>4, <2>5, <2>6, <2>9 DEF CallersDiffer
    <3>2. \A i, j \in DOMAIN calling' : calling'[i] = calling'[j] => i = j
      BY <2>3, <2>5, <2>7 DEF CallersDiffer
    <3>3. \A i \in DOMAIN callers', j \in DOMAIN calling' : callers'[i] # calling'[j]
      BY <2>3, <2>4, <2>5, <2>6, <2>7 DEF CallersDiffer
    <3>4. \A i \in DOMAIN callers' : visit'[callers'[i]] # "away"
      BY <2>1, <2>3, <2>4, <2>5, <2>6, <2>7 DEF CallersDiffer
    <3>5. \A i \in DOMAIN calling' : visit'[calling'[i]] # "away"
      BY <2>1, <2>3, <2>5, <2>7 DEF CallersDiffer
    <3> QED
      BY <3>1, <3>2, <3>3, <3>4, <3>5 DEF CallersDiffer
  <2>11. v \notin sentTo /\ ~Held(v)
    BY <2>3, <2>9 DEF OnlyCallers
  <2>12. \A w \in Visitors :
           (\E e \in Places : holds'[e] = w) <=> (\E e \in Places : holds[e] = w) \/ w = v
    BY <2>1, <2>2, <2>3 DEF Held, GreetTypeOK
  <2>13. OnlyCallers'
    <3>1. ASSUME NEW w \in Visitors, w \in sentTo' \/ Held(w)'
          PROVE  \E k \in DOMAIN callers' : callers'[k] = w
      <4>1. CASE w = v
        BY <4>1, <2>4, <2>5
      <4>2. CASE w # v
        <5>1. PICK k \in DOMAIN callers : callers[k] = w
          BY <2>1, <2>12, <3>1, <4>2 DEF OnlyCallers, Held
        <5> QED
          BY <5>1, <2>4, <2>5
      <4> QED
        BY <4>1, <4>2
    <3> QED
      BY <3>1 DEF OnlyCallers
  <2>14. SettledGreeted'
    <3>1. ASSUME NEW k \in DOMAIN callers', Settled(k)' PROVE k \in DOMAIN callers
      BY <2>1, <2>4, <2>5, <3>1 DEF Settled
    <3>2. ASSUME NEW k \in DOMAIN callers
          PROVE  (callers[k] \in sentTo <=> ~LostOne(k))' /\ (Held(callers[k]) <=> LostOne(k))'
      <4>1. callers'[k] = callers[k] /\ callers[k] # v /\ callers[k] \in Visitors
        BY <2>4, <2>5, <2>9
      <4>2. (callers[k] \in sentTo <=> ~LostOne(k)) /\ (Held(callers[k]) <=> LostOne(k))
        BY <2>1 DEF SettledGreeted, Settled
      <4>3. (\E e \in Places : holds'[e] = callers[k]) <=> (\E e \in Places : holds[e] = callers[k])
        BY <2>12, <4>1
      <4> QED
        BY <2>1, <4>1, <4>2, <4>3 DEF Held, LostOne
    <3> QED
      BY <3>1, <3>2 DEF SettledGreeted
  <2>15. callers = <<>> <=> n = 1
    BY <2>4, EmptySeq, LenProperties DEF GreetTypeOK
  <2>16. CurrentGreeted'
    <3>1. CASE which = "server6" /\ n = 1
      <4>1. csd' = 0 /\ holds[0] # "free" /\ 0 \in Places
        BY <2>1, <2>15, <3>1 DEF Assigned, ZeroTaken
      <4>2. holds[0] \notin Visitors
        BY <2>15, <3>1, <4>1, EmptySeq DEF OnlyCallers, Held
      <4>3. holds'[csd'] \notin Visitors
        BY <2>1, <2>2, <4>1, <4>2 DEF GreetTypeOK
      <4>4. \E e \in Places : holds'[e] = v
        BY <2>3, <2>12
      <4>5. which' = "server6" /\ Len(callers') = 1 /\ callers'[1] = v
        BY <2>1, <2>4, <3>1
      <4> QED
        BY <2>1, <2>11, <4>3, <4>4, <4>5 DEF CurrentGreeted, Held, LostOne
    <3>2. CASE ~(which = "server6" /\ n = 1)
      <4>1. csd' = d
        BY <2>1, <2>2, <2>15, <3>2 DEF Assigned, ZeroTaken
      <4>2. \A e \in Places : holds'[e] = v <=> e = csd'
        BY <2>1, <2>2, <2>11, <4>1 DEF GreetTypeOK, Held
      <4>3. /\ ~(which' = "server6" /\ Len(callers') = 1)
            /\ Len(callers') >= 1 /\ callers'[Len(callers')] = v
        BY <2>1, <2>4, <3>2
      <4> QED
        BY <2>1, <2>11, <4>2, <4>3 DEF CurrentGreeted, LostOne
    <3> QED
      BY <3>1, <3>2
  <2>17. ZeroTaken'
    BY <2>1 DEF ZeroTaken, Assigned
  <2> QED
    BY <2>1, <2>8, <2>10, <2>13, <2>14, <2>16, <2>17
<1> QED
  BY <1>1, <1>2

LEMMA GreetKeepsGreetInv ==
  ASSUME GreetInv, Greet
  PROVE  GreetInv'
<1> USE PlacesAreNumbers DEF GreetInv
<1>1. CASE Stop
  BY <1>1, StopKeepsGreetInv
<1>2. CASE ~Stop
  <2> DEFINE n == Len(callers)  c == callers[n]
  <2>1. /\ greeter = "greet" /\ greeter' = "close"
        /\ sentTo' = sentTo \cup ({holds[csd]} \cap Visitors)
        /\ UNCHANGED <<which, holds, csd, callers, calling, visit>>
    BY <1>2 DEF Greet
  <2>2. n \in Nat /\ n >= 1 /\ n \in DOMAIN callers /\ DOMAIN callers = 1..n /\ c \in Visitors
    BY <2>1, LenProperties, ElementOfSeq DEF CurrentGreeted, GreetTypeOK
  <2>3. sentTo' = IF LostOne(n) THEN sentTo ELSE sentTo \cup {c}
    BY <2>1, <2>2 DEF CurrentGreeted, GreetTypeOK
  <2>4. GreetTypeOK'
    BY <2>1 DEF GreetTypeOK
  <2>5. CallersDiffer' /\ ZeroTaken'
    BY <2>1 DEF CallersDiffer, ZeroTaken
  <2>6. OnlyCallers'
    BY <2>1, <2>2, <2>3 DEF OnlyCallers, Held
  <2>7. SettledGreeted'
    <3>1. ASSUME NEW k \in DOMAIN callers, k < n
          PROVE  (callers[k] \in sentTo' <=> ~LostOne(k)) /\ (Held(callers[k]) <=> LostOne(k))
      <4>1. callers[k] # c
        BY <2>2, <3>1 DEF CallersDiffer
      <4>2. Settled(k)
        BY <3>1 DEF Settled
      <4> QED
        BY <2>3, <4>1, <4>2 DEF SettledGreeted
    <3> QED
      BY <2>1, <3>1 DEF SettledGreeted, Settled, Held, LostOne
  <2>8. CurrentGreeted'
    BY <2>1, <2>2, <2>3 DEF CurrentGreeted, LostOne, Held
  <2> QED
    BY <2>1, <2>4, <2>5, <2>6, <2>7, <2>8
<1> QED
  BY <1>1, <1>2

LEMMA CloseKeepsGreetInv ==
  ASSUME GreetInv, CloseGreeted
  PROVE  GreetInv'
<1> USE PlacesAreNumbers DEF GreetInv
<1> DEFINE n == Len(callers)  c == callers[n]
<1>1. /\ greeter = "close" /\ greeter' = "accept"
      /\ holds' = [holds EXCEPT ![csd] = "free"] /\ csd \in Places
      /\ UNCHANGED <<which, csd, callers, calling, sentTo, visit>>
  BY DEF CloseGreeted, CsdClosed, GreetTypeOK
<1>2. n \in Nat /\ n >= 1 /\ n \in DOMAIN callers /\ DOMAIN callers = 1..n /\ c \in Visitors
  BY <1>1, LenProperties, ElementOfSeq DEF CurrentGreeted, GreetTypeOK
<1>3. GreetTypeOK'
  BY <1>1 DEF GreetTypeOK
<1>4. CallersDiffer'
  BY <1>1 DEF CallersDiffer
<1>5. \A w \in Visitors :
        (\E d \in Places : holds'[d] = w) <=> \E d \in Places : d # csd /\ holds[d] = w
  BY <1>1 DEF GreetTypeOK
<1>6. OnlyCallers'
  BY <1>1, <1>5 DEF OnlyCallers, Held
<1>7. SettledGreeted'
  <2>1. ASSUME NEW k \in DOMAIN callers
        PROVE  /\ callers[k] \in sentTo <=> ~LostOne(k)
               /\ (\E d \in Places : holds'[d] = callers[k]) <=> LostOne(k)
    <3>1. callers[k] \in Visitors
      BY ElementOfSeq, LenProperties DEF GreetTypeOK
    <3>2. CASE k < n
      <4>1. (callers[k] \in sentTo <=> ~LostOne(k)) /\ (Held(callers[k]) <=> LostOne(k))
        BY <3>2 DEF SettledGreeted, Settled
      <4>2. callers[k] # c
        BY <1>2, <3>2 DEF CallersDiffer
      <4>3. holds[csd] # callers[k]
        BY <1>1, <3>1, <4>2 DEF CurrentGreeted
      <4>4. (\E d \in Places : d # csd /\ holds[d] = callers[k]) <=> \E d \in Places : holds[d] = callers[k]
        BY <4>3
      <4> QED
        BY <1>1, <1>5, <3>1, <4>1, <4>4 DEF Held
    <3>3. CASE k = n
      BY <1>1, <1>2, <1>5, <3>1, <3>3 DEF CurrentGreeted, Held
    <3> QED
      BY <1>2, <3>2, <3>3
  <2>2. ASSUME NEW k \in DOMAIN callers
        PROVE  (callers[k] \in sentTo <=> ~LostOne(k))' /\ (Held(callers[k]) <=> LostOne(k))'
    BY <1>1, <2>1 DEF LostOne, Held
  <2> QED
    BY <1>1, <2>2 DEF SettledGreeted
<1>8. ZeroTaken'
  <2>1. callers # <<>>
    BY <1>2, EmptySeq
  <2> QED
    BY <1>1, <2>1 DEF ZeroTaken, GreetTypeOK
<1> QED
  BY <1>1, <1>3, <1>4, <1>6, <1>7, <1>8 DEF CurrentGreeted

LEMMA GreetStep == GreetInv /\ [GreetNext]_greetVars => GreetInv'
<1> SUFFICES ASSUME GreetInv, [GreetNext]_greetVars PROVE GreetInv'
  OBVIOUS
<1>1. ASSUME NEW v \in Visitors, Connect(v) \/ Reader(v) \/ GiveUp(v) PROVE GreetInv'
  BY <1>1, VisitorKeepsGreetInv
<1>2. CASE Greeter
  BY <1>2, OpenKeepsGreetInv, AcceptKeepsGreetInv, GreetKeepsGreetInv, CloseKeepsGreetInv DEF Greeter
<1>3. CASE UNCHANGED greetVars
  <2>1. UNCHANGED <<which, greeter, holds, csd, callers, calling, visit, sentTo>>
    BY <1>3 DEF greetVars, greeterVars
  <2>2. GreetTypeOK' /\ ZeroTaken' /\ (greeter' = "open" => callers' = <<>>)
    BY <2>1 DEF GreetInv, GreetTypeOK, ZeroTaken
  <2>3. CallersDiffer' /\ OnlyCallers'
    BY <2>1, Zenon DEF GreetInv, CallersDiffer, OnlyCallers, Held
  <2>4. SettledGreeted' /\ CurrentGreeted'
    BY <2>1, Zenon DEF GreetInv, SettledGreeted, CurrentGreeted, Held, Settled, LostOne
  <2> QED
    BY <2>2, <2>3, <2>4 DEF GreetInv
<1> QED
  BY <1>1, <1>2, <1>3 DEF GreetNext

LEMMA GreetInvKept == GreetSpec => []GreetInv
BY GreetInitInv, GreetStep, PTL DEF GreetSpec

(* server4 greets everyone on a connection that it closes; server6 does so  *)
(* for everyone but the first, whatever descriptors were free when it       *)
(* started (server6.cpp 72-111).                                            *)
THEOREM FirstOnlyUngreeted == GreetSpec => []OnlyFirstUngreeted
<1>1. GreetInv => OnlyFirstUngreeted
  BY DEF GreetInv, SettledGreeted, Settled, Held, LostOne, OnlyFirstUngreeted
<1> QED
  BY <1>1, GreetInvKept, PTL

-----------------------------------------------------------------------------
(* The streams go round; whose flags asked for nothing; what is under way.  *)
Round(c, n) == (began[c].stream + n * wybor) % Streams
Plain(c) == began[c].flags = "take"
Idle(c) == \A s \in Stream : requests[c][s] = <<>> /\ answers[c][s] = <<>>
OnlyOn(q, s, m) == q[s] = <<m>> /\ \A r \in Stream \ {s} : q[r] = <<>>
NoneOn(q) == \A r \in Stream : q[r] = <<>>

(* What it has heard is right, and no line but the last is unanswered.      *)
HeardInTurn(c) ==
  /\ flags[c] = "take"
  /\ \A n \in DOMAIN heard[c] : heard[c][n] = [line |-> n, stream |-> Round(c, n)]
  /\ typed[c] - Len(heard[c]) \in {0, 1}

(* Before it begins, and while the server is up and it has the next line to *)
(* send, nothing is under way, and it sends on the stream of the last answer.*)
Unbegun(c) ==
  doing[c] = "off" => Plain(c) /\ typed[c] = 0 /\ heard[c] = <<>> /\ Idle(c)
AtLine(c) ==
  doing[c] = "line" /\ echo = "up" =>
    /\ typed[c] = Len(heard[c]) /\ Idle(c)
    /\ typed[c] = 0 => OnStream(c) = began[c].stream
    /\ typed[c] # 0 => ~first[c] /\ stream[c] = Round(c, typed[c])

(* While it waits, its line is in one request, or one answer, or the server *)
(* has stopped.                                                             *)
AtAnswer(c) ==
  doing[c] = "answer" =>
    /\ typed[c] = Len(heard[c]) + 1 /\ ~first[c]
    /\ \/ OnlyOn(requests[c], Round(c, typed[c] - 1), typed[c]) /\ NoneOn(answers[c])
       \/ NoneOn(requests[c]) /\ OnlyOn(answers[c], Round(c, typed[c]), typed[c])
       \/ echo = "stopped" /\ Idle(c)

TalkerInv(c) == Unbegun(c) /\ (Plain(c) => HeardInTurn(c) /\ AtLine(c) /\ AtAnswer(c))
EchoInv == EchoTypeOK /\ \A c \in Talkers : TalkerInv(c)

-----------------------------------------------------------------------------
(* The remainder of a sum that was one less.                                *)
LEMMA RemainderOf ==
  ASSUME NEW S \in Nat \ {0}, NEW q \in Int, NEW r \in 0..(S-1), S * q + r \in Nat
  PROVE  (S * q + r) % S = r
  OBVIOUS
LEMMA NextRemainder ==
  ASSUME NEW S \in Nat \ {0}, NEW x \in Nat
  PROVE  (x + 1) % S = IF (x % S) + 1 < S THEN (x % S) + 1 ELSE 0
<1> DEFINE q == x \div S  r == x % S
<1>1. q \in Int /\ r \in 0..(S - 1)
  OBVIOUS
<1>2. r = x - S * q
  OBVIOUS
<1> HIDE DEF q, r
<1>3. x = S * q + r
  <2>1. S * q \in Int
    BY <1>1
  <2> QED
    BY <1>1, <1>2, <2>1
<1>4. CASE r + 1 < S
  <2>1. x + 1 = S * q + (r + 1) /\ r + 1 \in 0..(S-1)
    BY <1>1, <1>3, <1>4
  <2>2. S * q + (r + 1) \in Nat
    BY <2>1, x + 1 \in Nat
  <2>3. (S * q + (r + 1)) % S = r + 1
    BY <1>1, <2>1, <2>2, RemainderOf
  <2> QED
    BY <1>4, <2>1, <2>3 DEF r
<1>5. CASE ~(r + 1 < S)
  <2>1. S * (q + 1) = S * q + S
    BY <1>1
  <2>2. r = S - 1
    BY <1>1, <1>5
  <2>3. x + 1 = S * (q + 1) + 0
    <3>1. S * q \in Int
      BY <1>1
    <3> QED
      BY <1>1, <1>3, <2>1, <2>2, <3>1
  <2>4. S * (q + 1) + 0 \in Nat
    BY <2>3
  <2>5. q + 1 \in Int /\ 0 \in 0..(S - 1)
    BY <1>1
  <2>6. (S * (q + 1) + 0) % S = 0
    BY <2>4, <2>5, RemainderOf
  <2> QED
    BY <1>5, <2>3, <2>6 DEF r
<1> QED
  BY <1>4, <1>5

(* The server's next stream is the next one of the round.                   *)
LEMMA RoundGoesOn ==
  ASSUME EchoTypeOK, NEW c \in Talkers, NEW n \in Nat
  PROVE  /\ Round(c, n) \in Stream
         /\ NextStream(Round(c, n)) = Round(c, n + 1)
         /\ began[c].stream \in Stream => Round(c, 0) = began[c].stream
<1> DEFINE b == began[c].stream
<1>1. b \in Nat /\ Streams \in Nat \ {0} /\ wybor \in {0, 1}
  BY EchoConstants DEF EchoTypeOK
<1> HIDE DEF b
<1>2. ASSUME NEW x \in Nat PROVE x % Streams \in Stream
  BY <1>1, <1>2 DEF Stream
<1>3. CASE wybor = 0
  <2>1. n * wybor = 0 /\ (n + 1) * wybor = 0
    BY <1>3
  <2>2. Round(c, n) = b % Streams /\ Round(c, n + 1) = b % Streams
    BY <1>1, <2>1 DEF Round, b
  <2> QED
    BY <1>1, <1>2, <1>3, <2>2 DEF NextStream, Round, b, Stream
<1>4. CASE wybor = 1
  <2>1. n * wybor = n /\ (n + 1) * wybor = n + 1
    BY <1>4
  <2>2. Round(c, n) = (b + n) % Streams /\ Round(c, n + 1) = (b + (n + 1)) % Streams
    BY <2>1 DEF Round, b
  <2>3. b + n \in Nat /\ b + (n + 1) = (b + n) + 1
    BY <1>1
  <2>4. Round(c, n + 1) = IF Round(c, n) + 1 < Streams THEN Round(c, n) + 1 ELSE 0
    BY <1>1, <2>2, <2>3, NextRemainder
  <2>5. b \in Stream => Round(c, 0) = b
    BY <1>1, <1>4 DEF Round, b, Stream
  <2> QED
    BY <1>2, <1>4, <2>2, <2>3, <2>4, <2>5 DEF NextStream, b
<1> QED
  BY <1>1, <1>3, <1>4

-----------------------------------------------------------------------------
LEMMA EchoInitInv == EchoInit => EchoInv
<1> SUFFICES ASSUME EchoInit PROVE EchoInv
  OBVIOUS
<1>1. \A S : <<>> \in Seq(S)
  BY EmptySeq
<1>2. EchoTypeOK
  <2>1. Silent \in [Talkers -> [Stream -> Seq(Lines)]]
    BY <1>1 DEF Silent
  <2>2. [c \in Talkers |-> <<>>] \in [Talkers -> Seq([line : Lines, stream : Stream])]
    BY <1>1
  <2> QED
    BY <2>1, <2>2, EchoConstants DEF EchoInit, EchoTypeOK, Flags
<1>3. ASSUME NEW c \in Talkers PROVE TalkerInv(c)
  <2>1. Unbegun(c)
    BY DEF EchoInit, Unbegun, Plain, Idle, Silent
  <2>2. HeardInTurn(c)
    <3>1. heard[c] = <<>> /\ typed[c] = 0 /\ DOMAIN heard[c] = {} /\ Len(heard[c]) = 0
      BY EmptySeq DEF EchoInit
    <3> QED
      BY <3>1 DEF EchoInit, HeardInTurn
  <2> QED
    BY <2>1, <2>2 DEF EchoInit, TalkerInv, AtLine, AtAnswer
<1> QED
  BY <1>2, <1>3 DEF EchoInv

LEMMA EchoStepTypes ==
  ASSUME EchoTypeOK, [EchoNext]_echoVars
  PROVE  EchoTypeOK'
<1> USE EchoConstants
<1>1. ASSUME NEW c \in Talkers, NEW s \in Stream, Echo(c, s) PROVE EchoTypeOK'
  <2>1. requests[c][s] \in Seq(Lines) /\ requests[c][s] # <<>>
    BY <1>1 DEF Echo, EchoTypeOK
  <2>2. Head(requests[c][s]) \in Lines /\ Tail(requests[c][s]) \in Seq(Lines)
    BY <2>1, HeadTailProperties
  <2>3. \A r \in Stream : Append(answers[c][r], Head(requests[c][s])) \in Seq(Lines)
    BY <2>2, AppendProperties DEF EchoTypeOK
  <2>4. requests' \in [Talkers -> [Stream -> Seq(Lines)]]
    BY <1>1, <2>2 DEF Echo, EchoTypeOK
  <2>5. answers' \in [Talkers -> [Stream -> Seq(Lines)]]
    <3>1. CASE UNCHANGED answers
      BY <3>1 DEF EchoTypeOK
    <3>2. CASE answers' = [answers EXCEPT ![c][NextStream(s)] = Append(@, Head(requests[c][s]))] /\ NextStream(s) \in Stream
      BY <3>2, <2>3 DEF EchoTypeOK
    <3> QED
      BY <1>1, <3>1, <3>2 DEF Echo
  <2> QED
    BY <1>1, <2>4, <2>5 DEF Echo, EchoTypeOK, clientEnd
<1>2. ASSUME NEW c \in Talkers, Open(c) PROVE EchoTypeOK'
  <2>1. PICK b \in BOOLEAN : first' = [first EXCEPT ![c] = b]
    BY <1>2 DEF Open
  <2>2. PICK s \in Garbage : stream' = [stream EXCEPT ![c] = s]
    BY <1>2 DEF Open
  <2>3. PICK f \in Flags : flags' = [flags EXCEPT ![c] = f]
    BY <1>2 DEF Open
  <2>4. first' \in [Talkers -> BOOLEAN]
    BY <2>1 DEF EchoTypeOK
  <2>5. stream' \in [Talkers -> 0..Streams] /\ stream'[c] \in 0..Streams
    BY <2>2 DEF EchoTypeOK
  <2>6. flags' \in [Talkers -> Flags] /\ flags'[c] \in Flags
    BY <2>3 DEF EchoTypeOK
  <2>7. began' \in [Talkers -> [stream : 0..Streams, flags : Flags]]
    BY <1>2, <2>5, <2>6 DEF Open, EchoTypeOK
  <2> QED
    BY <1>2, <2>4, <2>5, <2>6, <2>7 DEF Open, EchoTypeOK
<1>3. ASSUME NEW c \in Talkers, Close(c) \/ SendFails(c) \/ HearNothing(c) PROVE EchoTypeOK'
  BY <1>3 DEF Close, SendFails, HearNothing, EchoTypeOK
<1>4. ASSUME NEW c \in Talkers, SendLine(c) PROVE EchoTypeOK'
  <2>1. typed' \in [Talkers -> 0..MaxLines] /\ typed'[c] \in Lines
    BY <1>4 DEF SendLine, EchoTypeOK, Lines
  <2>2. \A r \in Stream : Append(requests[c][r], typed'[c]) \in Seq(Lines)
    BY <2>1, AppendProperties DEF EchoTypeOK
  <2>3. requests' \in [Talkers -> [Stream -> Seq(Lines)]]
    BY <1>4, <2>2 DEF SendLine, EchoTypeOK
  <2> QED
    BY <1>4, <2>1, <2>3 DEF SendLine, EchoTypeOK
<1>5. ASSUME NEW c \in Talkers, Hear(c) PROVE EchoTypeOK'
  <2>1. PICK s \in Stream :
          /\ answers[c][s] # <<>>
          /\ answers' = (IF flags[c] = "peek" THEN answers
                         ELSE [answers EXCEPT ![c][s] = Tail(@)])
          /\ heard' = [heard EXCEPT ![c] = Append(@, [line |-> Head(answers[c][s]), stream |-> s])]
          /\ stream' = [stream EXCEPT ![c] = s]
    BY <1>5 DEF Hear, StreamAfter
  <2>2. Head(answers[c][s]) \in Lines /\ Tail(answers[c][s]) \in Seq(Lines)
    BY <2>1, HeadTailProperties DEF EchoTypeOK
  <2>3. answers' \in [Talkers -> [Stream -> Seq(Lines)]]
    BY <2>1, <2>2 DEF EchoTypeOK
  <2>4. Append(heard[c], [line |-> Head(answers[c][s]), stream |-> s]) \in Seq([line : Lines, stream : Stream])
    BY <2>2, AppendProperties DEF EchoTypeOK
  <2>5. heard' \in [Talkers -> Seq([line : Lines, stream : Stream])]
    BY <2>1, <2>4 DEF EchoTypeOK
  <2>6. stream' \in [Talkers -> 0..Streams]
    BY <2>1 DEF EchoTypeOK, Stream
  <2> QED
    BY <1>5, <2>3, <2>5, <2>6 DEF Hear, EchoTypeOK, Flags
<1>6. CASE UNCHANGED echoVars
  BY <1>6 DEF echoVars, clientEnd, EchoTypeOK
<1> QED
  BY <1>1, <1>2, <1>3, <1>4, <1>5, <1>6 DEF EchoNext, EchoTo, Listen

(* Who does not take part keeps what it has, though the server may stop.    *)
LEMMA OtherTalker ==
  ASSUME NEW e \in Talkers, TalkerInv(e),
         wybor' = wybor, echo' = echo \/ echo' = "stopped",
         requests'[e] = requests[e], answers'[e] = answers[e],
         doing'[e] = doing[e], first'[e] = first[e], stream'[e] = stream[e],
         flags'[e] = flags[e], began'[e] = began[e], typed'[e] = typed[e], heard'[e] = heard[e]
  PROVE  TalkerInv(e)'
<1>1. (Unbegun(e) => Unbegun(e)') /\ (HeardInTurn(e) => HeardInTurn(e)') /\ (Plain(e)' <=> Plain(e))
  BY DEF Unbegun, HeardInTurn, Plain, Idle, Round
<1>2. AtLine(e) => AtLine(e)'
  BY DEF AtLine, Idle, OnStream, Round
<1>3. AtAnswer(e) => AtAnswer(e)'
  BY DEF AtAnswer, Idle, OnlyOn, NoneOn, Round
<1> QED
  BY <1>1, <1>2, <1>3 DEF TalkerInv

LEMMA OpenKeeps ==
  ASSUME EchoInv, NEW c \in Talkers, Open(c)
  PROVE  TalkerInv(c)'
<1>1. /\ typed[c] = 0 /\ heard[c] = <<>> /\ Idle(c)
      /\ UNCHANGED <<wybor, echo, requests, answers, typed, heard>>
  BY DEF Open, EchoInv, TalkerInv, Unbegun
<1>2. /\ doing'[c] = IF echo = "up" THEN "line" ELSE "ended"
      /\ began'[c] = [stream |-> IF first'[c] THEN 0 ELSE stream'[c], flags |-> flags'[c]]
  BY DEF Open, EchoInv, EchoTypeOK
<1>3. DOMAIN heard[c] = {} /\ Len(heard[c]) = 0
  BY <1>1, EmptySeq
<1>4. Plain(c)' => HeardInTurn(c)'
  BY <1>1, <1>2, <1>3 DEF HeardInTurn, Plain
<1>5. AtLine(c)'
  BY <1>1, <1>2, <1>3 DEF AtLine, OnStream, Idle
<1> QED
  BY <1>2, <1>4, <1>5 DEF TalkerInv, Unbegun, AtAnswer

LEMMA EndKeeps ==
  ASSUME EchoInv, NEW c \in Talkers, Close(c) \/ SendFails(c)
  PROVE  TalkerInv(c)'
<1>1. /\ doing'[c] = "ended"
      /\ UNCHANGED <<wybor, flags, began, typed, heard>>
  BY DEF Close, SendFails, EchoInv, EchoTypeOK
<1>2. Plain(c)' => HeardInTurn(c)'
  BY <1>1 DEF EchoInv, TalkerInv, Plain, HeardInTurn, Round
<1> QED
  BY <1>1, <1>2 DEF TalkerInv, Unbegun, AtLine, AtAnswer

LEMMA SendKeeps ==
  ASSUME EchoInv, NEW c \in Talkers, SendLine(c)
  PROVE  TalkerInv(c)'
<1> DEFINE t == typed[c]  s == OnStream(c)
<1>1. /\ doing[c] = "line" /\ echo = "up" /\ s \in Stream /\ t \in Nat /\ t + 1 \in Lines
      /\ typed'[c] = t + 1 /\ doing'[c] = "answer" /\ ~first'[c]
      /\ requests'[c] = [requests[c] EXCEPT ![s] = Append(@, t + 1)]
      /\ UNCHANGED <<wybor, echo, answers, stream, flags, began, heard>>
  BY EchoConstants DEF SendLine, EchoInv, EchoTypeOK, Lines
<1>2. ASSUME Plain(c) PROVE HeardInTurn(c)' /\ AtAnswer(c)'
  <2>1. HeardInTurn(c) /\ t = Len(heard[c]) /\ Idle(c)
    BY <1>1, <1>2 DEF EchoInv, TalkerInv, AtLine
  <2>2. s = Round(c, t)
    <3>1. CASE t = 0
      BY <1>1, <1>2, <3>1, RoundGoesOn DEF EchoInv, TalkerInv, AtLine
    <3>2. CASE t # 0
      BY <1>1, <1>2, <3>2 DEF EchoInv, TalkerInv, AtLine, OnStream
    <3> QED
      BY <3>1, <3>2
  <2> HIDE DEF s, t
  <2>3. requests'[c][s] = <<t + 1>> /\ \A r \in Stream \ {s} : requests'[c][r] = <<>>
    <3>1. requests[c] \in [Stream -> Seq(Lines)]
      BY DEF EchoInv, EchoTypeOK
    <3>2. Append(<<>>, t + 1) = <<t + 1>>
      OBVIOUS
    <3> QED
      BY <1>1, <2>1, <3>1, <3>2 DEF Idle
  <2>4. \A r \in Stream : answers'[c][r] = <<>>
    BY <1>1, <2>1 DEF Idle
  <2>5. (t + 1) - 1 = t
    BY <1>1 DEF t
  <2>6. HeardInTurn(c)'
    BY <1>1, <2>1 DEF HeardInTurn, Round
  <2>7. AtAnswer(c)'
    BY <1>1, <2>1, <2>2, <2>3, <2>4, <2>5 DEF AtAnswer, OnlyOn, NoneOn, Round
  <2> QED
    BY <2>6, <2>7
<1>3. Plain(c)' <=> Plain(c)
  BY <1>1 DEF Plain
<1> QED
  BY <1>1, <1>2, <1>3 DEF TalkerInv, Unbegun, AtLine

LEMMA HearKeeps ==
  ASSUME EchoInv, NEW c \in Talkers, Hear(c)
  PROVE  TalkerInv(c)'
<1> DEFINE t == typed[c]
<1>1. /\ doing[c] = "answer" /\ doing'[c] = "line" /\ flags'[c] = "take" /\ t \in Nat
      /\ UNCHANGED <<wybor, echo, requests, first, began, typed>>
  BY DEF Hear, EchoInv, EchoTypeOK, Flags
<1>2. PICK s \in Stream :
        /\ answers[c][s] # <<>>
        /\ answers' = (IF flags[c] = "peek" THEN answers
                       ELSE [answers EXCEPT ![c][s] = Tail(@)])
        /\ heard' = [heard EXCEPT ![c] = Append(@, [line |-> Head(answers[c][s]), stream |-> s])]
        /\ stream' = [stream EXCEPT ![c] = s]
  BY DEF Hear, StreamAfter
<1>3. ASSUME Plain(c) PROVE HeardInTurn(c)' /\ AtLine(c)'
  <2>1. HeardInTurn(c) /\ AtAnswer(c) /\ flags[c] = "take"
    BY <1>3 DEF EchoInv, TalkerInv, HeardInTurn
  <2>2. /\ NoneOn(requests[c]) /\ OnlyOn(answers[c], Round(c, t), t)
        /\ t = Len(heard[c]) + 1 /\ ~first[c]
    BY <1>1, <1>2, <2>1 DEF AtAnswer, NoneOn, Idle
  <2>3. s = Round(c, t) /\ answers[c][s] = <<t>>
    BY <1>2, <2>2 DEF OnlyOn
  <2>4. Head(answers[c][s]) = t /\ Tail(answers[c][s]) = <<>>
    BY <2>3
  <2>5. answers'[c] = [answers[c] EXCEPT ![s] = <<>>] /\ answers[c] \in [Stream -> Seq(Lines)]
    BY <1>2, <2>1, <2>4 DEF EchoInv, EchoTypeOK
  <2>6. \A r \in Stream : answers'[c][r] = <<>> /\ requests'[c][r] = <<>>
    BY <1>1, <2>2, <2>3, <2>5 DEF OnlyOn, NoneOn
  <2> DEFINE h == [line |-> t, stream |-> s]
  <2>7. heard'[c] = Append(heard[c], h) /\ stream'[c] = s /\ heard[c] \in Seq([line : Lines, stream : Stream])
    BY <1>2, <2>4 DEF EchoInv, EchoTypeOK
  <2>8. h \in [line : Lines, stream : Stream]
    <3>1. t \in Lines
      BY <1>1, <2>2, <2>7, LenProperties DEF EchoInv, EchoTypeOK, Lines
    <3> QED
      BY <3>1
  <2> HIDE DEF t, h
  <2>9. /\ DOMAIN heard[c] = 1 .. t - 1 /\ DOMAIN heard'[c] = 1..t /\ Len(heard'[c]) = t
        /\ \A n \in 1 .. t - 1 : heard'[c][n] = heard[c][n]
        /\ heard'[c][t] = h
    <3>1. Len(heard[c]) = t - 1
      BY <1>1, <2>2, <2>7, LenProperties
    <3>2. heard'[c] \in Seq([line : Lines, stream : Stream])
      BY <2>7, <2>8, AppendProperties
    <3> QED
      BY <1>1, <2>7, <2>8, <3>1, <3>2, AppendProperties, LenProperties
  <2>10. HeardInTurn(c)'
    <3>1. ASSUME NEW n \in DOMAIN heard'[c] PROVE heard'[c][n] = [line |-> n, stream |-> Round(c, n)]
      <4>1. CASE n \in 1 .. t - 1
        BY <2>1, <2>9, <4>1 DEF HeardInTurn
      <4>2. CASE n = t
        BY <2>3, <2>9, <4>2 DEF h
      <4> QED
        BY <1>1, <2>9, <4>1, <4>2
    <3> QED
      BY <1>1, <2>9, <3>1 DEF HeardInTurn, Round, t
  <2>11. AtLine(c)'
    BY <1>1, <2>2, <2>3, <2>6, <2>7, <2>9 DEF AtLine, Idle, Round, t
  <2> QED
    BY <2>10, <2>11
<1>4. Plain(c)' <=> Plain(c)
  BY <1>1 DEF Plain
<1> QED
  BY <1>1, <1>3, <1>4 DEF TalkerInv, Unbegun, AtAnswer

LEMMA HearNothingKeeps ==
  ASSUME EchoInv, NEW c \in Talkers, HearNothing(c)
  PROVE  TalkerInv(c)'
<1>1. /\ doing'[c] = "line" /\ (flags[c] = "hurry" \/ echo = "stopped")
      /\ UNCHANGED <<wybor, echo, requests, answers, first, stream, flags, began, typed, heard>>
  BY DEF HearNothing, EchoInv, EchoTypeOK
<1>2. Plain(c)' => HeardInTurn(c)' /\ echo = "stopped"
  BY <1>1 DEF EchoInv, TalkerInv, Plain, HeardInTurn, Round
<1> QED
  BY <1>1, <1>2 DEF TalkerInv, Unbegun, AtLine, AtAnswer

LEMMA EchoKeeps ==
  ASSUME EchoInv, NEW c \in Talkers, NEW s \in Stream, Echo(c, s)
  PROVE  TalkerInv(c)'
<1> DEFINE t == typed[c]
<1>1. /\ requests[c][s] # <<>> /\ echo = "up" /\ t \in Nat
      /\ requests'[c] = [requests[c] EXCEPT ![s] = Tail(@)]
      /\ requests[c] \in [Stream -> Seq(Lines)] /\ answers[c] \in [Stream -> Seq(Lines)]
      /\ UNCHANGED <<wybor, doing, first, stream, flags, began, typed, heard>>
  BY DEF Echo, EchoInv, EchoTypeOK, clientEnd
<1>2. doing[c] # "off"
  BY <1>1 DEF EchoInv, TalkerInv, Unbegun, Idle
<1>3. ASSUME Plain(c) PROVE HeardInTurn(c)' /\ AtLine(c)' /\ AtAnswer(c)'
  <2>1. HeardInTurn(c) /\ AtAnswer(c) /\ AtLine(c)
    BY <1>3 DEF EchoInv, TalkerInv
  <2>2. doing[c] # "line"
    BY <1>1, <2>1 DEF AtLine, Idle
  <2>3. HeardInTurn(c)'
    BY <1>1, <2>1 DEF HeardInTurn, Round
  <2>4. ASSUME doing[c] = "answer" PROVE AtAnswer(c)'
    <3>1. /\ OnlyOn(requests[c], Round(c, t - 1), t) /\ NoneOn(answers[c])
          /\ t = Len(heard[c]) + 1 /\ ~first[c]
      BY <1>1, <2>1, <2>4 DEF AtAnswer, NoneOn
    <3>2. s = Round(c, t - 1) /\ requests[c][s] = <<t>>
      BY <1>1, <3>1 DEF OnlyOn
    <3>3. Head(requests[c][s]) = t /\ Tail(requests[c][s]) = <<>>
      BY <3>2
    <3>4. \A r \in Stream : requests'[c][r] = <<>>
      BY <1>1, <3>1, <3>2, <3>3 DEF OnlyOn
    <3>5. t - 1 \in Nat /\ (t - 1) + 1 = t
      BY <1>1, <3>1, LenProperties DEF EchoInv, EchoTypeOK
    <3>6. NextStream(s) = Round(c, t) /\ Round(c, t) \in Stream
      BY <1>1, <3>2, <3>5, RoundGoesOn DEF EchoInv
    <3>7. answers' = [answers EXCEPT ![c][NextStream(s)] = Append(@, Head(requests[c][s]))] /\ UNCHANGED echo
      BY <2>4, <3>6 DEF Echo
    <3> HIDE DEF t
    <3>8. answers'[c] = [answers[c] EXCEPT ![Round(c, t)] = Append(@, t)]
      BY <3>3, <3>6, <3>7 DEF EchoInv, EchoTypeOK
    <3>9. answers'[c][Round(c, t)] = <<t>> /\ \A r \in Stream \ {Round(c, t)} : answers'[c][r] = <<>>
      <4>1. Append(<<>>, t) = <<t>>
        OBVIOUS
      <4> QED
        BY <1>1, <3>1, <3>6, <3>8, <4>1 DEF NoneOn
    <3> QED
      BY <1>1, <3>1, <3>4, <3>9 DEF AtAnswer, NoneOn, OnlyOn, Round, t
  <2> QED
    BY <1>1, <2>2, <2>3, <2>4 DEF AtLine, AtAnswer
<1>4. Plain(c)' <=> Plain(c)
  BY <1>1 DEF Plain
<1> QED
  BY <1>1, <1>2, <1>3, <1>4 DEF TalkerInv, Unbegun

LEMMA EchoStep == EchoInv /\ [EchoNext]_echoVars => EchoInv'
<1> SUFFICES ASSUME EchoInv, [EchoNext]_echoVars PROVE EchoInv'
  OBVIOUS
<1>1. EchoTypeOK'
  BY EchoStepTypes DEF EchoInv
<1>2. ASSUME NEW c \in Talkers, NEW e \in Talkers, e # c,
             EchoTo(c) \/ Open(c) \/ Close(c) \/ SendLine(c) \/ SendFails(c) \/ Listen(c)
      PROVE  TalkerInv(e)'
  <2> USE DEF EchoInv, EchoTypeOK
  <2>1. ASSUME NEW s \in Stream, Echo(c, s) PROVE TalkerInv(e)'
    <3>1. /\ requests'[e] = requests[e] /\ answers'[e] = answers[e] /\ wybor' = wybor
          /\ echo' = echo \/ echo' = "stopped"
      BY <1>2, <2>1 DEF Echo, clientEnd
    <3> QED
      BY <2>1, <3>1, OtherTalker DEF Echo, clientEnd
  <2>2. CASE Open(c)
    <3>1. first'[e] = first[e] /\ stream'[e] = stream[e] /\ flags'[e] = flags[e]
      BY <1>2, <2>2 DEF Open
    <3>2. doing'[e] = doing[e] /\ began'[e] = began[e]
      BY <1>2, <2>2 DEF Open
    <3> QED
      BY <2>2, <3>1, <3>2, OtherTalker DEF Open
  <2>3. CASE Close(c) \/ SendFails(c) \/ HearNothing(c)
    <3>1. /\ doing'[e] = doing[e]
          /\ UNCHANGED <<wybor, echo, requests, answers, first, stream, flags, began, typed, heard>>
      BY <1>2, <2>3 DEF Close, SendFails, HearNothing
    <3> QED
      BY <3>1, OtherTalker
  <2>4. CASE SendLine(c)
    <3>1. typed'[e] = typed[e] /\ requests'[e] = requests[e] /\ first'[e] = first[e] /\ doing'[e] = doing[e]
      BY <1>2, <2>4 DEF SendLine
    <3> QED
      BY <2>4, <3>1, OtherTalker DEF SendLine
  <2>5. CASE Hear(c)
    <3>1. answers'[e] = answers[e] /\ heard'[e] = heard[e] /\ stream'[e] = stream[e]
      BY <1>2, <2>5 DEF Hear
    <3>2. flags'[e] = flags[e] /\ doing'[e] = doing[e]
      BY <1>2, <2>5 DEF Hear
    <3> QED
      BY <2>5, <3>1, <3>2, OtherTalker DEF Hear
  <2> QED
    BY <1>2, <2>1, <2>2, <2>3, <2>4, <2>5 DEF EchoTo, Listen
<1>3. ASSUME NEW c \in Talkers,
             EchoTo(c) \/ Open(c) \/ Close(c) \/ SendLine(c) \/ SendFails(c) \/ Listen(c)
      PROVE  TalkerInv(c)'
  BY <1>3, OpenKeeps, EndKeeps, SendKeeps, HearKeeps, HearNothingKeeps, EchoKeeps DEF EchoTo, Listen
<1>4. ASSUME UNCHANGED echoVars, NEW e \in Talkers PROVE TalkerInv(e)'
  BY <1>4, OtherTalker DEF EchoInv, echoVars, clientEnd
<1> QED
  BY <1>1, <1>2, <1>3, <1>4 DEF EchoInv, EchoNext

LEMMA EchoInvKept == EchoSpec => []EchoInv
BY EchoInitInv, EchoStep, PTL DEF EchoSpec

(* Line n of a client is answered by answer n, n steps round the streams,   *)
(* with any number of streams and of clients (server3.c 80-110, client3.c   *)
(* 79-117).                                                                 *)
THEOREM AnsweredInTurn == EchoSpec => []EchoesInTurn
<1>1. EchoInv => EchoesInTurn
  BY DEF EchoInv, TalkerInv, Plain, HeardInTurn, Round, EchoesInTurn
<1> QED
  BY <1>1, EchoInvKept, PTL

-----------------------------------------------------------------------------
(* What the wire holds is what was covered for the address it went to.      *)
Summed(to) == Known[tool] + Port + to
SegmentsInv ==
  /\ RawTypeOK
  /\ does \in {"build", "send"} => results # <<>>
  /\ does = "send" /\ tool = "tcp" => check = Checksum(Covered(Head(results).addr))
  /\ does = "send" /\ tool = "udpv6" => check # 0
  /\ \A s \in wire :
       /\ s.port = Port
       /\ s.check = IF tool = "tcp" THEN Checksum(Summed(s.addr)) ELSE Filled(s.addr)

-----------------------------------------------------------------------------
(* Putting the carries back takes a multiple of Modulus - 1 away.           *)
Carried(n) == (n % Modulus) + (n \div Modulus)
LEMMA CarriedShrinks ==
  ASSUME NEW n \in Nat, n >= Modulus
  PROVE  /\ Carried(n) \in Nat \ {0} /\ Carried(n) < n
         /\ n \div Modulus \in Int /\ n - Carried(n) = (n \div Modulus) * (Modulus - 1)
<1> DEFINE q == n \div Modulus  r == n % Modulus
<1>1. Modulus \in Nat /\ Modulus >= 2
  BY RawConstants
<1>2. q \in Int /\ r \in 0 .. Modulus - 1 /\ r = n - Modulus * q
  BY <1>1
<1> HIDE DEF q, r
<1>3. Modulus * q \in Int /\ Modulus * q > 0
  BY <1>1, <1>2
<1>4. q >= 1
  BY <1>1, <1>2, <1>3
<1>5. q * (Modulus - 1) = Modulus * q - q /\ q * (Modulus - 1) >= 1
  BY <1>1, <1>2, <1>4
<1>6. Carried(n) = r + q
  BY DEF Carried, q, r
<1> QED
  BY <1>1, <1>2, <1>3, <1>4, <1>5, <1>6 DEF q

(* So there is a function that folds as the recursive definition says.      *)
FoldsTo(g, n) == [k \in 0..n |-> IF k < Modulus THEN k ELSE g[Carried(k)]]
LEMMA FoldedExists ==
  ASSUME NEW m \in Nat
  PROVE  \E g : g = FoldsTo(g, m)
<1> DEFINE Bad == {n \in Nat : ~ \E g : g = FoldsTo(g, n)}
<1> SUFFICES ASSUME Bad # {} PROVE FALSE
  OBVIOUS
<1>0. Modulus \in Nat /\ Modulus >= 2
  BY RawConstants
<1>1. PICK n \in Bad : \A l \in Bad : n <= l
  <2>1. Bad \in SUBSET Nat
    OBVIOUS
  <2> HIDE DEF Bad
  <2> QED
    BY <2>1, LeastNumber
<1>2. n # 0
  <2> SUFFICES ASSUME n = 0 PROVE FALSE
    OBVIOUS
  <2> DEFINE g == [k \in 0..0 |-> k]
  <2>1. \A k \in 0..0 : k = 0 /\ k < Modulus
    BY <1>0
  <2>2. g = FoldsTo(g, 0)
    BY <2>1 DEF FoldsTo
  <2> QED
    BY <2>2, <1>1
<1>3. n \in Nat /\ n - 1 \in Nat /\ n - 1 \notin Bad
  <2>1. n \in Nat
    BY <1>1
  <2>2. n - 1 \in Nat /\ n - 1 < n
    BY <2>1, <1>2
  <2> HIDE DEF Bad
  <2> QED
    BY <2>1, <2>2, <1>1
<1>4. PICK g : g = FoldsTo(g, n - 1)
  BY <1>3
<1> DEFINE last == IF n < Modulus THEN n ELSE g[Carried(n)]
           h == [k \in 0..n |-> IF k < n THEN g[k] ELSE last]
<1>5. \A k \in 0 .. n - 1 : g[k] = IF k < Modulus THEN k ELSE g[Carried(k)]
  BY <1>4 DEF FoldsTo
<1>6. \A k \in 0..n : k >= Modulus => Carried(k) \in 0 .. n - 1
  BY <1>3, CarriedShrinks
<1> HIDE DEF Bad
<1>7. \A k \in 0..n : h[k] = IF k < Modulus THEN k ELSE h[Carried(k)]
  <2> SUFFICES ASSUME NEW k \in 0..n PROVE h[k] = IF k < Modulus THEN k ELSE h[Carried(k)]
    OBVIOUS
  <2>1. k >= Modulus => Carried(k) \in 0..n /\ Carried(k) < n /\ h[Carried(k)] = g[Carried(k)]
    BY <1>3, <1>6
  <2>2. CASE k < n
    BY <2>1, <2>2, <1>0, <1>3, <1>5
  <2>3. CASE k = n
    BY <2>1, <2>3, <1>0, <1>3
  <2> QED
    BY <1>3, <2>2, <2>3
<1>8. h = FoldsTo(h, n)
  <2> HIDE DEF last
  <2> QED
    BY <1>7 DEF FoldsTo
<1>9. n \notin Bad
  BY <1>8 DEF Bad
<1> QED
  BY <1>1, <1>9

LEMMA FoldedIs ==
  ASSUME NEW n \in 0 .. 6 * Modulus
  PROVE  EndAround[n] = IF n < Modulus THEN n ELSE EndAround[Carried(n)]
<1> DEFINE N == 6 * Modulus
           f == CHOOSE g : g = [k \in 0..N |-> IF k < Modulus THEN k ELSE g[(k % Modulus) + (k \div Modulus)]]
<1>1. N \in Nat
  BY RawConstants
<1>2. \E g : g = [k \in 0..N |-> IF k < Modulus THEN k ELSE g[(k % Modulus) + (k \div Modulus)]]
  <2> HIDE DEF N
  <2> QED
    BY <1>1, FoldedExists DEF FoldsTo, Carried
<1>3. f = [k \in 0..N |-> IF k < Modulus THEN k ELSE f[(k % Modulus) + (k \div Modulus)]]
  BY <1>2
<1>4. EndAround = f
  BY DEF EndAround
<1> HIDE DEF f
<1> QED
  BY <1>3, <1>4 DEF Carried

(* A sum folds to a word, a multiple of Modulus - 1 away.                   *)
LEMMA FoldedIsWord ==
  ASSUME NEW n \in 0 .. 6 * Modulus
  PROVE  /\ EndAround[n] \in 0 .. Modulus - 1 /\ EndAround[n] <= n
         /\ \E q \in Int : n - EndAround[n] = q * (Modulus - 1)
<1> DEFINE Good(k) == /\ EndAround[k] \in 0 .. Modulus - 1 /\ EndAround[k] <= k
                      /\ \E q \in Int : k - EndAround[k] = q * (Modulus - 1)
           Bad == {k \in 0 .. 6 * Modulus : ~Good(k)}
<1>0. Modulus \in Nat /\ Modulus >= 2 /\ 6 * Modulus \in Nat
  BY RawConstants
<1> SUFFICES ASSUME Bad # {} PROVE FALSE
  OBVIOUS
<1>1. PICK k \in Bad : \A l \in Bad : k <= l
  <2>1. Bad \in SUBSET Nat
    BY <1>0
  <2> HIDE DEF Bad
  <2> QED
    BY <2>1, LeastNumber
<1>2. k \in 0 .. 6 * Modulus /\ k \in Nat /\ ~Good(k)
  BY <1>0, <1>1
<1>3. CASE k < Modulus
  <2>1. EndAround[k] = k
    BY <1>2, <1>3, FoldedIs
  <2>2. k - k = 0 * (Modulus - 1)
    BY <1>0, <1>2
  <2> QED
    BY <1>0, <1>2, <1>3, <2>1, <2>2
<1>4. CASE k >= Modulus
  <2> DEFINE c == Carried(k)  p == k \div Modulus
  <2>1. EndAround[k] = EndAround[c]
    BY <1>0, <1>2, <1>4, FoldedIs
  <2>2. c \in Nat /\ c < k /\ p \in Int /\ k - c = p * (Modulus - 1)
    BY <1>2, <1>4, CarriedShrinks
  <2> HIDE DEF c, p, Good
  <2>3. c \in 0 .. 6 * Modulus /\ c \notin Bad
    <3>1. c \in 0 .. 6 * Modulus
      BY <1>0, <1>2, <2>2
    <3> HIDE DEF Bad
    <3>2. c \notin Bad
      BY <1>1, <1>2, <2>2
    <3> QED
      BY <3>1, <3>2
  <2>4. Good(c)
    BY <2>3
  <2> DEFINE F == EndAround[c]
  <2>5. PICK q \in Int : c - F = q * (Modulus - 1)
    BY <2>4 DEF Good
  <2>6. F \in 0 .. Modulus - 1 /\ F <= c
    BY <2>4 DEF Good
  <2> HIDE DEF F
  <2>7. (p + q) * (Modulus - 1) = p * (Modulus - 1) + q * (Modulus - 1)
    BY <1>0, <2>2, <2>5
  <2>8. k - F = (p + q) * (Modulus - 1) /\ p + q \in Int
    <3>1. p * (Modulus - 1) \in Int /\ q * (Modulus - 1) \in Int
      BY <1>0, <2>2, <2>5
    <3> QED
      BY <1>0, <1>2, <2>2, <2>5, <2>6, <2>7, <3>1
  <2>9. F \in 0 .. Modulus - 1 /\ F <= k /\ \E x \in Int : k - F = x * (Modulus - 1)
    BY <1>2, <2>2, <2>6, <2>8
  <2>10. Good(k)
    BY <2>1, <2>9 DEF Good, F
  <2> QED
    BY <1>2, <2>10
<1> QED
  BY <1>0, <1>2, <1>3, <1>4

(* A positive multiple of Modulus - 1 folds to it.                          *)
LEMMA MultipleFolds ==
  ASSUME NEW n \in 0 .. 6 * Modulus, n > 0, NEW q \in Int, n = q * (Modulus - 1)
  PROVE  EndAround[n] = Modulus - 1
<1> DEFINE F == EndAround[n]
<1>0. Modulus \in Nat /\ Modulus >= 2 /\ 6 * Modulus \in Nat
  BY RawConstants
<1>1. ASSUME NEW k \in 0 .. 6 * Modulus, k > 0 PROVE EndAround[k] > 0
  <2> DEFINE Bad == {l \in 0 .. 6 * Modulus : l > 0 /\ ~(EndAround[l] > 0)}
  <2> SUFFICES ASSUME Bad # {} PROVE FALSE
    BY <1>1
  <2>1. PICK b \in Bad : \A l \in Bad : b <= l
    <3>1. Bad \in SUBSET Nat
      BY <1>0
    <3> HIDE DEF Bad
    <3> QED
      BY <3>1, LeastNumber
  <2>2. b \in 0 .. 6 * Modulus /\ b \in Nat /\ b > 0 /\ ~(EndAround[b] > 0)
    BY <1>0, <2>1
  <2>3. CASE b < Modulus
    BY <1>0, <2>2, <2>3, FoldedIs
  <2>4. CASE b >= Modulus
    <3> DEFINE c == Carried(b)
    <3>1. EndAround[b] = EndAround[c]
      BY <1>0, <2>2, <2>4, FoldedIs
    <3>2. c \in Nat \ {0} /\ c < b
      BY <2>2, <2>4, CarriedShrinks
    <3> HIDE DEF c
    <3>3. c \in 0 .. 6 * Modulus /\ c > 0
      BY <1>0, <2>2, <3>2
    <3>4. c \notin Bad
      <4> HIDE DEF Bad
      <4> QED
        BY <2>1, <2>2, <3>2
    <3> QED
      BY <2>2, <3>1, <3>3, <3>4
  <2> QED
    BY <1>0, <2>2, <2>3, <2>4
<1>2. F \in 0 .. Modulus - 1 /\ F > 0
  BY <1>1, FoldedIsWord
<1>3. PICK p \in Int : n - F = p * (Modulus - 1)
  BY FoldedIsWord
<1> HIDE DEF F
<1>4. (q - p) * (Modulus - 1) = q * (Modulus - 1) - p * (Modulus - 1)
  BY <1>0, <1>3
<1>5. F = (q - p) * (Modulus - 1)
  <2>1. p * (Modulus - 1) \in Int /\ q * (Modulus - 1) \in Int
    BY <1>0, <1>3
  <2> QED
    BY <1>0, <1>2, <1>3, <1>4, <2>1
<1> DEFINE d == q - p
<1>6. d \in Int /\ F = d * (Modulus - 1) /\ F > 0 /\ F <= Modulus - 1
  BY <1>0, <1>2, <1>3, <1>5
<1> HIDE DEF d
<1>7. d >= 1
  BY <1>0, <1>6
<1>8. d <= 1
  <2> SUFFICES ASSUME d >= 2 PROVE FALSE
    BY <1>6
  <2>1. d * (Modulus - 1) >= 2 * (Modulus - 1)
    BY <1>0, <1>6
  <2> QED
    BY <1>0, <1>6, <2>1
<1>9. d = 1
  BY <1>6, <1>7, <1>8
<1> QED
  BY <1>0, <1>6, <1>9 DEF F

(* With its checksum, or with Modulus - 1 where that is zero, a sum folds to*)
(* Modulus - 1.                                                             *)
LEMMA ChecksumCompletes ==
  ASSUME NEW n \in 0 .. 5 * Modulus
  PROVE  /\ Checksum(n) \in 0 .. Modulus - 1
         /\ EndAround[n + Checksum(n)] = Modulus - 1
<1> DEFINE F == EndAround[n]  C == Checksum(n)
<1>0. Modulus \in Nat /\ Modulus >= 2 /\ n \in Nat /\ n \in 0 .. 6 * Modulus
  BY RawConstants
<1>1. F \in 0 .. Modulus - 1 /\ F <= n /\ C = Modulus - 1 - F
  BY <1>0, FoldedIsWord DEF Checksum
<1>2. PICK q \in Int : n - F = q * (Modulus - 1)
  BY <1>0, FoldedIsWord
<1> HIDE DEF F, C
<1>3. C \in 0 .. Modulus - 1
  BY <1>0, <1>1
<1>4. /\ (q + 1) * (Modulus - 1) = q * (Modulus - 1) + (Modulus - 1)
      /\ q * (Modulus - 1) \in Int
  BY <1>0, <1>2
<1>5. n + C = (q + 1) * (Modulus - 1)
  BY <1>0, <1>1, <1>2, <1>4
<1>6. n + C \in 0 .. 6 * Modulus /\ n + C > 0
  BY <1>0, <1>1, <1>3
<1>7. EndAround[n + C] = Modulus - 1
  BY <1>2, <1>5, <1>6, MultipleFolds
<1> QED
  BY <1>3, <1>7 DEF C

-----------------------------------------------------------------------------
LEMMA SumsAreSmall ==
  ASSUME RawTypeOK, NEW to \in Addrs, NEW s \in Senders
  PROVE  Known[s] + Port + to \in 0 .. 5 * Modulus /\ Known[s] + Port \in 0 .. 5 * Modulus
         /\ Port \in 0 .. Modulus - 1
<1>1. Modulus \in Nat /\ Modulus >= 2 /\ to \in 0 .. Modulus - 1 /\ Known[s] \in 0 .. 2 * Modulus
  BY RawConstants
<1>2. Port \in 0 .. Modulus - 1
  BY <1>1 DEF RawTypeOK, Port
<1> QED
  BY <1>1, <1>2

LEMMA RawInitInv == RawInit => SegmentsInv
<1> SUFFICES ASSUME RawInit PROVE SegmentsInv
  OBVIOUS
<1>1. results \in Seq(Results)
  <2>1. PICK n \in 0..MaxResults : results \in [1..n -> Results]
    BY DEF RawInit
  <2>2. n \in Nat
    BY RawConstants
  <2> QED
    BY <2>1, <2>2, IsASeq
<1>2. Modulus \in Nat \ {0, 1}
  BY RawConstants
<1>3. number \in Nat /\ 0 \in 0 .. Modulus - 1
  BY <1>2 DEF RawInit
<1> QED
  BY <1>1, <1>3 DEF RawInit, SegmentsInv, RawTypeOK

LEMMA SegmentsStep == SegmentsInv /\ [RawNext]_rawVars => SegmentsInv'
<1> SUFFICES ASSUME SegmentsInv, [RawNext]_rawVars PROVE SegmentsInv'
  OBVIOUS
<1> USE DEF SegmentsInv
<1>1. results # <<>> => Head(results) \in Results /\ Tail(results) \in Seq(Results) /\ Head(results).addr \in Addrs
  <2>1. results \in Seq(Results)
    BY DEF RawTypeOK
  <2>2. results # <<>> => Head(results) \in Results /\ Tail(results) \in Seq(Results)
    BY <2>1, HeadTailProperties
  <2> QED
    BY <2>2 DEF Results
<1>2. CASE NextAddress
  BY <1>1, <1>2 DEF NextAddress, RawTypeOK, Port, Summed, Filled
<1>3. CASE NoSocketLeft
  BY <1>3 DEF NoSocketLeft, RawTypeOK, Port, Summed, Filled
<1>4. CASE SocketMade
  BY <1>4 DEF SocketMade, RawTypeOK, Port, Summed, Filled
<1>5. CASE BuildTcp
  <2> DEFINE to == Head(results).addr
  <2>1. /\ tool = "tcp" /\ does' = "send" /\ check' = Checksum(Covered(to))
        /\ results # <<>> /\ UNCHANGED <<tool, results, number, wire>>
    BY <1>5 DEF BuildTcp
  <2>2. check' \in 0 .. Modulus - 1
    BY <1>1, <2>1, SumsAreSmall, ChecksumCompletes DEF Covered, Senders
  <2> QED
    BY <2>1, <2>2 DEF RawTypeOK, Covered, Port, Summed, Filled
<1>6. CASE BuildUdp
  <2>1. /\ tool = "udpv6" /\ does' = "send" /\ results # <<>>
        /\ UNCHANGED <<tool, results, number, wire>>
        /\ check' = LET sum == Checksum(Known["udpv6"] + Port) IN IF sum = 0 THEN Modulus - 1 ELSE sum
    BY <1>6 DEF BuildUdp
  <2>2. Checksum(Known["udpv6"] + Port) \in 0 .. Modulus - 1
    BY <1>1, <2>1, SumsAreSmall, ChecksumCompletes DEF Senders
  <2>3. check' \in 0 .. Modulus - 1 /\ check' # 0
    BY <2>1, <2>2, RawConstants
  <2> QED
    BY <2>1, <2>3 DEF RawTypeOK, Port, Summed, Filled
<1>7. CASE SendTcp
  <2> DEFINE s == [port |-> Port, addr |-> Head(results).addr, check |-> check]
  <2>1. /\ tool = "tcp" /\ does = "send" /\ wire' = wire \cup {s} /\ results # <<>>
        /\ UNCHANGED <<tool, results, does, number, check>>
    BY <1>7 DEF SendTcp
  <2>2. s.port = Port /\ s.check = Checksum(Summed(s.addr)) /\ s.addr \in Addrs
    BY <1>1, <2>1 DEF Covered, Summed
  <2>3. s \in [port : 0 .. Modulus - 1, addr : Addrs, check : 0 .. Modulus - 1]
    BY <1>1, <2>1, SumsAreSmall DEF RawTypeOK
  <2> HIDE DEF s
  <2>4. RawTypeOK'
    BY <2>1, <2>3 DEF RawTypeOK
  <2> QED
    BY <2>1, <2>2, <2>4 DEF Port, Summed, Filled, Covered
<1>8. CASE SendUdp
  <2> DEFINE to == Head(results).addr
             s == [port |-> Port, addr |-> to, check |-> Filled(to)]
  <2>1. /\ tool = "udpv6" /\ does = "send" /\ wire' = wire \cup {s} /\ results # <<>>
        /\ UNCHANGED <<tool, results, does, number, check>>
    BY <1>8 DEF SendUdp
  <2>2. s.port = Port /\ s.check = Filled(s.addr) /\ s.addr \in Addrs
    BY <1>1, <2>1
  <2>3. Checksum(Known["udpv6"] + Port + to) \in 0 .. Modulus - 1
    BY <1>1, <2>1, SumsAreSmall, ChecksumCompletes DEF Senders
  <2>4. Filled(to) \in 0 .. Modulus - 1
    BY <2>3, RawConstants DEF Filled
  <2>5. s \in [port : 0 .. Modulus - 1, addr : Addrs, check : 0 .. Modulus - 1]
    BY <1>1, <2>1, <2>4, SumsAreSmall DEF RawTypeOK
  <2> HIDE DEF s
  <2>6. RawTypeOK'
    BY <2>1, <2>5 DEF RawTypeOK
  <2> QED
    BY <2>1, <2>2, <2>6 DEF Port, Summed, Filled, Covered
<1>9. CASE UNCHANGED rawVars
  BY <1>9 DEF rawVars, RawTypeOK, Port, Summed, Filled, Covered
<1> QED
  BY <1>2, <1>3, <1>4, <1>5, <1>6, <1>7, <1>8, <1>9 DEF RawNext

LEMMA SegmentsInvKept == RawSpec => []SegmentsInv
BY RawInitInv, SegmentsStep, PTL DEF RawSpec

(* The words of a TCP segment sum to Modulus - 1 with its checksum, for any *)
(* port, any address and words of any size (tcp.c 139-147), and the sum     *)
(* that udpv6.c hands to the kernel is never 0 (udpv6.c 67-72).             *)
THEOREM SegmentsAreIntact == RawSpec => []SegmentsVerify
<1>1. SegmentsInv => SegmentsVerify
  <2> SUFFICES ASSUME SegmentsInv, tool = "tcp", NEW s \in wire
               PROVE  EndAround[Known[tool] + s.port + s.addr + s.check] = Modulus - 1
    BY DEF SegmentsVerify, SegmentsInv
  <2> DEFINE n == Known[tool] + Port + s.addr
  <2>1. /\ s.port = Port /\ s.addr \in Addrs /\ tool \in Senders
        /\ s.check = Checksum(n)
    BY DEF SegmentsInv, RawTypeOK, Summed
  <2>2. n \in 0 .. 5 * Modulus
    BY <2>1, SumsAreSmall DEF SegmentsInv
  <2>3. Checksum(n) \in 0 .. Modulus - 1 /\ EndAround[n + Checksum(n)] = Modulus - 1
    <3> HIDE DEF n
    <3> QED
      BY <2>2, ChecksumCompletes
  <2>4. Known[tool] + s.port + s.addr + s.check = n + s.check
    BY <2>1
  <2> HIDE DEF n
  <2> QED
    BY <2>1, <2>3, <2>4
<1> QED
  BY <1>1, SegmentsInvKept, PTL
-----------------------------------------------------------------------------
(* Who begins as root by the effective id can do all root can.             *)
RootIsAble == step = "args" /\ euid = 0 => effective = Caps

(* rootserver on a low port came past its test of euid, so setuid sets all *)
(* three ids; leaving root takes the capabilities.                         *)
RootBefore ==
  program = "rootserver" /\ low /\ step \in {"socket", "bind", "drop"}
    => euid = 0 /\ effective = Caps

RootAfter ==
  program = "rootserver" /\ low /\ step \in {"verify", "accept", "serve"}
    => /\ ruid = uid /\ euid = uid /\ suid = uid
       /\ uid # 0 => permitted = {}

CapAfter ==
  program = "capserver" /\ step \in {"free", "verify", "accept", "serve"} => permitted = {}

(* What getresuid reported is still true when it is tested, although       *)
(* capserver asked before it cleared its capabilities.                     *)
SeenIsTrue ==
  /\ step \in {"bind", "drop", "free", "verify", "accept", "serve"}
       => seen.euid = euid /\ seen.suid = suid
  /\ step \in {"accept", "serve"} => ~Refused

PrivInv == RootIsAble /\ RootBefore /\ RootAfter /\ CapAfter /\ SeenIsTrue

LEMMA PrivInitInv == PrivInit => PrivInv
  BY DEF PrivInit, PrivInv, RootIsAble, RootBefore, RootAfter, CapAfter, SeenIsTrue

(* The drop of rootserver, whose setuid has the capability.                *)
LEMMA DropSetsAll ==
  ASSUME PrivInv, RootDrop, low
  PROVE /\ ruid' = uid /\ euid' = uid /\ suid' = uid
        /\ uid # 0 => permitted' = {}
<1>1. program = "rootserver" /\ step = "drop"
  BY DEF RootDrop
<1>2. euid = 0 /\ "setuid" \in effective
  BY <1>1 DEF PrivInv, RootBefore, Caps
<1>3. ruid' = uid /\ euid' = uid /\ suid' = uid
  BY <1>2 DEF RootDrop, SetUid
<1>4. uid # 0 => permitted' = {}
  BY <1>2, <1>3 DEF RootDrop, SetUid
<1> QED
  BY <1>3, <1>4

LEMMA PrivNextInv == PrivInv /\ [PrivNext]_privVars => PrivInv'
<1> SUFFICES ASSUME PrivInv, [PrivNext]_privVars PROVE PrivInv'
  OBVIOUS
<1> USE DEF PrivInv, RootIsAble, RootBefore, RootAfter, CapAfter, SeenIsTrue, Refused
<1>1. CASE Exec
  <2>1. step' = "args" /\ (euid' = 0 => effective' = Caps)
    BY <1>1 DEF Exec
  <2> QED
    BY <2>1
<1>2. CASE RootArgs \/ FileArgs
  BY <1>2 DEF RootArgs, FileArgs, Quit, run, ids, caps
<1>3. CASE CapRaise
  BY <1>3 DEF CapRaise, Quit, run, ids, caps
<1>4. CASE Socket \/ Bind
  BY <1>4 DEF Socket, Bind, Quit, run, ids, caps
<1>5. CASE RootDrop
  <2>1. /\ program' = "rootserver" /\ step' = "verify" /\ low' = low /\ uid' = uid
        /\ seen'.euid = euid' /\ seen'.suid = suid'
    BY <1>5 DEF RootDrop, run
  <2>2. low => /\ ruid' = uid /\ euid' = uid /\ suid' = uid
               /\ uid # 0 => permitted' = {}
    BY <1>5, DropSetsAll
  <2> QED
    BY <2>1, <2>2
<1>6. CASE CapClear \/ CapFree
  BY <1>6 DEF CapClear, CapCleared, CapFree, Quit, run, ids, caps
<1>7. CASE Verify \/ AcceptOne \/ CloseBoth
  BY <1>7 DEF Verify, AcceptOne, CloseBoth, Quit, run, ids, caps
<1>8. CASE UNCHANGED privVars
  BY <1>8 DEF privVars, run, ids, caps
<1> QED
  BY <1>1, <1>2, <1>3, <1>4, <1>5, <1>6, <1>7, <1>8 DEF PrivNext

(* Whoever started them, with whatever argument and whatever rights of the *)
(* file, rootserver on a low port and capserver serve with nothing left to *)
(* go back by (rootserver.c 45-105, capserver.c 45-111).                   *)
THEOREM NothingLeft == PrivSpec => []NoWayBack
<1>1. PrivInv => NoWayBack
  BY DEF PrivInv, RootAfter, CapAfter, SeenIsTrue, Refused, NoWayBack, Serving
<1> QED
  BY <1>1, PrivInitInv, PrivNextInv, PTL DEF PrivSpec

-----------------------------------------------------------------------------
(* Types of the privileged servers, whose rules for ids are the kernel's.   *)
LEMMA PrivInitTypes == PrivInit => PrivTypeOK
  BY RootIsUser DEF PrivInit, PrivTypeOK, Programs, Steps

LEMMA PrivTypesStep == PrivTypeOK /\ [PrivNext]_privVars => PrivTypeOK'
<1> SUFFICES ASSUME PrivTypeOK, [PrivNext]_privVars PROVE PrivTypeOK'
  OBVIOUS
<1> USE DEF PrivTypeOK, Steps
<1>1. CASE Exec
  <2>1. PICK user \in Users, owner \in Users, setuidBit \in BOOLEAN, fileCap \in BOOLEAN, raised \in BOOLEAN :
          /\ ruid' = user
          /\ euid' = (IF setuidBit THEN owner ELSE user) /\ suid' = euid'
          /\ permitted' = (IF 0 \in {ruid', euid'} THEN Caps ELSE IF fileCap THEN {"bind"} ELSE {})
          /\ effective' = (IF euid' = 0 THEN Caps ELSE IF fileCap /\ raised THEN permitted' ELSE {})
    BY <1>1 DEF Exec
  <2>2. ruid' \in Users /\ euid' \in Users /\ suid' \in Users
    BY <2>1
  <2>3. permitted' \subseteq Caps /\ effective' \subseteq permitted'
    BY <2>1 DEF Caps
  <2> QED
    BY <1>1, <2>2, <2>3 DEF Exec
<1>2. CASE RootArgs \/ FileArgs
  BY <1>2 DEF RootArgs, FileArgs, Quit, run, ids, caps
<1>3. CASE CapRaise
  BY <1>3 DEF CapRaise, Quit, MaySet, run, ids, caps
<1>4. CASE Socket \/ Bind
  BY <1>4 DEF Socket, Bind, Quit, run, ids, caps
<1>5. CASE RootDrop
  <2>1. /\ ruid' \in Users /\ euid' \in Users /\ suid' \in Users
        /\ permitted' \subseteq Caps /\ effective' \subseteq permitted'
    BY <1>5 DEF RootDrop, SetUid, run
  <2> QED
    BY <1>5, <2>1 DEF RootDrop, run
<1>6. CASE CapClear \/ CapFree
  BY <1>6 DEF CapClear, CapCleared, CapFree, Quit, run, ids, caps
<1>7. CASE Verify \/ AcceptOne \/ CloseBoth
  BY <1>7 DEF Verify, AcceptOne, CloseBoth, Quit, run, ids, caps
<1>8. CASE UNCHANGED privVars
  BY <1>8 DEF privVars, run, ids, caps
<1> QED
  BY <1>1, <1>2, <1>3, <1>4, <1>5, <1>6, <1>7, <1>8 DEF PrivNext

LEMMA DayInitTypes == DayInit => DayTypeOK
  BY DaytimeConstants DEF DayInit, DayTypeOK, Rounds

LEMMA DayTypesStep == DayTypeOK /\ [DayNext]_dayVars => DayTypeOK'
<1> SUFFICES ASSUME DayTypeOK, [DayNext]_dayVars PROVE DayTypeOK'
  OBVIOUS
<1> USE DEF DayTypeOK, serverEnd, callerEnd
<1>1. Rounds \in Nat
  BY DaytimeConstants DEF Rounds
<1>2. ASSUME NEW c \in Callers, Call(c) PROVE DayTypeOK'
  BY <1>1, <1>2 DEF Call
<1>3. ASSUME NEW c \in Callers, ReadMail(c) PROVE DayTypeOK'
  <2>1. PICK m \in mail[c] :
          /\ shown' = [shown EXCEPT ![c] = @ \cup {m}]
          /\ mail' = [mail EXCEPT ![c] = IF asks[c] = "peek" THEN @ ELSE @ \ {m}]
    BY <1>3 DEF ReadMail
  <2>2. shown' \in [Callers -> SUBSET Messages] /\ mail' \in [Callers -> SUBSET Messages]
    BY <2>1
  <2>3. toRead' \in [Callers -> 0..Rounds]
    BY <1>1, <1>3 DEF ReadMail
  <2> QED
    BY <1>3, <2>2, <2>3 DEF ReadMail
<1>4. ASSUME NEW c \in Callers, ReadNone(c) \/ Leave(c) \/ Cut(c) PROVE DayTypeOK'
  BY <1>1, <1>4 DEF ReadNone, Leave, Cut
<1>5. CASE Daytime
  <2>1. Messages = {"date", "time"}
    BY DEF Messages
  <2> QED
    BY <1>5, <2>1 DEF Daytime, AcceptCall, SendDate, SendTime, SendDay
<1>7. CASE AcceptCallFails
  BY <1>7 DEF AcceptCallFails
<1>6. CASE UNCHANGED dayVars
  BY <1>6 DEF dayVars
<1> QED
  BY <1>2, <1>3, <1>4, <1>5, <1>6, <1>7 DEF DayNext, Caller

LEMMA PingInitTypes == PingInit => PingTypeOK
  BY CountIsNat DEF PingInit, PingTypeOK

LEMMA PingTypesStep == PingTypeOK /\ [PingNext]_pingVars => PingTypeOK'
<1> SUFFICES ASSUME PingTypeOK, [PingNext]_pingVars PROVE PingTypeOK'
  OBVIOUS
<1>1. \A type \in {"request", "reply"}, id \in {"own", "foreign"}, n \in Seqno :
        Packet(type, id, n) \in PingPackets
  BY DEF Packet, PingPackets
<1>2. queue \in Seq(PingPackets) /\ printed \in Seq(PingPackets) /\ under \subseteq PingPackets
  BY DEF PingTypeOK
<1>3. ASSUME pinged' = pinged + 1, MoreToSend PROVE pinged' \in 0..Count /\ pinged' \in Seqno
  BY <1>3, CountIsNat DEF PingTypeOK, MoreToSend, Seqno
<1>4. CASE SendEcho
  BY <1>1, <1>3, <1>4 DEF SendEcho, PingTypeOK
<1>5. CASE SendEchoHere
  <2> DEFINE q == <<Packet("request", "own", pinged'), Packet("reply", "own", pinged')>>
  <2>1. pinged' \in 0..Count /\ pinged' \in Seqno
    BY <1>3, <1>5 DEF SendEchoHere
  <2>2. q \in Seq(PingPackets)
    BY <1>1, <2>1
  <2> HIDE DEF q
  <2>3. queue \o q \in Seq(PingPackets)
    BY <1>2, <2>2, ConcatProperties
  <2> QED
    BY <1>5, <2>1, <2>3 DEF SendEchoHere, PingTypeOK, q
<1>6. CASE Fork \/ SendEchoFails \/ EndSender \/ EndReceiver
  BY <1>6 DEF Fork, SendEchoFails, EndSender, EndReceiver, PingTypeOK
<1>7. ASSUME NEW p \in under, Reach(p) \/ Lose(p) PROVE PingTypeOK'
  BY <1>2, <1>7, AppendProperties DEF Reach, Lose, PingTypeOK
<1>8. CASE Stray
  <2>1. PICK n \in Seqno : queue' = Append(queue, Packet("reply", "foreign", n))
    BY <1>8 DEF Stray
  <2>2. queue' \in Seq(PingPackets)
    BY <1>1, <1>2, <2>1, AppendProperties
  <2> QED
    BY <1>8, <2>2 DEF Stray, PingTypeOK
<1>9. CASE RecvEcho
  <2>1. Head(queue) \in PingPackets /\ Tail(queue) \in Seq(PingPackets)
    BY <1>2, <1>9, HeadTailProperties DEF RecvEcho
  <2>2. printed' \in Seq(PingPackets) /\ queue' \in Seq(PingPackets)
    BY <1>2, <1>9, <2>1, AppendProperties DEF RecvEcho
  <2> QED
    BY <1>9, <2>2 DEF RecvEcho, PingTypeOK
<1>10. CASE UNCHANGED pingVars
  BY <1>10 DEF pingVars, PingTypeOK
<1> QED
  BY <1>4, <1>5, <1>6, <1>7, <1>8, <1>9, <1>10 DEF PingNext

(* All six together, one of which runs.                                     *)
ServicesInv ==
  /\ PrivInv /\ PrivTypeOK
  /\ EchoInv /\ DayTypeOK /\ PingTypeOK /\ GreetInv /\ SegmentsInv

LEMMA ServicesStep == ServicesInv /\ [MCNext]_allVars => ServicesInv'
<1> SUFFICES ASSUME ServicesInv, [MCNext]_allVars PROVE ServicesInv'
  OBVIOUS
<1>1. /\ [PrivNext]_privVars /\ [EchoNext]_echoVars /\ [DayNext]_dayVars
      /\ [PingNext]_pingVars /\ [GreetNext]_greetVars /\ [RawNext]_rawVars
  BY DEF MCNext, allVars
<1> QED
  BY <1>1, PrivNextInv, PrivTypesStep, EchoStep, DayTypesStep, PingTypesStep,
     GreetStep, SegmentsStep DEF ServicesInv

(* Whichever of the services runs, the state of every one is well typed.    *)
THEOREM ServicesAreTyped == MCSpec => []ServicesTypeOK
<1>1. MCInit => ServicesInv
  BY PrivInitInv, PrivInitTypes, EchoInitInv, DayInitTypes, PingInitTypes,
     GreetInitInv, RawInitInv DEF MCInit, ServicesInv
<1>2. ServicesInv => ServicesTypeOK
  BY DEF ServicesInv, ServicesTypeOK, EchoInv, GreetInv, SegmentsInv
<1> QED
  BY <1>1, <1>2, ServicesStep, PTL DEF MCSpec
=============================================================================
