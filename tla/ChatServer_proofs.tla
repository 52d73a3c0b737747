-------------------------- MODULE ChatServer_proofs --------------------------
(* Theorems about the chat server: the vector of clients, the descriptors  *)
(* and the set select filled stay consistent while elements are erased     *)
(* under the walk that visits them; seen from outside, the server is the   *)
(* room of ChatRoom; and no byte outlives the pass that read it.           *)
EXTENDS ChatServer, SequenceTheorems, TLAPS

(* While select and accept run, the vector has no memory past its end.     *)
WholeVector == pc \in {"select", "accept"} => size = Len(slots)

(* The author of the message being sent is still a client.                 *)
AuthorIsClient == pc = "send" => it <= Len(slots) /\ Element \in Clients

IInv ==
  /\ TypeOK
  /\ ReadyAreClients
  /\ VectorMatchesDescriptors
  /\ WholeVector
  /\ AuthorIsClient

-----------------------------------------------------------------------------
(* A sequence defined by its elements is a sequence.                       *)
LEMMA SequenceOfElements ==
  ASSUME NEW S, NEW n \in Nat, NEW s \in [1..n -> S]
  PROVE  s \in Seq(S) /\ Len(s) = n
BY SeqDef

(* The elements of a sequence.                                             *)
LEMMA ElementOfSequence ==
  ASSUME NEW S, NEW s \in Seq(S)
  PROVE  /\ Len(s) \in Nat
         /\ DOMAIN s = 1..Len(s)
         /\ s \in [1..Len(s) -> S]
         /\ \A i \in 1..Len(s) : s[i] \in S
BY LenProperties

(* std::find finds an element of the live part of the vector.              *)
LEMMA PositionOfClient ==
  ASSUME TypeOK, VectorMatchesDescriptors, NEW f \in Clients
  PROVE  Position(f) \in 1..size /\ slots[Position(f)] = f
<1>1. PICK i \in 1..size : slots[i] = f
  BY DEF Clients
<1>2. size \in Nat
  BY ElementOfSequence DEF TypeOK
<1>3. \A j \in 1..(i - 1) : slots[j] # f
  BY <1>1, <1>2, SMT DEF VectorMatchesDescriptors
<1>4. \E k \in 1..size : slots[k] = f /\ \A j \in 1..(k - 1) : slots[j] # f
  BY <1>1, <1>3
<1> QED
  BY <1>4 DEF Position

(* vector::erase keeps the memory, and leaves the other clients live, each *)
(* at one place.                                                           *)
LEMMA EraseKeepsOthers ==
  ASSUME TypeOK, VectorMatchesDescriptors, NEW k \in 1..size
  PROVE  /\ Erased(k) \in Seq(Fd)
         /\ Len(Erased(k)) = Len(slots)
         /\ {Erased(k)[i] : i \in 1..(size - 1)} = Clients \ {slots[k]}
         /\ \A i, j \in 1..(size - 1) : Erased(k)[i] = Erased(k)[j] => i = j
<1> DEFINE e == Erased(k)
<1>1. /\ Len(slots) \in Nat
      /\ size \in Nat /\ size <= Len(slots)
      /\ \A i \in 1..Len(slots) : slots[i] \in Fd
  BY ElementOfSequence DEF TypeOK
<1>2. e \in [1..Len(slots) -> Fd]
  BY <1>1 DEF Erased
<1>3. e \in Seq(Fd) /\ Len(e) = Len(slots)
  BY <1>1, <1>2, SequenceOfElements
<1>4. \A i \in 1..(size - 1) : e[i] = slots[IF k <= i THEN i + 1 ELSE i]
  BY <1>1 DEF Erased
<1>5. \A i, j \in 1..size : slots[i] = slots[j] => i = j
  BY DEF VectorMatchesDescriptors
<1>6. \A i \in 1..(size - 1) :
        (IF k <= i THEN i + 1 ELSE i) \in (1..size) \ {k}
  BY <1>1
<1>7. \A m \in (1..size) \ {k} : \E i \in 1..(size - 1) : m = (IF k <= i THEN i + 1 ELSE i)
  <2> TAKE m \in (1..size) \ {k}
  <2>1. CASE m < k
    <3>1. m \in 1..(size - 1) /\ m = (IF k <= m THEN m + 1 ELSE m)
      BY <1>1, <2>1
    <3> QED
      BY <3>1
  <2>2. CASE m > k
    <3>1. m - 1 \in 1..(size - 1) /\ m = (IF k <= m - 1 THEN (m - 1) + 1 ELSE m - 1)
      BY <1>1, <2>2
    <3> QED
      BY <3>1
  <2> QED
    BY <1>1, <2>1, <2>2
<1>8. {e[i] : i \in 1..(size - 1)} = Clients \ {slots[k]}
  <2>1. ASSUME NEW i \in 1..(size - 1)
        PROVE  e[i] \in Clients \ {slots[k]}
    BY <1>4, <1>5, <1>6 DEF Clients
  <2>2. ASSUME NEW f \in Clients \ {slots[k]}
        PROVE  \E i \in 1..(size - 1) : e[i] = f
    <3>1. PICK m \in 1..size : slots[m] = f
      BY DEF Clients
    <3>2. m # k
      BY <3>1
    <3>3. PICK i \in 1..(size - 1) : m = (IF k <= i THEN i + 1 ELSE i)
      BY <1>7, <3>2
    <3> QED
      BY <1>4, <3>1, <3>3
  <2> QED
    BY <2>1, <2>2
<1>9. ASSUME NEW i \in 1..(size - 1), NEW j \in 1..(size - 1), e[i] = e[j]
      PROVE  i = j
  <2>1. (IF k <= i THEN i + 1 ELSE i) = (IF k <= j THEN j + 1 ELSE j)
    BY <1>4, <1>5, <1>6, <1>9
  <2> QED
    BY <1>1, <2>1
<1> QED
  BY <1>3, <1>8, <1>9

-----------------------------------------------------------------------------
(* The initial state: an empty vector and no open descriptor.              *)
LEMMA InitIInv == Init => IInv
<1> SUFFICES ASSUME Init PROVE IInv
  OBVIOUS
<1> USE ChatConstants DEF Init
<1>1. slots \in Seq(Fd) /\ Len(slots) = 0 /\ outbox \in [Peers -> Seq(Peers \cup {Welcome})]
  BY EmptySeq
<1>2. Clients = {}
  BY DEF Clients
<1>3. TypeOK
  BY <1>1 DEF TypeOK, Phases, Places, Blank
<1>4. ReadyAreClients
  BY DEF ReadyAreClients
<1>5. VectorMatchesDescriptors
  BY <1>2 DEF VectorMatchesDescriptors, Open
<1>6. WholeVector /\ AuthorIsClient
  BY <1>1 DEF WholeVector, AuthorIsClient
<1> QED
  BY <1>3, <1>4, <1>5, <1>6 DEF IInv

(* What a client does leaves the server's variables alone.                 *)
LEMMA PeerActKeepsIInv ==
  ASSUME IInv, NEW p \in Peers, PeerAct(p)
  PROVE  IInv'
<1> USE ChatConstants DEF IInv, TypeOK, peerVars, serverVars
<1>1. UNCHANGED serverVars
  BY DEF PeerAct, Connect, Write, Drain, Hangup
<1>2. phase' \in [Peers -> Phases] /\ queued' \in SUBSET Peers
  <2>1. CASE Connect(p)
    BY <2>1 DEF Connect, Phases
  <2>2. CASE Hangup(p)
    BY <2>2 DEF Hangup, Phases
  <2> QED
    BY <2>1, <2>2 DEF PeerAct, Write, Drain
<1>3. avail' \in [Peers -> 0..MaxAvail]
  <2>1. CASE Write(p)
    <3>1. PICK n \in 1..(MaxAvail - avail[p]) : avail' = [avail EXCEPT ![p] = @ + n]
      BY <2>1 DEF Write
    <3>2. avail[p] + n \in 0..MaxAvail
      BY <3>1
    <3> QED
      BY <3>1, <3>2
  <2> QED
    BY <2>1 DEF PeerAct, Connect, Drain, Hangup
<1>4. outbox' \in [Peers -> Seq(Peers \cup {Welcome})]
  <2>1. CASE Drain(p)
    <3>1. Tail(outbox[p]) \in Seq(Peers \cup {Welcome})
      BY <2>1 DEF Drain
    <3> QED
      BY <2>1, <3>1 DEF Drain
  <2>2. CASE Hangup(p)
    <3>1. <<>> \in Seq(Peers \cup {Welcome})
      BY EmptySeq
    <3> QED
      BY <2>2, <3>1 DEF Hangup
  <2> QED
    BY <2>1, <2>2 DEF PeerAct, Connect, Write
<1>5. TypeOK'
  BY <1>1, <1>2, <1>3, <1>4
<1>6. Clients' = Clients
  BY <1>1 DEF Clients
<1>7. ReadyAreClients' /\ VectorMatchesDescriptors'
  BY <1>1, <1>6 DEF ReadyAreClients, VectorMatchesDescriptors, Open
<1>8. WholeVector' /\ AuthorIsClient'
  BY <1>1, <1>6 DEF WholeVector, AuthorIsClient, Element
<1> QED
  BY <1>5, <1>7, <1>8

(* accept: the lowest free descriptor is not in the vector yet.            *)
LEMMA AcceptKeepsIInv ==
  ASSUME IInv, NEW p \in Peers, NEW d \in Fd, Accept(p, d)
  PROVE  IInv' /\ d \notin Clients /\ Clients' = Clients \cup {d}
<1> USE ChatConstants DEF Accept
<1>1. TypeOK /\ VectorMatchesDescriptors /\ ReadyAreClients /\ size = Len(slots)
  BY DEF IInv, WholeVector
<1>3. conn[d] = NoPeer /\ d \notin Clients
  BY <1>1 DEF LowestFree, FreeFd, VectorMatchesDescriptors, Open
<1>4. /\ size \in Nat /\ Len(slots') = size + 1
      /\ slots' \in Seq(Fd)
      /\ \A i \in 1..size : slots'[i] = slots[i]
      /\ slots'[size + 1] = d
  BY <1>1, <1>3, AppendProperties DEF TypeOK
<1>5. Clients' = Clients \cup {d}
  <2>1. 1..(size + 1) = (1..size) \cup {size + 1}
    BY <1>4
  <2> QED
    BY <1>4, <2>1 DEF Clients
<1>6. TypeOK'
  <2>1. phase' \in [Peers -> Phases] /\ conn' \in [Fd -> Peers \cup {NoPeer}]
    BY <1>1, <1>3 DEF TypeOK, Phases
  <2>2. outbox' \in [Peers -> Seq(Peers \cup {Welcome})]
    <3>1. Append(outbox[p], Welcome) \in Seq(Peers \cup {Welcome})
      BY <1>1, AppendProperties DEF TypeOK
    <3> QED
      BY <1>1, <3>1 DEF TypeOK
  <2>3. slots' \in Seq(Fd) /\ size' \in 0..Len(slots')
    BY <1>4
  <2> QED
    BY <1>1, <2>1, <2>2, <2>3 DEF TypeOK, StartPass, Places
<1>7. VectorMatchesDescriptors'
  <2>1. \A i, j \in 1..(size + 1) : slots'[i] = slots'[j] => i = j
    <3>1. \A i \in 1..size : slots'[i] \in Clients
      BY <1>4 DEF Clients
    <3>2. \A i \in 1..(size + 1) : i \in 1..size \/ i = size + 1
      BY <1>4
    <3> QED
      BY <1>1, <1>3, <1>4, <3>1, <3>2 DEF VectorMatchesDescriptors
  <2>2. \A f \in Fd : Open(f)' <=> f = d \/ Open(f)
    BY <1>1, <1>3 DEF Open, TypeOK
  <2>3. Clients' = {f \in Fd : Open(f)'}
    BY <1>1, <1>3, <1>5, <2>2 DEF VectorMatchesDescriptors
  <2> QED
    BY <2>1, <2>3 DEF VectorMatchesDescriptors
<1>8. ReadyAreClients'
  BY <1>1, <1>5 DEF ReadyAreClients
<1>9. WholeVector' /\ AuthorIsClient'
  BY DEF WholeVector, AuthorIsClient, StartPass
<1> QED
  BY <1>3, <1>5, <1>6, <1>7, <1>8, <1>9 DEF IInv

(* The other steps of the main loop outside the broadcast.                 *)
LEMMA ServerKeepsVector ==
  ASSUME IInv,
         Select \/ NoNewConnection \/ AcceptFails \/ SkipNotReady
  PROVE  IInv'
<1> USE ChatConstants DEF peerVars
<1>1. UNCHANGED <<phase, queued, avail, outbox, conn, slots, size, sendIt, buf, text>>
  BY DEF Select, NoNewConnection, AcceptFails, SkipNotReady, StartPass
<1>2. Clients' = Clients /\ Clients \subseteq Fd
  BY <1>1, ElementOfSequence DEF Clients, IInv, TypeOK
<1>3. ready' \in SUBSET (Fd \cup {Listener}) /\ ReadyAreClients'
  BY <1>1, <1>2 DEF Select, Answer, Watched, Clients, NoNewConnection, AcceptFails, SkipNotReady, IInv, TypeOK, ReadyAreClients
<1>4. pc' \in {"accept", "visit", "exited"} /\ it' \in Nat \ {0}
  BY DEF Select, NoNewConnection, AcceptFails, SkipNotReady, StartPass, Advance, Visiting, IInv, TypeOK
<1>5. TypeOK'
  BY <1>1, <1>3, <1>4 DEF IInv, TypeOK, Places
<1>6. VectorMatchesDescriptors'
  BY <1>1, <1>2 DEF IInv, VectorMatchesDescriptors, Open
<1>7. WholeVector'
  BY <1>1 DEF IInv, WholeVector, Select, NoNewConnection, AcceptFails, SkipNotReady, StartPass, Visiting
<1>8. AuthorIsClient'
  BY <1>4 DEF AuthorIsClient
<1> QED
  BY <1>3, <1>5, <1>6, <1>7, <1>8 DEF IInv

(* The client the walk stops at is one of the vector's, and has a peer.    *)
LEMMA ReadyElementIsClient ==
  ASSUME IInv, Visiting, Element \in ready
  PROVE  Element \in Clients /\ Element \in Fd /\ Speaker \in Peers
<1>1. Element \in Fd
  BY ElementOfSequence DEF IInv, TypeOK, Visiting, Element
<1>2. Element \in Clients
  BY <1>1, ChatConstants DEF IInv, ReadyAreClients
<1> QED
  BY <1>1, <1>2 DEF IInv, TypeOK, VectorMatchesDescriptors, Open, Speaker

(* What operator<< takes from the buffer has an author or is junk.         *)
LEMMA TextsHaveAuthors ==
  ASSUME NEW b \in [1..BufSize -> Peers \cup {Nul}], NEW t \in Texts(b)
  PROVE  t \in SUBSET (Peers \cup {Junk})
<1>1. Printed(b) \subseteq Peers
  <2>1. SUFFICES ASSUME NEW c \in 1..BufSize, \A l \in 1..c : b[l] # Nul
                 PROVE  b[c] \in Peers
    BY DEF Printed
  <2>2. c \in 1..c
    BY ChatConstants
  <2> QED
    BY <2>1, <2>2
<1> QED
  BY <1>1 DEF Texts

(* A read that is not the end of the stream begins a broadcast.            *)
LEMMA ReadKeepsIInv ==
  ASSUME IInv, ReadData \/ ReadError
  PROVE  IInv'
<1> USE ChatConstants
<1>1. Visiting /\ Element \in ready /\ UNCHANGED <<queued, outbox, conn, slots, size, ready, it>>
  BY DEF ReadData, ReadError
<1>2. Element \in Clients /\ Speaker \in Peers
  BY <1>1, ReadyElementIsClient
<1>3. pc' = "send" /\ sendIt' = 1
  BY DEF ReadData, ReadError, Broadcast
<1>4. /\ phase' \in [Peers -> Phases] /\ avail' \in [Peers -> 0..MaxAvail]
      /\ buf' \in [1..BufSize -> Peers \cup {Nul}]
      /\ text' \in SUBSET (Peers \cup {Junk})
  <2>1. CASE ReadData
    <3> DEFINE n == Taken(Speaker)
               b == [c \in 1..BufSize |-> IF c <= n THEN Speaker ELSE buf[c]]
    <3>1. avail[Speaker] - n \in 0..MaxAvail
      BY <1>2 DEF IInv, TypeOK, Taken
    <3>2. avail' = [avail EXCEPT ![Speaker] = @ - n] /\ buf' = b /\ text' \in Texts(b) /\ phase' = phase
      BY <2>1 DEF ReadData, Broadcast
    <3>3. b \in [1..BufSize -> Peers \cup {Nul}]
      BY <1>2 DEF IInv, TypeOK
    <3>4. text' \in SUBSET (Peers \cup {Junk})
      BY <3>2, <3>3, TextsHaveAuthors
    <3> QED
      BY <3>1, <3>2, <3>3, <3>4 DEF IInv, TypeOK
  <2>2. CASE ReadError
    <3>1. text' \in SUBSET (Peers \cup {Junk})
      BY <2>2, TextsHaveAuthors DEF ReadError, Broadcast, IInv, TypeOK
    <3> QED
      BY <2>2, <3>1 DEF ReadError, IInv, TypeOK, Phases
  <2> QED
    BY <2>1, <2>2
<1>5. TypeOK'
  BY <1>1, <1>3, <1>4 DEF IInv, TypeOK, Places
<1>6. Clients' = Clients /\ Element' = Element
  BY <1>1 DEF Clients, Element
<1>7. ReadyAreClients' /\ VectorMatchesDescriptors'
  BY <1>1, <1>6 DEF IInv, ReadyAreClients, VectorMatchesDescriptors, Open
<1>8. WholeVector' /\ AuthorIsClient'
  BY <1>1, <1>2, <1>3, <1>6 DEF WholeVector, AuthorIsClient, Visiting
<1> QED
  BY <1>5, <1>7, <1>8 DEF IInv

(* read returned 0: close, FD_CLR and erase go together.                   *)
LEMMA ReadEofKeepsIInv ==
  ASSUME IInv, ReadEof
  PROVE  IInv' /\ Element \in Fd /\ Clients' = Clients \ {Element}
<1> USE ChatConstants DEF ReadEof
<1>1. TypeOK /\ VectorMatchesDescriptors /\ ReadyAreClients /\ Visiting
  BY DEF IInv
<1>2. Element \in Clients /\ Element \in Fd /\ Speaker \in Peers
  BY ReadyElementIsClient
<1> DEFINE k == Position(Element)
<1>3. k \in 1..size /\ slots[k] = Element
  BY <1>1, <1>2, PositionOfClient
<1>4. size \in 1..Len(slots) /\ Len(slots) \in Nat
  BY <1>1, <1>3, ElementOfSequence DEF TypeOK
<1>5. /\ slots' \in Seq(Fd) /\ Len(slots') = Len(slots)
      /\ {slots'[i] : i \in 1..(size - 1)} = Clients \ {Element}
      /\ \A i, j \in 1..(size - 1) : slots'[i] = slots'[j] => i = j
  <2> HIDE DEF k
  <2>1. slots' = Erased(k)
    BY DEF k
  <2> QED
    BY <1>1, <1>3, <2>1, EraseKeepsOthers
<1>6. Clients' = Clients \ {Element}
  BY <1>5 DEF Clients
<1>7. TypeOK'
  <2>1. phase' \in [Peers -> Phases] /\ conn' \in [Fd -> Peers \cup {NoPeer}]
    BY <1>1, <1>2 DEF TypeOK, Phases
  <2>2. size' \in 0..Len(slots') /\ it' \in Nat \ {0}
    BY <1>1, <1>4, <1>5 DEF TypeOK, Advance
  <2>3. ready' \in SUBSET (Fd \cup {Listener})
    BY <1>1 DEF TypeOK, FdClr
  <2> QED
    BY <1>1, <1>5, <2>1, <2>2, <2>3 DEF TypeOK
<1>8. ReadyAreClients'
  BY <1>1, <1>6 DEF ReadyAreClients, FdClr
<1>9. VectorMatchesDescriptors'
  <2>1. \A f \in Fd : Open(f)' <=> Open(f) /\ f # Element
    BY <1>1, <1>2 DEF Open, TypeOK
  <2>2. Clients' = {f \in Fd : Open(f)'}
    BY <1>1, <1>6, <2>1 DEF VectorMatchesDescriptors
  <2> QED
    BY <1>5, <2>2 DEF VectorMatchesDescriptors
<1>10. WholeVector' /\ AuthorIsClient'
  BY <1>1 DEF WholeVector, AuthorIsClient, Visiting
<1> QED
  BY <1>2, <1>6, <1>7, <1>8, <1>9, <1>10 DEF IInv

(* The broadcast touches what its hearers have been sent, nothing else.    *)
LEMMA SendKeepsIInv ==
  ASSUME IInv, SkipSpeaker \/ SendToOpen \/ SendToLeaver \/ SendToDead \/ EndSend
  PROVE  IInv'
<1> USE ChatConstants DEF peerVars
<1>1. UNCHANGED <<queued, avail, conn, slots, size, ready, buf>> /\ pc = "send"
  BY DEF SkipSpeaker, SendToOpen, SendToLeaver, SendToDead, EndSend, Sending
<1>2. Element \in Clients /\ Clients \subseteq Fd /\ Speaker \in Peers
  <2>1. Element \in Clients /\ Clients \subseteq Fd
    BY <1>1, ElementOfSequence DEF IInv, AuthorIsClient, Clients, TypeOK
  <2> QED
    BY <2>1 DEF IInv, VectorMatchesDescriptors, Open, Speaker, TypeOK
<1>3. Sending => Hearer \in Peers
  <2> SUFFICES ASSUME Sending PROVE Hearer \in Peers
    OBVIOUS
  <2>1. sendIt \in 1..size
    BY ElementOfSequence DEF Sending, IInv, TypeOK
  <2>2. Target \in Clients
    BY <2>1 DEF Target, Clients
  <2> QED
    BY <1>2, <2>2 DEF Hearer, IInv, TypeOK, VectorMatchesDescriptors, Open
<1>4. phase' \in [Peers -> Phases]
  <2>1. CASE SendToLeaver
    <3>1. PICK ph \in {phase[Hearer], "dead"} : phase' = [phase EXCEPT ![Hearer] = ph]
      BY <2>1 DEF SendToLeaver
    <3>2. ph \in Phases
      BY <1>3, <2>1 DEF SendToLeaver, IInv, TypeOK, Phases
    <3> QED
      BY <3>1, <3>2 DEF IInv, TypeOK
  <2> QED
    BY <2>1 DEF SkipSpeaker, SendToOpen, SendToDead, EndSend, IInv, TypeOK
<1>5. outbox' \in [Peers -> Seq(Peers \cup {Welcome})]
  <2>1. CASE SendToOpen
    <3>1. Append(outbox[Hearer], Speaker) \in Seq(Peers \cup {Welcome})
      BY <1>2, <1>3, <2>1, AppendProperties DEF SendToOpen, IInv, TypeOK
    <3> QED
      BY <2>1, <3>1 DEF SendToOpen, IInv, TypeOK
  <2> QED
    BY <2>1 DEF SkipSpeaker, SendToLeaver, SendToDead, EndSend, IInv, TypeOK
<1>6. /\ pc' \in {"send", "visit", "killed"} /\ it' \in Nat \ {0} /\ sendIt' \in Nat \ {0}
      /\ text' \in SUBSET (Peers \cup {Junk})
      /\ pc' = "send" => it' = it
  BY <1>1 DEF SkipSpeaker, SendToOpen, SendToLeaver, SendToDead, EndSend, NextTarget, Advance, IInv, TypeOK
<1>7. TypeOK'
  BY <1>1, <1>4, <1>5, <1>6 DEF IInv, TypeOK, Places
<1>8. Clients' = Clients
  BY <1>1 DEF Clients
<1>9. ReadyAreClients' /\ VectorMatchesDescriptors'
  BY <1>1, <1>8 DEF IInv, ReadyAreClients, VectorMatchesDescriptors, Open
<1>10. WholeVector' /\ AuthorIsClient'
  BY <1>1, <1>6, <1>8 DEF IInv, WholeVector, AuthorIsClient, Element
<1> QED
  BY <1>7, <1>9, <1>10 DEF IInv

(* The end of a pass drops the memory past the end of the vector.          *)
LEMMA EndPassKeepsIInv ==
  ASSUME IInv, EndPass
  PROVE  IInv' /\ Clients' = Clients
<1> USE ChatConstants DEF EndPass, peerVars
<1>1. /\ size \in Nat /\ size <= Len(slots) /\ Len(slots) \in Nat
      /\ \A i \in 1..Len(slots) : slots[i] \in Fd
  BY ElementOfSequence DEF IInv, TypeOK
<1>2. slots' \in [1..size -> Fd]
  BY <1>1
<1>3. slots' \in Seq(Fd) /\ Len(slots') = size
  BY <1>1, <1>2, SequenceOfElements
<1>4. \A i \in 1..size : slots'[i] = slots[i]
  BY <1>1
<1>5. Clients' = Clients
  BY <1>4 DEF Clients
<1>6. TypeOK'
  BY <1>1, <1>3 DEF IInv, TypeOK, Blank, FreshBuffer, Places
<1>7. ReadyAreClients'
  BY DEF ReadyAreClients
<1>8. VectorMatchesDescriptors'
  BY <1>4, <1>5 DEF IInv, VectorMatchesDescriptors, Open
<1>9. WholeVector' /\ AuthorIsClient'
  BY <1>3 DEF WholeVector, AuthorIsClient
<1> QED
  BY <1>5, <1>6, <1>7, <1>8, <1>9 DEF IInv

(* Every step keeps the inductive invariant.                               *)
LEMMA NextKeepsIInv == IInv /\ [Next]_vars => IInv'
<1> SUFFICES ASSUME IInv, [Next]_vars PROVE IInv'
  OBVIOUS
<1>1. CASE UNCHANGED vars
  BY <1>1 DEF vars, IInv, TypeOK, ReadyAreClients, VectorMatchesDescriptors, WholeVector,
              AuthorIsClient, Clients, Open, Element
<1>2. CASE \E p \in Peers : PeerAct(p)
  BY <1>2, PeerActKeepsIInv
<1>3. CASE \E p \in Peers, f \in Fd : Accept(p, f)
  BY <1>3, AcceptKeepsIInv
<1>4. CASE Select \/ NoNewConnection \/ AcceptFails \/ SkipNotReady
  BY <1>4, ServerKeepsVector
<1>5. CASE ReadData \/ ReadError
  BY <1>5, ReadKeepsIInv
<1>6. CASE ReadEof
  BY <1>6, ReadEofKeepsIInv
<1>7. CASE SkipSpeaker \/ SendToOpen \/ SendToLeaver \/ SendToDead \/ EndSend
  BY <1>7, SendKeepsIInv
<1>8. CASE EndPass
  BY <1>8, EndPassKeepsIInv
<1> QED
  BY <1>1, <1>2, <1>3, <1>4, <1>5, <1>6, <1>7, <1>8 DEF Next, Server

(* Type correctness, for any set of clients and any bounds.                *)
THEOREM TypeCorrect == Spec => []TypeOK
<1>1. IInv => TypeOK
  BY DEF IInv
<1> QED
  BY <1>1, InitIInv, NextKeepsIInv, PTL DEF Spec

(* The walk over a vector being erased only ever takes a live, open client *)
(* for ready (line 64), so find (line 73) always finds it.                 *)
THEOREM ReadyClients == Spec => []ReadyAreClients
<1>1. IInv => ReadyAreClients
  BY DEF IInv
<1> QED
  BY <1>1, InitIInv, NextKeepsIInv, PTL DEF Spec

(* The vector and the descriptor table never diverge (lines 49, 71, 73).   *)
THEOREM VectorAndDescriptors == Spec => []VectorMatchesDescriptors
<1>1. IInv => VectorMatchesDescriptors
  BY DEF IInv
<1> QED
  BY <1>1, InitIInv, NextKeepsIInv, PTL DEF Spec

(* A client leaves the room only by the step that read the end of its      *)
(* stream, so nothing it sent is lost by the walk (lines 66-74).           *)
THEOREM LeaversOnly == Spec => OnlyLeaversDropped
<1> DEFINE Kept == \A p \in Members : p \in Members' \/ (phase[p] # "open" /\ avail[p] = 0)
<1>1. ASSUME IInv, [Next]_vars
      PROVE  Kept
  <2>1. CASE UNCHANGED <<conn, slots, size>>
    <3>1. Members' = Members
      BY <2>1 DEF Members, Clients
    <3> QED
      BY <3>1
  <2>2. ASSUME NEW q \in Peers, NEW d \in Fd, Accept(q, d)
        PROVE  Kept
    <3>1. d \notin Clients /\ Clients' = Clients \cup {d}
      BY <1>1, <2>2, AcceptKeepsIInv
    <3>2. \A f \in Clients : conn'[f] = conn[f]
      BY <1>1, <2>2, <3>1 DEF Accept, IInv, TypeOK, VectorMatchesDescriptors
    <3> QED
      BY <3>1, <3>2 DEF Members
  <2>3. CASE ReadEof
    <3>1. Element \in Fd /\ Clients' = Clients \ {Element}
      BY <1>1, <2>3, ReadEofKeepsIInv
    <3>2. \A f \in Clients \ {Element} : conn'[f] = conn[f]
      BY <1>1, <2>3, <3>1 DEF ReadEof, IInv, TypeOK, VectorMatchesDescriptors
    <3>3. phase[Speaker] # "open" /\ avail[Speaker] = 0
      BY <2>3 DEF ReadEof, ReadZero
    <3> QED
      BY <3>1, <3>2, <3>3 DEF Members, Speaker
  <2>4. CASE EndPass
    <3>1. Clients' = Clients /\ conn' = conn
      BY <1>1, <2>4, EndPassKeepsIInv DEF EndPass
    <3> QED
      BY <3>1 DEF Members
  <2>5. CASE \E p \in Peers : PeerAct(p)
    BY <2>1, <2>5 DEF PeerAct, Connect, Write, Drain, Hangup, serverVars
  <2>6. CASE Server
    BY <2>1, <2>2, <2>3, <2>4, <2>6 DEF Server, Select, NoNewConnection, AcceptFails, SkipNotReady,
       ReadData, ReadError, SkipSpeaker, SendToOpen, SendToLeaver, SendToDead, EndSend
  <2> QED
    BY <1>1, <2>1, <2>5, <2>6 DEF Next, vars
<1>2. IInv /\ [Next]_vars => [Kept]_vars
  BY <1>1
<1> QED
  BY <1>2, InitIInv, NextKeepsIInv, PTL DEF Spec, OnlyLeaversDropped

-----------------------------------------------------------------------------
(* A peer has at most one descriptor, and none while it waits for accept;  *)
(* only a peer without a connection is idle.                               *)
OnePeerEach ==
  /\ \A f, g \in Fd : Open(f) /\ conn[f] = conn[g] => f = g
  /\ \A f \in Fd : Open(f) => phase[conn[f]] # "idle"
  /\ \A p \in queued : phase[p] # "idle" /\ \A f \in Fd : conn[f] # p

SendInside == pc = "send" => sendIt <= size + 1

RoomInv == IInv /\ OnePeerEach /\ SendInside

(* The clients' peers while a message is sent, by their place.             *)
LEMMA PlacesAndPeers ==
  ASSUME RoomInv
  PROVE  /\ size \in Nat
         /\ \A i \in 1..size : slots[i] \in Clients /\ slots[i] \in Fd /\ conn[slots[i]] \in Peers
         /\ \A i, j \in 1..size : conn[slots[i]] = conn[slots[j]] => i = j
         /\ pc = "send" => Element \in Clients /\ Speaker \in Members /\ Speaker \in Peers
         /\ Members = {conn[slots[i]] : i \in 1..size}
<1>1. size \in Nat /\ Clients = {slots[i] : i \in 1..size}
  BY ElementOfSequence DEF RoomInv, IInv, TypeOK, Clients
<1>2. Clients = {f \in Fd : conn[f] # NoPeer} /\ conn \in [Fd -> Peers \cup {NoPeer}]
  BY DEF RoomInv, IInv, VectorMatchesDescriptors, Open, TypeOK
<1>3. \A i \in 1..size : slots[i] \in Clients /\ slots[i] \in Fd /\ conn[slots[i]] \in Peers
  BY <1>1, <1>2
<1>4. \A i, j \in 1..size : slots[i] = slots[j] => i = j
  BY DEF RoomInv, IInv, VectorMatchesDescriptors
<1>5. \A i, j \in 1..size : conn[slots[i]] = conn[slots[j]] => i = j
  BY <1>2, <1>3, <1>4 DEF RoomInv, OnePeerEach, Open
<1>6. pc = "send" => Element \in Clients /\ Speaker \in Members /\ Speaker \in Peers
  BY <1>2 DEF RoomInv, IInv, AuthorIsClient, Speaker, Members
<1>7. Members = {conn[slots[i]] : i \in 1..size}
  BY <1>1 DEF Members
<1> QED
  BY <1>1, <1>3, <1>5, <1>6, <1>7

(* Nobody is connected at first.                                           *)
LEMMA InitRoomInv == Init => RoomInv
BY InitIInv, ChatConstants DEF Init, RoomInv, OnePeerEach, SendInside, Open

(* Steps that open and close no descriptor and leave idle peers idle.      *)
LEMMA QuietKeepsOnePeerEach ==
  ASSUME OnePeerEach, conn' = conn, queued' = queued,
         \A p \in Peers : phase'[p] = phase[p] \/ phase'[p] # "idle",
         queued \in SUBSET Peers, conn \in [Fd -> Peers \cup {NoPeer}]
  PROVE  OnePeerEach'
BY DEF OnePeerEach, Open

(* accept gives a descriptor to a waiting peer, the end of a stream takes  *)
(* it away, and nothing else changes one.                                  *)
LEMMA ServerKeepsOnePeerEach ==
  ASSUME RoomInv, Server
  PROVE  OnePeerEach' /\ SendInside'
<1> USE ChatConstants DEF peerVars
<1>1. /\ queued \in SUBSET Peers /\ conn \in [Fd -> Peers \cup {NoPeer}]
      /\ phase \in [Peers -> Phases] /\ size \in Nat /\ OnePeerEach
  BY ElementOfSequence DEF RoomInv, IInv, TypeOK
<1>2. CASE Select \/ NoNewConnection \/ AcceptFails \/ SkipNotReady \/ EndPass
  <2>1. conn' = conn /\ queued' = queued /\ phase' = phase /\ pc' # "send"
    BY <1>2 DEF Select, NoNewConnection, AcceptFails, SkipNotReady, EndPass, StartPass, Visiting
  <2> QED
    BY <1>1, <2>1, QuietKeepsOnePeerEach DEF SendInside
<1>3. ASSUME NEW p \in Peers, NEW f \in Fd, Accept(p, f)
      PROVE  OnePeerEach' /\ SendInside'
  <2>1. /\ p \in queued /\ queued' = queued \ {p} /\ conn[f] = NoPeer
        /\ conn' = [conn EXCEPT ![f] = p] /\ pc' # "send"
    BY <1>3 DEF Accept, LowestFree, FreeFd, Open, StartPass
  <2>2. \A q \in Peers : phase'[q] = phase[q] \/ phase'[q] # "idle"
    BY <1>1, <1>3 DEF Accept
  <2>3. phase[p] # "idle" /\ \A g \in Fd : conn[g] # p
    BY <1>1, <2>1 DEF OnePeerEach
  <2> QED
    BY <1>1, <2>1, <2>2, <2>3 DEF OnePeerEach, Open, SendInside
<1>4. CASE ReadData \/ ReadError
  <2>1. conn' = conn /\ queued' = queued /\ sendIt' = 1 /\ size' = size
    BY <1>4 DEF ReadData, ReadError, Broadcast
  <2>2. \A p \in Peers : phase'[p] = phase[p] \/ phase'[p] # "idle"
    BY <1>1, <1>4 DEF ReadData, ReadError
  <2> QED
    BY <1>1, <2>1, <2>2, QuietKeepsOnePeerEach DEF SendInside
<1>5. CASE ReadEof
  <2>1. Element \in Fd /\ Speaker \in Peers
    BY <1>5, ReadyElementIsClient DEF ReadEof, RoomInv
  <2>2. /\ conn' = [conn EXCEPT ![Element] = NoPeer] /\ queued' = queued
        /\ phase' = [phase EXCEPT ![Speaker] = "idle"] /\ pc' # "send"
    BY <1>5 DEF ReadEof, Visiting
  <2>3. \A f \in Fd \ {Element} : Open(f) => conn[f] # Speaker
    BY <1>1, <2>1 DEF OnePeerEach, Speaker, Open
  <2> QED
    BY <1>1, <2>1, <2>2, <2>3 DEF OnePeerEach, Open, SendInside, Speaker
<1>6. CASE SkipSpeaker \/ SendToOpen \/ SendToLeaver \/ SendToDead \/ EndSend
  <2>1. conn' = conn /\ queued' = queued
    BY <1>6 DEF SkipSpeaker, SendToOpen, SendToLeaver, SendToDead, EndSend
  <2>2. \A p \in Peers : phase'[p] = phase[p] \/ phase'[p] # "idle"
    <3>1. CASE SendToLeaver
      BY <1>1, <3>1 DEF SendToLeaver
    <3> QED
      BY <1>6, <3>1 DEF SkipSpeaker, SendToOpen, SendToDead, EndSend
  <2>3. SendInside'
    BY <1>1, <1>6 DEF SendInside, SkipSpeaker, SendToOpen, SendToLeaver, SendToDead, EndSend, Sending, NextTarget, RoomInv, IInv, TypeOK
  <2> QED
    BY <1>1, <2>1, <2>2, <2>3, QuietKeepsOnePeerEach
<1> QED
  BY <1>2, <1>3, <1>4, <1>5, <1>6 DEF Server

(* Every step keeps one descriptor to a peer.                              *)
LEMMA NextKeepsRoomInv == RoomInv /\ [Next]_vars => RoomInv'
<1> SUFFICES ASSUME RoomInv, [Next]_vars PROVE RoomInv'
  OBVIOUS
<1>1. IInv'
  BY NextKeepsIInv DEF RoomInv
<1>2. CASE Server
  BY <1>1, <1>2, ServerKeepsOnePeerEach DEF RoomInv
<1>3. ASSUME NEW p \in Peers, PeerAct(p)
      PROVE  RoomInv'
  <2>1. SendInside'
    BY <1>3 DEF PeerAct, Connect, Write, Drain, Hangup, serverVars, RoomInv, SendInside
  <2>2. /\ queued \in SUBSET Peers /\ conn \in [Fd -> Peers \cup {NoPeer}]
        /\ phase \in [Peers -> Phases] /\ OnePeerEach /\ conn' = conn
    BY <1>3 DEF RoomInv, IInv, TypeOK, PeerAct, Connect, Write, Drain, Hangup, serverVars
  <2>3. CASE Connect(p)
    <3>1. \A f \in Fd : conn[f] # p
      BY <2>2, <2>3, ChatConstants DEF Connect, OnePeerEach, Open
    <3> QED
      BY <1>1, <2>1, <2>2, <2>3, <3>1, ChatConstants DEF Connect, OnePeerEach, Open, RoomInv
  <2>4. CASE Write(p) \/ Drain(p) \/ Hangup(p)
    <3>1. queued' = queued /\ \A q \in Peers : phase'[q] = phase[q] \/ phase'[q] # "idle"
      BY <2>2, <2>4 DEF Write, Drain, Hangup
    <3> QED
      BY <1>1, <2>1, <2>2, <3>1, QuietKeepsOnePeerEach DEF RoomInv
  <2> QED
    BY <1>3, <2>3, <2>4 DEF PeerAct
<1>4. CASE UNCHANGED vars
  BY <1>1, <1>4 DEF vars, RoomInv, OnePeerEach, SendInside, Open
<1> QED
  BY <1>2, <1>3, <1>4 DEF Next
-----------------------------------------------------------------------------
(* The variables of the room, and the steps of ChatRoom they take.         *)
RoomLine == [p \in Peers |-> Line(p)]
RoomSpeaker == IF pc = "send" THEN Speaker ELSE NoPeer
RoomTodo == IF pc = "send" THEN {conn[slots[i]] : i \in sendIt..size} \ {Speaker} ELSE {}

(* A step that changes none of the room's variables is a stutter.          *)
LEMMA RoomUnchanged ==
  ASSUME Running' = Running, RoomLine' = RoomLine, Members' = Members, outbox' = outbox,
         RoomSpeaker' = RoomSpeaker, RoomTodo' = RoomTodo
  PROVE  UNCHANGED Room!roomVars
BY DEF Room!roomVars, RoomLine, RoomSpeaker, RoomTodo

(* An empty room.                                                          *)
LEMMA InitIsRoom == Init => Room!Init
<1> SUFFICES ASSUME Init PROVE Room!Init
  OBVIOUS
<1>1. Members = {} /\ Running
  BY DEF Init, Members, Clients, Running
<1>2. \A p \in Peers : Line(p) = "down"
  BY DEF Init, Line
<1> QED
  BY <1>1, <1>2 DEF Init, Room!Init

(* What the peers do is what the room's peers do.                          *)
LEMMA PeersAreRoom ==
  ASSUME RoomInv, NEW p \in Peers, PeerAct(p)
  PROVE  Room!Next \/ UNCHANGED Room!roomVars
<1>1. /\ UNCHANGED <<conn, slots, size, pc, it, sendIt>> /\ Running /\ Running'
      /\ phase \in [Peers -> Phases]
  BY DEF PeerAct, Connect, Write, Drain, Hangup, serverVars, Running, RoomInv, IInv, TypeOK
<1>2. Members' = Members /\ RoomSpeaker' = RoomSpeaker /\ RoomTodo' = RoomTodo
  BY <1>1 DEF Members, Clients, RoomSpeaker, RoomTodo, Speaker, Element
<1>3. CASE Connect(p)
  <2>1. RoomLine' = [RoomLine EXCEPT ![p] = "up"] /\ RoomLine[p] = "down"
    BY <1>1, <1>3 DEF Connect, RoomLine, Line
  <2>2. Room!Call(p)
    BY <1>1, <1>2, <1>3, <2>1 DEF Connect, Room!Call, RoomLine, RoomSpeaker, RoomTodo
  <2> QED
    BY <2>2 DEF Room!Next
<1>4. CASE Write(p)
  <2>1. RoomLine' = RoomLine /\ outbox' = outbox
    BY <1>4 DEF Write, RoomLine, Line
  <2> QED
    BY <1>1, <1>2, <2>1, RoomUnchanged
<1>5. CASE Drain(p)
  <2>1. RoomLine' = RoomLine
    BY <1>5 DEF Drain, RoomLine, Line
  <2>2. Room!Hear(p)
    BY <1>1, <1>2, <1>5, <2>1 DEF Drain, Room!Hear, RoomLine, RoomSpeaker, RoomTodo
  <2> QED
    BY <2>2 DEF Room!Next
<1>6. CASE Hangup(p)
  <2>1. RoomLine' = [RoomLine EXCEPT ![p] = "lost"] /\ RoomLine[p] = "up"
    BY <1>1, <1>6 DEF Hangup, RoomLine, Line
  <2>2. Room!Lose(p)
    BY <1>1, <1>2, <1>6, <2>1 DEF Hangup, Room!Lose, RoomLine, RoomSpeaker, RoomTodo
  <2> QED
    BY <2>2 DEF Room!Next
<1> QED
  BY <1>3, <1>4, <1>5, <1>6 DEF PeerAct

(* Joining, and the steps of main the room does not see.                   *)
LEMMA MainIsRoom ==
  ASSUME RoomInv,
         \/ Select \/ NoNewConnection \/ AcceptFails \/ SkipNotReady \/ EndPass
         \/ \E p \in Peers, f \in Fd : Accept(p, f)
  PROVE  Room!Next \/ UNCHANGED Room!roomVars
<1>1. CASE Select \/ NoNewConnection \/ SkipNotReady \/ EndPass
  <2>1. Members' = Members
    <3>1. CASE EndPass
      BY <3>1, EndPassKeepsIInv DEF RoomInv, Members, EndPass
    <3> QED
      BY <1>1, <3>1 DEF Select, NoNewConnection, SkipNotReady, Members, Clients
  <2>2. /\ Running /\ Running' /\ pc # "send" /\ pc' # "send"
        /\ UNCHANGED <<phase, outbox>>
    BY <1>1 DEF Select, NoNewConnection, SkipNotReady, EndPass, StartPass, Visiting, Running, peerVars
  <2>3. RoomLine' = RoomLine
    BY <2>2 DEF RoomLine, Line
  <2> QED
    BY <2>1, <2>2, <2>3, RoomUnchanged DEF RoomSpeaker, RoomTodo
<1>2. CASE AcceptFails
  <2>1. /\ Running /\ ~Running' /\ pc # "send" /\ pc' # "send"
        /\ UNCHANGED <<phase, outbox, conn, slots, size>>
    BY <1>2 DEF AcceptFails, Running, peerVars
  <2>2. RoomLine' = RoomLine /\ Members' = Members
    BY <2>1 DEF RoomLine, Line, Members, Clients
  <2>3. Room!Halt
    BY <2>1, <2>2 DEF Room!Halt, RoomLine
  <2> QED
    BY <2>3 DEF Room!Next
<1>3. ASSUME NEW p \in Peers, NEW f \in Fd, Accept(p, f)
      PROVE  Room!Next
  <2>1. f \notin Clients /\ Clients' = Clients \cup {f}
    BY <1>3, AcceptKeepsIInv DEF RoomInv
  <2>2. /\ Running /\ Running' /\ pc # "send" /\ pc' # "send" /\ p \in queued
        /\ conn' = [conn EXCEPT ![f] = p]
        /\ conn \in [Fd -> Peers \cup {NoPeer}] /\ phase \in [Peers -> Phases]
        /\ Clients \subseteq Fd
    BY <1>3 DEF Accept, StartPass, Running, RoomInv, IInv, TypeOK, VectorMatchesDescriptors
  <2>3. p \notin Members /\ phase[p] # "idle"
    BY <2>2 DEF RoomInv, OnePeerEach, Members
  <2>4. Members' = Members \cup {p}
    BY <2>1, <2>2 DEF Members
  <2>5. RoomLine' = RoomLine
    <3>1. \A q \in Peers : Line(q)' = Line(q)
      BY <1>3, <2>2, <2>3 DEF Accept, Line, Phases
    <3> QED
      BY <3>1 DEF RoomLine
  <2>6. outbox' = IF RoomLine[p] = "up" THEN [outbox EXCEPT ![p] = Append(@, Welcome)] ELSE outbox
    BY <1>3, <2>3 DEF Accept, RoomLine, Line
  <2>7. Room!Join(p)
    BY <2>2, <2>3, <2>4, <2>5, <2>6 DEF Room!Join, Room!Quiet, Room!Put, RoomLine, Line
  <2> QED
    BY <2>7 DEF Room!Next
<1> QED
  BY <1>1, <1>2, <1>3

(* A read is a member's message, or the end of its membership.             *)
LEMMA ReadsAreRoom ==
  ASSUME RoomInv, ReadData \/ ReadError \/ ReadEof
  PROVE  Room!Next
<1>1. Visiting /\ Element \in ready /\ Running /\ pc # "send"
  BY DEF ReadData, ReadError, ReadEof, Visiting, Running
<1>2. Element \in Clients /\ Element \in Fd /\ Speaker \in Peers /\ Speaker \in Members
  BY <1>1, ReadyElementIsClient DEF RoomInv, Members, Speaker
<1>3. phase \in [Peers -> Phases] /\ conn \in [Fd -> Peers \cup {NoPeer}]
      /\ phase[Speaker] # "idle" /\ NoPeer \notin Peers
  BY <1>2, ChatConstants DEF RoomInv, IInv, TypeOK, OnePeerEach, Open, Speaker
<1>4. CASE ReadData \/ ReadError
  <2>1. /\ pc' = "send" /\ Running' /\ sendIt' = 1
        /\ UNCHANGED <<outbox, conn, slots, size, it>>
    BY <1>4 DEF ReadData, ReadError, Broadcast, Running
  <2>2. Members' = Members /\ Speaker' = Speaker
    BY <2>1 DEF Members, Clients, Speaker, Element
  <2>3. \A q \in Peers : Line(q)' = Line(q)
    BY <1>2, <1>3, <1>4 DEF ReadData, ReadError, ReadFails, Line, Phases
  <2>4. RoomTodo' = Members \ {Speaker}
    BY <2>1, <2>2, PlacesAndPeers DEF RoomTodo
  <2>5. PICK p \in Peers : p = Speaker
    BY <1>2
  <2>6. Room!Speak(p)
    BY <1>1, <1>2, <2>1, <2>2, <2>3, <2>4, <2>5 DEF Room!Speak, Room!Quiet, RoomTodo
  <2> QED
    BY <2>6 DEF Room!Next
<1>5. CASE ReadEof
  <2>1. Clients' = Clients \ {Element}
    BY <1>5, ReadEofKeepsIInv DEF RoomInv
  <2>2. /\ pc' = pc /\ Running' /\ outbox' = outbox
        /\ conn' = [conn EXCEPT ![Element] = NoPeer]
        /\ phase' = [phase EXCEPT ![Speaker] = "idle"]
        /\ phase[Speaker] \in {"closed", "dead"}
    BY <1>1, <1>5 DEF ReadEof, ReadZero, Running
  <2>3. \A f \in Clients \ {Element} : f \in Fd /\ conn[f] # Speaker /\ conn'[f] = conn[f]
    BY <1>2, <1>3, <2>2 DEF RoomInv, OnePeerEach, IInv, VectorMatchesDescriptors, Open, Speaker
  <2>4. Members' = Members \ {Speaker}
    BY <1>2, <2>1, <2>3 DEF Members, Speaker
  <2>5. RoomLine' = [RoomLine EXCEPT ![Speaker] = "down"] /\ RoomLine[Speaker] = "lost"
    BY <1>2, <1>3, <2>2 DEF RoomLine, Line
  <2>6. Room!Leave(Speaker)
    BY <1>1, <1>2, <2>2, <2>4, <2>5 DEF Room!Leave, Room!Quiet, RoomLine
  <2> QED
    BY <1>2, <2>6 DEF Room!Next
<1> QED
  BY <1>4, <1>5

(* The inner loop passes the message on to each of the others once.        *)
LEMMA SendsAreRoom ==
  ASSUME RoomInv, SkipSpeaker \/ SendToOpen \/ SendToLeaver \/ SendToDead \/ EndSend
  PROVE  Room!Next \/ UNCHANGED Room!roomVars
<1>1. /\ pc = "send" /\ Running /\ UNCHANGED <<conn, slots, size>>
      /\ sendIt \in Nat \ {0} /\ phase \in [Peers -> Phases] /\ NoPeer \notin Peers
  BY ChatConstants DEF SkipSpeaker, SendToOpen, SendToLeaver, SendToDead, EndSend, Sending, Running, peerVars, RoomInv, IInv, TypeOK
<1>2. Members' = Members
  BY <1>1 DEF Members, Clients
<1>3. /\ size \in Nat
      /\ \A i \in 1..size : slots[i] \in Clients /\ slots[i] \in Fd /\ conn[slots[i]] \in Peers
      /\ \A i, j \in 1..size : conn[slots[i]] = conn[slots[j]] => i = j
      /\ Element \in Clients /\ Speaker \in Peers
  BY <1>1, PlacesAndPeers
<1>4. Sending => /\ sendIt \in 1..size /\ Hearer \in Peers /\ phase[Hearer] # "idle"
                 /\ sendIt..size = {sendIt} \cup ((sendIt + 1)..size)
  <2> SUFFICES ASSUME Sending
               PROVE  /\ sendIt \in 1..size /\ Hearer \in Peers /\ phase[Hearer] # "idle"
                      /\ sendIt..size = {sendIt} \cup ((sendIt + 1)..size)
    OBVIOUS
  <2>1. sendIt \in 1..size
    BY <1>1, <1>3 DEF Sending
  <2>2. Hearer \in Peers /\ Open(Target) /\ Target \in Fd
    BY <1>1, <1>3, <2>1 DEF Hearer, Target, Open
  <2> QED
    BY <1>1, <1>3, <2>1, <2>2 DEF Hearer, RoomInv, OnePeerEach
<1>5. CASE SkipSpeaker
  <2>1. UNCHANGED <<pc, it, outbox, phase>> /\ sendIt' = sendIt + 1 /\ Sending /\ conn[slots[sendIt]] = Speaker
    BY <1>5 DEF SkipSpeaker, NextTarget, IsAuthor, Target, Speaker, peerVars
  <2>2. Speaker' = Speaker /\ RoomLine' = RoomLine /\ Running' = Running
    BY <1>1, <2>1 DEF Speaker, Element, RoomLine, Line, Running
  <2>3. RoomTodo' = RoomTodo
    BY <1>1, <1>4, <2>1, <2>2 DEF RoomTodo
  <2> QED
    BY <1>1, <1>2, <2>1, <2>2, <2>3, RoomUnchanged DEF RoomSpeaker
<1>6. CASE SendToOpen \/ SendToLeaver
  <2>1. UNCHANGED <<pc, it>> /\ sendIt' = sendIt + 1 /\ Sending /\ Target # Element
    BY <1>6 DEF SendToOpen, SendToLeaver, NextTarget, IsAuthor
  <2>2. Speaker' = Speaker /\ Running'
    BY <1>1, <2>1 DEF Speaker, Element, Running
  <2>3. PICK e \in 1..size : slots[e] = Element
    BY <1>3 DEF Clients
  <2>4. e # sendIt /\ Hearer = conn[slots[sendIt]] /\ Speaker = conn[slots[e]]
    BY <2>1, <2>3 DEF Target, Hearer, Speaker
  <2>5. Hearer # Speaker
    BY <1>3, <1>4, <2>1, <2>4
  <2>6. \A i \in (sendIt + 1)..size : conn[slots[i]] # Hearer
    BY <1>3, <1>4, <2>1, <2>4
  <2>7. Hearer \in RoomTodo /\ RoomTodo' = RoomTodo \ {Hearer}
    <3>1. RoomTodo = ({Hearer} \cup {conn[slots[i]] : i \in (sendIt + 1)..size}) \ {Speaker}
      BY <1>1, <1>4, <2>1, <2>4 DEF RoomTodo
    <3>2. RoomTodo' = {conn[slots[i]] : i \in (sendIt + 1)..size} \ {Speaker}
      BY <1>1, <2>1, <2>2 DEF RoomTodo
    <3> QED
      BY <2>5, <2>6, <3>1, <3>2
  <2>8. \A q \in Peers : Line(q)' = Line(q)
    BY <1>1, <1>4, <1>6, <2>1 DEF SendToOpen, SendToLeaver, Line, Phases
  <2>9. outbox' = IF RoomLine[Hearer] = "up" THEN [outbox EXCEPT ![Hearer] = Append(@, Speaker)] ELSE outbox
    BY <1>1, <1>4, <1>6, <2>1 DEF SendToOpen, SendToLeaver, RoomLine, Line
  <2>10. PICK m \in Peers : m = Hearer
    BY <1>4, <2>1
  <2>11. Room!Deliver(m)
    BY <1>1, <1>2, <2>1, <2>2, <2>7, <2>8, <2>9, <2>10
    DEF Room!Deliver, Room!Put, RoomTodo, RoomLine
  <2> QED
    BY <2>11 DEF Room!Next
<1>7. CASE SendToDead
  <2>1. ~Running' /\ pc' # "send" /\ UNCHANGED <<outbox, phase>>
    BY <1>7 DEF SendToDead, Running, peerVars
  <2>2. \A q \in Peers : Line(q)' = Line(q)
    BY <2>1 DEF Line
  <2>3. Room!Halt
    BY <1>1, <1>2, <2>1, <2>2 DEF Room!Halt
  <2> QED
    BY <2>3 DEF Room!Next
<1>8. CASE EndSend
  <2>1. Running' /\ pc' # "send" /\ UNCHANGED <<outbox, phase>> /\ sendIt > size
    BY <1>8 DEF EndSend, Running, peerVars
  <2>2. \A q \in Peers : Line(q)' = Line(q)
    BY <2>1 DEF Line
  <2>3. RoomTodo = {} /\ RoomTodo' = {}
    BY <1>1, <1>3, <2>1 DEF RoomTodo
  <2>4. Room!Finish
    BY <1>1, <1>2, <1>3, <2>1, <2>2, <2>3 DEF Room!Finish, RoomTodo
  <2> QED
    BY <2>4 DEF Room!Next
<1> QED
  BY <1>5, <1>6, <1>7, <1>8

(* Every step of the server is a step of the room or none at all.          *)
LEMMA NextIsRoom == RoomInv /\ [Next]_vars => [Room!Next]_(Room!roomVars)
<1> SUFFICES ASSUME RoomInv, [Next]_vars
             PROVE  Room!Next \/ UNCHANGED Room!roomVars
  OBVIOUS
<1>1. CASE UNCHANGED vars
  <2>1. /\ Running' = Running /\ RoomLine' = RoomLine /\ Members' = Members /\ outbox' = outbox
        /\ RoomSpeaker' = RoomSpeaker /\ RoomTodo' = RoomTodo
    BY <1>1 DEF vars, Running, RoomLine, Line, Members, Clients, RoomSpeaker, RoomTodo, Speaker, Element
  <2> QED
    BY <2>1, RoomUnchanged
<1>2. CASE Server
  BY <1>2, MainIsRoom, ReadsAreRoom, SendsAreRoom DEF Server
<1>3. CASE \E p \in Peers : PeerAct(p)
  BY <1>3, PeersAreRoom
<1> QED
  BY <1>1, <1>2, <1>3 DEF Next

(* However many clients there are, a message goes exactly once to each     *)
(* other client of the moment it was read, and nobody joins or leaves      *)
(* meanwhile (lines 49-83): the server implements ChatRoom.                *)
THEOREM ServerIsRoom == Spec => RefinesRoom
BY InitRoomInv, NextKeepsRoomInv, InitIsRoom, NextIsRoom, PTL DEF Spec, RefinesRoom, Room!Spec

(* The same from any state in which every client has one descriptor, such  *)
(* as one in which clients have gathered.                                  *)
THEOREM StepsAreRoom == RoomInv /\ [][Next]_vars => RoomSteps
BY NextKeepsRoomInv, NextIsRoom, PTL DEF RoomSteps

-----------------------------------------------------------------------------
(* What the walk leaves behind it.  Everything past the end of the vector  *)
(* is a copy of its last element, so the walk can visit only that one      *)
(* twice, and once it is erased nothing the walk has still to visit is a   *)
(* client.                                                                 *)
InPass == pc \in {"visit", "send"}
LastSlot == slots[Len(slots)]
LastErased == LastSlot \notin Clients

TailIsLast ==
  Len(slots) > 0 =>
    /\ \A i \in (size + 1)..Len(slots) : slots[i] = LastSlot
    /\ ~LastErased => size > 0 /\ slots[size] = LastSlot
    /\ InPass /\ LastErased => it > size

(* A client has had its turn if the walk is past it, or if it is the last. *)
HadTurn(f) ==
  \/ f = LastSlot
  \/ \E i \in 1..size : slots[i] = f /\ (i < it \/ (pc = "send" /\ i = it))

(* The buffer holds bytes of clients that are ready and had their turn.    *)
BytesOfReady ==
  /\ pc \in {"select", "accept"} => buf = Blank
  /\ InPass /\ ~LastErased =>
       \A c \in 1..BufSize :
         buf[c] # Nul => \E f \in Clients \cap ready : conn[f] = buf[c] /\ HadTurn(f)

TextOfBuffer == pc = "send" => text \subseteq {buf[c] : c \in 1..BufSize} \cup {Junk}

TextInv == IInv /\ TailIsLast /\ BytesOfReady /\ TextOfBuffer

-----------------------------------------------------------------------------
(* An empty vector has nothing behind its end.                             *)
LEMMA InitTextInv == Init => TextInv
<1> SUFFICES ASSUME Init PROVE TextInv
  OBVIOUS
<1>1. Len(slots) = 0
  BY DEF Init
<1> QED
  BY <1>1, InitIInv DEF Init, TextInv, TailIsLast, BytesOfReady, TextOfBuffer, InPass

(* What the type invariant says of the vector.                             *)
LEMMA VectorFacts ==
  ASSUME IInv
  PROVE  /\ size \in Nat /\ Len(slots) \in Nat /\ size <= Len(slots) /\ it \in Nat \ {0}
         /\ \A i \in 1..Len(slots) : slots[i] \in Fd
         /\ Clients = {slots[i] : i \in 1..size}
         /\ \A i, j \in 1..size : slots[i] = slots[j] => i = j
         /\ \A f \in Clients : f \in Fd /\ conn[f] \in Peers
         /\ BufSize \in Nat /\ Nul \notin Peers /\ Listener \notin Fd
<1>1. size \in Nat /\ Len(slots) \in Nat /\ size <= Len(slots) /\ \A i \in 1..Len(slots) : slots[i] \in Fd
  BY ElementOfSequence DEF IInv, TypeOK
<1>2. \A f \in Clients : f \in Fd /\ conn[f] \in Peers
  BY DEF IInv, TypeOK, VectorMatchesDescriptors, Open
<1> QED
  BY <1>1, <1>2, ChatConstants DEF IInv, TypeOK, Clients, VectorMatchesDescriptors

(* A client at which the walk stops is live, so the last one is too.       *)
LEMMA LastStillClient ==
  ASSUME IInv, TailIsLast, InPass, it <= Len(slots), Element \in Clients
  PROVE  /\ Len(slots) > 0 /\ ~LastErased
         /\ it > size => Element = LastSlot
<1> USE VectorFacts
<1>1. Len(slots) > 0
  OBVIOUS
<1>2. it > size => Element = LastSlot
  BY <1>1 DEF TailIsLast, Element
<1> QED
  BY <1>1, <1>2 DEF TailIsLast, LastErased

(* The pass begins with a whole vector and a blank buffer.                 *)
LEMMA WholeVectorText ==
  IInv /\ size = Len(slots) /\ buf = Blank /\ pc # "send" => TextInv
<1> SUFFICES ASSUME IInv, size = Len(slots), buf = Blank, pc # "send"
             PROVE  TextInv
  OBVIOUS
<1> USE VectorFacts
<1>1. Len(slots) > 0 => LastSlot \in Clients /\ slots[size] = LastSlot
  BY DEF LastSlot
<1>2. TailIsLast
  BY <1>1 DEF TailIsLast, LastErased
<1> QED
  BY <1>2 DEF TextInv, BytesOfReady, TextOfBuffer, Blank

(* A read finds bytes of clients that had their turn, and it is the turn   *)
(* of the one that is read now.                                            *)
LEMMA ReadKeepsText ==
  ASSUME TextInv, ReadData \/ ReadError
  PROVE  TextInv'
<1> USE DEF TextInv
<1>1. Visiting /\ Element \in ready /\ UNCHANGED <<conn, slots, size, ready, it>> /\ pc' = "send" /\ pc = "visit"
  BY DEF ReadData, ReadError, Broadcast, Visiting
<1>2. IInv'
  BY ReadKeepsIInv
<1>3. Element \in Clients /\ Speaker \in Peers /\ Speaker = conn[Element]
  BY <1>1, ReadyElementIsClient DEF Speaker
<1>4. Len(slots) > 0 /\ ~LastErased /\ (it > size => Element = LastSlot)
  BY <1>1, <1>3, LastStillClient DEF InPass, Visiting
<1>5. Clients' = Clients /\ LastSlot' = LastSlot /\ LastErased' = LastErased
  BY <1>1 DEF Clients, LastSlot, LastErased
<1>6. TailIsLast'
  BY <1>1, <1>4, <1>5 DEF TailIsLast
<1>7. \A f \in Clients : HadTurn(f) => HadTurn(f)'
  BY <1>1, <1>5 DEF HadTurn
<1>8. HadTurn(Element)'
  BY <1>1, <1>4, <1>5, VectorFacts DEF HadTurn, Element
<1>9. \A c \in 1..BufSize : buf'[c] = Speaker \/ buf'[c] = buf[c]
  BY VectorFacts DEF ReadData, ReadError, IInv, TypeOK
<1>10. text' \subseteq {buf'[c] : c \in 1..BufSize} \cup {Junk}
  <2>1. text' \in Texts(buf')
    BY DEF ReadData, ReadError, Broadcast
  <2> QED
    BY <2>1 DEF Texts, Printed
<1>11. ASSUME NEW c \in 1..BufSize, buf'[c] # Nul
       PROVE  \E f \in Clients \cap ready : conn[f] = buf'[c] /\ HadTurn(f)'
  <2>1. CASE buf'[c] = Speaker
    <3>1. PICK f \in Clients \cap ready : f = Element
      BY <1>1, <1>3
    <3>2. HadTurn(f)'
      BY <1>1, <1>8, <3>1 DEF Element, HadTurn
    <3> QED
      BY <1>3, <2>1, <3>1, <3>2
  <2>2. CASE buf'[c] = buf[c]
    <3>1. PICK f \in Clients \cap ready : conn[f] = buf[c] /\ HadTurn(f)
      BY <1>1, <1>4, <1>11, <2>2 DEF BytesOfReady, InPass
    <3> QED
      BY <1>7, <2>2, <3>1
  <2> QED
    BY <1>9, <2>1, <2>2
<1>12. BytesOfReady'
  BY <1>1, <1>5, <1>11 DEF BytesOfReady
<1>13. TextOfBuffer'
  BY <1>10 DEF TextOfBuffer
<1> QED
  BY <1>2, <1>6, <1>12, <1>13

(* The end of a stream: the vector moves down, or its last client goes.    *)
LEMMA ReadEofKeepsText ==
  ASSUME TextInv, ReadEof
  PROVE  TextInv'
<1> USE DEF TextInv
<1>1. /\ Visiting /\ Element \in ready /\ pc = "visit" /\ pc' = "visit" /\ buf' = buf
      /\ conn' = [conn EXCEPT ![Element] = NoPeer] /\ ready' = ready \ {Element}
      /\ slots' = Erased(Position(Element)) /\ size' = size - 1 /\ it' = it + 1
  BY DEF ReadEof, Visiting, Advance, FdClr
<1>2. IInv' /\ Element \in Fd /\ Clients' = Clients \ {Element}
  BY ReadEofKeepsIInv
<1>3. Element \in Clients
  BY <1>1, ReadyElementIsClient
<1>4. Len(slots) > 0 /\ ~LastErased /\ (it > size => Element = LastSlot) /\ size > 0 /\ slots[size] = LastSlot
  BY <1>1, <1>3, LastStillClient DEF InPass, Visiting, TailIsLast
<1> DEFINE k == Position(Element)
<1>5. k \in 1..size /\ slots[k] = Element
  BY <1>3, PositionOfClient DEF IInv
<1>6. /\ Len(slots') = Len(slots)
      /\ \A i \in 1..Len(slots) : slots'[i] = IF k <= i /\ i < size THEN slots[i + 1] ELSE slots[i]
  <2>1. Len(slots') = Len(slots)
    BY <1>1, <1>5, EraseKeepsOthers DEF IInv
  <2> QED
    BY <1>1, <2>1 DEF Erased
<1> HIDE DEF k
<1>7. LastSlot' = LastSlot
  BY <1>4, <1>6, VectorFacts DEF LastSlot
<1>8. \A i \in size..Len(slots) : slots'[i] = LastSlot
  BY <1>4, <1>6, VectorFacts DEF TailIsLast
<1>9. CASE Element = LastSlot
  <2>1. it >= size
    BY <1>1, <1>4, <1>9, VectorFacts DEF Element, Visiting
  <2>2. LastErased'
    BY <1>2, <1>7, <1>9 DEF LastErased
  <2>3. TailIsLast'
    BY <1>1, <1>4, <1>6, <1>7, <1>8, <2>1, <2>2, VectorFacts DEF TailIsLast
  <2> QED
    BY <1>1, <1>2, <2>2, <2>3 DEF BytesOfReady, TextOfBuffer
<1>10. CASE Element # LastSlot
  <2>1. k = it /\ it < size
    BY <1>1, <1>4, <1>5, <1>10, VectorFacts DEF Element, Visiting
  <2>2. ~LastErased'
    BY <1>2, <1>4, <1>7, <1>10 DEF LastErased
  <2>3. slots'[size - 1] = LastSlot
    BY <1>4, <1>6, <2>1, VectorFacts
  <2>4. TailIsLast'
    BY <1>1, <1>6, <1>7, <1>8, <2>1, <2>2, <2>3, VectorFacts DEF TailIsLast
  <2>5. ASSUME NEW c \in 1..BufSize, buf[c] # Nul
        PROVE  \E f \in Clients' \cap ready' : conn'[f] = buf[c] /\ HadTurn(f)'
    <3>1. PICK f \in Clients \cap ready : conn[f] = buf[c] /\ HadTurn(f)
      BY <1>1, <1>4, <2>5 DEF BytesOfReady, InPass
    <3>2. CASE f = LastSlot
      BY <1>1, <1>2, <1>7, <1>10, <3>1, <3>2, VectorFacts DEF HadTurn, IInv, TypeOK
    <3>3. CASE f # LastSlot
      <4>1. PICK i \in 1..size : slots[i] = f /\ i < it
        BY <1>1, <3>1, <3>3 DEF HadTurn
      <4>2. i # k /\ i < k /\ i \in 1..Len(slots) /\ i \in 1..size' /\ i < it'
        BY <1>1, <2>1, <4>1, VectorFacts
      <4>3. f # Element
        BY <1>5, <4>1, <4>2, VectorFacts
      <4>4. slots'[i] = f
        BY <1>5, <1>6, <4>1, <4>2, VectorFacts
      <4> QED
        BY <1>1, <1>2, <3>1, <4>2, <4>3, <4>4, VectorFacts DEF HadTurn, IInv, TypeOK
    <3> QED
      BY <3>2, <3>3
  <2>6. BytesOfReady'
    BY <1>1, <2>5 DEF BytesOfReady
  <2> QED
    BY <1>1, <1>2, <2>4, <2>6 DEF TextOfBuffer
<1> QED
  BY <1>9, <1>10

(* Steps that read and erase nothing.                                      *)
LEMMA SameVectorText ==
  ASSUME TextInv, IInv', UNCHANGED <<conn, slots, size, ready, buf>>,
         InPass' => InPass,
         pc' = "send" => pc = "send" /\ text' = text,
         pc' \in {"select", "accept"} => pc \in {"select", "accept"},
         \/ it' = it /\ (pc = "send" /\ InPass' => pc' = "send")
         \/ it' = it + 1
  PROVE  TextInv'
<1> USE DEF TextInv
<1>1. Clients' = Clients /\ LastSlot' = LastSlot /\ LastErased' = LastErased
  BY DEF Clients, LastSlot, LastErased
<1>2. it \in Nat /\ it' >= it
  BY VectorFacts
<1>3. TailIsLast'
  BY <1>1, <1>2, VectorFacts DEF TailIsLast
<1>4. ASSUME NEW f \in Clients, InPass', HadTurn(f)
      PROVE  HadTurn(f)'
  <2>1. CASE it' = it + 1
    BY <1>1, <1>4, <2>1, VectorFacts DEF HadTurn
  <2>2. CASE it' = it /\ (pc = "send" => pc' = "send")
    BY <1>1, <1>4, <2>2 DEF HadTurn
  <2> QED
    BY <1>4, <2>1, <2>2
<1>5. BytesOfReady'
  BY <1>1, <1>4 DEF BytesOfReady
<1> QED
  BY <1>3, <1>5 DEF TextOfBuffer

(* Every step keeps what the buffer holds tied to ready clients.           *)
LEMMA NextKeepsTextInv == TextInv /\ [Next]_vars => TextInv'
<1> SUFFICES ASSUME TextInv, [Next]_vars PROVE TextInv'
  OBVIOUS
<1>1. IInv /\ IInv'
  BY NextKeepsIInv DEF TextInv
<1>2. CASE Select \/ NoNewConnection \/ EndPass \/ \E p \in Peers, f \in Fd : Accept(p, f)
  <2>1. size' = Len(slots') /\ buf' = Blank /\ pc' # "send"
    <3>1. CASE Select \/ NoNewConnection
      BY <1>1, <3>1 DEF Select, NoNewConnection, StartPass, IInv, WholeVector, TextInv, BytesOfReady
    <3>2. CASE EndPass
      BY <3>2, VectorFacts, <1>1, SequenceOfElements, EndPassKeepsIInv DEF EndPass, FreshBuffer, IInv, WholeVector
    <3>3. CASE \E p \in Peers, f \in Fd : Accept(p, f)
      BY <1>1, <3>3, AppendProperties DEF Accept, StartPass, IInv, TypeOK, WholeVector, TextInv, BytesOfReady
    <3> QED
      BY <1>2, <3>1, <3>2, <3>3
  <2>2. (IInv /\ size = Len(slots) /\ buf = Blank /\ pc # "send" => TextInv)'
    BY WholeVectorText, PTL
  <2> QED
    BY <1>1, <2>1, <2>2 DEF Blank
<1>3. CASE ReadData \/ ReadError
  BY <1>3, ReadKeepsText
<1>4. CASE ReadEof
  BY <1>4, ReadEofKeepsText
<1>5. CASE AcceptFails \/ SkipNotReady
  BY <1>1, <1>5, SameVectorText DEF AcceptFails, SkipNotReady, Visiting, Advance, InPass
<1>6. CASE SkipSpeaker \/ SendToOpen \/ SendToLeaver \/ SendToDead \/ EndSend
  BY <1>1, <1>6, SameVectorText DEF SkipSpeaker, SendToOpen, SendToLeaver, SendToDead, EndSend, Sending, Advance, InPass, peerVars
<1>7. CASE \E p \in Peers : PeerAct(p)
  BY <1>1, <1>7, SameVectorText DEF PeerAct, Connect, Write, Drain, Hangup, serverVars, InPass
<1>8. CASE UNCHANGED vars
  BY <1>1, <1>8, SameVectorText DEF vars, InPass
<1> QED
  BY <1>2, <1>3, <1>4, <1>5, <1>6, <1>7, <1>8 DEF Next, Server

(* The text of a message has bytes of clients that select found ready.     *)
LEMMA TextInvGivesText == TextInv => TextFromThisPass
<1> SUFFICES ASSUME TextInv, pc = "send", NEW q \in text \ {Junk}
             PROVE  \E f \in ready \ {Listener} : conn[f] = q
  BY DEF TextFromThisPass
<1> USE DEF TextInv
<1>1. it <= Len(slots) /\ Element \in Clients
  BY DEF IInv, AuthorIsClient
<1>2. ~LastErased
  BY <1>1, LastStillClient DEF InPass
<1>3. PICK c \in 1..BufSize : buf[c] = q
  BY DEF TextOfBuffer
<1>4. q # Nul
  BY ChatConstants DEF IInv, TypeOK
<1>5. PICK f \in Clients \cap ready : conn[f] = q
  BY <1>2, <1>3, <1>4 DEF BytesOfReady, InPass
<1> QED
  BY <1>5, VectorFacts

(* What is broadcast comes from clients that are still connected and were  *)
(* ready in this pass, although the buffer is cleared once per pass and    *)
(* clients are erased while it holds their bytes (lines 60-81).            *)
THEOREM TextOfReadyClients == Spec => []TextFromThisPass
BY InitTextInv, NextKeepsTextInv, TextInvGivesText, PTL DEF Spec

-----------------------------------------------------------------------------
(* The places of the vector the pass has still to come to.                 *)
StillToVisit(i) ==
  \/ pc = "accept"
  \/ pc = "visit" /\ i >= it
  \/ pc = "send" /\ i > it

(* What select answered is still true of the clients not yet visited.      *)
AnswerHolds == \A i \in 1..size : StillToVisit(i) /\ slots[i] \in ready => Readable(slots[i])

WaitInv == RoomInv /\ AnswerHolds

LEMMA InitWaitInv == Init => WaitInv
BY InitRoomInv DEF Init, WaitInv, AnswerHolds, StillToVisit

(* What a client does takes no byte from what the server can read.         *)
LEMMA PeersKeepAnswer ==
  ASSUME WaitInv, NEW p \in Peers, PeerAct(p)
  PROVE  AnswerHolds'
<1>1. /\ phase \in [Peers -> Phases] /\ avail \in [Peers -> 0..MaxAvail] /\ MaxAvail \in Nat
      /\ conn \in [Fd -> Peers \cup {NoPeer}]
  BY ChatConstants DEF WaitInv, RoomInv, IInv, TypeOK
<1>2. UNCHANGED <<conn, slots, size, ready, pc, it>>
  BY DEF PeerAct, Connect, Write, Drain, Hangup, serverVars
<1>3. ASSUME NEW f \in Fd, Open(f), Readable(f)
      PROVE  Readable(f)'
  <2>1. conn[f] \in Peers /\ phase[conn[f]] # "idle"
    BY <1>1, <1>3 DEF WaitInv, RoomInv, OnePeerEach, Open
  <2>2. avail'[conn[f]] = avail[conn[f]] \/ avail'[conn[f]] > 0
    BY <1>1, <2>1 DEF PeerAct, Connect, Write, Drain, Hangup
  <2>3. phase'[conn[f]] = phase[conn[f]] \/ phase[conn[f]] = "open"
    BY <1>1, <2>1 DEF PeerAct, Connect, Write, Drain, Hangup
  <2> QED
    BY <1>2, <1>3, <2>2, <2>3 DEF Readable
<1>4. \A i \in 1..size : slots[i] \in Fd /\ Open(slots[i])
  BY PlacesAndPeers, ChatConstants DEF WaitInv, Open
<1>5. \A i \in 1..size : StillToVisit(i)' = StillToVisit(i)
  BY <1>2 DEF StillToVisit
<1> QED
  BY <1>2, <1>3, <1>4, <1>5 DEF WaitInv, AnswerHolds

(* Steps that read nothing, close nothing and move the walk only onward.   *)
LEMMA QuietKeepsAnswer ==
  ASSUME AnswerHolds, UNCHANGED <<conn, slots, size, ready, avail>>,
         \A i \in 1..size : StillToVisit(i)' => StillToVisit(i),
         \A i \in 1..size : phase[conn[slots[i]]] # "open" => phase'[conn[slots[i]]] # "open"
  PROVE  AnswerHolds'
BY DEF AnswerHolds, Readable

(* The end of a stream: what moves down was still to be visited before.    *)
LEMMA ReadEofKeepsAnswer ==
  ASSUME WaitInv, ReadEof
  PROVE  AnswerHolds'
<1> USE DEF WaitInv, RoomInv
<1>1. /\ Visiting /\ pc = "visit" /\ pc' = "visit" /\ avail' = avail
      /\ conn' = [conn EXCEPT ![Element] = NoPeer]
      /\ phase' = [phase EXCEPT ![Speaker] = "idle"] /\ ready' = ready \ {Element}
      /\ slots' = Erased(Position(Element)) /\ size' = size - 1 /\ it' = it + 1
  BY DEF ReadEof, Visiting, Advance, FdClr
<1>2. /\ size \in Nat /\ Len(slots) \in Nat /\ size <= Len(slots) /\ it \in Nat
      /\ conn \in [Fd -> Peers \cup {NoPeer}] /\ phase \in [Peers -> Phases]
  BY ElementOfSequence DEF IInv, TypeOK
<1>3. Element \in Clients /\ Element \in Fd /\ Speaker \in Peers
  BY <1>1, ReadyElementIsClient DEF ReadEof
<1>4. Position(Element) \in 1..size
  BY <1>3, PositionOfClient DEF IInv
<1>5. {slots'[i] : i \in 1..size'} = Clients \ {Element}
  BY <1>1, <1>3, <1>4, PositionOfClient, EraseKeepsOthers DEF IInv
<1>6. \A i \in 1..size' : slots'[i] = slots[i] \/ slots'[i] = slots[i + 1]
  BY <1>1, <1>2 DEF Erased
<1>7. SUFFICES ASSUME NEW i \in 1..size', NEW f, f = slots'[i], i >= it', f \in ready
               PROVE  Readable(f)'
  BY <1>1 DEF AnswerHolds, StillToVisit, Readable
<1>8. PICK j \in 1..size : f = slots[j] /\ j >= it
  BY <1>1, <1>2, <1>6, <1>7
<1>9. Readable(slots[j]) /\ slots[j] # Element
  BY <1>1, <1>5, <1>7, <1>8 DEF AnswerHolds, StillToVisit
<1>10. slots[j] \in Fd /\ conn[slots[j]] \in Peers /\ conn[slots[j]] # Speaker
  BY <1>3, <1>9, PlacesAndPeers, ChatConstants DEF OnePeerEach, Open, Speaker
<1> QED
  BY <1>1, <1>2, <1>8, <1>9, <1>10 DEF Readable

(* Every step keeps the answer of select true of the clients not visited.  *)
LEMMA NextKeepsWaitInv == WaitInv /\ [Next]_vars => WaitInv'
<1> SUFFICES ASSUME WaitInv, [Next]_vars PROVE AnswerHolds'
  BY NextKeepsRoomInv DEF WaitInv
<1> USE DEF WaitInv
<1>1. /\ phase \in [Peers -> Phases] /\ avail \in [Peers -> 0..MaxAvail] /\ it \in Nat /\ size \in Nat
      /\ conn \in [Fd -> Peers \cup {NoPeer}]
      /\ \A i \in 1..size : slots[i] \in Fd /\ conn[slots[i]] \in Peers
      /\ \A i, j \in 1..size : conn[slots[i]] = conn[slots[j]] => i = j
  BY PlacesAndPeers DEF RoomInv, IInv, TypeOK
<1>2. CASE Select
  BY <1>1, <1>2, ChatConstants DEF Select, Answer, Readable, AnswerHolds, peerVars
<1>3. CASE NoNewConnection \/ AcceptFails
  BY <1>1, <1>3, QuietKeepsAnswer DEF NoNewConnection, AcceptFails, StartPass, StillToVisit, peerVars
<1>4. ASSUME NEW p \in Peers, NEW f \in Fd, Accept(p, f)
      PROVE  AnswerHolds'
  <2>1. /\ conn[f] = NoPeer /\ conn' = [conn EXCEPT ![f] = p] /\ avail' = avail /\ ready' = ready
        /\ slots' = Append(slots, f) /\ size' = size + 1 /\ pc = "accept"
    BY <1>4 DEF Accept, LowestFree, FreeFd, Open
  <2>2. f \notin ready
    BY <2>1, ChatConstants DEF RoomInv, IInv, ReadyAreClients, VectorMatchesDescriptors, Open
  <2>3. slots \in Seq(Fd) /\ size = Len(slots)
    BY <2>1 DEF RoomInv, IInv, TypeOK, WholeVector
  <2>4. \A q \in Peers : phase[q] # "open" => phase'[q] # "open"
    BY <1>1, <1>4 DEF Accept
  <2>5. SUFFICES ASSUME NEW i \in 1..size', NEW g, g = slots'[i], g \in ready
                 PROVE  Readable(g)'
    BY <2>1 DEF AnswerHolds, Readable
  <2>6. i \in 1..size /\ g = slots[i] /\ g # f
    BY <2>1, <2>2, <2>3, <2>5, AppendProperties
  <2>7. Readable(slots[i])
    BY <2>1, <2>5, <2>6 DEF AnswerHolds, StillToVisit
  <2> QED
    BY <1>1, <2>1, <2>4, <2>6, <2>7 DEF Readable
<1>5. CASE SkipNotReady
  BY <1>1, <1>5, QuietKeepsAnswer DEF SkipNotReady, Visiting, Advance, StillToVisit, peerVars
<1>6. CASE ReadData \/ ReadError
  <2>1. /\ UNCHANGED <<conn, slots, size, ready, it>> /\ pc = "visit" /\ pc' = "send" /\ it <= Len(slots)
    BY <1>6 DEF ReadData, ReadError, Visiting, Broadcast
  <2>2. Element \in Clients /\ Element \in Fd /\ Speaker \in Peers
    BY <1>6, ReadyElementIsClient DEF ReadData, ReadError, RoomInv
  <2>3. \A q \in Peers \ {Speaker} : avail'[q] = avail[q] /\ phase'[q] = phase[q]
    BY <1>1, <1>6, <2>2 DEF ReadData, ReadError
  <2>4. SUFFICES ASSUME NEW i \in 1..size, i > it, slots[i] \in ready
                 PROVE  Readable(slots[i])'
    BY <2>1 DEF AnswerHolds, StillToVisit
  <2>5. conn[slots[i]] # Speaker
    <3>1. it \in 1..size
      BY <1>1, <2>4 DEF RoomInv, IInv, TypeOK
    <3> QED
      BY <1>1, <2>4, <3>1 DEF Speaker, Element
  <2>6. Readable(slots[i])
    BY <1>1, <2>1, <2>4 DEF AnswerHolds, StillToVisit
  <2> QED
    BY <1>1, <2>1, <2>3, <2>5, <2>6 DEF Readable
<1>7. CASE ReadEof
  BY <1>7, ReadEofKeepsAnswer
<1>8. CASE SkipSpeaker \/ SendToOpen \/ SendToDead \/ EndSend
  BY <1>1, <1>8, QuietKeepsAnswer DEF SkipSpeaker, SendToOpen, SendToDead, EndSend, Sending, Advance, StillToVisit, peerVars
<1>9. CASE SendToLeaver
  <2>1. \A q \in Peers : phase[q] # "open" => phase'[q] # "open"
    BY <1>1, <1>9 DEF SendToLeaver
  <2>2. UNCHANGED <<conn, slots, size, ready, avail, pc, it>>
    BY <1>9 DEF SendToLeaver
  <2> QED
    BY <1>1, <2>1, <2>2, QuietKeepsAnswer DEF StillToVisit
<1>10. CASE EndPass
  BY <1>10 DEF EndPass, AnswerHolds, StillToVisit
<1>11. CASE \E p \in Peers : PeerAct(p)
  BY <1>11, PeersKeepAnswer
<1>12. CASE UNCHANGED vars
  BY <1>12, QuietKeepsAnswer DEF vars, StillToVisit
<1> QED
  BY <1>2, <1>3, <1>4, <1>5, <1>6, <1>7, <1>8, <1>9, <1>10, <1>11, <1>12 DEF Next, Server

(* The walk waits in read only past the vector's end, on the memory an     *)
(* erasure left there (lines 62-73): a client's first visit in a pass is   *)
(* covered by the answer of select, whoever left or spoke before it.       *)
THEOREM FirstReadNeverWaits == Spec => []WaitsPastEndOnly
<1>1. WaitInv => WaitsPastEndOnly
  <2> SUFFICES ASSUME WaitInv, ReadWaits, it <= size PROVE FALSE
    BY PlacesAndPeers DEF WaitsPastEndOnly, WaitInv, RoomInv, IInv, TypeOK
  <2>1. it \in 1..size
    BY PlacesAndPeers DEF WaitInv, RoomInv, IInv, TypeOK
  <2> QED
    BY <2>1 DEF WaitInv, AnswerHolds, StillToVisit, ReadWaits, Visiting, Element
<1> QED
  BY <1>1, InitWaitInv, NextKeepsWaitInv, PTL DEF Spec
=============================================================================
