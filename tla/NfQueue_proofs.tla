--------------------------- MODULE NfQueue_proofs ---------------------------
(* Theorems about the packet mangler: whatever is queued and in whatever   *)
(* order it arrives, the body of an accepted packet is the reverse of what *)
(* was queued, its checksum is the one its receiver wants, the accumulator *)
(* stays inside an int, and verdicts are given once and in order.          *)
EXTENDS NfQueue, Numbers_proofs, SequenceTheorems, TLAPS

(* No packet is longer than the copy range.                                *)
NoneTooLong == \A i \in 1..Len(held) : Len(held[i].bytes) <= MaxSize

InHand == pc \in {"print", "swap", "sum", "fold", "verdict"}

(* The callback works on the packet that was queued first.                 *)
HandIsFirst ==
  InHand => held # <<>> /\ Len(packet) = Len(held[1].bytes)

Untouched == pc = "print" => packet = held[1].bytes

(* Where byte k of the packet came from while swap_bytes runs: the bytes   *)
(* before head and behind tail have changed places.                        *)
Opposite(k) == Header + Len(packet) + 1 - k
Source(k) == IF k > Header /\ (k < Place(head) \/ k > Place(tail)) THEN Opposite(k) ELSE k
HalfReversed ==
  pc = "swap" =>
    \/ BodyLength <= 0 /\ head = 0 /\ tail > 0 /\ Place(tail) > Len(packet)
    \/ /\ BodyLength > 0
       /\ tail = BodyLength - 1 - head
       /\ head <= tail + 1
       /\ \A k \in 1..Len(packet) : packet[k] = held[1].bytes[Source(k)]

Reversed == pc \in {"sum", "fold", "verdict"} => Mangled(held[1].bytes, packet)

(* The sum so far, and what the bytes left can add to it.                  *)
SumBounded ==
  /\ 2 * sum <= MaxSize * (Word - 1) + Word
  /\ pc = "sum" => /\ count >= 0
                   /\ at + count = Len(packet) + 1
                   /\ at >= 1
                   /\ 2 * sum + count * (Word - 1) <= MaxSize * (Word - 1)

IInv ==
  /\ TypeOK
  /\ NoneTooLong
  /\ HandIsFirst
  /\ Untouched
  /\ HalfReversed
  /\ Reversed
  /\ SumBounded

-----------------------------------------------------------------------------
(* Arithmetic on bytes and words.                                          *)

LEMMA WordIsNat == Word \in Nat /\ Word >= 2 * Base /\ Base \in Nat /\ Base >= 2
<1>1. Base \in Nat /\ Base >= 2
  BY QueueConstants
<1>2. Base * Base >= 2 * Base /\ Base * Base \in Nat
  BY <1>1
<1> QED
  BY <1>1, <1>2 DEF Word

(* Two bytes make a word.                                                  *)
LEMMA WordOfBytes ==
  ASSUME NEW a \in Bytes, NEW b \in Bytes
  PROVE  a + Base * b \in 0..(Word - 1)
<1>1. a \in Nat /\ b \in Nat /\ a <= Base - 1 /\ b <= Base - 1 /\ Base \in Nat
  BY WordIsNat DEF Bytes
<1>2. \A x, y, z \in Nat : x <= y => z * x <= z * y
  OBVIOUS
<1>3. Base * b \in Nat /\ Base * b <= Base * (Base - 1)
  BY <1>1, <1>2
<1>4. Base * (Base - 1) = Base * Base - Base
  BY <1>1
<1> QED
  BY <1>1, <1>3, <1>4 DEF Word

(* A word splits into two bytes.                                           *)
LEMMA BytesOfWord ==
  ASSUME NEW c \in 0..(Word - 1)
  PROVE  c % Base \in Bytes /\ c \div Base \in Bytes
<1>1. Base \in Nat /\ Base >= 2 /\ c \in Nat /\ c < Base * Base
  BY WordIsNat DEF Word
<1>2. c % Base \in 0..(Base - 1)
  BY <1>1
<1>3. c \div Base \in Int /\ c \div Base >= 0
  BY <1>1
<1>4. c \div Base < Base
  BY <1>1
<1> QED
  BY <1>1, <1>2, <1>3, <1>4 DEF Bytes

(* Adding the carry back never makes the sum larger.                       *)
LEMMA FoldingShrinks ==
  ASSUME NEW s \in Nat
  PROVE  (s % Word) + (s \div Word) \in Nat /\ (s % Word) + (s \div Word) <= s
<1>1. Word \in Nat /\ Word >= 4
  BY WordIsNat
<1>2. s % Word \in Nat /\ s \div Word \in Int /\ s \div Word >= 0
  BY <1>1
<1>3. (s \div Word) + (s % Word) <= s
  BY <1>1
<1> QED
  BY <1>1, <1>2, <1>3

-----------------------------------------------------------------------------
(* The elements of a sequence.                                             *)
LEMMA ElementOfSequence ==
  ASSUME NEW S, NEW s \in Seq(S)
  PROVE  /\ Len(s) \in Nat
         /\ DOMAIN s = 1..Len(s)
         /\ \A i \in 1..Len(s) : s[i] \in S
BY LenProperties

LEMMA HeadAndTail ==
  ASSUME NEW S, NEW s \in Seq(S), s # <<>>
  PROVE  /\ Len(s) \in Nat \ {0}
         /\ s[1] \in S
         /\ Tail(s) \in Seq(S)
         /\ Len(Tail(s)) = Len(s) - 1
         /\ \A i \in 1..(Len(s) - 1) : Tail(s)[i] = s[i + 1]
<1>1. Len(s) \in Nat /\ Len(s) # 0
  BY EmptySeq, LenProperties
<1>2. s[1] \in S
  BY <1>1, ElementOfSequence
<1> QED
  BY <1>1, <1>2, HeadTailProperties

(* Writing a byte into a packet.                                           *)
LEMMA WriteKeepsSequence ==
  ASSUME NEW S, NEW s \in Seq(S), NEW k, NEW v \in S
  PROVE  /\ [s EXCEPT ![k] = v] \in Seq(S)
         /\ Len([s EXCEPT ![k] = v]) = Len(s)
         /\ \A i \in 1..Len(s) : [s EXCEPT ![k] = v][i] = IF i = k THEN v ELSE s[i]
<1> DEFINE t == [s EXCEPT ![k] = v]
<1>1. Len(s) \in Nat /\ DOMAIN s = 1..Len(s) /\ s \in [1..Len(s) -> S]
  BY LenProperties
<1>2. t \in [1..Len(s) -> S]
  BY <1>1
<1>3. t \in Seq(S)
  BY <1>1, <1>2, SeqDef
<1>4. Len(t) = Len(s)
  BY <1>1, <1>2, <1>3, LenProperties
<1> QED
  BY <1>1, <1>3, <1>4

LEMMA ChecksumWritten ==
  ASSUME NEW p \in Seq(Bytes), NEW c \in 0..(Word - 1)
  PROVE  /\ WithChecksum(p, c) \in Seq(Bytes)
         /\ Len(WithChecksum(p, c)) = Len(p)
         /\ \A i \in Unsummed(Len(p)) : WithChecksum(p, c)[i] = p[i]
<1> DEFINE q == [p EXCEPT ![Low] = c % Base]
<1>1. c % Base \in Bytes /\ c \div Base \in Bytes
  BY BytesOfWord
<1>2. /\ q \in Seq(Bytes) /\ Len(q) = Len(p)
      /\ \A i \in 1..Len(p) : q[i] = IF i = Low THEN c % Base ELSE p[i]
  BY <1>1, WriteKeepsSequence
<1>3. WithChecksum(p, c) = [q EXCEPT ![High] = c \div Base]
  BY DEF WithChecksum
<1> HIDE DEF q
<1>4. /\ WithChecksum(p, c) \in Seq(Bytes) /\ Len(WithChecksum(p, c)) = Len(q)
      /\ \A i \in 1..Len(q) : WithChecksum(p, c)[i] = IF i = High THEN c \div Base ELSE q[i]
  BY <1>1, <1>2, <1>3, WriteKeepsSequence
<1> QED
  BY <1>2, <1>4 DEF Unsummed

-----------------------------------------------------------------------------
(* The initial state: nothing is queued, nothing is in hand.               *)
LEMMA InitIInv == Init => IInv
<1> SUFFICES ASSUME Init PROVE IInv
  OBVIOUS
<1>1. held \in Seq(Entry) /\ sent \in Seq(Entry) /\ packet \in Seq(Bytes) /\ Len(held) = 0
  BY EmptySeq DEF Init
<1>2. TypeOK
  <2>1. MaxId \in Nat
    BY QueueConstants
  <2>2. 1 \in 1..(MaxId + 1)
    BY <2>1
  <2>3. /\ nextId \in 1..(MaxId + 1) /\ stuck \in SUBSET (1..MaxId)
        /\ pc = "recv" /\ head \in Nat /\ tail \in Int
        /\ at \in Nat /\ count \in Int /\ sum \in Nat
    BY <2>2 DEF Init
  <2>4. overrun \in BOOLEAN
    BY DEF Init
  <2> QED
    BY <1>1, <2>3, <2>4 DEF TypeOK
<1>3. SumBounded
  <2>1. Word - 1 \in Nat /\ MaxSize \in Nat
    BY WordIsNat, QueueConstants
  <2>2. MaxSize * (Word - 1) \in Nat
    BY <2>1
  <2> QED
    BY <2>2, WordIsNat DEF Init, SumBounded
<1> QED
  BY <1>1, <1>2, <1>3 DEF Init, IInv, NoneTooLong, HandIsFirst, InHand, Untouched, HalfReversed, Reversed

(* What a step that leaves the packet in hand alone has to show.           *)
LEMMA InHandKept ==
  ASSUME IInv, TypeOK', NoneTooLong',
         UNCHANGED <<pc, packet, head, tail, at, count, sum>>,
         InHand => held' # <<>> /\ held'[1] = held[1]
  PROVE  IInv'
<1>1. HandIsFirst' /\ Untouched'
  BY DEF IInv, HandIsFirst, Untouched, InHand
<1>2. HalfReversed'
  BY DEF IInv, HalfReversed, InHand, Source, Opposite, Place, BodyLength
<1>3. Reversed'
  BY DEF IInv, Reversed, InHand
<1>4. SumBounded'
  BY DEF IInv, SumBounded
<1> QED
  BY <1>1, <1>2, <1>3, <1>4 DEF IInv

(* The kernel only adds behind the packet in hand.                         *)
LEMMA ArriveKeepsIInv ==
  ASSUME IInv, NEW p \in Packets, Arrive(p)
  PROVE  IInv'
<1>1. /\ held \in Seq(Entry) /\ Len(held) \in Nat
      /\ p \in Seq(Bytes) /\ Len(p) <= MaxSize
  BY QueueConstants, LenProperties DEF IInv, TypeOK
<1>2. overrun' \in BOOLEAN
  BY Zenon DEF Arrive, IInv, TypeOK
<1>3. nextId' \in 1..(MaxId + 1)
  <2>1. MaxId \in Nat
    BY QueueConstants
  <2> QED
    BY <2>1 DEF Arrive, IInv, TypeOK
<1>4. CASE held' = held
  <2>1. TypeOK' /\ NoneTooLong'
    BY <1>4, <1>2, <1>3 DEF Arrive, IInv, TypeOK, swapVars, sumVars, NoneTooLong
  <2> QED
    BY <1>4, <2>1, InHandKept DEF Arrive, swapVars, sumVars, IInv, HandIsFirst
<1>5. CASE held' = Append(held, [id |-> nextId, bytes |-> p])
  <2>1. [id |-> nextId, bytes |-> p] \in Entry
    BY <1>1 DEF Arrive, Entry, IInv, TypeOK
  <2>2. /\ held' \in Seq(Entry) /\ Len(held') = Len(held) + 1
        /\ \A i \in 1..Len(held) : held'[i] = held[i]
        /\ held'[Len(held) + 1].bytes = p
    BY <1>1, <1>5, <2>1, AppendProperties
  <2>3. TypeOK'
    BY <2>2, <1>2, <1>3 DEF Arrive, IInv, TypeOK, swapVars, sumVars
  <2>4. NoneTooLong'
    BY <1>1, <2>2 DEF IInv, NoneTooLong
  <2>5. InHand => held' # <<>> /\ held'[1] = held[1]
    BY <1>1, <2>2, EmptySeq DEF IInv, HandIsFirst
  <2> QED
    BY <2>3, <2>4, <2>5, InHandKept DEF Arrive, swapVars, sumVars
<1> QED
  BY <1>4, <1>5 DEF Arrive

(* A step after which no packet is in hand.                                *)
LEMMA NothingInHand ==
  ASSUME IInv, TypeOK', NoneTooLong', sum' = sum, ~InHand'
  PROVE  IInv'
<1>1. SumBounded'
  BY DEF IInv, SumBounded, InHand
<1> QED
  BY <1>1 DEF IInv, InHand, HandIsFirst, Untouched, HalfReversed, Reversed

LEMMA RecvKeepsIInv == IInv /\ Recv => IInv'
<1> SUFFICES ASSUME IInv, Recv PROVE IInv'
  OBVIOUS
<1>1. held[1] \in Entry /\ held[1].bytes \in Seq(Bytes)
  <2>1. held \in Seq(Entry) /\ held # <<>>
    BY DEF IInv, TypeOK, Recv
  <2>2. held[1] \in Entry
    BY <2>1, HeadAndTail
  <2> QED
    BY <2>2 DEF Entry
<1>2. TypeOK'
  BY <1>1 DEF Recv, IInv, TypeOK, kernelVars, swapVars, sumVars
<1>3. SumBounded'
  BY DEF Recv, IInv, SumBounded, sumVars
<1> QED
  BY <1>1, <1>2, <1>3
     DEF Recv, IInv, NoneTooLong, HandIsFirst, InHand, Untouched, HalfReversed, Reversed, kernelVars

LEMMA EndKeepsIInv ==
  ASSUME IInv, NEW how \in {"exited", "crashed"}, End(how)
  PROVE  IInv'
<1>1. held' = <<>> /\ held' \in Seq(Entry) /\ Len(held') = 0
  BY EmptySeq DEF End
<1>2. TypeOK' /\ NoneTooLong' /\ ~InHand' /\ sum' = sum
  BY <1>1 DEF End, IInv, TypeOK, NoneTooLong, InHand, swapVars, sumVars
<1> QED
  BY <1>2, NothingInHand

(* A packet leaves the front of the queue.                                 *)
LEMMA ReleaseKeepsIInv == IInv /\ (RecvTruncated \/ Verdict) => IInv'
<1> SUFFICES ASSUME IInv, RecvTruncated \/ Verdict PROVE IInv'
  OBVIOUS
<1>1. held \in Seq(Entry) /\ held # <<>> /\ held' = Tail(held)
  BY DEF IInv, TypeOK, HandIsFirst, InHand, RecvTruncated, Verdict, Released
<1>2. /\ Len(held) \in Nat \ {0} /\ held[1] \in Entry
      /\ held' \in Seq(Entry) /\ Len(held') = Len(held) - 1
      /\ \A i \in 1..(Len(held) - 1) : held'[i] = held[i + 1]
  BY <1>1, HeadAndTail
<1>3. NoneTooLong'
  BY <1>2 DEF IInv, NoneTooLong
<1>4. sent' \in Seq(Entry)
  <2>1. CASE RecvTruncated
    BY <2>1 DEF RecvTruncated, IInv, TypeOK
  <2>2. CASE Verdict
    <3>1. [id |-> held[1].id, bytes |-> packet] \in Entry /\ sent \in Seq(Entry)
      BY <1>2 DEF IInv, TypeOK, Entry
    <3> QED
      BY <2>2, <3>1, AppendProperties DEF Verdict
  <2> QED
    BY <2>1, <2>2
<1>5. stuck' \in SUBSET (1..MaxId)
  BY <1>2 DEF RecvTruncated, Verdict, IInv, TypeOK, Entry
<1>6. TypeOK' /\ ~InHand' /\ sum' = sum
  BY <1>2, <1>4, <1>5 DEF RecvTruncated, Verdict, IInv, TypeOK, InHand, swapVars, sumVars
<1> QED
  BY <1>3, <1>6, NothingInHand

-----------------------------------------------------------------------------
(* The constants the loops rest on.                                        *)
LEMMA Sizes == /\ IpLen \in Nat /\ IcmpLen \in Nat /\ Header \in Nat
               /\ Wrap \in Nat /\ Wrap > MaxSize /\ Wrap > Header + 1
               /\ MaxSize \in Nat
BY QueueConstants DEF Header

LEMMA PacketFacts ==
  ASSUME IInv, InHand
  PROVE  /\ held \in Seq(Entry) /\ held # <<>> /\ Len(held) \in Nat \ {0}
         /\ held[1].bytes \in Seq(Bytes)
         /\ packet \in Seq(Bytes) /\ Len(packet) \in Nat /\ Len(packet) <= MaxSize
         /\ Len(packet) = Len(held[1].bytes)
         /\ \A k \in 1..Len(packet) : packet[k] \in Bytes
<1>1. held \in Seq(Entry) /\ held # <<>> /\ packet \in Seq(Bytes)
  BY DEF IInv, TypeOK, HandIsFirst
<1>2. Len(held) \in Nat \ {0} /\ held[1] \in Entry
  BY <1>1, HeadAndTail
<1>3. held[1].bytes \in Seq(Bytes)
  BY <1>2 DEF Entry
<1>4. Len(held[1].bytes) <= MaxSize
  BY <1>2 DEF IInv, NoneTooLong
<1> QED
  BY <1>1, <1>2, <1>3, <1>4, ElementOfSequence DEF IInv, HandIsFirst

(* Taking 1 from an unsigned length.                                       *)
LEMMA LastOffset ==
  ASSUME NEW n \in Nat, n <= MaxSize
  PROVE  /\ n > Header => (n - Header - 1) % Wrap = n - Header - 1
         /\ n <= Header => (n - Header - 1) % Wrap = n - Header - 1 + Wrap
<1>1. ASSUME NEW m \in Int, NEW w \in Nat, 0 <= m, m < w PROVE m % w = m
  BY <1>1
<1>2. ASSUME NEW m \in Int, NEW w \in Nat, 0 <= m + w, m < 0 PROVE m % w = m + w
  BY <1>2
<1> QED
  BY <1>1, <1>2, Sizes

LEMMA PrintedKeepsIInv == IInv /\ Printed => IInv'
<1> SUFFICES ASSUME IInv, Printed PROVE IInv'
  OBVIOUS
<1>1. InHand
  BY DEF Printed, InHand
<1>2. /\ Len(packet) \in Nat /\ Len(packet) <= MaxSize
      /\ packet = held[1].bytes
  BY <1>1, PacketFacts DEF Printed, IInv, Untouched
<1>3. /\ Len(packet) > Header => tail' = Len(packet) - Header - 1
      /\ Len(packet) <= Header => tail' = Len(packet) - Header - 1 + Wrap
  BY <1>2, LastOffset DEF Printed, Last, BodyLength
<1>4. tail' \in Int
  BY <1>2, <1>3, Sizes
<1>5. TypeOK'
  BY <1>4 DEF Printed, IInv, TypeOK, kernelVars, sumVars
<1>6. HalfReversed'
  <2>1. head' = 0 /\ packet' = packet /\ held' = held /\ pc' = "swap"
    BY DEF Printed, kernelVars
  <2>2. /\ Place(head)' = Header + 1
        /\ Place(tail)' = Header + 1 + tail'
        /\ BodyLength' = Len(packet) - Header
    BY <2>1, Sizes DEF Place, BodyLength
  <2>3. CASE Len(packet) <= Header
    BY <2>1, <2>2, <2>3, <1>2, <1>3, Sizes DEF HalfReversed
  <2>4. CASE Len(packet) > Header
    <3>1. Place(tail)' = Len(packet) /\ tail' = BodyLength' - 1 - head' /\ BodyLength' > 0
      BY <2>1, <2>2, <2>4, <1>2, <1>3, Sizes
    <3>2. \A k \in 1..Len(packet) : Source(k)' = k
      <4> TAKE k \in 1..Len(packet)
      <4>1. Source(k)' = IF k > Header /\ (k < Header + 1 \/ k > Len(packet)) THEN Opposite(k)' ELSE k
        BY <2>2, <3>1 DEF Source
      <4>2. ~(k > Header /\ (k < Header + 1 \/ k > Len(packet)))
        BY <1>2, Sizes
      <4> QED
        BY <4>1, <4>2
    <3>3. head' <= tail' + 1
      BY <2>1, <2>2, <3>1, <1>2, Sizes
    <3> QED
      BY <2>1, <3>1, <3>2, <3>3, <1>2 DEF HalfReversed
  <2> QED
    BY <2>3, <2>4, <1>2, Sizes
<1>7. SumBounded'
  BY DEF Printed, IInv, SumBounded, sumVars
<1> QED
  BY <1>5, <1>6, <1>7
     DEF Printed, IInv, NoneTooLong, HandIsFirst, InHand, Untouched, Reversed, kernelVars

LEMMA SwapKeepsIInv == IInv /\ SwapPair => IInv'
<1> SUFFICES ASSUME IInv, SwapPair PROVE IInv'
  OBVIOUS
<1> DEFINE a == Place(head)
           b == Place(tail)
           n == Len(packet)
           q == [packet EXCEPT ![a] = packet[b]]
<1>1. InHand
  BY DEF SwapPair, InHand
<1>2. /\ packet \in Seq(Bytes) /\ n \in Nat
      /\ \A k \in 1..n : packet[k] \in Bytes
  BY <1>1, PacketFacts
<1>3. /\ head \in Nat /\ tail \in Int /\ head < tail
      /\ n > Header /\ tail = n - Header - 1 - head
      /\ \A k \in 1..n : packet[k] = held[1].bytes[Source(k)]
  <2>1. head \in Nat /\ tail \in Int /\ head < tail /\ Place(tail) <= Len(packet)
    BY DEF SwapPair, IInv, TypeOK
  <2>2. /\ BodyLength > 0 /\ tail = BodyLength - 1 - head
        /\ \A k \in 1..n : packet[k] = held[1].bytes[Source(k)]
    <3>1. ~(Place(tail) > Len(packet))
      BY <2>1, <1>2, Sizes DEF Place
    <3> QED
      BY <3>1 DEF IInv, HalfReversed, SwapPair
  <2> QED
    BY <1>2, <2>1, <2>2, Sizes DEF BodyLength
<1>4. a \in 1..n /\ b \in 1..n /\ a # b /\ a > Header /\ b = Header + n + 1 - a
  BY <1>2, <1>3, Sizes DEF Place
<1>5. /\ q \in Seq(Bytes) /\ Len(q) = n
      /\ \A k \in 1..n : q[k] = IF k = a THEN packet[b] ELSE packet[k]
  BY <1>2, <1>4, WriteKeepsSequence
<1>6. packet' = [q EXCEPT ![b] = packet[a]]
  BY DEF SwapPair
<1>7. /\ packet' \in Seq(Bytes) /\ Len(packet') = n
      /\ \A k \in 1..n : packet'[k] = IF k = b THEN packet[a]
                                     ELSE IF k = a THEN packet[b] ELSE packet[k]
  <2> HIDE DEF q, a, b, n
  <2>1. packet[a] \in Bytes
    BY <1>2, <1>4
  <2> QED
    BY <1>5, <1>6, <2>1, WriteKeepsSequence
<1>8. TypeOK'
  BY <1>3, <1>7 DEF SwapPair, IInv, TypeOK, kernelVars, sumVars
<1>9. HalfReversed'
  <2>1. /\ head' = head + 1 /\ tail' = tail - 1 /\ held' = held
        /\ Place(head)' = a + 1 /\ Place(tail)' = b - 1
    <3>1. head' = head + 1 /\ tail' = tail - 1
      BY DEF SwapPair
    <3>2. held' = held
      BY DEF SwapPair, kernelVars
    <3>3. Place(head)' = Header + 1 + head' /\ Place(tail)' = Header + 1 + tail'
      BY DEF Place
    <3>4. a = Header + 1 + head /\ b = Header + 1 + tail
      BY DEF Place
    <3> HIDE DEF a, b
    <3> QED
      BY <1>3, <3>1, <3>2, <3>3, <3>4, Sizes
  <2>2. \A k \in 1..n : packet'[k] = held[1].bytes[Source(k)']
    <3> TAKE k \in 1..n
    <3> HIDE DEF q
    <3>1. CASE k = b
      <4>1. Source(a) = a
        BY <1>2, <1>3, <1>4, Sizes DEF Source, Place
      <4>2. Source(k)' = a
        BY <3>1, <1>2, <1>4, <1>7, <2>1, Sizes DEF Source, Opposite
      <4> QED
        BY <3>1, <4>1, <4>2, <1>3, <1>4, <1>7
    <3>2. CASE k = a
      <4>1. Source(b) = b
        BY <1>2, <1>3, <1>4, Sizes DEF Source, Place
      <4>2. Source(k)' = b
        BY <3>2, <1>2, <1>4, <1>7, <2>1, Sizes DEF Source, Opposite
      <4> QED
        BY <3>2, <4>1, <4>2, <1>3, <1>4, <1>7
    <3>3. CASE k # a /\ k # b
      <4>1. Source(k) = IF k > Header /\ (k < a \/ k > b) THEN Header + n + 1 - k ELSE k
        BY DEF Source, Opposite
      <4>2. Source(k)' = IF k > Header /\ (k < a + 1 \/ k > b - 1) THEN Header + n + 1 - k ELSE k
        BY <1>7, <2>1 DEF Source, Opposite
      <4>3. Source(k)' = Source(k)
        <5> HIDE DEF a, b, n
        <5> QED
          BY <3>3, <1>2, <1>4, <4>1, <4>2, Sizes
      <4> QED
        BY <3>3, <4>3, <1>3, <1>7
    <3> QED
      BY <3>1, <3>2, <3>3
  <2> HIDE DEF q, a, b
  <2> QED
    BY <1>2, <1>3, <1>7, <2>1, <2>2, Sizes DEF HalfReversed, BodyLength
<1>10. SumBounded' /\ NoneTooLong'
  BY DEF SwapPair, IInv, SumBounded, NoneTooLong, sumVars, kernelVars
<1>11. HandIsFirst' /\ Untouched' /\ Reversed'
  BY <1>7 DEF SwapPair, IInv, HandIsFirst, InHand, Untouched, Reversed, kernelVars
<1> QED
  BY <1>8, <1>9, <1>10, <1>11 DEF IInv

(* When the pointers have met, every byte of the body has changed places.  *)
LEMMA EndSwapKeepsIInv == IInv /\ EndSwap => IInv'
<1> SUFFICES ASSUME IInv, EndSwap PROVE IInv'
  OBVIOUS
<1> DEFINE n == Len(packet)
<1>1. InHand
  BY DEF EndSwap, InHand
<1>2. packet \in Seq(Bytes) /\ n \in Nat /\ n <= MaxSize /\ n = Len(held[1].bytes)
  BY <1>1, PacketFacts
<1>3. 0 \in 0..(Word - 1)
  BY WordIsNat
<1>4. /\ packet' \in Seq(Bytes) /\ Len(packet') = n
      /\ \A k \in Unsummed(n) : packet'[k] = packet[k]
  BY <1>2, <1>3, ChecksumWritten DEF EndSwap
<1>5. head \in Nat /\ tail \in Int /\ head >= tail
  BY DEF EndSwap, IInv, TypeOK
<1>6. /\ n - Header > 0 /\ tail = n - Header - 1 - head /\ head <= tail + 1
      /\ \A k \in 1..n : packet[k] = held[1].bytes[Source(k)]
  BY <1>5 DEF EndSwap, IInv, HalfReversed, BodyLength
<1>7. \A k \in 1..n : Source(k) = IF k <= Header THEN k ELSE Header + n + 1 - k
  <2> TAKE k \in 1..n
  <2>1. Source(k) = IF k > Header /\ (k < Header + 1 + head \/ k > Header + 1 + tail)
                    THEN Header + n + 1 - k ELSE k
    BY DEF Source, Opposite, Place
  <2>2. /\ k \in Nat /\ n \in Nat /\ head \in Nat /\ tail \in Int /\ Header \in Nat
        /\ head >= tail /\ tail = n - Header - 1 - head
    BY <1>2, <1>5, <1>6, Sizes
  <2> HIDE DEF n
  <2>3. CASE k <= Header
    BY <2>1, <2>2, <2>3
  <2>4. CASE k > Header /\ (k < Header + 1 + head \/ k > Header + 1 + tail)
    BY <2>1, <2>2, <2>4
  <2>5. CASE k >= Header + 1 + head /\ k <= Header + 1 + tail
    <3>1. k = Header + n + 1 - k
      BY <2>2, <2>5
    <3> QED
      BY <2>1, <2>2, <2>5, <3>1
  <2> QED
    BY <2>2, <2>3, <2>4, <2>5
<1>8. Reversed'
  <2>1. held' = held
    BY DEF EndSwap, kernelVars
  <2>2. Mangled(held[1].bytes, packet')
    BY <1>2, <1>4, <1>6, <1>7 DEF Mangled, Unsummed
  <2> QED
    BY <2>1, <2>2 DEF Reversed
<1>9. TypeOK'
  BY <1>2, <1>4 DEF EndSwap, IInv, TypeOK, kernelVars, swapVars
<1>10. SumBounded'
  <2>1. n * (Word - 1) <= MaxSize * (Word - 1) /\ MaxSize * (Word - 1) \in Nat
    <3>1. \A x, y, z \in Nat : x <= y => x * z <= y * z /\ y * z \in Nat
      OBVIOUS
    <3>2. Word - 1 \in Nat
      BY WordIsNat
    <3> HIDE DEF n
    <3> QED
      BY <1>2, <3>1, <3>2, Sizes
  <2>2. at' = 1 /\ count' = n /\ sum' = 0 /\ pc' = "sum"
    BY DEF EndSwap
  <2>3. 2 * sum' <= MaxSize * (Word - 1) + Word
    BY <2>1, <2>2, WordIsNat
  <2>4. 2 * sum' + count' * (Word - 1) <= MaxSize * (Word - 1)
    <3> DEFINE x == n * (Word - 1)
    <3>1. x \in Int
      BY <1>2, WordIsNat
    <3>2. 2 * sum' + x = x
      <4> HIDE DEF x
      <4> QED
        BY <2>2, <3>1
    <3> QED
      BY <2>1, <2>2, <3>2
  <2>5. at' + count' = Len(packet') + 1 /\ count' >= 0 /\ at' >= 1
    <3> HIDE DEF n
    <3> QED
      BY <1>2, <1>4, <2>2
  <2> QED
    BY <2>3, <2>4, <2>5 DEF SumBounded
<1> QED
  BY <1>4, <1>8, <1>9, <1>10
     DEF EndSwap, IInv, NoneTooLong, HandIsFirst, InHand, Untouched, HalfReversed, kernelVars

(* What the checksum's steps leave as it is.                               *)
LEMMA SummingKeepsIInv ==
  ASSUME IInv, pc \in {"sum", "fold"}, pc' \in {"sum", "fold"},
         UNCHANGED <<kernelVars, packet, swapVars>>,
         sum' \in Nat, at' \in Nat, count' \in Int, SumBounded'
  PROVE  IInv'
<1>1. TypeOK'
  BY DEF IInv, TypeOK, kernelVars, swapVars
<1> QED
  BY <1>1 DEF IInv, NoneTooLong, HandIsFirst, InHand, Untouched, HalfReversed, Reversed, kernelVars

LEMMA SumWordKeepsIInv == IInv /\ SumWord => IInv'
<1> SUFFICES ASSUME IInv, SumWord PROVE IInv'
  OBVIOUS
<1> DEFINE w == Word - 1
           m == MaxSize * w
<1>1. InHand
  BY DEF SumWord, InHand
<1>2. /\ Len(packet) \in Nat /\ Len(packet) <= MaxSize
      /\ \A k \in 1..Len(packet) : packet[k] \in Bytes
  BY <1>1, PacketFacts
<1>3. /\ sum \in Nat /\ at \in Nat /\ count \in Int /\ count > 1
      /\ at >= 1 /\ at + count = Len(packet) + 1
      /\ 2 * sum + count * w <= m
  BY DEF SumWord, IInv, TypeOK, SumBounded
<1>4. at \in 1..Len(packet) /\ at + 1 \in 1..Len(packet)
  BY <1>2, <1>3
<1>5. WordAt(at) \in 0..w
  BY <1>2, <1>4, WordOfBytes DEF WordAt
<1>6. sum' = sum + WordAt(at) /\ at' = at + 2 /\ count' = count - 2 /\ pc' = pc /\ pc = "sum"
  BY DEF SumWord
<1>7. w \in Nat /\ m \in Nat /\ Word = w + 1
  BY WordIsNat, Sizes
<1> HIDE DEF w, m
<1>8. count' * w = count * w - 2 * w
  BY <1>3, <1>6, <1>7
<1>9. 2 * sum' + count' * w <= m
  <2>1. count * w \in Int
    BY <1>3, <1>7
  <2> QED
    BY <1>3, <1>5, <1>6, <1>7, <1>8, <2>1
<1>10. count' * w \in Nat
  BY <1>3, <1>6, <1>7
<1>11. SumBounded'
  <2>1. 2 * sum' <= m + Word
    BY <1>3, <1>5, <1>6, <1>7, <1>9, <1>10
  <2>2. Len(packet') = Len(packet)
    BY DEF SumWord
  <2> QED
    BY <2>1, <2>2, <1>2, <1>3, <1>6, <1>9 DEF SumBounded, w, m
<1>12. sum' \in Nat /\ at' \in Nat /\ count' \in Int
  BY <1>3, <1>5, <1>6, <1>7
<1> QED
  BY <1>6, <1>11, <1>12, SummingKeepsIInv DEF SumWord

LEMMA EndSumKeepsIInv == IInv /\ EndSum => IInv'
<1> SUFFICES ASSUME IInv, EndSum PROVE IInv'
  OBVIOUS
<1> DEFINE w == Word - 1
           m == MaxSize * w
<1>1. InHand
  BY DEF EndSum, InHand
<1>2. /\ Len(packet) \in Nat
      /\ \A k \in 1..Len(packet) : packet[k] \in Bytes
  BY <1>1, PacketFacts
<1>3. /\ sum \in Nat /\ at \in Nat /\ count \in {0, 1}
      /\ at >= 1 /\ at + count = Len(packet) + 1
      /\ 2 * sum + count * w <= m
  BY DEF EndSum, IInv, TypeOK, SumBounded
<1>4. LastByte \in 0..(Base - 1)
  BY <1>2, <1>3, WordIsNat DEF LastByte, Bytes
<1>5. w \in Nat /\ m \in Nat /\ Word = w + 1 /\ 2 * (Base - 1) <= Word
  BY WordIsNat, Sizes
<1>6. sum' = sum + LastByte /\ pc' = "fold" /\ at' = at /\ count' = count
  BY DEF EndSum
<1> HIDE DEF w, m
<1>7. sum' \in Nat /\ 2 * sum' <= m + Word
  <2>1. count * w \in Nat
    BY <1>3, <1>5
  <2> QED
    BY <2>1, <1>3, <1>4, <1>5, <1>6, WordIsNat
<1>8. SumBounded'
  BY <1>6, <1>7 DEF SumBounded, w, m
<1> QED
  BY <1>3, <1>6, <1>7, <1>8, SummingKeepsIInv DEF EndSum

LEMMA FoldCarryKeepsIInv == IInv /\ FoldCarry => IInv'
<1> SUFFICES ASSUME IInv, FoldCarry PROVE IInv'
  OBVIOUS
<1>1. sum \in Nat /\ at \in Nat /\ count \in Int /\ 2 * sum <= MaxSize * (Word - 1) + Word
  BY DEF IInv, TypeOK, SumBounded
<1>2. sum' \in Nat /\ sum' <= sum
  BY <1>1, FoldingShrinks DEF FoldCarry, Folded
<1>3. MaxSize * (Word - 1) + Word \in Nat
  BY WordIsNat, Sizes
<1>4. SumBounded'
  <2> DEFINE m == MaxSize * (Word - 1) + Word
  <2>1. 2 * sum' <= m
    <3>1. m \in Nat /\ sum \in Nat /\ 2 * sum <= m
      BY <1>1, <1>3
    <3>2. \A x, y, z \in Nat : x <= y /\ 2 * y <= z => 2 * x <= z
      OBVIOUS
    <3> HIDE DEF m
    <3> QED
      BY <3>1, <3>2, <1>2
  <2> QED
    BY <2>1 DEF SumBounded, FoldCarry
<1> QED
  BY <1>1, <1>2, <1>4, SummingKeepsIInv DEF FoldCarry

LEMMA EndFoldKeepsIInv == IInv /\ EndFold => IInv'
<1> SUFFICES ASSUME IInv, EndFold PROVE IInv'
  OBVIOUS
<1>1. InHand
  BY DEF EndFold, InHand
<1>2. sum \in Nat /\ Word \in Nat /\ Word >= 4
  BY WordIsNat DEF IInv, TypeOK
<1>3. sum < Word
  BY <1>2 DEF EndFold
<1>4. Word - 1 - sum \in 0..(Word - 1)
  BY <1>2, <1>3
<1>5. packet \in Seq(Bytes) /\ Len(packet) = Len(held[1].bytes)
  BY <1>1, PacketFacts
<1>6. /\ packet' \in Seq(Bytes) /\ Len(packet') = Len(packet)
      /\ \A k \in Unsummed(Len(packet)) : packet'[k] = packet[k]
  BY <1>4, <1>5, ChecksumWritten DEF EndFold
<1>7. held' = held
  BY DEF EndFold, kernelVars
<1>8. Reversed'
  <2>1. Mangled(held[1].bytes, packet)
    BY DEF EndFold, IInv, Reversed
  <2>2. Mangled(held[1].bytes, packet')
    BY <1>5, <1>6, <2>1 DEF Mangled
  <2> QED
    BY <1>7, <2>2 DEF Reversed
<1>9. TypeOK' /\ SumBounded'
  BY <1>6 DEF EndFold, IInv, TypeOK, SumBounded, kernelVars, swapVars, sumVars
<1> QED
  BY <1>6, <1>7, <1>8, <1>9
     DEF EndFold, IInv, NoneTooLong, HandIsFirst, InHand, Untouched, HalfReversed

-----------------------------------------------------------------------------
LEMMA NextKeepsIInv == IInv /\ [Next]_vars => IInv'
<1> SUFFICES ASSUME IInv, [Next]_vars PROVE IInv'
  OBVIOUS
<1>1. CASE \E p \in Packets : Arrive(p)
  BY <1>1, ArriveKeepsIInv
<1>2. CASE Recv
  BY <1>2, RecvKeepsIInv
<1>3. CASE RecvTruncated \/ Verdict
  BY <1>3, ReleaseKeepsIInv
<1>4. CASE RecvFails \/ PrintFails \/ SwapFaults
  BY <1>4, EndKeepsIInv DEF RecvFails, PrintFails, SwapFaults
<1>5. CASE Printed \/ SwapPair \/ EndSwap
  BY <1>5, PrintedKeepsIInv, SwapKeepsIInv, EndSwapKeepsIInv
<1>6. CASE SumWord \/ EndSum \/ FoldCarry \/ EndFold
  BY <1>6, SumWordKeepsIInv, EndSumKeepsIInv, FoldCarryKeepsIInv, EndFoldKeepsIInv
<1>7. CASE UNCHANGED vars
  BY <1>7 DEF vars, IInv, TypeOK, NoneTooLong, HandIsFirst, InHand, Untouched, HalfReversed,
              Source, Opposite, Place, BodyLength, Reversed, SumBounded
<1> QED
  BY <1>1, <1>2, <1>3, <1>4, <1>5, <1>6, <1>7 DEF Next, Program

(* For packets of any length and bytes of any width the state is well      *)
(* typed: in particular every byte written is a byte.                      *)
THEOREM TypeCorrect == Spec => []TypeOK
<1>1. IInv => TypeOK
  BY DEF IInv
<1> QED
  BY <1>1, InitIInv, NextKeepsIInv, PTL DEF Spec

(* The accumulator of internet_checksum never leaves an int, for every     *)
(* packet the copy range of nfq_set_mode admits.                           *)
THEOREM SumStaysInInt == Spec => []SumFits
<1>1. IInv => SumFits
  <2> SUFFICES ASSUME IInv PROVE sum <= IntMax
    BY DEF SumFits
  <2> DEFINE m == MaxSize * (Word - 1) + Word
  <2>1. sum \in Nat /\ 2 * sum <= m
    BY DEF IInv, TypeOK, SumBounded
  <2>2. m <= 2 * IntMax /\ IntMax \in Nat
    BY QueueConstants
  <2>3. m \in Nat
    BY WordIsNat, Sizes
  <2> HIDE DEF m
  <2> QED
    BY <2>1, <2>2, <2>3
<1> QED
  BY <1>1, InitIInv, NextKeepsIInv, PTL DEF Spec

(* What is accepted has the id of the packet in hand and its bytes, with   *)
(* the body in reverse and nothing else changed but the checksum.          *)
THEOREM BodyComesOutReversed == Spec => AcceptsReversed
<1> DEFINE Good == sent' # sent => /\ sent'[Len(sent')].id = held[1].id
                                   /\ Mangled(held[1].bytes, sent'[Len(sent')].bytes)
<1>1. IInv /\ [Next]_vars => [Good]_vars
  <2> SUFFICES ASSUME IInv, Next, sent' # sent PROVE Good
    BY DEF vars
  <2>1. Verdict
    BY DEF Next, Program, Arrive, Recv, RecvTruncated, RecvFails, PrintFails, End, Printed,
           SwapPair, SwapFaults, EndSwap, SumWord, EndSum, FoldCarry, EndFold, kernelVars
  <2>2. InHand /\ Mangled(held[1].bytes, packet)
    BY <2>1 DEF Verdict, InHand, IInv, Reversed
  <2>3. held[1] \in Entry /\ packet \in Seq(Bytes)
    BY <2>2, PacketFacts, HeadAndTail
  <2>4. [id |-> held[1].id, bytes |-> packet] \in Entry /\ sent \in Seq(Entry)
    BY <2>3 DEF IInv, TypeOK, Entry
  <2>5. sent'[Len(sent')] = [id |-> held[1].id, bytes |-> packet]
    BY <2>1, <2>4, AppendProperties DEF Verdict
  <2> QED
    BY <2>2, <2>5
<1> QED
  BY <1>1, InitIInv, NextKeepsIInv, PTL DEF Spec, AcceptsReversed

-----------------------------------------------------------------------------
(* In order: what was accepted came before what is held, both came one     *)
(* after the other, and all of them, and those that got stuck, before what *)
(* will arrive.                                                            *)
Rising(s) == \A i, j \in 1..Len(s) : i < j => s[i].id < s[j].id
Before(s, n) == \A i \in 1..Len(s) : s[i].id < n
ClearOf(s, ids) == \A i \in 1..Len(s) : s[i].id \notin ids

Arrivals ==
  /\ Rising(sent) /\ Rising(held)
  /\ held # <<>> => Before(sent, held[1].id)
  /\ Before(sent, nextId) /\ Before(held, nextId)
  /\ ClearOf(sent, stuck) /\ ClearOf(held, stuck)
  /\ \A n \in stuck : n < nextId

LEMMA EntryHasId ==
  ASSUME NEW s \in Seq(Entry)
  PROVE  Len(s) \in Nat /\ \A i \in 1..Len(s) : s[i] \in Entry /\ s[i].id \in Nat
<1>1. Len(s) \in Nat /\ \A i \in 1..Len(s) : s[i] \in Entry
  BY ElementOfSequence
<1>2. \A e \in Entry : e.id \in Nat
  BY QueueConstants DEF Entry
<1> QED
  BY <1>1, <1>2

(* One more behind those that came before it.                              *)
LEMMA RisingAppended ==
  ASSUME NEW s \in Seq(Entry), NEW e \in Entry, Rising(s), Before(s, e.id)
  PROVE  /\ Append(s, e) \in Seq(Entry)
         /\ Rising(Append(s, e))
         /\ \A n \in Nat : e.id < n => Before(Append(s, e), n)
         /\ \A ids : e.id \notin ids /\ ClearOf(s, ids) => ClearOf(Append(s, e), ids)
<1> DEFINE t == Append(s, e)
<1>1. /\ t \in Seq(Entry) /\ Len(t) = Len(s) + 1
      /\ \A i \in 1..Len(s) : t[i] = s[i]
      /\ t[Len(s) + 1] = e
  BY AppendProperties
<1>2. Len(s) \in Nat /\ (\A i \in 1..Len(s) : s[i].id \in Nat) /\ e.id \in Nat
  <2>1. \A n \in 1..MaxId : n \in Nat
    BY QueueConstants
  <2>2. e.id \in 1..MaxId
    BY DEF Entry
  <2> QED
    BY <2>1, <2>2, EntryHasId
<1> HIDE DEF t
<1>3. \A i \in 1..Len(t) : i \in 1..Len(s) \/ i = Len(s) + 1
  BY <1>1, <1>2
<1>4. Rising(t)
  <2> SUFFICES ASSUME NEW i \in 1..Len(t), NEW j \in 1..Len(t), i < j PROVE t[i].id < t[j].id
    BY DEF Rising
  <2>1. i \in 1..Len(s)
    BY <1>1, <1>2
  <2>2. CASE j \in 1..Len(s)
    BY <2>1, <2>2, <1>1 DEF Rising
  <2>3. CASE j = Len(s) + 1
    BY <2>1, <2>3, <1>1 DEF Before
  <2> QED
    BY <1>3, <2>2, <2>3
<1>5. \A n \in Nat : e.id < n => Before(t, n)
  <2> SUFFICES ASSUME NEW n \in Nat, e.id < n, NEW i \in 1..Len(t) PROVE t[i].id < n
    BY DEF Before
  <2>1. CASE i \in 1..Len(s)
    <3>1. t[i].id = s[i].id /\ s[i].id \in Nat /\ s[i].id < e.id
      BY <2>1, <1>1, <1>2 DEF Before
    <3> QED
      BY <3>1, <1>2
  <2>2. CASE i = Len(s) + 1
    BY <2>2, <1>1
  <2> QED
    BY <1>3, <2>1, <2>2
<1>6. \A ids : e.id \notin ids /\ ClearOf(s, ids) => ClearOf(t, ids)
  BY <1>1, <1>3 DEF ClearOf
<1> QED
  BY <1>1, <1>4, <1>5, <1>6 DEF t

(* The first leaves the queue: all others came after it.                   *)
LEMMA RisingTail ==
  ASSUME NEW s \in Seq(Entry), s # <<>>, Rising(s)
  PROVE  /\ Tail(s) \in Seq(Entry) /\ s[1] \in Entry /\ s[1].id \in Nat
         /\ Rising(Tail(s))
         /\ ClearOf(Tail(s), {s[1].id})
         /\ Tail(s) # <<>> => s[1].id < Tail(s)[1].id /\ Tail(s)[1].id \in Nat
         /\ \A n : Before(s, n) => Before(Tail(s), n) /\ s[1].id < n
         /\ \A ids : ClearOf(s, ids) => ClearOf(Tail(s), ids) /\ s[1].id \notin ids
<1> DEFINE t == Tail(s)
<1>1. /\ Len(s) \in Nat \ {0} /\ t \in Seq(Entry) /\ Len(t) = Len(s) - 1
      /\ \A i \in 1..(Len(s) - 1) : t[i] = s[i + 1]
  BY HeadAndTail
<1>2. \A i \in 1..Len(s) : s[i] \in Entry /\ s[i].id \in Nat
  BY EntryHasId
<1>3. t # <<>> => 1 \in 1..Len(t)
  BY <1>1, EmptySeq
<1> HIDE DEF t
<1>4. 1 \in 1..Len(s) /\ \A i \in 1..Len(t) : i + 1 \in 1..Len(s) /\ t[i] = s[i + 1] /\ 1 < i + 1
  BY <1>1
<1>5. Rising(t)
  <2> SUFFICES ASSUME NEW i \in 1..Len(t), NEW j \in 1..Len(t), i < j PROVE t[i].id < t[j].id
    BY DEF Rising
  <2>1. i + 1 < j + 1
    BY <1>1
  <2> QED
    BY <1>4, <2>1 DEF Rising
<1>6. \A i \in 1..Len(t) : s[1].id < t[i].id /\ t[i].id \in Nat
  BY <1>2, <1>4 DEF Rising
<1>7. ClearOf(t, {s[1].id})
  BY <1>2, <1>4, <1>6 DEF ClearOf
<1>8. \A n : Before(s, n) => Before(t, n) /\ s[1].id < n
  BY <1>4 DEF Before
<1>9. \A ids : ClearOf(s, ids) => ClearOf(t, ids) /\ s[1].id \notin ids
  BY <1>4 DEF ClearOf
<1> QED
  BY <1>1, <1>2, <1>3, <1>4, <1>5, <1>6, <1>7, <1>8, <1>9 DEF t

LEMMA InitArrivals == Init => Arrivals
<1>1. Init => Len(sent) = 0 /\ Len(held) = 0 /\ stuck = {}
  BY EmptySeq DEF Init
<1> QED
  BY <1>1 DEF Arrivals, Rising, Before, ClearOf

LEMMA ArriveKeepsArrivals ==
  ASSUME IInv, Arrivals, NEW p \in Packets, Arrive(p)
  PROVE  Arrivals'
<1>1. /\ nextId \in Nat /\ nextId' = nextId + 1 /\ nextId <= MaxId
      /\ sent' = sent /\ stuck' = stuck /\ stuck \subseteq Nat
      /\ sent \in Seq(Entry) /\ held \in Seq(Entry)
  BY QueueConstants DEF Arrive, IInv, TypeOK
<1>2. \A s \in Seq(Entry) : Before(s, nextId) => Before(s, nextId')
  BY <1>1, EntryHasId DEF Before
<1>3. Before(sent, nextId)
  BY DEF Arrivals
<1>4. CASE held' = held
  BY <1>1, <1>2, <1>4 DEF Arrivals, Rising, ClearOf
<1>5. CASE held' = Append(held, [id |-> nextId, bytes |-> p])
  <2> DEFINE e == [id |-> nextId, bytes |-> p]
  <2>1. e \in Entry /\ e.id = nextId
    BY <1>1, QueueConstants DEF Entry, IInv, TypeOK
  <2> HIDE DEF e
  <2>2. Rising(held') /\ Before(held', nextId') /\ ClearOf(held', stuck')
    <3>1. nextId \notin stuck
      BY <1>1 DEF Arrivals
    <3> QED
      BY <1>1, <1>5, <2>1, <3>1, RisingAppended DEF e, Arrivals
  <2>3. held' # <<>> => held'[1] = IF held = <<>> THEN e ELSE held[1]
    <3>1. Len(held) \in Nat /\ (held = <<>> => Len(held) = 0) /\ (held # <<>> => Len(held) # 0)
      BY <1>1, EmptySeq, LenProperties
    <3> QED
      BY <1>1, <1>5, <2>1, <3>1, AppendProperties DEF e
  <2>4. Rising(sent') /\ Before(sent', nextId') /\ ClearOf(sent', stuck')
    BY <1>1, <1>2, <1>3 DEF Arrivals
  <2>5. held' # <<>> => Before(sent', held'[1].id)
    BY <1>1, <2>1, <2>3, <1>3 DEF Arrivals
  <2> QED
    BY <1>1, <2>2, <2>4, <2>5 DEF Arrivals
<1> QED
  BY <1>4, <1>5 DEF Arrive

LEMMA ReleaseKeepsArrivals == IInv /\ Arrivals /\ (RecvTruncated \/ Verdict) => Arrivals'
<1> SUFFICES ASSUME IInv, Arrivals, RecvTruncated \/ Verdict PROVE Arrivals'
  OBVIOUS
<1>1. /\ held \in Seq(Entry) /\ held # <<>> /\ held' = Tail(held) /\ nextId' = nextId
      /\ sent \in Seq(Entry) /\ nextId \in Nat /\ packet \in Seq(Bytes)
  BY QueueConstants DEF IInv, TypeOK, HandIsFirst, InHand, RecvTruncated, Verdict, Released
<1>2. /\ Rising(held') /\ Before(held', nextId) /\ held[1].id < nextId
      /\ held[1] \in Entry /\ held[1].id \in Nat
      /\ ClearOf(held', stuck) /\ held[1].id \notin stuck
      /\ ClearOf(held', {held[1].id})
      /\ held' # <<>> => held[1].id < held'[1].id /\ held'[1].id \in Nat
  BY <1>1, RisingTail DEF Arrivals
<1>3. /\ Rising(sent) /\ ClearOf(sent, stuck) /\ Before(sent, held[1].id)
      /\ Len(sent) \in Nat /\ \A i \in 1..Len(sent) : sent[i].id \in Nat
  BY <1>1, EntryHasId DEF Arrivals
<1>4. held' # <<>> => Before(sent, held'[1].id)
  BY <1>2, <1>3 DEF Before
<1>5. CASE RecvTruncated
  <2>1. sent' = sent /\ stuck' = stuck \cup {held[1].id}
    BY <1>5 DEF RecvTruncated
  <2>2. ClearOf(sent, {held[1].id})
    BY <1>2, <1>3 DEF ClearOf, Before
  <2>3. ClearOf(sent', stuck') /\ ClearOf(held', stuck')
    BY <1>2, <1>3, <2>1, <2>2 DEF ClearOf
  <2>4. Before(sent, nextId)
    BY DEF Arrivals
  <2>5. \A n \in stuck' : n < nextId
    BY <1>2, <2>1 DEF Arrivals
  <2> QED
    BY <1>1, <1>2, <1>3, <1>4, <2>1, <2>3, <2>4, <2>5 DEF Arrivals
<1>6. CASE Verdict
  <2> DEFINE e == [id |-> held[1].id, bytes |-> packet]
  <2>1. e \in Entry /\ e.id = held[1].id
    BY <1>1, <1>2 DEF Entry
  <2>2. sent' = Append(sent, e) /\ stuck' = stuck
    BY <1>6 DEF Verdict
  <2> HIDE DEF e
  <2>3. /\ sent' \in Seq(Entry) /\ Rising(sent')
        /\ Before(sent', nextId) /\ ClearOf(sent', stuck)
        /\ held' # <<>> => Before(sent', held'[1].id)
    BY <1>1, <1>2, <1>3, <2>1, <2>2, RisingAppended
  <2> QED
    BY <1>1, <1>2, <2>2, <2>3 DEF Arrivals
<1> QED
  BY <1>5, <1>6

LEMMA NextKeepsArrivals == IInv /\ Arrivals /\ [Next]_vars => Arrivals'
<1> SUFFICES ASSUME IInv, Arrivals, [Next]_vars PROVE Arrivals'
  OBVIOUS
<1>1. CASE \E p \in Packets : Arrive(p)
  BY <1>1, ArriveKeepsArrivals
<1>2. CASE RecvTruncated \/ Verdict
  BY <1>2, ReleaseKeepsArrivals
<1>3. CASE RecvFails \/ PrintFails \/ SwapFaults
  <2>1. held' = <<>> /\ stuck' = {} /\ sent' = sent /\ nextId' = nextId /\ Len(held') = 0
    BY <1>3, EmptySeq DEF RecvFails, PrintFails, SwapFaults, End
  <2> QED
    BY <2>1 DEF Arrivals, Rising, Before, ClearOf
<1>4. CASE UNCHANGED kernelVars
  BY <1>4 DEF kernelVars, Arrivals, Rising, Before, ClearOf
<1>5. UNCHANGED vars => UNCHANGED kernelVars
  BY DEF vars, kernelVars
<1>6. Recv \/ Printed \/ SwapPair \/ EndSwap \/ SumWord \/ EndSum \/ FoldCarry \/ EndFold
         => UNCHANGED kernelVars
  BY DEF Recv, Printed, SwapPair, EndSwap, SumWord, EndSum, FoldCarry, EndFold
<1> QED
  BY <1>1, <1>2, <1>3, <1>4, <1>5, <1>6 DEF Next, Program

LEMMA ArrivalsInOrder == TypeOK /\ Arrivals => InOrder
<1> SUFFICES ASSUME TypeOK, Arrivals PROVE InOrder
  OBVIOUS
<1> DEFINE seen == sent \o held
           m == Len(sent)
<1>1. sent \in Seq(Entry) /\ held \in Seq(Entry)
  BY DEF TypeOK
<1>2. /\ m \in Nat /\ Len(held) \in Nat /\ Len(seen) = m + Len(held)
      /\ \A i \in 1..Len(seen) : seen[i] = IF i <= m THEN sent[i] ELSE held[i - m]
  BY <1>1, EntryHasId, ConcatProperties
<1>3. /\ \A i \in 1..m : sent[i].id \in Nat
      /\ \A i \in 1..Len(held) : held[i].id \in Nat
  BY <1>1, EntryHasId
<1>4. \A i \in 1..m, j \in 1..Len(held) : sent[i].id < held[j].id
  <2> TAKE i \in 1..m, j \in 1..Len(held)
  <2>1. held # <<>> /\ 1 \in 1..Len(held)
    BY <1>2, EmptySeq
  <2>2. sent[i].id < held[1].id /\ (j = 1 \/ held[1].id < held[j].id)
    BY <2>1, <1>2 DEF Arrivals, Rising, Before
  <2> QED
    BY <2>1, <2>2, <1>3 DEF Before
<1> HIDE DEF seen
<1>5. ASSUME NEW i \in 1..Len(seen), NEW j \in 1..Len(seen), i < j
      PROVE  seen[i].id < seen[j].id
  <2>1. CASE j <= m
    BY <2>1, <1>2, <1>5 DEF Arrivals, Rising
  <2>2. CASE i > m
    <3>1. i - m \in 1..Len(held) /\ j - m \in 1..Len(held) /\ i - m < j - m
      BY <2>2, <1>2, <1>5
    <3>2. held[i - m].id < held[j - m].id
      BY <3>1 DEF Arrivals, Rising
    <3>3. seen[i] = held[i - m] /\ seen[j] = held[j - m]
      BY <2>2, <1>2, <1>5
    <3> QED
      BY <3>2, <3>3
  <2>3. CASE i <= m /\ j > m
    <3>1. i \in 1..m /\ j - m \in 1..Len(held)
      BY <2>3, <1>2
    <3> QED
      BY <3>1, <2>3, <1>2, <1>4
  <2> QED
    BY <2>1, <2>2, <2>3, <1>2
<1>6. ASSUME NEW i \in 1..Len(seen) PROVE seen[i].id \notin stuck /\ seen[i].id < nextId
  <2>1. CASE i <= m
    BY <2>1, <1>2 DEF Arrivals, Before, ClearOf
  <2>2. CASE i > m
    <3>1. i - m \in 1..Len(held)
      BY <2>2, <1>2
    <3> QED
      BY <3>1, <2>2, <1>2 DEF Arrivals, Before, ClearOf
  <2> QED
    BY <2>1, <2>2, <1>2
<1> QED
  BY <1>5, <1>6 DEF InOrder, seen

(* No packet gets two verdicts and verdicts are given in order of arrival, *)
(* for any packets, any capacity of the queue and whatever is dropped or   *)
(* gets stuck.                                                             *)
THEOREM VerdictsInOrder == Spec => []InOrder
<1>1. Init => IInv /\ Arrivals
  BY InitIInv, InitArrivals
<1>2. IInv /\ Arrivals /\ [Next]_vars => IInv' /\ Arrivals'
  BY NextKeepsIInv, NextKeepsArrivals
<1>3. IInv /\ Arrivals => InOrder
  BY ArrivalsInOrder DEF IInv
<1> QED
  BY <1>1, <1>2, <1>3, PTL DEF Spec

-----------------------------------------------------------------------------
(* Running sums, as WordsFrom computes them.                               *)
RunningSum(g, w, m) == [n \in 0..m |-> IF n = 0 THEN 0 ELSE g[n - 1] + w[n]]
Sums(w, m) == CHOOSE g : g = RunningSum(g, w, m)

LEMMA RunningExists ==
  ASSUME NEW w, NEW m \in Nat
  PROVE  \E g : g = RunningSum(g, w, m)
<1> DEFINE S == {n \in 0..m : \E g : g = RunningSum(g, w, n)}
<1>1. 0 \in S
  <2> DEFINE g == [k \in 0..0 |-> 0]
  <2>1. g = RunningSum(g, w, 0)
    BY \A k \in 0..0 : k = 0 DEF RunningSum
  <2> QED
    BY <2>1
<1>2. ASSUME NEW n \in 1..m, n - 1 \in S PROVE n \in S
  <2>1. PICK g : g = RunningSum(g, w, n - 1)
    BY <1>2
  <2> DEFINE last == g[n - 1] + w[n]
             h == [k \in 0..n |-> IF k < n THEN g[k] ELSE last]
  <2>2. \A k \in 0..(n - 1) : g[k] = IF k = 0 THEN 0 ELSE g[k - 1] + w[k]
    BY <2>1 DEF RunningSum
  <2>3. ASSUME NEW k \in 0..n PROVE h[k] = IF k = 0 THEN 0 ELSE h[k - 1] + w[k]
    <3>1. k # 0 => k - 1 \in 0..n /\ k - 1 < n
      OBVIOUS
    <3>2. CASE k < n
      BY <2>2, <3>1, <3>2
    <3>3. CASE k = n
      BY <3>1, <3>3
    <3> QED
      BY <3>2, <3>3
  <2>4. h = RunningSum(h, w, n)
    <3> HIDE DEF last
    <3> QED
      BY <2>3 DEF RunningSum
  <2> QED
    BY <2>4
<1> HIDE DEF S
<1>3. m \in S
  BY <1>1, <1>2, Upwards
<1> QED
  BY <1>3 DEF S

LEMMA SumSteps ==
  ASSUME NEW m \in Nat, NEW w \in [1..m -> Nat]
  PROVE  /\ Sums(w, m)[0] = 0
         /\ \A n \in 1..m : Sums(w, m)[n] = Sums(w, m)[n - 1] + w[n]
         /\ \A n \in 0..m : Sums(w, m)[n] \in Nat
<1> DEFINE f == Sums(w, m)
           S == {n \in 0..m : f[n] \in Nat}
<1>1. f = RunningSum(f, w, m)
  BY RunningExists DEF Sums
<1> HIDE DEF f
<1>2. f[0] = 0 /\ \A n \in 1..m : f[n] = f[n - 1] + w[n]
  <2>1. 0 \in 0..m /\ \A n \in 1..m : n \in 0..m /\ n # 0
    OBVIOUS
  <2> QED
    BY <1>1, <2>1 DEF RunningSum
<1>3. \A n \in 1..m : n - 1 \in S => n \in S
  BY <1>2
<1>4. 0 \in S
  BY <1>2
<1> HIDE DEF S
<1>5. 0..m \subseteq S
  BY <1>3, <1>4, Upwards
<1> QED
  BY <1>2, <1>5 DEF f, S

(* How two sums drift apart.                                               *)
LEMMA SumsDiffer ==
  ASSUME NEW m \in Nat, NEW v \in [1..m -> Nat],
         NEW l \in Nat, l <= m, NEW k \in Nat, k >= l, NEW w \in [1..k -> Nat],
         NEW d \in [0..l -> Int], d[0] = 0,
         \A n \in 1..l : v[n] = w[n] + d[n] - d[n - 1]
  PROVE  \A n \in 0..l : Sums(v, m)[n] = Sums(w, k)[n] + d[n]
<1> DEFINE f == Sums(v, m)
           g == Sums(w, k)
           S == {n \in 0..l : f[n] = g[n] + d[n]}
<1>1. /\ f[0] = 0 /\ \A n \in 1..l : f[n] = f[n - 1] + v[n] /\ f[n] \in Nat /\ f[n - 1] \in Nat
      /\ g[0] = 0 /\ \A n \in 1..l : g[n] = g[n - 1] + w[n] /\ g[n] \in Nat /\ g[n - 1] \in Nat
  <2>1. \A n \in 1..l : n \in 1..m /\ n \in 1..k /\ n - 1 \in 0..m /\ n - 1 \in 0..k /\ n \in 0..m /\ n \in 0..k
    OBVIOUS
  <2> QED
    BY <2>1, SumSteps
<1> HIDE DEF f, g
<1>2. 0 \in S
  BY <1>1
<1>3. ASSUME NEW n \in 1..l, n - 1 \in S PROVE n \in S
  <2>1. f[n - 1] = g[n - 1] + d[n - 1]
    BY <1>3
  <2>2. d[n] \in Int /\ d[n - 1] \in Int /\ w[n] \in Nat /\ v[n] = w[n] + d[n] - d[n - 1]
    OBVIOUS
  <2>3. /\ f[n] = f[n - 1] + v[n] /\ f[n - 1] \in Nat
        /\ g[n] = g[n - 1] + w[n] /\ g[n - 1] \in Nat
    BY <1>1
  <2>4. f[n] = g[n] + d[n]
    <3> DEFINE x == d[n]
               y == d[n - 1]
               z == w[n]
               b == g[n - 1]
    <3>1. /\ x \in Int /\ y \in Int /\ z \in Nat /\ b \in Nat
          /\ f[n] = b + y + (z + x - y) /\ g[n] = b + z
      BY <2>1, <2>2, <2>3
    <3> HIDE DEF x, y, z, b
    <3>2. f[n] = g[n] + x
      BY <3>1
    <3> QED
      BY <3>2 DEF x
  <2> QED
    BY <2>4
<1> HIDE DEF S
<1>4. 0..l \subseteq S
  BY <1>2, <1>3, Upwards
<1> QED
  BY <1>4 DEF S, f, g

(* A sum is no less than each of its parts.                                *)
LEMMA SumIsMore ==
  ASSUME NEW m \in Nat, NEW w \in [1..m -> Nat], NEW k \in 1..m
  PROVE  Sums(w, m)[m] >= w[k]
<1> DEFINE f == Sums(w, m)
           S == {n \in 0..m : n >= k => f[n] >= w[k]}
<1>1. \A n \in 1..m : f[n] = f[n - 1] + w[n] /\ f[n - 1] \in Nat
  BY \A n \in 1..m : n - 1 \in 0..m, SumSteps
<1> HIDE DEF f
<1>2. 0 \in S
  OBVIOUS
<1>3. ASSUME NEW n \in 1..m, n - 1 \in S PROVE n \in S
  <2>1. f[n] = f[n - 1] + w[n] /\ f[n - 1] \in Nat /\ w[n] \in Nat /\ w[k] \in Nat
    BY <1>1
  <2>2. n > k => f[n - 1] >= w[k]
    BY <1>3
  <2>3. n >= k => f[n] >= w[k]
    BY <2>1, <2>2
  <2> QED
    BY <2>3
<1> HIDE DEF S
<1>4. 0..m \subseteq S
  BY <1>2, <1>3, Upwards
<1> QED
  BY <1>4 DEF S, f

LEMMA WordsAreSums ==
  ASSUME NEW p, NEW k
  PROVE  WordsFrom(p, k) = Sums(Share(p, k), Len(p))[Len(p)]
BY DEF WordsFrom, Sums, RunningSum

LEMMA ShareIsNat ==
  ASSUME NEW p \in Seq(Bytes), NEW k \in Nat
  PROVE  Len(p) \in Nat /\ Share(p, k) \in [1..Len(p) -> Nat]
<1>1. Len(p) \in Nat /\ \A n \in 1..Len(p) : p[n] \in Nat
  BY ElementOfSequence, WordIsNat DEF Bytes
<1>2. \A n \in 1..Len(p) : Base * p[n] \in Nat
  BY <1>1, WordIsNat
<1> QED
  BY <1>1, <1>2 DEF Share

LEMMA Positions ==
  /\ IpLen \in Nat /\ Header \in Nat /\ Low \in Nat /\ High = Low + 1
  /\ Low = IpLen + 3 /\ High <= Header
  /\ (Low - 1) % 2 = 0 /\ (High - 1) % 2 = 1
  /\ \A n \in Nat : (n - 1) % 2 = 0 <=> (n - (IpLen + 1)) % 2 = 0
<1>1. IpLen \in Nat /\ IpLen % 2 = 0 /\ IcmpLen \in Nat /\ IcmpLen >= 4
  BY QueueConstants
<1> QED
  BY <1>1 DEF Header, Low, High

(* The checksum, written where nothing was, adds itself.                   *)
LEMMA ChecksumAdds ==
  ASSUME NEW p \in Seq(Bytes), Len(p) > Header, p[Low] = 0, p[High] = 0,
         NEW c \in 0..(Word - 1)
  PROVE  WordsFrom(WithChecksum(p, c), 1) = WordsFrom(p, 1) + c
<1> DEFINE q == WithChecksum(p, c)
           m == Len(p)
           v == Share(q, 1)
           w == Share(p, 1)
           d == [n \in 0..m |-> IF n < Low THEN 0 ELSE IF n = Low THEN c % Base ELSE c]
<1>1. /\ q \in Seq(Bytes) /\ Len(q) = m /\ m \in Nat
      /\ \A n \in 1..m : n # Low /\ n # High => q[n] = p[n]
  BY ChecksumWritten, ElementOfSequence DEF Unsummed
<1>2. q[Low] = c % Base /\ q[High] = c \div Base
  <2>1. DOMAIN p = 1..m /\ Low \in 1..m /\ High \in 1..m /\ Low # High
    BY <1>1, Positions, ElementOfSequence
  <2> QED
    BY <2>1 DEF WithChecksum
<1>3. v \in [1..m -> Nat] /\ w \in [1..m -> Nat]
  BY <1>1, ShareIsNat
<1>4. c \in Nat /\ c % Base \in Nat /\ c = (c % Base) + Base * (c \div Base)
  BY WordIsNat
<1>5. d \in [0..m -> Int] /\ d[0] = 0
  BY <1>1, <1>4, Positions
<1>6. ASSUME NEW n \in 1..m PROVE v[n] = w[n] + d[n] - d[n - 1]
  <2>1. /\ n \in 1..Len(q) /\ n >= 1 /\ n \in 0..m /\ n - 1 \in 0..m
    BY <1>1
  <2>2. /\ v[n] = IF (n - 1) % 2 = 0 THEN q[n] ELSE Base * q[n]
        /\ w[n] = IF (n - 1) % 2 = 0 THEN p[n] ELSE Base * p[n]
    BY <2>1 DEF Share
  <2>3. /\ d[n] = IF n < Low THEN 0 ELSE IF n = Low THEN c % Base ELSE c
        /\ d[n - 1] = IF n - 1 < Low THEN 0 ELSE IF n - 1 = Low THEN c % Base ELSE c
    BY <2>1
  <2>4. w[n] \in Nat /\ Base * 0 = 0
    BY <1>3, WordIsNat
  <2> HIDE DEF v, w, d, q
  <2>5. CASE n = Low
    <3>1. v[n] = c % Base /\ w[n] = 0
      BY <2>5, <2>2, <1>2, Positions
    <3>2. d[n] = c % Base /\ d[n - 1] = 0
      BY <2>5, <2>3, Positions
    <3> QED
      BY <3>1, <3>2, <1>4
  <2>6. CASE n = High
    <3>1. v[n] = Base * (c \div Base) /\ w[n] = 0
      BY <2>6, <2>2, <2>4, <1>2, Positions
    <3>2. d[n] = c /\ d[n - 1] = c % Base
      BY <2>6, <2>3, Positions
    <3>3. Base * (c \div Base) \in Int
      BY <1>4, WordIsNat
    <3> QED
      BY <3>1, <3>2, <3>3, <1>4
  <2>7. CASE n # Low /\ n # High
    <3>1. v[n] = w[n]
      BY <2>7, <2>2, <1>1
    <3>2. d[n] = d[n - 1] /\ d[n] \in Nat
      BY <2>7, <2>3, <1>4, Positions
    <3> QED
      BY <3>1, <3>2, <2>4
  <2> QED
    BY <2>5, <2>6, <2>7
<1>7. d[m] = c
  BY <1>1, Positions
<1>8. m \in Nat /\ m <= m /\ m >= m
  BY <1>1
<1> HIDE DEF d, v, w, m
<1>9. \A n \in 1..m : v[n] = w[n] + d[n] - d[n - 1]
  BY <1>6
<1>10. \A n \in 0..m : Sums(v, m)[n] = Sums(w, m)[n] + d[n]
  BY <1>3, <1>5, <1>8, <1>9, SumsDiffer
<1> QED
  BY <1>1, <1>7, <1>8, <1>10, WordsAreSums DEF v, w, m

(* The words of the packet are those of the IP header and the message's.   *)
LEMMA HeaderAndMessage ==
  ASSUME NEW p \in Seq(Bytes), Len(p) > Header
  PROVE  /\ WordsFrom(p, 1) = WordsFrom(SubSeq(p, 1, IpLen), 1) + WordsFrom(p, IpLen + 1)
         /\ WordsFrom(SubSeq(p, 1, IpLen), 1) \in Nat /\ WordsFrom(p, IpLen + 1) \in Nat
<1> DEFINE h == SubSeq(p, 1, IpLen)
           m == Len(p)
           v == Share(p, 1)
           w == Share(p, IpLen + 1)
           u == Share(h, 1)
           d == [n \in 0..m |-> IF n <= IpLen THEN Sums(v, m)[n] ELSE Sums(v, m)[IpLen]]
           z == [n \in 0..IpLen |-> 0]
<1>1. m \in Nat /\ m >= IpLen /\ IpLen \in Nat /\ \A i \in 1..m : p[i] \in Bytes
  <2>1. m \in Nat /\ \A i \in 1..m : p[i] \in Bytes
    BY ElementOfSequence
  <2>2. IpLen \in Nat /\ Header \in Nat /\ Header >= IpLen
    BY QueueConstants DEF Header
  <2> HIDE DEF m
  <2>3. m > Header
    BY DEF m
  <2> QED
    BY <2>1, <2>2, <2>3
<1>2. h \in Seq(Bytes) /\ Len(h) = IpLen /\ \A i \in 1..IpLen : h[i] = p[i]
  <2>1. 1 \in Int /\ IpLen \in Int /\ \A i \in 1..IpLen : p[i] \in Bytes
    BY <1>1
  <2>2. IpLen - 1 + 1 = IpLen /\ \A i \in 1..IpLen : 1 + i - 1 = i
    BY <1>1
  <2>3. /\ h \in Seq(Bytes)
        /\ Len(h) = IF 1 <= IpLen THEN IpLen - 1 + 1 ELSE 0
        /\ \A i \in 1..(IpLen - 1 + 1) : h[i] = p[1 + i - 1]
    BY <2>1, SubSeqProperties
  <2> QED
    BY <1>1, <2>2, <2>3
<1>3. v \in [1..m -> Nat] /\ w \in [1..m -> Nat] /\ u \in [1..IpLen -> Nat]
  <2>1. 1 \in Nat /\ IpLen + 1 \in Nat
    BY <1>1
  <2>2. Share(h, 1) \in [1..Len(h) -> Nat]
    BY <1>2, <2>1, ShareIsNat
  <2> QED
    BY <1>2, <2>1, <2>2, ShareIsNat
<1>4. \A n \in 0..IpLen : Sums(v, m)[n] = Sums(u, IpLen)[n] + 0
  <2>1. ASSUME NEW n \in 1..IpLen PROVE v[n] = u[n] /\ v[n] \in Nat /\ n \in 0..IpLen /\ n - 1 \in 0..IpLen
    <3>1. n \in 1..Len(p) /\ n \in 1..Len(h) /\ n >= 1
      BY <1>1, <1>2
    <3>2. v[n] = u[n]
      BY <1>2, <3>1 DEF Share
    <3> QED
      BY <1>3, <3>1, <3>2, <1>1
  <2> HIDE DEF u, v, h
  <2>2. z \in [0..IpLen -> Int] /\ z[0] = 0 /\ \A n \in 1..IpLen : v[n] = u[n] + z[n] - z[n - 1]
    BY <1>1, <2>1
  <2>3. \A n \in 0..IpLen : z[n] = 0
    OBVIOUS
  <2>4. IpLen <= m /\ IpLen >= IpLen
    BY <1>1
  <2> HIDE DEF z, m
  <2>5. \A n \in 0..IpLen : Sums(v, m)[n] = Sums(u, IpLen)[n] + z[n]
    BY <1>1, <1>3, <2>2, <2>4, SumsDiffer
  <2> QED
    BY <2>3, <2>5
<1>5. \A n \in 0..m : Sums(v, m)[n] = Sums(w, m)[n] + d[n]
  <2>1. /\ Sums(v, m)[0] = 0 /\ \A n \in 1..m : Sums(v, m)[n] = Sums(v, m)[n - 1] + v[n]
        /\ \A n \in 0..m : Sums(v, m)[n] \in Nat
    BY <1>1, <1>3, SumSteps
  <2>2. d \in [0..m -> Int] /\ d[0] = 0
    BY <1>1, <2>1
  <2>3. ASSUME NEW n \in 1..m PROVE v[n] = w[n] + d[n] - d[n - 1]
    <3>1. n \in Nat /\ n >= 1 /\ n \in 0..m /\ n - 1 \in 0..m
      BY <1>1
    <3>2. /\ v[n] = IF (n - 1) % 2 = 0 THEN p[n] ELSE Base * p[n]
          /\ w[n] = IF n < IpLen + 1 THEN 0 ELSE IF (n - (IpLen + 1)) % 2 = 0 THEN p[n] ELSE Base * p[n]
      BY <3>1 DEF Share
    <3>3. /\ d[n] = IF n <= IpLen THEN Sums(v, m)[n] ELSE Sums(v, m)[IpLen]
          /\ d[n - 1] = IF n - 1 <= IpLen THEN Sums(v, m)[n - 1] ELSE Sums(v, m)[IpLen]
      BY <3>1
    <3>4. /\ Sums(v, m)[n] = Sums(v, m)[n - 1] + v[n]
          /\ Sums(v, m)[n - 1] \in Nat /\ Sums(v, m)[IpLen] \in Nat
          /\ v[n] \in Nat /\ w[n] \in Nat
      <4>1. IpLen \in 0..m
        BY <1>1
      <4> HIDE DEF v, w, m
      <4> QED
        BY <1>3, <2>1, <3>1, <4>1
    <3> DEFINE f == Sums(v, m)
    <3> HIDE DEF v, w, d, f
    <3>5. CASE n <= IpLen
      <4>1. w[n] = 0 /\ d[n] = f[n] /\ d[n - 1] = f[n - 1]
        BY <3>1, <3>2, <3>3, <3>5, <1>1 DEF f
      <4> QED
        BY <4>1, <3>2, <3>4 DEF f
    <3>6. CASE n > IpLen
      <4>1. v[n] = w[n]
        BY <3>1, <3>2, <3>6, <1>1, Positions
      <4>2. d[n] = f[IpLen] /\ d[n - 1] = f[IpLen]
        <5>1. n - 1 <= IpLen => n - 1 = IpLen
          BY <3>1, <3>6, <1>1
        <5> QED
          BY <3>1, <3>3, <3>6, <5>1, <1>1 DEF f
      <4> QED
        BY <4>1, <4>2, <3>2, <3>4 DEF f
    <3> QED
      BY <3>1, <3>5, <3>6, <1>1
  <2>4. m <= m /\ m >= m
    BY <1>1
  <2> HIDE DEF v, w, d, m
  <2>5. \A n \in 1..m : v[n] = w[n] + d[n] - d[n - 1]
    BY <2>3
  <2> QED
    BY <1>1, <1>3, <2>2, <2>4, <2>5, SumsDiffer
<1>6. d[m] = Sums(u, IpLen)[IpLen]
  <2>1. d[m] = Sums(v, m)[IpLen]
    <3>1. m \in 0..m /\ (m <= IpLen => m = IpLen)
      BY <1>1
    <3> QED
      BY <3>1
  <2>2. Sums(u, IpLen)[IpLen] \in Nat /\ IpLen \in 0..IpLen
    BY <1>1, <1>3, SumSteps
  <2> HIDE DEF d, u, v
  <2> QED
    BY <2>1, <2>2, <1>4
<1>7. /\ WordsFrom(p, 1) = Sums(v, m)[m]
      /\ WordsFrom(p, IpLen + 1) = Sums(w, m)[m]
      /\ WordsFrom(h, 1) = Sums(u, IpLen)[IpLen]
  BY <1>2, WordsAreSums
<1>8. Sums(w, m)[m] \in Nat /\ m \in 0..m /\ Sums(u, IpLen)[IpLen] \in Nat
  <2>1. m \in 0..m /\ IpLen \in 0..IpLen
    BY <1>1
  <2> HIDE DEF u, w
  <2> QED
    BY <1>1, <1>3, <2>1, SumSteps
<1>9. d[m] \in Nat /\ Sums(v, m)[m] = Sums(w, m)[m] + d[m]
  <2> HIDE DEF d, u, v, w, h, m
  <2> QED
    BY <1>5, <1>6, <1>8
<1> HIDE DEF d, u, v, w, h, m
<1> QED
  BY <1>6, <1>7, <1>8, <1>9 DEF h

(* A message that is not of zeros adds up to something.                    *)
LEMMA SomethingToSum ==
  ASSUME NEW p \in Seq(Bytes), ~AllZero(p)
  PROVE  WordsFrom(p, IpLen + 1) > 0
<1> DEFINE w == Share(p, IpLen + 1)
           m == Len(p)
<1>1. PICK k \in (IpLen + 1)..m : p[k] # 0
  BY DEF AllZero
<1>2. m \in Nat /\ k \in 1..m /\ IpLen \in Nat /\ w \in [1..m -> Nat]
  <2>1. IpLen \in Nat /\ IpLen + 1 \in Nat
    BY Positions
  <2>2. m \in Nat /\ w \in [1..m -> Nat]
    BY <2>1, ShareIsNat
  <2> HIDE DEF w, m
  <2> QED
    BY <2>1, <2>2
<1>3. p[k] \in Nat /\ p[k] >= 1 /\ Base * p[k] >= 1
  <2>1. p[k] \in Nat /\ p[k] >= 1
    BY <1>1, <1>2, ElementOfSequence, WordIsNat DEF Bytes
  <2>2. \A x, y \in Nat : x >= 1 /\ y >= 1 => x * y >= 1
    OBVIOUS
  <2> QED
    BY <2>1, <2>2, WordIsNat
<1>4. w[k] >= 1
  BY <1>1, <1>2, <1>3 DEF Share
<1>5. Sums(w, m)[m] >= w[k] /\ Sums(w, m)[m] \in Nat
  <2>1. m \in 0..m
    BY <1>2
  <2> HIDE DEF w, m
  <2> QED
    BY <1>2, <2>1, SumIsMore, SumSteps
<1>6. WordsFrom(p, IpLen + 1) = Sums(w, m)[m] /\ w[k] \in Nat
  BY <1>2, WordsAreSums
<1> HIDE DEF w
<1> QED
  BY <1>4, <1>5, <1>6

(* Sums whose words come to all ones.                                      *)
Multiple(n) == \E k \in Nat : n = k * (Word - 1)

LEMMA MultiplesDivide ==
  ASSUME NEW n \in Nat
  PROVE  Multiple(n) <=> n % (Word - 1) = 0
<1> DEFINE w == Word - 1
<1>1. w \in Nat /\ w >= 1
  BY WordIsNat
<1> HIDE DEF w
<1>2. ASSUME n % w = 0 PROVE \E k \in Nat : n = k * w
  <2> DEFINE q == n \div w
  <2>1. q \in Nat /\ n % w = n - w * q
    BY <1>1
  <2>2. n = q * w
    BY <1>1, <1>2, <2>1
  <2> QED
    BY <2>1, <2>2
<1>3. ASSUME NEW k \in Nat, n = k * w PROVE n % w = 0
  <2>1. (w * k + 0) % w = 0
    BY <1>1
  <2>2. n = w * k + 0
    BY <1>1, <1>3
  <2> QED
    BY <2>1, <2>2
<1> QED
  BY <1>2, <1>3 DEF Multiple, w

(* If the packet comes to all ones and its header does, the message does.  *)
LEMMA MessageVerifies ==
  ASSUME NEW p \in Seq(Bytes), Len(p) > Header, Multiple(WordsFrom(p, 1)),
         AllOnes(WordsFrom(SubSeq(p, 1, IpLen), 1)), ~AllZero(p)
  PROVE  AllOnes(WordsFrom(p, IpLen + 1))
<1> DEFINE w == Word - 1
           t == WordsFrom(p, 1)
           h == WordsFrom(SubSeq(p, 1, IpLen), 1)
           r == WordsFrom(p, IpLen + 1)
<1>1. w \in Nat /\ w >= 1
  BY WordIsNat
<1>2. PICK k \in Nat : t = k * w
  BY DEF Multiple
<1>3. PICK j \in Nat : h = j * w
  BY HeaderAndMessage, MultiplesDivide DEF AllOnes, Multiple
<1>4. t = h + r /\ r > 0
  BY HeaderAndMessage, SomethingToSum
<1>5. h \in Nat /\ r \in Nat
  BY HeaderAndMessage
<1> HIDE DEF w, t, h, r
<1>6. r = (k - j) * w
  BY <1>1, <1>2, <1>3, <1>4, <1>5
<1>7. k - j \in Nat
  BY <1>1, <1>4, <1>5, <1>6
<1>8. Multiple(r)
  BY <1>6, <1>7 DEF Multiple, w
<1> QED
  BY <1>4, <1>5, <1>8, MultiplesDivide DEF AllOnes, r

-----------------------------------------------------------------------------
(* While it is summed up, the packet has room for a checksum, which is     *)
(* zero; the sum is that of the words before at; folding takes multiples   *)
(* of Word - 1 from it; with the checksum the words come to such a         *)
(* multiple, and so do those of every packet given back.                   *)
Summing ==
  /\ pc \in {"sum", "fold", "verdict"} => Len(packet) > Header
  /\ pc \in {"sum", "fold"} => packet[Low] = 0 /\ packet[High] = 0
  /\ pc = "sum" => at % 2 = 1 /\ sum = Sums(Share(packet, 1), Len(packet))[at - 1]
  /\ pc = "fold" => \E k \in Nat : WordsFrom(packet, 1) = sum + k * (Word - 1)
  /\ pc = "verdict" => Multiple(WordsFrom(packet, 1))
AllSummed ==
  \A i \in 1..Len(sent) :
    Len(sent[i].bytes) > Header /\ Multiple(WordsFrom(sent[i].bytes, 1))

LEMMA EndSwapKeepsSumming == IInv /\ EndSwap => Summing'
<1> SUFFICES ASSUME IInv, EndSwap PROVE Summing'
  OBVIOUS
<1>1. InHand /\ pc' = "sum" /\ packet' = WithChecksum(packet, 0) /\ at' = 1 /\ sum' = 0
  BY DEF EndSwap, InHand
<1>2. packet \in Seq(Bytes) /\ Len(packet) \in Nat /\ DOMAIN packet = 1..Len(packet)
  BY <1>1, PacketFacts, ElementOfSequence
<1>3. Len(packet) > Header
  <2>1. head \in Nat /\ tail \in Int /\ head >= tail
    BY DEF EndSwap, IInv, TypeOK
  <2>2. BodyLength > 0
    BY <2>1 DEF EndSwap, IInv, HalfReversed
  <2> QED
    BY <2>2, <1>2, Sizes DEF BodyLength
<1>4. packet' \in Seq(Bytes) /\ Len(packet') = Len(packet)
  <2>1. 0 \in 0..(Word - 1)
    BY WordIsNat
  <2> QED
    BY <2>1, <1>1, <1>2, ChecksumWritten
<1>5. packet'[Low] = 0 /\ packet'[High] = 0
  <2>1. Low \in 1..Len(packet) /\ High \in 1..Len(packet) /\ Low # High
    BY <1>2, <1>3, Positions
  <2>2. 0 % Base = 0 /\ 0 \div Base = 0
    BY WordIsNat
  <2> QED
    BY <1>1, <1>2, <2>1, <2>2 DEF WithChecksum
<1>6. Sums(Share(packet', 1), Len(packet'))[at' - 1] = 0
  <2>1. Len(packet') \in Nat /\ Share(packet', 1) \in [1..Len(packet') -> Nat] /\ 1 - 1 = 0
    BY <1>4, ShareIsNat
  <2> QED
    BY <2>1, <1>1, SumSteps
<1> QED
  BY <1>1, <1>3, <1>4, <1>5, <1>6 DEF Summing

(* The packet while its bytes are added up.                                *)
LEMMA PacketSums ==
  ASSUME IInv, pc = "sum"
  PROVE  /\ packet \in Seq(Bytes) /\ Len(packet) \in Nat
         /\ \A k \in 1..Len(packet) : packet[k] \in Nat
         /\ at \in Nat /\ at >= 1 /\ count \in Nat /\ at + count = Len(packet) + 1
         /\ \A n \in 0..Len(packet) : Sums(Share(packet, 1), Len(packet))[n] \in Nat
         /\ \A n \in 1..Len(packet) :
              Sums(Share(packet, 1), Len(packet))[n] =
                Sums(Share(packet, 1), Len(packet))[n - 1]
                + (IF (n - 1) % 2 = 0 THEN packet[n] ELSE Base * packet[n])
<1>1. InHand
  BY DEF InHand
<1>2. /\ packet \in Seq(Bytes) /\ Len(packet) \in Nat
      /\ \A k \in 1..Len(packet) : packet[k] \in Nat
  BY <1>1, PacketFacts, WordIsNat DEF Bytes
<1>3. at \in Nat /\ at >= 1 /\ count \in Nat /\ at + count = Len(packet) + 1
  BY DEF IInv, TypeOK, SumBounded
<1>4. Share(packet, 1) \in [1..Len(packet) -> Nat]
  BY <1>2, ShareIsNat
<1>5. \A n \in 1..Len(packet) :
        Share(packet, 1)[n] = IF (n - 1) % 2 = 0 THEN packet[n] ELSE Base * packet[n]
  <2>1. \A n \in 1..Len(packet) : ~(n < 1)
    BY <1>2
  <2> QED
    BY <2>1 DEF Share
<1> QED
  BY <1>2, <1>3, <1>4, <1>5, SumSteps

LEMMA OddAndEven ==
  ASSUME NEW n \in Nat, n >= 1, n % 2 = 1
  PROVE  /\ (n - 1) % 2 = 0 /\ (n + 1 - 1) % 2 = 1 /\ (n + 2) % 2 = 1
         /\ n + 1 - 1 = n /\ n + 2 - 1 = n + 1
OBVIOUS

LEMMA SumWordKeepsSumming == IInv /\ Summing /\ SumWord => Summing'
<1> SUFFICES ASSUME IInv, Summing, SumWord PROVE Summing'
  OBVIOUS
<1> DEFINE f == Sums(Share(packet, 1), Len(packet))
<1>1. /\ pc = "sum" /\ pc' = pc /\ packet' = packet /\ count > 1
      /\ sum' = sum + WordAt(at) /\ at' = at + 2
      /\ at % 2 = 1 /\ sum = f[at - 1]
  BY DEF SumWord, Summing
<1>2. /\ Len(packet) \in Nat /\ (\A k \in 1..Len(packet) : packet[k] \in Nat)
      /\ at \in Nat /\ at >= 1 /\ count \in Nat /\ at + count = Len(packet) + 1
      /\ \A n \in 0..Len(packet) : f[n] \in Nat
      /\ \A n \in 1..Len(packet) :
           f[n] = f[n - 1] + (IF (n - 1) % 2 = 0 THEN packet[n] ELSE Base * packet[n])
  BY <1>1, PacketSums
<1> HIDE DEF f
<1>3. /\ at \in 1..Len(packet) /\ at + 1 \in 1..Len(packet) /\ at - 1 \in 0..Len(packet)
      /\ (at - 1) % 2 = 0 /\ (at + 1 - 1) % 2 = 1 /\ (at + 2) % 2 = 1
      /\ at + 1 - 1 = at /\ at + 2 - 1 = at + 1
  <2>1. at \in 1..Len(packet) /\ at + 1 \in 1..Len(packet) /\ at - 1 \in 0..Len(packet)
    BY <1>1, <1>2
  <2> QED
    BY <2>1, <1>1, <1>2, OddAndEven
<1>4. f[at] = f[at - 1] + packet[at]
  BY <1>2, <1>3
<1>5. f[at + 1] = f[at] + Base * packet[at + 1]
  BY <1>2, <1>3
<1>6. f[at + 1] = sum'
  <2>1. f[at - 1] \in Nat /\ packet[at] \in Nat /\ Base * packet[at + 1] \in Nat
    BY <1>2, <1>3, WordIsNat
  <2> QED
    BY <2>1, <1>1, <1>4, <1>5 DEF WordAt
<1> QED
  BY <1>1, <1>3, <1>6 DEF Summing, f

LEMMA EndSumKeepsSumming == IInv /\ Summing /\ EndSum => Summing'
<1> SUFFICES ASSUME IInv, Summing, EndSum PROVE Summing'
  OBVIOUS
<1> DEFINE f == Sums(Share(packet, 1), Len(packet))
<1>1. /\ pc = "sum" /\ pc' = "fold" /\ packet' = packet /\ count <= 1
      /\ sum' = sum + LastByte
      /\ at % 2 = 1 /\ sum = f[at - 1]
  BY DEF EndSum, Summing
<1>2. /\ Len(packet) \in Nat /\ (\A k \in 1..Len(packet) : packet[k] \in Nat)
      /\ at \in Nat /\ at >= 1 /\ count \in Nat /\ at + count = Len(packet) + 1
      /\ \A n \in 0..Len(packet) : f[n] \in Nat
      /\ \A n \in 1..Len(packet) :
           f[n] = f[n - 1] + (IF (n - 1) % 2 = 0 THEN packet[n] ELSE Base * packet[n])
  BY <1>1, PacketSums
<1> HIDE DEF f
<1>3. sum' = f[Len(packet)] /\ sum' \in Nat
  <2>1. CASE count = 0
    <3>1. at - 1 = Len(packet) /\ Len(packet) \in 0..Len(packet) /\ ~(count > 0)
      BY <2>1, <1>2
    <3> QED
      BY <3>1, <1>1, <1>2 DEF LastByte
  <2>2. CASE count = 1
    <3>1. at = Len(packet) /\ at \in 1..Len(packet) /\ at \in 0..Len(packet) /\ (at - 1) % 2 = 0 /\ count > 0
      <4>1. at = Len(packet) /\ at \in 1..Len(packet) /\ at \in 0..Len(packet) /\ count > 0
        BY <2>2, <1>2
      <4> QED
        BY <4>1, <1>1, <1>2, OddAndEven
    <3> QED
      BY <3>1, <1>1, <1>2 DEF LastByte
  <2> QED
    BY <2>1, <2>2, <1>1, <1>2
<1>4. WordsFrom(packet, 1) = sum' + 0 * (Word - 1)
  BY <1>3, WordsAreSums, WordIsNat DEF f
<1> QED
  BY <1>1, <1>4 DEF Summing

LEMMA FoldingKeepsSumming == IInv /\ Summing /\ (FoldCarry \/ EndFold) => Summing'
<1> SUFFICES ASSUME IInv, Summing, FoldCarry \/ EndFold PROVE Summing'
  OBVIOUS
<1> DEFINE w == Word - 1
           t == WordsFrom(packet, 1)
<1>1. InHand /\ pc = "fold" /\ Len(packet) > Header /\ packet[Low] = 0 /\ packet[High] = 0
  BY DEF FoldCarry, EndFold, Summing, InHand
<1>2. packet \in Seq(Bytes) /\ sum \in Nat /\ Word \in Nat /\ Word >= 4
  BY <1>1, PacketFacts, WordIsNat DEF IInv, TypeOK
<1>3. PICK k \in Nat : t = sum + k * w
  BY <1>1 DEF Summing
<1>4. CASE FoldCarry
  <2> DEFINE q == sum \div Word
             r == sum % Word
  <2>1. q \in Nat /\ r \in Nat /\ sum = r + Word * q
    BY <1>2
  <2>2. sum' = r + q /\ pc' = pc /\ packet' = packet
    BY <1>4 DEF FoldCarry, Folded
  <2>3. w \in Nat /\ Word = w + 1
    BY <1>2
  <2> HIDE DEF q, r, w, t
  <2>4. t = sum' + (k + q) * w /\ k + q \in Nat
    BY <1>3, <2>1, <2>2, <2>3
  <2> QED
    BY <1>1, <2>2, <2>4 DEF Summing, w, t
<1>5. CASE EndFold
  <2>1. sum < Word /\ Word - 1 - sum \in 0..(Word - 1)
    BY <1>2, <1>5 DEF EndFold
  <2>2. packet' = WithChecksum(packet, Word - 1 - sum) /\ pc' = "verdict"
    BY <1>5 DEF EndFold
  <2>3. WordsFrom(packet', 1) = t + (Word - 1 - sum) /\ Len(packet') = Len(packet)
    BY <1>1, <1>2, <2>1, <2>2, ChecksumAdds, ChecksumWritten
  <2>4. WordsFrom(packet', 1) = (k + 1) * w /\ k + 1 \in Nat
    <3>1. w \in Nat /\ w = Word - 1
      BY <1>2
    <3> HIDE DEF w, t
    <3> QED
      BY <1>2, <1>3, <2>3, <3>1
  <2> QED
    BY <1>1, <2>2, <2>3, <2>4 DEF Summing, Multiple
<1> QED
  BY <1>4, <1>5

LEMMA VerdictKeepsAllSummed == IInv /\ Summing /\ AllSummed /\ Verdict => AllSummed'
<1> SUFFICES ASSUME IInv, Summing, AllSummed, Verdict PROVE AllSummed'
  OBVIOUS
<1> DEFINE e == [id |-> held[1].id, bytes |-> packet]
<1>1. InHand /\ sent' = Append(sent, e) /\ Len(packet) > Header /\ Multiple(WordsFrom(packet, 1))
  BY DEF InHand, Verdict, Summing
<1>2. held[1] \in Entry /\ packet \in Seq(Bytes) /\ sent \in Seq(Entry)
  BY <1>1, PacketFacts, HeadAndTail DEF IInv, TypeOK
<1>3. e \in Entry /\ e.bytes = packet
  BY <1>2 DEF Entry
<1> HIDE DEF e
<1>4. /\ Len(sent) \in Nat /\ Len(sent') = Len(sent) + 1
      /\ \A i \in 1..Len(sent) : sent'[i] = sent[i]
      /\ sent'[Len(sent) + 1] = e
  BY <1>1, <1>2, <1>3, AppendProperties, LenProperties
<1>5. \A i \in 1..Len(sent') : i \in 1..Len(sent) \/ i = Len(sent) + 1
  BY <1>4
<1> QED
  BY <1>1, <1>3, <1>4, <1>5 DEF AllSummed

LEMMA NextKeepsSumming ==
  IInv /\ Summing /\ AllSummed /\ [Next]_vars => Summing' /\ AllSummed'
<1> SUFFICES ASSUME IInv, Summing, AllSummed, [Next]_vars PROVE Summing' /\ AllSummed'
  OBVIOUS
<1>1. sent' = sent => AllSummed'
  BY DEF AllSummed
<1>2. CASE EndSwap \/ SumWord \/ EndSum \/ FoldCarry \/ EndFold
  <2>1. Summing'
    BY <1>2, EndSwapKeepsSumming, SumWordKeepsSumming, EndSumKeepsSumming, FoldingKeepsSumming
  <2>2. sent' = sent
    BY <1>2 DEF EndSwap, SumWord, EndSum, FoldCarry, EndFold, kernelVars
  <2> QED
    BY <1>1, <2>1, <2>2
<1>3. CASE Verdict
  <2>1. Summing'
    BY <1>3 DEF Verdict, Summing
  <2> QED
    BY <1>3, <2>1, VerdictKeepsAllSummed
<1>4. CASE UNCHANGED vars \/ \E p \in Packets : Arrive(p)
  BY <1>1, <1>4 DEF vars, Arrive, swapVars, sumVars, Summing
<1>5. CASE Recv \/ RecvTruncated \/ RecvFails \/ PrintFails \/ Printed \/ SwapPair \/ SwapFaults
  <2>1. pc' \notin {"sum", "fold", "verdict"} /\ sent' = sent
    BY <1>5 DEF Recv, RecvTruncated, RecvFails, PrintFails, Printed, SwapPair, SwapFaults, End, kernelVars
  <2> QED
    BY <1>1, <2>1 DEF Summing
<1> QED
  BY <1>2, <1>3, <1>4, <1>5 DEF Next, Program

(* The receiver of a packet accepts its checksum, although the code sums   *)
(* the IP header as well: for bytes of any width, headers of any even      *)
(* length and packets of any length and parity.                            *)
THEOREM ReceiverIsContent == Spec => []ChecksumVerifies
<1>1. Init => IInv /\ Summing /\ AllSummed
  <2>1. Init => Len(sent) = 0
    BY EmptySeq DEF Init
  <2>2. Init => Summing /\ AllSummed
    BY <2>1 DEF Init, Summing, AllSummed
  <2> QED
    BY <2>2, InitIInv
<1>2. IInv /\ Summing /\ AllSummed /\ [Next]_vars => IInv' /\ Summing' /\ AllSummed'
  BY NextKeepsIInv, NextKeepsSumming
<1>3. IInv /\ AllSummed => ChecksumVerifies
  <2> SUFFICES ASSUME IInv, AllSummed, NEW i \in 1..Len(sent),
                      AllOnes(WordsFrom(SubSeq(sent[i].bytes, 1, IpLen), 1)), ~AllZero(sent[i].bytes)
               PROVE  AllOnes(WordsFrom(sent[i].bytes, IpLen + 1))
    BY DEF ChecksumVerifies
  <2> DEFINE p == sent[i].bytes
  <2>1. p \in Seq(Bytes)
    <3>1. sent[i] \in Entry
      BY ElementOfSequence DEF IInv, TypeOK
    <3> QED
      BY <3>1 DEF Entry
  <2>2. Len(p) > Header /\ Multiple(WordsFrom(p, 1))
    BY DEF AllSummed
  <2>3. AllOnes(WordsFrom(SubSeq(p, 1, IpLen), 1)) /\ ~AllZero(p)
    OBVIOUS
  <2> HIDE DEF p
  <2>4. AllOnes(WordsFrom(p, IpLen + 1))
    BY <2>1, <2>2, <2>3, MessageVerifies
  <2> QED
    BY <2>4 DEF p
<1> QED
  BY <1>1, <1>2, <1>3, PTL DEF Spec
=============================================================================
