----------------------------- MODULE NfQueue -----------------------------
(***************************************************************************)
(* The packet mangler of Lab07: queuemod.c takes packets from netfilter    *)
(* queue 5 one at a time, swap_bytes (libqueue.c) reverses the ICMP body   *)
(* in place, internet_checksum computes a new checksum over the WHOLE      *)
(* packet, and the packet is accepted.  The loops of the library are       *)
(* modelled one iteration per step, on bytes of Base values and words of   *)
(* Base * Base.                                                            *)
(*                                                                         *)
(* The kernel holds a packet from its arrival to its verdict.  When it can *)
(* hold no more it drops the packet and may let the next recv fail, on     *)
(* which the program leaves its loop.  A packet that does not fit into the *)
(* buffer of main is cut by recv, nfq_handle_packet refuses the truncated  *)
(* message, and nobody ever gives a verdict on it.                         *)
(***************************************************************************)
EXTENDS Integers, Sequences, FiniteSets

CONSTANTS
  Base,       (* values of a byte: 256                                    *)
  IpLen,      (* sizeof(struct iphdr): 20                                 *)
  IcmpLen,    (* sizeof(struct icmphdr): 8                                *)
  Wrap,       (* values of an unsigned int: 2^32                          *)
  IntMax,     (* the largest int: 2^31 - 1                                *)
  MaxSize,    (* copy range given to nfq_set_mode: 0xffff                 *)
  Room,       (* bytes of a packet that fit into buf beside the meta-data *)
  Packets,    (* what may be queued, as sequences of bytes                *)
  MaxId,      (* bound: packets that arrive                               *)
  QueueMax    (* packets the kernel holds for the program                 *)

Bytes == 0..(Base - 1)
Word == Base * Base
Header == IpLen + IcmpLen

(* The last line is what makes the accumulator of internet_checksum wide   *)
(* enough: it holds for the values above.                                  *)
ASSUME QueueConstants ==
  /\ Base \in Nat \ {0, 1}
  /\ IpLen \in Nat /\ IpLen % 2 = 0
  /\ IcmpLen \in Nat \ {0, 1, 2, 3}
  /\ MaxSize \in Nat
  /\ Room \in Nat
  /\ Wrap \in Nat /\ Wrap > MaxSize /\ Wrap > IpLen + IcmpLen + 1
  /\ IntMax \in Nat
  /\ Packets \subseteq Seq(Bytes)
  /\ \A p \in Packets : Len(p) <= MaxSize
  /\ MaxId \in Nat
  /\ QueueMax \in Nat \ {0}
  /\ MaxSize * (Word - 1) + Word <= 2 * IntMax

VARIABLES
  nextId,     (* packet ids are given in order of arrival                 *)
  held,       (* packets to be received, then the one in hand first       *)
  stuck,      (* ids of packets received that never reached the callback  *)
  overrun,    (* the netlink socket overflowed: recv will fail            *)
  pc,         (* where main, or what it calls, is                         *)
  packet,     (* the copy in buf that the callback rewrites               *)
  head, tail, (* swap_bytes: offsets into the body, from 0                *)
  at, count,  (* internet_checksum: addr and the bytes left               *)
  sum,        (* its accumulator                                          *)
  sent        (* packets given back with NF_ACCEPT                        *)

kernelVars == <<nextId, held, stuck, overrun, sent>>
swapVars == <<head, tail>>
sumVars == <<at, count, sum>>
vars == <<nextId, held, stuck, overrun, pc, packet, head, tail, at, count, sum, sent>>

Entry == [id : 1..MaxId, bytes : Seq(Bytes)]

TypeOK ==
  /\ nextId \in 1..(MaxId + 1)
  /\ held \in Seq(Entry)
  /\ stuck \in SUBSET (1..MaxId)
  /\ overrun \in BOOLEAN
  /\ pc \in {"recv", "print", "swap", "sum", "fold", "verdict", "exited", "crashed"}
  /\ packet \in Seq(Bytes)
  /\ head \in Nat
  /\ tail \in Int
  /\ at \in Nat
  /\ count \in Int
  /\ sum \in Nat
  /\ sent \in Seq(Entry)

Init ==
  /\ nextId = 1
  /\ held = <<>>
  /\ stuck = {}
  /\ overrun = FALSE
  /\ pc = "recv"
  /\ packet = <<>>
  /\ head = 0
  /\ tail = 0
  /\ at = 1
  /\ count = 0
  /\ sum = 0
  /\ sent = <<>>

Running == pc \notin {"exited", "crashed"}

-----------------------------------------------------------------------------
(* The kernel.  A packet it cannot hold is dropped; recv hears of it when  *)
(* it was the socket's buffer, not the queue itself, that was full.        *)

Arrive(p) ==
  /\ Running
  /\ nextId <= MaxId
  /\ nextId' = nextId + 1
  /\ IF Len(held) + Cardinality(stuck) < QueueMax
     THEN held' = Append(held, [id |-> nextId, bytes |-> p]) /\ UNCHANGED overrun
     ELSE overrun' \in {overrun, TRUE} /\ UNCHANGED held
  /\ UNCHANGED <<stuck, pc, packet, swapVars, sumVars, sent>>

-----------------------------------------------------------------------------
(* main and the callback.                                                  *)

Fits(p) == Len(p) <= Room

Recv ==
  /\ pc = "recv"
  /\ ~overrun
  /\ held # <<>>
  /\ Fits(held[1].bytes)
  /\ packet' = held[1].bytes
  /\ pc' = "print"
  /\ UNCHANGED <<kernelVars, swapVars, sumVars>>

(* nfq_handle_packet calls nobody, and its result is not looked at.        *)
RecvTruncated ==
  /\ pc = "recv"
  /\ ~overrun
  /\ held # <<>>
  /\ ~Fits(held[1].bytes)
  /\ held' = Tail(held)
  /\ stuck' = stuck \cup {held[1].id}
  /\ UNCHANGED <<nextId, overrun, pc, packet, swapVars, sumVars, sent>>

(* The program ends, and the kernel drops every packet it held.            *)
End(how) ==
  /\ pc' = how
  /\ held' = <<>>
  /\ stuck' = {}
  /\ UNCHANGED <<nextId, overrun, packet, swapVars, sumVars, sent>>

(* recv returns -1: the loop ends.                                         *)
RecvFails == pc = "recv" /\ overrun /\ End("exited")

(* print_packet ends the program when an interface of the packet is gone.  *)
PrintFails == pc = "print" /\ End("exited")

(* The body begins after the two headers; data_length - 1 is computed in   *)
(* unsigned int, where 0 - 1 is the largest of them.                       *)
BodyLength == Len(packet) - Header
LastButOne == (BodyLength - 2) % Wrap    \* mutant: an off-by-one in the index
Last == (BodyLength - 1) % Wrap

Printed ==
  /\ pc = "print"
  /\ pc' = "swap"
  /\ head' = 0
  /\ tail' = Last
  /\ UNCHANGED <<kernelVars, packet, sumVars>>

(* The byte at an offset into the body, as a position in the packet.       *)
Place(k) == Header + 1 + k

SwapPair ==
  /\ pc = "swap"
  /\ head < tail
  /\ Place(tail) <= Len(packet)
  /\ packet' = [packet EXCEPT ![Place(head)] = packet[Place(tail)],
                              ![Place(tail)] = packet[Place(head)]]
  /\ head' = head + 1
  /\ tail' = tail - 1
  /\ UNCHANGED <<kernelVars, pc, sumVars>>

(* An empty body: tail is 4 GiB further on, and the first swap faults.     *)
SwapFaults ==
  /\ pc = "swap"
  /\ head < tail
  /\ Place(tail) > Len(packet)
  /\ End("crashed")

(* The bytes of the checksum, third and fourth of the ICMP header.         *)
Low == IpLen + 3
High == IpLen + 4
WithChecksum(p, c) == [p EXCEPT ![Low] = c % Base, ![High] = c \div Base]

EndSwap ==
  /\ pc = "swap"
  /\ head >= tail
  /\ packet' = WithChecksum(packet, 0)
  /\ at' = 1
  /\ count' = Len(packet)
  /\ sum' = 0
  /\ pc' = "sum"
  /\ UNCHANGED <<kernelVars, swapVars>>

WordShiftedTwice(k) == packet[k] + Word * packet[k + 1]   \* mutant: the shift is 16, not 8
WordAt(k) == packet[k] + Base * packet[k + 1]

SumWord ==
  /\ pc = "sum"
  /\ count > 1
  /\ sum' = sum + WordAt(at)
  /\ at' = at + 2
  /\ count' = count - 2
  /\ UNCHANGED <<kernelVars, pc, packet, swapVars>>

LastByteDropped == 0                     \* mutant: an odd last byte is forgotten
LastByte == IF count > 0 THEN packet[at] ELSE 0

EndSum ==
  /\ pc = "sum"
  /\ count <= 1
  /\ sum' = sum + LastByte
  /\ pc' = "fold"
  /\ UNCHANGED <<kernelVars, packet, swapVars, at, count>>

Unfolded == sum                          \* mutant: the folded sum is not stored
Folded == (sum % Word) + (sum \div Word)

FoldCarry ==
  /\ pc = "fold"
  /\ sum \div Word > 0
  /\ sum' = Folded
  /\ UNCHANGED <<kernelVars, pc, packet, swapVars, at, count>>

EndFold ==
  /\ pc = "fold"
  /\ sum \div Word = 0
  /\ packet' = WithChecksum(packet, Word - 1 - sum)
  /\ pc' = "verdict"
  /\ UNCHANGED <<kernelVars, swapVars, sumVars>>

Released == Tail(held)

(* NF_ACCEPT with the rewritten bytes, for the id of the packet in hand.   *)
Verdict ==
  /\ pc = "verdict"
  /\ sent' = Append(sent, [id |-> held[1].id, bytes |-> packet])
  /\ held' = Released
  /\ pc' = "recv"
  /\ UNCHANGED <<nextId, stuck, overrun, packet, swapVars, sumVars>>

Program ==
  \/ Recv \/ RecvTruncated \/ RecvFails \/ PrintFails \/ Printed
  \/ SwapPair \/ SwapFaults \/ EndSwap
  \/ SumWord \/ EndSum \/ FoldCarry \/ EndFold
  \/ Verdict

Next == Program \/ \E p \in Packets : Arrive(p)

Spec == Init /\ [][Next]_vars

(* recv returns when there is something to receive, and no call of the     *)
(* callback waits for anything.                                            *)
FairSpec == Spec /\ WF_vars(Program)

-----------------------------------------------------------------------------
(* The int in which internet_checksum adds up words never overflows, even  *)
(* for the largest packet the copy range admits (libqueue.c, lines 5-18).  *)
SumFits == sum <= IntMax

(* swap_bytes and the checksum leave headers, length and id alone, and the *)
(* body comes out reversed whatever its length (lines 29-38).              *)
Unsummed(n) == (1..n) \ {Low, High}
Mangled(before, after) ==
  /\ Len(after) = Len(before)
  /\ \A k \in Unsummed(Len(before)) :
        after[k] = before[IF k <= Header THEN k ELSE Header + Len(before) + 1 - k]

AcceptsReversed ==
  [][sent' # sent => /\ sent'[Len(sent')].id = held[1].id
                     /\ Mangled(held[1].bytes, sent'[Len(sent')].bytes)]_vars

(* A receiver adds up the words of the ICMP message and wants all ones.    *)
(* Share is what each byte adds to the sum of the words from byte k on.    *)
(* The code sums the IP header too, which changes nothing because a header *)
(* that came this far adds up to all ones itself; only a message of zeros  *)
(* gets a checksum its receiver refuses.                                   *)
Share(p, k) ==
  [n \in 1..Len(p) |-> IF n < k THEN 0 ELSE IF (n - k) % 2 = 0 THEN p[n] ELSE Base * p[n]]
WordsFrom(p, k) ==
  LET sums[n \in 0..Len(p)] == IF n = 0 THEN 0 ELSE sums[n - 1] + Share(p, k)[n]
  IN sums[Len(p)]
AllOnes(n) == n > 0 /\ n % (Word - 1) = 0
AllZero(p) == \A k \in (IpLen + 1)..Len(p) : k \in Unsummed(Len(p)) => p[k] = 0

ChecksumVerifies ==
  \A i \in 1..Len(sent) :
    LET p == sent[i].bytes
    IN AllOnes(WordsFrom(SubSeq(p, 1, IpLen), 1)) /\ ~AllZero(p) => AllOnes(WordsFrom(p, IpLen + 1))

(* No packet gets two verdicts, and verdicts are given in order of arrival *)
(* although packets are dropped or get stuck between them.                 *)
InOrder ==
  LET seen == sent \o held
  IN /\ \A i, j \in 1..Len(seen) : i < j => seen[i].id < seen[j].id
     /\ \A i \in 1..Len(seen) : seen[i].id \notin stuck /\ seen[i].id < nextId

(* A packet in the queue that fits is accepted in the end, or the program  *)
(* has ended: the loops of the library stop.                               *)
Waiting(n) == \E i \in 1..Len(held) : held[i].id = n /\ Fits(held[i].bytes)
Accepted(n) == \E i \in 1..Len(sent) : sent[i].id = n
EveryFittingAccepted == \A n \in 1..MaxId : Waiting(n) ~> Accepted(n) \/ ~Running

(* queuemod.c, line 97: what recv returned is passed to the callback.      *)
AllReachCallback == stuck = {}
=============================================================================
