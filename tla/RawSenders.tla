------------------------------ MODULE RawSenders ------------------------------
(***************************************************************************)
(* The raw senders of Lab03: tcp.c (zad3) sends a SYN whose IP header and  *)
(* checksum it makes itself, udpv6.c (zad4) an empty datagram whose        *)
(* checksum it makes and the kernel makes again (IPV6_CHECKSUM).  Both     *)
(* take the first address for which there is a socket, and send for ever.  *)
(***************************************************************************)
EXTENDS Integers, Sequences

CONSTANTS
  Modulus,    (* 2^16                                                     *)
  Known,      (* for each sender, the sum of the words that never change  *)
  Addrs,      (* destinations, as the word each adds to the sum           *)
  MaxResults  (* addresses getaddrinfo finds at most                      *)

Senders == {"tcp", "udpv6"}
ASSUME RawConstants ==
  /\ Modulus \in Nat \ {0, 1} /\ MaxResults \in Nat
  /\ Addrs \subseteq 0 .. Modulus - 1
  /\ Known \in [Senders -> 0 .. 2 * Modulus]

(* An address, and what socket and setsockopt answer for it.               *)
Results == [addr : Addrs, socket : {"none", "plain", "option"}]

VARIABLES
  tool,       (* tcp.c or udpv6.c                                       *)
  results,    (* the list of addresses from rp on                         *)
  does,       (* "walk", "build", "send" or "ended"                       *)
  number,     (* atoi(argv[2])                                            *)
  check,      (* the checksum in the packet                               *)
  wire        (* the segments sent                                        *)

rawVars == <<tool, results, does, number, check, wire>>

Port == number % Modulus          \* htons takes 16 bits
RawTypeOK ==
  /\ tool \in Senders
  /\ results \in Seq(Results)
  /\ does \in {"walk", "build", "send", "ended"}
  /\ number \in Nat
  /\ check \in 0 .. Modulus - 1
  /\ wire \subseteq [port : 0 .. Modulus - 1, addr : Addrs, check : 0 .. Modulus - 1]

RawInit ==
  /\ tool \in Senders
  /\ results \in UNION {[1..n -> Results] : n \in 0..MaxResults}
  /\ number \in 0 .. 2 * Modulus - 1
  /\ does = "walk" /\ check = 0 /\ wire = {}

(* internet_checksum: the carries are folded into the sum until none is    *)
(* left, and the result is its complement.                                 *)
EndAround[n \in 0 .. 6 * Modulus] == IF n < Modulus THEN n ELSE EndAround[(n % Modulus) + (n \div Modulus)]
Checksum(n) == Modulus - 1 - EndAround[n]

-----------------------------------------------------------------------------
(* The walk over the addresses.                                            *)
NextAddress ==
  /\ does = "walk" /\ results # <<>> /\ Head(results).socket = "none"
  /\ results' = Tail(results)
  /\ UNCHANGED <<tool, does, number, check, wire>>

NoSocketLeft ==
  /\ does = "walk"
  /\ IF results = <<>> THEN TRUE ELSE Head(results).socket = "plain"
  /\ does' = "ended"
  /\ UNCHANGED <<tool, results, number, check, wire>>

SocketMade ==
  /\ does = "walk" /\ results # <<>> /\ Head(results).socket = "option"
  /\ does' = "build"
  /\ UNCHANGED <<tool, results, number, check, wire>>

-----------------------------------------------------------------------------
(* ip_create, tcp_create, pseudo_create: the pseudo header takes its       *)
(* addresses from the IP header.                                           *)
CoveredTooEarly(to) == Known["tcp"] + Port      \* mutant: pseudo_create before ip_create
Covered(to) == Known["tcp"] + Port + to

BuildTcp ==
  /\ tool = "tcp" /\ does = "build"
  /\ check' = Checksum(Covered(Head(results).addr))
  /\ does' = "send"
  /\ UNCHANGED <<tool, results, number, wire>>

(* The address is taken for an IPv4 one, where the flow label is, which is *)
(* zero; a checksum of 0 would mean that there is none.                    *)
BuildUdp ==
  /\ tool = "udpv6" /\ does = "build"
  /\ LET sum == Checksum(Known["udpv6"] + Port) IN
     check' = IF sum = 0 THEN Modulus - 1 ELSE sum
  /\ does' = "send"
  /\ UNCHANGED <<tool, results, number, wire>>

SendTcp ==
  /\ tool = "tcp" /\ does = "send"
  /\ wire' = wire \cup {[port |-> Port, addr |-> Head(results).addr, check |-> check]}
  /\ UNCHANGED <<tool, results, does, number, check>>

(* The kernel puts its own checksum at offset 6, where the code's was.     *)
Filled(to) ==
  LET sum == Checksum(Known["udpv6"] + Port + to) IN IF sum = 0 THEN Modulus - 1 ELSE sum

SendUdp ==
  /\ tool = "udpv6" /\ does = "send"
  /\ LET to == Head(results).addr IN
     wire' = wire \cup {[port |-> Port, addr |-> to, check |-> Filled(to)]}
  /\ UNCHANGED <<tool, results, does, number, check>>

RawNext ==
  NextAddress \/ NoSocketLeft \/ SocketMade \/ BuildTcp \/ BuildUdp \/ SendTcp \/ SendUdp
RawSpec == RawInit /\ [][RawNext]_rawVars

-----------------------------------------------------------------------------
(* Whatever the port and the address, the receiver takes each segment of   *)
(* tcp.c for intact: it sums the address it sends to (139-147).  udpv6.c   *)
(* sums another, and only the kernel's sum (121-123) makes its datagrams   *)
(* valid, of which nothing is claimed here; the sum it hands to the kernel *)
(* is never 0, which IPv6 refuses (67-72).                                 *)
SegmentsVerify ==
  /\ tool = "tcp" => \A s \in wire : EndAround[Known[tool] + s.port + s.addr + s.check] = Modulus - 1
  /\ tool = "udpv6" /\ does = "send" => check # 0
=============================================================================
