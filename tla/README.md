# Verification of the PUS network programs

The repository holds a course's worth of small network programs in C and C++ (`src/Lab01` to `src/Lab12`).
This directory holds TLA+ models of those that have behaviour worth checking, configurations with which TLC
checks them on small instances, and proofs, checked by TLAPS, that hold for every value of the constants.
`PROJECT.json` names, for every definition that models code, the source lines it was translated from.

    tlc -workers 2 -config Chat_two.cfg MCChatServer.tla      # a run
    tlapm ChatServer_proofs.tla                               # the proofs of a module

1. [The system](#1-the-system)  2. [The models](#2-the-models)  3. [The runs](#3-the-runs)
4. [Fairness](#4-fairness)  5. [The proofs](#5-the-proofs)  6. [What was found](#6-what-was-found)
7. [What is not modelled](#7-what-is-not-modelled)  8. [Plan](#8-plan)

## 1. The system

The programs are independent of each other; what interacts is a server with its clients, two tools with one
kernel table, a program with the kernel's queue, a program with the user at its terminal.

| Component | State it keeps | Operations | Interacts through | What is hard | What makes it correct |
|---|---|---|---|---|---|
| **Chat server** `Lab01/zad4/server4.cpp` | vector of client descriptors, the two `fd_set`s, one buffer | select, accept and greet, read, broadcast, erase | TCP connections of clients that come, write, read, close and reset | erasing from the vector inside the range-for over it; a broadcast to clients that leave; results of `send` and `read` that nobody looks at; blocking `send` and `read` in one thread | no closed descriptor is used, no open one forgotten; each message reaches each other client once; who leaves is dropped, nobody else is |
| **Palindrome library** `Lab01/zad3/libpalindrome.c` | a copy of the digits, two pointers | copy, strip zeros, compare | called by the service | pointers at the edges; no significant digit | the answer is the one the data deserve |
| **Palindrome service** `Lab01/zad3/server3.cpp`, `client3.cpp` | one buffer that outlives requests; a client's line and answer | ask, serve, take the reply, end the server | UDP datagrams without numbers, an empty one ends the server | lost, reordered, duplicated datagrams; no timeouts; a stale buffer | the buffer stays terminated; a reply is to the last line; a client is answered |
| **Packet mangler** `Lab07/queuemod.c`, `libqueue.c` | the packet in hand, the pointers and accumulator of the loops | receive, reverse the body, checksum, verdict | netfilter queue 5 of the kernel | empty and odd bodies; unsigned wrap; accumulator width; truncated packets; overflow of the queue | the body comes out reversed with a valid checksum, once per packet, in order |
| **iptables tools** `Lab07/iptc.c`, `iptcmod.c` | the rule parsed; a copy of one table | parse, delete a rule, create a chain, set a policy, commit | the kernel's tables, changed by several tools | snapshot and commit of two tools interleaved; options in any order; numbering from 1 and from 0 | a line is understood or refused; a commit does what was asked and undoes nothing |
| **SSH clients** `Lab12/*` | connection data, terminal mode, signal mask, password, what was received | parse, connect, accept the key, authenticate, list, download, print | libssh2, the terminal, stdio's buffer, signals | signals while echo is off; typed-ahead lines; retries; calls that fail one by one | the terminal is put back; the password is the hidden line; success means the data arrived |
| **HTTP thread server** `Lab01/zad5/server5.cpp` | a thread per connection with its argument, buffer and directory; descriptors nobody closes | accept, start a thread, read a request, list pictures, write the page | TCP; threads of one process | a thread that reads its argument late; `exit` in any thread; descriptors, threads and the page's buffer running out; requests in pieces or too long | a client gets its own page; the process ends only for a cause; nobody waits for another's thread |
| **Greeting servers and clients** `Lab02/*` | the descriptor in hand | accept, greet, close; connect, receive, end | TCP over IPv4 and IPv6 | operator precedence around `accept` (`server6.cpp:78`) | everyone is greeted and no connection kept, but for the first of `server6` |
| **Raw senders** `Lab03/zad3/tcp.c`, `Lab03/zad4/udpv6.c` | the list of addresses, one packet | find a socket, build, send for ever | raw sockets; the kernel, which fills headers in | sums over the wrong words; a sum of zero | every segment sent verifies |
| **Ping** `Lab03/zad5/ping.cpp` | two processes, one socket | send four requests; print four packets | ICMP, `fork` | packets lost, foreign, or the program's own; no timeout | where none of that happens it ends with the four replies |
| **SCTP daytime** `Lab04/zad2` | a server that serves one caller at a time | send date and time; read and leave | two streams of an association | order across streams; uninitialised flags | each caller gets both |
| **SCTP echo** `Lab04/zad3` | one socket for all associations; each client's stream | echo on a chosen stream; follow it | five streams of each association | both sides take turns by a rule of their own; uninitialised variables; one client's end ends the server | answer n is to line n, on the stream whose turn it is |
| **Privileged servers** `Lab08/Zad2`, `Zad4`, `Zad5` | user ids, capabilities | bind, give privilege up, test, serve | the kernel's credentials | the order of the calls; ids read before they are tested; a `setuid` nobody looks at | nothing to go back to when a connection is taken |

## 2. The models

Each component has a module with its state as VARIABLES and an action per step at which another actor may
come between. A module named `MC...` gives TLC its instance, and a module named `..._proofs` holds its theorems.

**`ChatServer`** is the main loop of `server4.cpp`. `pc` is where the thread is; `slots` is the memory of
`connected_clients`, of which the first `size` elements are alive, so that the walk (`it`) goes over erased memory
exactly as the compiled range-for does, to the `end()` it took before. `ready` is what select left in
`watchedSockets`, `buf` is `messageBuffer`, abstracted to which client wrote each byte, and `text` is who wrote
what the current broadcast prints. The peers are actions of their own (`Connect`, `Write`, `Drain`,
`Hangup`) that may come between any two system calls. `phase` distinguishes a connection that was closed, reset, and
one on which a further `send` raises SIGPIPE, which ends the server.

**`ChatRoom`** is what the server promises, without descriptors and system calls: somebody speaks, and before
anybody joins, leaves or speaks again the message goes once to each other member whose line is up. `ChatServer`
implements it under the mapping `Room` (`RefinesRoom`).

**`LibPalindrome`** defines the verdicts a text deserves, a set because a text without a significant digit lets
the code compare bytes that were never written. **`IsPalindrome`** is the function, one loop iteration per step.
**`PalindromeService`** composes those verdicts with the server's one buffer, the clients, whose lines are cut by
`getline`, and a network that is reliable, lossy or duplicating, and always reorders.

**`NfQueue`** is the mangler: `Recv` to `Verdict` follow one packet through the callback, `SwapPair` and `SumWord`
are iterations of the library's loops with their integers (`tail` in an unsigned int of `Wrap` values, the sum in
an int). The kernel's queue `held`, the packets `stuck` in it and the socket's `overrun` are modelled from how the
program uses libnetfilter_queue.

**`IptTool`** is both programs (`ModTools` are the processes that run `iptcmod`), any number at once. `parse()` is
an option per step with every way it fails; `Open`, `Changed` and `Commit` take a snapshot of a table, change it and
put it in place. The kernel's check at a commit, `Current`, compares the number of entries only.

**`GetPassword`** is `get_password` of `libcommon.c`: block signals, hide, read, show, unblock, with a user who
types and sends signals at any moment. The kernel's line `queue` keeps of every line whether it was shown while typed.
`Send` and `Deliver` are the kernel's signal delivery; SIGINT stands for the blocked signals that end a program.
**`SshClient`** extends it with the rest of `sftp_get.c` and `exec_rsa.c` (`prog` says which): `Parse` is
`parse_connection_data` an argument per step; the tables `Shared`, `Sftp` and `Exec` are the calls of libssh2 that
succeed or end the program; `stdio` is the buffer of `stdin`, which swallows a pipe whole, so that a password behind
it on the pipe is never seen by `get_password`.

**`ThreadServer`** is `server5.cpp`: `main` and every thread are actions of their own, `box` is the allocated int that
carries the descriptor to a thread, `opened` the process's descriptors, of which connections keep theirs for good.
A request is a path and a form: HTTP/1.1, another protocol, or odd, that is cut short or too long for `client_message` or
for a field of 256 bytes. A page is the set of files it lists, or junk where the buffer was not initialised; of junk
nothing at all may be sent, since line 144 sends up to the first zero byte. What overruns its memory (lines 41, 42, 49-54 for
the paths in `Tight`, 79-86) makes its thread `Wild`: it may end the process now or later, or send anything on any
connection, or nothing of it is ever seen. `trouble` says whether calls may fail for reasons outside the process, such as a missing
`img/` or memory: `CallFails`, `DirectoryRefused`, `WriteFails`, `CreateThread`. Within one thread the calls that touch only
its stack are one step.

Six small services have a module each and one composed instance, `MCServices`, in which one of them runs. Two more modules
choose among what shares nothing: `MCLab01` (`is_palindrome` or its service, of `MCPalindrome`, or the HTTP server of
`MCThreadServer`) and `MCLabs` (`MCServices` or the mangler of `MCNfQueue`). What is not chosen stays as it begins, and the
fairness of a part holds while it is the one that runs.

**`GreetingServer`** is both servers of Lab02 over descriptors from 0, because `server6` writes to 0: `Assigned` is line 78.
**`RawSenders`** abstracts a packet to the sum of its words, on which `Checksum` works as the code's loop does; `Modulus` is 2^16.
**`Ping`** has the two processes, the packets under way and the queue of the socket they share; `net` says what may
happen between. **`SctpDaytime`** and **`SctpEcho`** keep the messages of each stream apart; an uninitialised `flags`
makes the first `sctp_recvmsg` take, peek or not wait. **`Privileges`** is the three servers of Lab08 as the sequence of
their calls; `Exec` starts one of them as any user from a file with any rights, and `SetUid` and `MaySet` are the
kernel's rules. A call all three make is one action (`Socket`, `Bind`, `Verify`, `AcceptOne`, `CloseBoth`). **`Posix`** is the choice of a descriptor.

Variables that were never written are modelled as any value they may hold: the bytes before the copied digits, the
answer after an `fgets` that failed, `ret` of `exec_rsa.c:197`, the name freed at `libcommon.c:449`, the fields of a
short request (`server5.cpp:27`), `privilege_on` (`capserver.c:102`), `i`, `stream` and `flags` (`client3.c:18`, `client2.c:18`).

## 3. The runs

| Run | Configuration | What it shows |
|---|---|---|
| `chat_two` | `Chat_two.cfg` | With two clients that join, write, read, leave and return without end: the vector holds each open descriptor once (`VectorMatchesDescriptors`), a broadcast carries only bytes read in this pass (`TextFromThisPass`), only those who left and were read to the end are dropped (`OnlyLeaversDropped`), and the server is a chat room (`RefinesRoom`). |
| `chat_gathering` | `Chat_gathering.cfg` | Three clients have gathered and leave in every order and grouping. Three are the least for which an erasure makes the walk skip one element and visit another twice. `ReadyAreClients`: the walk never takes a closed descriptor for ready; `WaitsPastEndOnly`: only the second visit of a client in a pass can make `read` wait, the first never does; `RoomSteps`: every step is still a chat room's; `LeaverDropped`: who leaves is dropped in the end, unless a client that stays holds the server up for good, where a quiet client and the double visit of 6 meet. |
| `chat_read_waits` | `Chat_read_waits.cfg` | A violation of `ReadNeverWaits`, see 6. |
| `chat_text` | `Chat_text.cfg` | A violation of `TextIsAuthors`, see 6. |
| `lab01` | `Lab01.cfg` | The library: for every text of one to five characters over six: the result is one of the verdicts deserved by the code's own rule, which refuses letters and skips signs (`ReturnsVerdict`). The service: `Terminated`: strlen stops inside the server's buffer; `LettersAlwaysRefused`: stale bytes never make a bad text good; `AnswersLastLine`: an unnumbered reply is to the last line unless the network duplicates; `WaitEnds`: without loss a client is answered or somebody ended the server. The HTTP server: `OwnHandler`: however threads and `main` take turns, a connection has one thread and a client gets the page it asked for; `StopsForCause`: unless a call fails for a reason outside the process, the server ends only for a client that left, a request that overwrites memory (by itself or by its page), or descriptors that its connections used up; `Heard`: a client that asks in HTTP/1.1, does no harm and stays gets its page, or the server ended, had no room for its thread, or had its memory overwritten by another. |
| `palindrome_length` | `PalindromeService_length.cfg` | A violation of `VerdictOfDatagram`, see 6. |
| `palindrome_marks` | `Palindrome_marks.cfg` | A violation of `RefusesMarks`, see 6. |
| `nfqueue_truncated` | `NfQueue_truncated.cfg` | A violation of `AllReachCallback`, see 6. |
| `iptables` | `IptTool.cfg` | `ParsesCommands`: exactly the lines meant are accepted, as the rule meant; `DoesWhatWasAsked`: a commit puts in place what its line asks for, done to the snapshot, and no other step changes a table; `DeletionsSerialize`: tools that only delete never undo each other. |
| `iptables_lost` | `IptTool_lost.cfg` | A violation of `CommitsSerialize`, see 6. |
| `ssh` | `SshClient.cfg` | `TerminalRestored`: stopped, killed or ended, the program leaves a terminal that shows what is typed, and no signal blocked at its end; `PasswordIsLine`: what is tried is the hidden line, never one typed ahead nor the rest of a long one; `InterruptEnds`: an interrupt during the question is not lost; `ConnectsAsAsked`: the last host and port of the line, or no connection; `DeliversData`: success means that the listing, the file or the output arrived, unless a read or a write failed. |
| `labs` | `Labs.cfg` | The six services: `NoWayBack`: when `rootserver` on a low port or `capserver` takes a connection, no id and no capability leads back; `EchoesInTurn`: answer n is to line n on the stream whose turn it is; `LinesAnswered`: a client of the echo goes on from every line; `OnlyFirstUngreeted`: the first client of `server6` is the only one that is not greeted and the only one whose connection stays open; `SegmentsVerify`: the checksums of the TCP segments are right, and the sum given to the kernel for a datagram is never 0; `ToldBoth`: whoever calls the daytime server leaves with both messages; `Reported`: over a clean network `ping` ends with the replies. The mangler: `AcceptsReversed`: bodies of every parity, empty ones too, come out reversed and nothing else changed; `ChecksumVerifies`: the receiver accepts the checksum although the code sums the IP header as well; `SumFits`: the int does not overflow; `EveryFittingAccepted`: the loops end and each fitting packet in the queue gets its verdict. |

`TypeOK`, the type invariant, is checked once per module (`LabTypeOK` joins those of the palindrome service and the HTTP server,
`LabsTypeOK` those of the six services and the mangler; that of `is_palindrome` is a part of its inductive invariant). Each property of a passing run has an entry under
`mutants` in `PROJECT.json`: a plausible mistake in the code that makes TLC report that property.

### Bounds, and why they are enough

* **Chat**: `chat_two` has `BufSize` 2 and up to 2 unread bytes, so a message fills the buffer, half of it, or takes
  two reads; `Window` 1 makes a `send` wait as soon as a client has not read one message. Nothing limits how often a
  client comes back. `chat_gathering` starts where three clients have joined (a state the full model reaches), one byte each.
* **Palindrome**: five digits give odd and even numbers with leading zeros and a middle; the characters are
  two digits, zero, a letter, a blank and a mark (a sign). The service has two clients, a buffer of four bytes and
  lines that are shorter, longer and cut; `MaxCopies` 1 lets one datagram come twice.
* **HTTP**: three clients, three descriptors, which connections and directories use up, and two threads, so that the
  third connection finds none. A page for one file fits and one for two does not; one path is `Tight`. One client asks in HTTP/1.1
  or oddly, where any path may be read from the stack, another in another protocol, and the third is silent. `Heard` is
  about the clients that may ask soundly, which is the first.
* **Services**: three visitors of a greeting server
  are the first, the second that gets descriptor 0, and one more. SCTP echo has three streams and two lines, so that the turn
  goes from the last stream to the first, and garbage for `stream` that is a stream or not. Ping sends three packets.
  Words are of 4 values with addresses and ports that carry twice. Users are root and two others.
* **NfQueue**: bytes of 4 values, headers of 4 bytes each, bodies of 0 to 4 bytes, one of which exceeds `Room`;
  three packets and a kernel queue of two, so that it fills, drops and overruns. The scaled constants keep the code's relations
  (`QueueConstants`): the unsigned `Wrap` exceeds every length, and the accumulator is as tight as the real one is for
  `MaxSize` bytes. The proofs remove these bounds.
* **IptTool**: three tools with one of eight lines each, on two tables and with a chain that has a table's name; and each program alone
  with all command lines of up to five of eight words, the longest line that is accepted.
* **SSH**: every command line of up to three arguments over ten words (both forms of `-p`, port 0, a port past
  16 bits, two hosts, a host without a name). Sessions use one line; `PassLen` 3 with typed lines of one, two and
  four characters (shorter, exact, overlong), one line ahead in the queue, three entries or bytes against a buffer of two.
  All other command lines stop when the session begins: what follows depends on the connection data in no way.

`CHECK_DEADLOCK FALSE` is set because each of these programs may end.

## 4. Fairness

* `ChatServer`: weak fairness of the server's next system call, which is one thread that goes on as soon as the call it is in
  can return. Nothing is assumed of the clients: they may stay and be quiet for ever, and never read. Therefore
  `LeaverDropped` excepts, by name, a server that waits for good in a `read` beyond the end of its vector (`ReadWaits`, the double
  visit of section 6, until that client says something or leaves) or in a `send` to a client that does not read (`SendWaits`).
* `PalindromeService`: weak fairness of the server's loop for each client's datagrams and of a client's
  `recvfrom`. Loss is not fair to anybody: `WaitEnds` speaks of the reliable network.
* `NfQueue`: weak fairness of the program. No call of the callback waits.
* `SshClient`: weak fairness of the program's steps (the scheduler's), of the delivery of a pending unblocked signal (the kernel's), and of
  the user who, asked for a line, ends one. Without the last, `read` waits and so does the interrupt.
* `ThreadServer`: weak fairness of `main` and of each thread. A call that fails without need (`CallFails`), what a thread does
  after it has overwritten memory (`Wild`), and the clients are owed nothing.
* Services: weak fairness of the next step of the servers of SCTP and of ping and of a client's call that can return (a network's delivery, for ping); that
  `accept` fails (`AcceptCallFails`) is not among the steps owed.
  Nothing is assumed of clients connecting, asking, leaving or of a network that loses.
* Safety runs (`IptTool`, the violations, and the library within `lab01`) assume none.

## 5. The proofs

Every invariant and every action property that a passing run checks is also a theorem, for every value of the constants
that satisfies the module's ASSUME: any number of clients, tools, threads or streams, data, buffers and command lines of any
length, words of any width. Some theorems say what no run checks by itself: the
pointers of the comparison (`PointersStayInside`), the mirror (`AnswerIsMirror`), the order of verdicts (`VerdictsInOrder`), names never
overwritten (`NoLeak`). The theorems have the form `Spec => []P`, `Spec => [][A]_vars` or, for the chat room,
`Spec => Room!Spec`. Each rests on an inductive invariant, proved to hold initially and to be kept by each action; where one
is not enough for the next property it is strengthened by a second one that assumes the first.

* **`ChatServer_proofs`**. `ReadyAreClients` is not inductive alone: that the walk over a vector shortened under it
  meets no closed descriptor needs that the vector has no duplicates and holds exactly the open descriptors, that it is whole
  while select and accept run (`WholeVector`), and that the author of a broadcast is still a client (`AuthorIsClient`).
  The erased element itself leaves `ready` by `FD_CLR`, which is what keeps the second visit harmless. This is `IInv`
  (`TypeCorrect`, `ReadyClients`, `VectorAndDescriptors`, `LeaversOnly`).
  `ServerIsRoom`, the refinement of `ChatRoom`, adds `RoomInv`: a peer has one descriptor at most, so that a step about
  a descriptor maps to a step about one member; each system call maps to a step of the room or to a stutter.
  `StepsAreRoom` is the same from any state of `RoomInv`, such as the gathering `chat_gathering` starts from.
  `TextOfReadyClients` adds `TextInv`: what the erasures leave behind the end is copies of the last element
  (`TailIsLast`), so the bytes in the buffer come from clients still connected that had their turn in this pass (`BytesOfReady`).
  `FirstReadNeverWaits` adds `WaitInv`: whom select found ready and the walk has not visited has bytes, an end or a reset waiting
  for it, and no step but its own visit takes them away (`AnswerHolds`).
* **`IsPalindrome_proofs`**. The loop invariant `Compared` says that `head + tail` is constant and every
  pair outside the pointers agrees; lemma `HalfIsEnough` turns "the pointers met" into "all of the number is a mirror", which is
  the step from half the comparisons to the whole verdict (`LettersAreRefused`, `AnswerIsMirror`, `PointersStayInside`).
  `VerdictIsDeserved` adds `Selected`: the copy made so far is what the reference definition selects so far.
* **`PalindromeService_proofs`**. `StrlenStops` needs `ShortRequests`: no datagram on its way is as long as the buffer, which
  comes from the clients' `getline` only. `LettersNeverPass` rests on `TextBegins`: whatever the buffer held, the text
  served begins with the datagram. `AnswersAreCurrent` needs `OneUnderWay`: who types has no datagram on its
  way, and who waits has one at most, a request or a reply, about its last line.
* **`NfQueue_proofs`**. `HalfReversed` says which byte each byte came from while the pointers move; `SumBounded`
  bounds twice the sum by what was added and what is left to add (`TypeCorrect`, `SumStaysInInt`, `BodyComesOutReversed`).
  `VerdictsInOrder` needs `Arrivals`: ids rise in what was given back and in what is held, the first before the second, both before
  what will arrive, and neither meets what is stuck. `ReceiverIsContent` needs `Summing`: `sum` is the running sum of the
  reference definition (`Sums`), folding takes multiples of `Word - 1` from it, and so header and message
  with the checksum come to such a multiple. The IP header, whose own checksum is valid, is a multiple as well, and what is left for the
  receiver, who sums the message only, is one that is not zero (`HeaderAndMessage`, `MessageVerifies`).
* **`IptTool_proofs`**. The heart of `DeletionsAreSerial` is `NumberTells`: among tools that only delete, a table
  that differs from a snapshot has fewer entries, so the kernel's comparison of the number is enough. `ChangeIsRule`: what
  is to be committed is the rule carried out on the snapshot (also `TypeCorrect`, `NoLeak`).
  `CommandsAreUnderstood` needs `LinesRead`: `parse()` has in hand nothing, the table, the operation or both, exactly as the
  line has them before the place it looks at, and a line it gave up on cannot be completed to an acceptable one
  (`Expected` says what an acceptable line must have there). `CommitsDoWhatWasAsked` puts both invariants together.
* **`SshClient_proofs`**. `TerminalInv` ties the mask and the echo to the place in `get_password`, and says that signals
  are blocked only in a running program (`TerminalIsRestored`). `QueueUnseen`: at a terminal all that is queued when the
  line is read was typed unseen and is whole, because the program flushed what was typed ahead; `Unseen` carries this from the line
  read to the password tried (`PasswordWasTypedUnseen`). `ArgumentsSeen` says what the loop over the arguments
  knows of those before `pos` (`ConnectsToTheLast`). `DataInv` says what was listed, saved or printed at each place of
  either program (`DataDelivered`); `ClientTypes` is the type invariant.
* **`Services_proofs`**. `HttpInv`: nothing is open twice (`Connected`, `Reading`), a thread's argument is the connection
  it was started for and no other thread's (`Handling`), and what it found is what its own client asked for (`Attending`):
  `HandlersAreOwn`, and `StopsForGoodCause`, which counts the descriptors in use and
  needs of `Attending` that a thread runs wild only for a request that does harm; `HttpIsTyped` is the type invariant. `GreetInv`: who was settled was greeted, but for the
  first of `server6` (`FirstOnlyUngreeted`). `EchoInv`: at most one line of a client is under way, on the stream `n` steps
  round from the first (`AnsweredInTurn`). `SegmentsInv` with `ChecksumCompletes`: folding the carries of any sum and
  complementing it completes the sum (`SegmentsAreIntact`, of TCP; the sum of a datagram is the kernel's, of which nothing is proved). `PrivInv` carries what was true before the drop to after it: a server on a
  low port came past its test of `euid`, so its `setuid` sets all three ids; and what `getresuid` reported is still true
  when it is tested (`NothingLeft`). `ServicesAreTyped` is about the composition `MCServices`: a step of one service keeps the
  invariants of all.
* **`Numbers_proofs`** is induction over data: `LeastNumber` and `Upwards` take the set of the numbers for which a statement
  holds, where the library's theorem takes an operator, which the provers cannot instantiate. With them the
  recursive functions of the models are shown to exist and to take their steps (`UpTo`, `Sums`, `EndAround`). For this reason
  `DigitsOf`, `WordsFrom` and `EndAround` are recursive functions and not folds of the community modules, whose definitions
  are recursive operators to the prover.

The assumptions on the constants are what the code or C gives: `strtol` makes 0 of `"-p"`; a reading of no line is none of the lines;
an IP header has an even number of bytes (`sizeof` is 20); placeholders for "a directory" or "the terminal" are no
clients. TLC evaluates each of them in the runs.

Model-checked only: liveness (`LeaverDropped`, `WaitEnds`, `EveryFittingAccepted`, `InterruptEnds`, `Heard`, `LinesAnswered`,
`ToldBoth`, `Reported`), since
fairness and ENABLED are out of the prover's reach; and the six violations of section 6, for which an instance is all that is needed.

## 6. What was found

Six runs show a disagreement between the code and what a line of the repository says of it:

* `chat_read_waits`: after an erasure the range-for visits the last client twice on one answer of select. The second
  read finds nothing and waits, and the server with it (`server4.cpp:62-73`).
* `chat_text`: the buffer is cleared once per pass and `read` writes no terminator, so a short message is
  broadcast with the tail of a longer one read before it, under its author's label (`server4.cpp:60-81`).
* `palindrome_length`: the server judges everything up to the first zero byte, and the buffer is never cleared: a
  line shorter than an earlier one is judged with the earlier one's tail (`server3.cpp:129`).
* `palindrome_marks`: `libpalindrome.c:24` promises -1 for data with characters that are neither digits nor white space; line 57
  refuses letters only, and `1-1`, or `-` alone, is judged by its digits. `ReturnsVerdict` and its theorem follow the code.
* `nfqueue_truncated`: a packet longer than the buffer is received, refused as truncated and never given a verdict; it
  stays in the kernel's queue (`queuemod.c:95-97`).
* `iptables_lost`: a commit puts the whole snapshot back, and the kernel compares only the number of entries: another
  tool's policy, committed in between, is undone silently (`iptcmod.c:339`, `455`). The comment at line 336 says only that the commit
  approves the changes; that it should leave other tools' alone is a reading of it.

Seen while the code was read, and part of the models without a run of their own:

* The directory listing of `sftp_get.c:125-138` prints after every call, so its last entry appears twice;
  `DeliversData` promises the entries in order and then whatever is printed once more.
* A failed read looks like the end of the file, and the results of `open` and `write` are not looked at
  (`sftp_get.c:181-197`): `fault` marks such downloads. The handle is kept in an `int` (line 171, `HandleCut`).
* A password at the end of a pipe reads as empty, and the question is asked without end (`sftp_get.c:286`).
* The loop over the digits of a port never refuses anything (`libcommon.c:329`, `362`).
* Without a significant digit `is_palindrome` compares bytes it never wrote.
* The comments at `iptcmod.c:335` and `488` say that `iptc_commit` frees the handle and sets it to NULL; the handle is
  passed by value and cannot become NULL, so the `iptc_free` at line 491 is always called.
* `server6.cpp:78` assigns the comparison, so the first client's greeting goes to the terminal and its connection stays
  open; closing descriptor 0 makes the assignment right for all later ones. Line 87 prints an address through an uninitialised pointer.
* `server5.cpp:219` tests `pthread_create` for a negative result, which it never has: a connection may get no thread. Line 41 may
  write one byte past the message, line 42 past a field, line 54 one byte past what line 49 asked for (and line 50 clears as much
  as happens to be there), and lines 80-86 past the page. A client of another protocol is sent what `buff_send` holds up
  to its first zero byte: on a fresh stack, or one that a thread before it cleared at line 151, nothing, and as the connection is never closed
  such a client waits for ever.
* `rootserver.c:92` ignores the result of `setuid`: started without privilege on a high port it serves under the ids
  it has, whatever UID says. Its comment and `capserver.c:43` say that only root or a set-user-ID program may bind a low port;
  `fserver` does it with a capability of its file. The real id is tested nowhere.
* `capserver.c:102` frees `privilege_on`, which above port 1023 was never set.
* `client3.c` and `client2.c` pass uninitialised `flags` to `sctp_recvmsg`: a first message may be printed twice, or the
  answers stay one behind; `EchoesInTurn` and `ToldBoth` promise nothing to such clients.
* `udpv6.c:62` takes the flow label for the address; the kernel's checksum (line 123) replaces the wrong one.
* `ping.cpp` prints any four ICMP packets, its own requests too when the target is this host.
* An ICMP message of zeros gets a checksum that its receiver refuses (`AllZero`); IP options are
  not skipped (`queuemod.c:129`), and packets with them are outside the model.

## 7. What is not modelled

Makefiles, compiled programs, images and reports have no behaviour of their own. Within the modelled
components: set-up before the loops (socket, bind, listen, opening the queue) is the initial state or
ends the program; messages on the screen are left out unless a property is about them; a terminal in another
mode than the usual one, the bytes of pages and packets, signals sent by other processes, host names' resolution beyond failing, and the content of keys and files
are abstracted.

## 8. Plan

Done: a model of every program; every invariant and action property of the passing runs, and the refinement of the chat room,
proved for all values of the constants.

Next proofs: the safety half of the liveness properties, so that only fairness is left to TLC: a measure that every step of the
reversing, summing and comparing loops brings down; that `main` and the threads of the HTTP server never wait for each other; that a
message owed by the chat server is owed to a shrinking set. Then the circumstances of the six violations: what must hold for
`CommitsSerialize`, `TextIsAuthors` and `VerdictOfDatagram` to be true (tools whose commits change the number of entries, messages of
full length, lines that never get shorter).
