----------------------------- MODULE GetPassword -----------------------------
(***************************************************************************)
(* get_password of Lab12/libcommon.c: the terminal stops showing what is   *)
(* typed, signals of the keyboard wait, one line is read byte by byte, and *)
(* both are put back.  The user may type and send signals at any moment.   *)
(*                                                                         *)
(* Without a terminal the input is a pipe that was filled and closed.      *)
(***************************************************************************)
EXTENDS Integers, Sequences

CONSTANTS
  Chars,        (* what may be typed                                      *)
  TypedLines,   (* the lines typed                                        *)
  Piped,        (* what a pipe may hold, a sequence of lines              *)
  PassLen,      (* PASS_LEN, the size of the buffer                       *)
  MaxQueue,     (* bound: lines typed and not read yet                    *)
  NoLine        (* no line                                                *)

ASSUME PasswordConstants ==
  /\ TypedLines \subseteq Seq(Chars)
  /\ Piped \subseteq Seq(TypedLines)
  /\ PassLen \in Nat \ {0}
  /\ MaxQueue \in Nat \ {0}
  /\ NoLine \notin [text : TypedLines, left : Seq(Chars), shown : BOOLEAN]

VARIABLES
  pc,           (* where the program is                                   *)
  life,         (* "running", "stopped" or "killed"                       *)
  tty,          (* /dev/tty can be opened, and is the standard input      *)
  echo,         (* c_lflag & ECHO of the terminal                         *)
  blocked,      (* the signals are blocked                                *)
  pending,      (* signals that wait for that to end                      *)
  queue,        (* lines the kernel holds for the next read               *)
  password,     (* buf                                                    *)
  taken         (* the line it was read from                              *)

ttyVars == <<tty, echo, blocked, pending, queue>>
passVars == <<pc, life, tty, echo, blocked, pending, queue, password, taken>>

(* A line: what was typed, what is left of it, and whether it was shown.   *)
Line == [text : TypedLines, left : Seq(Chars), shown : BOOLEAN]
Signals == {"SIGINT", "SIGTSTP"}

PassTypeOK ==
  /\ life \in {"running", "stopped", "killed"}
  /\ tty \in BOOLEAN /\ echo \in BOOLEAN /\ blocked \in BOOLEAN
  /\ pending \subseteq Signals
  /\ queue \in Seq(Line)
  /\ password \in Seq(Chars) /\ Len(password) < PassLen
  /\ taken \in Line \cup {NoLine}

PassInit ==
  /\ life = "running"
  /\ tty \in BOOLEAN
  /\ echo = TRUE
  /\ blocked = FALSE
  /\ pending = {}
  /\ IF tty THEN queue = <<>>
     ELSE \E lines \in Piped :
            queue = [k \in 1..Len(lines) |->
                       [text |-> lines[k], left |-> lines[k], shown |-> FALSE]]
  /\ password = <<>>
  /\ taken = NoLine

-----------------------------------------------------------------------------
(* The user.                                                               *)

Type(line) ==
  /\ tty /\ life = "running"
  /\ Len(queue) < MaxQueue
  /\ queue' = Append(queue, [text |-> line, left |-> line, shown |-> echo])
  /\ UNCHANGED <<pc, life, tty, echo, blocked, pending, password, taken>>

Effect(s) == life' = IF s = "SIGINT" THEN "killed" ELSE "stopped"

Send(s) ==
  /\ life = "running"
  /\ IF blocked \/ pending # {} THEN pending' = pending \cup {s} /\ UNCHANGED life
     ELSE Effect(s) /\ UNCHANGED pending
  /\ UNCHANGED <<pc, tty, echo, blocked, queue, password, taken>>

(* What waited comes first once the mask is gone, the lowest signal first. *)
Deliver(s) ==
  /\ life = "running" /\ ~blocked
  /\ s \in pending
  /\ s = "SIGTSTP" => "SIGINT" \notin pending
  /\ Effect(s)
  /\ pending' = pending \ {s}
  /\ UNCHANGED <<pc, tty, echo, blocked, queue, password, taken>>

Continue ==
  /\ life = "stopped"
  /\ life' = "running"
  /\ UNCHANGED <<pc, tty, echo, blocked, pending, queue, password, taken>>

-----------------------------------------------------------------------------
(* get_password, between two steps of which a signal may arrive.           *)

(* The program goes on only when no signal is due.                         *)
At(place) == pc = place /\ life = "running" /\ (blocked \/ pending = {})

Block ==
  /\ At("block")
  /\ blocked' = TRUE
  /\ pc' = "hide"
  /\ UNCHANGED <<life, tty, echo, pending, queue, password, taken>>

(* TCSAFLUSH discards what was typed and not read.                         *)
NotFlushed == queue                      \* mutant: TCSANOW in place of TCSAFLUSH
Flushed == IF tty THEN <<>> ELSE queue

Hide ==
  /\ At("hide")
  /\ echo' = ~tty
  /\ queue' = Flushed
  /\ pc' = "read"
  /\ UNCHANGED <<life, tty, blocked, pending, password, taken>>

(* The byte that does not fit is read and lost, the rest of the line stays.*)
Longest == PassLen - 1
ReadLine ==
  /\ At("read")
  /\ queue # <<>>
  /\ LET line == Head(queue)
         fits == Len(line.left) <= Longest
     IN /\ taken' = line
        /\ password' = IF fits THEN line.left ELSE SubSeq(line.left, 1, Longest)
        /\ queue' = IF fits THEN Tail(queue)
                    ELSE <<[line EXCEPT !.left = SubSeq(@, PassLen + 1, Len(@))]>> \o Tail(queue)
  /\ pc' = "show"
  /\ UNCHANGED <<life, tty, echo, blocked, pending>>

(* The end of the pipe, or the end-of-file key: read gives 0, which is no  *)
(* error to the caller.                                                    *)
ReadEof ==
  /\ At("read")
  /\ queue = <<>>
  /\ password' = <<>>
  /\ taken' = NoLine
  /\ pc' = "show"
  /\ UNCHANGED <<life, ttyVars>>

ReadError ==
  /\ At("read")
  /\ pc' = "show_error"
  /\ password' = <<>>
  /\ taken' = NoLine
  /\ UNCHANGED <<life, ttyVars>>

Unrestored == FALSE                      \* mutant: the mode is not put back
Restored == TRUE

Show ==
  /\ At("show") \/ At("show_error")
  /\ echo' = (echo \/ Restored)
  /\ queue' = Flushed
  /\ pc' = IF pc = "show" THEN "unblock" ELSE "unblock_error"
  /\ UNCHANGED <<life, tty, blocked, pending, password, taken>>

StillBlocked == TRUE                     \* mutant: SIG_BLOCK in place of SIG_SETMASK
OldMask == FALSE

Unblock ==
  /\ At("unblock") \/ At("unblock_error")
  /\ blocked' = OldMask
  /\ pc' = IF pc = "unblock" THEN "try" ELSE "failure"
  /\ UNCHANGED <<life, tty, echo, pending, queue, password, taken>>

PasswordStep == Block \/ Hide \/ ReadLine \/ ReadEof \/ ReadError \/ Show \/ Unblock
User == \/ \E line \in TypedLines : Type(line)
        \/ \E s \in Signals : Send(s) \/ Deliver(s)
        \/ Continue

(* The user, asked for a line, ends it.                                    *)
Answer == queue = <<>> /\ \E line \in TypedLines : Type(line)

-----------------------------------------------------------------------------
(* Whenever the program does not run, stopped, killed or at its end, the   *)
(* terminal shows what is typed, and no signal is blocked at its end.      *)
TerminalRestored ==
  life # "running" \/ pc \in {"success", "failure", "crashed"} => echo /\ ~blocked

(* At a terminal, the password that is tried is the line typed while it    *)
(* was not shown, cut to the buffer: never one typed before the question,  *)
(* nor the rest of a line that was too long.                               *)
PasswordIsLine ==
  tty /\ pc = "try" =>
    IF taken = NoLine THEN password = <<>>
    ELSE /\ ~taken.shown
         /\ Len(password) <= Longest
         /\ password = SubSeq(taken.text, 1, Len(password))
         /\ Len(password) < Longest => password = taken.text

(* An interrupt that comes while the line is read ends the program all the *)
(* same, once the line is there.                                           *)
InterruptEnds == "SIGINT" \in pending ~> life = "killed"
=============================================================================
