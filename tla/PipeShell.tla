----------------------------- MODULE PipeShell -----------------------------
(***************************************************************************)
(* p8: a shell with one pipe or one redirection a line.  For a pipe the    *)
(* shell forks the left command, which forks the right one; the shell      *)
(* waits for the left one only, and never closes its ends of the pipe.     *)
(*                                                                         *)
(* Lines are well formed: there is a command on each side of a |, and a    *)
(* file behind a > or a <.                                                 *)
(***************************************************************************)
EXTENDS Integers, Sequences, FiniteSets

CONSTANTS
  Lines,       \* the lines typed: [op, left, right], commands as [name, args]
  NLines,      \* bound: how many of them
  Reads,       \* the commands that read their input to its end
  Size,        \* how much each program writes
  PIPE,        \* what a pipe holds
  MaxFd,       \* the descriptors a process may have open
  Absent,      \* the files that do not exist
  MaxFails     \* bound: how many calls of fork() fail

ASSUME PipeShellAssumption ==
  /\ {NLines, PIPE, MaxFd, MaxFails} \subseteq Nat
  /\ \A l \in Lines : l.op \in {"|", "<", ">", ""} /\ l.left.name \in DOMAIN Size
  /\ \A name \in DOMAIN Size : Size[name] \in Nat

Children == (1 .. NLines) \X {"left", "right"}
Shell == << 0, "shell" >>
Procs == {Shell} \cup Children

Left(k) == << k, "left" >>
Right(k) == << k, "right" >>

Tty == 0          \* an input or output that is no pipe or file
File == -1

VARIABLES
  line,       \* the lines typed so far
  pc,         \* "none" before and "gone" after
  in, out,    \* standard input and output: Tty, File or the pipe of a line
  ends,       \* the pipe ends that are open
  runs,       \* the command that each process executes
  wrote,      \* how much it has written
  pipe,       \* how much there is in each pipe
  fails       \* the calls of fork() that failed

vars == << line, pc, in, out, ends, runs, wrote, pipe, fails >>

typed == Len(line)
Nothing == [name |-> "", args |-> << >>]

Init ==
  /\ line = << >>
  /\ pc = [p \in Procs |-> IF p = Shell THEN "prompt" ELSE "none"]
  /\ in = [p \in Procs |-> Tty] /\ out = [p \in Procs |-> Tty]
  /\ ends = [p \in Procs |-> {}]
  /\ runs = [p \in Procs |-> Nothing]
  /\ wrote = [p \in Procs |-> 0]
  /\ pipe = [k \in 1 .. NLines |-> 0]
  /\ fails = 0

Alive(p) == pc[p] \notin {"none", "gone"}
Held(k, e) == \E p \in Procs : << k, e >> \in ends[p]

Gone(p) ==
  /\ pc' = [pc EXCEPT ![p] = "gone"]
  /\ ends' = [ends EXCEPT ![p] = {}]

-----------------------------------------------------------------------------
(***************************************************************************)
(* The shell.                                                              *)
(***************************************************************************)
\* Standard input, output and error, and one new descriptor for each end.
NoRoom == 3 + Cardinality(ends[Shell]) + 2 > MaxFd

NewEnds(k, l) == IF l.op = "|" THEN {<< k, "r" >>, << k, "w" >>} ELSE {}

\* fork() of the left command.  The child has all the ends there are.
Type(l) ==
  LET k == typed + 1
      held == ends[Shell] \cup NewEnds(k, l) IN
  /\ pc[Shell] = "prompt" /\ typed < NLines
  /\ l.op = "|" => ~ NoRoom
  /\ line' = Append(line, l)
  /\ \/ /\ pc' = [pc EXCEPT ![Shell] = "wait", ![Left(k)] = "begin"]
        /\ ends' = [ends EXCEPT ![Shell] = held, ![Left(k)] = held]
        /\ UNCHANGED fails
     \/ /\ fails < MaxFails
        /\ fails' = fails + 1
        /\ pc' = [pc EXCEPT ![Shell] = "wait"]
        /\ ends' = [ends EXCEPT ![Shell] = held]
  /\ UNCHANGED << in, out, runs, wrote, pipe >>

\* pipe() fails: the shell exits.
TypeTooMany(l) ==
  /\ pc[Shell] = "prompt" /\ typed < NLines
  /\ l.op = "|" /\ NoRoom
  /\ Gone(Shell)
  /\ UNCHANGED << line, in, out, runs, wrote, pipe, fails >>

\* Mutant: for the right command too.
WaitBoth ==
  /\ pc[Shell] = "wait"
  /\ ~ Alive(Left(typed)) /\ ~ Alive(Right(typed))
  /\ pc' = [pc EXCEPT ![Shell] = "prompt"]
  /\ UNCHANGED << line, in, out, ends, runs, wrote, pipe, fails >>

Wait ==
  /\ pc[Shell] = "wait"
  /\ ~ Alive(Left(typed))
  /\ pc' = [pc EXCEPT ![Shell] = "prompt"]
  /\ UNCHANGED << line, in, out, ends, runs, wrote, pipe, fails >>

Quit ==
  /\ pc[Shell] = "prompt"
  /\ Gone(Shell)
  /\ UNCHANGED << line, in, out, runs, wrote, pipe, fails >>

-----------------------------------------------------------------------------
(***************************************************************************)
(* Its children.                                                           *)
(***************************************************************************)
Execv(p, command) ==
  /\ pc' = [pc EXCEPT ![p] = IF command \in Reads THEN "read" ELSE "write"]
  /\ runs' = [runs EXCEPT ![p] = command]

\* A single command, or one with a redirection.
Begin(k) ==
  LET l == line[k] IN
  /\ pc[Left(k)] = "begin" /\ l.op # "|"
  /\ IF l.op = "<" /\ l.right \in Absent
     THEN Gone(Left(k)) /\ UNCHANGED << in, out, runs >>
     ELSE /\ in' = [in EXCEPT ![Left(k)] = IF l.op = "<" THEN File ELSE Tty]
          /\ out' = [out EXCEPT ![Left(k)] = IF l.op = ">" THEN File ELSE Tty]
          /\ Execv(Left(k), l.left)
          /\ UNCHANGED ends
  /\ UNCHANGED << line, wrote, pipe, fails >>

ForkRight(k) ==
  /\ pc[Left(k)] = "begin" /\ line[k].op = "|"
  /\ \/ /\ pc' = [pc EXCEPT ![Left(k)] = "wire", ![Right(k)] = "wire"]
        /\ ends' = [ends EXCEPT ![Right(k)] = ends[Left(k)]]
        /\ UNCHANGED fails
     \/ /\ fails < MaxFails
        /\ fails' = fails + 1
        /\ Gone(Left(k))
  /\ UNCHANGED << line, in, out, runs, wrote, pipe >>

\* The left command closes fd[0] and writes to fd[1].
WireLeft(k) ==
  /\ pc[Left(k)] = "wire"
  /\ ends' = [ends EXCEPT ![Left(k)] = @ \ {<< k, "r" >>}]
  /\ out' = [out EXCEPT ![Left(k)] = k]
  /\ Execv(Left(k), line[k].left)
  /\ UNCHANGED << line, in, wrote, pipe, fails >>

\* It is the left program that the right side executes, with its own arguments:
\* execv() gets path and not path2 (line 84).
RightCommand(l) == [name |-> l.left.name, args |-> l.right.args]

\* Mutant: fd[1] is not closed.
RightKeeps(k) == ends[Right(k)]

RightEnds(k) == ends[Right(k)] \ {<< k, "w" >>}

\* Mutant: standard input is not moved.
RightReadsTty(k) == Tty

RightInput(k) == k

\* The right command closes fd[1] and reads from fd[0].
WireRight(k) ==
  /\ pc[Right(k)] = "wire"
  /\ ends' = [ends EXCEPT ![Right(k)] = RightEnds(k)]
  /\ in' = [in EXCEPT ![Right(k)] = RightInput(k)]
  /\ Execv(Right(k), RightCommand(line[k]))
  /\ UNCHANGED << line, out, wrote, pipe, fails >>

-----------------------------------------------------------------------------
(***************************************************************************)
(* The programs.  One that reads does so to the end, then it writes.  The  *)
(* shell has the reading end of every pipe while a left command is there:  *)
(* no write is in vain.                                                    *)
(***************************************************************************)
Read(p) ==
  /\ pc[p] = "read" /\ in[p] \in 1 .. NLines
  /\ pipe[in[p]] > 0
  /\ pipe' = [pipe EXCEPT ![in[p]] = @ - 1]
  /\ UNCHANGED << line, pc, in, out, ends, runs, wrote, fails >>

\* Who types into a program ends it at some time.
ReadEnd(p) ==
  /\ pc[p] = "read"
  /\ in[p] \in 1 .. NLines => pipe[in[p]] = 0 /\ ~ Held(in[p], "w")
  /\ pc' = [pc EXCEPT ![p] = "write"]
  /\ UNCHANGED << line, in, out, ends, runs, wrote, pipe, fails >>

Write(p) ==
  /\ pc[p] = "write" /\ wrote[p] < Size[runs[p].name]
  /\ wrote' = [wrote EXCEPT ![p] = @ + 1]
  /\ IF out[p] \in 1 .. NLines
     THEN pipe[out[p]] < PIPE /\ pipe' = [pipe EXCEPT ![out[p]] = @ + 1]
     ELSE UNCHANGED pipe
  /\ UNCHANGED << line, pc, in, out, ends, runs, fails >>

Ends(p) ==
  /\ pc[p] = "write" /\ wrote[p] = Size[runs[p].name]
  /\ Gone(p)
  /\ UNCHANGED << line, in, out, runs, wrote, pipe, fails >>

Program(p) == Read(p) \/ ReadEnd(p) \/ Write(p) \/ Ends(p)
Child(k) == Begin(k) \/ ForkRight(k) \/ WireLeft(k) \/ Program(Left(k))
Grandchild(k) == WireRight(k) \/ Program(Right(k))

Next ==
  \/ \E l \in Lines : Type(l) \/ TypeTooMany(l)
  \/ Wait \/ Quit
  \/ \E k \in 1 .. NLines : Child(k) \/ Grandchild(k)

Spec == Init /\ [][Next]_vars

\* Every process is scheduled; nobody has to type anything.
FairSpec ==
  /\ Spec
  /\ WF_vars(Wait)
  /\ \A k \in 1 .. NLines : WF_vars(Child(k)) /\ WF_vars(Grandchild(k))

-----------------------------------------------------------------------------
(***************************************************************************)
(* A right command that reads its input to the end does not come to it     *)
(* while the shell is there, nor while a process of a later line is: all   *)
(* of them have the writing end.  The readers end after the shell, the     *)
(* last one first.                                                         *)
(***************************************************************************)
ReadersEndLast ==
  \A k \in 1 .. typed :
    (pc[Right(k)] \in {"write", "gone"} /\ runs[Right(k)] \in Reads) =>
      /\ pc[Shell] = "gone"
      /\ ~ Alive(Left(k))
      /\ \A j \in k + 1 .. typed : ~ Alive(Left(j)) /\ ~ Alive(Right(j))

(***************************************************************************)
(* And then they do end: none of the ends that processes of later lines    *)
(* have inherited keeps two of them waiting for each other.                *)
(***************************************************************************)
AllEnd == pc[Shell] = "gone" ~> \A p \in Procs : ~ Alive(p)

\* What the left command writes fits the pipe, or is read.
Flows(l) == l.op = "|" => Size[l.left.name] <= PIPE \/ RightCommand(l) \in Reads

(***************************************************************************)
(* The prompt comes back, or the shell ends, for a line whose pipe is read *)
(* or holds all.  Otherwise the left command waits for ever, with nobody   *)
(* reading and the shell's reading end open.                               *)
(***************************************************************************)
PromptReturns ==
  (pc[Shell] = "wait" /\ Flows(line[typed])) ~> pc[Shell] # "wait"
=============================================================================
