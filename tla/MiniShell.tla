------------------------------ MODULE MiniShell ------------------------------
(***************************************************************************)
(* pa2: the shell, the processes it forks for a command line, the pipe     *)
(* ends they hold and the SIGCHLD handler.  Whoever forks waits before it  *)
(* forks again, so there is at most one process of each kind: the shell,   *)
(* the job it forks for a redirection or a pipeline, the stage the job     *)
(* forks for a command of a pipeline, and the program execution() forks.   *)
(* A pipe has the number of the stage that writes to it.                   *)
(*                                                                         *)
(* The shell is on a terminal.  A command is its first word; no line       *)
(* begins with an operator (first_argv[0] is not set then).  An operator   *)
(* is a word of its own: in a word such as a>b main() would find one (line *)
(* 176) that it then does not record.  The built-in cd has no effect on    *)
(* any of this.                                                            *)
(***************************************************************************)
EXTENDS Integers, Sequences, FiniteSets, SequencesExt

CONSTANTS
  Lines,     \* the command lines typed, sequences of words
  NLines,    \* bound: how many of them
  Reads,     \* the programs that read their input to its end
  Size,      \* how much each program writes
  PIPE,      \* what a pipe holds
  Content,   \* the files there are at the start, and what they hold
  MaxFails   \* bound: how many calls of fork() fail

Programs == DOMAIN Size
Stages == UNION {0 .. Len(l) : l \in Lines}
None == "none"                    \* no process, no word

ASSUME ShellAssumption ==
  /\ \A l \in Lines : l \in Seq(STRING) /\ l # << >> /\ None \notin Range(l)
  /\ NLines \in Nat /\ MaxFails \in Nat /\ PIPE \in Nat \ {0}
  /\ Size \in [Programs -> Nat] /\ Reads \subseteq Programs
  /\ {None, "exit"} \cap Programs = {}
  /\ Content \in [DOMAIN Content -> Seq(STRING)]

Procs == {"shell", "job", "stage", "prog"}
Tty == << "tty" >>
NoFd == << "-1" >>
Pipe(k) == << "pipe", k >>
File(f, append) == << "file", f, append >>

VARIABLES
  line, typed,      \* the last line typed, and how many there were
  plan,             \* the jobs main() still has to do for it
  ran,              \* the programs that were started for it
  pc,               \* where each process is; "none", "zombie" or "dead"
  kid,              \* its child
  chld,             \* the processes for which SIGCHLD is pending
  stopped,          \* those that are stopped
  in, out,          \* what their standard input and output are
  ends,             \* the pipe ends they hold
  num, fd_backup,   \* of the job's loop
  wrote, took,      \* how much each stage wrote, and how much was read of it
  file, pos,        \* the files, and the position in the one written
  fails,            \* calls of fork() that failed
  killed            \* whether a handler has called kill(-1) since the line was typed

text == << line, typed, plan >>
procs == << pc, kid, chld, stopped, killed >>
descr == << in, out, ends >>
loop == << num, fd_backup >>
data == << wrote, took, file, pos >>
vars == << text, ran, procs, descr, loop, data, fails >>

-----------------------------------------------------------------------------
(***************************************************************************)
(* From the line to the jobs.                                              *)
(***************************************************************************)
Operators == {"|", ">", ">>", "<"}

\* The places from b on where l has one of the words W, and the n-th of them.
From(l, b, W) == {i \in b .. Len(l) : l[i] \in W}
Nth(S, n) == CHOOSE i \in S : Cardinality({k \in S : k <= i}) = n

\* What red_or_pipe records.  For ">>" nothing is stored (==), which leaves a 0.
Kind(t) == IF t = ">>" THEN ">" ELSE t

red_or_pipe(l) ==
  LET ops == From(l, 1, Operators) IN [n \in 1 .. Cardinality(ops) |-> Kind(l[Nth(ops, n)])]

isValid(l) ==
  LET k == red_or_pipe(l) n == Len(k) IN
  /\ ~ (n > 2 /\ k[1] \in {">", ">>"})
  /\ \A i \in 2 .. n - 1 : k[i] = "|"
  /\ ~ (n > 2 /\ k[n] = "<")

WordAt(l, i) == IF i <= Len(l) THEN l[i] ELSE None

\* Where the j-th of the commands from place i on ends.
Stop(l, i, j) ==
  LET S == From(l, i, {"|", ">", ">>"}) IN
  IF j = 0 THEN i - 1 ELSE IF j <= Cardinality(S) THEN Nth(S, j) ELSE Len(l) + 1

\* Mutant: the operator that ends a command is not passed over (i++).
SplitAtOperator(l, i, n) == [j \in 1 .. n |-> SubSeq(l, i, Stop(l, i, 1) - 1)]

\* pipe_commands: n commands, from place i on, cut at the operators.
Split(l, i, n) == [j \in 1 .. n |-> SubSeq(l, Stop(l, i, j - 1) + 1, Stop(l, i, j) - 1)]

\* Mutant: without O_APPEND.
SingleOver(argv, i, o, append) ==
  << [loop |-> FALSE, cmds |-> << argv >>, in |-> i, out |-> o, append |-> FALSE] >>

Single(argv, i, o, append) ==
  << [loop |-> FALSE, cmds |-> << argv >>, in |-> i, out |-> o, append |-> append] >>

\* When a pipeline ends in a redirection, the last of its commands is the file.
Pipeline(cmds, i, last) ==
  IF last = "<" THEN << >>
  ELSE << [loop |-> TRUE, cmds |-> cmds, in |-> i,
           out |-> IF last = "|" THEN None ELSE WordAt(Last(cmds), 1),
           append |-> last = ">>"] >>

NextOp(l, b) == IF From(l, b, Operators) = {} THEN Len(l) + 1 ELSE Nth(From(l, b, Operators), 1)

\* The operator at i makes a job of its own, and the loop goes on after its file.
Redirects(l, i) ==
  LET k == red_or_pipe(l) IN
  i <= Len(l) /\ l[i] # "|" /\ (l[i] = "<" => Len(k) = 1 \/ (Len(k) = 2 /\ k[2] = ">"))

\* From place b on to the next operator: the words up to it are first_argv.
Turn(l, b) ==
  LET n == Len(red_or_pipe(l))
      i == NextOp(l, b)
      argv == SubSeq(l, b, i - 1)
      name == WordAt(l, i + 1)
  IN IF i > Len(l) THEN << >>
     ELSE IF ~ Redirects(l, i)
     THEN Pipeline(<< argv >> \o Split(l, i + 1, n), IF l[i] = "<" THEN name ELSE None,
                   red_or_pipe(l)[n])
     ELSE IF l[i] = "<"
     THEN Single(argv, name, IF n = 1 THEN None ELSE WordAt(l, i + 3), FALSE)
     ELSE Single(argv, None, name, l[i] = ">>")

\* The loop over the words goes on after a redirection.  A valid line has two
\* operators at most then.
Jobs(l) ==
  LET i == NextOp(l, 1) IN
  Turn(l, 1) \o (IF Redirects(l, i) THEN Turn(l, i + 2) ELSE << >>)

\* No operator: main() calls execution() itself.
Simple(l) == \A i \in DOMAIN l : l[i] \notin Operators

Plan(l) == IF Simple(l) THEN Single(l, None, None, FALSE)
           ELSE IF isValid(l) THEN Jobs(l) ELSE << >>

job == Head(plan)
pipe_commands == job.cmds
Command(i) == pipe_commands[i + 1]
NotNull(i) == i < Len(pipe_commands)

-----------------------------------------------------------------------------
Init ==
  /\ line = << >> /\ typed = 0 /\ plan = << >> /\ ran = << >>
  /\ pc = [p \in Procs |-> IF p = "shell" THEN "prompt" ELSE "none"]
  /\ kid = [p \in Procs |-> None]
  /\ chld = {} /\ stopped = {}
  /\ in = [p \in Procs |-> Tty] /\ out = [p \in Procs |-> Tty]
  /\ ends = [p \in Procs |-> {}]
  /\ num = 0 /\ fd_backup = Tty
  /\ wrote = [k \in Stages |-> 0] /\ took = [k \in Stages |-> 0]
  /\ file = Content /\ pos = 0
  /\ fails = 0 /\ killed = FALSE

Alive(p) == pc[p] \notin {"none", "zombie", "dead"}
Parents(S) == {p \in Procs : kid[p] \in S}

\* A pending signal is handled before its process does anything else.
At(p, label) == pc[p] = label /\ p \notin stopped /\ p \notin chld

Goto(p, label) == pc' = [pc EXCEPT ![p] = label]

\* exit(), or a signal that kills.
Exit(p) ==
  /\ pc' = [pc EXCEPT ![p] = IF p = "shell" THEN "dead"
                             ELSE IF Parents({p}) = {} THEN "none" ELSE "zombie"]
  /\ chld' = chld \cup Parents({p})
  /\ ends' = [ends EXCEPT ![p] = {}]
  /\ UNCHANGED << kid, stopped, killed, in, out >>

\* fork(): the child q has all its parent has, and begins at label.
Fork(p, q, label, held) ==
  /\ pc' = [pc EXCEPT ![p] = "wait", ![q] = label]
  /\ kid' = [kid EXCEPT ![p] = q]
  /\ ends' = [ends EXCEPT ![p] = held, ![q] = held]
  /\ in' = [in EXCEPT ![q] = in[p]]
  /\ out' = [out EXCEPT ![q] = out[p]]
  /\ UNCHANGED << chld, stopped, killed, fails >>

\* It fails: there is no child, and wait() will return at once.
ForkFails(p) ==
  /\ fails < MaxFails
  /\ fails' = fails + 1
  /\ Goto(p, "wait")
  /\ UNCHANGED << kid, chld, stopped, killed, descr >>

-----------------------------------------------------------------------------
(***************************************************************************)
(* The signal handler.                                                     *)
(***************************************************************************)
\* kill(-1, SIGKILL): all processes but the one that calls.
KillAll(p) ==
  /\ pc' = [q \in Procs |-> IF q = p THEN pc[p]
                            ELSE IF q = kid[p] THEN "zombie"
                            ELSE IF q = "shell" THEN "dead" ELSE "none"]
  /\ kid' = [q \in Procs |-> IF q = p THEN kid[p] ELSE None]
  /\ chld' = IF kid[p] = None THEN {} ELSE {p}
  /\ ends' = [q \in Procs |-> IF q = p THEN ends[p] ELSE {}]
  /\ stopped' = {}
  /\ killed' = TRUE
  /\ UNCHANGED << in, out >>

Reap(p) ==
  /\ kid' = [kid EXCEPT ![p] = None]
  /\ chld' = chld \ {p}
  /\ pc' = [pc EXCEPT ![kid[p]] = "none"]
  /\ UNCHANGED << stopped, killed, descr >>

Zombie(p) == kid[p] # None /\ pc[kid[p]] = "zombie"

\* When there is nothing to wait for, status is whatever was there.
sigchld_handler(p) ==
  /\ p \in chld /\ Alive(p) /\ p \notin stopped
  /\ \/ Zombie(p) /\ Reap(p)
     \/ ~ Zombie(p) /\ KillAll(p)
     \/ /\ ~ Zombie(p) /\ kid[p] \notin stopped
        /\ chld' = chld \ {p}
        /\ UNCHANGED << pc, kid, stopped, killed, descr >>
  /\ UNCHANGED << text, ran, loop, data, fails >>

-----------------------------------------------------------------------------
(***************************************************************************)
(* execution(), called by the shell, a job or a stage.                     *)
(***************************************************************************)
\* Where the caller goes on.
Return(p) ==
  /\ plan' = IF p = "shell" THEN Tail(plan) ELSE plan
  /\ pc' = [pc EXCEPT ![p] = IF p = "shell" THEN "next" ELSE "exit"]

\* An empty command is compared through a null pointer.
Ends(argv) == WordAt(argv, 1) \in {None, "exit"}

execution(p, argv) ==
  \/ /\ Ends(argv)
     /\ Exit(p)
     /\ UNCHANGED << plan, ran, fails >>
  \/ /\ ~ Ends(argv) /\ WordAt(argv, 1) \in Programs
     /\ Fork(p, "prog", IF argv[1] \in Reads THEN "read" ELSE "write", ends[p])
     /\ ran' = Append(ran, argv[1])
     /\ UNCHANGED plan
  \/ /\ ~ Ends(argv) /\ WordAt(argv, 1) \in Programs
     /\ ForkFails(p)
     /\ UNCHANGED << plan, ran >>
  \/ /\ ~ Ends(argv) /\ WordAt(argv, 1) \notin Programs
     /\ Return(p)
     /\ UNCHANGED << ran, kid, chld, stopped, killed, descr, fails >>

-----------------------------------------------------------------------------
(***************************************************************************)
(* The shell.                                                              *)
(***************************************************************************)
NoData == /\ wrote' = [k \in Stages |-> 0]
          /\ took' = [k \in Stages |-> 0]

Type(l) ==
  /\ At("shell", "prompt")
  /\ typed < NLines
  /\ typed' = typed + 1
  /\ line' = l
  /\ plan' = Plan(l)
  /\ ran' = << >>
  /\ num' = 0
  /\ Goto("shell", "next")
  /\ killed' = FALSE
  /\ NoData
  /\ UNCHANGED << kid, chld, stopped, descr, fd_backup, file, pos, fails >>

Prompt ==
  /\ At("shell", "next") /\ plan = << >>
  /\ Goto("shell", "prompt")
  /\ UNCHANGED << text, ran, kid, chld, stopped, killed, descr, loop, data, fails >>

\* In a pipeline that begins with "<" there is no descriptor to go on from yet.
ForkJob ==
  /\ At("shell", "next") /\ plan # << >>
  /\ IF Simple(line) THEN /\ execution("shell", Command(0))
                          /\ UNCHANGED << line, typed, loop, data >>
     ELSE /\ \/ Fork("shell", "job", IF job.loop THEN "loop" ELSE "open", {})
             \/ ForkFails("shell")
          /\ num' = 0
          /\ fd_backup' = IF job.in = None THEN Tty ELSE NoFd
          /\ NoData
          /\ UNCHANGED << text, ran, file, pos >>

\* wait(): the kernel may find the child before the signal is delivered.
Waits(p) == pc[p] = "wait" /\ p \notin stopped /\ (kid[p] = None \/ Zombie(p))

Reaped(p, label) ==
  /\ pc' = [q \in Procs |-> IF q = p THEN label ELSE IF q = kid[p] THEN "none" ELSE pc[q]]
  /\ kid' = [kid EXCEPT ![p] = None]
  /\ UNCHANGED << chld, stopped, killed, in, out >>

\* Mutant: the shell goes on without wait().
GoOn ==
  /\ At("shell", "wait")
  /\ Goto("shell", "next")
  /\ plan' = Tail(plan)
  /\ UNCHANGED << line, typed, ran, kid, chld, stopped, killed, descr, loop, data, fails >>

WaitJob ==
  /\ Waits("shell")
  /\ Reaped("shell", "next")
  /\ plan' = Tail(plan)
  /\ UNCHANGED << line, typed, ran, ends, loop, data, fails >>

-----------------------------------------------------------------------------
(***************************************************************************)
(* The job: a command with redirections, or the loop of a pipeline.        *)
(***************************************************************************)
\* Opening creates a file that is written to; what it holds stays (no O_TRUNC).
Readable(f) == f = None \/ f \in DOMAIN file
OpenOut(f) ==
  /\ file' = IF f \in DOMAIN file THEN file ELSE [g \in DOMAIN file \cup {f} |->
                                                   IF g = f THEN << >> ELSE file[g]]
  /\ pos' = 0

Input(f) == IF f = None THEN Tty ELSE << "file", f >>

Open ==
  /\ At("job", "open")
  /\ IF ~ Readable(job.in)
     THEN Exit("job") /\ UNCHANGED << file, pos >>
     ELSE /\ IF job.out = None THEN UNCHANGED << file, pos >> ELSE OpenOut(job.out)
          /\ in' = [in EXCEPT !["job"] = Input(job.in)]
          /\ out' = [out EXCEPT !["job"] = IF job.out = None THEN Tty
                                           ELSE File(job.out, job.append)]
          /\ Goto("job", "run")
          /\ UNCHANGED << kid, chld, stopped, killed, ends >>
  /\ UNCHANGED << text, ran, loop, wrote, took, fails >>

\* The child of a stage's fork() gets both ends of the new pipe.
NewEnds == ends["job"] \cup {<< num, "r" >>, << num, "w" >>}

ForkStage ==
  /\ At("job", "loop") /\ NotNull(num)
  /\ \/ Fork("job", "stage", "wire", NewEnds) /\ UNCHANGED num
     \/ /\ fails < MaxFails
        /\ fails' = fails + 1
        /\ num' = num + 1
        /\ ends' = [ends EXCEPT !["job"] = NewEnds]
        /\ UNCHANGED << pc, kid, chld, stopped, killed, in, out >>
  /\ UNCHANGED << text, ran, fd_backup, data >>

\* Mutant: close(fd[1]) is missing.
AllEnds == ends["job"]

\* The writing end is closed before the reader of the pipe is forked.
KeptEnds == ends["job"] \ {<< num, "w" >>}

\* Mutant: the backup is taken once.
WaitStageOnce ==
  /\ Waits("job") /\ job.loop
  /\ Reaped("job", "loop")
  /\ ends' = [ends EXCEPT !["job"] = KeptEnds]
  /\ num' = IF fd_backup = NoFd THEN num + 2 ELSE num + 1
  /\ fd_backup' = IF fd_backup[1] = "pipe" THEN fd_backup ELSE Pipe(num)
  /\ UNCHANGED << text, ran, data, fails >>

\* The name of the input file has a place among the commands, which is passed over.
WaitStage ==
  /\ Waits("job") /\ job.loop
  /\ Reaped("job", "loop")
  /\ ends' = [ends EXCEPT !["job"] = KeptEnds]
  /\ num' = IF fd_backup = NoFd THEN num + 2 ELSE num + 1
  /\ fd_backup' = Pipe(num)
  /\ UNCHANGED << text, ran, data, fails >>

WaitProgram(p) ==
  /\ Waits(p) /\ (p = "job" => ~ job.loop)
  /\ Reaped(p, "exit")
  /\ UNCHANGED << text, ran, ends, loop, data, fails >>

JobEnds ==
  /\ At("job", "exit") \/ (At("job", "loop") /\ ~ NotNull(num))
  /\ Exit("job")
  /\ UNCHANGED << text, ran, loop, data, fails >>

Job == \/ Open \/ ForkStage \/ WaitStage \/ WaitProgram("job") \/ JobEnds
       \/ /\ At("job", "run")
          /\ execution("job", Command(0))
          /\ UNCHANGED << line, typed, loop, data >>

-----------------------------------------------------------------------------
(***************************************************************************)
(* A stage: it moves its standard input and output, and calls execution(). *)
(***************************************************************************)
ToFile == job.out # None /\ NotNull(num + 1) /\ ~ NotNull(num + 2)

StageInput == IF fd_backup = NoFd THEN Input(job.in) ELSE fd_backup
\* Mutant: standard output is not moved to the pipe.
FileOrTty == IF ToFile THEN File(job.out, job.append) ELSE Tty

StageOutput == IF ToFile THEN File(job.out, job.append)
               ELSE IF NotNull(num + 1) THEN Pipe(num) ELSE Tty

\* The one after the last command of a redirection has nothing to execute.
Wire ==
  /\ At("stage", "wire")
  /\ IF fd_backup = NoFd /\ ~ Readable(job.in)
     THEN Exit("stage") /\ UNCHANGED << file, pos >>
     ELSE /\ IF ToFile THEN OpenOut(job.out) ELSE UNCHANGED << file, pos >>
          /\ in' = [in EXCEPT !["stage"] = StageInput]
          /\ out' = [out EXCEPT !["stage"] = StageOutput]
          /\ ends' = [ends EXCEPT !["stage"] = @ \ {<< num, "r" >>}]
          /\ Goto("stage", IF job.out # None /\ ~ NotNull(num + 1) THEN "exit" ELSE "run")
          /\ UNCHANGED << kid, chld, stopped, killed >>
  /\ UNCHANGED << text, ran, loop, wrote, took, fails >>

StageEnds ==
  /\ At("stage", "exit")
  /\ Exit("stage")
  /\ UNCHANGED << text, ran, loop, data, fails >>

Stage == \/ Wire \/ WaitProgram("stage") \/ StageEnds
         \/ /\ At("stage", "run")
            /\ execution("stage", Command(num))
            /\ UNCHANGED << line, typed, loop, data >>

-----------------------------------------------------------------------------
(***************************************************************************)
(* A program: it reads its input to the end, if at all, then writes.       *)
(***************************************************************************)
Held(k, e) == \E p \in Procs : << k, e >> \in ends[p]
InPipe(k) == wrote[k] - took[k]

Read ==
  /\ At("prog", "read")
  /\ \E k \in Stages :
       /\ in["prog"] = Pipe(k)
       /\ InPipe(k) > 0
       /\ took' = [took EXCEPT ![k] = @ + 1]
  /\ UNCHANGED << text, ran, procs, descr, loop, wrote, file, pos, fails >>

\* The end of a file, or of a pipe that nobody can write to any more.
ReadEnd ==
  /\ At("prog", "read")
  /\ in["prog"] # Tty
  /\ \A k \in Stages : in["prog"] = Pipe(k) => InPipe(k) = 0 /\ ~ Held(k, "w")
  /\ Goto("prog", "write")
  /\ UNCHANGED << text, ran, kid, chld, stopped, killed, descr, loop, data, fails >>

\* It is not in the foreground: a read of the terminal stops its process group.
ReadTty ==
  /\ At("prog", "read")
  /\ in["prog"] = Tty
  /\ stopped' = {p \in Procs \ {"shell"} : Alive(p)}
  /\ chld' = chld \cup Parents(stopped')
  /\ UNCHANGED << text, ran, pc, kid, killed, descr, loop, data, fails >>

\* A write at the position, or at the end.
WriteFile(f, append) ==
  LET at == IF append THEN Len(file[f]) ELSE pos IN
  /\ file' = [file EXCEPT ![f] = IF at < Len(@) THEN ReplaceAt(@, at + 1, Last(ran))
                                 ELSE Append(@, Last(ran))]
  /\ pos' = at + 1

\* A pipe that is full makes the writer wait for a reader.
Write ==
  /\ At("prog", "write")
  /\ wrote[num] < Size[Last(ran)]
  /\ wrote' = [wrote EXCEPT ![num] = @ + 1]
  /\ out["prog"] = Pipe(num) => InPipe(num) < PIPE
  /\ IF out["prog"][1] = "file" THEN WriteFile(out["prog"][2], out["prog"][3])
     ELSE UNCHANGED << file, pos >>
  /\ UNCHANGED << text, ran, procs, descr, loop, took, fails >>

ProgramEnds ==
  /\ At("prog", "write")
  /\ wrote[num] = Size[Last(ran)]
  /\ Exit("prog")
  /\ UNCHANGED << text, ran, loop, data, fails >>

Program == Read \/ ReadEnd \/ ReadTty \/ Write \/ ProgramEnds

Shell == Prompt \/ ForkJob \/ WaitJob

Next ==
  \/ \E l \in Lines : Type(l)
  \/ Shell \/ Job \/ Stage \/ Program
  \/ \E p \in Procs : sigchld_handler(p)

Spec == Init /\ [][Next]_vars

\* Every process is scheduled, and a pending signal is delivered.
FairSpec ==
  /\ Spec
  /\ WF_vars(Shell) /\ WF_vars(Job) /\ WF_vars(Stage) /\ WF_vars(Program)
  /\ \A p \in Procs : WF_vars(sigchld_handler(p))

-----------------------------------------------------------------------------
(***************************************************************************)
(* The prompt means that all is over: no process of the line is left, in   *)
(* whatever order the handler and wait() have taken the children, and no   *)
(* pipe end is open.                                                       *)
(***************************************************************************)
PromptMeansQuiet ==
  pc["shell"] = "prompt" =>
    /\ \A p \in Procs \ {"shell"} : pc[p] = "none"
    /\ \A p \in Procs : kid[p] = None /\ ends[p] = {}

\* A line of the form  command [< file] {| command} [> file or >> file].
Regular(l) ==
  /\ Len(l) % 2 = 1
  /\ \A i \in DOMAIN l : i % 2 = 0 <=> l[i] \in Operators
  /\ \A i \in DOMAIN l : (i = 1 \/ l[i - 1] = "|") => l[i] \in Programs
  /\ \A i \in DOMAIN l : l[i] = "<" => i = 2 /\ l[3] \in DOMAIN Content
  /\ \A i \in DOMAIN l : l[i] \in {">", ">>"} => i = Len(l) - 1

Typed(l) ==
  LET commands == {i \in DOMAIN l : i = 1 \/ l[i - 1] = "|"}
  IN  [n \in 1 .. Cardinality(commands) |-> l[Nth(commands, n)]]

Undisturbed == fails = 0 /\ ~ killed

(***************************************************************************)
(* The commands of a line run in the order in which they were typed, each  *)
(* once, through the cutting of the line into jobs and stages, the place   *)
(* of the input file among them included, and at the prompt all have run.  *)
(***************************************************************************)
RunsAsTyped ==
  (Regular(line) /\ Undisturbed) =>
    /\ IsPrefix(ran, Typed(line))
    /\ pc["shell"] = "prompt" => ran = Typed(line)

(***************************************************************************)
(* What a command that reads sees as the end of its input is the end of    *)
(* what the one before it wrote: it was written by that one, it was all of *)
(* it, and it was read.                                                    *)
(***************************************************************************)
InputIsComplete ==
  (Regular(line) /\ Undisturbed /\ pc["prog"] = "write" /\ Last(ran) \in Reads) =>
    \A k \in Stages : in["prog"] = Pipe(k) =>
      /\ Command(k)[1] = ran[Len(ran) - 1]
      /\ wrote[k] = Size[Command(k)[1]]
      /\ took[k] = wrote[k]

\* Of the file old, the first n units are the program's own, and the rest is as it was.
WrittenOver(old, new, n) ==
  /\ Len(new) = IF n > Len(old) THEN n ELSE Len(old)
  /\ \A i \in DOMAIN new : new[i] = IF i <= n THEN Last(ran) ELSE old[i]

(***************************************************************************)
(* A single ">>" only ever adds to a file.  In a pipeline, or with "<", it *)
(* is recorded as ">" (line 217): what the file held is then written over  *)
(* from its beginning, as far as the program writes, and the rest of it    *)
(* stays behind that.  No file goes away.                                  *)
(***************************************************************************)
AddsOrOverwrites ==
  [][\A f \in DOMAIN file :
       /\ f \in DOMAIN file'
       /\ IF red_or_pipe(line) = << ">" >> /\ ">>" \in Range(line)
          THEN IsPrefix(file[f], file'[f])
          ELSE (Regular(line) /\ Undisturbed /\ file'[f] # file[f]) =>
                 WrittenOver(file[f], file'[f], wrote'[num])]_vars

\* The i-th command of a pipeline writes to a pipe: it has a next one, which is
\* not a file, and is not itself the input file.
Pipes(j, i) ==
  /\ j.loop /\ i < Len(j.cmds)
  /\ j.out # None => i + 1 < Len(j.cmds)
  /\ j.in # None => i # 2

\* What is written into a pipe is no more than it holds.
Fits(l) ==
  \A b \in DOMAIN Plan(l) : \A i \in DOMAIN Plan(l)[b].cmds :
    LET argv == Plan(l)[b].cmds[i] IN
    Pipes(Plan(l)[b], i) /\ WordAt(argv, 1) \in Programs => Size[argv[1]] <= PIPE

(***************************************************************************)
(* The shell comes back to its prompt, or is gone, when what is written    *)
(* into each pipe fits.  The stages run one after the other: a writer of   *)
(* more waits for a reader that is started after it.                       *)
(***************************************************************************)
PromptReturns ==
  (pc["shell"] = "next" /\ Fits(line)) ~> pc["shell"] \in {"prompt", "dead"}

(***************************************************************************)
(* And only then: one unit too many, and the prompt does not come back     *)
(* unless something else goes wrong.                                       *)
(***************************************************************************)
NoPromptWithoutRoom ==
  (Regular(line) /\ Undisturbed /\ pc["shell"] = "prompt") => Fits(line)
=============================================================================
