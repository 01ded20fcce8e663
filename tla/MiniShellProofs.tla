-------------------------- MODULE MiniShellProofs --------------------------
(***************************************************************************)
(* Proofs about the shell of pa2, for any lines, programs and files, any   *)
(* size of a pipe and any number of calls of fork() that fail.             *)
(***************************************************************************)
EXTENDS MiniShell, FiniteSetTheorems, SequenceTheorems, TLAPS

(***************************************************************************)
(* Who may wait for whom.                                                  *)
(***************************************************************************)
Label == {"prompt", "next", "open", "loop", "wire", "run", "wait", "exit", "read", "write",
          "none", "zombie", "dead"}
Over == {"none", "zombie", "dead"}

\* The processes that p may fork.
Below(p) == IF p = "shell" THEN {"job", "prog"}
            ELSE IF p = "job" THEN {"stage", "prog"}
            ELSE IF p = "stage" THEN {"prog"} ELSE {}

Table ==
  /\ pc \in [Procs -> Label]
  /\ kid \in [Procs -> Procs \cup {None}] /\ DOMAIN ends = Procs
  /\ \A p \in Procs : kid[p] \in Below(p) \cup {None}

\* While the shell lives, each process that there is has a parent, which waits.
Tree ==
  pc["shell"] # "dead" =>
    /\ \A p \in Procs : kid[p] # None => pc[p] = "wait" /\ pc[kid[p]] # "none"
    /\ \A q \in Procs \ {"shell"} : pc[q] # "none" => \E p \in Procs : kid[p] = q
    /\ \A p \in Procs : p = "shell" \/ pc[p] \in {"none", "zombie"} => ends[p] = {}

TreeInv == Table /\ Tree

LEMMA NoneIsNoProc == None \notin Procs
BY DEF None, Procs

LEMMA BelowIsProc == \A p \in Procs : Below(p) \subseteq Procs \ {"shell"}
BY DEF Below, Procs

\* One that is not waiting has nothing below it, and no process has two parents.
LEMMA NothingBelow ==
  ASSUME TreeInv, pc["shell"] # "dead", NEW p \in Procs, pc[p] \notin {"none", "wait"}
  PROVE  kid[p] = None /\ \A q \in Below(p) : pc[q] = "none"
<1> USE DEF TreeInv, Table, Tree, Below, Procs, None
<1>1. \A q \in Procs : kid[q] # None => pc[q] = "wait"
  OBVIOUS
<1>2. \A q \in Procs \ {"shell"} : pc[q] # "none" => \E r \in Procs : kid[r] = q
  OBVIOUS
<1>3. CASE p = "shell"
  BY <1>1, <1>2, <1>3
<1>4. CASE p = "job"
  BY <1>1, <1>2, <1>4
<1>5. CASE p = "stage"
  BY <1>1, <1>2, <1>5
<1>6. CASE p = "prog"
  BY <1>1, <1>2, <1>6
<1> QED BY <1>3, <1>4, <1>5, <1>6

LEMMA OneParent ==
  ASSUME TreeInv, pc["shell"] # "dead", NEW p \in Procs, NEW r \in Procs,
         kid[p] = kid[r], kid[p] # None
  PROVE  p = r
<1> USE DEF TreeInv, Table, Tree, Below, Procs, None
<1>1. \A q \in Procs : kid[q] # None => pc[q] = "wait"
  OBVIOUS
<1>2. \A q \in Procs \ {"shell"} : pc[q] # "none" => \E s \in Procs : kid[s] = q
  OBVIOUS
<1> QED BY <1>1, <1>2

-----------------------------------------------------------------------------
(***************************************************************************)
(* What the calls do to the tree.                                          *)
(***************************************************************************)
LEMMA GotoStep ==
  ASSUME TreeInv, NEW p \in Procs, NEW l \in Label \ Over, pc[p] \notin Over,
         pc[p] = "wait" => kid[p] = None,
         Goto(p, l), kid' = kid, DOMAIN ends' = Procs,
         \A q \in Procs : ends'[q] \subseteq ends[q] \/ (q = p /\ p # "shell")
  PROVE  TreeInv'
<1>1. /\ pc' \in [Procs -> Label] /\ pc'[p] = l
      /\ \A q \in Procs : q # p => pc'[q] = pc[q]
  BY DEF TreeInv, Table, Goto
<1>2. Table'
  BY <1>1 DEF TreeInv, Table
<1>3. ASSUME pc'["shell"] # "dead" PROVE pc["shell"] # "dead"
  BY <1>1, <1>3 DEF Over, Procs
<1> QED BY <1>1, <1>2, <1>3, NoneIsNoProc DEF TreeInv, Table, Tree, Over

LEMMA ExitStep ==
  ASSUME TreeInv, NEW p \in Procs, pc[p] \notin Over \cup {"wait"}, Exit(p)
  PROVE  TreeInv'
<1>1. /\ \A q \in Procs : q # p => pc'[q] = pc[q] /\ ends'[q] = ends[q]
      /\ ends'[p] = {} /\ kid' = kid /\ DOMAIN ends' = Procs
      /\ pc'[p] = IF p = "shell" THEN "dead" ELSE IF Parents({p}) = {} THEN "none" ELSE "zombie"
      /\ pc' \in [Procs -> Label]
  BY DEF TreeInv, Table, Exit, Label
<1>2. Table'
  BY <1>1 DEF TreeInv, Table
<1>3. pc'["shell"] # "dead" => p # "shell" /\ pc["shell"] # "dead"
  BY <1>1 DEF Procs
<1>4. pc["shell"] # "dead" => kid[p] = None
  BY NothingBelow DEF Over
<1>5. pc'[p] = "none" => \A q \in Procs : kid[q] # p
  BY <1>1 DEF Parents
<1>6. pc'[p] # "none" /\ p # "shell" => \E q \in Procs : kid[q] = p
  BY <1>1 DEF Parents
<1> QED BY <1>1, <1>2, <1>3, <1>4, <1>5, <1>6 DEF TreeInv, Table, Tree, Over

LEMMA ForkStep ==
  ASSUME TreeInv, NEW p \in Procs, NEW q \in Below(p), NEW l \in Label \ Over, NEW held,
         pc[p] \notin Over \cup {"wait"}, p = "shell" => held = {}, Fork(p, q, l, held)
  PROVE  TreeInv'
<1>1. q \in Procs /\ q # p /\ q # "shell"
  BY DEF Below, Procs
<1>2. /\ pc'[p] = "wait" /\ pc'[q] = l /\ kid'[p] = q /\ ends'[p] = held /\ ends'[q] = held
      /\ \A r \in Procs : r # p => kid'[r] = kid[r]
      /\ \A r \in Procs : r # p /\ r # q => pc'[r] = pc[r] /\ ends'[r] = ends[r]
      /\ DOMAIN ends' = Procs /\ pc' \in [Procs -> Label] /\ kid' \in [Procs -> Procs \cup {None}]
  BY <1>1 DEF TreeInv, Table, Fork, Label
<1>3. Table'
  BY <1>1, <1>2 DEF TreeInv, Table
<1>4. pc'["shell"] # "dead" => pc["shell"] # "dead"
  BY <1>1, <1>2 DEF Over, Procs
<1>5. pc["shell"] # "dead" => kid[p] = None /\ pc[q] = "none"
  BY NothingBelow DEF Over
<1>6. ASSUME pc'["shell"] # "dead", NEW r \in Procs, kid'[r] # None
      PROVE  pc'[r] = "wait" /\ pc'[kid'[r]] # "none"
  BY <1>1, <1>2, <1>4, <1>5, <1>6 DEF TreeInv, Table, Tree, Over
<1>7. ASSUME pc'["shell"] # "dead", NEW r \in Procs \ {"shell"}, pc'[r] # "none"
      PROVE  \E s \in Procs : kid'[s] = r
  BY <1>1, <1>2, <1>4, <1>5, <1>7, NoneIsNoProc DEF TreeInv, Table, Tree, Over
<1>8. ASSUME pc'["shell"] # "dead", NEW r \in Procs, r = "shell" \/ pc'[r] \in {"none", "zombie"}
      PROVE  ends'[r] = {}
  BY <1>1, <1>2, <1>4, <1>5, <1>8 DEF TreeInv, Table, Tree, Over
<1> QED BY <1>3, <1>6, <1>7, <1>8 DEF TreeInv, Tree

\* The child of p has ended, and p takes it, by its handler or by wait(); or
\* there is none to take.
LEMMA TakeStep ==
  ASSUME TreeInv, NEW p \in Procs, NEW l \in Label \ Over, pc[p] \notin Over,
         kid[p] # None => pc[kid[p]] = "zombie",
         pc' \in [Procs -> Label], pc'[p] = l,
         \A q \in Procs : q # p => pc'[q] = IF q = kid[p] THEN "none" ELSE pc[q],
         kid' = [kid EXCEPT ![p] = None], DOMAIN ends' = Procs,
         \A q \in Procs : ends'[q] \subseteq ends[q] \/ (q = p /\ p # "shell")
  PROVE  TreeInv'
<1>1. /\ kid'[p] = None /\ \A r \in Procs : r # p => kid'[r] = kid[r]
      /\ kid' \in [Procs -> Procs \cup {None}] /\ kid[p] # "shell" /\ kid[p] # p
  BY NoneIsNoProc DEF TreeInv, Table, Below, Procs, None
<1>2. Table'
  BY <1>1 DEF TreeInv, Table
<1>3. pc'["shell"] # "dead" => pc["shell"] # "dead"
  BY <1>1 DEF Over, Procs
<1>4. ASSUME pc'["shell"] # "dead", NEW r \in Procs, kid'[r] # None
      PROVE  pc'[r] = "wait" /\ pc'[kid'[r]] # "none"
  <2>1. r # p /\ kid[r] # None /\ kid'[r] = kid[r] /\ pc["shell"] # "dead"
    BY <1>1, <1>3, <1>4
  <2>2. pc[r] = "wait" /\ pc[kid[r]] # "none"
    BY <2>1 DEF TreeInv, Tree
  <2>3. kid[r] # kid[p] /\ kid[r] \in Procs
    BY <2>1, OneParent DEF TreeInv, Table
  <2>4. r # kid[p]
    BY <2>2, NoneIsNoProc
  <2> QED BY <2>1, <2>2, <2>3, <2>4 DEF Over
<1>5. ASSUME pc'["shell"] # "dead", NEW r \in Procs \ {"shell"}, pc'[r] # "none"
      PROVE  \E s \in Procs : kid'[s] = r
  <2>1. r # kid[p] /\ pc[r] # "none"
    BY <1>1, <1>5 DEF Over
  <2>2. PICK s \in Procs : kid[s] = r
    BY <1>3, <1>5, <2>1 DEF TreeInv, Tree
  <2> QED BY <1>1, <2>1, <2>2
<1>6. ASSUME pc'["shell"] # "dead", NEW r \in Procs, r = "shell" \/ pc'[r] \in {"none", "zombie"}
      PROVE  ends'[r] = {}
  <2>1. r = p => p = "shell"
    BY <1>6 DEF Over
  <2>2. r = "shell" \/ pc[r] \in {"none", "zombie"}
    BY <1>1, <1>6, <2>1, NoneIsNoProc
  <2>3. ends[r] = {}
    BY <1>3, <1>6, <2>2 DEF TreeInv, Tree
  <2> QED BY <2>1, <2>3
<1> QED BY <1>2, <1>4, <1>5, <1>6 DEF TreeInv, Tree

LEMMA KillStep ==
  ASSUME TreeInv, NEW p \in Procs, Alive(p), KillAll(p)
  PROVE  TreeInv'
<1>1. /\ kid'[p] = kid[p] /\ \A q \in Procs : q # p => kid'[q] = None /\ ends'[q] = {}
      /\ pc'[p] = pc[p] /\ ends'[p] = ends[p]
      /\ \A q \in Procs : q # p => pc'[q] = IF q = kid[p] THEN "zombie"
                                            ELSE IF q = "shell" THEN "dead" ELSE "none"
      /\ DOMAIN ends' = Procs /\ kid' \in [Procs -> Procs \cup {None}]
      /\ pc' \in [Procs -> Label]
  BY DEF TreeInv, Table, KillAll, Label
<1>2. Table'
  BY <1>1 DEF TreeInv, Table
<1>3. kid[p] # p /\ kid[p] # "shell"
  BY NoneIsNoProc DEF TreeInv, Table, Below, Procs, None
<1>4. ASSUME pc'["shell"] # "dead" PROVE p = "shell" /\ pc["shell"] # "dead"
  BY <1>1, <1>3, <1>4 DEF Procs, Alive
<1> QED BY <1>1, <1>2, <1>3, <1>4, NoneIsNoProc DEF TreeInv, Table, Tree, Alive

\* Nothing of the tree changes but the ends one process holds.
LEMMA SameTree ==
  ASSUME TreeInv, UNCHANGED << pc, kid >>, DOMAIN ends' = Procs,
         \A q \in Procs : ends'[q] \subseteq ends[q] \/ (q # "shell" /\ pc[q] \notin {"none", "zombie"})
  PROVE  TreeInv'
BY DEF TreeInv, Table, Tree

-----------------------------------------------------------------------------
(***************************************************************************)
(* Step by step.                                                           *)
(***************************************************************************)
LEMMA HandlerTree ==
  ASSUME TreeInv, NEW p \in Procs, sigchld_handler(p)
  PROVE  TreeInv'
<1>1. pc[p] \notin Over /\ Alive(p)
  BY DEF sigchld_handler, Alive, Over
<1>2. CASE Zombie(p) /\ Reap(p)
  <2>1. /\ pc[kid[p]] = "zombie" /\ kid[p] # None
        /\ pc' = [pc EXCEPT ![kid[p]] = "none"] /\ kid' = [kid EXCEPT ![p] = None] /\ ends' = ends
    BY <1>2 DEF Zombie, Reap, descr
  <2>2. kid[p] # p
    BY <1>1, <2>1 DEF Over
  <2>3. pc' \in [Procs -> Label] /\ pc'[p] = pc[p] /\ pc[p] \in Label \ Over
        /\ \A q \in Procs : q # p => pc'[q] = IF q = kid[p] THEN "none" ELSE pc[q]
    BY <1>1, <2>1, <2>2 DEF TreeInv, Table, Label
  <2> QED BY <1>1, <2>1, <2>3, TakeStep DEF TreeInv, Table
<1>3. CASE KillAll(p)
  BY <1>1, <1>3, KillStep
<1>4. CASE UNCHANGED << pc, kid, descr >>
  BY <1>4, SameTree DEF descr, TreeInv, Table
<1> QED BY <1>2, <1>3, <1>4 DEF sigchld_handler

LEMMA ExecutionTree ==
  ASSUME TreeInv, NEW p \in {"shell", "job", "stage"}, NEW argv, pc[p] \in {"next", "run"},
         execution(p, argv)
  PROVE  TreeInv'
<1>1. p \in Procs /\ "prog" \in Below(p) /\ pc[p] \notin Over \cup {"wait"}
  BY DEF Procs, Below, Over
<1>2. CASE Exit(p)
  BY <1>1, <1>2, ExitStep
<1>3. CASE Fork(p, "prog", IF argv[1] \in Reads THEN "read" ELSE "write", ends[p])
  <2>1. p = "shell" => ends[p] = {}
    BY <1>1 DEF TreeInv, Tree, Over
  <2>2. (IF argv[1] \in Reads THEN "read" ELSE "write") \in Label \ Over
    BY DEF Label, Over
  <2> QED BY <1>1, <1>3, <2>1, <2>2, ForkStep
<1>4. CASE ForkFails(p)
  <2>1. "wait" \in Label \ Over
    BY DEF Label, Over
  <2> QED BY <1>1, <1>4, <2>1, GotoStep DEF ForkFails, descr, TreeInv, Table
<1>5. CASE Return(p) /\ UNCHANGED << kid, descr >>
  <2>1. (IF p = "shell" THEN "next" ELSE "exit") \in Label \ Over
    BY DEF Label, Over
  <2>2. Goto(p, IF p = "shell" THEN "next" ELSE "exit")
    BY <1>5 DEF Return, Goto
  <2> QED BY <1>1, <1>5, <2>1, <2>2, GotoStep DEF descr, TreeInv, Table
<1> QED BY <1>2, <1>3, <1>4, <1>5 DEF execution

LEMMA ReapedTree ==
  ASSUME TreeInv, NEW p \in Procs, NEW l \in Label \ Over, Waits(p), Reaped(p, l),
         DOMAIN ends' = Procs,
         \A q \in Procs : ends'[q] \subseteq ends[q] \/ (q = p /\ p # "shell")
  PROVE  TreeInv'
<1>1. /\ pc[p] = "wait" /\ pc[p] \notin Over
      /\ kid[p] # None => pc[kid[p]] = "zombie"
      /\ kid' = [kid EXCEPT ![p] = None] /\ pc'[p] = l
      /\ \A q \in Procs : q # p => pc'[q] = IF q = kid[p] THEN "none" ELSE pc[q]
  BY DEF Waits, Zombie, Reaped, Over
<1>2. pc' \in [Procs -> Label]
  BY DEF Reaped, TreeInv, Table, Label
<1> QED BY <1>1, <1>2, TakeStep

LEMMA ShellTree ==
  ASSUME TreeInv, Shell \/ \E l \in Lines : Type(l)
  PROVE  TreeInv'
<1>1. "shell" \in Procs /\ {"next", "prompt", "wait", "loop", "open"} \subseteq Label \ Over
  BY DEF Procs, Label, Over
<1>2. CASE \E l \in Lines : Type(l)
  <2>1. At("shell", "prompt") /\ Goto("shell", "next") /\ kid' = kid /\ ends' = ends
    BY <1>2 DEF Type, descr
  <2> QED BY <1>1, <2>1, GotoStep DEF At, TreeInv, Table, Over
<1>3. CASE Prompt
  <2>1. At("shell", "next") /\ Goto("shell", "prompt") /\ kid' = kid /\ ends' = ends
    BY <1>3 DEF Prompt, descr
  <2> QED BY <1>1, <2>1, GotoStep DEF At, TreeInv, Table, Over
<1>4. CASE ForkJob
  <2>1. pc["shell"] = "next"
    BY <1>4 DEF ForkJob, At
  <2>2. CASE execution("shell", Command(0))
    BY <2>1, <2>2, ExecutionTree
  <2>3. CASE Fork("shell", "job", IF job.loop THEN "loop" ELSE "open", {})
    <3>1. (IF job.loop THEN "loop" ELSE "open") \in Label \ Over /\ "job" \in Below("shell")
      BY <1>1 DEF Below
    <3> QED BY <1>1, <2>1, <2>3, <3>1, ForkStep DEF Over
  <2>4. CASE ForkFails("shell")
    BY <1>1, <2>1, <2>4, GotoStep DEF ForkFails, descr, TreeInv, Table, Over
  <2> QED BY <1>4, <2>2, <2>3, <2>4 DEF ForkJob
<1>5. CASE WaitJob
  BY <1>1, <1>5, ReapedTree DEF WaitJob, TreeInv, Table
<1> QED BY <1>2, <1>3, <1>4, <1>5 DEF Shell

LEMMA JobTree ==
  ASSUME TreeInv, Job
  PROVE  TreeInv'
<1>1. "job" \in Procs /\ {"run", "exit", "loop", "wire"} \subseteq Label \ Over
  BY DEF Procs, Label, Over
<1>2. CASE Open
  <2>1. pc["job"] = "open" /\ (Exit("job") \/ (Goto("job", "run") /\ UNCHANGED << kid, ends >>))
    BY <1>2 DEF Open, At
  <2> QED BY <1>1, <2>1, ExitStep, GotoStep DEF TreeInv, Table, Over
<1>3. CASE ForkStage
  <2>1. pc["job"] = "loop"
    BY <1>3 DEF ForkStage, At
  <2>2. CASE Fork("job", "stage", "wire", NewEnds)
    BY <1>1, <2>1, <2>2, ForkStep DEF Below, Over
  <2>3. CASE UNCHANGED << pc, kid >> /\ ends' = [ends EXCEPT !["job"] = NewEnds]
    BY <1>1, <2>1, <2>3, SameTree DEF TreeInv, Table
  <2> QED BY <1>3, <2>2, <2>3 DEF ForkStage
<1>4. CASE WaitStage
  BY <1>1, <1>4, ReapedTree DEF WaitStage, TreeInv, Table
<1>5. CASE WaitProgram("job")
  BY <1>1, <1>5, ReapedTree DEF WaitProgram, TreeInv, Table
<1>6. CASE JobEnds
  BY <1>1, <1>6, ExitStep DEF JobEnds, At, Over
<1>7. CASE At("job", "run") /\ execution("job", Command(0))
  BY <1>7, ExecutionTree DEF At
<1> QED BY <1>2, <1>3, <1>4, <1>5, <1>6, <1>7 DEF Job

LEMMA StageTree ==
  ASSUME TreeInv, Stage
  PROVE  TreeInv'
<1>1. "stage" \in Procs /\ {"run", "exit"} \subseteq Label \ Over
  BY DEF Procs, Label, Over
<1>2. CASE Wire
  <2>1. pc["stage"] = "wire"
    BY <1>2 DEF Wire, At
  <2>2. CASE Exit("stage")
    BY <1>1, <2>1, <2>2, ExitStep DEF Over
  <2>3. CASE ~ Exit("stage")
    <3>1. PICK l \in {"run", "exit"} : Goto("stage", l)
      BY <1>2, <2>3 DEF Wire
    <3>2. kid' = kid /\ ends' = [ends EXCEPT !["stage"] = @ \ {<< num, "r" >>}]
      BY <1>2, <2>3 DEF Wire
    <3> QED BY <1>1, <2>1, <3>1, <3>2, GotoStep DEF TreeInv, Table, Over
  <2> QED BY <2>2, <2>3
<1>3. CASE WaitProgram("stage")
  BY <1>1, <1>3, ReapedTree DEF WaitProgram, TreeInv, Table
<1>4. CASE StageEnds
  BY <1>1, <1>4, ExitStep DEF StageEnds, At, Over
<1>5. CASE At("stage", "run") /\ execution("stage", Command(num))
  BY <1>5, ExecutionTree DEF At
<1> QED BY <1>2, <1>3, <1>4, <1>5 DEF Stage

LEMMA ProgramTree ==
  ASSUME TreeInv, Program
  PROVE  TreeInv'
<1>1. "prog" \in Procs /\ "write" \in Label \ Over
  BY DEF Procs, Label, Over
<1>2. CASE Read \/ ReadTty \/ Write
  BY <1>2, SameTree DEF Read, ReadTty, Write, procs, descr, TreeInv, Table
<1>3. CASE ReadEnd
  BY <1>1, <1>3, GotoStep DEF ReadEnd, At, descr, TreeInv, Table, Over
<1>4. CASE ProgramEnds
  BY <1>1, <1>4, ExitStep DEF ProgramEnds, At, Over
<1> QED BY <1>2, <1>3, <1>4 DEF Program

LEMMA InitTree == Init => TreeInv
BY NoneIsNoProc DEF Init, TreeInv, Table, Tree, Label, Procs, Below

LEMMA NextTree == TreeInv /\ [Next]_vars => TreeInv'
<1> SUFFICES ASSUME TreeInv, [Next]_vars PROVE TreeInv'
  OBVIOUS
<1>1. CASE UNCHANGED vars
  BY <1>1, SameTree DEF vars, procs, descr, TreeInv, Table
<1> QED BY <1>1, ShellTree, JobTree, StageTree, ProgramTree, HandlerTree DEF Next

(***************************************************************************)
(* At the prompt no process of the line is left, and no end of a pipe is   *)
(* open, whichever of the handler and wait() has taken the children, and   *)
(* whichever calls of fork() have failed (lines 74-78, 126, 263 and 492).  *)
(***************************************************************************)
THEOREM PromptIsQuiet == Spec => []PromptMeansQuiet
<1>1. ASSUME TreeInv PROVE PromptMeansQuiet
  <2> SUFFICES ASSUME pc["shell"] = "prompt"
               PROVE  /\ \A p \in Procs \ {"shell"} : pc[p] = "none"
                      /\ \A p \in Procs : kid[p] = None /\ ends[p] = {}
    BY DEF PromptMeansQuiet
  <2>1. kid["shell"] = None /\ pc["job"] = "none" /\ pc["prog"] = "none"
    BY <1>1, NothingBelow DEF Procs, Below
  <2>2. \A p \in Procs : kid[p] # None => pc[p] = "wait"
    BY <1>1 DEF TreeInv, Tree
  <2>3. pc["stage"] = "none"
    BY <1>1, <2>1, <2>2 DEF TreeInv, Table, Tree, Procs, Below, None
  <2>4. \A p \in Procs \ {"shell"} : pc[p] = "none"
    BY <2>1, <2>3 DEF Procs
  <2> QED BY <1>1, <2>1, <2>2, <2>4 DEF TreeInv, Tree
<1> QED BY <1>1, InitTree, NextTree, PTL DEF Spec
-----------------------------------------------------------------------------
(***************************************************************************)
(* The data that the programs and the redirections handle.                 *)
(***************************************************************************)
Numbers ==
  /\ line \in Lines \cup {<< >>} /\ num \in Nat
  /\ wrote \in [Stages -> Nat] /\ took \in [Stages -> Nat]

Running == pc["prog"] \in {"read", "write"}
Started == ran \in Seq(Programs) /\ (Running => ran # << >>)

Word == STRING \cup Programs

Opened ==
  /\ DOMAIN in = Procs /\ DOMAIN out = Procs
  /\ \A p \in Procs : out[p][1] = "file" => out[p][2] \in DOMAIN file
  /\ file \in [DOMAIN file -> Seq(Word)] /\ DOMAIN Content \subseteq DOMAIN file
  /\ pos \in Nat

DataInv == Numbers /\ Started /\ Opened

LEMMA InitData == Init => DataInv
<1> SUFFICES ASSUME Init PROVE DataInv
  OBVIOUS
<1>1. Numbers
  BY DEF Init, Numbers
<1>2. Started
  BY DEF Init, Started, Running, Procs
<1>3. Opened
  <2>1. file \in [DOMAIN file -> Seq(Word)]
    BY ShellAssumption, SeqMonotonic DEF Init, Word
  <2> QED BY <2>1 DEF Init, Opened, Tty
<1> QED BY <1>1, <1>2, <1>3 DEF DataInv

LEMMA NextNumbers == Numbers /\ [Next]_vars => Numbers'
<1> SUFFICES ASSUME Numbers, [Next]_vars PROVE Numbers'
  OBVIOUS
<1> USE DEF Numbers
<1>1. CASE \E l \in Lines : Type(l)
  BY <1>1 DEF Type, NoData
<1>2. CASE Shell
  BY <1>2 DEF Shell, Prompt, ForkJob, WaitJob, NoData, text, loop, data
<1>3. CASE Job
  BY <1>3 DEF Job, Open, ForkStage, Fork, WaitStage, WaitProgram, JobEnds, text, loop, data
<1>4. CASE Stage
  BY <1>4 DEF Stage, Wire, WaitProgram, StageEnds, text, loop, data
<1>5. CASE Program
  BY <1>5 DEF Program, Read, ReadEnd, ReadTty, Write, ProgramEnds, text, loop, data
<1>6. CASE UNCHANGED vars \/ \E p \in Procs : sigchld_handler(p)
  BY <1>6 DEF vars, sigchld_handler, text, loop, data
<1> QED BY <1>1, <1>2, <1>3, <1>4, <1>5, <1>6 DEF Next

\* What starts a program, and nothing else does.
LEMMA ExecutionRuns ==
  ASSUME Table, NEW p \in {"shell", "job", "stage"}, NEW argv, execution(p, argv)
  PROVE  \/ /\ WordAt(argv, 1) = argv[1] /\ argv[1] \in Programs
            /\ Fork(p, "prog", IF argv[1] \in Reads THEN "read" ELSE "write", ends[p])
            /\ ran' = Append(ran, argv[1])
         \/ ran' = ran /\ pc'["prog"] = pc["prog"] /\ in' = in /\ out' = out
<1>1. CASE Exit(p) /\ ran' = ran
  BY <1>1 DEF Exit, Table, Procs
<1>2. CASE ~ (Exit(p) /\ ran' = ran)
  <2>1. WordAt(argv, 1) # None => WordAt(argv, 1) = argv[1]
    BY DEF WordAt
  <2> QED BY <1>2, <2>1 DEF execution, Ends, ForkFails, Return, Goto, Table, Procs, descr
<1> QED BY <1>1, <1>2

LEMMA NextStarted == TreeInv /\ Started /\ [Next]_vars => Started'
<1> SUFFICES ASSUME TreeInv, Started, [Next]_vars PROVE Started'
  OBVIOUS
<1>1. ASSUME NEW p \in {"shell", "job", "stage"}, NEW argv, execution(p, argv) PROVE Started'
  <2>1. CASE ran' = ran /\ pc'["prog"] = pc["prog"]
    BY <2>1 DEF Started, Running
  <2>2. CASE argv[1] \in Programs /\ ran' = Append(ran, argv[1])
    BY <2>2 DEF Started
  <2> QED BY <1>1, <2>1, <2>2, ExecutionRuns DEF TreeInv
<1>2. ASSUME ran' = ran, Running' => Running PROVE Started'
  BY <1>2 DEF Started
<1>3. CASE \E l \in Lines : Type(l)
  <2>1. pc["prog"] = "none" /\ pc'["prog"] = pc["prog"] /\ ran' = << >>
    BY <1>3, NothingBelow DEF Type, At, Goto, TreeInv, Table, Procs, Below
  <2> QED BY <2>1 DEF Started, Running
<1> USE DEF Running, TreeInv, Table, Procs
<1>4. CASE Shell
  <2>1. CASE Prompt \/ WaitJob
    BY <1>2, <2>1 DEF Prompt, WaitJob, Reaped, Goto
  <2>2. CASE ForkJob
    BY <1>1, <1>2, <2>2 DEF ForkJob, Fork, ForkFails, Goto
  <2> QED BY <1>4, <2>1, <2>2 DEF Shell
<1>5. CASE Job
  <2>1. CASE Open \/ ForkStage \/ WaitStage \/ WaitProgram("job") \/ JobEnds
    BY <1>2, <2>1 DEF Open, ForkStage, Fork, WaitStage, WaitProgram, JobEnds, Reaped, Exit, Goto
  <2> QED BY <1>1, <1>5, <2>1 DEF Job
<1>6. CASE Stage
  <2>1. CASE Wire \/ WaitProgram("stage") \/ StageEnds
    BY <1>2, <2>1 DEF Wire, WaitProgram, StageEnds, Reaped, Exit, Goto
  <2> QED BY <1>1, <1>6, <2>1 DEF Stage
<1>7. CASE Program
  BY <1>2, <1>7 DEF Program, Read, ReadEnd, ReadTty, Write, ProgramEnds, Exit, Goto, procs, At
<1>8. CASE UNCHANGED vars \/ \E p \in Procs : sigchld_handler(p)
  BY <1>2, <1>8 DEF vars, procs, sigchld_handler, Reap, KillAll
<1> QED BY <1>3, <1>4, <1>5, <1>6, <1>7, <1>8 DEF Next

\* Opening a file, if there is one to open.
LEMMA Opening ==
  ASSUME Opened, NEW f, OpenOut(f)
  PROVE  /\ file' \in [DOMAIN file' -> Seq(Word)] /\ f \in DOMAIN file' /\ pos' \in Nat
         /\ DOMAIN file \subseteq DOMAIN file'
         /\ \A g \in DOMAIN file : file'[g] = file[g]
BY DEF Opened, OpenOut

LEMMA Writing ==
  ASSUME Opened, Started, Running, NEW f \in DOMAIN file, NEW append, WriteFile(f, append)
  PROVE  /\ file' \in [DOMAIN file -> Seq(Word)] /\ pos' \in Nat
         /\ \A g \in DOMAIN file : g # f => file'[g] = file[g]
         /\ append = TRUE => file'[f] = Append(file[f], Last(ran))
<1> DEFINE w == Last(ran)
           at == IF append THEN Len(file[f]) ELSE pos
<1>1. w \in Word /\ file[f] \in Seq(Word) /\ pos \in Nat
  BY DEF Opened, Started, Word, Last
<1>2. at \in Nat
  BY <1>1
<1>3. CASE at < Len(file[f])
  <2>1. ReplaceAt(file[f], at + 1, w) \in Seq(Word)
    <3>1. [file[f] EXCEPT ![at + 1] = w] \in Seq(Word)
      BY <1>1, <1>2, <1>3, ExceptSeq
    <3> QED BY <3>1 DEF ReplaceAt
  <2>2. file' = [file EXCEPT ![f] = ReplaceAt(file[f], at + 1, w)] /\ pos' = at + 1
    BY <1>3 DEF WriteFile
  <2> QED BY <1>1, <1>2, <1>3, <2>1, <2>2 DEF Opened
<1>4. CASE ~ (at < Len(file[f]))
  <2>1. file' = [file EXCEPT ![f] = Append(file[f], w)] /\ pos' = at + 1
    BY <1>4 DEF WriteFile
  <2> QED BY <1>1, <1>2, <2>1 DEF Opened
<1> QED BY <1>3, <1>4

LEMMA NextOpened == TreeInv /\ Started /\ Opened /\ [Next]_vars => Opened'
<1> SUFFICES ASSUME TreeInv, Started, Opened, [Next]_vars PROVE Opened'
  OBVIOUS
<1>1. ASSUME UNCHANGED << in, out, file, pos >> PROVE Opened'
  BY <1>1 DEF Opened
<1>2. ASSUME NEW p, NEW q, NEW l, NEW held, Fork(p, q, l, held), p \in Procs, UNCHANGED << file, pos >>
      PROVE  Opened'
  BY <1>2 DEF Opened, Fork
<1>3. ASSUME NEW p \in {"shell", "job", "stage"}, NEW argv, execution(p, argv),
             UNCHANGED << file, pos >>
      PROVE  Opened'
  <2>1. p \in Procs
    BY DEF Procs
  <2> QED BY <1>1, <1>2, <1>3, <2>1, ExecutionRuns DEF TreeInv
<1>4. CASE \E l \in Lines : Type(l)
  BY <1>1, <1>4 DEF Type, descr
<1>5. CASE Shell
  <2>1. CASE Prompt \/ WaitJob
    BY <1>1, <2>1 DEF Prompt, WaitJob, Reaped, descr, data
  <2>2. CASE ForkJob
    <3>1. CASE execution("shell", Command(0)) /\ UNCHANGED data
      BY <1>3, <3>1 DEF data
    <3>2. CASE Fork("shell", "job", IF job.loop THEN "loop" ELSE "open", {}) /\ UNCHANGED << file, pos >>
      BY <1>2, <3>2 DEF Procs
    <3>3. CASE ForkFails("shell") /\ UNCHANGED << file, pos >>
      BY <1>1, <3>3 DEF ForkFails, descr
    <3> QED BY <2>2, <3>1, <3>2, <3>3 DEF ForkJob
  <2> QED BY <1>5, <2>1, <2>2 DEF Shell
<1>6. CASE Job
  <2>1. CASE WaitStage \/ WaitProgram("job") \/ JobEnds
    BY <1>1, <2>1 DEF WaitStage, WaitProgram, JobEnds, Reaped, Exit, data
  <2>2. CASE ForkStage
    <3>1. CASE Fork("job", "stage", "wire", NewEnds)
      BY <1>2, <2>2, <3>1 DEF ForkStage, data, Procs
    <3> QED BY <1>1, <2>2, <3>1 DEF ForkStage, data
  <2>3. CASE Open
    <3>1. CASE Exit("job")
      BY <1>1, <2>3, <3>1 DEF Open, Exit, Goto, TreeInv, Table, Procs
    <3>2. CASE ~ Exit("job")
      <4>1. /\ in' = [in EXCEPT !["job"] = Input(job.in)]
            /\ out' = [out EXCEPT !["job"] = IF job.out = None THEN Tty ELSE File(job.out, job.append)]
            /\ IF job.out = None THEN UNCHANGED << file, pos >> ELSE OpenOut(job.out)
        BY <2>3, <3>2 DEF Open
      <4> QED BY <4>1, Opening DEF Opened, Tty, File
    <3> QED BY <3>1, <3>2
  <2>4. CASE At("job", "run") /\ execution("job", Command(0)) /\ UNCHANGED data
    BY <1>3, <2>4 DEF data
  <2> QED BY <1>6, <2>1, <2>2, <2>3, <2>4 DEF Job
<1>7. CASE Stage
  <2>1. CASE WaitProgram("stage") \/ StageEnds
    BY <1>1, <2>1 DEF WaitProgram, StageEnds, Reaped, Exit, data
  <2>2. CASE Wire
    <3>1. CASE Exit("stage") /\ UNCHANGED << file, pos >>
      BY <1>1, <3>1 DEF Exit
    <3>2. CASE ~ (Exit("stage") /\ UNCHANGED << file, pos >>)
      <4>1. /\ in' = [in EXCEPT !["stage"] = StageInput]
            /\ out' = [out EXCEPT !["stage"] = StageOutput]
            /\ IF ToFile THEN OpenOut(job.out) ELSE UNCHANGED << file, pos >>
        BY <2>2, <3>2 DEF Wire
      <4>2. CASE ToFile
        BY <4>1, <4>2, Opening DEF Opened, StageOutput, File
      <4>3. CASE ~ ToFile
        BY <4>1, <4>3 DEF Opened, StageOutput, Tty, Pipe
      <4> QED BY <4>2, <4>3
    <3> QED BY <3>1, <3>2
  <2>3. CASE At("stage", "run") /\ execution("stage", Command(num)) /\ UNCHANGED data
    BY <1>3, <2>3 DEF data
  <2> QED BY <1>7, <2>1, <2>2, <2>3 DEF Stage
<1>8. CASE Program
  <2>1. CASE Write /\ out["prog"][1] = "file"
    <3>1. /\ WriteFile(out["prog"][2], out["prog"][3]) /\ Running /\ UNCHANGED << in, out >>
          /\ out["prog"][2] \in DOMAIN file
      BY <2>1 DEF Write, At, Running, descr, Opened, Procs
    <3> QED BY <3>1, Writing DEF Opened
  <2>2. CASE Write /\ out["prog"][1] # "file"
    BY <1>1, <2>2 DEF Write, descr
  <2>3. CASE Read \/ ReadEnd \/ ReadTty \/ ProgramEnds
    BY <1>1, <2>3 DEF Read, ReadEnd, ReadTty, ProgramEnds, Exit, descr, data
  <2> QED BY <1>8, <2>1, <2>2, <2>3 DEF Program
<1>9. CASE UNCHANGED vars \/ \E p \in Procs : sigchld_handler(p)
  BY <1>1, <1>9 DEF vars, descr, data, sigchld_handler, Reap, KillAll
<1> QED BY <1>4, <1>5, <1>6, <1>7, <1>8, <1>9 DEF Next

LEMMA NextData == TreeInv /\ DataInv /\ [Next]_vars => DataInv'
BY NextNumbers, NextStarted, NextOpened DEF DataInv

-----------------------------------------------------------------------------
(***************************************************************************)
(* The n-th of a set of places.                                            *)
(***************************************************************************)
LEMMA Counted ==
  ASSUME NEW m \in Nat, NEW f \in [1 .. m -> Int],
         \A i, j \in 1 .. m : i < j => f[i] < f[j]
  PROVE  IsFiniteSet({f[i] : i \in 1 .. m}) /\ Cardinality({f[i] : i \in 1 .. m}) = m
<1> DEFINE S == {f[i] : i \in 1 .. m}
<1>1. f \in Bijection(1 .. m, S)
  BY DEF Bijection, Injection, Surjection, IsInjective
<1>2. IsFiniteSet(1 .. m) /\ Cardinality(1 .. m) = m
  BY FS_Interval
<1>3. ExistsBijection(1 .. m, S)
  BY <1>1 DEF ExistsBijection
<1> QED BY <1>2, <1>3, FS_Bijection

\* f lists S in its order.
Lists(f, n, S) ==
  /\ f \in [1 .. n -> Int] /\ \A i, j \in 1 .. n : i < j => f[i] < f[j]
  /\ \A x : x \in S <=> \E i \in 1 .. n : x = f[i]

LEMMA NthOf ==
  ASSUME NEW n \in Nat, NEW f, NEW S, Lists(f, n, S)
  PROVE  /\ IsFiniteSet(S) /\ Cardinality(S) = n
         /\ \A m \in 1 .. n : Nth(S, m) = f[m]
<1> USE DEF Lists
<1>1. IsFiniteSet(S) /\ Cardinality(S) = n
  <2>1. S = {f[i] : i \in 1 .. n}
    OBVIOUS
  <2> QED BY <2>1, Counted
<1>2. ASSUME NEW m \in 1 .. n PROVE Cardinality({k \in S : k <= f[m]}) = m
  <2> DEFINE g == [i \in 1 .. m |-> f[i]]
  <2>1. m \in Nat /\ 1 .. m \subseteq 1 .. n
    OBVIOUS
  <2>2. g \in [1 .. m -> Int] /\ \A i, j \in 1 .. m : i < j => g[i] < g[j]
    BY <2>1
  <2>3. Cardinality({g[i] : i \in 1 .. m}) = m
    BY <2>1, <2>2, Counted
  <2>4. {k \in S : k <= f[m]} = {g[i] : i \in 1 .. m}
    <3>1. \A i \in 1 .. n : f[i] <= f[m] <=> i <= m
      OBVIOUS
    <3> QED BY <2>1, <3>1
  <2> QED BY <2>3, <2>4
<1>3. ASSUME NEW m \in 1 .. n PROVE Nth(S, m) = f[m]
  <2>1. f[m] \in S /\ Cardinality({k \in S : k <= f[m]}) = m
    BY <1>2
  <2>2. \A i \in S : Cardinality({k \in S : k <= i}) = m => i = f[m]
    BY <1>2
  <2> QED BY <2>1, <2>2 DEF Nth
<1> QED BY <1>1, <1>3

-----------------------------------------------------------------------------
(***************************************************************************)
(* A line with one ">>".                                                   *)
(***************************************************************************)
Appends(l) == red_or_pipe(l) = << ">" >> /\ ">>" \in Range(l)

LEMMA AppendPlan ==
  ASSUME NEW l \in Seq(STRING), Appends(l)
  PROVE  /\ ~ Simple(l)
         /\ \E argv, name : Plan(l) = Single(argv, None, name, TRUE)
<1> DEFINE S == From(l, 1, Operators)
           k == red_or_pipe(l)
<1>1. PICK x \in DOMAIN l : l[x] = ">>"
  BY DEF Appends, Range
<1>2. x \in 1 .. Len(l) /\ ">>" \in Operators
  BY <1>1 DEF Operators
<1>3. IsFiniteSet(S) /\ x \in S
  <2>1. S \subseteq 1 .. Len(l) /\ IsFiniteSet(1 .. Len(l))
    BY FS_Interval DEF From
  <2> QED BY <1>1, <1>2, <2>1, FS_Subset DEF From
<1>4. Len(k) = 1 /\ k[1] = ">" /\ Cardinality(S) = 1
  <2>1. k = [n \in 1 .. Cardinality(S) |-> Kind(l[Nth(S, n)])] /\ k = << ">" >>
    BY DEF Appends, red_or_pipe
  <2>2. Cardinality(S) \in Nat
    BY <1>3, FS_CardinalityType
  <2> HIDE DEF S, k
  <2>3. DOMAIN k = 1 .. Cardinality(S)
    BY <2>1
  <2>4. Len(k) = 1 /\ k[1] = ">" /\ DOMAIN k = 1 .. 1
    <3> DEFINE g == << ">" >>
    <3>1. Len(g) = 1 /\ g[1] = ">" /\ DOMAIN g = 1 .. 1
      OBVIOUS
    <3>2. k = g
      BY <2>1
    <3> HIDE DEF g
    <3> QED BY <3>1, <3>2
  <2>5. ASSUME NEW c \in Nat, 1 .. c = 1 .. 1 PROVE c = 1
    <3>1. 1 \in 1 .. c /\ (c >= 1 => c \in 1 .. 1)
      BY <2>5
    <3> QED BY <3>1
  <2> QED BY <2>2, <2>3, <2>4, <2>5
<1>5. S = {x}
  BY <1>3, <1>4, FS_Singleton
<1>6. Nth(S, 1) = x
  <2> DEFINE f == [i \in 1 .. 1 |-> x]
  <2>1. f \in [1 .. 1 -> Int] /\ \A i, j \in 1 .. 1 : i < j => f[i] < f[j]
    BY <1>2
  <2>2. \A y : y \in S <=> \E i \in 1 .. 1 : y = f[i]
    BY <1>5
  <2> HIDE DEF S, f
  <2>3. 1 \in Nat /\ 1 \in 1 .. 1 /\ Lists(f, 1, S)
    BY <2>1, <2>2 DEF Lists
  <2>4. \A m \in 1 .. 1 : Nth(S, m) = f[m]
    BY <2>3, NthOf
  <2>5. Nth(S, 1) = f[1]
    BY <2>3, <2>4
  <2> QED BY <2>5 DEF f
<1>7. ~ Simple(l) /\ isValid(l)
  <2>1. ~ Simple(l)
    BY <1>1, <1>2 DEF Simple
  <2>2. isValid(l)
    BY <1>4 DEF isValid
  <2> QED BY <2>1, <2>2
<1>8. NextOp(l, 1) = x /\ NextOp(l, x + 2) = Len(l) + 1
  <2>1. From(l, x + 2, Operators) \subseteq S /\ x \notin From(l, x + 2, Operators)
    BY <1>2 DEF From
  <2> QED BY <1>5, <1>6, <2>1 DEF NextOp
<1>9. Redirects(l, x) /\ l[x] # "<" /\ (l[x] = ">>") = TRUE
  BY <1>1, <1>2 DEF Redirects
<1>10. Turn(l, 1) = Single(SubSeq(l, 1, x - 1), None, WordAt(l, x + 1), TRUE)
  <2>1. ~ (x > Len(l))
    BY <1>2
  <2> QED BY <1>8, <1>9, <2>1, Zenon DEF Turn
<1>11. Turn(l, x + 2) = << >>
  <2>1. Len(l) + 1 > Len(l)
    BY <1>2
  <2> QED BY <1>8, <2>1, Zenon DEF Turn
<1>12. Plan(l) = Single(SubSeq(l, 1, x - 1), None, WordAt(l, x + 1), TRUE)
  <2> DEFINE P == Single(SubSeq(l, 1, x - 1), None, WordAt(l, x + 1), TRUE)
  <2>1. Plan(l) = P \o << >>
    BY <1>7, <1>8, <1>9, <1>10, <1>11, Zenon DEF Plan, Jobs
  <2>2. P \o << >> = P
    BY DEF Single
  <2> QED BY <2>1, <2>2
<1> QED BY <1>7, <1>12

\* The jobs that are left, and where what they write goes.
Adding ==
  Appends(line) =>
    /\ plan \in {Plan(line), << >>}
    /\ pc["job"] \in {"open", "run", "wait"} => plan = Plan(line)
    /\ pc["job"] # "loop" /\ pc["stage"] \in {"none", "zombie"}
    /\ pc["job"] \in {"run", "wait"} => (out["job"][1] = "file" => out["job"][3] = TRUE)
    /\ Running => (out["prog"][1] = "file" => out["prog"][3] = TRUE)

LEMMA LineType == Numbers => line \in Seq(STRING)
<1>1. << >> \in Seq(STRING)
  OBVIOUS
<1> QED BY <1>1, ShellAssumption DEF Numbers

LEMMA AppendJob ==
  ASSUME Numbers, Appends(line), plan = Plan(line)
  PROVE  plan # << >> /\ Tail(plan) = << >> /\ ~ job.loop /\ job.append = TRUE
<1>1. line \in Seq(STRING)
  BY LineType
<1>2. PICK argv, name : plan = Single(argv, None, name, TRUE)
  BY <1>1, AppendPlan
<1>3. \A r : Head(<< r >>) = r /\ Tail(<< r >>) = << >> /\ << r >> # << >>
  OBVIOUS
<1> QED BY <1>2, <1>3 DEF job, Single

\* When the shell has come to the end of a line, or of a job, nothing else runs.
LEMMA QuietShell ==
  ASSUME TreeInv, pc["shell"] \in {"prompt", "next"}
  PROVE  \A p \in Procs : kid[p] = None /\ (p # "shell" => pc[p] = "none")
<1>1. kid["shell"] = None /\ pc["job"] = "none" /\ pc["prog"] = "none"
  BY NothingBelow DEF Procs, Below
<1>2. \A p \in Procs : kid[p] # None => pc[p] = "wait"
  BY DEF TreeInv, Tree
<1>3. pc["stage"] = "none"
  BY <1>1, <1>2 DEF TreeInv, Table, Tree, Procs, Below, None
<1> QED BY <1>1, <1>2, <1>3 DEF Procs

\* So it is when wait() has returned to the shell.
LEMMA JobGone ==
  ASSUME TreeInv, Waits("shell"), Reaped("shell", "next")
  PROVE  pc'["job"] = "none"
<1>1. pc["job"] # "none" => kid["shell"] = "job"
  BY DEF Waits, TreeInv, Table, Tree, Procs, Below, None
<1> QED BY <1>1 DEF Reaped, TreeInv, Table, Procs

LEMMA ShellAdds ==
  ASSUME TreeInv, Numbers, Adding, Shell \/ \E l \in Lines : Type(l)
  PROVE  Adding'
<1> USE DEF Running, TreeInv, Table, Procs
<1>1. CASE \E l \in Lines : Type(l)
  <2>1. PICK l \in Lines : Type(l)
    BY <1>1
  <2>2. pc["job"] = "none" /\ pc["stage"] = "none" /\ pc["prog"] = "none"
    BY <2>1, QuietShell DEF Type, At
  <2>3. pc'["job"] = "none" /\ pc'["stage"] = "none" /\ pc'["prog"] = "none"
    BY <2>1, <2>2 DEF Type, Goto
  <2> QED BY <2>1, <2>3 DEF Type, Adding
<1>2. CASE Prompt
  <2>1. UNCHANGED << line, plan, out >> /\ \A p \in Procs : p # "shell" => pc'[p] = pc[p]
    BY <1>2 DEF Prompt, text, descr, Goto
  <2> QED BY <2>1 DEF Adding
<1>3. CASE ForkJob
  <2> SUFFICES ASSUME Appends(line) PROVE Adding'
    BY <1>3 DEF Adding, ForkJob, text
  <2>1. ~ Simple(line) /\ plan = Plan(line) /\ ~ job.loop
    <3>1. plan = Plan(line)
      BY <1>3 DEF Adding, ForkJob
    <3> QED BY <3>1, LineType, AppendPlan, AppendJob
  <2>2. UNCHANGED text /\ (Fork("shell", "job", "open", {}) \/ ForkFails("shell"))
    BY <1>3, <2>1 DEF ForkJob
  <2>3. pc["job"] = "none" /\ pc["stage"] = "none" /\ pc["prog"] = "none"
    BY <1>3, QuietShell DEF ForkJob, At
  <2> QED BY <2>1, <2>2, <2>3 DEF Adding, Fork, ForkFails, Goto, descr, text
<1>4. CASE WaitJob
  <2> SUFFICES ASSUME Appends(line) PROVE Adding'
    BY <1>4 DEF Adding, WaitJob
  <2>1. pc'["job"] = "none"
    BY <1>4, JobGone DEF WaitJob
  <2>2. plan' = << >>
    <3>1. CASE plan = Plan(line)
      BY <1>4, <3>1, AppendJob DEF WaitJob
    <3>2. CASE plan = << >>
      BY <1>4, <3>2 DEF WaitJob
    <3> QED BY <3>1, <3>2 DEF Adding
  <2>3. line' = line /\ out' = out /\ pc'["stage"] \in {"none", "zombie"} /\ (Running' => Running)
    BY <1>4 DEF WaitJob, Reaped, Adding
  <2> QED BY <2>1, <2>2, <2>3 DEF Adding
<1> QED BY <1>1, <1>2, <1>3, <1>4 DEF Shell

LEMMA JobAdds ==
  ASSUME TreeInv, Numbers, Opened, Adding, Job
  PROVE  Adding'
<1> SUFFICES ASSUME Appends(line)', ~ Adding' PROVE FALSE
  BY DEF Adding
<1> USE DEF Running, TreeInv, Table, Procs
<1>1. UNCHANGED << line, plan >>
  BY DEF Job, Open, ForkStage, WaitStage, WaitProgram, JobEnds, execution, Exit, Return, text
<1>2. Appends(line)
  BY <1>1
<1>3. pc["job"] \in {"open", "run", "wait"} => plan # << >> /\ ~ job.loop /\ job.append = TRUE
  BY <1>2, AppendJob DEF Adding
<1>4. CASE Open
  <2>1. CASE Exit("job")
    BY <1>1, <1>2, <1>4, <2>1 DEF Open, Exit, Adding
  <2>2. CASE ~ Exit("job")
    <3>1. /\ out' = [out EXCEPT !["job"] = IF job.out = None THEN Tty ELSE File(job.out, job.append)]
          /\ Goto("job", "run") /\ pc["job"] = "open"
      BY <1>4, <2>2 DEF Open, At
    <3>2. pc'["job"] = "run" /\ pc'["stage"] = pc["stage"] /\ pc'["prog"] = pc["prog"]
      BY <3>1 DEF Goto
    <3>3. out'["prog"] = out["prog"]
      BY <3>1
    <3>4. out'["job"][1] = "file" => out'["job"][3] = TRUE
      BY <1>3, <3>1 DEF Opened, Tty, File
    <3> QED BY <1>1, <1>2, <3>1, <3>2, <3>3, <3>4 DEF Adding
  <2> QED BY <2>1, <2>2
<1>5. CASE WaitProgram("job")
  <2>1. pc'["job"] = "exit" /\ pc'["stage"] \in {"none", "zombie"} /\ (Running' => Running) /\ out' = out
    BY <1>2, <1>5 DEF WaitProgram, Reaped, Adding
  <2> QED BY <1>1, <1>2, <2>1 DEF Adding
<1>6. CASE JobEnds
  BY <1>1, <1>2, <1>6 DEF JobEnds, Exit, Adding
<1>7. CASE At("job", "run") /\ execution("job", Command(0))
  <2>1. /\ pc'["stage"] = pc["stage"] /\ pc'["job"] \in {"wait", "exit", "zombie", "none"}
        /\ out'["job"] = out["job"]
    BY <1>7 DEF execution, Exit, Fork, ForkFails, Goto, Return, descr, Opened
  <2>2. ((Running' => Running) /\ out'["prog"] = out["prog"]) \/ out'["prog"] = out["job"]
    BY <1>7, ExecutionRuns DEF Fork, Opened
  <2>3. pc["job"] = "run"
    BY <1>7 DEF At
  <2> QED BY <1>1, <1>2, <2>1, <2>2, <2>3 DEF Adding
<1>8. ~ ForkStage /\ ~ WaitStage
  BY <1>2, <1>3 DEF ForkStage, WaitStage, Waits, At, Adding
<1> QED BY <1>4, <1>5, <1>6, <1>7, <1>8 DEF Job

LEMMA NextAdds == TreeInv /\ Numbers /\ Opened /\ Adding /\ [Next]_vars => Adding'
<1> SUFFICES ASSUME TreeInv, Numbers, Opened, Adding, [Next]_vars PROVE Adding'
  OBVIOUS
<1> USE DEF Running, TreeInv, Table, Procs
<1>1. CASE Stage
  <2>1. pc["stage"] \notin {"none", "zombie"} /\ UNCHANGED << line, plan >>
    BY <1>1 DEF Stage, Wire, WaitProgram, Waits, StageEnds, At, execution, Exit, Return, text
  <2> QED BY <2>1 DEF Adding
<1>2. CASE Program
  <2>1. UNCHANGED << line, plan, out >> /\ \A p \in {"job", "stage"} : pc'[p] = pc[p]
    BY <1>2 DEF Program, Read, ReadEnd, ReadTty, Write, ProgramEnds, Exit, Goto, text, procs, descr
  <2>2. Running' => Running
    BY <1>2 DEF Program, Read, ReadEnd, ReadTty, Write, ProgramEnds, At, procs
  <2> QED BY <2>1, <2>2 DEF Adding
<1>3. CASE UNCHANGED vars \/ \E p \in Procs : sigchld_handler(p)
  <2>1. UNCHANGED << line, plan, out >>
    BY <1>3 DEF vars, text, descr, sigchld_handler, Reap, KillAll
  <2>2. \A p \in Procs \ {"shell"} : pc'[p] \in {pc[p], "none", "zombie"}
    BY <1>3 DEF vars, procs, sigchld_handler, Reap, KillAll
  <2> QED BY <2>1, <2>2 DEF Adding
<1> QED BY <1>1, <1>2, <1>3, ShellAdds, JobAdds DEF Next

\* Only a write changes what a file holds.
LEMMA FilesStay ==
  ASSUME DataInv, [Next]_vars
  PROVE  Write \/ \A f \in DOMAIN file : f \in DOMAIN file' /\ file'[f] = file[f]
<1> USE DEF DataInv, Opened
<1>1. CASE Open \/ Wire
  BY <1>1, Opening DEF Open, Wire
<1>2. CASE UNCHANGED file
  BY <1>2
<1>3. Open \/ Wire \/ Write \/ UNCHANGED file
  <2> USE DEF text, data, vars
  <2>1. CASE \E l \in Lines : Type(l)
    BY <2>1 DEF Type
  <2>2. CASE Shell
    BY <2>2 DEF Shell, Prompt, ForkJob, WaitJob
  <2>3. CASE Job
    BY <2>3 DEF Job, ForkStage, WaitStage, WaitProgram, JobEnds
  <2>4. CASE Stage
    BY <2>4 DEF Stage, WaitProgram, StageEnds
  <2>5. CASE Program
    BY <2>5 DEF Program, Read, ReadEnd, ReadTty, ProgramEnds
  <2>6. CASE UNCHANGED vars \/ \E p \in Procs : sigchld_handler(p)
    BY <2>6 DEF sigchld_handler
  <2> QED BY <2>1, <2>2, <2>3, <2>4, <2>5, <2>6 DEF Next
<1> QED BY <1>1, <1>2, <1>3

\* A program writes to one file only, and with ">>" at its end.
LEMMA WriteOne ==
  ASSUME DataInv, Write
  PROVE  \/ UNCHANGED file
         \/ /\ out["prog"][1] = "file" /\ out["prog"][2] \in DOMAIN file /\ Running
            /\ WriteFile(out["prog"][2], out["prog"][3])
            /\ \A f \in DOMAIN file : /\ f \in DOMAIN file'
                                      /\ f # out["prog"][2] => file'[f] = file[f]
<1> USE DEF DataInv, Opened
<1>1. CASE out["prog"][1] = "file"
  <2>1. WriteFile(out["prog"][2], out["prog"][3]) /\ Running /\ out["prog"][2] \in DOMAIN file
    BY <1>1 DEF Write, Running, At, Procs
  <2> QED BY <1>1, <2>1, Writing
<1> QED BY <1>1 DEF Write

LEMMA AppendAdds ==
  ASSUME DataInv, Adding, [Next]_vars, Appends(line), NEW f \in DOMAIN file
  PROVE  IsPrefix(file[f], file'[f])
<1> USE DEF DataInv
<1>1. \A s \in Seq(Word) : IsPrefix(s, s) /\ \A w \in Word : IsPrefix(s, Append(s, w))
  BY DEF IsPrefix
<1>2. file[f] \in Seq(Word)
  BY DEF Opened
<1>3. CASE file'[f] = file[f]
  BY <1>1, <1>2, <1>3
<1>4. CASE Write /\ file'[f] # file[f]
  <2>1. WriteFile(f, TRUE) /\ Running
    BY <1>4, WriteOne DEF Adding
  <2>2. Last(ran) \in Word
    BY <2>1 DEF Started, Last, Word
  <2>3. file'[f] = Append(file[f], Last(ran))
    BY <2>1, Writing
  <2> QED BY <1>1, <1>2, <2>2, <2>3
<1> QED BY <1>3, <1>4, FilesStay

-----------------------------------------------------------------------------
(***************************************************************************)
(* The regular lines: the operators are at the even places.                *)
(***************************************************************************)
LEMMA Even == \A i \in Int : i % 2 = 0 <=> \E m \in Int : i = 2 * m
<1>1. \A i \in Int : i % 2 = 0 => i = 2 * (i \div 2)
  OBVIOUS
<1>2. \A m \in Int : (2 * m) % 2 = 0
  OBVIOUS
<1>3. \A i \in Int : i \div 2 \in Int
  OBVIOUS
<1> QED BY <1>1, <1>2, <1>3

LEMMA Odd == \A i \in Nat : i % 2 = 1 => \E m \in Nat : i = 2 * m + 1
<1>1. \A i \in Nat : i % 2 = 1 => i = 2 * (i \div 2) + 1
  OBVIOUS
<1>2. \A i \in Nat : i \div 2 \in Nat
  OBVIOUS
<1> QED BY <1>1, <1>2

Shape(l, n) ==
  /\ l \in Seq(STRING) /\ DOMAIN l = 1 .. 2 * n + 1
  /\ \A x : x \in From(l, 1, Operators) <=> \E m \in 1 .. n : x = 2 * m
  /\ \A m \in 1 .. n :
       /\ l[2 * m] \in Operators
       /\ l[2 * m] = "<" => m = 1
       /\ l[2 * m] \in {">", ">>"} => m = n
  /\ \A m \in 0 .. n : m = 0 \/ l[2 * m] = "|" => l[2 * m + 1] \in Programs
  /\ \A m \in 0 .. n : l[2 * m + 1] # None /\ l[2 * m + 1] \notin Operators
  /\ n > 0 /\ l[2] = "<" => l[3] \in DOMAIN Content

LEMMA Places ==
  ASSUME NEW l \in Lines, Regular(l), NEW n \in Nat, Len(l) = 2 * n + 1
  PROVE  Shape(l, n)
<1>1. l \in Seq(STRING) /\ DOMAIN l = 1 .. 2 * n + 1 /\ None \notin Range(l)
  BY ShellAssumption
<1>2. \A i \in 1 .. 2 * n + 1 : l[i] \in Operators <=> \E m \in Int : i = 2 * m
  <2>1. \A i \in 1 .. 2 * n + 1 : i % 2 = 0 <=> l[i] \in Operators
    BY <1>1 DEF Regular
  <2>2. \A i \in 1 .. 2 * n + 1 : i \in Int
    OBVIOUS
  <2> QED BY <2>1, <2>2, Even
<1>3. \A x : x \in From(l, 1, Operators) <=> \E m \in 1 .. n : x = 2 * m
  <2>1. \A x : x \in From(l, 1, Operators) <=> x \in 1 .. 2 * n + 1 /\ l[x] \in Operators
    BY DEF From
  <2>2. \A m \in Int : 2 * m \in 1 .. 2 * n + 1 <=> m \in 1 .. n
    OBVIOUS
  <2> QED BY <1>2, <2>1, <2>2
<1>4. \A m \in 1 .. n : 2 * m \in 1 .. 2 * n + 1 /\ l[2 * m] \in Operators
  BY <1>2
<1>5. \A m \in 1 .. n : l[2 * m] = "<" => m = 1
  <2>1. \A i \in 1 .. 2 * n + 1 : l[i] = "<" => i = 2
    BY <1>1 DEF Regular
  <2> QED BY <1>4, <2>1
<1>6. \A m \in 1 .. n : l[2 * m] \in {">", ">>"} => m = n
  <2>1. \A i \in 1 .. 2 * n + 1 : l[i] \in {">", ">>"} => i = 2 * n + 1 - 1
    BY <1>1 DEF Regular
  <2> QED BY <1>4, <2>1
<1>7. \A m \in 0 .. n : 2 * m + 1 \in 1 .. 2 * n + 1 /\ (m = 0 => 2 * m + 1 = 1) /\ (2 * m + 1) - 1 = 2 * m
  OBVIOUS
<1>8. \A m \in 0 .. n : m = 0 \/ l[2 * m] = "|" => l[2 * m + 1] \in Programs
  <2>1. \A i \in 1 .. 2 * n + 1 : i = 1 \/ l[i - 1] = "|" => l[i] \in Programs
    BY <1>1 DEF Regular
  <2> QED BY <1>7, <2>1
<1>9. \A m \in 0 .. n : l[2 * m + 1] # None /\ l[2 * m + 1] \notin Operators
  <2>1. \A m \in 0 .. n : ~ \E k \in Int : 2 * m + 1 = 2 * k
    OBVIOUS
  <2> QED BY <1>1, <1>2, <1>7, <2>1 DEF Range
<1>10. n > 0 /\ l[2] = "<" => l[3] \in DOMAIN Content
  <2>1. n > 0 => 2 \in DOMAIN l
    BY <1>1
  <2> QED BY <2>1 DEF Regular
<1> QED BY <1>1, <1>3, <1>4, <1>5, <1>6, <1>8, <1>9, <1>10 DEF Shape

\* What main() records of it.
LEMMA Recorded ==
  ASSUME NEW l \in Lines, Regular(l), NEW n \in Nat, Len(l) = 2 * n + 1
  PROVE  /\ red_or_pipe(l) = [m \in 1 .. n |-> Kind(l[2 * m])]
         /\ Simple(l) <=> n = 0
         /\ isValid(l)
<1> DEFINE S == From(l, 1, Operators)
           f == [m \in 1 .. n |-> 2 * m]
           k == [m \in 1 .. n |-> Kind(l[2 * m])]
<1>0. Shape(l, n)
  BY Places
<1>1. Cardinality(S) = n /\ \A m \in 1 .. n : Nth(S, m) = f[m]
  <2>1. f \in [1 .. n -> Int] /\ \A i, j \in 1 .. n : i < j => f[i] < f[j]
    OBVIOUS
  <2>2. \A x : x \in S <=> \E m \in 1 .. n : x = f[m]
    BY <1>0 DEF Shape
  <2> HIDE DEF S, f
  <2>3. Lists(f, n, S)
    BY <2>1, <2>2 DEF Lists
  <2> QED BY <2>3, NthOf
<1>2. red_or_pipe(l) = k
  BY <1>1 DEF red_or_pipe
<1>3. Simple(l) <=> n = 0
  <2>1. CASE n = 0
    <3>1. DOMAIN l = 1 .. 1 /\ 0 \in 0 .. n /\ 2 * 0 + 1 = 1
      BY <2>1, <1>0 DEF Shape
    <3>2. l[2 * 0 + 1] \notin Operators
      BY <3>1, <1>0 DEF Shape
    <3> QED BY <2>1, <3>1, <3>2 DEF Simple
  <2>2. CASE n > 0
    <3>1. 1 \in 1 .. n /\ 2 * 1 \in 1 .. 2 * n + 1
      BY <2>2
    <3>2. l[2 * 1] \in Operators /\ DOMAIN l = 1 .. 2 * n + 1
      BY <3>1, <1>0 DEF Shape
    <3> QED BY <2>2, <3>1, <3>2 DEF Simple
  <2> QED BY <2>1, <2>2
<1>4. isValid(l)
  <2>1. Len(k) = n /\ \A m \in 1 .. n : k[m] = Kind(l[2 * m])
    OBVIOUS
  <2>2. \A m \in 1 .. n : l[2 * m] \in Operators /\ (l[2 * m] = "<" => m = 1)
                          /\ (l[2 * m] \in {">", ">>"} => m = n)
    BY <1>0 DEF Shape
  <2>3. \A m \in 1 .. n : (k[m] \in {">", ">>"} => m = n) /\ (k[m] = "<" => m = 1)
                          /\ k[m] \in {"|", ">", "<"}
    BY <2>1, <2>2 DEF Kind, Operators
  <2>4. 1 .. n \subseteq Nat /\ (n > 2 => 1 \in 1 .. n /\ n \in 1 .. n)
        /\ (\A i \in 2 .. n - 1 : i \in 1 .. n /\ i # 1 /\ i # n)
    OBVIOUS
  <2> HIDE DEF k
  <2>5. ~ (n > 2 /\ k[1] \in {">", ">>"}) /\ ~ (n > 2 /\ k[n] = "<")
    BY <2>3, <2>4
  <2>6. \A i \in 2 .. n - 1 : k[i] = "|"
    BY <2>3, <2>4
  <2> QED BY <1>2, <2>1, <2>5, <2>6 DEF isValid
<1> QED BY <1>2, <1>3, <1>4

LEMMA NextOps ==
  ASSUME NEW l \in Lines, Regular(l), NEW n \in Nat, Len(l) = 2 * n + 1
  PROVE  /\ n > 0 => NextOp(l, 1) = 2
         /\ n = 1 => NextOp(l, 4) = 4 /\ 4 > Len(l)
         /\ n = 2 => NextOp(l, 4) = 4
<1> DEFINE S == From(l, 1, Operators)
           f == [m \in 1 .. n |-> 2 * m]
<1>0. Shape(l, n)
  BY Places
<1>1. \A x : x \in S <=> \E m \in 1 .. n : x = f[m]
  BY <1>0 DEF Shape
<1>2. Cardinality(S) = n /\ \A m \in 1 .. n : Nth(S, m) = f[m]
  <2>1. f \in [1 .. n -> Int] /\ \A i, j \in 1 .. n : i < j => f[i] < f[j]
    OBVIOUS
  <2> HIDE DEF S, f
  <2>2. Lists(f, n, S)
    BY <1>1, <2>1 DEF Lists
  <2> QED BY <2>2, NthOf
<1>3. n > 0 => NextOp(l, 1) = 2
  <2> SUFFICES ASSUME n > 0 PROVE NextOp(l, 1) = 2
    OBVIOUS
  <2>1. 1 \in 1 .. n /\ f[1] = 2
    OBVIOUS
  <2>2. S # {} /\ Nth(S, 1) = 2
    BY <1>1, <1>2, <2>1
  <2> QED BY <2>2 DEF NextOp
<1>4. ASSUME n = 1 PROVE NextOp(l, 4) = 4 /\ 4 > Len(l)
  <2>1. From(l, 4, Operators) = {}
    BY <1>4 DEF From
  <2> QED BY <1>4, <2>1 DEF NextOp
<1>5. ASSUME n = 2 PROVE NextOp(l, 4) = 4
  <2> DEFINE R == From(l, 4, Operators)
             g == [m \in 1 .. 1 |-> 4]
  <2>1. \A x : x \in R <=> x \in 4 .. 5 /\ x \in S
    <3>1. Len(l) = 5 /\ 4 .. 5 \subseteq 1 .. 5
      BY <1>5
    <3> QED BY <3>1 DEF From
  <2>2. \A x : x \in S <=> x = 2 \/ x = 4
    <3>1. 1 .. n = {1, 2} /\ 2 * 1 = 2 /\ 2 * 2 = 4
      BY <1>5
    <3>2. \A x : x \in S <=> \E m \in 1 .. n : x = 2 * m
      BY <1>0 DEF Shape
    <3> QED BY <3>1, <3>2
  <2>3. \A x : x \in R <=> \E m \in 1 .. 1 : x = g[m]
    BY <2>1, <2>2
  <2>4. g \in [1 .. 1 -> Int] /\ (\A i, j \in 1 .. 1 : i < j => g[i] < g[j]) /\ 1 \in Nat
        /\ 1 \in 1 .. 1 /\ g[1] = 4
    OBVIOUS
  <2> HIDE DEF R, g
  <2>5. Lists(g, 1, R)
    BY <2>3, <2>4 DEF Lists
  <2>6. \A m \in 1 .. 1 : Nth(R, m) = g[m]
    BY <2>4, <2>5, NthOf
  <2>7. Nth(R, 1) = 4 /\ R # {}
    BY <2>3, <2>4, <2>6
  <2> QED BY <2>7 DEF NextOp, R
<1> QED BY <1>3, <1>4, <1>5

LEMMA FunSeq ==
  ASSUME NEW S, NEW n \in Nat, NEW f \in [1 .. n -> S]
  PROVE  f \in Seq(S) /\ Len(f) = n
<1>1. f \in Seq(S)
  BY SeqDef
<1>2. 1 .. Len(f) = 1 .. n /\ Len(f) \in Nat
  BY <1>1, LenProperties
<1>3. \A a, b \in Nat : 1 .. a = 1 .. b => a = b
  <2> SUFFICES ASSUME NEW a \in Nat, NEW b \in Nat, 1 .. a = 1 .. b PROVE a = b
    OBVIOUS
  <2>1. (a > 0 => a \in 1 .. a) /\ (b > 0 => b \in 1 .. b)
    OBVIOUS
  <2>2. (a > 0 => a \in 1 .. b) /\ (b > 0 => b \in 1 .. a)
    BY <2>1
  <2> QED BY <2>2
<1> QED BY <1>1, <1>2, <1>3

LEMMA Piece == \A l \in Seq(STRING), i \in Int : i \in DOMAIN l => SubSeq(l, i, i) = << l[i] >>
<1> SUFFICES ASSUME NEW l \in Seq(STRING), NEW i \in DOMAIN l PROVE SubSeq(l, i, i) = << l[i] >>
  OBVIOUS
<1>1. SubSeq(l, i, i) \in Seq(STRING) /\ Len(SubSeq(l, i, i)) = 1 /\ SubSeq(l, i, i)[1] = l[i]
  <2>1. i \in Int
    BY LenProperties
  <2> QED BY <2>1
<1>2. << l[i] >> \in Seq(STRING) /\ Len(<< l[i] >>) = 1 /\ << l[i] >>[1] = l[i]
  <2>1. l[i] \in STRING
    BY ElementOfSeq, LenProperties
  <2> QED BY <2>1
<1>3. \A j \in 1 .. 1 : j = 1
  OBVIOUS
<1> QED BY <1>1, <1>2, <1>3, SeqEqual

\* The commands of a pipeline, after the first: each is one word.
LEMMA Cut ==
  ASSUME NEW l \in Lines, Regular(l), NEW n \in Nat, Len(l) = 2 * n + 1, n > 0
  PROVE  Split(l, 3, n) = [j \in 1 .. n |-> << l[2 * j + 1] >>]
<1> DEFINE S == From(l, 3, {"|", ">", ">>"})
           f == [m \in 1 .. n - 1 |-> 2 * m + 2]
<1>0. Shape(l, n)
  BY Places
<1>1. \A x : x \in S <=> \E m \in 1 .. n - 1 : x = f[m]
  <2>1. \A x : x \in S <=> x \in 3 .. 2 * n + 1 /\ l[x] \in {"|", ">", ">>"}
    BY DEF From
  <2>2. \A x : x \in 1 .. 2 * n + 1 /\ l[x] \in Operators <=> \E m \in 1 .. n : x = 2 * m
    <3>1. \A x : x \in From(l, 1, Operators) <=> x \in 1 .. 2 * n + 1 /\ l[x] \in Operators
      BY DEF From
    <3> QED BY <3>1, <1>0 DEF Shape
  <2>3. ASSUME NEW x \in S PROVE \E m \in 1 .. n - 1 : x = f[m]
    <3>1. x \in 3 .. 2 * n + 1 /\ l[x] \in Operators
      BY <2>1, <2>3 DEF Operators
    <3>2. PICK m \in 1 .. n : x = 2 * m
      BY <2>2, <3>1
    <3>3. m - 1 \in 1 .. n - 1 /\ x = 2 * (m - 1) + 2
      BY <3>1, <3>2
    <3> QED BY <3>3
  <2>4. ASSUME NEW m \in 1 .. n - 1 PROVE f[m] \in S
    <3>1. m + 1 \in 1 .. n /\ f[m] = 2 * (m + 1) /\ f[m] \in 3 .. 2 * n + 1 /\ m + 1 # 1
      OBVIOUS
    <3>2. l[2 * (m + 1)] \in Operators /\ l[2 * (m + 1)] # "<"
      BY <3>1, <1>0 DEF Shape
    <3> QED BY <2>1, <3>1, <3>2 DEF Operators
  <2> QED BY <2>3, <2>4
<1>2. Cardinality(S) = n - 1 /\ \A m \in 1 .. n - 1 : Nth(S, m) = 2 * m + 2
  <2>1. f \in [1 .. n - 1 -> Int] /\ n - 1 \in Nat
        /\ \A i, j \in 1 .. n - 1 : i < j => f[i] < f[j]
    OBVIOUS
  <2>2. \A m \in 1 .. n - 1 : f[m] = 2 * m + 2
    OBVIOUS
  <2>3. Cardinality(S) = n - 1 /\ \A m \in 1 .. n - 1 : Nth(S, m) = f[m]
    <3> HIDE DEF S, f
    <3>1. Lists(f, n - 1, S)
      BY <1>1, <2>1 DEF Lists
    <3> QED BY <2>1, <3>1, NthOf
  <2> QED BY <2>2, <2>3
<1>3. \A j \in 0 .. n : Stop(l, 3, j) = 2 * j + 2
  <2> HIDE DEF S
  <2>1. \A j \in 0 .. n : Stop(l, 3, j) = IF j = 0 THEN 2 ELSE IF j <= n - 1 THEN Nth(S, j) ELSE 2 * n + 2
    BY <1>2 DEF Stop, S
  <2>2. \A j \in 0 .. n : j # 0 /\ j <= n - 1 => j \in 1 .. n - 1
    OBVIOUS
  <2> QED BY <1>2, <2>1, <2>2
<1>4. ASSUME NEW j \in 1 .. n
      PROVE  SubSeq(l, Stop(l, 3, j - 1) + 1, Stop(l, 3, j) - 1) = << l[2 * j + 1] >>
  <2>1. j \in 0 .. n /\ j - 1 \in 0 .. n /\ 2 * j + 1 \in 1 .. 2 * n + 1
        /\ 2 * (j - 1) + 2 + 1 = 2 * j + 1 /\ 2 * j + 2 - 1 = 2 * j + 1
    OBVIOUS
  <2>2. Stop(l, 3, j - 1) + 1 = 2 * j + 1 /\ Stop(l, 3, j) - 1 = 2 * j + 1
    BY <1>3, <2>1
  <2>3. l \in Seq(STRING) /\ 2 * j + 1 \in DOMAIN l /\ 2 * j + 1 \in Int
    BY <2>1, <1>0 DEF Shape
  <2> QED BY <2>2, <2>3, Piece
<1> QED BY <1>4 DEF Split

-----------------------------------------------------------------------------
(***************************************************************************)
(* The jobs of a regular line.                                             *)
(***************************************************************************)
In(l) == Len(l) > 1 /\ l[2] = "<"
Out(l) == Len(l) > 1 /\ l[Len(l) - 1] \in {">", ">>"}

LEMMA SimplePlan ==
  ASSUME NEW l \in Lines, Regular(l), Len(l) = 1
  PROVE  /\ Plan(l) = Single(l, None, None, FALSE)
         /\ l = << l[1] >> /\ l[1] \in Programs
<1>1. l \in Seq(STRING) /\ 2 * 0 + 1 = 1 /\ 0 \in 0 .. 0 /\ 0 \in Nat
  BY ShellAssumption
<1>2. Simple(l) /\ l[1] \in Programs
  <2>1. Len(l) = 2 * 0 + 1
    OBVIOUS
  <2>2. Shape(l, 0)
    BY <1>1, <2>1, Places
  <2>3. Simple(l)
    BY <1>1, <2>1, Recorded
  <2> QED BY <1>1, <2>2, <2>3 DEF Shape
<1> QED BY <1>1, <1>2 DEF Plan

LEMMA LoopPlan ==
  ASSUME NEW l \in Lines, Regular(l), NEW n \in Nat, Len(l) = 2 * n + 1, n > 0, ~ Redirects(l, 2)
  PROVE  \E j : /\ Plan(l) = << j >> /\ j.loop = TRUE
                /\ Len(j.cmds) = n + 1 /\ DOMAIN j.cmds = 1 .. n + 1
                /\ \A k \in 0 .. n : j.cmds[k + 1] = << l[2 * k + 1] >>
                /\ j.in = IF In(l) THEN l[3] ELSE None
                /\ j.out = IF Out(l) THEN l[2 * n + 1] ELSE None
                /\ In(l) => n > 1
                /\ j.append = FALSE
<1> DEFINE R == Split(l, 3, n)
           C == << SubSeq(l, 1, 1) >> \o R
           k == red_or_pipe(l)
<1>0. Shape(l, n)
  BY Places
<1>1. l \in Seq(STRING) /\ DOMAIN l = 1 .. 2 * n + 1 /\ 1 \in 1 .. n /\ n \in 1 .. n /\ 2 * 1 = 2
      /\ 2 \in 1 .. 2 * n + 1 /\ 2 * n \in 1 .. 2 * n + 1 /\ 3 \in 1 .. 2 * n + 1 /\ 2 <= Len(l)
  BY <1>0 DEF Shape
<1>2. k = [m \in 1 .. n |-> Kind(l[2 * m])] /\ Len(k) = n /\ ~ Simple(l) /\ isValid(l)
  <2>1. k = [m \in 1 .. n |-> Kind(l[2 * m])]
    BY Recorded
  <2>2. (Simple(l) <=> n = 0) /\ isValid(l)
    BY Recorded
  <2>3. Len([m \in 1 .. n |-> Kind(l[2 * m])]) = n
    OBVIOUS
  <2> QED BY <2>1, <2>2, <2>3
<1>3. l[2] \in Operators /\ l[2 * n] \in Operators /\ (l[2 * n] = "<" => n = 1)
  BY <1>1, <1>0 DEF Shape
<1>4. l[2] = "|" \/ (l[2] = "<" /\ n > 1 /\ ~ (n = 2 /\ k[2] = ">"))
  BY <1>1, <1>2 DEF Redirects
<1>5. k[n] = Kind(l[2 * n]) /\ k[n] # "<" /\ k[n] # ">>"
      /\ (k[n] = "|") = (~ Out(l))
  <2>1. k[n] = Kind(l[2 * n])
    BY <1>1, <1>2
  <2>2. l[2 * n] # "<"
    BY <1>3, <1>4
  <2>3. Out(l) = (l[2 * n] \in {">", ">>"})
    BY DEF Out
  <2> QED BY <1>3, <2>1, <2>2, <2>3 DEF Kind, Operators
<1>6. R = [j \in 1 .. n |-> << l[2 * j + 1] >>] /\ SubSeq(l, 1, 1) = << l[1] >>
  BY <1>1, Cut, Piece
<1>7. Len(C) = n + 1 /\ DOMAIN C = 1 .. n + 1 /\ \A i \in 0 .. n : C[i + 1] = << l[2 * i + 1] >>
  <2> DEFINE A == << SubSeq(l, 1, 1) >>
  <2>1. A \in Seq(Seq(STRING)) /\ Len(A) = 1 /\ A[1] = << l[1] >>
    BY <1>1, <1>6
  <2>2. R \in Seq(Seq(STRING)) /\ Len(R) = n /\ \A i \in 1 .. n : R[i] = << l[2 * i + 1] >>
    <3>1. \A i \in 1 .. n : << l[2 * i + 1] >> \in Seq(STRING)
      BY <1>1
    <3>2. R \in [1 .. n -> Seq(STRING)]
      BY <1>6, <3>1
    <3> HIDE DEF R
    <3> QED BY <1>6, <3>2, FunSeq
  <2> HIDE DEF A, R
  <2>3. Len(A \o R) = n + 1 /\ DOMAIN (A \o R) = 1 .. n + 1
        /\ \A i \in 1 .. n + 1 : (A \o R)[i] = IF i <= 1 THEN A[i] ELSE R[i - 1]
    <3>1. /\ A \o R \in Seq(Seq(STRING)) /\ Len(A \o R) = 1 + n
          /\ \A i \in 1 .. 1 + n : (A \o R)[i] = IF i <= 1 THEN A[i] ELSE R[i - 1]
      <4>1. /\ A \o R \in Seq(Seq(STRING)) /\ Len(A \o R) = Len(A) + Len(R)
            /\ \A i \in 1 .. Len(A) + Len(R) : (A \o R)[i] = IF i <= Len(A) THEN A[i] ELSE R[i - Len(A)]
        BY <2>1, <2>2, ConcatProperties
      <4> QED BY <2>1, <2>2, <4>1
    <3>2. 1 + n = n + 1
      OBVIOUS
    <3> QED BY <3>1, <3>2, LenProperties
  <2>4. ASSUME NEW i \in 0 .. n PROVE (A \o R)[i + 1] = << l[2 * i + 1] >>
    <3>1. CASE i = 0
      BY <2>1, <2>3, <3>1
    <3>2. CASE i # 0
      <4>1. i \in 1 .. n /\ i + 1 \in 1 .. n + 1 /\ ~ (i + 1 <= 1) /\ (i + 1) - 1 = i
        BY <3>2
      <4> QED BY <2>2, <2>3, <4>1
    <3> QED BY <3>1, <3>2
  <2> QED BY <2>3, <2>4 DEF A
<1>8. NextOp(l, 1) = 2 /\ WordAt(l, 3) = l[3] /\ WordAt(Last(C), 1) = l[2 * n + 1]
  <2>1. NextOp(l, 1) = 2
    BY NextOps
  <2>2. Last(C) = << l[2 * n + 1] >>
    BY <1>7 DEF Last
  <2> QED BY <1>1, <2>1, <2>2 DEF WordAt
<1>9. In(l) = (l[2] = "<")
  BY DEF In
<1> DEFINE J == [loop |-> TRUE, cmds |-> C, in |-> IF l[2] = "<" THEN l[3] ELSE None,
                 out |-> IF k[n] = "|" THEN None ELSE WordAt(Last(C), 1), append |-> k[n] = ">>"]
<1>10. Turn(l, 1) = << J >>
  <2> HIDE DEF k, C, R
  <2>1. Turn(l, 1) = Pipeline(<< SubSeq(l, 1, 2 - 1) >> \o Split(l, 2 + 1, Len(k)),
                              IF l[2] = "<" THEN WordAt(l, 2 + 1) ELSE None, k[Len(k)])
    <3>1. ~ (2 > Len(l))
      BY <1>1
    <3> QED BY <1>8, <3>1, Zenon DEF Turn, k
  <2>2. Turn(l, 1) = Pipeline(C, IF l[2] = "<" THEN l[3] ELSE None, k[n])
    <3>1. 2 - 1 = 1 /\ 2 + 1 = 3
      OBVIOUS
    <3> QED BY <1>2, <1>8, <2>1, <3>1 DEF C, R
  <2> QED BY <1>5, <2>2, Zenon DEF Pipeline
<1>11. Plan(l) = << J >>
  <2> HIDE DEF J
  <2>1. Plan(l) = << J >> \o << >>
    BY <1>2, <1>8, <1>10, Zenon DEF Plan, Jobs
  <2> QED BY <2>1
<1>12. /\ J.loop = TRUE /\ J.cmds = C
       /\ J.in = IF l[2] = "<" THEN l[3] ELSE None
       /\ J.out = IF k[n] = "|" THEN None ELSE WordAt(Last(C), 1)
       /\ J.append = (k[n] = ">>")
  OBVIOUS
<1> HIDE DEF J
<1>16. J.append = FALSE
  BY <1>5, <1>12
<1>13. J.out = IF Out(l) THEN l[2 * n + 1] ELSE None
  BY <1>5, <1>8, <1>12
<1>14. J.in = IF In(l) THEN l[3] ELSE None
  BY <1>9, <1>12
<1>15. In(l) => n > 1
  BY <1>4, <1>9
<1> QED BY <1>7, <1>11, <1>12, <1>13, <1>14, <1>15, <1>16

\* What is left of a line after its command: a job that runs nothing.
Idle(j) == ~ j.loop /\ j.cmds = << << >> >> /\ j.in = None

LEMMA PairOf == \A x, y : << x >> \o << y >> = << x, y >>
<1> SUFFICES ASSUME NEW x, NEW y PROVE << x >> \o << y >> = << x, y >>
  OBVIOUS
<1> DEFINE S == {x, y}
<1>1. << x >> \in Seq(S) /\ << y >> \in Seq(S) /\ << x, y >> \in Seq(S)
  OBVIOUS
<1>2. Len(<< x >>) = 1 /\ Len(<< y >>) = 1 /\ Len(<< x, y >>) = 2
      /\ << x >>[1] = x /\ << y >>[1] = y /\ << x, y >>[1] = x /\ << x, y >>[2] = y
  OBVIOUS
<1>3. << x >> \o << y >> \in Seq(S) /\ Len(<< x >> \o << y >>) = 1 + 1
      /\ \A i \in 1 .. 1 + 1 : (<< x >> \o << y >>)[i] = IF i <= 1 THEN << x >>[i] ELSE << y >>[i - 1]
  BY <1>1, <1>2, ConcatProperties
<1>4. 1 + 1 = 2 /\ \A i \in 1 .. 2 : i = 1 \/ (i = 2 /\ ~ (i <= 1) /\ i - 1 = 1)
  OBVIOUS
<1>5. \A i \in 1 .. 2 : (<< x >> \o << y >>)[i] = << x, y >>[i]
  BY <1>2, <1>3, <1>4
<1> HIDE DEF S
<1> QED BY <1>1, <1>2, <1>3, <1>4, <1>5, SeqEqual

LEMMA RedirectPlan ==
  ASSUME NEW l \in Lines, Regular(l), NEW n \in Nat, Len(l) = 2 * n + 1, n > 0, Redirects(l, 2)
  PROVE  \E j : /\ j.loop = FALSE /\ j.cmds = << << l[1] >> >> /\ l[1] \in Programs
                /\ j.in = None \/ j.in \in DOMAIN Content
                /\ ~ Appends(l) => j.append = FALSE
                /\ Plan(l) = << j >> \/ \E e : Plan(l) = << j, e >> /\ Idle(e)
                /\ (n = 1 /\ (In(l) <=> ~ Out(l))) \/ (n = 2 /\ In(l) /\ Out(l))
<1> DEFINE k == red_or_pipe(l)
<1>0. Shape(l, n)
  BY Places
<1>1. l \in Seq(STRING) /\ 1 \in DOMAIN l /\ 1 \in Int /\ 1 \in 1 .. n /\ 0 \in 0 .. n
      /\ 2 * 1 = 2 /\ 2 * 0 + 1 = 1 /\ 2 <= Len(l) /\ 3 <= Len(l)
  BY <1>0 DEF Shape
<1>2. k = [m \in 1 .. n |-> Kind(l[2 * m])] /\ Len(k) = n /\ ~ Simple(l) /\ isValid(l)
  <2>1. k = [m \in 1 .. n |-> Kind(l[2 * m])]
    BY Recorded
  <2>2. (Simple(l) <=> n = 0) /\ isValid(l)
    BY Recorded
  <2>3. Len([m \in 1 .. n |-> Kind(l[2 * m])]) = n
    OBVIOUS
  <2> QED BY <2>1, <2>2, <2>3
<1>3. l[2] \in Operators /\ (l[2] \in {">", ">>"} => n = 1) /\ l[2] # "|" /\ l[1] \in Programs
  <2>1. l[2 * 1] \in Operators /\ (l[2 * 1] \in {">", ">>"} => 1 = n)
    BY <1>1, <1>0 DEF Shape
  <2>2. l[2 * 0 + 1] \in Programs
    BY <1>1, <1>0 DEF Shape
  <2>3. l[2] # "|"
    BY DEF Redirects
  <2> QED BY <1>1, <2>1, <2>2, <2>3
<1>4. l[2] = "<" => n = 1 \/ (n = 2 /\ k[2] = ">")
  BY <1>2 DEF Redirects
<1>5. n = 1 \/ (n = 2 /\ l[2] = "<" /\ l[4] \in {">", ">>"})
  <2>1. CASE l[2] = "<" /\ n = 2
    <3>1. 2 \in 1 .. n /\ 2 * 2 = 4 /\ 2 # 1
      BY <2>1
    <3>2. k[2] = Kind(l[4]) /\ l[4] \in Operators /\ l[4] # "<"
      BY <1>2, <3>1, <1>0 DEF Shape
    <3>3. k[2] = ">"
      BY <1>4, <2>1
    <3> QED BY <2>1, <3>2, <3>3 DEF Kind, Operators
  <2> QED BY <1>3, <1>4, <2>1 DEF Operators
<1>6. SubSeq(l, 1, 1) = << l[1] >> /\ NextOp(l, 1) = 2 /\ WordAt(l, 3) = l[3] /\ (l[2] = "<" => l[3] \in DOMAIN Content)
  <2>1. SubSeq(l, 1, 1) = << l[1] >>
    BY <1>1, Piece
  <2>2. NextOp(l, 1) = 2
    BY NextOps
  <2>3. l[2] = "<" => l[3] \in DOMAIN Content
    BY <1>0 DEF Shape
  <2> QED BY <1>1, <2>1, <2>2, <2>3 DEF WordAt
<1>14. l[2] = ">>" => Appends(l)
  <2> SUFFICES ASSUME l[2] = ">>" PROVE Appends(l)
    OBVIOUS
  <2>1. n = 1 /\ 2 * 1 = 2
    BY <1>3
  <2>2. k = [m \in 1 .. 1 |-> ">"]
    BY <1>2, <2>1 DEF Kind
  <2>3. [m \in 1 .. 1 |-> ">"] = << ">" >>
    OBVIOUS
  <2>4. l[2] \in Range(l)
    BY <1>1 DEF Range
  <2> QED BY <2>2, <2>3, <2>4 DEF Appends
<1>7. \E i, o, a : /\ Turn(l, 1) = Single(<< l[1] >>, i, o, a) /\ (i = None \/ i \in DOMAIN Content)
                   /\ ~ Appends(l) => a = FALSE
  <2> HIDE DEF k
  <2>1. ~ (2 > Len(l)) /\ 2 - 1 = 1 /\ 2 + 1 = 3
    BY <1>1
  <2>2. CASE l[2] = "<"
    <3>1. Turn(l, 1) = Single(SubSeq(l, 1, 2 - 1), WordAt(l, 2 + 1), IF Len(k) = 1 THEN None ELSE WordAt(l, 2 + 3), FALSE)
      BY <1>6, <2>1, <2>2, Zenon DEF Turn, k
    <3>2. Turn(l, 1) = Single(<< l[1] >>, l[3], IF Len(k) = 1 THEN None ELSE WordAt(l, 2 + 3), FALSE)
      BY <1>6, <2>1, <3>1
    <3> QED BY <1>6, <2>2, <3>2
  <2>3. CASE l[2] # "<"
    <3>1. Turn(l, 1) = Single(SubSeq(l, 1, 2 - 1), None, WordAt(l, 2 + 1), l[2] = ">>")
      BY <1>6, <2>1, <2>3, Zenon DEF Turn, k
    <3>2. Turn(l, 1) = Single(<< l[1] >>, None, l[3], l[2] = ">>")
      BY <1>6, <2>1, <3>1
    <3>3. CASE Appends(l)
      BY <3>2, <3>3
    <3>4. CASE ~ Appends(l)
      <4>1. (l[2] = ">>") = FALSE
        BY <1>14, <3>4
      <4>2. Turn(l, 1) = Single(<< l[1] >>, None, l[3], FALSE)
        BY <3>2, <4>1, Zenon
      <4> QED BY <4>2
    <3> QED BY <3>3, <3>4
  <2> QED BY <2>2, <2>3
<1>8. Turn(l, 4) = << >> \/ \E o, a : Turn(l, 4) = Single(<< >>, None, o, a)
  <2>1. CASE n = 1
    <3>1. NextOp(l, 4) = 4 /\ 4 > Len(l)
      BY <2>1, NextOps
    <3> QED BY <3>1, Zenon DEF Turn
  <2>2. CASE n # 1
    <3>1. NextOp(l, 4) = 4 /\ ~ (4 > Len(l)) /\ 4 <= Len(l) /\ l[4] # "|" /\ l[4] # "<"
      BY <1>5, <2>2, NextOps
    <3>2. Redirects(l, 4)
      BY <3>1 DEF Redirects
    <3>3. Turn(l, 4) = Single(SubSeq(l, 4, 4 - 1), None, WordAt(l, 4 + 1), l[4] = ">>")
      BY <3>1, <3>2, Zenon DEF Turn
    <3>4. SubSeq(l, 4, 4 - 1) = << >>
      BY SubSeqEmpty
    <3>5. Turn(l, 4) = Single(<< >>, None, WordAt(l, 4 + 1), l[4] = ">>")
      BY <3>3, <3>4
    <3> QED BY <3>5, Zenon
  <2> QED BY <2>1, <2>2
<1>9. Plan(l) = Turn(l, 1) \o Turn(l, 4)
  <2>1. Plan(l) = Turn(l, 1) \o Turn(l, 2 + 2)
    BY <1>2, <1>6, Zenon DEF Plan, Jobs
  <2>2. 2 + 2 = 4
    OBVIOUS
  <2> QED BY <2>1, <2>2
<1>10. PICK i, o, a : /\ Turn(l, 1) = Single(<< l[1] >>, i, o, a) /\ (i = None \/ i \in DOMAIN Content)
                      /\ ~ Appends(l) => a = FALSE
  BY <1>7
<1> DEFINE J == [loop |-> FALSE, cmds |-> << << l[1] >> >>, in |-> i, out |-> o, append |-> a]
<1>11. Turn(l, 1) = << J >> /\ J.loop = FALSE /\ J.cmds = << << l[1] >> >> /\ J.in = i
       /\ J.append = a
  BY <1>10 DEF Single
<1>12. Plan(l) = << J >> \/ \E e : Plan(l) = << J, e >> /\ Idle(e)
  <2>1. CASE Turn(l, 4) = << >>
    <3> HIDE DEF J
    <3>1. << J >> \o << >> = << J >>
      OBVIOUS
    <3> QED BY <1>9, <1>11, <2>1, <3>1
  <2>2. ASSUME NEW p, NEW b, Turn(l, 4) = Single(<< >>, None, p, b)
        PROVE  \E e : Plan(l) = << J, e >> /\ Idle(e)
    <3> DEFINE E == [loop |-> FALSE, cmds |-> << << >> >>, in |-> None, out |-> p, append |-> b]
    <3>1. Turn(l, 4) = << E >> /\ Idle(E)
      BY <2>2 DEF Single, Idle
    <3> HIDE DEF J, E
    <3>2. << J >> \o << E >> = << J, E >>
      BY PairOf
    <3> QED BY <1>9, <1>11, <3>1, <3>2
  <2> QED BY <1>8, <2>1, <2>2
<1>13. (n = 1 /\ (In(l) <=> ~ Out(l))) \/ (n = 2 /\ In(l) /\ Out(l))
  BY <1>3, <1>5 DEF In, Out, Operators
<1> HIDE DEF J
<1> QED BY <1>3, <1>10, <1>11, <1>12, <1>13

\* The commands typed.
First(l) == IF In(l) THEN 2 ELSE 1
Final(l, n) == IF Out(l) THEN n - 1 ELSE n

LEMMA TypedLine ==
  ASSUME NEW l \in Lines, Regular(l), NEW n \in Nat, Len(l) = 2 * n + 1
  PROVE  /\ Len(Typed(l)) = Final(l, n) - First(l) + 2
         /\ Len(Typed(l)) \in Nat /\ Len(Typed(l)) > 0
         /\ Typed(l)[1] = l[1]
         /\ \A m \in First(l) .. Final(l, n) : Typed(l)[m - First(l) + 2] = l[2 * m + 1]
         /\ \A m \in 1 .. n : First(l) <= m /\ m <= Final(l, n) => l[2 * m + 1] \in Programs
         /\ l[1] \in Programs
<1> DEFINE S == {i \in DOMAIN l : i = 1 \/ l[i - 1] = "|"}
           a == First(l)
           z == Final(l, n)
           c == z - a + 2
           f == [j \in 1 .. c |-> IF j = 1 THEN 1 ELSE 2 * (j + a - 2) + 1]
<1>0. Shape(l, n)
  BY Places
<1>1. /\ DOMAIN l = 1 .. 2 * n + 1 /\ (In(l) <=> n > 0 /\ l[2] = "<")
      /\ (Out(l) <=> n > 0 /\ l[2 * n] \in {">", ">>"})
  BY <1>0 DEF In, Out, Shape
<1>2. \A m \in 1 .. n : l[2 * m] = "|" <=> a <= m /\ m <= z
  <2>1. \A m \in 1 .. n : l[2 * m] \in Operators /\ (l[2 * m] = "<" => m = 1)
                          /\ (l[2 * m] \in {">", ">>"} => m = n)
    BY <1>0 DEF Shape
  <2>2. n > 0 => 1 \in 1 .. n /\ n \in 1 .. n /\ 2 * 1 = 2
    OBVIOUS
  <2>3. ASSUME NEW m \in 1 .. n PROVE l[2 * m] = "|" <=> a <= m /\ m <= z
    <3>1. In(l) => l[2 * 1] = "<"
      BY <1>1
    <3>2. Out(l) => l[2 * n] \in {">", ">>"}
      BY <1>1
    <3>3. l[2 * m] = "<" => m = 1 /\ In(l)
      BY <1>1, <2>1
    <3>4. l[2 * m] \in {">", ">>"} => m = n /\ Out(l)
      BY <1>1, <2>1
    <3>5. l[2 * m] \in {"|", "<", ">", ">>"} /\ (m = 1 /\ In(l) => l[2 * m] = "<")
          /\ (m = n /\ Out(l) => l[2 * m] \in {">", ">>"})
      BY <2>1, <3>1, <3>2 DEF Operators
    <3>6. l[2 * m] = "|" <=> ~ (m = 1 /\ In(l)) /\ ~ (m = n /\ Out(l))
      BY <3>3, <3>4, <3>5
    <3>7. (m = 1 /\ In(l)) <=> ~ (a <= m)
      BY DEF First
    <3>8. (m = n /\ Out(l)) <=> ~ (m <= z)
      BY DEF Final
    <3> QED BY <3>6, <3>7, <3>8
  <2> QED BY <2>3
<1>3. /\ a \in Nat /\ a >= 1 /\ z \in Int /\ z <= n /\ z >= a - 1
      /\ c \in Nat /\ c >= 1
  <2>1. In(l) => n > 0
    BY <1>1
  <2>2. Out(l) => n > 0
    BY <1>1
  <2>3. In(l) /\ Out(l) => n > 1
    <3>1. n = 1 => ~ (In(l) /\ Out(l))
      BY <1>1
    <3> QED BY <2>1, <3>1
  <2> QED BY <2>1, <2>2, <2>3 DEF First, Final
<1>4. \A x : x \in S <=> \E j \in 1 .. c : x = f[j]
  <2> HIDE DEF a, z
  <2>1. ASSUME NEW x \in S PROVE \E j \in 1 .. c : x = f[j]
    <3>1. CASE x = 1
      <4>1. 1 \in 1 .. c /\ f[1] = 1
        BY <1>3
      <4> QED BY <3>1, <4>1
    <3>2. CASE x # 1
      <4>1. x \in 1 .. 2 * n + 1 /\ x - 1 \in 1 .. 2 * n + 1 /\ l[x - 1] = "|"
        BY <1>1, <3>2
      <4>2. PICK m \in 1 .. n : x - 1 = 2 * m
        <5>1. x - 1 \in From(l, 1, Operators)
          BY <4>1 DEF From, Operators
        <5> QED BY <5>1, <1>0 DEF Shape
      <4>3. a <= m /\ m <= z
        BY <1>2, <4>1, <4>2
      <4>4. m - a + 2 \in 1 .. c /\ m - a + 2 # 1 /\ 2 * ((m - a + 2) + a - 2) + 1 = x
        BY <1>3, <4>1, <4>2, <4>3
      <4>5. f[m - a + 2] = x
        BY <4>4
      <4> QED BY <4>4, <4>5
    <3> QED BY <3>1, <3>2
  <2>2. ASSUME NEW j \in 1 .. c PROVE f[j] \in S
    <3>1. CASE j = 1
      BY <1>1, <3>1
    <3>2. CASE j # 1
      <4>1. j + a - 2 \in 1 .. n /\ a <= j + a - 2 /\ j + a - 2 <= z
        BY <1>3, <3>2
      <4>2. l[2 * (j + a - 2)] = "|" /\ f[j] = 2 * (j + a - 2) + 1
        BY <1>2, <3>2, <4>1
      <4>3. f[j] - 1 = 2 * (j + a - 2) /\ f[j] \in 1 .. 2 * n + 1
        BY <4>1, <4>2
      <4> QED BY <1>1, <4>2, <4>3
    <3> QED BY <3>1, <3>2
  <2> QED BY <2>1, <2>2
<1>5. Cardinality(S) = c /\ \A j \in 1 .. c : Nth(S, j) = f[j]
  <2>1. f \in [1 .. c -> Int] /\ \A i, j \in 1 .. c : i < j => f[i] < f[j]
    <3> HIDE DEF a, z
    <3>1. \A j \in 1 .. c : f[j] = IF j = 1 THEN 1 ELSE 2 * (j + a - 2) + 1
      OBVIOUS
    <3> QED BY <1>3, <3>1
  <2>2. c \in Nat
    BY <1>3
  <2> HIDE DEF S, f, c
  <2>3. Lists(f, c, S)
    BY <1>4, <2>1 DEF Lists
  <2> QED BY <2>2, <2>3, NthOf
<1>6. Typed(l) = [j \in 1 .. c |-> l[f[j]]]
  BY <1>5 DEF Typed
<1>7. Len(Typed(l)) = c /\ \A j \in 1 .. c : Typed(l)[j] = l[f[j]]
  <2> HIDE DEF c, f
  <2> QED BY <1>3, <1>6
<1>8. Typed(l)[1] = l[1] /\ \A m \in a .. z : Typed(l)[m - a + 2] = l[2 * m + 1]
  <2> HIDE DEF a, z
  <2>1. 1 \in 1 .. c /\ f[1] = 1
    BY <1>3
  <2>2. ASSUME NEW m \in a .. z PROVE Typed(l)[m - a + 2] = l[2 * m + 1]
    <3>1. m - a + 2 \in 1 .. c /\ m - a + 2 # 1 /\ (m - a + 2) + a - 2 = m
      BY <1>3
    <3>2. f[m - a + 2] = 2 * m + 1
      BY <3>1
    <3> QED BY <1>7, <3>1, <3>2
  <2> QED BY <1>7, <2>1, <2>2
<1>9. \A m \in 1 .. n : a <= m /\ m <= z => l[2 * m + 1] \in Programs
  <2>1. \A m \in 1 .. n : m \in 0 .. n
    OBVIOUS
  <2> QED BY <1>2, <2>1, <1>0 DEF Shape
<1>10. l[1] \in Programs
  <2>1. 0 \in 0 .. n /\ 2 * 0 + 1 = 1
    OBVIOUS
  <2> QED BY <2>1, <1>0 DEF Shape
<1> QED BY <1>3, <1>7, <1>8, <1>9, <1>10

\* Of the stages of the job j, k does run a command: it is neither that of the
\* input file nor that of the output file.  Rank is how many run before it.
Runs(j, k) ==
  /\ k \in 0 .. Len(j.cmds) - 1
  /\ j.in # None => k # 1
  /\ j.out # None => k # Len(j.cmds) - 1

Rank(j, k) == IF j.in # None /\ k > 0 THEN k - 1 ELSE k

LEMMA Half ==
  ASSUME NEW l \in Lines, Regular(l)
  PROVE  \E n \in Nat : Len(l) = 2 * n + 1
<1>1. Len(l) \in Nat
  <2>1. l \in Seq(STRING)
    BY ShellAssumption
  <2> QED BY <2>1
<1>2. Len(l) % 2 = 1
  BY DEF Regular
<1> QED BY <1>1, <1>2, Odd

LEMMA LoopShape ==
  ASSUME NEW l \in Lines, Regular(l), NEW n \in Nat, Len(l) = 2 * n + 1, n > 0, ~ Redirects(l, 2)
  PROVE  \E j : /\ Plan(l) = << j >> /\ j.loop = TRUE /\ Len(j.cmds) = n + 1 /\ DOMAIN j.cmds = 1 .. n + 1
                /\ j.append = FALSE
                /\ j.in # None => n > 1 /\ j.in \in DOMAIN Content
                /\ Len(Typed(l)) = Rank(j, IF j.out # None THEN n ELSE n + 1)
                /\ \A k : Runs(j, k) =>
                     /\ Rank(j, k) + 1 \in 1 .. Len(Typed(l))
                     /\ j.cmds[k + 1] = << Typed(l)[Rank(j, k) + 1] >>
                     /\ Typed(l)[Rank(j, k) + 1] \in Programs
<1>0. Shape(l, n)
  BY Places
<1>1. PICK j : /\ Plan(l) = << j >> /\ j.loop = TRUE
               /\ Len(j.cmds) = n + 1 /\ DOMAIN j.cmds = 1 .. n + 1
               /\ \A k \in 0 .. n : j.cmds[k + 1] = << l[2 * k + 1] >>
               /\ j.in = IF In(l) THEN l[3] ELSE None
               /\ j.out = IF Out(l) THEN l[2 * n + 1] ELSE None
               /\ In(l) => n > 1
               /\ j.append = FALSE
  BY LoopPlan
<1>2. (j.in # None <=> In(l)) /\ (j.out # None <=> Out(l)) /\ (In(l) => l[3] \in DOMAIN Content)
  <2>1. 1 \in 0 .. n /\ n \in 0 .. n /\ 2 * 1 + 1 = 3
    OBVIOUS
  <2>2. l[2 * 1 + 1] # None /\ l[2 * n + 1] # None
    BY <2>1, <1>0 DEF Shape
  <2>3. In(l) => l[3] \in DOMAIN Content
    BY <1>0 DEF In, Shape
  <2> QED BY <1>1, <2>1, <2>2, <2>3
<1>3. Len(Typed(l)) = Rank(j, IF j.out # None THEN n ELSE n + 1)
  <2>1. Len(Typed(l)) = Final(l, n) - First(l) + 2
    BY TypedLine
  <2> QED BY <1>1, <1>2, <2>1 DEF Final, First, Rank
<1>4. ASSUME NEW k, Runs(j, k)
      PROVE  /\ Rank(j, k) + 1 \in 1 .. Len(Typed(l))
             /\ j.cmds[k + 1] = << Typed(l)[Rank(j, k) + 1] >>
             /\ Typed(l)[Rank(j, k) + 1] \in Programs
  <2>1. k \in 0 .. n /\ (In(l) => k # 1) /\ (Out(l) => k # n)
    BY <1>1, <1>2, <1>4 DEF Runs
  <2>2. j.cmds[k + 1] = << l[2 * k + 1] >>
    BY <1>1, <2>1
  <2>3. CASE k = 0
    <3>1. Rank(j, k) + 1 = 1 /\ 2 * k + 1 = 1
      BY <2>3 DEF Rank
    <3>2. Len(Typed(l)) \in Nat /\ Len(Typed(l)) > 0 /\ Typed(l)[1] = l[1] /\ l[1] \in Programs
      BY TypedLine
    <3> QED BY <2>2, <3>1, <3>2
  <2>4. CASE k # 0
    <3>1. First(l) <= k /\ k <= Final(l, n) /\ First(l) \in Int /\ Final(l, n) \in Int /\ k \in 1 .. n
      BY <2>1, <2>4 DEF First, Final
    <3>2. Rank(j, k) + 1 = k - First(l) + 2 /\ k \in First(l) .. Final(l, n)
      BY <1>2, <2>1, <2>4, <3>1 DEF Rank, First
    <3>3. Typed(l)[k - First(l) + 2] = l[2 * k + 1] /\ l[2 * k + 1] \in Programs
      BY <3>1, <3>2, TypedLine
    <3>4. Len(Typed(l)) = Final(l, n) - First(l) + 2
      BY TypedLine
    <3>5. k - First(l) + 2 \in 1 .. Final(l, n) - First(l) + 2
      BY <3>1
    <3> QED BY <2>2, <3>2, <3>3, <3>4, <3>5
  <2> QED BY <2>3, <2>4
<1> QED BY <1>1, <1>2, <1>3, <1>4

LEMMA AloneShape ==
  ASSUME NEW l \in Lines, Regular(l), NEW n \in Nat, Len(l) = 2 * n + 1, n = 0 \/ Redirects(l, 2)
  PROVE  \E j : /\ j.loop = FALSE /\ j.cmds = << << Typed(l)[1] >> >>
                /\ Len(Typed(l)) = 1 /\ Typed(l)[1] \in Programs
                /\ j.in = None \/ j.in \in DOMAIN Content
                /\ ~ Appends(l) => j.append = FALSE
                /\ Plan(l) = << j >> \/ (~ Simple(l) /\ \E e : Plan(l) = << j, e >> /\ Idle(e))
                /\ Fits(l)
<1>1. Len(Typed(l)) = Final(l, n) - First(l) + 2 /\ Typed(l)[1] = l[1]
  BY TypedLine
<1>2. CASE n = 0
  <2>1. Plan(l) = Single(l, None, None, FALSE) /\ l = << l[1] >> /\ l[1] \in Programs
    <3>1. Len(l) = 1
      BY <1>2
    <3> QED BY <3>1, SimplePlan
  <2> DEFINE j == [loop |-> FALSE, cmds |-> << l >>, in |-> None, out |-> None, append |-> FALSE]
  <2>2. Plan(l) = << j >> /\ j.loop = FALSE /\ j.cmds = << l >> /\ j.in = None /\ j.append = FALSE
    BY <2>1 DEF Single
  <2>3. Len(Typed(l)) = 1
    BY <1>1, <1>2 DEF Final, First, In, Out
  <2> HIDE DEF j
  <2>4. Fits(l)
    BY <2>2 DEF Fits, Pipes
  <2> QED BY <1>1, <2>1, <2>2, <2>3, <2>4
<1>3. CASE n # 0
  <2>1. PICK j : /\ j.loop = FALSE /\ j.cmds = << << l[1] >> >> /\ l[1] \in Programs
                 /\ j.in = None \/ j.in \in DOMAIN Content
                 /\ ~ Appends(l) => j.append = FALSE
                 /\ Plan(l) = << j >> \/ \E e : Plan(l) = << j, e >> /\ Idle(e)
                 /\ (n = 1 /\ (In(l) <=> ~ Out(l))) \/ (n = 2 /\ In(l) /\ Out(l))
    <3>1. n > 0 /\ Redirects(l, 2)
      BY <1>3
    <3> QED BY <3>1, RedirectPlan
  <2>2. Len(Typed(l)) = 1
    BY <1>1, <2>1 DEF Final, First
  <2>3. ~ Simple(l)
    BY <1>3, Recorded
  <2>4. Fits(l)
    <3>1. \A b \in DOMAIN Plan(l) : ~ Plan(l)[b].loop
      <4>1. CASE Plan(l) = << j >>
        BY <2>1, <4>1
      <4>2. ASSUME NEW e, Plan(l) = << j, e >>, Idle(e) PROVE \A b \in DOMAIN Plan(l) : ~ Plan(l)[b].loop
        <5>1. DOMAIN << j, e >> = 1 .. 2 /\ << j, e >>[1] = j /\ << j, e >>[2] = e
          OBVIOUS
        <5>2. \A b \in 1 .. 2 : b = 1 \/ b = 2
          OBVIOUS
        <5> QED BY <2>1, <4>2, <5>1, <5>2 DEF Idle
      <4> QED BY <2>1, <4>1, <4>2
    <3> QED BY <3>1 DEF Fits, Pipes
  <2> QED BY <1>1, <2>1, <2>2, <2>3, <2>4
<1> QED BY <1>2, <1>3

-----------------------------------------------------------------------------
(***************************************************************************)
(* The run of a regular line that nothing disturbs.                        *)
(***************************************************************************)
LastStage == Len(job.cmds) - 1

LEMMA LoopJob ==
  ASSUME Numbers, Regular(line), plan = Plan(line), job.loop
  PROVE  /\ plan # << >> /\ Tail(plan) = << >> /\ ~ Simple(line) /\ line \in Lines
         /\ LastStage \in Nat /\ LastStage > 0 /\ 0 .. LastStage \subseteq Stages
         /\ job.append = FALSE
         /\ job.in # None => LastStage > 1 /\ job.in \in DOMAIN Content
         /\ Len(Typed(line)) = Rank(job, IF job.out # None THEN LastStage ELSE LastStage + 1)
         /\ \A k : NotNull(k) <=> k < LastStage + 1
         /\ \A k : Runs(job, k) =>
              /\ Rank(job, k) + 1 \in 1 .. Len(Typed(line))
              /\ WordAt(Command(k), 1) = Command(k)[1]
              /\ Command(k)[1] = Typed(line)[Rank(job, k) + 1]
              /\ Command(k)[1] \in Programs
         /\ (\A k : Runs(job, k) /\ Pipes(job, k + 1) => Size[Command(k)[1]] <= PIPE) => Fits(line)
<1>1. line \in Lines /\ line \in Seq(STRING)
  <2>1. ~ Regular(<< >>)
    BY DEF Regular
  <2> QED BY <2>1, LineType DEF Numbers
<1>2. PICK n \in Nat : Len(line) = 2 * n + 1
  BY <1>1, Half
<1>3. ~ (n = 0 \/ Redirects(line, 2))
  <2> SUFFICES ASSUME n = 0 \/ Redirects(line, 2) PROVE FALSE
    OBVIOUS
  <2>1. PICK j : j.loop = FALSE /\ (Plan(line) = << j >> \/ \E e : Plan(line) = << j, e >>)
    BY <1>1, <1>2, AloneShape
  <2>2. \A e : Head(<< j >>) = j /\ Head(<< j, e >>) = j
    OBVIOUS
  <2> QED BY <2>1, <2>2 DEF job
<1>4. PICK j : /\ Plan(line) = << j >> /\ j.loop = TRUE /\ Len(j.cmds) = n + 1 /\ DOMAIN j.cmds = 1 .. n + 1
               /\ j.append = FALSE
               /\ j.in # None => n > 1 /\ j.in \in DOMAIN Content
               /\ Len(Typed(line)) = Rank(j, IF j.out # None THEN n ELSE n + 1)
               /\ \A k : Runs(j, k) =>
                    /\ Rank(j, k) + 1 \in 1 .. Len(Typed(line))
                    /\ j.cmds[k + 1] = << Typed(line)[Rank(j, k) + 1] >>
                    /\ Typed(line)[Rank(j, k) + 1] \in Programs
  <2>1. n > 0 /\ ~ Redirects(line, 2)
    BY <1>3
  <2> QED BY <1>1, <1>2, <2>1, LoopShape
<1>5. job = j /\ plan # << >> /\ Tail(plan) = << >> /\ DOMAIN << j >> = 1 .. 1 /\ << j >>[1] = j
  BY <1>4 DEF job
<1>6. LastStage = n /\ n > 0 /\ \A k : NotNull(k) <=> k < LastStage + 1
  BY <1>3, <1>4, <1>5 DEF LastStage, NotNull, pipe_commands
<1>7. ~ Simple(line)
  <2>1. Simple(line) <=> n = 0
    BY <1>1, <1>2, Recorded
  <2> QED BY <1>6, <2>1
<1>8. 0 .. LastStage \subseteq Stages
  <2>1. 0 .. n \subseteq 0 .. Len(line)
    BY <1>2
  <2> QED BY <1>1, <1>6, <2>1 DEF Stages
<1>9. \A w : << w >>[1] = w /\ WordAt(<< w >>, 1) = w
  BY DEF WordAt
<1>10. ASSUME \A k : Runs(job, k) /\ Pipes(job, k + 1) => Size[Command(k)[1]] <= PIPE
       PROVE  Fits(line)
  <2> SUFFICES ASSUME NEW b \in DOMAIN Plan(line), NEW i \in DOMAIN Plan(line)[b].cmds,
                      Pipes(Plan(line)[b], i)
               PROVE  Size[Plan(line)[b].cmds[i][1]] <= PIPE
    BY DEF Fits
  <2>1. b = 1 /\ Plan(line)[b] = j /\ i \in 1 .. n + 1
    BY <1>4, <1>5
  <2>2. (i - 1) + 1 = i /\ i - 1 \in 0 .. n
    BY <2>1
  <2>3. Runs(job, i - 1)
    BY <1>4, <1>5, <2>1, <2>2 DEF Runs, Pipes
  <2>4. Pipes(job, (i - 1) + 1)
    BY <1>5, <2>1, <2>2
  <2>5. Size[Command(i - 1)[1]] <= PIPE
    BY <1>10, <2>3, <2>4
  <2> QED BY <1>5, <2>1, <2>2, <2>5 DEF Command, pipe_commands
<1>11. ASSUME NEW k, Runs(job, k)
       PROVE  /\ Rank(job, k) + 1 \in 1 .. Len(Typed(line))
              /\ WordAt(Command(k), 1) = Command(k)[1]
              /\ Command(k)[1] = Typed(line)[Rank(job, k) + 1]
              /\ Command(k)[1] \in Programs
  <2>1. Command(k) = << Typed(line)[Rank(job, k) + 1] >> /\ Typed(line)[Rank(job, k) + 1] \in Programs
        /\ Rank(job, k) + 1 \in 1 .. Len(Typed(line))
    BY <1>4, <1>5, <1>11 DEF Command, pipe_commands
  <2> QED BY <1>9, <2>1
<1> QED BY <1>1, <1>4, <1>5, <1>6, <1>7, <1>8, <1>10, <1>11

LEMMA AloneJob ==
  ASSUME Numbers, Regular(line), plan = Plan(line), ~ job.loop
  PROVE  /\ plan # << >>
         /\ Tail(plan) = << >> \/ (~ Simple(line) /\ \E e : Tail(plan) = << e >> /\ Idle(e))
         /\ Len(Typed(line)) = 1 /\ Fits(line)
         /\ WordAt(Command(0), 1) = Typed(line)[1] /\ Command(0)[1] = Typed(line)[1]
         /\ Typed(line)[1] \in Programs
         /\ job.in = None \/ job.in \in DOMAIN Content
         /\ ~ Appends(line) => job.append = FALSE
<1>1. line \in Lines /\ line \in Seq(STRING)
  <2>1. ~ Regular(<< >>)
    BY DEF Regular
  <2> QED BY <2>1, LineType DEF Numbers
<1>2. PICK n \in Nat : Len(line) = 2 * n + 1
  BY <1>1, Half
<1>3. n = 0 \/ Redirects(line, 2)
  <2> SUFFICES ASSUME ~ (n = 0 \/ Redirects(line, 2)) PROVE FALSE
    OBVIOUS
  <2>1. n > 0 /\ ~ Redirects(line, 2)
    OBVIOUS
  <2>2. PICK j : j.loop = TRUE /\ Plan(line) = << j >>
    BY <1>1, <1>2, <2>1, LoopShape
  <2>3. Head(<< j >>) = j
    OBVIOUS
  <2> QED BY <2>2, <2>3 DEF job
<1>4. PICK j : /\ j.loop = FALSE /\ j.cmds = << << Typed(line)[1] >> >>
               /\ Len(Typed(line)) = 1 /\ Typed(line)[1] \in Programs
               /\ j.in = None \/ j.in \in DOMAIN Content
               /\ ~ Appends(line) => j.append = FALSE
               /\ Plan(line) = << j >> \/ (~ Simple(line) /\ \E e : Plan(line) = << j, e >> /\ Idle(e))
               /\ Fits(line)
  BY <1>1, <1>2, <1>3, AloneShape
<1>5. \A e : /\ Head(<< j >>) = j /\ Tail(<< j >>) = << >> /\ << j >> # << >>
             /\ Head(<< j, e >>) = j /\ Tail(<< j, e >>) = << e >> /\ << j, e >> # << >>
  OBVIOUS
<1>6. job = j
  BY <1>4, <1>5 DEF job
<1>7. \A w : << << w >> >>[0 + 1] = << w >> /\ << w >>[1] = w /\ WordAt(<< w >>, 1) = w
  BY DEF WordAt
<1>8. Command(0) = << Typed(line)[1] >>
  BY <1>4, <1>6, <1>7 DEF Command, pipe_commands
<1>9. plan # << >> /\ (Tail(plan) = << >> \/ (~ Simple(line) /\ \E e : Tail(plan) = << e >> /\ Idle(e)))
  <2>1. CASE plan = << j >>
    BY <1>5, <2>1
  <2>2. ASSUME NEW e, plan = << j, e >>, Idle(e), ~ Simple(line)
        PROVE  plan # << >> /\ Tail(plan) = << e >>
    BY <1>5, <2>2
  <2> QED BY <1>4, <2>1, <2>2
<1> QED BY <1>4, <1>6, <1>7, <1>8, <1>9

\* The first m commands of the line have been started.
Done(m) ==
  /\ Len(ran) = m /\ m <= Len(Typed(line))
  /\ \A i \in 1 .. m : ran[i] = Typed(line)[i]

\* The line has been read.
Fresh == pc["shell"] = "next" /\ plan = Plan(line) /\ Done(0)

\* Its one command is started by the shell, or by a job.
Alone ==
  /\ pc["shell"] = "wait" /\ plan = Plan(line) /\ plan # << >> /\ ~ job.loop
  /\ pc["job"] # "loop" /\ pc["stage"] = "none"
  /\ Simple(line) => pc["job"] = "none"
  /\ Running => in["prog"][1] # "pipe"
  /\ Done(IF pc["job"] \in {"open", "run"} THEN 0 ELSE 1)

\* Where the stage that comes before k is.
Before(k) == IF job.in # None /\ k = 2 THEN 0 ELSE k - 1

\* The current stage has not started its command; or that has ended.
Waiting == pc["job"] = "loop" \/ pc["stage"] \in {"wire", "run"}
Ended(k) == Runs(job, k) /\ (k < num \/ (k = num /\ ~ Waiting /\ ~ Running))

InLoop ==
  /\ pc["job"] \in {"loop", "wait", "zombie", "none"}
  /\ num \in 0 .. LastStage + 1
  /\ pc["job"] = "wait" => num <= LastStage
  /\ pc["job"] \in {"zombie", "none"} => num = LastStage + 1
  /\ pc["stage"] \in {"wire", "run", "wait", "exit", "zombie", "none"}
  /\ pc["stage"] \in {"run", "wait"} => Runs(job, num)
  /\ Running => pc["stage"] = "wait" /\ pc["job"] = "wait"
  /\ job.in # None => num # 1
  /\ fd_backup = IF num > 0 THEN Pipe(Before(num)) ELSE IF job.in = None THEN Tty ELSE NoFd

InStage ==
  /\ pc["stage"] = "run" => in["stage"] = StageInput /\ out["stage"] = StageOutput
  /\ Running => in["prog"] = StageInput /\ out["prog"] = StageOutput

Sent ==
  /\ \A k \in 0 .. LastStage :
       /\ Ended(k) => wrote[k] = Size[Command(k)[1]]
       /\ Ended(k) /\ Pipes(job, k + 1) => wrote[k] <= PIPE
       /\ k > num \/ (k = num /\ Waiting) => wrote[k] = 0
       /\ k >= num => took[k] = 0
  /\ Running /\ Pipes(job, num + 1) => wrote[num] <= PIPE
  /\ pc["prog"] = "write" /\ Last(ran) \in Reads /\ num > 0 =>
       took[Before(num)] = wrote[Before(num)]

Sofar == IF num > LastStage THEN Len(Typed(line))
         ELSE IF Waiting \/ ~ Runs(job, num) THEN Rank(job, num) ELSE Rank(job, num) + 1

Looping ==
  /\ pc["shell"] = "wait" /\ plan = Plan(line) /\ plan # << >> /\ job.loop
  /\ InLoop /\ InStage /\ Sent /\ Done(Sofar)

\* What is left of the line runs nothing.
Later ==
  /\ plan = << >> \/ (Len(plan) = 1 /\ plan = << Head(plan) >> /\ Idle(Head(plan)) /\ ~ Simple(line))
  /\ pc["shell"] = "prompt" => plan = << >>
  /\ pc["shell"] = "wait" => plan # << >>
  /\ pc["job"] \in {"none", "open", "run", "zombie"} /\ pc["stage"] = "none" /\ ~ Running
  /\ Done(Len(Typed(line))) /\ Fits(line)

LineInv ==
  Regular(line) /\ Undisturbed =>
    /\ pc["shell"] \in {"prompt", "next", "wait"}
    /\ Fresh \/ Alone \/ Looping \/ Later

LEMMA NoneBelow ==
  ASSUME TreeInv, pc["shell"] # "dead", NEW p \in {"shell", "job", "stage"}, Waits(p)
  PROVE  /\ ~ Running /\ pc["prog"] \in {"none", "zombie"}
         /\ p = "job" => pc["stage"] \in {"none", "zombie"}
         /\ p = "shell" => pc["job"] \in {"none", "zombie"} /\ pc["stage"] = "none"
<1> USE DEF TreeInv, Table, Tree, Below, Procs, None, Waits, Zombie, Running
<1>1. \A q \in Procs : kid[q] # None => pc[q] = "wait"
  OBVIOUS
<1>2. \A q \in Procs \ {"shell"} : pc[q] # "none" => \E r \in Procs : kid[r] = q
  OBVIOUS
<1>3. pc[p] = "wait" /\ (kid[p] = None \/ pc[kid[p]] = "zombie")
  OBVIOUS
<1>4. CASE p = "shell"
  BY <1>1, <1>2, <1>3, <1>4
<1>5. CASE p = "job"
  BY <1>1, <1>2, <1>3, <1>5
<1>6. CASE p = "stage"
  BY <1>1, <1>2, <1>3, <1>6
<1> QED BY <1>4, <1>5, <1>6

\* A process that has ended is taken, or one that has nothing left to do ends.
LEMMA Calm ==
  ASSUME Table, LineInv, UNCHANGED << line, plan, ran, num, fd_backup, wrote, took, in, out >>,
         Undisturbed' => Undisturbed,
         pc'["shell"] = pc["shell"], pc'["prog"] = pc["prog"] \/ (~ Running /\ ~ Running'),
         \A p \in {"job", "stage"} :
           pc'[p] = pc[p] \/ (pc[p] \in {"exit", "zombie"} /\ pc'[p] \in {"zombie", "none"})
  PROVE  LineInv'
<1> SUFFICES ASSUME Regular(line), Undisturbed
             PROVE  Fresh' \/ Alone' \/ Looping' \/ Later'
  BY DEF LineInv
<1>1. job' = job /\ LastStage' = LastStage /\ (Waiting' <=> Waiting) /\ (Running' <=> Running)
  BY DEF job, LastStage, Waiting, Running
<1>2. \A m : Done(m)' <=> Done(m)
  BY DEF Done
<1>3. CASE Fresh
  BY <1>2, <1>3 DEF Fresh
<1>4. CASE Alone
  BY <1>1, <1>2, <1>4 DEF Alone, Running
<1>5. CASE Looping
  <2>1. InLoop'
    BY <1>1, <1>5 DEF Looping, InLoop, Before
  <2>2. InStage'
    BY <1>1, <1>5 DEF Looping, InStage, StageInput, StageOutput, ToFile, NotNull, pipe_commands, Input
  <2>3. Sent'
    BY <1>1, <1>5 DEF Looping, Sent, Ended, Before, Command, pipe_commands, Running
  <2>4. Sofar' = Sofar
    BY <1>1 DEF Sofar
  <2> QED BY <1>1, <1>2, <1>5, <2>1, <2>2, <2>3, <2>4 DEF Looping
<1>6. CASE Later
  <2>1. Done(Len(Typed(line)))' /\ Fits(line)'
    BY <1>6 DEF Later, Done
  <2>2. /\ plan' = plan /\ pc'["job"] \in {"none", "open", "run", "zombie"} /\ pc'["stage"] = "none"
        /\ (Simple(line)' <=> Simple(line)) /\ (Idle(Head(plan))' <=> Idle(Head(plan)))
    BY <1>6 DEF Later
  <2> QED BY <1>1, <1>6, <2>1, <2>2 DEF Later
<1> QED BY <1>3, <1>4, <1>5, <1>6 DEF LineInv

\* Only a stage, and what it starts, reads from a pipe.
NoPipe == in["shell"][1] # "pipe" /\ in["job"][1] # "pipe"

LEMMA NextNoPipe == Opened /\ NoPipe /\ [Next]_vars => NoPipe'
<1> SUFFICES ASSUME Opened, NoPipe, [Next]_vars PROVE NoPipe'
  OBVIOUS
<1> USE DEF Opened, Procs
<1>1. ASSUME UNCHANGED << in["shell"], in["job"] >> PROVE NoPipe'
  BY <1>1 DEF NoPipe
<1>2. ASSUME NEW p \in {"shell", "job", "stage"}, NEW q \in {"stage", "prog"}, NEW l, NEW held,
             Fork(p, q, l, held)
      PROVE  NoPipe'
  BY <1>1, <1>2 DEF Fork
<1>3. ASSUME NEW p \in {"shell", "job", "stage"}, NEW argv, execution(p, argv) PROVE NoPipe'
  BY <1>1, <1>2, <1>3 DEF execution, Exit, ForkFails, Return, descr
<1>4. CASE \E l \in Lines : Type(l)
  BY <1>1, <1>4 DEF Type, descr
<1>5. CASE Shell
  <2>1. CASE Prompt \/ WaitJob
    BY <1>1, <2>1 DEF Prompt, WaitJob, Reaped, descr
  <2>2. CASE ForkJob
    <3>1. CASE Fork("shell", "job", IF job.loop THEN "loop" ELSE "open", {})
      BY <3>1 DEF Fork, NoPipe
    <3> QED BY <1>1, <1>3, <2>2, <3>1 DEF ForkJob, ForkFails, descr
  <2> QED BY <1>5, <2>1, <2>2 DEF Shell
<1>6. CASE Job
  <2>1. CASE WaitStage \/ WaitProgram("job") \/ JobEnds
    BY <1>1, <2>1 DEF WaitStage, WaitProgram, JobEnds, Reaped, Exit
  <2>2. CASE ForkStage
    BY <1>1, <1>2, <2>2 DEF ForkStage
  <2>3. CASE Open
    <3>1. CASE Exit("job")
      BY <1>1, <3>1 DEF Exit
    <3>2. CASE in' = [in EXCEPT !["job"] = Input(job.in)]
      BY <3>2 DEF NoPipe, Input, Tty
    <3> QED BY <2>3, <3>1, <3>2 DEF Open
  <2> QED BY <1>3, <1>6, <2>1, <2>2, <2>3 DEF Job
<1>7. CASE Stage
  <2>1. CASE WaitProgram("stage") \/ StageEnds
    BY <1>1, <2>1 DEF WaitProgram, StageEnds, Reaped, Exit
  <2>2. CASE Wire
    <3>1. in' = in \/ in' = [in EXCEPT !["stage"] = StageInput]
      BY <2>2 DEF Wire, Exit
    <3> QED BY <1>1, <3>1
  <2> QED BY <1>3, <1>7, <2>1, <2>2 DEF Stage
<1>8. CASE Program
  BY <1>1, <1>8 DEF Program, Read, ReadEnd, ReadTty, Write, ProgramEnds, Exit, descr
<1>9. CASE UNCHANGED vars \/ \E p \in Procs : sigchld_handler(p)
  BY <1>1, <1>9 DEF vars, descr, sigchld_handler, Reap, KillAll
<1> QED BY <1>4, <1>5, <1>6, <1>7, <1>8, <1>9 DEF Next

\* What the proofs below start from.
Base == TreeInv /\ DataInv /\ NoPipe /\ fails \in Nat

LEMMA NextFails == fails \in Nat /\ [Next]_vars => fails' \in Nat
<1> SUFFICES ASSUME fails \in Nat, [Next]_vars PROVE fails' \in Nat
  OBVIOUS
<1> USE DEF vars
<1>1. CASE \E l \in Lines : Type(l)
  BY <1>1 DEF Type
<1>2. ASSUME NEW p, NEW argv, execution(p, argv) PROVE fails' \in Nat
  BY <1>2 DEF execution, Fork, ForkFails
<1>3. CASE Shell
  BY <1>2, <1>3 DEF Shell, Prompt, ForkJob, Fork, ForkFails, WaitJob
<1>4. CASE Job
  BY <1>2, <1>4 DEF Job, Open, ForkStage, Fork, WaitStage, WaitProgram, JobEnds
<1>5. CASE Stage
  BY <1>2, <1>5 DEF Stage, Wire, WaitProgram, StageEnds
<1>6. CASE Program
  BY <1>6 DEF Program, Read, ReadEnd, ReadTty, Write, ProgramEnds
<1>7. CASE UNCHANGED vars \/ \E p \in Procs : sigchld_handler(p)
  BY <1>7 DEF sigchld_handler
<1> QED BY <1>1, <1>3, <1>4, <1>5, <1>6, <1>7 DEF Next

LEMMA HandlerLine ==
  ASSUME Base, LineInv, NEW p \in Procs, sigchld_handler(p)
  PROVE  LineInv'
<1> SUFFICES ASSUME Undisturbed' PROVE LineInv'
  BY DEF LineInv
<1>1. UNCHANGED << line, plan, ran, num, fd_backup, wrote, took, in, out >> /\ fails' = fails
  BY DEF sigchld_handler, text, loop, data, Reap, KillAll, descr
<1>2. CASE Zombie(p) /\ Reap(p)
  <2>1. /\ pc[kid[p]] = "zombie" /\ kid[p] \in Procs \ {"shell"} /\ killed' = killed
        /\ pc' = [pc EXCEPT ![kid[p]] = "none"]
    BY <1>2, NoneIsNoProc, BelowIsProc DEF Zombie, Reap, Base, TreeInv, Table
  <2>2. pc \in [Procs -> Label]
    BY DEF Base, TreeInv, Table
  <2>3. /\ pc'["shell"] = pc["shell"] /\ (pc'["prog"] = pc["prog"] \/ (~ Running /\ ~ Running'))
        /\ \A q \in {"job", "stage"} : pc'[q] = pc[q] \/ (pc[q] = "zombie" /\ pc'[q] = "none")
    BY <2>1, <2>2 DEF Procs, Running
  <2> QED BY <1>1, <2>1, <2>3, Calm DEF Undisturbed, Base, TreeInv
<1>3. CASE UNCHANGED << pc, killed >>
  BY <1>1, <1>3, Calm DEF Undisturbed, Base, TreeInv
<1> QED BY <1>2, <1>3 DEF sigchld_handler, KillAll, Undisturbed

LEMMA LaterEnds ==
  ASSUME LineInv, Regular(line), Undisturbed, pc["shell"] = "next", plan = << >>, Numbers
  PROVE  Later
<1>1. ~ Fresh
  BY LoopJob, AloneJob DEF Fresh
<1> QED BY <1>1 DEF LineInv, Alone, Looping

LEMMA TypeLine ==
  ASSUME Base, LineInv, NEW l \in Lines, Type(l)
  PROVE  LineInv'
<1>1. pc'["shell"] = "next" /\ plan' = Plan(line') /\ ran' = << >>
  BY DEF Type, At, Goto, Base, TreeInv, Table, Procs
<1>2. Regular(line') => Len(Typed(line')) >= 0
  <2> SUFFICES ASSUME Regular(l) PROVE Len(Typed(l)) >= 0
    BY DEF Type
  <2>1. PICK n \in Nat : Len(l) = 2 * n + 1
    BY Half
  <2> QED BY <2>1, TypedLine
<1>3. Regular(line') => Done(0)'
  BY <1>1, <1>2 DEF Done
<1> QED BY <1>1, <1>3 DEF LineInv, Fresh

LEMMA PromptLine ==
  ASSUME Base, LineInv, Prompt
  PROVE  LineInv'
<1> SUFFICES ASSUME Regular(line), Undisturbed PROVE LineInv'
  BY DEF LineInv, Prompt, Undisturbed, text
<1>1. /\ Later /\ UNCHANGED << line, plan, ran >> /\ pc'["shell"] = "prompt" /\ plan = << >>
      /\ \A p \in Procs \ {"shell"} : pc'[p] = pc[p]
  BY LaterEnds DEF Prompt, At, Goto, text, Base, DataInv, TreeInv, Table, Procs
<1>2. Later'
  <2>1. Done(Len(Typed(line)))' /\ Fits(line)'
    BY <1>1 DEF Later, Done
  <2> QED BY <1>1, <2>1 DEF Later, Running, Procs
<1> QED BY <1>1, <1>2 DEF LineInv

-----------------------------------------------------------------------------
(***************************************************************************)
(* Starting the commands.                                                  *)
(***************************************************************************)
Phase == Fresh \/ Alone \/ Looping \/ Later

\* A program is started when its name is the first word and no fork() fails.
LEMMA Executes ==
  ASSUME NEW p, NEW argv, execution(p, argv), fails = 0, fails' = 0,
         WordAt(argv, 1) = argv[1], argv[1] \in Programs
  PROVE  /\ Fork(p, "prog", IF argv[1] \in Reads THEN "read" ELSE "write", ends[p])
         /\ ran' = Append(ran, argv[1]) /\ UNCHANGED plan
<1>1. ~ Ends(argv)
  BY ShellAssumption DEF Ends
<1> QED BY <1>1 DEF execution, ForkFails

LEMMA DoneMore ==
  ASSUME ran \in Seq(Programs), NEW m, Done(m), m + 1 <= Len(Typed(line)),
         Typed(line)[m + 1] \in Programs,
         ran' = Append(ran, Typed(line)[m + 1]), line' = line
  PROVE  Done(m + 1)'
<1>1. m \in Nat /\ Len(ran) = m
  BY DEF Done
<1>2. Len(ran') = m + 1 /\ ran'[m + 1] = Typed(line)[m + 1] /\ \A i \in 1 .. m : ran'[i] = ran[i]
  BY <1>1
<1>3. \A i \in 1 .. m + 1 : i = m + 1 \/ i \in 1 .. m
  BY <1>1
<1> QED BY <1>1, <1>2, <1>3 DEF Done

LEMMA ForkJobLine ==
  ASSUME Base, LineInv, Regular(line), Undisturbed, Undisturbed', ForkJob
  PROVE  line' = line /\ pc'["shell"] = "wait" /\ Phase'
<1> USE DEF Base, DataInv, Undisturbed
<1>1. /\ line' = line /\ pc["shell"] = "next" /\ plan # << >> /\ pc \in [Procs -> Label]
      /\ \A p \in Procs \ {"shell"} : pc[p] = "none"
  BY QuietShell DEF ForkJob, At, TreeInv, Table, text
<1>2. CASE Fresh /\ ~ job.loop /\ Simple(line)
  <2>1. execution("shell", Command(0))
    BY <1>2 DEF ForkJob
  <2>2. /\ WordAt(Command(0), 1) = Command(0)[1] /\ Command(0)[1] = Typed(line)[1]
        /\ Typed(line)[1] \in Programs /\ Len(Typed(line)) = 1
    BY <1>2, AloneJob DEF Fresh
  <2>3. /\ Fork("shell", "prog", IF Command(0)[1] \in Reads THEN "read" ELSE "write", ends["shell"])
        /\ ran' = Append(ran, Typed(line)[0 + 1]) /\ UNCHANGED plan
    BY <2>1, <2>2, Executes
  <2>4. Done(0 + 1)'
    BY <1>1, <1>2, <2>2, <2>3, DoneMore DEF Fresh, Started
  <2>5. /\ pc'["shell"] = "wait" /\ pc'["job"] = "none" /\ pc'["stage"] = "none"
        /\ in'["prog"] = in["shell"]
    BY <1>1, <2>3 DEF Fork, Procs, Opened
  <2>6. job' = job
    BY <2>3 DEF job
  <2> QED BY <1>1, <1>2, <2>3, <2>4, <2>5, <2>6 DEF Alone, Fresh, NoPipe, Phase
<1>3. CASE ~ Simple(line)
  <2>1. /\ Fork("shell", "job", IF job.loop THEN "loop" ELSE "open", {})
        /\ num' = 0 /\ fd_backup' = (IF job.in = None THEN Tty ELSE NoFd) /\ NoData
        /\ UNCHANGED << plan, ran >>
    BY <1>3 DEF ForkJob, ForkFails, text
  <2>2. /\ pc'["shell"] = "wait" /\ pc'["job"] = (IF job.loop THEN "loop" ELSE "open")
        /\ pc'["stage"] = "none" /\ pc'["prog"] = "none"
    BY <1>1, <2>1 DEF Fork, Procs
  <2>3. job' = job /\ LastStage' = LastStage /\ \A m : Done(m)' <=> Done(m)
    BY <1>1, <2>1 DEF job, LastStage, Done
  <2>4. CASE Fresh /\ ~ job.loop
    BY <1>1, <1>3, <2>1, <2>2, <2>3, <2>4 DEF Fresh, Alone, Running, Phase
  <2>5. CASE Fresh /\ job.loop
    <3>1. LastStage \in Nat /\ LastStage > 0 /\ 0 .. LastStage \subseteq Stages
      BY <2>5, LoopJob DEF Fresh
    <3>2. Waiting' /\ ~ Running'
      BY <2>2, <2>5 DEF Waiting, Running
    <3>3. InLoop'
      BY <2>1, <2>2, <2>3, <2>5, <3>1, <3>2 DEF InLoop
    <3>4. InStage'
      BY <2>2, <3>2 DEF InStage
    <3>5. Sent'
      <4>1. \A k \in 0 .. LastStage : ~ Ended(k)' /\ wrote'[k] = 0 /\ took'[k] = 0
        BY <2>1, <3>1, <3>2 DEF Ended, NoData
      <4> QED BY <2>1, <2>2, <2>3, <3>2, <4>1 DEF Sent
    <3>6. Sofar' = 0
      BY <2>1, <2>3, <3>1, <3>2 DEF Sofar, Rank
    <3> QED BY <1>1, <2>1, <2>2, <2>3, <2>5, <3>3, <3>4, <3>5, <3>6 DEF Fresh, Looping, Phase
  <2>6. CASE Later
    <3>1. pc'["job"] = "open"
      BY <1>1, <2>2, <2>6 DEF Later, Idle, job
    <3>2. Done(Len(Typed(line)))' /\ Fits(line)' /\ (Simple(line)' <=> Simple(line))
      BY <1>1, <2>1, <2>6 DEF Later, Done
    <3>3. ~ Running' /\ (Idle(Head(plan))' <=> Idle(Head(plan)))
      BY <2>1, <2>2 DEF Running
    <3> QED BY <1>1, <2>1, <2>2, <2>6, <3>1, <3>2, <3>3 DEF Later, Phase
  <2> QED BY <1>1, <2>2, <2>4, <2>5, <2>6 DEF LineInv, Alone, Looping
<1>4. CASE Simple(line)
  <2>1. Fresh
    BY <1>1, <1>4 DEF LineInv, Alone, Looping, Later
  <2>2. ~ job.loop
    BY <1>4, <2>1, LoopJob DEF Fresh
  <2> QED BY <1>2, <1>4, <2>1, <2>2
<1> QED BY <1>3, <1>4

LEMMA AllSent ==
  ASSUME Base, Regular(line), Looping, num = LastStage + 1, ~ Waiting, ~ Running
  PROVE  Fits(line) /\ Done(Len(Typed(line)))
<1> USE DEF Base, DataInv
<1>1. LastStage \in Nat
  BY LoopJob DEF Looping
<1>2. \A k : Runs(job, k) => k \in 0 .. LastStage /\ k < num
  BY <1>1 DEF Runs, LastStage
<1>3. \A k : Runs(job, k) /\ Pipes(job, k + 1) => Size[Command(k)[1]] <= PIPE
  BY <1>2 DEF Looping, Sent, Ended
<1>4. Sofar = Len(Typed(line))
  BY <1>1 DEF Sofar
<1> QED BY <1>3, <1>4, LoopJob DEF Looping

LEMMA WaitJobLine ==
  ASSUME Base, LineInv, Regular(line), Undisturbed, Undisturbed', WaitJob
  PROVE  line' = line /\ pc'["shell"] = "next" /\ Phase'
<1> USE DEF Base, DataInv
<1>1. /\ line' = line /\ pc["shell"] = "wait" /\ plan' = Tail(plan) /\ ran' = ran
      /\ pc'["shell"] = "next" /\ pc["shell"] # "dead"
      /\ pc'["job"] = "none" /\ pc'["stage"] \in {pc["stage"], "none"} /\ ~ Running'
      /\ ~ Running /\ pc["job"] \in {"none", "zombie"} /\ pc["stage"] = "none"
  <2>1. pc["shell"] = "wait" /\ Waits("shell") /\ Reaped("shell", "next")
    BY DEF WaitJob, Waits
  <2>2. ~ Running /\ pc["job"] \in {"none", "zombie"} /\ pc["stage"] = "none"
    BY <2>1, NoneBelow
  <2>3. pc'["shell"] = "next" /\ pc'["stage"] \in {pc["stage"], "none"} /\ ~ Running'
    BY <2>1, <2>2 DEF Reaped, Procs, Running
  <2>4. pc'["job"] = "none"
    BY <2>1, JobGone
  <2> QED BY <2>1, <2>2, <2>3, <2>4 DEF WaitJob
<1>2. \A m : Done(m)' <=> Done(m)
  BY <1>1 DEF Done
<1>3. ASSUME Done(Len(Typed(line))), Fits(line),
             Tail(plan) = << >> \/ (~ Simple(line) /\ \E e : Tail(plan) = << e >> /\ Idle(e))
      PROVE  Later'
  <2>1. Done(Len(Typed(line)))' /\ Fits(line)' /\ (Simple(line)' <=> Simple(line))
    BY <1>1, <1>3 DEF Done
  <2>2. \A e : Head(<< e >>) = e /\ Len(<< e >>) = 1
    OBVIOUS
  <2>3. plan' = << >> \/ (Len(plan') = 1 /\ plan' = << Head(plan') >> /\ Idle(Head(plan')) /\ ~ Simple(line'))
    BY <1>1, <1>3, <2>1, <2>2
  <2> QED BY <1>1, <2>1, <2>3 DEF Later
<1>4. CASE Alone
  BY <1>1, <1>3, <1>4, AloneJob DEF Alone, Phase
<1>5. CASE Looping
  <2>1. num = LastStage + 1 /\ ~ Waiting
    BY <1>1, <1>5 DEF Looping, InLoop, Waiting
  <2> QED BY <1>1, <1>3, <1>5, <2>1, AllSent, LoopJob DEF Looping, Phase
<1>6. CASE Later
  <2>1. Tail(plan) = << >>
    <3>1. \A e : Tail(<< e >>) = << >>
      OBVIOUS
    <3> QED BY <1>1, <1>6, <3>1 DEF Later
  <2> QED BY <1>1, <1>3, <1>6, <2>1 DEF Later, Phase
<1> QED BY <1>1, <1>4, <1>5, <1>6 DEF LineInv, Fresh

LEMMA JobLine ==
  ASSUME Base, LineInv, Regular(line), Undisturbed, Undisturbed',
         Open \/ WaitProgram("job") \/ JobEnds
           \/ (At("job", "run") /\ execution("job", Command(0)) /\ UNCHANGED << line, typed, loop, data >>)
  PROVE  line' = line /\ pc'["shell"] = pc["shell"] /\ Phase'
<1> USE DEF Base, DataInv
<1>1. /\ line' = line /\ pc["job"] \notin {"none", "zombie"} /\ pc \in [Procs -> Label]
      /\ UNCHANGED << num, fd_backup, wrote, took >> /\ plan' = plan
  BY DEF Open, WaitProgram, Waits, JobEnds, At, execution, Return, text, loop, data, TreeInv, Table
<1>2. /\ job' = job /\ LastStage' = LastStage /\ (Simple(line)' <=> Simple(line)) /\ (Fits(line)' <=> Fits(line))
      /\ (Idle(Head(plan))' <=> Idle(Head(plan)))
  BY <1>1 DEF job, LastStage
<1>3. ~ Fresh
  BY <1>1, QuietShell DEF Fresh, Procs
<1>8. Later => plan # << >>
  <2>1. pc["shell"] = "wait"
    BY <1>1, QuietShell DEF LineInv, Procs
  <2> QED BY <2>1 DEF Later
<1>4. CASE Open
  <2>1. pc["job"] = "open" /\ (Alone \/ Later)
    BY <1>3, <1>4 DEF Open, At, LineInv, Looping, InLoop
  <2>2. Readable(job.in)
    <3>1. CASE Alone
      BY <3>1, AloneJob DEF Alone, Opened, Readable
    <3>2. CASE Later
      <4>1. plan # << >>
        BY <1>8, <3>2
      <4> QED BY <3>2, <4>1 DEF Later, Idle, job, Readable
    <3> QED BY <2>1, <3>1, <3>2
  <2>3. Goto("job", "run") /\ in' = [in EXCEPT !["job"] = Input(job.in)] /\ ran' = ran
    BY <1>4, <2>2 DEF Open
  <2>4. /\ pc'["job"] = "run" /\ \A p \in Procs \ {"job"} : pc'[p] = pc[p] /\ in'[p] = in[p]
    BY <1>1, <2>3 DEF Goto, Opened, Procs
  <2>5. \A m : Done(m)' <=> Done(m)
    BY <1>1, <2>3 DEF Done
  <2>6. CASE Alone
    <3>1. Done(0)'
      BY <2>1, <2>5, <2>6 DEF Alone
    <3> QED BY <1>1, <1>2, <2>1, <2>4, <2>6, <3>1 DEF Alone, Running, Procs, Phase
  <2>7. CASE Later
    <3>1. Done(Len(Typed(line)))'
      BY <1>1, <2>3, <2>7 DEF Later, Done
    <3> QED BY <1>1, <1>2, <2>1, <2>4, <2>7, <3>1 DEF Later, Running, Procs, Phase
  <2> QED BY <1>1, <2>1, <2>4, <2>6, <2>7 DEF Procs
<1>5. CASE WaitProgram("job")
  <2>1. pc["job"] = "wait" /\ ~ job.loop /\ Waits("job") /\ Reaped("job", "exit") /\ ran' = ran
    BY <1>5 DEF WaitProgram, Waits
  <2>2. Alone
    BY <1>3, <2>1 DEF LineInv, Looping, Later
  <2>3. ~ Running
    BY <2>1, <2>2, NoneBelow DEF Alone
  <2>4. /\ pc'["job"] = "exit" /\ pc'["shell"] = pc["shell"] /\ pc'["stage"] = "none" /\ ~ Running'
    <3>1. kid["job"] # "shell"
      BY NoneIsNoProc DEF TreeInv, Table, Below, Procs, None
    <3> QED BY <2>1, <2>2, <2>3, <3>1 DEF Reaped, Procs, Running, Alone
  <2>5. Done(1)'
    BY <1>1, <2>1, <2>2 DEF Alone, Done
  <2>6. ~ Simple(line)
    BY <2>1, <2>2 DEF Alone
  <2> QED BY <1>1, <1>2, <2>1, <2>2, <2>4, <2>5, <2>6 DEF Alone, Phase
<1>6. CASE JobEnds
  <2>1. /\ ran' = ran /\ in' = in /\ out' = out /\ pc'["job"] \in {"none", "zombie"}
        /\ \A p \in Procs \ {"job"} : pc'[p] = pc[p]
    BY <1>1, <1>6 DEF JobEnds, Exit, Procs
  <2>2. CASE pc["job"] = "exit"
    <3>1. LineInv'
      BY <1>1, <2>1, <2>2, Calm DEF Procs, TreeInv
    <3> QED BY <1>1, <2>1, <3>1 DEF LineInv, Phase, Procs
  <2>3. CASE pc["job"] = "loop" /\ ~ NotNull(num)
    <3>1. Looping
      BY <1>3, <2>3 DEF LineInv, Alone, Later
    <3>2. num = LastStage + 1 /\ LastStage \in Nat
      BY <2>3, <3>1, LoopJob DEF Looping, InLoop
    <3>3. /\ pc["stage"] = "none" /\ pc["prog"] = "none"
      BY <2>3, <3>1, NothingBelow DEF Looping, Procs, Below
    <3>4. /\ pc'["stage"] = "none" /\ ~ Running' /\ ~ Waiting' /\ ~ Running
      BY <2>1, <3>3 DEF Procs, Running, Waiting
    <3>5. InLoop'
      BY <1>1, <1>2, <2>1, <2>3, <3>1, <3>2, <3>4 DEF Looping, InLoop, Before
    <3>6. InStage'
      BY <3>4 DEF InStage
    <3>7. Sent'
      <4>1. \A k : Ended(k)' => Ended(k)
        BY <1>1, <1>2, <3>2 DEF Ended, Runs, LastStage
      <4>2. \A k \in 0 .. LastStage : k < num
        BY <3>2
      <4> QED BY <1>1, <1>2, <3>1, <3>2, <3>4, <4>1, <4>2 DEF Looping, Sent, Command, pipe_commands, Running
    <3>8. Sofar' = Sofar
      BY <1>1, <1>2, <3>2 DEF Sofar
    <3>9. Done(Sofar)'
      BY <1>1, <2>1, <3>1, <3>8 DEF Looping, Done
    <3> QED BY <1>1, <1>2, <2>1, <3>1, <3>5, <3>6, <3>7, <3>9 DEF Looping, Phase, Procs
  <2> QED BY <1>6, <2>2, <2>3 DEF JobEnds, At
<1>7. CASE At("job", "run") /\ execution("job", Command(0))
  <2>1. pc["job"] = "run" /\ (Alone \/ Later)
    BY <1>3, <1>7 DEF At, LineInv, Looping, InLoop
  <2>2. CASE Alone
    <3>1. /\ WordAt(Command(0), 1) = Command(0)[1] /\ Command(0)[1] = Typed(line)[1]
          /\ Typed(line)[1] \in Programs /\ Len(Typed(line)) = 1
      BY <2>2, AloneJob DEF Alone
    <3>2. /\ Fork("job", "prog", IF Command(0)[1] \in Reads THEN "read" ELSE "write", ends["job"])
          /\ ran' = Append(ran, Typed(line)[0 + 1])
      BY <1>7, <3>1, Executes DEF Undisturbed
    <3>3. Done(0 + 1)'
      BY <1>1, <2>1, <2>2, <3>1, <3>2, DoneMore DEF Alone, Started
    <3>4. /\ pc'["job"] = "wait" /\ pc'["stage"] = pc["stage"] /\ pc'["shell"] = pc["shell"]
          /\ in'["prog"] = in["job"]
      BY <1>1, <3>2 DEF Fork, Procs, Opened
    <3> QED BY <1>1, <1>2, <2>1, <2>2, <3>3, <3>4 DEF Alone, NoPipe, Phase
  <2>3. CASE Later
    <3>1. plan # << >>
      BY <1>8, <2>3
    <3>2. Command(0) = << >>
      <4>1. << << >> >>[0 + 1] = << >>
        OBVIOUS
      <4> QED BY <2>3, <3>1, <4>1 DEF Later, Idle, Command, pipe_commands, job
    <3>3. Ends(Command(0))
      <4>1. ~ (1 <= Len(<< >>))
        OBVIOUS
      <4> QED BY <3>2, <4>1 DEF Ends, WordAt
    <3>4. Exit("job") /\ ran' = ran
      BY <1>7, <3>3 DEF execution
    <3>5. pc'["job"] \in {"none", "zombie"} /\ \A p \in Procs \ {"job"} : pc'[p] = pc[p]
      BY <1>1, <3>4 DEF Exit, Procs
    <3>6. Done(Len(Typed(line)))'
      BY <1>1, <2>3, <3>4 DEF Later, Done
    <3> QED BY <1>1, <1>2, <2>3, <3>5, <3>6 DEF Later, Phase, Procs, Running
  <2> QED BY <2>1, <2>2, <2>3
<1> QED BY <1>4, <1>5, <1>6, <1>7

-----------------------------------------------------------------------------
(***************************************************************************)
(* The loop of a pipeline.                                                 *)
(***************************************************************************)
LEMMA ForkStageLine ==
  ASSUME Base, Regular(line), Undisturbed, Undisturbed', Looping, ForkStage
  PROVE  line' = line /\ pc'["shell"] = pc["shell"] /\ Looping'
<1> USE DEF Base, DataInv
<1>1. /\ Fork("job", "stage", "wire", NewEnds) /\ pc["job"] = "loop" /\ NotNull(num)
      /\ UNCHANGED << line, plan, ran, num, fd_backup, wrote, took >> /\ pc \in [Procs -> Label]
  BY DEF ForkStage, At, Undisturbed, text, data, TreeInv, Table
<1>2. pc["prog"] = "none"
  BY <1>1, NothingBelow DEF Looping, Procs, Below
<1>3. /\ pc'["job"] = "wait" /\ pc'["stage"] = "wire" /\ pc'["prog"] = "none" /\ pc'["shell"] = pc["shell"]
      /\ job' = job /\ LastStage' = LastStage /\ Waiting /\ Waiting' /\ ~ Running /\ ~ Running'
  BY <1>1, <1>2 DEF Fork, Procs, job, LastStage, Waiting, Running
<1>4. num <= LastStage /\ LastStage \in Nat
  BY <1>1, LoopJob DEF Looping, InLoop
<1>5. InLoop'
  BY <1>1, <1>3, <1>4 DEF Looping, InLoop, Before
<1>6. InStage'
  BY <1>3 DEF InStage
<1>7. Sent'
  BY <1>1, <1>3 DEF Looping, Sent, Ended, Command, pipe_commands, Running
<1>8. Done(Sofar)'
  <2>1. Sofar' = Sofar
    BY <1>1, <1>3 DEF Sofar
  <2> QED BY <1>1, <2>1 DEF Looping, Done
<1> QED BY <1>1, <1>3, <1>5, <1>6, <1>7, <1>8 DEF Looping

\* Only the first stage of a line with "<" has no descriptor to go on from.
LEMMA Backup ==
  ASSUME InLoop, Numbers
  PROVE  /\ fd_backup = NoFd <=> num = 0 /\ job.in # None
         /\ \A k : fd_backup = Pipe(k) => num > 0 /\ k = Before(num)
<1>1. \A k : << "pipe", k >>[1] = "pipe" /\ << "tty" >>[1] = "tty" /\ << "-1" >>[1] = "-1" /\ << "pipe", k >>[2] = k
  OBVIOUS
<1>2. \A k, m : Pipe(k) # NoFd /\ Pipe(k) # Tty /\ Tty # NoFd /\ (Pipe(k) = Pipe(m) => k = m)
  BY <1>1 DEF Pipe, NoFd, Tty
<1>3. CASE num > 0
  BY <1>2, <1>3 DEF InLoop
<1>4. CASE ~ (num > 0)
  BY <1>2, <1>4 DEF InLoop, Numbers
<1> QED BY <1>3, <1>4

LEMMA WaitStageLine ==
  ASSUME Base, Regular(line), Undisturbed, Undisturbed', Looping, WaitStage
  PROVE  line' = line /\ pc'["shell"] = pc["shell"] /\ Looping'
<1> USE DEF Base, DataInv
<1>1. /\ pc["job"] = "wait" /\ Waits("job") /\ Reaped("job", "loop")
      /\ UNCHANGED << line, plan, ran, wrote, took >>
      /\ num' = (IF fd_backup = NoFd THEN num + 2 ELSE num + 1) /\ fd_backup' = Pipe(num)
  BY DEF WaitStage, Waits, text, data
<1>2. ~ Running /\ pc["stage"] \in {"none", "zombie"}
  BY <1>1, NoneBelow DEF Looping
<1>3. /\ pc'["job"] = "loop" /\ pc'["stage"] \in {"none", "zombie"} /\ ~ Running' /\ pc'["shell"] = pc["shell"]
      /\ job' = job /\ LastStage' = LastStage /\ ~ Waiting /\ Waiting'
  <2>1. kid["job"] # "shell"
    BY NoneIsNoProc DEF TreeInv, Table, Below, Procs, None
  <2> QED BY <1>1, <1>2, <2>1 DEF Reaped, Procs, job, LastStage, Waiting, Running
<1>4. /\ num \in 0 .. LastStage /\ LastStage \in Nat /\ (job.in # None => num # 1 /\ LastStage > 1)
      /\ num' = IF num = 0 /\ job.in # None THEN 2 ELSE num + 1
  <2>1. LastStage \in Nat /\ (job.in # None => LastStage > 1)
    BY LoopJob DEF Looping
  <2>2. num \in 0 .. LastStage /\ (job.in # None => num # 1)
    BY <1>1, <2>1 DEF Looping, InLoop
  <2>3. fd_backup = NoFd <=> num = 0 /\ job.in # None
    BY Backup DEF Looping
  <2> QED BY <1>1, <2>1, <2>2, <2>3
<1>5. InLoop'
  <2>1. num' \in 0 .. LastStage + 1 /\ (job.in # None => num' # 1) /\ num' > 0
    BY <1>4
  <2>2. num = IF job.in # None /\ num' = 2 THEN 0 ELSE num' - 1
    BY <1>4
  <2> QED BY <1>1, <1>3, <2>1, <2>2 DEF InLoop, Before
<1>6. InStage'
  BY <1>3 DEF InStage
<1>7. Sent'
  <2>1. \A k \in 0 .. LastStage : Ended(k)' => Ended(k)
    <3> SUFFICES ASSUME NEW k \in 0 .. LastStage, Ended(k)' PROVE Ended(k)
      OBVIOUS
    <3>1. Runs(job, k) /\ k < num'
      BY <1>3 DEF Ended
    <3>2. job.in # None => k # 1
      BY <3>1 DEF Runs
    <3>3. k < num \/ k = num
      BY <1>4, <3>1, <3>2
    <3> QED BY <1>2, <1>3, <3>1, <3>3 DEF Ended
  <2>2. \A k \in 0 .. LastStage : k >= num' => k > num /\ k >= num
    BY <1>4
  <2>3. \A k \in 0 .. LastStage : k > num' => k >= num'
    BY <1>4
  <2>4. \A k \in 0 .. LastStage : Command(k)' = Command(k)
    BY <1>3 DEF Command, pipe_commands
  <2>5. \A k \in 0 .. LastStage :
       /\ Ended(k) => wrote[k] = Size[Command(k)[1]]
       /\ Ended(k) /\ Pipes(job, k + 1) => wrote[k] <= PIPE
       /\ k > num => wrote[k] = 0
       /\ k >= num => took[k] = 0
    BY DEF Looping, Sent
  <2>6. \A k \in 0 .. LastStage :
       /\ Ended(k)' => wrote[k] = Size[Command(k)[1]]
       /\ Ended(k)' /\ Pipes(job, k + 1) => wrote[k] <= PIPE
       /\ k > num' \/ k = num' => wrote[k] = 0
       /\ k >= num' => took[k] = 0
    BY <1>4, <2>1, <2>2, <2>3, <2>5
  <2>7. pc'["prog"] # "write"
    BY <1>3 DEF Running
  <2> QED BY <1>1, <1>3, <2>4, <2>6, <2>7 DEF Sent
<1>8. Done(Sofar)'
  <2>1. Sofar = IF Runs(job, num) THEN Rank(job, num) + 1 ELSE Rank(job, num)
    BY <1>3, <1>4 DEF Sofar
  <2>2. Sofar' = IF num' > LastStage THEN Len(Typed(line)) ELSE Rank(job, num')
    BY <1>1, <1>3 DEF Sofar
  <2>3. Len(Typed(line)) = Rank(job, IF job.out # None THEN LastStage ELSE LastStage + 1)
    BY LoopJob DEF Looping
  <2>4. Runs(job, num) <=> (job.out # None => num # LastStage)
    BY <1>4 DEF Runs, LastStage
  <2>5. Sofar' = Sofar
    BY <1>4, <2>1, <2>2, <2>3, <2>4 DEF Rank
  <2> QED BY <1>1, <2>5 DEF Looping, Done
<1> QED BY <1>1, <1>3, <1>5, <1>6, <1>7, <1>8 DEF Looping

LEMMA WireLine ==
  ASSUME Base, Regular(line), Undisturbed, Undisturbed', Looping, Wire
  PROVE  line' = line /\ pc'["shell"] = pc["shell"] /\ Looping'
<1> USE DEF Base, DataInv
<1>1. /\ pc["stage"] = "wire" /\ UNCHANGED << line, plan, ran, num, fd_backup, wrote, took >>
      /\ pc \in [Procs -> Label] /\ DOMAIN in = Procs /\ DOMAIN out = Procs
  BY DEF Wire, At, text, loop, TreeInv, Table, Opened
<1>2. pc["prog"] = "none" /\ pc["job"] = "wait"
  <2>1. pc["prog"] = "none"
    BY <1>1, NothingBelow DEF Looping, Procs, Below
  <2>2. \E p \in Procs : kid[p] = "stage"
    BY <1>1 DEF TreeInv, Tree, Looping, Procs
  <2>3. kid["job"] = "stage"
    BY <2>2, NoneIsNoProc DEF TreeInv, Table, Below, Procs, None
  <2>4. pc["job"] = "wait"
    BY <2>3 DEF TreeInv, Tree, Looping, Procs, None
  <2> QED BY <2>1, <2>4
<1>3. /\ LastStage \in Nat /\ num \in 0 .. LastStage /\ (job.in # None => num # 1)
      /\ \A k : NotNull(k) <=> k < LastStage + 1
  BY <1>2, LoopJob DEF Looping, InLoop
<1>4. Readable(job.in)
  BY LoopJob DEF Looping, Opened, Readable
<1>5. /\ in' = [in EXCEPT !["stage"] = StageInput] /\ out' = [out EXCEPT !["stage"] = StageOutput]
      /\ Goto("stage", IF job.out # None /\ ~ NotNull(num + 1) THEN "exit" ELSE "run")
  BY <1>4 DEF Wire
<1>6. /\ pc'["stage"] = (IF job.out # None /\ num = LastStage THEN "exit" ELSE "run")
      /\ pc'["job"] = "wait" /\ pc'["prog"] = "none" /\ pc'["shell"] = pc["shell"]
      /\ in'["stage"] = StageInput /\ out'["stage"] = StageOutput
  <2>1. NotNull(num + 1) <=> num # LastStage
    BY <1>3
  <2> QED BY <1>1, <1>2, <1>5, <2>1 DEF Goto, Procs
<1>7. job' = job /\ LastStage' = LastStage /\ ~ Running /\ ~ Running' /\ Waiting
      /\ (Waiting' <=> ~ (job.out # None /\ num = LastStage))
  BY <1>1, <1>2, <1>6 DEF job, LastStage, Running, Waiting
<1>8. Runs(job, num) <=> ~ (job.out # None /\ num = LastStage)
  BY <1>3 DEF Runs, LastStage
<1>9. InLoop'
  BY <1>1, <1>2, <1>3, <1>6, <1>7, <1>8 DEF Looping, InLoop, Before
<1>10. InStage'
  <2>1. StageInput' = StageInput /\ StageOutput' = StageOutput
    BY <1>1, <1>7 DEF StageInput, StageOutput, ToFile, NotNull, pipe_commands, Input
  <2> QED BY <1>6, <1>7, <2>1 DEF InStage
<1>11. Sent'
  <2>1. \A k \in 0 .. LastStage : Ended(k)' => Ended(k)
    BY <1>1, <1>7, <1>8 DEF Ended
  <2>2. \A k \in 0 .. LastStage : Command(k)' = Command(k)
    BY <1>7 DEF Command, pipe_commands
  <2> QED BY <1>1, <1>2, <1>6, <1>7, <2>1, <2>2 DEF Looping, Sent
<1>12. Done(Sofar)'
  <2>1. Sofar' = Sofar
    BY <1>1, <1>3, <1>7, <1>8 DEF Sofar
  <2> QED BY <1>1, <2>1 DEF Looping, Done
<1> QED BY <1>1, <1>6, <1>7, <1>9, <1>10, <1>11, <1>12 DEF Looping

LEMMA RunStageLine ==
  ASSUME Base, Regular(line), Undisturbed, Undisturbed', Looping,
         At("stage", "run"), execution("stage", Command(num)), UNCHANGED << line, typed, loop, data >>
  PROVE  line' = line /\ pc'["shell"] = pc["shell"] /\ Looping'
<1> USE DEF Base, DataInv
<1>1. /\ pc["stage"] = "run" /\ UNCHANGED << line, num, fd_backup, wrote, took >>
      /\ pc \in [Procs -> Label] /\ DOMAIN in = Procs /\ DOMAIN out = Procs
  BY DEF At, loop, data, TreeInv, Table, Opened
<1>2. pc["prog"] = "none" /\ pc["job"] = "wait"
  <2>1. pc["prog"] = "none"
    BY <1>1, NothingBelow DEF Looping, Procs, Below
  <2>2. \E p \in Procs : kid[p] = "stage"
    BY <1>1 DEF TreeInv, Tree, Looping, Procs
  <2>3. kid["job"] = "stage"
    BY <2>2, NoneIsNoProc DEF TreeInv, Table, Below, Procs, None
  <2>4. pc["job"] = "wait"
    BY <2>3 DEF TreeInv, Tree, Looping, Procs, None
  <2> QED BY <2>1, <2>4
<1>3. Runs(job, num) /\ num \in 0 .. LastStage /\ LastStage \in Nat
  BY <1>1, <1>2, LoopJob DEF Looping, InLoop
<1>4. /\ Rank(job, num) + 1 \in 1 .. Len(Typed(line))
      /\ WordAt(Command(num), 1) = Command(num)[1]
      /\ Command(num)[1] = Typed(line)[Rank(job, num) + 1]
      /\ Command(num)[1] \in Programs
  BY <1>3, LoopJob DEF Looping
<1>5. /\ Fork("stage", "prog", IF Command(num)[1] \in Reads THEN "read" ELSE "write", ends["stage"])
      /\ ran' = Append(ran, Command(num)[1]) /\ UNCHANGED plan
  BY <1>4, Executes DEF Undisturbed
<1>6. /\ pc'["stage"] = "wait" /\ pc'["job"] = "wait" /\ pc'["shell"] = pc["shell"]
      /\ pc'["prog"] = (IF Command(num)[1] \in Reads THEN "read" ELSE "write")
      /\ in'["prog"] = in["stage"] /\ out'["prog"] = out["stage"]
  BY <1>1, <1>2, <1>5 DEF Fork, Procs
<1>7. job' = job /\ LastStage' = LastStage /\ ~ Running /\ Running' /\ Waiting /\ ~ Waiting'
  BY <1>1, <1>2, <1>5, <1>6 DEF job, LastStage, Running, Waiting
<1>8. InLoop'
  BY <1>1, <1>3, <1>6, <1>7 DEF Looping, InLoop, Before
<1>9. InStage'
  <2>1. StageInput' = StageInput /\ StageOutput' = StageOutput
    BY <1>1, <1>7 DEF StageInput, StageOutput, ToFile, NotNull, pipe_commands, Input
  <2> QED BY <1>1, <1>6, <2>1 DEF Looping, InStage
<1>10. Sent'
  <2>1. \A k \in 0 .. LastStage : Ended(k)' => Ended(k)
    BY <1>1, <1>7 DEF Ended
  <2>2. \A k \in 0 .. LastStage : Command(k)' = Command(k)
    BY <1>7 DEF Command, pipe_commands
  <2>3. wrote[num] <= PIPE
    BY <1>3, <1>7, ShellAssumption DEF Looping, Sent
  <2>4. pc'["prog"] = "write" => Last(ran') \notin Reads
    <3>1. Last(ran') = Command(num)[1]
      BY <1>4, <1>5 DEF Started, Last
    <3> QED BY <1>6, <3>1
  <2> QED BY <1>1, <1>7, <2>1, <2>2, <2>3, <2>4 DEF Looping, Sent
<1>11. Done(Sofar)'
  <2>1. Sofar' = Rank(job, num) + 1 /\ Sofar = Rank(job, num)
    BY <1>1, <1>3, <1>7 DEF Sofar
  <2>2. Rank(job, num) + 1 <= Len(Typed(line))
    BY <1>3, <1>4 DEF Rank
  <2>3. Done(Rank(job, num))
    BY <2>1 DEF Looping
  <2>4. ran \in Seq(Programs) /\ ran' = Append(ran, Typed(line)[Rank(job, num) + 1])
        /\ Typed(line)[Rank(job, num) + 1] \in Programs
    BY <1>4, <1>5 DEF Started
  <2>5. PICK m : m = Rank(job, num)
    OBVIOUS
  <2>6. Done(m + 1)'
    BY <1>1, <2>2, <2>3, <2>4, <2>5, DoneMore
  <2> QED BY <2>1, <2>5, <2>6 DEF Done
<1> QED BY <1>1, <1>5, <1>6, <1>7, <1>8, <1>9, <1>10, <1>11 DEF Looping

LEMMA TakeProgramLine ==
  ASSUME Base, Regular(line), Undisturbed, Undisturbed', Looping, WaitProgram("stage")
  PROVE  line' = line /\ pc'["shell"] = pc["shell"] /\ Looping'
<1> USE DEF Base, DataInv
<1>1. /\ pc["stage"] = "wait" /\ Waits("stage") /\ Reaped("stage", "exit")
      /\ UNCHANGED << line, plan, ran, num, fd_backup, wrote, took >>
  BY DEF WaitProgram, Waits, text, loop, data
<1>2. ~ Running
  BY <1>1, NoneBelow DEF Looping
<1>3. /\ pc'["stage"] = "exit" /\ pc'["job"] = pc["job"] /\ pc'["shell"] = pc["shell"] /\ ~ Running'
      /\ job' = job /\ LastStage' = LastStage /\ (Waiting' <=> Waiting)
  <2>1. kid["stage"] \in {"prog", None}
    BY DEF TreeInv, Table, Below, Procs
  <2>2. \A p \in {"shell", "job", "stage"} : kid["stage"] # p
    BY <2>1 DEF None
  <2> QED BY <1>1, <1>2, <2>2 DEF Reaped, Procs, job, LastStage, Waiting, Running
<1>4. InLoop'
  BY <1>1, <1>3 DEF Looping, InLoop, Before
<1>5. InStage'
  BY <1>3 DEF InStage
<1>6. Sent'
  <2>1. \A k \in 0 .. LastStage : (Ended(k)' <=> Ended(k)) /\ Command(k)' = Command(k)
    BY <1>1, <1>2, <1>3 DEF Ended, Command, pipe_commands
  <2>2. pc'["prog"] # "write"
    BY <1>3 DEF Running
  <2> QED BY <1>1, <1>3, <2>1, <2>2 DEF Looping, Sent
<1>7. Done(Sofar)'
  <2>1. Sofar' = Sofar
    BY <1>1, <1>3 DEF Sofar
  <2> QED BY <1>1, <2>1 DEF Looping, Done
<1> QED BY <1>1, <1>3, <1>4, <1>5, <1>6, <1>7 DEF Looping

-----------------------------------------------------------------------------
(***************************************************************************)
(* The programs.                                                           *)
(***************************************************************************)
\* Where a program is: what the current stage reads from has ended.
LEMMA Standing ==
  ASSUME Base, Regular(line), Looping, Running
  PROVE  /\ LastStage \in Nat /\ num \in 0 .. LastStage /\ 0 .. LastStage \subseteq Stages
         /\ pc["stage"] = "wait" /\ pc["job"] = "wait" /\ ~ Waiting /\ Runs(job, num)
         /\ Last(ran) = Command(num)[1] /\ Len(ran) = Rank(job, num) + 1
         /\ num > 0 => /\ Before(num) \in 0 .. num - 1 /\ Ended(Before(num))
                       /\ Rank(job, Before(num)) + 1 = Rank(job, num)
                       /\ in["prog"] = Pipe(Before(num))
         /\ \A k : in["prog"] = Pipe(k) => num > 0 /\ k = Before(num)
<1> USE DEF Base, DataInv
<1>1. /\ LastStage \in Nat /\ 0 .. LastStage \subseteq Stages
      /\ pc["stage"] = "wait" /\ pc["job"] = "wait" /\ ~ Waiting /\ Runs(job, num)
      /\ (job.in # None => num # 1)
  BY LoopJob DEF Looping, InLoop, Waiting
<1>2. num \in 0 .. LastStage
  BY <1>1 DEF Looping, InLoop
<1>3. Last(ran) = Command(num)[1] /\ Len(ran) = Rank(job, num) + 1
  <2>1. Sofar = Rank(job, num) + 1
    BY <1>1, <1>2 DEF Sofar
  <2>2. /\ Rank(job, num) + 1 \in 1 .. Len(Typed(line))
        /\ Command(num)[1] = Typed(line)[Rank(job, num) + 1]
    BY <1>1, LoopJob DEF Looping
  <2>3. Len(ran) = Sofar /\ \A i \in 1 .. Sofar : ran[i] = Typed(line)[i]
    BY DEF Looping, Done
  <2>4. Rank(job, num) + 1 \in 1 .. Sofar
    BY <2>1, <2>2
  <2> QED BY <2>1, <2>2, <2>3, <2>4 DEF Last
<1>4. ASSUME num > 0
      PROVE  /\ Before(num) \in 0 .. num - 1 /\ Ended(Before(num))
             /\ Rank(job, Before(num)) + 1 = Rank(job, num)
  <2>1. Before(num) \in 0 .. num - 1 /\ Before(num) < num
    BY <1>1, <1>2, <1>4 DEF Before
  <2>2. Rank(job, Before(num)) + 1 = Rank(job, num)
    BY <1>1, <1>2, <1>4 DEF Before, Rank
  <2>3. Runs(job, Before(num))
    BY <1>1, <1>2, <1>4 DEF Before, Runs, LastStage
  <2> QED BY <2>1, <2>2, <2>3 DEF Ended
<1>5. in["prog"] = StageInput
  BY DEF Looping, InStage
<1>6. num > 0 => in["prog"] = Pipe(Before(num))
  BY <1>5, Backup DEF Looping, StageInput, InLoop
<1>7. ASSUME NEW k, in["prog"] = Pipe(k) PROVE num > 0 /\ k = Before(num)
  <2>1. \A f : << "pipe", k >>[1] = "pipe" /\ << "tty" >>[1] = "tty" /\ << "file", f >>[1] = "file"
    OBVIOUS
  <2>2. \A f : Input(f) # Pipe(k)
    BY <2>1 DEF Input, Pipe, Tty
  <2>3. fd_backup = Pipe(k)
    BY <1>5, <1>7, <2>2 DEF StageInput
  <2> QED BY <2>3, Backup DEF Looping
<1> QED BY <1>1, <1>2, <1>3, <1>4, <1>6, <1>7

LEMMA ReadLine ==
  ASSUME Base, Regular(line), Looping, Read
  PROVE  Looping'
<1> USE DEF Base, DataInv
<1>1. PICK k \in Stages : in["prog"] = Pipe(k) /\ took' = [took EXCEPT ![k] = @ + 1]
  BY DEF Read
<1>2. /\ pc["prog"] = "read" /\ UNCHANGED << line, plan, ran, pc, num, fd_backup, wrote, in, out >>
  BY DEF Read, At, text, procs, descr, loop
<1>3. Running
  BY <1>2 DEF Running
<1>4. LastStage \in Nat /\ num \in Nat /\ 0 .. LastStage \subseteq Stages /\ k \in 0 .. num - 1
  BY <1>1, <1>3, Standing
<1>5. \A j \in 0 .. LastStage : j >= num => took'[j] = took[j]
  BY <1>1, <1>4 DEF Numbers
<1>6. job' = job /\ LastStage' = LastStage /\ (Waiting' <=> Waiting) /\ (Running' <=> Running)
  BY <1>2 DEF job, LastStage, Waiting, Running
<1>7. InLoop'
  BY <1>2, <1>6 DEF Looping, InLoop, Before
<1>8. InStage'
  BY <1>2, <1>6 DEF Looping, InStage, StageInput, StageOutput, ToFile, NotNull, pipe_commands, Input
<1>9. Sent'
  <2>1. \A j \in 0 .. LastStage : (Ended(j)' <=> Ended(j)) /\ Command(j)' = Command(j)
    BY <1>2, <1>6 DEF Ended, Command, pipe_commands
  <2> QED BY <1>2, <1>5, <1>6, <2>1 DEF Looping, Sent
<1>10. Done(Sofar)'
  <2>1. Sofar' = Sofar
    BY <1>2, <1>6 DEF Sofar
  <2> QED BY <1>2, <2>1 DEF Looping, Done
<1> QED BY <1>2, <1>6, <1>7, <1>8, <1>9, <1>10 DEF Looping

LEMMA ReadEndLine ==
  ASSUME Base, Regular(line), Looping, ReadEnd
  PROVE  Looping'
<1> USE DEF Base, DataInv
<1>1. /\ pc["prog"] = "read" /\ UNCHANGED << line, plan, ran, num, fd_backup, wrote, took, in, out >>
      /\ \A k \in Stages : in["prog"] = Pipe(k) => InPipe(k) = 0
      /\ pc'["prog"] = "write" /\ \A p \in Procs \ {"prog"} : pc'[p] = pc[p]
  BY DEF ReadEnd, At, text, descr, loop, data, Goto, TreeInv, Table, Procs
<1>2. Running /\ Running'
  BY <1>1 DEF Running
<1>3. num > 0 => Before(num) \in Stages /\ in["prog"] = Pipe(Before(num))
  BY <1>2, Standing
<1>4. num > 0 => took[Before(num)] = wrote[Before(num)]
  <2>1. \A a, b \in Nat : a - b = 0 => b = a
    OBVIOUS
  <2> QED BY <1>1, <1>3, <2>1 DEF InPipe, Numbers
<1>5. job' = job /\ LastStage' = LastStage /\ (Waiting' <=> Waiting) /\ Before(num)' = Before(num)
  BY <1>1 DEF job, LastStage, Waiting, Procs, Before
<1>6. InLoop'
  BY <1>1, <1>2, <1>5 DEF Looping, InLoop, Before, Procs
<1>7. InStage'
  BY <1>1, <1>2, <1>5 DEF Looping, InStage, StageInput, StageOutput, ToFile, NotNull, pipe_commands, Input, Procs
<1>8. Sent'
  <2>1. \A j \in 0 .. LastStage : (Ended(j)' <=> Ended(j)) /\ Command(j)' = Command(j)
    BY <1>1, <1>2, <1>5 DEF Ended, Command, pipe_commands
  <2> QED BY <1>1, <1>2, <1>4, <1>5, <2>1 DEF Looping, Sent
<1>9. Done(Sofar)'
  <2>1. Sofar' = Sofar
    BY <1>1, <1>5 DEF Sofar
  <2> QED BY <1>1, <2>1 DEF Looping, Done
<1> QED BY <1>1, <1>5, <1>6, <1>7, <1>8, <1>9 DEF Looping, Procs

LEMMA WriteLine ==
  ASSUME Base, Regular(line), Looping, Write
  PROVE  Looping'
<1> USE DEF Base, DataInv
<1>1. /\ pc["prog"] = "write" /\ UNCHANGED << line, plan, ran, pc, num, fd_backup, took, in, out >>
      /\ wrote' = [wrote EXCEPT ![num] = @ + 1]
      /\ out["prog"] = Pipe(num) => InPipe(num) < PIPE
  BY DEF Write, At, text, procs, descr, loop
<1>2. Running
  BY <1>1 DEF Running
<1>3. /\ LastStage \in Nat /\ num \in 0 .. LastStage /\ 0 .. LastStage \subseteq Stages /\ ~ Waiting
      /\ num > 0 => Before(num) \in 0 .. num - 1
  BY <1>2, Standing
<1>4. \A k \in 0 .. LastStage : k # num => wrote'[k] = wrote[k]
  BY <1>1, <1>3 DEF Numbers
<1>5. job' = job /\ LastStage' = LastStage /\ ~ Waiting' /\ Running' /\ Before(num)' = Before(num)
  BY <1>1, <1>2, <1>3 DEF job, LastStage, Waiting, Running, Before
<1>6. ASSUME Pipes(job, num + 1) PROVE wrote'[num] <= PIPE
  <2>1. (num + 1) + 1 = num + 2 /\ num + 1 < LastStage + 1
        /\ (job.out # None => num + 2 < LastStage + 1)
    <3>1. num + 1 < Len(job.cmds) /\ (job.out # None => (num + 1) + 1 < Len(job.cmds))
      BY <1>6 DEF Pipes
    <3>2. \A k : NotNull(k) <=> k < LastStage + 1
      BY LoopJob DEF Looping
    <3>3. NotNull(num + 1) /\ (job.out # None => NotNull((num + 1) + 1))
      BY <3>1 DEF NotNull, pipe_commands
    <3>4. (num + 1) + 1 = num + 2
      BY <1>3
    <3> QED BY <3>2, <3>3, <3>4
  <2>2. NotNull(num + 1) /\ (job.out # None => NotNull(num + 2))
    BY <2>1, LoopJob DEF Looping
  <2>3. StageOutput = Pipe(num)
    BY <2>2 DEF StageOutput, ToFile
  <2>4. out["prog"] = Pipe(num)
    BY <1>2, <2>3 DEF Looping, InStage
  <2>5. took[num] = 0
    BY <1>3 DEF Looping, Sent
  <2>6. wrote[num] \in Nat /\ wrote'[num] = wrote[num] + 1 /\ wrote[num] - took[num] < PIPE
    BY <1>1, <1>3, <2>4 DEF Numbers, InPipe
  <2>7. \A a \in Nat : a - 0 < PIPE => a + 1 <= PIPE
    BY ShellAssumption
  <2> QED BY <2>5, <2>6, <2>7
<1>7. InLoop'
  BY <1>1, <1>2, <1>5 DEF Looping, InLoop, Before
<1>8. InStage'
  BY <1>1, <1>2, <1>5 DEF Looping, InStage, StageInput, StageOutput, ToFile, NotNull, pipe_commands, Input
<1>9. Sent'
  <2>1. \A j \in 0 .. LastStage : (Ended(j)' => Ended(j) /\ j # num) /\ Command(j)' = Command(j)
    BY <1>1, <1>3, <1>5 DEF Ended, Command, pipe_commands
  <2>2. \A j \in 0 .. LastStage :
         /\ Ended(j)' => wrote'[j] = Size[Command(j)'[1]]
         /\ Ended(j)' /\ Pipes(job, j + 1) => wrote'[j] <= PIPE
         /\ j > num => wrote'[j] = 0
         /\ j >= num => took[j] = 0
    BY <1>3, <1>4, <2>1 DEF Looping, Sent
  <2>3. num > 0 => Before(num) \in 0 .. LastStage /\ Before(num) # num
    BY <1>3
  <2>4. Last(ran) \in Reads /\ num > 0 => took[Before(num)] = wrote'[Before(num)]
    BY <1>1, <1>4, <2>3 DEF Looping, Sent
  <2> QED BY <1>1, <1>3, <1>5, <1>6, <2>2, <2>4 DEF Sent
<1>10. Done(Sofar)'
  <2>1. Sofar' = Sofar
    BY <1>1, <1>3, <1>5 DEF Sofar
  <2> QED BY <1>1, <2>1 DEF Looping, Done
<1> QED BY <1>1, <1>5, <1>7, <1>8, <1>9, <1>10 DEF Looping

LEMMA ProgramEndsLine ==
  ASSUME Base, Regular(line), Looping, ProgramEnds
  PROVE  Looping'
<1> USE DEF Base, DataInv
<1>1. /\ pc["prog"] = "write" /\ UNCHANGED << line, plan, ran, num, fd_backup, wrote, took, in, out >>
      /\ wrote[num] = Size[Last(ran)]
      /\ pc'["prog"] \in {"none", "zombie"} /\ \A p \in Procs \ {"prog"} : pc'[p] = pc[p]
  BY DEF ProgramEnds, At, text, loop, data, Exit, TreeInv, Table, Procs
<1>2. Running /\ ~ Running'
  BY <1>1 DEF Running
<1>3. /\ LastStage \in Nat /\ num \in 0 .. LastStage /\ ~ Waiting /\ Last(ran) = Command(num)[1]
  BY <1>2, Standing
<1>4. job' = job /\ LastStage' = LastStage /\ ~ Waiting'
  BY <1>1, <1>3 DEF job, LastStage, Waiting, Procs
<1>5. InLoop'
  BY <1>1, <1>2, <1>4 DEF Looping, InLoop, Before, Procs
<1>6. InStage'
  BY <1>1, <1>2, <1>4, Standing DEF InStage, Procs
<1>7. Sent'
  <2>1. \A j \in 0 .. LastStage : (Ended(j)' => Ended(j) \/ j = num) /\ Command(j)' = Command(j)
    BY <1>1, <1>3, <1>4 DEF Ended, Command, pipe_commands
  <2>2. \A j \in 0 .. LastStage :
         /\ Ended(j)' => wrote[j] = Size[Command(j)[1]]
         /\ Ended(j)' /\ Pipes(job, j + 1) => wrote[j] <= PIPE
         /\ j > num => wrote[j] = 0
         /\ j >= num => took[j] = 0
    BY <1>1, <1>2, <1>3, <2>1 DEF Looping, Sent
  <2> QED BY <1>1, <1>2, <1>4, <2>1, <2>2 DEF Sent
<1>8. Done(Sofar)'
  <2>1. Sofar' = Sofar
    BY <1>1, <1>3, <1>4 DEF Sofar
  <2> QED BY <1>1, <2>1 DEF Looping, Done
<1> QED BY <1>1, <1>4, <1>5, <1>6, <1>7, <1>8 DEF Looping, Procs

LEMMA ProgramLine ==
  ASSUME Base, LineInv, Regular(line), Undisturbed, Undisturbed', Program
  PROVE  line' = line /\ pc'["shell"] = pc["shell"] /\ Phase'
<1> USE DEF Base, DataInv
<1>1. /\ UNCHANGED << line, plan, ran, num, fd_backup, in, out >> /\ Running
      /\ \A p \in Procs \ {"prog"} : pc'[p] = pc[p]
  BY DEF Program, Read, ReadEnd, ReadTty, Write, ProgramEnds, At, text, procs, descr, loop, data,
         Exit, Goto, Running, TreeInv, Table, Procs
<1>2. Alone \/ Looping
  <2>1. ~ Fresh
    BY <1>1, QuietShell DEF Fresh, Running, Procs
  <2> QED BY <1>1, <2>1 DEF LineInv, Later
<1>3. CASE Alone
  <2>1. job' = job /\ \A m : Done(m)' <=> Done(m)
    BY <1>1 DEF job, Done
  <2> QED BY <1>1, <1>3, <2>1 DEF Alone, Phase, Procs
<1>4. CASE Looping
  <2>1. CASE ReadTty
    <3>1. UNCHANGED << line, plan, ran, pc, num, fd_backup, wrote, took, in, out >>
      BY <2>1 DEF ReadTty, text, descr, loop, data
    <3>2. LineInv'
      BY <3>1, Calm DEF TreeInv
    <3> QED BY <1>1, <3>2 DEF LineInv, Phase, Procs
  <2> QED BY <1>1, <1>4, <2>1, ReadLine, ReadEndLine, WriteLine, ProgramEndsLine DEF Program, Phase, Procs
<1> QED BY <1>2, <1>3, <1>4

LEMMA StageLine ==
  ASSUME Base, LineInv, Regular(line), Undisturbed, Undisturbed', Stage \/ ForkStage \/ WaitStage
  PROVE  line' = line /\ pc'["shell"] = pc["shell"] /\ Phase'
<1> USE DEF Base, DataInv
<1>1. pc["stage"] \in {"wire", "run", "wait", "exit"} \/ pc["job"] = "loop" \/ (pc["job"] = "wait" /\ job.loop)
  BY DEF Stage, Wire, WaitProgram, StageEnds, ForkStage, WaitStage, Waits, At
<1>2. ~ Fresh
  BY <1>1, QuietShell DEF Fresh, Procs
<1>3. Looping
  BY <1>1, <1>2 DEF LineInv, Alone, Later
<1>4. CASE StageEnds
  <2>1. /\ UNCHANGED << line, plan, ran, num, fd_backup, wrote, took, in, out >> /\ pc["stage"] = "exit"
        /\ pc'["stage"] \in {"none", "zombie"} /\ \A p \in Procs \ {"stage"} : pc'[p] = pc[p]
    BY <1>4 DEF StageEnds, At, text, loop, data, Exit, TreeInv, Table, Procs
  <2>2. LineInv'
    BY <2>1, Calm DEF TreeInv, Procs
  <2> QED BY <2>1, <2>2 DEF LineInv, Phase, Procs
<1> QED BY <1>3, <1>4, TakeProgramLine, ForkStageLine, WaitStageLine, WireLine, RunStageLine DEF Stage, Phase

-----------------------------------------------------------------------------
LEMMA InitLine == Init => Base /\ LineInv
<1> SUFFICES ASSUME Init PROVE Base /\ LineInv
  OBVIOUS
<1>1. ~ Regular(line)
  BY DEF Init, Regular
<1>2. NoPipe /\ fails \in Nat
  BY DEF Init, NoPipe, Tty, Procs
<1> QED BY <1>1, <1>2, InitTree, InitData DEF Base, LineInv

LEMMA NextBase == Base /\ [Next]_vars => Base'
BY NextTree, NextData, NextNoPipe, NextFails DEF Base, DataInv

\* Once fork() has failed, or all processes have been killed, it stays so.
LEMMA NextDisturbed ==
  ASSUME Base, Shell \/ Job \/ Stage \/ Program, Undisturbed'
  PROVE  Undisturbed /\ line' = line
<1> USE DEF Undisturbed, Base
<1>1. ASSUME NEW p, NEW argv, execution(p, argv) PROVE fails' \in {fails, fails + 1} /\ killed' = killed
  BY <1>1 DEF execution, Exit, Fork, ForkFails, Return
<1>2. fails' \in {fails, fails + 1} /\ killed' = killed /\ line' = line
  <2>1. CASE Shell
    BY <1>1, <2>1 DEF Shell, Prompt, ForkJob, Fork, ForkFails, WaitJob, Reaped, text
  <2>2. CASE Job
    BY <1>1, <2>2 DEF Job, Open, ForkStage, Fork, WaitStage, WaitProgram, JobEnds, Exit, Reaped, text
  <2>3. CASE Stage
    BY <1>1, <2>3 DEF Stage, Wire, WaitProgram, StageEnds, Exit, Reaped, text
  <2>4. CASE Program
    BY <2>4 DEF Program, Read, ReadEnd, ReadTty, Write, ProgramEnds, Exit, procs, text
  <2> QED BY <2>1, <2>2, <2>3, <2>4
<1> QED BY <1>2

LEMMA NextLine == Base /\ LineInv /\ [Next]_vars => LineInv'
<1> SUFFICES ASSUME Base, LineInv, [Next]_vars, Regular(line)', Undisturbed' PROVE LineInv'
  BY DEF LineInv
<1>1. CASE UNCHANGED vars
  <2>1. UNCHANGED << line, plan, ran, num, fd_backup, wrote, took, in, out, pc, fails, killed >>
    BY <1>1 DEF vars, text, procs, descr, loop, data
  <2> QED BY <2>1, Calm DEF Base, TreeInv, Undisturbed
<1>2. CASE \E l \in Lines : Type(l)
  BY <1>2, TypeLine
<1>3. CASE \E p \in Procs : sigchld_handler(p)
  BY <1>3, HandlerLine
<1>4. CASE Shell \/ Job \/ Stage \/ Program
  <2>1. Undisturbed /\ line' = line /\ Regular(line)
    BY <1>4, NextDisturbed
  <2>2. CASE Prompt
    BY <2>2, PromptLine
  <2>3. CASE ForkJob \/ WaitJob
    BY <2>1, <2>3, ForkJobLine, WaitJobLine DEF LineInv, Phase
  <2>4. CASE Job \/ Stage \/ Program
    BY <2>1, <2>4, JobLine, StageLine, ProgramLine DEF LineInv, Phase, Job
  <2> QED BY <1>4, <2>2, <2>3, <2>4 DEF Shell
<1> QED BY <1>1, <1>2, <1>3, <1>4 DEF Next

LEMMA LineAlways == Spec => [](Base /\ LineInv)
<1>1. Base /\ LineInv /\ [Next]_vars => (Base /\ LineInv)'
  BY NextBase, NextLine
<1> QED BY <1>1, InitLine, PTL DEF Spec

(***************************************************************************)
(* The commands of a line run as they were typed: for every line of the    *)
(* form that Regular describes, cut into jobs and stages by main() and     *)
(* pipe_commands(), and started one by one by execution().                 *)
(***************************************************************************)
THEOREM CommandsInOrder == Spec => []RunsAsTyped
<1>1. Base /\ LineInv => RunsAsTyped
  <2> SUFFICES ASSUME Base, LineInv, Regular(line), Undisturbed
               PROVE  IsPrefix(ran, Typed(line)) /\ (pc["shell"] = "prompt" => ran = Typed(line))
    BY DEF RunsAsTyped
  <2> USE DEF Base, DataInv
  <2>1. PICK n \in Nat : Len(line) = 2 * n + 1
    <3>1. ~ Regular(<< >>)
      BY DEF Regular
    <3> QED BY <3>1, Half DEF Numbers
  <2> DEFINE commands == {i \in DOMAIN line : i = 1 \/ line[i - 1] = "|"}
             W == Programs \cup {Typed(line)[i] : i \in DOMAIN Typed(line)}
  <2>2. Typed(line) \in Seq(W)
    <3>1. Cardinality(commands) \in Nat
      <4>1. DOMAIN line = 1 .. 2 * n + 1
        BY <2>1, LineType
      <4>2. IsFiniteSet(1 .. 2 * n + 1)
        BY FS_Interval
      <4>3. commands \in SUBSET (1 .. 2 * n + 1)
        BY <4>1
      <4>4. IsFiniteSet(commands)
        BY <4>2, <4>3, FS_Subset
      <4> QED BY <4>4, FS_CardinalityType
    <3>2. PICK c \in Nat : c = Cardinality(commands)
      BY <3>1
    <3>3. Typed(line) \in [1 .. c -> W]
      BY <3>2 DEF Typed
    <3> HIDE DEF commands, W
    <3> QED BY <3>3, FunSeq
  <2>3. ran \in Seq(W)
    BY SeqMonotonic DEF Started
  <2> HIDE DEF W
  <2>4. PICK m : Done(m)
    BY DEF LineInv, Fresh, Alone, Looping, Later
  <2>5. IsPrefix(ran, Typed(line))
    <3>1. Len(ran) <= Len(Typed(line)) /\ \A i \in 1 .. Len(ran) : ran[i] = Typed(line)[i]
      BY <2>4 DEF Done
    <3>2. ran = SubSeq(Typed(line), 1, Len(ran))
      BY <2>2, <2>3, <3>1
    <3> QED BY <3>1, <3>2 DEF IsPrefix
  <2>6. ASSUME pc["shell"] = "prompt" PROVE ran = Typed(line)
    <3>1. Done(Len(Typed(line)))
      BY <2>6 DEF LineInv, Fresh, Alone, Looping, Later
    <3> QED BY <2>2, <2>3, <3>1, SeqEqual DEF Done
  <2> QED BY <2>5, <2>6
<1> QED BY <1>1, LineAlways, PTL

(***************************************************************************)
(* A command of a pipeline that has seen the end of its input has read all *)
(* that the one before it wrote, which is all that it writes: the writing  *)
(* ends are closed where they must be, and only there.                     *)
(***************************************************************************)
THEOREM NothingIsLost == Spec => []InputIsComplete
<1>1. Base /\ LineInv => InputIsComplete
  <2> SUFFICES ASSUME Base, LineInv, Regular(line), Undisturbed, pc["prog"] = "write", Last(ran) \in Reads,
                      NEW k \in Stages, in["prog"] = Pipe(k)
               PROVE  /\ Command(k)[1] = ran[Len(ran) - 1]
                      /\ wrote[k] = Size[Command(k)[1]] /\ took[k] = wrote[k]
    BY DEF InputIsComplete
  <2> USE DEF Base, DataInv
  <2>1. Running
    BY DEF Running
  <2>2. Looping
    <3>1. ~ Fresh
      BY <2>1, QuietShell DEF Fresh, Running, Procs
    <3>2. in["prog"][1] = "pipe"
      BY DEF Pipe
    <3> QED BY <2>1, <3>1, <3>2 DEF LineInv, Alone, Later
  <2>3. /\ num > 0 /\ k = Before(num) /\ Ended(k) /\ k \in 0 .. num - 1 /\ num \in 0 .. LastStage
        /\ LastStage \in Nat /\ Rank(job, k) + 1 = Rank(job, num) /\ Len(ran) = Rank(job, num) + 1
    BY <2>1, <2>2, Standing
  <2>4. k \in 0 .. LastStage
    BY <2>3
  <2>5. wrote[k] = Size[Command(k)[1]] /\ took[k] = wrote[k]
    BY <2>2, <2>3, <2>4 DEF Looping, Sent
  <2>6. Command(k)[1] = ran[Len(ran) - 1]
    <3>1. /\ Rank(job, k) + 1 \in 1 .. Len(Typed(line))
          /\ Command(k)[1] = Typed(line)[Rank(job, k) + 1]
      BY <2>2, <2>3, LoopJob DEF Looping, Ended
    <3>2. Len(ran) = Sofar /\ \A i \in 1 .. Sofar : ran[i] = Typed(line)[i]
      BY <2>2 DEF Looping, Done
    <3>3. Len(ran) - 1 = Rank(job, k) + 1 /\ Rank(job, k) + 1 \in 1 .. Len(ran)
      BY <2>3, <3>1
    <3> QED BY <3>1, <3>2, <3>3
  <2> QED BY <2>5, <2>6
<1> QED BY <1>1, LineAlways, PTL

(***************************************************************************)
(* The prompt comes back, if nothing goes wrong, only for a line each of   *)
(* whose commands writes no more into its pipe than that holds: the stages *)
(* run one after the other.                                                *)
(***************************************************************************)
THEOREM RoomForEach == Spec => []NoPromptWithoutRoom
<1>1. LineInv => NoPromptWithoutRoom
  BY DEF LineInv, NoPromptWithoutRoom, Fresh, Alone, Looping, Later
<1> QED BY <1>1, LineAlways, PTL
-----------------------------------------------------------------------------
(***************************************************************************)
(* Where a program writes when its file was not opened for appending.      *)
(***************************************************************************)
\* The first n units of the file f are the program's.
Begins(f, n) == n <= Len(file[f]) /\ \A i \in 1 .. n : file[f][i] = Last(ran)

JobOutput == IF job.out = None THEN Tty ELSE File(job.out, job.append)

AtJob ==
  /\ pc["job"] \in {"open", "run"} => num = 0 /\ wrote[0] = 0
  /\ pc["job"] = "run" => out["job"] = JobOutput /\ (job.out # None => pos = 0)

AtStage == pc["stage"] = "run" /\ ToFile => pos = 0

AtProgram ==
  Running /\ out["prog"][1] = "file" /\ ~ Appends(line) =>
    /\ out["prog"][3] = FALSE /\ num \in Stages
    /\ pos = wrote[num] /\ Begins(out["prog"][2], pos)

Placed == AtJob /\ AtStage /\ AtProgram

\* The shell's own output is never moved.
NoFile == out["shell"][1] # "file"

PlaceInv == NoFile /\ (Regular(line) /\ Undisturbed => Placed)

LEMMA NextNoFile == Opened /\ NoFile /\ [Next]_vars => NoFile'
<1> SUFFICES ASSUME Opened, NoFile, [Next]_vars, out'["shell"] # out["shell"] PROVE FALSE
  BY DEF NoFile
<1> USE DEF Opened, Procs
<1>1. ASSUME NEW p, NEW q \in {"job", "stage", "prog"}, NEW l, NEW held, Fork(p, q, l, held)
      PROVE  FALSE
  BY <1>1 DEF Fork
<1>2. ASSUME NEW p, NEW argv, execution(p, argv) PROVE FALSE
  BY <1>1, <1>2 DEF execution, Exit, ForkFails, Return, descr
<1>3. CASE \E l \in Lines : Type(l)
  BY <1>3 DEF Type, descr
<1>4. CASE Shell
  BY <1>1, <1>2, <1>4 DEF Shell, Prompt, ForkJob, ForkFails, WaitJob, Reaped, descr
<1>5. CASE Job
  BY <1>1, <1>2, <1>5 DEF Job, Open, ForkStage, WaitStage, WaitProgram, JobEnds, Reaped, Exit
<1>6. CASE Stage
  BY <1>2, <1>6 DEF Stage, Wire, WaitProgram, StageEnds, Reaped, Exit
<1>7. CASE Program
  BY <1>7 DEF Program, Read, ReadEnd, ReadTty, Write, ProgramEnds, Exit, descr
<1>8. CASE UNCHANGED vars \/ \E p \in Procs : sigchld_handler(p)
  BY <1>8 DEF vars, descr, sigchld_handler, Reap, KillAll
<1> QED BY <1>3, <1>4, <1>5, <1>6, <1>7, <1>8 DEF Next

\* One unit more is written where the last one was.
LEMMA WriteOver ==
  ASSUME Opened, Started, Running, NEW f \in DOMAIN file, WriteFile(f, FALSE), Begins(f, pos)
  PROVE  /\ pos' = pos + 1
         /\ WrittenOver(file[f], file'[f], pos + 1)
         /\ pos + 1 <= Len(file'[f]) /\ \A i \in 1 .. pos + 1 : file'[f][i] = Last(ran)
<1> DEFINE w == Last(ran)
           s == file[f]
<1>1. w \in Word /\ s \in Seq(Word) /\ pos \in Nat /\ pos <= Len(s) /\ \A i \in 1 .. pos : s[i] = w
  BY DEF Opened, Started, Word, Last, Begins
<1>2. file'[f] = (IF pos < Len(s) THEN ReplaceAt(s, pos + 1, w) ELSE Append(s, w)) /\ pos' = pos + 1
  BY DEF WriteFile, Opened
<1> HIDE DEF w, s
<1>3. CASE pos < Len(s)
  <2>1. file'[f] = [s EXCEPT ![pos + 1] = w] /\ pos + 1 \in 1 .. Len(s)
    BY <1>1, <1>2, <1>3 DEF ReplaceAt
  <2>2. Len(file'[f]) = Len(s) /\ DOMAIN file'[f] = 1 .. Len(s)
        /\ \A i \in 1 .. Len(s) : file'[f][i] = IF i = pos + 1 THEN w ELSE s[i]
    BY <1>1, <2>1, ExceptSeq
  <2>3. \A i \in 1 .. Len(s) : i <= pos + 1 => i = pos + 1 \/ i \in 1 .. pos
    BY <1>1
  <2> QED BY <1>1, <1>2, <1>3, <2>1, <2>2, <2>3 DEF WrittenOver, w, s
<1>4. CASE ~ (pos < Len(s))
  <2>1. file'[f] = Append(s, w) /\ pos = Len(s)
    BY <1>1, <1>2, <1>4
  <2>2. Len(file'[f]) = pos + 1 /\ DOMAIN file'[f] = 1 .. pos + 1
        /\ \A i \in 1 .. pos + 1 : file'[f][i] = IF i = pos + 1 THEN w ELSE s[i]
    BY <1>1, <2>1
  <2>3. \A i \in 1 .. pos + 1 : i <= pos + 1 /\ (i = pos + 1 \/ i \in 1 .. pos)
    BY <1>1
  <2> QED BY <1>1, <1>2, <2>1, <2>2, <2>3 DEF WrittenOver, w, s
<1> QED BY <1>3, <1>4

\* Nothing of what the invariant speaks of begins in this step.
LEMMA PlacesStay ==
  ASSUME Placed, UNCHANGED << line, plan, ran, num, wrote, file, pos, out >>,
         \A p \in {"job", "stage"} : pc'[p] = pc[p] \/ pc'[p] \notin {"open", "run"},
         Running' => Running
  PROVE  Placed'
<1>1. job' = job
  BY DEF job
<1>2. AtJob'
  BY <1>1 DEF Placed, AtJob, JobOutput
<1>3. AtStage'
  BY <1>1 DEF Placed, AtStage, ToFile, NotNull, pipe_commands
<1>4. AtProgram'
  BY DEF Placed, AtProgram, Begins
<1> QED BY <1>2, <1>3, <1>4 DEF Placed

\* A program that is started writes to what its parent's output is.
LEMMA StartsAt ==
  ASSUME Base, Regular(line), Undisturbed, NEW p \in {"shell", "job", "stage"},
         pc[p] = "run" \/ p = "shell", pc["shell"] # "dead", pc[p] \notin {"none", "wait"},
         \A q \in {"job", "stage"} : q # p => pc[q] \notin {"open", "run"},
         UNCHANGED << line, num, wrote, file, pos >>,
         NEW argv, execution(p, argv),
         Ends(argv) \/ (num \in Stages /\ wrote[num] = 0
                        /\ (out[p][1] = "file" /\ ~ Appends(line) => out[p][3] = FALSE /\ pos = 0))
  PROVE  Placed'
<1> USE DEF Base, DataInv
<1>1. pc \in [Procs -> Label] /\ pc["prog"] = "none" /\ DOMAIN out = Procs
  BY NothingBelow DEF TreeInv, Table, Procs, Below, Opened
<1>2. \A q \in {"job", "stage"} : pc'[q] \notin {"open", "run"}
  BY <1>1 DEF execution, Exit, Fork, ForkFails, Return, Goto, Procs
<1>3. CASE Fork(p, "prog", IF argv[1] \in Reads THEN "read" ELSE "write", ends[p]) /\ ~ Ends(argv)
  <2>1. out'["prog"] = out[p] /\ file[out[p][2]] = file'[out[p][2]]
    BY <1>1, <1>3 DEF Fork, Procs
  <2>2. out[p][1] = "file" => out[p][2] \in DOMAIN file /\ Len(file[out[p][2]]) \in Nat
    BY DEF Opened, Procs
  <2>3. AtProgram'
    BY <1>3, <2>1, <2>2 DEF AtProgram, Begins
  <2> QED BY <1>2, <2>3 DEF Placed, AtJob, AtStage
<1>4. CASE ~ (Fork(p, "prog", IF argv[1] \in Reads THEN "read" ELSE "write", ends[p]) /\ ~ Ends(argv))
  <2>1. ~ Running'
    BY <1>1, <1>4 DEF execution, Exit, ForkFails, Return, Goto, Procs, Running
  <2> QED BY <1>2, <2>1 DEF Placed, AtJob, AtStage, AtProgram
<1> QED BY <1>3, <1>4

\* At its prompt, or when the last job is over, the shell is alone.
LEMMA PlaceShell ==
  ASSUME Base, LineInv, Regular(line)', Undisturbed', NoFile, Shell \/ \E l \in Lines : Type(l),
         Shell => Regular(line) /\ Undisturbed /\ Placed
  PROVE  Placed'
<1> USE DEF Base, DataInv
<1>1. ASSUME pc'["job"] \notin {"open", "run"}, pc'["stage"] # "run", ~ Running' PROVE Placed'
  BY <1>1 DEF Placed, AtJob, AtStage, AtProgram
<1>2. CASE (\E l \in Lines : Type(l)) \/ Prompt
  <2>1. \A p \in Procs \ {"shell"} : pc'[p] = "none"
    BY <1>2, QuietShell DEF Type, Prompt, At, Goto, TreeInv, Table, Procs
  <2> QED BY <1>1, <2>1 DEF Procs, Running
<1>3. CASE ForkJob
  <2>1. /\ pc["shell"] = "next" /\ \A p \in Procs \ {"shell"} : pc[p] = "none"
        /\ pc \in [Procs -> Label] /\ DOMAIN out = Procs /\ Regular(line) /\ Undisturbed /\ plan # << >>
    BY <1>3, QuietShell DEF Shell, ForkJob, At, TreeInv, Table, Opened
  <2>2. line \in Lines /\ Len(line) \in Nat /\ 0 \in Stages
    <3>1. ~ Regular(<< >>)
      BY DEF Regular
    <3>2. line \in Lines /\ line \in Seq(STRING)
      BY <2>1, <3>1, LineType DEF Numbers
    <3>3. 0 \in 0 .. Len(line)
      BY <3>2
    <3> QED BY <3>2, <3>3 DEF Stages
  <2>3. CASE Simple(line)
    <3>1. execution("shell", Command(0)) /\ UNCHANGED << line, num, wrote, file, pos >>
      BY <1>3, <2>3 DEF ForkJob, loop, data
    <3>2. CASE Fork("shell", "prog", IF Command(0)[1] \in Reads THEN "read" ELSE "write", ends["shell"])
      <4>1. out'["prog"] = out["shell"] /\ pc'["job"] = "none" /\ pc'["stage"] = "none"
        BY <2>1, <3>2 DEF Fork, Procs
      <4> QED BY <4>1 DEF NoFile, Placed, AtJob, AtStage, AtProgram
    <3>3. CASE ~ Fork("shell", "prog", IF Command(0)[1] \in Reads THEN "read" ELSE "write", ends["shell"])
      <4>1. \A p \in Procs \ {"shell"} : pc'[p] = "none"
        BY <2>1, <3>1, <3>3 DEF execution, Exit, ForkFails, Return, Goto, Procs
      <4> QED BY <1>1, <4>1 DEF Procs, Running
    <3> QED BY <3>2, <3>3
  <2>4. CASE ~ Simple(line)
    <3>1. num' = 0 /\ wrote'[0] = 0
      BY <1>3, <2>2, <2>4 DEF ForkJob, NoData
    <3>2. Fork("shell", "job", IF job.loop THEN "loop" ELSE "open", {}) \/ ForkFails("shell")
      BY <1>3, <2>4 DEF ForkJob
    <3>3. pc'["job"] \in {"none", "open", "loop"} /\ pc'["stage"] = "none" /\ pc'["prog"] = "none"
      BY <2>1, <3>2 DEF Fork, ForkFails, Goto, Procs
    <3> QED BY <3>1, <3>3 DEF Placed, AtJob, AtStage, AtProgram, Running
  <2> QED BY <2>3, <2>4
<1>4. CASE WaitJob
  <2>1. pc["shell"] = "wait" /\ Waits("shell") /\ Reaped("shell", "next")
    BY <1>4 DEF WaitJob, Waits
  <2>2. ~ Running /\ pc["job"] \in {"none", "zombie"} /\ pc["stage"] = "none"
    BY <2>1, NoneBelow
  <2>3. pc'["job"] = "none" /\ pc'["stage"] # "run" /\ ~ Running'
    BY <2>1, <2>2, JobGone DEF Reaped, Procs, Running
  <2> QED BY <1>1, <2>3
<1> QED BY <1>2, <1>3, <1>4 DEF Shell

\* A process that has a job or a stage in it is not the only one.
LEMMA Busy ==
  ASSUME Base, LineInv, Regular(line), Undisturbed, NEW p \in {"job", "stage"},
         pc[p] \notin {"none", "zombie", "exit"}
  PROVE  pc["shell"] = "wait" /\ (Alone \/ Looping \/ Later)
<1>1. pc["shell"] \notin {"prompt", "next"}
  BY QuietShell DEF Base, Procs
<1> QED BY <1>1 DEF LineInv, Fresh

LEMMA PlaceJob ==
  ASSUME Base, LineInv, Regular(line), Undisturbed, Undisturbed', Placed, Job
  PROVE  Placed'
<1> USE DEF Base, DataInv
<1>0. pc \in [Procs -> Label] /\ DOMAIN out = Procs /\ pc["shell"] # "dead"
  BY DEF TreeInv, Table, Opened, LineInv
<1>1. CASE Open
  <2>1. /\ pc["job"] = "open" /\ pc["stage"] = "none" /\ pc["prog"] = "none"
        /\ UNCHANGED << line, plan, num, wrote >>
    BY <1>0, <1>1, NothingBelow DEF Open, At, Procs, Below, text, loop
  <2>2. job' = job /\ JobOutput' = JobOutput
    BY <2>1 DEF job, JobOutput
  <2>3. CASE Exit("job")
    <3>1. pc'["job"] \notin {"open", "run"} /\ pc'["stage"] = "none" /\ pc'["prog"] = "none"
      BY <1>0, <2>1, <2>3 DEF Exit, Procs
    <3> QED BY <3>1 DEF Placed, AtJob, AtStage, AtProgram, Running
  <2>4. CASE ~ Exit("job")
    <3>1. /\ out' = [out EXCEPT !["job"] = JobOutput] /\ Goto("job", "run")
          /\ job.out # None => pos' = 0
      BY <1>1, <2>4 DEF Open, OpenOut, JobOutput
    <3>2. pc'["stage"] = "none" /\ pc'["prog"] = "none" /\ out'["job"] = JobOutput
      BY <1>0, <2>1, <3>1 DEF Goto, Procs
    <3> QED BY <2>1, <2>2, <3>1, <3>2 DEF Placed, AtJob, AtStage, AtProgram, Running
  <2> QED BY <2>3, <2>4
<1>2. CASE ForkStage
  <2>1. /\ Fork("job", "stage", "wire", NewEnds) /\ pc["job"] = "loop" /\ pc["prog"] = "none"
    BY <1>0, <1>2, NothingBelow DEF ForkStage, At, Procs, Below, Undisturbed
  <2>2. pc'["job"] = "wait" /\ pc'["stage"] = "wire" /\ pc'["prog"] = "none"
    BY <1>0, <2>1 DEF Fork, Procs
  <2> QED BY <2>2 DEF Placed, AtJob, AtStage, AtProgram, Running
<1>3. CASE WaitStage \/ WaitProgram("job")
  <2>1. PICK label \in {"loop", "exit"} : Waits("job") /\ Reaped("job", label)
    BY <1>3 DEF WaitStage, WaitProgram
  <2>2. ~ Running /\ pc["stage"] \in {"none", "zombie"}
    BY <1>0, <2>1, NoneBelow
  <2>3. pc'["job"] = label /\ pc'["stage"] # "run" /\ ~ Running'
    BY <1>0, <2>1, <2>2 DEF Reaped, Procs, Running
  <2> QED BY <2>3 DEF Placed, AtJob, AtStage, AtProgram
<1>4. CASE JobEnds
  <2>1. /\ UNCHANGED << line, plan, ran, num, wrote, file, pos, out >>
        /\ pc'["job"] \in {"none", "zombie"} /\ \A p \in Procs \ {"job"} : pc'[p] = pc[p]
    BY <1>0, <1>4 DEF JobEnds, Exit, Procs, text, loop, data
  <2> QED BY <2>1, PlacesStay DEF Procs, Running
<1>5. CASE At("job", "run") /\ execution("job", Command(0)) /\ UNCHANGED << line, typed, loop, data >>
  <2>1. pc["job"] = "run" /\ UNCHANGED << line, num, wrote, file, pos >>
        /\ pc["stage"] = "none"
    BY <1>0, <1>5, NothingBelow DEF At, loop, data, Procs, Below
  <2>2. num = 0 /\ wrote[0] = 0 /\ out["job"] = JobOutput /\ (job.out # None => pos = 0)
    BY <2>1 DEF Placed, AtJob
  <2>3. 0 \in Stages
    <3>1. ~ Regular(<< >>)
      BY DEF Regular
    <3>2. line \in Lines /\ line \in Seq(STRING)
      BY <3>1, LineType DEF Numbers
    <3>3. 0 \in 0 .. Len(line)
      BY <3>2
    <3> QED BY <3>2, <3>3 DEF Stages
  <2>4. pc["shell"] = "wait" /\ (Alone \/ Later)
    BY <2>1, Busy DEF Looping, InLoop
  <2>5. CASE Alone
    <3>1. ~ Appends(line) => job.append = FALSE
      BY <2>5, AloneJob DEF Alone
    <3>2. out["job"][1] = "file" => job.out # None /\ out["job"][3] = job.append
      BY <2>2 DEF JobOutput, Tty, File
    <3>3. out["job"][1] = "file" /\ ~ Appends(line) => out["job"][3] = FALSE /\ pos = 0
      BY <2>2, <3>1, <3>2
    <3> QED BY <1>0, <1>5, <2>1, <2>2, <2>3, <3>3, StartsAt
  <2>6. CASE Later
    <3>1. plan # << >>
      BY <2>4, <2>6 DEF Later
    <3>2. Command(0) = << >>
      <4>1. << << >> >>[0 + 1] = << >>
        OBVIOUS
      <4> QED BY <2>6, <3>1, <4>1 DEF Later, Idle, Command, pipe_commands, job
    <3>3. Ends(Command(0))
      <4>1. ~ (1 <= Len(<< >>))
        OBVIOUS
      <4> QED BY <3>2, <4>1 DEF Ends, WordAt
    <3> QED BY <1>0, <1>5, <2>1, <3>3, StartsAt
  <2> QED BY <2>4, <2>5, <2>6
<1> QED BY <1>1, <1>2, <1>3, <1>4, <1>5 DEF Job

LEMMA PlaceStage ==
  ASSUME Base, LineInv, Regular(line), Undisturbed, Undisturbed', Placed, Stage
  PROVE  Placed'
<1> USE DEF Base, DataInv
<1>0. pc \in [Procs -> Label] /\ DOMAIN out = Procs /\ pc["shell"] # "dead"
  BY DEF TreeInv, Table, Opened, LineInv
<1>1. CASE StageEnds \/ WaitProgram("stage")
  <2>1. UNCHANGED << line, plan, ran, num, wrote, file, pos, out >>
    BY <1>1 DEF StageEnds, WaitProgram, Exit, Reaped, text, loop, data
  <2>2. /\ pc'["stage"] \notin {"open", "run"} /\ pc'["job"] = pc["job"]
        /\ pc'["prog"] \in {pc["prog"], "none"}
    <3>1. kid["stage"] \in {"prog", None}
      BY DEF TreeInv, Table, Below, Procs
    <3> QED BY <1>0, <1>1, <3>1 DEF StageEnds, WaitProgram, Exit, Reaped, Procs, None
  <2> QED BY <2>1, <2>2, PlacesStay DEF Running
<1>2. ASSUME pc["stage"] \in {"wire", "run"}
      PROVE  /\ Looping /\ pc["prog"] = "none" /\ pc["job"] \notin {"open", "run"}
             /\ num \in Stages /\ wrote[num] = 0 /\ job.append = FALSE
  <2>1. Looping /\ pc["prog"] = "none"
    BY <1>0, <1>2, Busy, NothingBelow DEF Alone, Later, Procs, Below
  <2>2. pc["job"] = "wait"
    <3>1. \E p \in Procs : kid[p] = "stage"
      BY <1>2, <2>1 DEF TreeInv, Tree, Looping, Procs
    <3>2. kid["job"] = "stage"
      BY <3>1, NoneIsNoProc DEF TreeInv, Table, Below, Procs, None
    <3> QED BY <2>1, <3>2 DEF TreeInv, Tree, Looping, Procs, None
  <2>3. num \in 0 .. LastStage /\ 0 .. LastStage \subseteq Stages /\ job.append = FALSE
    <3>1. LastStage \in Nat /\ 0 .. LastStage \subseteq Stages /\ job.append = FALSE
      BY <2>1, LoopJob DEF Looping
    <3>2. num \in 0 .. LastStage + 1 /\ num <= LastStage
      BY <2>1, <2>2 DEF Looping, InLoop
    <3> QED BY <3>1, <3>2
  <2> QED BY <1>2, <2>1, <2>2, <2>3 DEF Looping, Sent, Waiting
<1>3. CASE Wire
  <2>1. pc["stage"] = "wire" /\ pc["prog"] = "none" /\ pc["job"] \notin {"open", "run"}
        /\ UNCHANGED << line, plan, num >>
    BY <1>2, <1>3 DEF Wire, At, text, loop
  <2>2. /\ pc'["prog"] = "none" /\ pc'["job"] = pc["job"]
        /\ pc'["stage"] = "run" /\ ToFile => pos' = 0
    BY <1>0, <1>3, <2>1 DEF Wire, Exit, Goto, OpenOut, Procs
  <2>3. ToFile' <=> ToFile
    BY <2>1 DEF ToFile, NotNull, pipe_commands, job
  <2> QED BY <2>1, <2>2, <2>3 DEF Placed, AtJob, AtStage, AtProgram, Running
<1>4. CASE At("stage", "run") /\ execution("stage", Command(num)) /\ UNCHANGED << line, typed, loop, data >>
  <2>1. pc["stage"] = "run" /\ UNCHANGED << line, num, wrote, file, pos >>
    BY <1>4 DEF At, loop, data
  <2>2. /\ Looping /\ pc["job"] \notin {"open", "run"} /\ num \in Stages /\ wrote[num] = 0
        /\ job.append = FALSE
    BY <1>2, <2>1
  <2>3. out["stage"] = StageOutput
    BY <2>1, <2>2 DEF Looping, InStage
  <2>4. out["stage"][1] = "file" => ToFile /\ out["stage"][3] = FALSE
    BY <2>2, <2>3 DEF StageOutput, File, Pipe, Tty
  <2>5. out["stage"][1] = "file" => out["stage"][3] = FALSE /\ pos = 0
    BY <2>1, <2>4 DEF Placed, AtStage
  <2> QED BY <1>0, <1>4, <2>1, <2>2, <2>5, StartsAt
<1> QED BY <1>1, <1>3, <1>4 DEF Stage

LEMMA PlaceProgram ==
  ASSUME Base, LineInv, Regular(line), Undisturbed, Placed, Program
  PROVE  Placed'
<1> USE DEF Base, DataInv
<1>0. pc \in [Procs -> Label] /\ pc["shell"] # "dead"
  BY DEF TreeInv, Table, LineInv
<1>1. CASE Read \/ ReadEnd \/ ReadTty \/ ProgramEnds
  <2>1. /\ UNCHANGED << line, plan, ran, num, wrote, file, pos, out >> /\ Running
        /\ \A p \in {"job", "stage"} : pc'[p] = pc[p]
    BY <1>0, <1>1 DEF Read, ReadEnd, ReadTty, ProgramEnds, At, Exit, Goto, Running, Procs,
                      text, procs, descr, loop, data
  <2> QED BY <2>1, PlacesStay
<1>2. CASE Write
  <2>1. /\ Running /\ UNCHANGED << line, plan, ran, num, out, pc >>
        /\ wrote' = [wrote EXCEPT ![num] = @ + 1]
    BY <1>2 DEF Write, At, Running, text, procs, descr, loop
  <2>2. pc["job"] \notin {"open", "run"} /\ pc["stage"] # "run"
    BY <1>0, <2>1, NothingBelow DEF Running, Procs, Below
  <2>3. ASSUME out["prog"][1] = "file", ~ Appends(line)
        PROVE  /\ out["prog"][3] = FALSE /\ num \in Stages
               /\ pos' = wrote'[num] /\ Begins(out["prog"][2], pos)'
    <3>1. out["prog"][3] = FALSE /\ num \in Stages /\ pos = wrote[num] /\ Begins(out["prog"][2], pos)
      BY <2>1, <2>3 DEF Placed, AtProgram
    <3>2. out["prog"][2] \in DOMAIN file /\ WriteFile(out["prog"][2], FALSE)
      BY <1>2, <2>3, <3>1 DEF Write, Opened, Procs
    <3>3. /\ pos' = pos + 1 /\ pos + 1 <= Len(file'[out["prog"][2]])
          /\ \A i \in 1 .. pos + 1 : file'[out["prog"][2]][i] = Last(ran)
      BY <2>1, <3>1, <3>2, WriteOver
    <3>4. wrote'[num] = wrote[num] + 1
      BY <2>1, <3>1 DEF Numbers
    <3> QED BY <2>1, <3>1, <3>3, <3>4 DEF Begins
  <2>4. AtProgram'
    BY <2>1, <2>3 DEF AtProgram
  <2> QED BY <2>1, <2>2, <2>4 DEF Placed, AtJob, AtStage
<1> QED BY <1>1, <1>2 DEF Program

LEMMA NextPlaces == Base /\ LineInv /\ PlaceInv /\ [Next]_vars => PlaceInv'
<1> SUFFICES ASSUME Base, LineInv, PlaceInv, [Next]_vars PROVE PlaceInv'
  OBVIOUS
<1>1. NoFile'
  BY NextNoFile DEF Base, DataInv, PlaceInv
<1>2. ASSUME Regular(line)', Undisturbed' PROVE Placed'
  <2>1. CASE UNCHANGED vars
    <3>1. UNCHANGED << line, plan, ran, num, wrote, file, pos, out, pc, fails, killed >>
      BY <2>1 DEF vars, text, procs, descr, loop, data
    <3> QED BY <1>2, <3>1, PlacesStay DEF PlaceInv, Undisturbed, Running
  <2>2. CASE \E l \in Lines : Type(l)
    BY <1>2, <2>2, PlaceShell DEF PlaceInv, Shell, Prompt, ForkJob, WaitJob, Type, At, Waits
  <2>3. CASE \E p \in Procs : sigchld_handler(p)
    <3>1. PICK p \in Procs : sigchld_handler(p)
      BY <2>3
    <3>2. UNCHANGED << line, plan, ran, num, wrote, file, pos, out >> /\ fails' = fails
          /\ ~ KillAll(p)
      BY <1>2, <3>1 DEF sigchld_handler, text, loop, data, Reap, KillAll, descr, Undisturbed
    <3>3. Undisturbed /\ \A q \in Procs : pc'[q] = pc[q] \/ pc'[q] = "none"
      BY <1>2, <3>1, <3>2 DEF sigchld_handler, Reap, Undisturbed, Base, TreeInv, Table
    <3> QED BY <1>2, <3>2, <3>3, PlacesStay DEF PlaceInv, Running, Procs
  <2>4. CASE Shell \/ Job \/ Stage \/ Program
    <3>1. Undisturbed /\ line' = line /\ Regular(line)
      BY <1>2, <2>4, NextDisturbed
    <3> QED BY <1>2, <2>4, <3>1, PlaceShell, PlaceJob, PlaceStage, PlaceProgram DEF PlaceInv
  <2> QED BY <2>1, <2>2, <2>3, <2>4 DEF Next
<1> QED BY <1>1, <1>2 DEF PlaceInv

(***************************************************************************)
(* A single ">>" adds to its file (lines 262-281: O_APPEND and no          *)
(* O_TRUNC).  In every other line of the form that Regular describes, what *)
(* a program has written so far stands at the beginning of its file, and   *)
(* behind it what was there before: that is so with ">>" in a pipeline or  *)
(* after "<" too (line 217).  No file goes away.                           *)
(***************************************************************************)
THEOREM AddsToFiles == Spec => AddsOrOverwrites
<1> DEFINE Inv == Base /\ LineInv /\ Adding /\ PlaceInv
           Goal == \A f \in DOMAIN file :
                     /\ f \in DOMAIN file'
                     /\ IF Appends(line) THEN IsPrefix(file[f], file'[f])
                        ELSE (Regular(line) /\ Undisturbed /\ file'[f] # file[f]) =>
                               WrittenOver(file[f], file'[f], wrote'[num])
<1>1. Init => Inv
  <2>1. Init => Adding /\ PlaceInv
    BY DEF Init, Adding, PlaceInv, NoFile, Placed, AtJob, AtStage, AtProgram, Running, Procs, Tty
  <2> QED BY <2>1, InitLine
<1>2. Inv /\ [Next]_vars => Inv'
  BY NextBase, NextLine, NextAdds, NextPlaces DEF Base, DataInv
<1>3. Inv /\ [Next]_vars => Goal
  <2> SUFFICES ASSUME Inv, [Next]_vars, NEW f \in DOMAIN file
               PROVE  /\ f \in DOMAIN file'
                      /\ IF Appends(line) THEN IsPrefix(file[f], file'[f])
                         ELSE (Regular(line) /\ Undisturbed /\ file'[f] # file[f]) =>
                                WrittenOver(file[f], file'[f], wrote'[num])
    OBVIOUS
  <2> USE DEF Base, DataInv
  <2>1. f \in DOMAIN file'
    BY FilesStay, WriteOne
  <2>2. Appends(line) => IsPrefix(file[f], file'[f])
    BY AppendAdds
  <2>3. ASSUME ~ Appends(line), Regular(line), Undisturbed, file'[f] # file[f]
        PROVE  WrittenOver(file[f], file'[f], wrote'[num])
    <3>1. Write
      BY <2>3, FilesStay
    <3>2. out["prog"][1] = "file" /\ f = out["prog"][2] /\ Running /\ WriteFile(f, out["prog"][3])
      BY <2>3, <3>1, WriteOne
    <3>3. out["prog"][3] = FALSE /\ num \in Stages /\ pos = wrote[num] /\ Begins(f, pos)
      BY <2>3, <3>2 DEF PlaceInv, Placed, AtProgram
    <3>4. WrittenOver(file[f], file'[f], pos + 1)
      BY <3>2, <3>3, WriteOver
    <3>5. wrote'[num] = pos + 1
      BY <3>1, <3>3 DEF Write, Numbers
    <3> QED BY <3>4, <3>5
  <2> QED BY <2>1, <2>2, <2>3
<1>4. Inv /\ [Next]_vars => [Goal]_vars
  BY <1>3
<1> QED BY <1>1, <1>2, <1>4, PTL DEF Spec, AddsOrOverwrites, Appends
=============================================================================
