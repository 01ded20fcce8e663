-------------------------------- MODULE Cron --------------------------------
(***************************************************************************)
(* p6: a daemon that starts a job at a minute of the day.  The process     *)
(* that is to start it becomes the job, and its child goes on as the       *)
(* daemon.  Time is counted in ticks and goes round with the day.          *)
(*                                                                         *)
(* The crontab has its three fields, and nobody sets the clock.            *)
(***************************************************************************)
EXTENDS Integers, FiniteSets

CONSTANTS
  Seconds, Minutes, Hours,  \* ticks a minute, minutes an hour, hours a day
  Crontabs,                 \* the pairs [minute, hour] a crontab may hold, -1 for *
  Procs,                    \* bound: the processes there may be at a time
  MaxDelay,                 \* bound: ticks a turn of the loop takes, sleep() aside
  MaxFailures               \* bound: the calls of fork() that fail, and those of execl()

\* Waking up late, the turn and the next one's reading of the clock fit in a minute.
ASSUME CronAssumption ==
  /\ {Seconds, Minutes, Hours, MaxDelay} \subseteq Nat \ {0}
  /\ 2 * MaxDelay < Seconds /\ MaxFailures \in Nat
  /\ Crontabs \subseteq [minute : -1 .. Minutes - 1, hour : -1 .. Hours - 1]

DayMinutes == Minutes * Hours
Day == Seconds * DayMinutes

VARIABLES
  now,        \* the time of the day
  crontab,
  proc,       \* the processes: where in the loop, when the clock was read last,
              \* whether it has slept before, the sleep left, the time of this turn
  due,        \* the minutes for which a job was wanted and not started yet
  failed      \* how many calls of fork() and of execl() have failed

vars == << now, crontab, proc, due, failed >>

Minute(t) == t \div Seconds       \* of the day
tm_sec(t) == t % Seconds
tm_min(t) == Minute(t) % Minutes
tm_hour(t) == Minute(t) \div Minutes

\* Mutant: a * for the hour is not understood.
MatchesHour(t) == /\ crontab.minute \in {tm_min(t), -1}
                  /\ crontab.hour = tm_hour(t)

Matches(t) == /\ crontab.minute \in {tm_min(t), -1}
              /\ crontab.hour \in {tm_hour(t), -1}

\* The minutes of the day in which the crontab wants a job.
Wanted == {m \in 0 .. DayMinutes - 1 :
             \E h \in 0 .. Hours - 1, k \in 0 .. Minutes - 1 :
               /\ m = h * Minutes + k
               /\ crontab.hour \in {h, -1} /\ crontab.minute \in {k, -1}}

NoProc == [pc |-> "none", t |-> 0, slept |-> FALSE, left |-> 0, delay |-> 0]
Job == [NoProc EXCEPT !.pc = "job"]

Init ==
  /\ now \in 0 .. Day - 1
  /\ crontab \in Crontabs
  /\ \E p \in Procs :
       proc = [q \in Procs |-> IF q = p THEN [NoProc EXCEPT !.pc = "test", !.t = now]
                                        ELSE NoProc]
  /\ due = Wanted \cap {Minute(now)}
  /\ failed = [fork |-> 0, execl |-> 0]

Goto(p, label) == proc' = [proc EXCEPT ![p].pc = label]

-----------------------------------------------------------------------------
Skip(p) ==
  /\ proc[p].pc = "test" /\ ~ Matches(proc[p].t)
  /\ Goto(p, "read")
  /\ UNCHANGED << now, crontab, due, failed >>

\* execl() of the job, or its failure: the loop goes on then.  next is what
\* fork() has made of the processes, and of the failures.
Execl(p, next, failures) ==
  \/ /\ proc' = [next EXCEPT ![p] = Job]
     /\ due' = due \ {Minute(proc[p].t)}
     /\ failed' = failures
  \/ /\ failures.execl < MaxFailures
     /\ proc' = [next EXCEPT ![p].pc = "read"]
     /\ failed' = [failures EXCEPT !.execl = @ + 1]
     /\ UNCHANGED due

\* Mutant: the parent does not become the job but starts it from the loop.
StartInLoop(p) ==
  /\ proc[p].pc = "test" /\ Matches(proc[p].t)
  /\ \E q \in Procs : /\ proc[q].pc = "none"
                      /\ proc' = [proc EXCEPT ![q] = [proc[p] EXCEPT !.pc = "read"],
                                              ![p].pc = "read"]
  /\ due' = due \ {Minute(proc[p].t)}
  /\ UNCHANGED << now, crontab, failed >>

\* The parent starts the job; without a child, it does so all the same.
Start(p) ==
  /\ proc[p].pc = "test" /\ Matches(proc[p].t)
  /\ \/ \E q \in Procs :
          /\ proc[q].pc = "none"
          /\ Execl(p, [proc EXCEPT ![q] = [proc[p] EXCEPT !.pc = "read"]], failed)
     \/ /\ failed.fork < MaxFailures
        /\ Execl(p, proc, [failed EXCEPT !.fork = @ + 1])
  /\ UNCHANGED << now, crontab >>

Read(p) ==
  /\ proc[p].pc = "read"
  /\ proc' = [proc EXCEPT ![p].pc = "nap", ![p].t = now]
  /\ UNCHANGED << now, crontab, due, failed >>

\* Mutant: a minute from now, whatever the clock says.
SleepAMinute(p) ==
  /\ proc[p].pc = "nap"
  /\ proc' = [proc EXCEPT ![p] = [pc |-> "asleep", t |-> proc[p].t, slept |-> TRUE,
                                  left |-> Seconds, delay |-> 0]]
  /\ UNCHANGED << now, crontab, due, failed >>

\* What the clock said when it was read: sleep() itself may be called later.
Sleep(p) ==
  /\ proc[p].pc = "nap"
  /\ proc' = [proc EXCEPT ![p] = [pc |-> "asleep", t |-> proc[p].t, slept |-> TRUE,
                                  left |-> Seconds - tm_sec(proc[p].t), delay |-> 0]]
  /\ UNCHANGED << now, crontab, due, failed >>

Wake(p) ==
  /\ proc[p].pc = "asleep" /\ proc[p].left = 0
  /\ Goto(p, "test")
  /\ UNCHANGED << now, crontab, due, failed >>

JobEnds(p) ==
  /\ proc[p].pc = "job"
  /\ proc' = [proc EXCEPT ![p] = NoProc]
  /\ UNCHANGED << now, crontab, due, failed >>

Daemons == {p \in Procs : proc[p].pc \notin {"none", "job"}}

Tick ==
  /\ \A p \in Daemons : proc[p].left = 0 => proc[p].delay < MaxDelay
  /\ now' = (now + 1) % Day
  /\ proc' = [p \in Procs |->
                IF p \notin Daemons THEN proc[p]
                ELSE IF proc[p].left > 0 THEN [proc[p] EXCEPT !.left = @ - 1]
                ELSE [proc[p] EXCEPT !.delay = @ + 1]]
  /\ due' = IF Minute(now') = Minute(now) THEN due
            ELSE due \cup (Wanted \cap {Minute(now')})
  /\ UNCHANGED << crontab, failed >>

Next ==
  \/ Tick
  \/ \E p \in Procs : Skip(p) \/ Start(p) \/ Read(p) \/ Sleep(p) \/ Wake(p) \/ JobEnds(p)

Spec == Init /\ [][Next]_vars

-----------------------------------------------------------------------------
TypeOK ==
  /\ now \in 0 .. Day - 1
  /\ crontab \in Crontabs
  /\ proc \in [Procs -> [pc : {"none", "test", "read", "nap", "asleep", "job"},
                         t : 0 .. Day - 1, slept : BOOLEAN,
                         left : 0 .. Seconds, delay : 0 .. MaxDelay]]
  /\ due \subseteq 0 .. DayMinutes - 1
  /\ failed \in [fork : 0 .. MaxFailures, execl : 0 .. MaxFailures]

Following(m) == (m + 1) % DayMinutes

(***************************************************************************)
(* From one turn to the next the clock is in the following minute, over    *)
(* midnight too: the sleep takes up the time of the turn (line 86), so     *)
(* that no minute is left out and none is tested twice.  The first turn is *)
(* the exception: it tests what was read before the loop, and the second   *)
(* may test the same minute again.                                         *)
(***************************************************************************)
EachMinuteOnce ==
  [][\A p \in Procs :
       (proc[p].pc = "read" /\ proc'[p].pc = "nap") =>
         LET last == Minute(proc[p].t) IN
         Minute(proc'[p].t) \in {Following(last)} \cup (IF proc[p].slept THEN {} ELSE {last})]_vars

NoneFailed == failed.fork = 0 /\ failed.execl = 0

(***************************************************************************)
(* A job that is wanted is started by the end of the minute after, since   *)
(* what is tested was read before the sleep (lines 84-86): no minute is    *)
(* missed, and none is later than one, as long as the calls succeed.       *)
(***************************************************************************)
NoneMissed ==
  NoneFailed => \A m \in due : Minute(now) \in {m, Following(m)}

(***************************************************************************)
(* How many daemons there are, after any failures: a fork() that fails     *)
(* takes one away, since it is taken for the parent and becomes the job    *)
(* (lines 74-79); an execl() that fails adds one, since its process goes   *)
(* on with the loop as its child does (line 80); and when both fail there  *)
(* are as many as before.  One, while the calls succeed.                   *)
(***************************************************************************)
OneDaemon ==
  Cardinality(Daemons) = 1 - failed.fork + failed.execl
=============================================================================
