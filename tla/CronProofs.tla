----------------------------- MODULE CronProofs -----------------------------
(***************************************************************************)
(* The daemon of p6 is one process and stays one, and tests each minute of *)
(* the clock once, for any clock, crontab and number of processes.         *)
(***************************************************************************)
EXTENDS Cron, FiniteSetTheorems, TLAPS

Labels == {"none", "test", "read", "nap", "asleep", "job"}

Process == [pc : Labels, t : 0 .. Day - 1, slept : BOOLEAN,
            left : 0 .. Seconds, delay : 0 .. MaxDelay]

Failures == [fork : 0 .. MaxFailures, execl : 0 .. MaxFailures]

DInv == TypeOK /\ IsFiniteSet(Daemons) /\ OneDaemon

\* While the calls succeed, the daemon is one process.
LEMMA Alone ==
  ASSUME DInv, NoneFailed
  PROVE  \E d \in Procs : Daemons = {d}
<1>1. Cardinality(Daemons) = 1
  BY DEF DInv, OneDaemon, NoneFailed
<1>2. PICK d : Daemons = {d}
  BY <1>1, FS_Singleton DEF DInv
<1> QED BY <1>2 DEF Daemons

\* What the proofs use of the constants, and of a time.
LEMMA Numbers ==
  /\ Seconds \in Nat \ {0} /\ Day \in Nat \ {0} /\ MaxDelay \in Nat
  /\ \A t \in 0 .. Day - 1 : Seconds - tm_sec(t) \in 0 .. Seconds
<1>1. Seconds \in Nat \ {0} /\ Minutes * Hours \in Nat \ {0} /\ MaxDelay \in Nat
  BY CronAssumption
<1>2. Day \in Nat \ {0}
  BY <1>1 DEF Day, DayMinutes
<1>3. \A t \in 0 .. Day - 1 : Seconds - tm_sec(t) \in 0 .. Seconds
  BY <1>1, <1>2 DEF tm_sec
<1> QED BY <1>1, <1>2, <1>3

\* TypeOK in the words of this module.
LEMMA Typed ==
  TypeOK <=> /\ now \in 0 .. Day - 1 /\ crontab \in Crontabs
             /\ proc \in [Procs -> Process]
             /\ due \subseteq 0 .. DayMinutes - 1 /\ failed \in Failures
BY DEF TypeOK, Process, Labels, Failures

LEMMA NoneAndJob ==
  /\ NoProc \in Process /\ NoProc.pc = "none"
  /\ Job \in Process /\ Job.pc = "job"
<1>1. NoProc \in Process /\ NoProc.pc = "none"
  <2>1. 0 \in 0 .. Day - 1 /\ 0 \in 0 .. Seconds /\ 0 \in 0 .. MaxDelay
    BY Numbers
  <2>2. NoProc \in Process
    BY <2>1, Zenon DEF NoProc, Process, Labels
  <2> QED BY <2>2 DEF NoProc
<1>2. Job \in Process /\ Job.pc = "job"
  BY <1>1 DEF Job, Process, Labels
<1> QED BY <1>1, <1>2

LEMMA InitDInv == Init => DInv
<1> SUFFICES ASSUME Init PROVE DInv
  OBVIOUS
<1>1. now \in 0 .. Day - 1
  BY DEF Init
<1>2. PICK p \in Procs :
        proc = [q \in Procs |-> IF q = p THEN [NoProc EXCEPT !.pc = "test", !.t = now]
                                         ELSE NoProc]
  BY DEF Init
<1>3. /\ [NoProc EXCEPT !.pc = "test", !.t = now] \in Process
      /\ [NoProc EXCEPT !.pc = "test", !.t = now].pc = "test"
  BY <1>1, NoneAndJob DEF Process, Labels
<1>4. proc \in [Procs -> Process]
  BY <1>2, <1>3, NoneAndJob
<1>5. due \subseteq 0 .. DayMinutes - 1 /\ crontab \in Crontabs /\ failed \in Failures
  BY CronAssumption DEF Init, Wanted, Failures
<1>6. TypeOK
  BY <1>1, <1>4, <1>5, Typed
<1>7. Daemons = {p}
  BY <1>2, <1>3, NoneAndJob DEF Daemons
<1>8. failed.fork = 0 /\ failed.execl = 0
  BY DEF Init
<1>9. IsFiniteSet({p}) /\ Cardinality({p}) = 1
  BY FS_Singleton
<1> QED BY <1>6, <1>7, <1>8, <1>9 DEF DInv, OneDaemon

\* A step within the loop, or at the end of a job: who is a daemon stays one.
LEMMA SameDaemons ==
  ASSUME DInv, now' \in 0 .. Day - 1, proc' \in [Procs -> Process],
         UNCHANGED << crontab, failed >>, due' \subseteq 0 .. DayMinutes - 1,
         \A q \in Procs : proc'[q].pc \in {"none", "job"} <=> proc[q].pc \in {"none", "job"}
  PROVE  DInv'
<1>1. Daemons' = Daemons
  BY DEF Daemons
<1>2. TypeOK'
  BY Typed DEF DInv, TypeOK, Process, Labels, DayMinutes, Day
<1> QED BY <1>1, <1>2 DEF DInv, OneDaemon

LEMMA LoopStep ==
  ASSUME DInv, NEW p \in Procs, Skip(p) \/ Read(p) \/ Sleep(p) \/ Wake(p) \/ JobEnds(p)
  PROVE  DInv'
<1>1. /\ proc \in [Procs -> Process] /\ now \in 0 .. Day - 1 /\ now' \in 0 .. Day - 1
      /\ UNCHANGED << crontab, failed >> /\ due' \subseteq 0 .. DayMinutes - 1
  BY Typed DEF DInv, Skip, Read, Sleep, Wake, JobEnds
<1>2. CASE Skip(p) \/ Wake(p) \/ Read(p)
  <2>1. PICK l \in {"read", "test", "nap"}, t \in 0 .. Day - 1 :
          proc' = [proc EXCEPT ![p] = [@ EXCEPT !.pc = l, !.t = t]]
    <3>1. proc[p].t \in 0 .. Day - 1
      BY <1>1 DEF Process
    <3>2. CASE Skip(p) \/ Wake(p)
      <4>1. PICK l \in {"read", "test"} : proc' = [proc EXCEPT ![p].pc = l]
        BY <3>2 DEF Skip, Wake, Goto
      <4>2. [proc[p] EXCEPT !.pc = l] = [proc[p] EXCEPT !.pc = l, !.t = proc[p].t]
        BY <1>1 DEF Process
      <4> QED BY <3>1, <4>1, <4>2
    <3>3. CASE Read(p)
      BY <1>1, <3>3 DEF Read
    <3> QED BY <1>2, <3>2, <3>3
  <2>2. /\ [proc[p] EXCEPT !.pc = l, !.t = t] \in Process
        /\ [proc[p] EXCEPT !.pc = l, !.t = t].pc = l
    BY <1>1 DEF Process, Labels
  <2>3. proc[p].pc \notin {"none", "job"}
    BY <1>2 DEF Skip, Wake, Read
  <2> QED BY <1>1, <2>1, <2>2, <2>3, SameDaemons
<1>3. CASE Sleep(p)
  <2> DEFINE r == [pc |-> "asleep", t |-> proc[p].t, slept |-> TRUE,
                   left |-> Seconds - tm_sec(proc[p].t), delay |-> 0]
  <2>1. proc[p].t \in 0 .. Day - 1 /\ 0 \in 0 .. MaxDelay
    BY <1>1, Numbers DEF Process
  <2>2. Seconds - tm_sec(proc[p].t) \in 0 .. Seconds
    BY <2>1, Numbers
  <2>3. r \in Process /\ r.pc = "asleep"
    BY <2>1, <2>2 DEF Process, Labels
  <2>4. proc' = [proc EXCEPT ![p] = r] /\ proc[p].pc = "nap"
    BY <1>3 DEF Sleep
  <2> HIDE DEF r
  <2> QED BY <1>1, <2>3, <2>4, SameDaemons
<1>4. CASE JobEnds(p)
  <2>1. proc' = [proc EXCEPT ![p] = NoProc] /\ proc[p].pc = "job"
    BY <1>4 DEF JobEnds
  <2> QED BY <1>1, <2>1, NoneAndJob, SameDaemons
<1> QED BY <1>2, <1>3, <1>4

LEMMA TickStep ==
  ASSUME DInv, Tick
  PROVE  DInv'
<1>1. /\ proc \in [Procs -> Process] /\ now \in 0 .. Day - 1
      /\ UNCHANGED << crontab, failed >> /\ due' \subseteq 0 .. DayMinutes - 1
  BY Typed DEF DInv, Tick, Wanted
<1>2. now' \in 0 .. Day - 1
  BY <1>1, Numbers DEF Tick
<1>3. ASSUME NEW q \in Procs
      PROVE  proc'[q] \in Process /\ proc'[q].pc = proc[q].pc
  <2>1. CASE proc'[q] = proc[q]
    BY <1>1, <2>1
  <2>2. CASE proc[q].left > 0 /\ proc'[q] = [proc[q] EXCEPT !.left = @ - 1]
    BY <1>1, <2>2, Numbers DEF Process
  <2>3. CASE /\ proc[q].delay < MaxDelay
             /\ proc'[q] = [proc[q] EXCEPT !.delay = @ + 1]
    BY <1>1, <2>3, Numbers DEF Process
  <2>4. proc[q].left \in 0 .. Seconds
    BY <1>1 DEF Process
  <2>5. proc[q].left > 0 \/ proc[q].left = 0
    BY <2>4, Numbers
  <2> QED BY <2>1, <2>2, <2>3, <2>5 DEF Tick
<1>4. proc' \in [Procs -> Process]
  <2>1. proc' = [q \in Procs |-> proc'[q]]
    BY DEF Tick
  <2> QED BY <1>3, <2>1
<1> QED BY <1>1, <1>2, <1>3, <1>4, SameDaemons

DaemonsOf(next) == {r \in Procs : next[r].pc \notin {"none", "job"}}

\* What fork() makes of the processes: the child, if there is one, is a daemon too.
LEMMA Forked ==
  ASSUME DInv, NEW p \in Daemons, NEW next, NEW failures,
         \/ /\ failures = failed
            /\ \E q \in Procs : /\ proc[q].pc = "none"
                                /\ next = [proc EXCEPT ![q] = [proc[p] EXCEPT !.pc = "read"]]
         \/ /\ failures = [failed EXCEPT !.fork = @ + 1] /\ failed.fork < MaxFailures
            /\ next = proc
  PROVE  /\ next \in [Procs -> Process] /\ failures \in Failures
         /\ p \in DaemonsOf(next) /\ IsFiniteSet(DaemonsOf(next))
         /\ Cardinality(DaemonsOf(next)) = 2 - failures.fork + failures.execl
<1>1. /\ proc \in [Procs -> Process] /\ failed \in Failures /\ p \in Procs
      /\ Daemons = DaemonsOf(proc) /\ IsFiniteSet(Daemons) /\ MaxFailures \in Nat
      /\ Cardinality(Daemons) = 1 - failed.fork + failed.execl
  BY Typed, CronAssumption DEF DInv, OneDaemon, Daemons, DaemonsOf
<1>2. CASE /\ failures = failed
           /\ \E q \in Procs : /\ proc[q].pc = "none"
                               /\ next = [proc EXCEPT ![q] = [proc[p] EXCEPT !.pc = "read"]]
  <2>1. PICK q \in Procs : /\ proc[q].pc = "none"
                           /\ next = [proc EXCEPT ![q] = [proc[p] EXCEPT !.pc = "read"]]
    BY <1>2
  <2>2. /\ [proc[p] EXCEPT !.pc = "read"] \in Process
        /\ [proc[p] EXCEPT !.pc = "read"].pc = "read"
    BY <1>1 DEF Process, Labels
  <2>3. /\ next \in [Procs -> Process] /\ next[q].pc = "read"
        /\ \A r \in Procs : r # q => next[r] = proc[r]
    BY <1>1, <2>1, <2>2
  <2>4. q \notin DaemonsOf(proc) /\ DaemonsOf(next) = DaemonsOf(proc) \cup {q}
    BY <1>1, <2>1, <2>3 DEF DaemonsOf
  <2>5. /\ IsFiniteSet(Daemons \cup {q})
        /\ Cardinality(Daemons \cup {q}) = Cardinality(Daemons) + 1
    <3>1. IsFiniteSet(Daemons) /\ q \notin Daemons
      BY <1>1, <2>4
    <3> QED BY <3>1, FS_AddElement
  <2>6. failures.fork \in Nat /\ failures.execl \in Nat
    BY <1>1, <1>2 DEF Failures
  <2>7. p \in DaemonsOf(next)
    BY <1>1, <2>4
  <2>8. DaemonsOf(next) = Daemons \cup {q}
    BY <1>1, <2>4
  <2>9. Cardinality(DaemonsOf(next)) = 2 - failures.fork + failures.execl
    <3>1. Cardinality(DaemonsOf(next)) = Cardinality(Daemons) + 1
      BY <2>5, <2>8
    <3>2. failures = failed /\ Cardinality(Daemons) = 1 - failed.fork + failed.execl
      BY <1>1, <1>2
    <3> QED BY <2>6, <3>1, <3>2
  <2> QED BY <1>1, <1>2, <2>3, <2>5, <2>7, <2>8, <2>9
<1>3. CASE /\ failures = [failed EXCEPT !.fork = @ + 1] /\ failed.fork < MaxFailures
           /\ next = proc
  BY <1>1, <1>3 DEF Failures
<1> QED BY <1>2, <1>3

\* The parent becomes the job, or goes on with the loop as its child does.
LEMMA StartStep ==
  ASSUME DInv, NEW p \in Procs, Start(p)
  PROVE  DInv'
<1>1. /\ proc \in [Procs -> Process] /\ now' = now /\ now \in 0 .. Day - 1
      /\ p \in Daemons /\ UNCHANGED crontab /\ crontab \in Crontabs
      /\ due' \subseteq 0 .. DayMinutes - 1 /\ Daemons' = DaemonsOf(proc') /\ MaxFailures \in Nat
  BY Typed, CronAssumption DEF DInv, Start, Execl, Daemons, DaemonsOf
<1>2. PICK next, failures :
        /\ Execl(p, next, failures)
        /\ \/ /\ failures = failed
              /\ \E q \in Procs : /\ proc[q].pc = "none"
                                  /\ next = [proc EXCEPT ![q] = [proc[p] EXCEPT !.pc = "read"]]
           \/ /\ failures = [failed EXCEPT !.fork = @ + 1] /\ failed.fork < MaxFailures
              /\ next = proc
  BY DEF Start
<1>3. /\ next \in [Procs -> Process] /\ failures \in Failures
      /\ p \in DaemonsOf(next) /\ IsFiniteSet(DaemonsOf(next))
      /\ Cardinality(DaemonsOf(next)) = 2 - failures.fork + failures.execl
  BY <1>1, <1>2, Forked
<1>4. CASE proc' = [next EXCEPT ![p] = Job] /\ failed' = failures
  <2>1. proc' \in [Procs -> Process] /\ Daemons' = DaemonsOf(next) \ {p}
    BY <1>1, <1>3, <1>4, NoneAndJob DEF DaemonsOf
  <2>2. IsFiniteSet(Daemons') /\ Cardinality(Daemons') = Cardinality(DaemonsOf(next)) - 1
    BY <1>3, <2>1, FS_RemoveElement
  <2>3. TypeOK'
    BY <1>1, <1>3, <1>4, <2>1 DEF TypeOK, Process, Labels, Failures
  <2>4. OneDaemon'
    BY <1>3, <1>4, <2>2 DEF OneDaemon, Failures
  <2> QED BY <2>2, <2>3, <2>4 DEF DInv
<1>5. CASE /\ failures.execl < MaxFailures
           /\ proc' = [next EXCEPT ![p].pc = "read"]
           /\ failed' = [failures EXCEPT !.execl = @ + 1]
  <2>1. proc' \in [Procs -> Process] /\ Daemons' = DaemonsOf(next)
    <3>1. /\ [next[p] EXCEPT !.pc = "read"] \in Process
          /\ [next[p] EXCEPT !.pc = "read"].pc = "read"
      BY <1>1, <1>3 DEF Process, Labels
    <3> QED BY <1>1, <1>3, <1>5, <3>1 DEF DaemonsOf
  <2>2. failed' \in Failures /\ failed'.fork = failures.fork
        /\ failed'.execl = failures.execl + 1
    BY <1>1, <1>3, <1>5 DEF Failures
  <2>3. TypeOK'
    BY <1>1, <2>1, <2>2 DEF TypeOK, Process, Labels, Failures
  <2>4. OneDaemon'
    BY <1>3, <2>1, <2>2 DEF OneDaemon, Failures
  <2> QED BY <1>3, <2>1, <2>3, <2>4 DEF DInv
<1> QED BY <1>2, <1>4, <1>5 DEF Execl

LEMMA NextDInv == DInv /\ [Next]_vars => DInv'
<1> SUFFICES ASSUME DInv, [Next]_vars PROVE DInv'
  OBVIOUS
<1>1. CASE UNCHANGED vars
  BY <1>1 DEF vars, DInv, TypeOK, OneDaemon, Daemons
<1> QED BY <1>1, TickStep, LoopStep, StartStep DEF Next

(***************************************************************************)
(* The variables have their types: a sleep is never longer than a minute   *)
(* and never negative (line 86).                                           *)
(***************************************************************************)
THEOREM TypeCorrect == Spec => []TypeOK
<1>1. DInv => TypeOK
  BY DEF DInv
<1> QED BY <1>1, InitDInv, NextDInv, PTL DEF Spec

(***************************************************************************)
(* After any failures of fork() and execl(), there are as many daemons as  *)
(* they have left: one while none fails, since the parent starts the job   *)
(* in its own place and the child goes on (p6 lines 73-81).                *)
(***************************************************************************)
THEOREM DaemonIsOne == Spec => []OneDaemon
<1>1. DInv => OneDaemon
  BY DEF DInv
<1> QED BY <1>1, InitDInv, NextDInv, PTL DEF Spec

-----------------------------------------------------------------------------
\* Quotient and remainder by any number of ticks.
LEMMA Quotient ==
  ASSUME NEW s \in Nat \ {0}, NEW m \in Nat, NEW r \in 0 .. s - 1
  PROVE  ((s * m + r) \div s) = m /\ ((s * m + r) % s) = r
<1> DEFINE x == s * m + r
           q == x \div s
<1>1. x \in Nat
  OBVIOUS
<1>2. q \in Int /\ x = s * q + (x % s) /\ x % s \in 0 .. s - 1
  BY <1>1
<1>3. s * (m + 1) = s * m + s /\ s * (q + 1) = s * q + s
  BY <1>2
<1>4. ASSUME q < m PROVE FALSE
  <2>1. s * (q + 1) <= s * m
    BY <1>2, <1>4
  <2> QED BY <1>2, <1>3, <2>1
<1>5. ASSUME q > m PROVE FALSE
  <2>1. s * (m + 1) <= s * q
    BY <1>2, <1>5
  <2> QED BY <1>2, <1>3, <2>1
<1> QED BY <1>2, <1>4, <1>5

LEMMA Parts ==
  ASSUME NEW s \in Nat \ {0}, NEW d \in Nat \ {0}, NEW x \in 0 .. s * d - 1
  PROVE  /\ x \div s \in 0 .. d - 1 /\ x % s \in 0 .. s - 1
         /\ x = s * (x \div s) + (x % s)
<1> DEFINE q == x \div s
<1>2. q \in Int /\ x = s * q + (x % s) /\ x % s \in 0 .. s - 1
  OBVIOUS
<1>4. ASSUME q < 0 PROVE FALSE
  <2>1. s * (q + 1) <= s * 0 /\ s * (q + 1) = s * q + s
    BY <1>2, <1>4
  <2> QED BY <1>2, <2>1
<1>5. ASSUME q >= d PROVE FALSE
  <2>1. s * d <= s * q
    BY <1>2, <1>5
  <2> QED BY <1>2, <2>1
<1> QED BY <1>2, <1>4, <1>5

\* One tick after another, counted round the day.
LEMMA Successor ==
  ASSUME NEW d \in Nat \ {0}, NEW x \in Nat
  PROVE  (x + 1) % d = ((x % d) + 1) % d
<1> DEFINE n == x \div d
           r == x % d
<1>1. n \in Nat /\ r \in 0 .. d - 1 /\ x = d * n + r
  <2>1. d * (x + 1) = d * x + d /\ d * x >= x
    OBVIOUS
  <2>2. x \in 0 .. d * (x + 1) - 1 /\ x + 1 \in Nat \ {0}
    BY <2>1
  <2> QED BY <2>2, Parts
<1> HIDE DEF n, r
<1>2. CASE r + 1 < d
  <2>1. x + 1 = d * n + (r + 1) /\ r + 1 \in 0 .. d - 1 /\ r + 1 = d * 0 + (r + 1) /\ 0 \in Nat
    BY <1>1, <1>2
  <2>2. ((d * n + (r + 1)) % d) = r + 1 /\ ((d * 0 + (r + 1)) % d) = r + 1
    BY <1>1, <2>1, Quotient
  <2> QED BY <2>1, <2>2 DEF r
<1>3. CASE r + 1 = d
  <2>1. d * (n + 1) = d * n + d /\ d * 1 = d /\ 0 \in 0 .. d - 1 /\ 1 \in Nat /\ n + 1 \in Nat
    BY <1>1
  <2>2. x + 1 = d * (n + 1) + 0 /\ r + 1 = d * 1 + 0
    BY <1>1, <1>3, <2>1
  <2>3. ((d * (n + 1) + 0) % d) = 0 /\ ((d * 1 + 0) % d) = 0
    BY <2>1, Quotient
  <2> QED BY <2>2, <2>3 DEF r
<1> QED BY <1>1, <1>2, <1>3

\* The minute the clock shows a while after t, within the following minute.
LEMMA Clock ==
  ASSUME NEW t \in 0 .. Day - 1, NEW a \in Nat, tm_sec(t) + a < 2 * Seconds
  PROVE  Minute((t + a) % Day) =
           IF tm_sec(t) + a < Seconds THEN Minute(t) ELSE Following(Minute(t))
<1> DEFINE m == Minute(t)
           e == tm_sec(t) + a
<1>1. Seconds \in Nat \ {0} /\ DayMinutes \in Nat \ {0} /\ Day = Seconds * DayMinutes
  BY CronAssumption DEF Day, DayMinutes
<1>2. m \in 0 .. DayMinutes - 1 /\ tm_sec(t) \in 0 .. Seconds - 1 /\ t = Seconds * m + tm_sec(t)
  BY <1>1, Parts DEF Minute, tm_sec
<1>3. e \in Nat /\ t + a = Seconds * m + e
  BY <1>1, <1>2
<1>4. ASSUME NEW n \in 0 .. DayMinutes - 1, NEW r \in 0 .. Seconds - 1
      PROVE  /\ Seconds * n + r \in 0 .. Day - 1
             /\ Minute((Seconds * n + r) % Day) = n
  <2>1. Seconds * (n + 1) <= Seconds * DayMinutes /\ Seconds * (n + 1) = Seconds * n + Seconds
        /\ Seconds * n \in Nat
    BY <1>1
  <2>2. Seconds * n + r \in 0 .. Day - 1
    BY <1>1, <2>1
  <2>3. ((Seconds * n + r) % Day) = Seconds * n + r
    BY <1>1, <2>2
  <2>4. n \in Nat
    BY <1>1
  <2> QED BY <1>1, <2>2, <2>3, <2>4, Quotient DEF Minute
<1>5. CASE e < Seconds
  BY <1>1, <1>2, <1>3, <1>4, <1>5
<1>6. CASE e >= Seconds /\ m + 1 < DayMinutes
  <2>1. t + a = Seconds * (m + 1) + (e - Seconds) /\ e - Seconds \in 0 .. Seconds - 1
    BY <1>1, <1>2, <1>3, <1>6
  <2>2. Following(m) = m + 1 /\ m + 1 \in 0 .. DayMinutes - 1
    BY <1>1, <1>2, <1>6 DEF Following
  <2>3. Minute((t + a) % Day) = m + 1
    BY <1>4, <2>1, <2>2
  <2> QED BY <1>1, <1>3, <1>6, <2>2, <2>3
<1>7. CASE e >= Seconds /\ m + 1 = DayMinutes
  <2> DEFINE r == e - Seconds
  <2>1. Seconds * (m + 1) = Seconds * m + Seconds
    BY <1>1, <1>2
  <2>2. t + a = Day + r /\ r \in 0 .. Seconds - 1
    BY <1>1, <1>2, <1>3, <1>7, <2>1
  <2>3. Seconds * 0 + r = r /\ 0 \in 0 .. DayMinutes - 1
    BY <1>1, <2>2
  <2>4. r \in 0 .. Day - 1 /\ Minute(r % Day) = 0
    BY <1>4, <2>2, <2>3
  <2>5. ((Day + r) % Day) = r /\ (r % Day) = r
    <3>1. Day \in Nat \ {0}
      BY Numbers
    <3>2. Day + r = Day * 1 + r /\ r = Day * 0 + r /\ 0 \in Nat /\ 1 \in Nat
      BY <2>4, <3>1
    <3>3. ((Day * 1 + r) % Day) = r /\ ((Day * 0 + r) % Day) = r
      BY <2>4, <3>1, <3>2, Quotient
    <3> QED BY <3>2, <3>3
  <2>6. Following(m) = 0
    BY <1>1, <1>7 DEF Following
  <2> QED BY <1>1, <1>3, <1>7, <2>2, <2>4, <2>5, <2>6
<1> QED BY <1>1, <1>2, <1>3, <1>5, <1>6, <1>7

\* A crontab that matches a time wants a job in its minute.
LEMMA MatchIsWanted ==
  ASSUME NEW t \in 0 .. Day - 1
  PROVE  Matches(t) <=> Minute(t) \in Wanted
<1>1. /\ Seconds \in Nat \ {0} /\ Minutes \in Nat \ {0} /\ Hours \in Nat \ {0}
      /\ DayMinutes = Minutes * Hours /\ DayMinutes \in Nat \ {0}
  BY CronAssumption DEF DayMinutes
<1>2. Minute(t) \in 0 .. DayMinutes - 1
  BY <1>1, Parts DEF Minute, Day
<1>3. /\ tm_hour(t) \in 0 .. Hours - 1 /\ tm_min(t) \in 0 .. Minutes - 1
      /\ Minute(t) = Minutes * tm_hour(t) + tm_min(t)
  BY <1>1, <1>2, Parts DEF tm_hour, tm_min
<1>4. ASSUME NEW h \in 0 .. Hours - 1, NEW k \in 0 .. Minutes - 1, Minute(t) = h * Minutes + k
      PROVE  h = tm_hour(t) /\ k = tm_min(t)
  <2>1. h \in Nat /\ h * Minutes = Minutes * h
    BY <1>1
  <2> QED BY <1>1, <1>4, <2>1, Quotient DEF tm_hour, tm_min
<1>5. Minute(t) = tm_hour(t) * Minutes + tm_min(t)
  BY <1>1, <1>3
<1> QED BY <1>2, <1>3, <1>4, <1>5 DEF Matches, Wanted

-----------------------------------------------------------------------------
(***************************************************************************)
(* How old the reading of the clock is: a turn that follows a sleep is in  *)
(* the minute after the one that was read, later by the delays of the      *)
(* sleep and of the turn; before a sleep, it is as old as the turn.        *)
(***************************************************************************)
Timed(r, a) ==
  /\ r.left > 0 => r.pc = "asleep" /\ r.delay = 0
  /\ r.pc = "asleep" => r.slept
  /\ IF r.slept /\ r.pc # "nap"
     THEN /\ tm_sec(r.t) + a + r.left >= Seconds + r.delay
          /\ tm_sec(r.t) + a + r.left <= Seconds + r.delay + MaxDelay
     ELSE a <= r.delay

Aged(d) == \E a \in Nat : now = (proc[d].t + a) % Day /\ Timed(proc[d], a)

InTime == \A d \in Daemons : Aged(d)

LEMMA Bounds ==
  ASSUME NEW r \in Process, NEW a \in Nat, Timed(r, a)
  PROVE  /\ tm_sec(r.t) \in 0 .. Seconds - 1 /\ r.t \in 0 .. Day - 1
         /\ r.left \in Nat /\ r.delay \in Nat /\ r.delay <= MaxDelay
         /\ tm_sec(r.t) + a < 2 * Seconds
         /\ r.slept /\ r.pc # "nap" /\ r.left = 0 => tm_sec(r.t) + a >= Seconds
<1>1. /\ Seconds \in Nat /\ Seconds > 0 /\ MaxDelay \in Nat /\ 2 * MaxDelay < Seconds
      /\ DayMinutes \in Nat \ {0} /\ Day = Seconds * DayMinutes
  BY CronAssumption DEF Day, DayMinutes
<1>2. /\ r.t \in 0 .. Day - 1 /\ r.left \in Nat /\ r.delay \in Nat /\ r.delay <= MaxDelay
  BY <1>1 DEF Process
<1>3. tm_sec(r.t) \in 0 .. Seconds - 1
  <2>1. Seconds \in Nat \ {0} /\ r.t \in 0 .. Seconds * DayMinutes - 1
    BY <1>1, <1>2
  <2> QED BY <1>1, <2>1, Parts DEF tm_sec
<1> QED BY <1>1, <1>2, <1>3 DEF Timed

\* The clock shows the minute that was read, or the one after.
LEMMA Shows ==
  ASSUME NEW r \in Process, NEW a \in Nat, Timed(r, a), now = (r.t + a) % Day
  PROVE  Minute(now) = IF tm_sec(r.t) + a < Seconds THEN Minute(r.t) ELSE Following(Minute(r.t))
BY Bounds, Clock

LEMMA InitInTime == Init => InTime
<1> SUFFICES ASSUME Init PROVE InTime
  OBVIOUS
<1>1. now \in 0 .. Day - 1 /\ Day \in Nat \ {0}
  BY Numbers DEF Init
<1>2. PICK p \in Procs :
        proc = [q \in Procs |-> IF q = p THEN [NoProc EXCEPT !.pc = "test", !.t = now]
                                         ELSE NoProc]
  BY DEF Init
<1>3. Daemons = {p}
  BY <1>2 DEF Daemons, NoProc
<1>4. proc[p] = [pc |-> "test", t |-> now, slept |-> FALSE, left |-> 0, delay |-> 0]
  BY <1>2 DEF NoProc
<1>5. now = (proc[p].t + 0) % Day
  BY <1>1, <1>4
<1>6. Timed(proc[p], 0)
  BY <1>4 DEF Timed
<1> QED BY <1>3, <1>5, <1>6 DEF InTime, Aged

\* What a step of p may do to a daemon that InTime speaks of.
LEMMA StillAged ==
  ASSUME NEW d \in Procs, NEW e \in Procs, now' = now, Aged(d),
         proc'[e] = [proc[d] EXCEPT !.pc = "test"] \/ proc'[e] = [proc[d] EXCEPT !.pc = "read"],
         proc[d] \in Process, proc[d].pc \in {"test", "read", "asleep"},
         proc[d].left = 0
  PROVE  Aged(e)'
<1>1. PICK a \in Nat : now = (proc[d].t + a) % Day /\ Timed(proc[d], a)
  BY DEF Aged
<1>2. /\ proc'[e].pc \in {"test", "read"} /\ proc'[e].t = proc[d].t
      /\ proc'[e].left = 0 /\ proc'[e].delay = proc[d].delay /\ proc'[e].slept = proc[d].slept
  BY DEF Process
<1>3. Timed(proc'[e], a)
  BY <1>1, <1>2 DEF Timed
<1> QED BY <1>1, <1>2, <1>3 DEF Aged

LEMMA TickAged ==
  ASSUME TypeOK, Tick, NEW e \in Procs, proc'[e].pc \notin {"none", "job"},
         NEW a \in Nat, now = (proc[e].t + a) % Day, Timed(proc[e], a)
  PROVE  /\ now' = (proc[e].t + (a + 1)) % Day
         /\ proc'[e].pc = proc[e].pc /\ proc'[e].t = proc[e].t /\ proc'[e].slept = proc[e].slept
         /\ Timed(proc'[e], a + 1)
<1>0. /\ proc \in [Procs -> Process] /\ now \in 0 .. Day - 1 /\ Day \in Nat \ {0}
  BY Typed, Numbers
<1>2. now' = (proc[e].t + (a + 1)) % Day
  <2>1. proc[e].t + a \in Nat /\ proc[e].t + (a + 1) = (proc[e].t + a) + 1
    BY <1>0 DEF Process
  <2>2. now' = (now + 1) % Day
    BY DEF Tick
  <2> QED BY <1>0, <2>1, <2>2, Successor
<1>3. /\ proc'[e].pc = proc[e].pc /\ proc'[e].t = proc[e].t /\ proc'[e].slept = proc[e].slept
      /\ Timed(proc'[e], a + 1)
  <2> DEFINE r == proc[e]
  <2>1. /\ r \in Process /\ r.left \in Nat /\ r.delay \in Nat
        /\ tm_sec(r.t) \in 0 .. Seconds - 1 /\ Seconds \in Nat /\ MaxDelay \in Nat
    BY <1>0, Bounds, Numbers
  <2>2. e \in Daemons
    BY <1>0 DEF Tick, Daemons, Process
  <2>3. CASE r.left > 0
    <3>1. /\ proc'[e].pc = r.pc /\ proc'[e].t = r.t /\ proc'[e].slept = r.slept
          /\ proc'[e].left = r.left - 1 /\ proc'[e].delay = r.delay
      BY <1>0, <2>2, <2>3 DEF Tick, Process
    <3> HIDE DEF r
    <3>2. r.pc = "asleep" /\ r.slept /\ r.delay = 0
      BY <2>3 DEF Timed, r
    <3> QED BY <2>1, <2>3, <3>1, <3>2 DEF Timed, r
  <2>4. CASE r.left = 0
    <3>1. /\ proc'[e].pc = r.pc /\ proc'[e].t = r.t /\ proc'[e].slept = r.slept
          /\ proc'[e].left = 0 /\ proc'[e].delay = r.delay + 1
      BY <1>0, <2>2, <2>4 DEF Tick, Process
    <3> QED BY <2>1, <2>4, <3>1 DEF Timed
  <2> QED BY <2>1, <2>3, <2>4
<1> QED BY <1>2, <1>3

LEMMA StepInTime == TypeOK /\ InTime /\ [Next]_vars => InTime'
<1> SUFFICES ASSUME TypeOK, InTime, [Next]_vars, NEW e \in Daemons' PROVE Aged(e)'
  BY DEF InTime
<1>1. /\ proc \in [Procs -> Process] /\ now \in 0 .. Day - 1
      /\ Day \in Nat \ {0} /\ e \in Procs /\ proc'[e].pc \notin {"none", "job"}
  BY Typed, Numbers DEF Daemons
<1>2. \A d \in Procs : proc[d].pc \notin {"none", "job"} => d \in Daemons /\ Aged(d)
  BY DEF Daemons, InTime
<1>3. \A d \in Procs : d \in Daemons /\ proc[d].pc # "asleep" => proc[d].left = 0
  <2> SUFFICES ASSUME NEW d \in Daemons, proc[d].pc # "asleep" PROVE proc[d].left = 0
    OBVIOUS
  <2>1. d \in Procs /\ Aged(d)
    BY DEF Daemons, InTime
  <2>2. PICK a \in Nat : Timed(proc[d], a)
    BY <2>1 DEF Aged
  <2>3. proc[d].left \in Nat
    BY <1>1, <2>1, <2>2, Bounds
  <2> QED BY <2>2, <2>3 DEF Timed
<1>4. ASSUME UNCHANGED << now, proc[e] >> PROVE Aged(e)'
  BY <1>1, <1>2, <1>4 DEF Aged
<1>5. CASE Tick
  <2>1. PICK a \in Nat : now = (proc[e].t + a) % Day /\ Timed(proc[e], a)
    <3>1. proc'[e].pc = proc[e].pc
      BY <1>1, <1>5 DEF Tick, Process
    <3> QED BY <1>1, <1>2, <3>1 DEF Aged
  <2> QED BY <1>1, <1>5, <2>1, TickAged DEF Aged
<1>6. ASSUME NEW p \in Procs, Skip(p) \/ Wake(p) PROVE Aged(e)'
  <2>1. now' = now
    BY <1>6 DEF Skip, Wake
  <2>2. CASE e = p
    <3>1. /\ proc[p].pc \in {"test", "asleep"} /\ proc[p].left = 0
          /\ \/ proc'[p] = [proc[p] EXCEPT !.pc = "test"]
             \/ proc'[p] = [proc[p] EXCEPT !.pc = "read"]
      BY <1>1, <1>2, <1>3, <1>6 DEF Skip, Wake, Goto
    <3> QED BY <1>1, <1>2, <2>1, <2>2, <3>1, StillAged
  <2>3. CASE e # p
    BY <1>1, <1>4, <1>6, <2>1, <2>3 DEF Skip, Wake, Goto
  <2> QED BY <2>2, <2>3
<1>7. ASSUME NEW p \in Procs, Start(p) PROVE Aged(e)'
  <2>1. now' = now /\ proc[p].pc = "test" /\ proc[p].left = 0
    BY <1>1, <1>2, <1>3, <1>7 DEF Start
  <2>2. proc'[e] = [proc[p] EXCEPT !.pc = "read"] \/ proc'[e] = proc[e]
    BY <1>1, <1>7 DEF Start, Execl, Goto, Job, NoProc
  <2> QED BY <1>1, <1>2, <1>4, <2>1, <2>2, StillAged
<1>8. ASSUME NEW p \in Procs, Read(p) PROVE Aged(e)'
  <2>1. CASE e = p
    <3>1. /\ now' = now /\ proc'[e].pc = "nap" /\ proc'[e].t = now
          /\ proc'[e].left = proc[e].left /\ proc'[e].delay = proc[e].delay
          /\ proc'[e].delay \in Nat /\ proc'[e].left = 0
      BY <1>1, <1>2, <1>3, <1>8, <2>1, Numbers DEF Read, Process
    <3>2. Timed(proc'[e], 0)
      BY <3>1 DEF Timed
    <3>3. now' = (proc'[e].t + 0) % Day
      BY <1>1, <3>1
    <3> QED BY <3>2, <3>3 DEF Aged
  <2>2. CASE e # p
    BY <1>1, <1>4, <1>8, <2>2 DEF Read
  <2> QED BY <2>1, <2>2
<1>9. ASSUME NEW p \in Procs, Sleep(p) PROVE Aged(e)'
  <2>1. CASE e = p
    <3>1. PICK a \in Nat : now = (proc[p].t + a) % Day /\ Timed(proc[p], a)
      BY <1>1, <1>2, <1>9 DEF Sleep, Aged
    <3>2. /\ now' = now /\ proc[p].pc = "nap" /\ proc'[p].t = proc[p].t
          /\ proc'[p] = [pc |-> "asleep", t |-> proc[p].t, slept |-> TRUE,
                         left |-> Seconds - tm_sec(proc[p].t), delay |-> 0]
      BY <1>1, <1>9 DEF Sleep
    <3>3. a <= MaxDelay
      BY <1>1, <3>1, <3>2, Bounds, Numbers DEF Timed
    <3>4. tm_sec(proc[p].t) \in 0 .. Seconds - 1 /\ Seconds \in Nat /\ MaxDelay \in Nat
      BY <1>1, <3>1, Bounds, Numbers
    <3>5. Timed(proc'[p], a)
      BY <3>2, <3>3, <3>4 DEF Timed
    <3> QED BY <2>1, <3>1, <3>2, <3>5 DEF Aged
  <2>2. CASE e # p
    BY <1>1, <1>4, <1>9, <2>2 DEF Sleep
  <2> QED BY <2>1, <2>2
<1>10. ASSUME NEW p \in Procs, JobEnds(p) PROVE Aged(e)'
  BY <1>1, <1>4, <1>10 DEF JobEnds, NoProc
<1>11. CASE UNCHANGED vars
  BY <1>4, <1>11 DEF vars
<1> QED BY <1>5, <1>6, <1>7, <1>8, <1>9, <1>10, <1>11 DEF Next

(***************************************************************************)
(* One reading of the clock and the next are in minutes that follow each   *)
(* other, in every run: the sleep takes up the time of the turn (line 86). *)
(***************************************************************************)
THEOREM MinutesFollow == Spec => EachMinuteOnce
<1>1. ASSUME TypeOK, InTime, [Next]_vars, NEW p \in Procs,
             proc[p].pc = "read", proc'[p].pc = "nap"
      PROVE  Minute(proc'[p].t) \in {Following(Minute(proc[p].t))} \cup
                                      (IF proc[p].slept THEN {} ELSE {Minute(proc[p].t)})
  <2>1. proc \in [Procs -> Process] /\ p \in Daemons
    BY <1>1, Typed DEF Daemons
  <2>2. Read(p)
    <3>1. proc'[p] # proc[p]
      BY <1>1
    <3>2. ~ Tick
      BY <1>1, <2>1 DEF Tick, Process
    <3>3. PICK q \in Procs : Skip(q) \/ Start(q) \/ Read(q) \/ Sleep(q) \/ Wake(q) \/ JobEnds(q)
      BY <1>1, <3>1, <3>2 DEF Next, vars
    <3>4. CASE q = p
      BY <1>1, <3>3, <3>4 DEF Skip, Start, Sleep, Wake, JobEnds
    <3>5. CASE q # p
      BY <1>1, <2>1, <3>3, <3>5 DEF Skip, Start, Execl, Read, Sleep, Wake, JobEnds, Goto, Job, NoProc
    <3> QED BY <3>4, <3>5
  <2>3. proc'[p].t = now
    BY <2>1, <2>2 DEF Read
  <2>4. PICK a \in Nat : now = (proc[p].t + a) % Day /\ Timed(proc[p], a)
    BY <1>1, <2>1 DEF InTime, Aged
  <2>5. Minute(now) = IF tm_sec(proc[p].t) + a < Seconds THEN Minute(proc[p].t)
                                                         ELSE Following(Minute(proc[p].t))
    BY <1>1, <2>1, <2>4, Shows
  <2>6. proc[p].slept => tm_sec(proc[p].t) + a >= Seconds
    <3>1. proc[p].left = 0
      BY <1>1, <2>1, <2>4, Bounds DEF Timed
    <3> QED BY <1>1, <2>1, <2>4, <3>1, Bounds
  <2>7. tm_sec(proc[p].t) \in Nat /\ Seconds \in Nat
    BY <2>1, <2>4, Bounds, Numbers
  <2> QED BY <2>3, <2>5, <2>6, <2>7
<1>2. TypeOK /\ InTime /\ [Next]_vars =>
        [\A p \in Procs :
           (proc[p].pc = "read" /\ proc'[p].pc = "nap") =>
             LET last == Minute(proc[p].t) IN
             Minute(proc'[p].t) \in {Following(last)} \cup (IF proc[p].slept THEN {} ELSE {last})]_vars
  BY <1>1
<1>3. Spec => [](TypeOK /\ InTime)
  BY TypeCorrect, InitInTime, StepInTime, PTL DEF Spec
<1> QED BY <1>2, <1>3, PTL DEF Spec, EachMinuteOnce

-----------------------------------------------------------------------------
(***************************************************************************)
(* The minutes a job is still wanted for are the one that was read and the *)
(* one the clock shows, and the latter alone once the job was started.     *)
(***************************************************************************)
Waiting(d) ==
  /\ due \subseteq {Minute(now), Minute(proc[d].t)}
  /\ proc[d].pc = "read" =>
       /\ due \subseteq {Minute(now)}
       /\ ~ proc[d].slept => Minute(proc[d].t) \notin due

DueInTime == NoneFailed => due \subseteq Wanted /\ \A d \in Daemons : Waiting(d)

LEMMA InitDue == Init => DueInTime
<1> SUFFICES ASSUME Init, NEW d \in Daemons PROVE due \subseteq Wanted /\ Waiting(d)
  BY DEF DueInTime, Init
<1>1. proc[d].pc # "read"
  BY DEF Init, NoProc, Daemons
<1> QED BY <1>1 DEF Init, Waiting

\* A turn of the loop ends: the minute that was tested waits no more.
LEMMA Tested ==
  ASSUME NEW d \in Procs, NEW e \in Procs, Waiting(d), now' = now,
         due' \subseteq due \ {Minute(proc[d].t)}, proc'[e].t = proc[d].t
  PROVE  Waiting(e)'
BY DEF Waiting, Minute

LEMMA StepDue == DInv /\ InTime /\ DueInTime /\ [Next]_vars => DueInTime'
<1> SUFFICES ASSUME DInv, InTime, DueInTime, [Next]_vars, NoneFailed'
             PROVE  due' \subseteq Wanted' /\ \A e \in Daemons' : Waiting(e)'
  BY DEF DueInTime
<1>1. NoneFailed /\ failed' = failed /\ Wanted' = Wanted
  <2>1. crontab' = crontab
    BY DEF Next, vars, Tick, Skip, Start, Read, Sleep, Wake, JobEnds
  <2>2. failed \in Failures
    BY Typed DEF DInv
  <2>3. failed' = failed
    <3>1. CASE \E p \in Procs : Start(p)
      <4> PICK p \in Procs : Start(p)
        BY <3>1
      <4>1. PICK next, failures :
              /\ Execl(p, next, failures)
              /\ failures = failed \/ failures = [failed EXCEPT !.fork = @ + 1]
        BY DEF Start
      <4>2. failures \in [fork : Nat, execl : Nat] /\ failures.fork >= failed.fork
            /\ failures.execl >= failed.execl
        BY <2>2, <4>1, CronAssumption DEF Failures
      <4>3. failed' = failures \/ failed'.execl = failures.execl + 1
        BY <4>1, <4>2 DEF Execl
      <4>4. failed' = failures
        BY <2>2, <4>2, <4>3 DEF NoneFailed
      <4>5. failed'.fork = 0 /\ failed.fork + 1 # 0
        BY <2>2, CronAssumption DEF NoneFailed, Failures
      <4> QED BY <2>2, <4>1, <4>4, <4>5 DEF Failures
    <3>2. CASE ~ \E p \in Procs : Start(p)
      BY <3>2 DEF Next, vars, Tick, Skip, Read, Sleep, Wake, JobEnds
    <3> QED BY <3>1, <3>2
  <2> QED BY <2>1, <2>3 DEF Wanted, NoneFailed
<1>2. due \subseteq Wanted /\ \A d \in Daemons : Waiting(d)
  BY <1>1 DEF DueInTime
<1>3. /\ proc \in [Procs -> Process] /\ now \in 0 .. Day - 1
  BY Typed DEF DInv
<1>4. PICK d \in Procs : Daemons = {d}
  BY <1>1, Alone
<1>5. PICK a \in Nat : now = (proc[d].t + a) % Day /\ Timed(proc[d], a)
  BY <1>4 DEF InTime, Aged
<1>6. due' \subseteq Wanted'
  BY <1>1, <1>2 DEF Next, vars, Tick, Skip, Start, Execl, Read, Sleep, Wake, JobEnds
<1>7. ASSUME NEW e \in Daemons' PROVE Waiting(e)'
  <2>1. e \in Procs /\ proc'[e].pc \notin {"none", "job"}
    BY DEF Daemons
  <2>2. proc[e].pc \notin {"none", "job"} => e = d
    BY <1>4, <2>1 DEF Daemons
  <2>3. Waiting(d) /\ proc[d].pc \notin {"none", "job"}
    BY <1>2, <1>4 DEF Daemons
  <2>4. CASE Tick
    <3> DEFINE m == Minute(proc[d].t)
    <3>1. e = d
      BY <1>3, <2>1, <2>2, <2>4 DEF Tick, Process
    <3>2. /\ now' = (proc[d].t + (a + 1)) % Day /\ Timed(proc'[d], a + 1)
          /\ proc'[d].pc = proc[d].pc /\ proc'[d].t = proc[d].t /\ proc'[d].slept = proc[d].slept
      BY <1>5, <2>1, <2>4, <3>1, TickAged DEF DInv
    <3>3. proc[d] \in Process /\ proc'[d] \in Process
      BY <1>3, NextDInv, Typed DEF DInv, TypeOK, Process, Labels, Day, DayMinutes
    <3>4. /\ Minute(now) = IF tm_sec(proc[d].t) + a < Seconds THEN m ELSE Following(m)
          /\ Minute(now') = IF tm_sec(proc[d].t) + (a + 1) < Seconds THEN m ELSE Following(m)
          /\ tm_sec(proc[d].t) \in Nat /\ Seconds \in Nat
      <4>1. /\ tm_sec(proc[d].t) + a < 2 * Seconds /\ tm_sec(proc[d].t) + (a + 1) < 2 * Seconds
            /\ tm_sec(proc[d].t) \in Nat /\ proc[d].t \in 0 .. Day - 1
        BY <1>5, <3>2, <3>3, Bounds
      <4>2. a + 1 \in Nat /\ Seconds \in Nat
        BY Numbers
      <4>3. Minute((proc[d].t + a) % Day) = IF tm_sec(proc[d].t) + a < Seconds THEN m ELSE Following(m)
        BY <4>1, Clock
      <4>4. Minute((proc[d].t + (a + 1)) % Day) =
              IF tm_sec(proc[d].t) + (a + 1) < Seconds THEN m ELSE Following(m)
        BY <4>1, <4>2, Clock
      <4> QED BY <1>5, <3>2, <4>1, <4>2, <4>3, <4>4
    <3>5. due' = IF Minute(now') = Minute(now) THEN due ELSE due \cup (Wanted \cap {Minute(now')})
      BY <2>4 DEF Tick
    <3>6. CASE Minute(now') = Minute(now)
      BY <2>3, <3>1, <3>2, <3>5, <3>6 DEF Waiting, Minute
    <3>7. CASE Minute(now') # Minute(now)
      <4>1. tm_sec(proc[d].t) + a < Seconds /\ Minute(now) = m
        BY <3>4, <3>7
      <4>2. ~ (proc[d].slept /\ proc[d].pc = "read")
        <5>1. proc[d].pc = "read" => proc[d].left = 0
          BY <1>5, <3>3, Bounds DEF Timed
        <5> QED BY <1>5, <3>3, <3>4, <4>1, <5>1, Bounds
      <4>3. proc[d].pc = "read" => due = {}
        BY <2>3, <4>1, <4>2 DEF Waiting
      <4>4. due \subseteq {m} /\ Minute(now)' = Minute(now') /\ Minute(proc[d].t)' = m
            /\ Minute(proc'[d].t) = m
        BY <2>3, <3>2, <4>1 DEF Waiting, Minute
      <4> QED BY <3>1, <3>2, <3>5, <3>7, <4>1, <4>3, <4>4 DEF Waiting, Minute
    <3> QED BY <3>6, <3>7
  <2>5. ASSUME NEW p \in Procs, Skip(p) PROVE Waiting(e)'
    <3>1. p = d
      BY <1>4, <2>5 DEF Skip, Daemons
    <3>2. e = d /\ now' = now /\ due' = due /\ proc'[e].t = proc[e].t /\ ~ Matches(proc[d].t)
      BY <1>3, <2>1, <2>2, <2>5, <3>1 DEF Skip, Goto, Process
    <3>3. Minute(proc[d].t) \notin due
      BY <1>2, <1>3, <3>2, MatchIsWanted DEF Process
    <3> QED BY <2>3, <3>2, <3>3, Tested
  <2>6. ASSUME NEW p \in Procs, Start(p) PROVE Waiting(e)'
    <3>1. p = d
      BY <1>4, <2>6 DEF Start, Daemons
    <3>2. /\ now' = now /\ due' = due \ {Minute(proc[d].t)}
          /\ \E q \in Procs : proc' = [[proc EXCEPT ![q] = [proc[d] EXCEPT !.pc = "read"]] EXCEPT ![d] = Job]
      <4>1. PICK next, failures :
              /\ Execl(d, next, failures) /\ now' = now
              /\ \/ failures = failed /\ \E q \in Procs :
                      next = [proc EXCEPT ![q] = [proc[d] EXCEPT !.pc = "read"]]
                 \/ failures = [failed EXCEPT !.fork = @ + 1]
        BY <2>6, <3>1 DEF Start
      <4>2. failed \in Failures /\ failed.fork = 0 /\ failed.execl = 0
        BY <1>1, Typed DEF DInv, NoneFailed
      <4>3. failures \in [fork : Nat, execl : Nat]
        BY <4>1, <4>2, CronAssumption DEF Failures
      <4>4. failed' # [failures EXCEPT !.execl = @ + 1]
        BY <1>1, <4>2, <4>3
      <4>5. failed' # [failed EXCEPT !.fork = @ + 1]
        BY <1>1, <4>2 DEF Failures
      <4> QED BY <4>1, <4>4, <4>5 DEF Execl
    <3>3. proc'[e].t = proc[d].t
      BY <1>3, <2>1, <2>2, <3>2 DEF Job, NoProc, Process
    <3> QED BY <2>1, <2>3, <3>2, <3>3, Tested
  <2>7. ASSUME NEW p \in Procs, Read(p) PROVE Waiting(e)'
    <3>1. p = d
      BY <1>4, <2>7 DEF Read, Daemons
    <3>2. e = d /\ now' = now /\ due' = due /\ proc'[e].t = now /\ proc'[e].pc = "nap" /\ proc[d].pc = "read"
      BY <1>3, <2>1, <2>2, <2>7, <3>1 DEF Read, Process
    <3> QED BY <2>3, <3>2 DEF Waiting, Minute
  <2>8. ASSUME NEW p \in Procs, Sleep(p) \/ Wake(p) PROVE Waiting(e)'
    <3>1. p = d
      BY <1>4, <2>8 DEF Sleep, Wake, Daemons
    <3>2. e = d /\ now' = now /\ due' = due /\ proc'[e].t = proc[d].t /\ proc'[e].pc # "read"
      BY <1>3, <2>1, <2>2, <2>8, <3>1 DEF Sleep, Wake, Goto, Process
    <3> QED BY <2>3, <3>2 DEF Waiting, Minute
  <2>9. CASE UNCHANGED vars \/ \E p \in Procs : JobEnds(p)
    <3>1. e = d /\ now' = now /\ due' = due /\ proc'[e] = proc[e]
      BY <1>3, <2>1, <2>2, <2>9 DEF JobEnds, NoProc, vars
    <3> QED BY <2>3, <3>1 DEF Waiting, Minute
  <2> QED BY <2>4, <2>5, <2>6, <2>7, <2>8, <2>9 DEF Next
<1> QED BY <1>6, <1>7

(***************************************************************************)
(* No minute is missed, and no job is later than a minute, as long as the  *)
(* calls succeed: what is tested was read before the sleep (lines 84-86).  *)
(***************************************************************************)
THEOREM NoMinuteMissed == Spec => []NoneMissed
<1>1. ASSUME DInv, InTime, DueInTime PROVE NoneMissed
  <2> SUFFICES ASSUME NoneFailed, NEW m \in due PROVE Minute(now) \in {m, Following(m)}
    BY DEF NoneMissed
  <2>1. PICK d \in Procs : Daemons = {d}
    BY <1>1, Alone
  <2>2. Waiting(d) /\ proc[d] \in Process
    BY <1>1, <2>1, Typed DEF DInv, DueInTime
  <2>3. PICK a \in Nat : now = (proc[d].t + a) % Day /\ Timed(proc[d], a)
    BY <1>1, <2>1 DEF InTime, Aged
  <2>4. Minute(now) \in {Minute(proc[d].t), Following(Minute(proc[d].t))}
    BY <2>2, <2>3, Shows
  <2> QED BY <2>2, <2>4 DEF Waiting
<1>2. Spec => [](DInv /\ InTime /\ DueInTime)
  <2>1. DInv => TypeOK
    BY DEF DInv
  <2> QED BY <2>1, InitDInv, NextDInv, InitInTime, StepInTime, InitDue, StepDue, PTL DEF Spec
<1> QED BY <1>1, <1>2, PTL
=============================================================================
