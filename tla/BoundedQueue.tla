---------------------------- MODULE BoundedQueue ----------------------------
(***************************************************************************)
(* p14.c: a circular array shared by producers and consumers, one mutex,   *)
(* and the condition variables not_full and not_empty.  main() starts one  *)
(* thread of each kind, joins both and deletes the queue.                  *)
(*                                                                         *)
(* A step is what a thread does between two points where others can run:   *)
(* taking the lock, falling asleep, the body of the critical section,      *)
(* releasing the lock, and signalling, which the code does after that.     *)
(***************************************************************************)
EXTENDS Integers, Sequences, FiniteSets

CONSTANTS
  Producers, Consumers,   \* the threads that run produce() and consume()
  capacity,               \* QSIZE
  n_loops,                \* LOOP
  NoThread,               \* who holds a free lock
  Garbage,                \* what malloc() left in the array
  MaxSpurious             \* bound: how often a wait may return unsignalled

Threads == Producers \cup Consumers
Index == 0 .. capacity - 1

ASSUME QueueAssumption ==
  /\ capacity \in Nat \ {0}
  /\ n_loops \in Nat
  /\ MaxSpurious \in Nat
  /\ Producers \cap Consumers = {}
  /\ IsFiniteSet(Threads) /\ NoThread \notin Threads
  /\ Garbage \notin Nat

VARIABLES
  put_index, get_index, length, data,   \* the fields of queue_t
  lock,
  not_full, not_empty,   \* the threads asleep on each condition variable
  pc, i,                 \* per thread: where it is, and its loop counter
  got,                   \* got[c]: what get_data() has returned to c, in order
  freed,                 \* the queue has been deleted
  spurious               \* how many unsignalled wakeups there have been

array == << put_index, get_index, length, data >>
vars == << array, lock, not_full, not_empty, pc, i, got, freed, spurious >>

TypeOK ==
  /\ put_index \in Index
  /\ get_index \in Index
  /\ length \in 0 .. capacity
  /\ data \in [Index -> Nat \cup {Garbage}]
  /\ lock \in Threads \cup {NoThread}
  /\ not_full \in SUBSET Producers
  /\ not_empty \in SUBSET Consumers
  /\ pc \in [Threads -> {"lock", "test", "asleep", "unlock", "signal", "done"}]
  /\ i \in [Threads -> 0 .. n_loops]
  /\ got \in [Consumers -> Seq(Nat \cup {Garbage})]
  /\ freed \in BOOLEAN
  /\ spurious \in 0 .. MaxSpurious

\* Where a thread goes that has finished n loops.
LoopLabel(n) == IF n < n_loops THEN "lock" ELSE "done"

Init ==
  /\ put_index = 0
  /\ get_index = 0
  /\ length = 0
  /\ data = [k \in Index |-> Garbage]
  /\ lock = NoThread
  /\ not_full = {}
  /\ not_empty = {}
  /\ pc = [t \in Threads |-> LoopLabel(0)]
  /\ i = [t \in Threads |-> 0]
  /\ got = [c \in Consumers |-> << >>]
  /\ freed = FALSE
  /\ spurious = 0

Goto(t, from, to) == pc[t] = from /\ pc' = [pc EXCEPT ![t] = to]

-----------------------------------------------------------------------------
(***************************************************************************)
(* The mutex and the condition variables.                                  *)
(***************************************************************************)
Lock(t) ==
  /\ Goto(t, "lock", "test")
  /\ lock = NoThread
  /\ lock' = t
  /\ UNCHANGED << array, not_full, not_empty, i, got, freed, spurious >>

\* pthread_cond_wait() returns, with the lock, to the test of the while loop.
Wake(t) ==
  /\ t \notin not_full \cup not_empty
  /\ Goto(t, "asleep", "test")
  /\ lock = NoThread
  /\ lock' = t
  /\ UNCHANGED << array, not_full, not_empty, i, got, freed, spurious >>

SpuriousWakeup(t) ==
  /\ t \in not_full \cup not_empty
  /\ spurious < MaxSpurious
  /\ spurious' = spurious + 1
  /\ not_full' = not_full \ {t}
  /\ not_empty' = not_empty \ {t}
  /\ UNCHANGED << array, lock, pc, i, got, freed >>

Unlock(t) ==
  /\ Goto(t, "unlock", "signal")
  /\ lock' = NoThread
  /\ UNCHANGED << array, not_full, not_empty, i, got, freed, spurious >>

\* pthread_cond_signal(): wakes one of the waiting threads, if there is any.
WakesOne(waiting, waiting1) ==
  IF waiting = {} THEN waiting1 = {} ELSE \E t \in waiting : waiting1 = waiting \ {t}

\* The end of the loop body, after the signal.
NextLoop(t) ==
  /\ Goto(t, "signal", LoopLabel(i[t] + 1))
  /\ i' = [i EXCEPT ![t] = @ + 1]

-----------------------------------------------------------------------------
(***************************************************************************)
(* put_data() and get_data().                                              *)
(***************************************************************************)
WaitNotFull(p) ==
  /\ Goto(p, "test", "asleep")
  /\ length >= capacity
  /\ not_full' = not_full \cup {p}
  /\ lock' = NoThread
  /\ UNCHANGED << array, not_empty, i, got, freed, spurious >>

\* Mutant: 3.c.ii is missing.
SuccNoWrap(k) == k + 1

\* The index after k, back to 0 at the end of the array.
Succ(k) == IF k + 1 = capacity THEN 0 ELSE k + 1

\* Mutant: put_index is increased before it is used.
PutAhead(p) ==
  /\ Goto(p, "test", "unlock")
  /\ length < capacity
  /\ data' = [data EXCEPT ![Succ(put_index)] = i[p]]
  /\ put_index' = Succ(put_index)
  /\ length' = length + 1
  /\ UNCHANGED << get_index, lock, not_full, not_empty, i, got, freed, spurious >>

Put(p) ==
  /\ Goto(p, "test", "unlock")
  /\ length < capacity
  /\ data' = [data EXCEPT ![put_index] = i[p]]
  /\ put_index' = Succ(put_index)
  /\ length' = length + 1
  /\ UNCHANGED << get_index, lock, not_full, not_empty, i, got, freed, spurious >>

\* Mutant: a signal is only sent for the first item of an empty queue.
SignalIfWasEmpty(p) ==
  /\ NextLoop(p)
  /\ IF length = 1 THEN WakesOne(not_empty, not_empty') ELSE UNCHANGED not_empty
  /\ UNCHANGED << array, lock, not_full, got, freed, spurious >>

SignalNotEmpty(p) ==
  /\ NextLoop(p)
  /\ WakesOne(not_empty, not_empty')
  /\ UNCHANGED << array, lock, not_full, got, freed, spurious >>

WaitNotEmpty(c) ==
  /\ Goto(c, "test", "asleep")
  /\ length = 0
  /\ not_empty' = not_empty \cup {c}
  /\ lock' = NoThread
  /\ UNCHANGED << array, not_full, i, got, freed, spurious >>

\* Mutant: 3.d sets get_index alone back to 0.
GetHalfReset(c) ==
  /\ Goto(c, "test", "unlock")
  /\ length # 0
  /\ got' = [got EXCEPT ![c] = Append(@, data[get_index])]
  /\ length' = length - 1
  /\ get_index' = IF length = 1 THEN 0 ELSE Succ(get_index)
  /\ UNCHANGED << put_index, data, lock, not_full, not_empty, i, freed, spurious >>

\* Taking the last item moves both indices back to the start of the array.
Get(c) ==
  /\ Goto(c, "test", "unlock")
  /\ length # 0
  /\ got' = [got EXCEPT ![c] = Append(@, data[get_index])]
  /\ length' = length - 1
  /\ IF length = 1 THEN get_index' = 0 /\ put_index' = 0
     ELSE get_index' = Succ(get_index) /\ put_index' = put_index
  /\ UNCHANGED << data, lock, not_full, not_empty, i, freed, spurious >>

\* Mutant: the consumer signals the condition it waits for itself.
SignalOwn(c) ==
  /\ NextLoop(c)
  /\ WakesOne(not_empty, not_empty')
  /\ UNCHANGED << array, lock, not_full, got, freed, spurious >>

SignalNotFull(c) ==
  /\ NextLoop(c)
  /\ WakesOne(not_full, not_full')
  /\ UNCHANGED << array, lock, not_empty, got, freed, spurious >>

Produce(p) ==
  Lock(p) \/ WaitNotFull(p) \/ Wake(p) \/ Put(p) \/ Unlock(p) \/ SignalNotEmpty(p)

Consume(c) ==
  Lock(c) \/ WaitNotEmpty(c) \/ Wake(c) \/ Get(c) \/ Unlock(c) \/ SignalNotFull(c)

\* main() joins every thread, then qdelete() destroys and frees the queue.
Qdelete ==
  /\ ~freed
  /\ \A t \in Threads : pc[t] = "done"
  /\ freed' = TRUE
  /\ UNCHANGED << array, lock, not_full, not_empty, pc, i, got, spurious >>

Next ==
  \/ \E p \in Producers : Produce(p)
  \/ \E c \in Consumers : Consume(c)
  \/ \E t \in Threads : SpuriousWakeup(t)
  \/ Qdelete

Spec == Init /\ [][Next]_vars

\* Every thread is scheduled.  Nothing is assumed of who gets a contended lock:
\* the others finish or fall asleep, since their loops are finite.
Fairness ==
  /\ \A p \in Producers : WF_vars(Produce(p))
  /\ \A c \in Consumers : WF_vars(Consume(c))
  /\ WF_vars(Qdelete)

FairSpec == Spec /\ Fairness

-----------------------------------------------------------------------------
(***************************************************************************)
(* Properties.                                                             *)
(***************************************************************************)
\* The array position k places behind n.
Wrap(n) == IF n >= capacity THEN n - capacity ELSE n

\* The lock is held from the test to the unlock, by one thread, and the three
\* fields that describe the contents agree: after the wrap-around of
\* put_index and get_index and after both are set back to 0.
IndexInv ==
  /\ \A t \in Threads : pc[t] \in {"test", "unlock"} <=> lock = t
  /\ put_index = Wrap(get_index + length)

\* No wakeup is lost, though the signal is sent after the unlock: while a
\* producer sleeps, each free place has a consumer that will still signal, or
\* a producer that is awake and will take the place.  The same for consumers
\* and items.
NoLostWakeup ==
  LET Signalling(T) == Cardinality({t \in T : pc[t] \in {"unlock", "signal"}})
      Awake(T) == Cardinality({t \in T \ (not_full \cup not_empty) :
                                 pc[t] \in {"test", "asleep"}})
  IN  /\ not_full # {} => capacity - length <= Signalling(Consumers) + Awake(Producers)
      /\ not_empty # {} => length <= Signalling(Producers) + Awake(Consumers)

\* The queue is a bounded FIFO: each critical section is one of its steps, and
\* no slot is ever read that was not written.
Items == [k \in 1 .. length |-> data[Wrap(get_index + k - 1)]]
Sent == [p \in Producers |-> IF pc[p] \in {"unlock", "signal"} THEN i[p] + 1 ELSE i[p]]
Queue == INSTANCE Fifo WITH items <- Items, sent <- Sent

ImplementsFifo == Queue!FifoSpec

\* main() gets both threads back and deletes the queue: nobody sleeps for ever.
Termination == <>freed
=============================================================================
