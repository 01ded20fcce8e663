------------------------- MODULE BoundedQueueProofs -------------------------
(***************************************************************************)
(* Proofs about BoundedQueue, for any number of threads, any capacity, any *)
(* number of loops and any number of spurious wakeups.                     *)
(***************************************************************************)
EXTENDS BoundedQueue, SequenceTheorems, FiniteSetTheorems, TLAPS

\* IndexInv needs that the indices are 0 when the queue is empty, and the type
\* invariant needs that a thread that has not finished has a loop left.
LoopInv ==
  \A t \in Threads : pc[t] = "done" \/ i[t] < n_loops

Inv == TypeOK /\ LoopInv /\ IndexInv

LEMMA SuccIsIndex == \A k \in Index : Succ(k) \in Index
  BY QueueAssumption DEF Succ, Index

LEMMA InitInv == Init => Inv
  BY QueueAssumption
  DEF Init, Inv, TypeOK, LoopInv, IndexInv, LoopLabel, Wrap, Index

-----------------------------------------------------------------------------
LEMMA NextInv == Inv /\ [Next]_vars => Inv'
  <1> SUFFICES ASSUME Inv, [Next]_vars PROVE Inv'
    OBVIOUS
  <1> USE QueueAssumption DEF Inv, TypeOK, LoopInv, IndexInv, Threads
  <1>1. ASSUME NEW t \in Threads, Lock(t) PROVE Inv'
    BY <1>1 DEF Lock, Goto, array
  <1>2. ASSUME NEW t \in Threads, Wake(t) PROVE Inv'
    BY <1>2 DEF Wake, Goto, array
  <1>3. ASSUME NEW t \in Threads, SpuriousWakeup(t) PROVE Inv'
    BY <1>3 DEF SpuriousWakeup, array
  <1>4. ASSUME NEW t \in Threads, Unlock(t) PROVE Inv'
    BY <1>4 DEF Unlock, Goto, array
  <1>5. ASSUME NEW p \in Producers, WaitNotFull(p) PROVE Inv'
    BY <1>5 DEF WaitNotFull, Goto, array
  <1>6. ASSUME NEW p \in Producers, Put(p) PROVE Inv'
    <2>1. put_index' \in Index /\ put_index' = Wrap(get_index' + length')
      BY <1>6 DEF Put, Succ, Wrap, Index
    <2>2. data' \in [Index -> Nat \cup {Garbage}]
      BY <1>6 DEF Put
    <2>3. length' \in 0 .. capacity
      BY <1>6 DEF Put
    <2>4. \A t \in Threads : pc'[t] \in {"test", "unlock"} <=> lock' = t
      BY <1>6 DEF Put, Goto
    <2> QED
      BY <1>6, <2>1, <2>2, <2>3, <2>4 DEF Put, Goto
  <1>7. ASSUME NEW c \in Consumers, WaitNotEmpty(c) PROVE Inv'
    BY <1>7 DEF WaitNotEmpty, Goto, array
  <1>8. ASSUME NEW c \in Consumers, Get(c) PROVE Inv'
    <2>1. /\ get_index' \in Index
          /\ put_index' \in Index
          /\ put_index' = Wrap(get_index' + length')
      BY <1>8 DEF Get, Succ, Wrap, Index
    <2>2. got' \in [Consumers -> Seq(Nat \cup {Garbage})]
      BY <1>8 DEF Get
    <2>3. length' \in 0 .. capacity
      BY <1>8 DEF Get
    <2>4. \A t \in Threads : pc'[t] \in {"test", "unlock"} <=> lock' = t
      BY <1>8 DEF Get, Goto
    <2> QED
      BY <1>8, <2>1, <2>2, <2>3, <2>4 DEF Get, Goto
  <1>9. ASSUME NEW t \in Threads, NextLoop(t),
               UNCHANGED << array, lock, got, freed, spurious >>,
               not_full' \in SUBSET Producers, not_empty' \in SUBSET Consumers
        PROVE  Inv'
    BY <1>9 DEF NextLoop, Goto, LoopLabel, array
  <1>10. ASSUME NEW p \in Producers, SignalNotEmpty(p) PROVE Inv'
    BY <1>9, <1>10 DEF SignalNotEmpty, WakesOne
  <1>11. ASSUME NEW c \in Consumers, SignalNotFull(c) PROVE Inv'
    BY <1>9, <1>11 DEF SignalNotFull, WakesOne
  <1>12. CASE Qdelete
    BY <1>12 DEF Qdelete, array
  <1>13. CASE UNCHANGED vars
    BY <1>13 DEF vars, array
  <1> QED
    BY <1>1, <1>2, <1>3, <1>4, <1>5, <1>6, <1>7, <1>8, <1>10, <1>11, <1>12, <1>13
    DEF Next, Produce, Consume

THEOREM QueueTypeCorrect == Spec => []TypeOK
  BY InitInv, NextInv, PTL DEF Spec, Inv

THEOREM IndicesAgree == Spec => []IndexInv
  BY InitInv, NextInv, PTL DEF Spec, Inv

-----------------------------------------------------------------------------
(***************************************************************************)
(* The refinement.  Items and Sent map the array and the loop counters to  *)
(* the abstract queue; CountInv ties what a consumer has got to its loop.  *)
(***************************************************************************)
CountInv ==
  \A c \in Consumers :
    Len(got[c]) = IF pc[c] \in {"unlock", "signal"} THEN i[c] + 1 ELSE i[c]

\* Every step but Put and Get leaves these as they are.
LEMMA StepKinds ==
  ASSUME Inv, [Next]_vars
  PROVE  \/ \E p \in Producers : Put(p)
         \/ \E c \in Consumers : Get(c)
         \/ /\ UNCHANGED << array, got >>
            /\ \A t \in Threads :
                 (IF pc'[t] \in {"unlock", "signal"} THEN i'[t] + 1 ELSE i'[t]) =
                 (IF pc[t] \in {"unlock", "signal"} THEN i[t] + 1 ELSE i[t])
  <1> USE DEF Inv, TypeOK, Threads
  <1>1. ASSUME NEW t \in Threads, Lock(t) \/ Wake(t) \/ Unlock(t)
        PROVE  /\ UNCHANGED << array, got, i >>
               /\ \A x \in Threads :
                    pc'[x] \in {"unlock", "signal"} <=> pc[x] \in {"unlock", "signal"}
    BY <1>1 DEF Lock, Wake, Unlock, Goto
  <1>2. ASSUME NEW t \in Threads, WaitNotFull(t) \/ WaitNotEmpty(t)
        PROVE  /\ UNCHANGED << array, got, i >>
               /\ \A x \in Threads :
                    pc'[x] \in {"unlock", "signal"} <=> pc[x] \in {"unlock", "signal"}
    BY <1>2 DEF WaitNotFull, WaitNotEmpty, Goto
  <1>3. ASSUME NEW t \in Threads, SignalNotEmpty(t) \/ SignalNotFull(t)
        PROVE  /\ UNCHANGED << array, got >>
               /\ \A x \in Threads :
                    (IF pc'[x] \in {"unlock", "signal"} THEN i'[x] + 1 ELSE i'[x]) =
                    (IF pc[x] \in {"unlock", "signal"} THEN i[x] + 1 ELSE i[x])
    BY <1>3 DEF SignalNotEmpty, SignalNotFull, NextLoop, Goto, LoopLabel
  <1>4. ASSUME NEW t \in Threads, SpuriousWakeup(t)
        PROVE  UNCHANGED << array, got, i, pc >>
    BY <1>4 DEF SpuriousWakeup
  <1>5. CASE Qdelete
    BY <1>5 DEF Qdelete
  <1>6. CASE UNCHANGED vars
    BY <1>6 DEF vars
  <1> QED
    BY <1>1, <1>2, <1>3, <1>4, <1>5, <1>6 DEF Next, Produce, Consume

LEMMA InitCountInv == Init => CountInv
  BY QueueAssumption DEF Init, CountInv, Threads, LoopLabel

LEMMA NextCountInv == Inv /\ CountInv /\ [Next]_vars => CountInv'
  <1> SUFFICES ASSUME Inv, CountInv, [Next]_vars PROVE CountInv'
    OBVIOUS
  <1> USE DEF Inv, TypeOK, Threads, CountInv
  <1>1. ASSUME NEW p \in Producers, Put(p) PROVE CountInv'
    <2>1. \A c \in Consumers : c # p
      BY QueueAssumption
    <2> QED
      BY <1>1, <2>1 DEF Put, Goto
  <1>2. ASSUME NEW c \in Consumers, Get(c) PROVE CountInv'
    <2>1. data[get_index] \in Nat \cup {Garbage}
      OBVIOUS
    <2>2. Len(got'[c]) = Len(got[c]) + 1 /\ \A d \in Consumers \ {c} : got'[d] = got[d]
      BY <1>2, <2>1 DEF Get
    <2> QED
      BY <1>2, <2>2 DEF Get, Goto
  <1> QED
    BY <1>1, <1>2, StepKinds

-----------------------------------------------------------------------------
LEMMA PutRefines ==
  ASSUME Inv, NEW p \in Producers, Put(p)
  PROVE  Queue!FifoPut(p)
  <1> USE QueueAssumption DEF Inv, TypeOK, Threads
  <1>1. length < capacity /\ pc[p] = "test" /\ i[p] < n_loops /\ put_index = Wrap(get_index + length)
    BY DEF Put, Goto, LoopInv, IndexInv
  <1>2. Sent[p] = i[p]
    BY <1>1 DEF Sent
  <1>3. Len(Items) = length
    BY DEF Items
  <1>4. Items' = Append(Items, i[p])
    <2>1. \A k \in 1 .. length : Wrap(get_index + k - 1) \in Index \ {put_index}
      BY <1>1 DEF Wrap, Index
    <2>2. \A k \in 1 .. length : data'[Wrap(get_index + k - 1)] = data[Wrap(get_index + k - 1)]
      BY <2>1 DEF Put
    <2>3. data'[Wrap(get_index + length)] = i[p]
      BY <1>1 DEF Put
    <2>4. length' = length + 1 /\ get_index' = get_index
      BY DEF Put
    <2>5. Items' = [k \in 1 .. length + 1 |-> data'[Wrap(get_index + k - 1)]]
      BY <2>4 DEF Items, Wrap
    <2>6. Items \in Seq(Nat \cup {Garbage})
      <3>1. \A k \in 1 .. length : data[Wrap(get_index + k - 1)] \in Nat \cup {Garbage}
        BY <2>1
      <3> QED
        BY <3>1 DEF Items
    <2>7. Append(Items, i[p]) = [k \in 1 .. length + 1 |-> IF k = length + 1 THEN i[p] ELSE Items[k]]
      BY <1>3, <2>6
    <2>8. \A k \in 1 .. length + 1 :
            data'[Wrap(get_index + k - 1)] = IF k = length + 1 THEN i[p] ELSE Items[k]
      <3> TAKE k \in 1 .. length + 1
      <3>1. CASE k = length + 1
        <4>1. get_index + k - 1 = get_index + length
          BY <3>1 DEF Index
        <4> QED
          BY <2>3, <3>1, <4>1
      <3>2. CASE k # length + 1
        <4>1. k \in 1 .. length
          BY <3>2
        <4> QED
          BY <2>2, <3>2, <4>1 DEF Items
      <3> QED
        BY <3>1, <3>2
    <2> QED
      BY <2>5, <2>7, <2>8
  <1>5. Sent' = [Sent EXCEPT ![p] = @ + 1]
    BY <1>1 DEF Sent, Put, Goto
  <1>6. got' = got
    BY DEF Put
  <1> QED
    BY <1>1, <1>2, <1>3, <1>4, <1>5, <1>6 DEF Queue!FifoPut

LEMMA GetRefines ==
  ASSUME Inv, CountInv, NEW c \in Consumers, Get(c)
  PROVE  Queue!FifoGet(c)
  <1> USE QueueAssumption DEF Inv, TypeOK, Threads
  <1>1. /\ length # 0 /\ length \in Nat /\ length' = length - 1
        /\ pc[c] = "test" /\ i[c] < n_loops /\ data' = data
    BY DEF Get, Goto, LoopInv
  <1>2. Len(got[c]) < n_loops
    BY <1>1 DEF CountInv
  <1>3. Items \in Seq(Nat \cup {Garbage}) /\ Len(Items) = length
    <2>1. \A k \in 1 .. length : data[Wrap(get_index + k - 1)] \in Nat \cup {Garbage}
      BY DEF Wrap, Index
    <2> QED
      BY <2>1 DEF Items
  <1>4. Items # << >> /\ Head(Items) = data[get_index]
    <2>1. Wrap(get_index + 1 - 1) = get_index
      BY DEF Wrap, Index
    <2>2. Items[1] = data[get_index]
      BY <1>1, <2>1 DEF Items
    <2> QED
      BY <1>1, <1>3, <2>2
  <1>5. Items' = Tail(Items)
    <2>1. /\ Tail(Items) \in Seq(Nat \cup {Garbage})
          /\ Len(Tail(Items)) = length - 1
          /\ \A k \in 1 .. length - 1 : Tail(Items)[k] = Items[k + 1]
      BY <1>1, <1>3, <1>4, HeadTailProperties
    <2>2. Items' = [k \in 1 .. length - 1 |-> data[Wrap(get_index' + k - 1)]]
      BY <1>1 DEF Items, Wrap
    <2>3. \A k \in 1 .. length - 1 : Wrap(get_index' + k - 1) = Wrap(get_index + (k + 1) - 1)
      <3>1. CASE length = 1
        BY <3>1
      <3>2. CASE length # 1
        BY <1>1, <3>2 DEF Get, Succ, Wrap, Index
      <3> QED
        BY <3>1, <3>2
    <2>4. \A k \in 1 .. length - 1 : Items[k + 1] = data[Wrap(get_index + (k + 1) - 1)]
      BY <1>1 DEF Items
    <2>5. \A k \in 1 .. length - 1 : Items'[k] = Tail(Items)[k]
      BY <2>1, <2>2, <2>3, <2>4
    <2>6. Items' \in Seq(Nat \cup {Garbage}) /\ Len(Items') = length - 1
      <3>1. \A k \in 1 .. length - 1 : data[Wrap(get_index' + k - 1)] \in Nat \cup {Garbage}
        BY <1>1 DEF Get, Succ, Wrap, Index
      <3> QED
        BY <1>1, <2>2, <3>1
    <2> QED
      BY <2>1, <2>5, <2>6, SeqEqual
  <1>6. Sent' = Sent
    <2>1. \A p \in Producers : p # c
      BY QueueAssumption
    <2> QED
      BY <2>1 DEF Sent, Get, Goto
  <1>7. got' = [got EXCEPT ![c] = Append(@, Head(Items))]
    BY <1>4 DEF Get
  <1> QED
    BY <1>2, <1>4, <1>5, <1>6, <1>7 DEF Queue!FifoGet

LEMMA InitRefines == Init => Queue!FifoInit
  BY QueueAssumption DEF Init, Queue!FifoInit, Items, Sent, LoopLabel, Threads

LEMMA NextRefines ==
  Inv /\ CountInv /\ [Next]_vars => [Queue!FifoNext]_(Queue!fifoVars)
  <1> SUFFICES ASSUME Inv, CountInv, [Next]_vars
               PROVE  [Queue!FifoNext]_(Queue!fifoVars)
    OBVIOUS
  <1>1. ASSUME NEW p \in Producers, Put(p) PROVE Queue!FifoNext
    BY <1>1, PutRefines DEF Queue!FifoNext
  <1>2. ASSUME NEW c \in Consumers, Get(c) PROVE Queue!FifoNext
    BY <1>2, GetRefines DEF Queue!FifoNext
  <1>3. ASSUME UNCHANGED << array, got >>,
               \A t \in Threads :
                 (IF pc'[t] \in {"unlock", "signal"} THEN i'[t] + 1 ELSE i'[t]) =
                 (IF pc[t] \in {"unlock", "signal"} THEN i[t] + 1 ELSE i[t])
        PROVE  UNCHANGED Queue!fifoVars
    <2>1. Items' = Items
      BY <1>3 DEF Items, Wrap, array
    <2>2. Sent' = Sent
      BY <1>3 DEF Sent, Threads
    <2> QED
      BY <1>3, <2>1, <2>2 DEF Queue!fifoVars
  <1> QED
    BY <1>1, <1>2, <1>3, StepKinds

\* The array with its mutex and condition variables is a bounded FIFO queue.
THEOREM QueueIsFifo == Spec => ImplementsFifo
  BY InitInv, NextInv, InitCountInv, NextCountInv, InitRefines, NextRefines, PTL
  DEF Spec, ImplementsFifo, Queue!FifoSpec

-----------------------------------------------------------------------------
(***************************************************************************)
(* No wakeup is lost.  Who has something to signal and who will look at    *)
(* the queue are sets; each step adds a thread to one of them for every    *)
(* thread, place or item it takes from another.                            *)
(***************************************************************************)
Signalling(T) == {t \in T : pc[t] \in {"unlock", "signal"}}
Awake(T) == {t \in T \ (not_full \cup not_empty) : pc[t] \in {"test", "asleep"}}

\* Only threads that sleep are asleep on a condition.
SleepInv == \A t \in not_full \cup not_empty : pc[t] = "asleep"

WakeupInv == SleepInv /\ NoLostWakeup

LEMMA NoLostWakeupIs ==
  NoLostWakeup <=>
    /\ not_full # {} =>
         capacity - length <= Cardinality(Signalling(Consumers)) + Cardinality(Awake(Producers))
    /\ not_empty # {} =>
         length <= Cardinality(Signalling(Producers)) + Cardinality(Awake(Consumers))
BY DEF NoLostWakeup, Signalling, Awake

LEMMA NextSleepInv == Inv /\ SleepInv /\ [Next]_vars => SleepInv'
  <1> SUFFICES ASSUME Inv, SleepInv, [Next]_vars PROVE SleepInv'
    OBVIOUS
  <1> USE DEF Inv, TypeOK, SleepInv, Threads, Goto
  <1>1. ASSUME NEW t \in Threads, Lock(t) \/ Wake(t) \/ SpuriousWakeup(t) \/ Unlock(t)
        PROVE  SleepInv'
    BY <1>1 DEF Lock, Wake, SpuriousWakeup, Unlock
  <1>2. ASSUME NEW t \in Threads, WaitNotFull(t) \/ WaitNotEmpty(t) PROVE SleepInv'
    BY <1>2 DEF WaitNotFull, WaitNotEmpty
  <1>3. ASSUME NEW t \in Threads, Put(t) \/ Get(t) PROVE SleepInv'
    BY <1>3 DEF Put, Get
  <1>4. ASSUME NEW t \in Threads, SignalNotEmpty(t) \/ SignalNotFull(t) PROVE SleepInv'
    BY <1>4 DEF SignalNotEmpty, SignalNotFull, NextLoop, WakesOne
  <1>5. CASE Qdelete \/ UNCHANGED vars
    BY <1>5 DEF Qdelete, vars
  <1> QED
    BY <1>1, <1>2, <1>3, <1>4, <1>5 DEF Next, Produce, Consume

\* How many threads a set of them has, with one more and with one less.
LEMMA Counting ==
  ASSUME NEW T \in SUBSET Threads
  PROVE  /\ Cardinality(T) \in Nat
         /\ \A t \in T : Cardinality(T \ {t}) = Cardinality(T) - 1
         /\ \A t \in Threads \ T : Cardinality(T \cup {t}) = Cardinality(T) + 1
         /\ \A S \in SUBSET T : Cardinality(S) \in Nat /\ Cardinality(S) <= Cardinality(T)
  <1>1. IsFiniteSet(Threads)
    BY QueueAssumption
  <1>2. IsFiniteSet(T)
    BY <1>1, FS_Subset
  <1>3. \A S \in SUBSET T : IsFiniteSet(S) /\ Cardinality(S) <= Cardinality(T)
    BY <1>2, FS_Subset
  <1> QED
    BY <1>2, <1>3, FS_CardinalityType, FS_AddElement, FS_RemoveElement

LEMMA SetsOfThreads ==
  \A T \in {Producers, Consumers} : Signalling(T) \subseteq Threads /\ Awake(T) \subseteq Threads
BY DEF Signalling, Awake, Threads

\* Steps after which no more is wanted and no fewer are there to do it.
LEMMA NoFewer ==
  ASSUME Inv, Inv', NoLostWakeup,
         length' = length, not_full' \subseteq not_full, not_empty' \subseteq not_empty,
         Signalling(Producers) \subseteq Signalling(Producers)',
         Signalling(Consumers) \subseteq Signalling(Consumers)',
         Awake(Producers) \subseteq Awake(Producers)',
         Awake(Consumers) \subseteq Awake(Consumers)'
  PROVE  NoLostWakeup'
  <1>1. \A T \in {Producers, Consumers} :
          Signalling(T)' \subseteq Threads /\ Awake(T)' \subseteq Threads
    BY DEF Signalling, Awake, Threads
  <1>2. length \in Int /\ capacity \in Int
    BY QueueAssumption DEF Inv, TypeOK
  <1>3. /\ Cardinality(Signalling(Producers)) <= Cardinality(Signalling(Producers)')
        /\ Cardinality(Signalling(Consumers)) <= Cardinality(Signalling(Consumers)')
        /\ Cardinality(Awake(Producers)) <= Cardinality(Awake(Producers)')
        /\ Cardinality(Awake(Consumers)) <= Cardinality(Awake(Consumers)')
    BY <1>1, Counting
  <1>4. \A T \in {Producers, Consumers} :
          /\ Cardinality(Signalling(T)) \in Nat /\ Cardinality(Signalling(T)') \in Nat
          /\ Cardinality(Awake(T)) \in Nat /\ Cardinality(Awake(T)') \in Nat
    BY <1>1, SetsOfThreads, Counting
  <1>5. /\ not_full' # {} => capacity - length' <= Cardinality(Signalling(Consumers)')
                                                     + Cardinality(Awake(Producers)')
        /\ not_empty' # {} => length' <= Cardinality(Signalling(Producers)')
                                           + Cardinality(Awake(Consumers)')
    BY <1>2, <1>3, <1>4, NoLostWakeupIs
  <1> QED
    BY <1>5 DEF NoLostWakeup, Signalling, Awake

LEMMA WaitNotFullKeeps ==
  ASSUME Inv, Inv', NoLostWakeup, NEW p \in Producers, WaitNotFull(p)
  PROVE  NoLostWakeup'
  <1> USE DEF Inv, TypeOK, Threads
  <1>1. /\ length' = length /\ capacity - length <= 0 /\ capacity \in Nat /\ length \in Nat
        /\ not_empty' = not_empty /\ \A c \in Consumers : c # p
    BY QueueAssumption DEF WaitNotFull, array
  <1>2. /\ Signalling(Producers)' = Signalling(Producers)
        /\ Awake(Consumers)' = Awake(Consumers)
    BY <1>1 DEF WaitNotFull, Goto, Signalling, Awake
  <1>3. /\ Signalling(Consumers)' \subseteq Threads /\ Awake(Producers)' \subseteq Threads
    BY DEF Signalling, Awake
  <1>4. Cardinality(Signalling(Consumers)') \in Nat /\ Cardinality(Awake(Producers)') \in Nat
    BY <1>3, Counting
  <1>5. /\ capacity - length' <= Cardinality(Signalling(Consumers)') + Cardinality(Awake(Producers)')
        /\ not_empty' # {} => length' <= Cardinality(Signalling(Producers)')
                                           + Cardinality(Awake(Consumers)')
    BY <1>1, <1>2, <1>4, NoLostWakeupIs
  <1> QED
    BY <1>5 DEF NoLostWakeup, Signalling, Awake

LEMMA WaitNotEmptyKeeps ==
  ASSUME Inv, Inv', NoLostWakeup, NEW c \in Consumers, WaitNotEmpty(c)
  PROVE  NoLostWakeup'
  <1> USE DEF Inv, TypeOK, Threads
  <1>1. /\ length' = length /\ length = 0
        /\ not_full' = not_full /\ \A p \in Producers : p # c
    BY QueueAssumption DEF WaitNotEmpty, array
  <1>2. /\ Signalling(Consumers)' = Signalling(Consumers)
        /\ Awake(Producers)' = Awake(Producers)
    BY <1>1 DEF WaitNotEmpty, Goto, Signalling, Awake
  <1>3. /\ Signalling(Producers)' \subseteq Threads /\ Awake(Consumers)' \subseteq Threads
    BY DEF Signalling, Awake
  <1>4. Cardinality(Signalling(Producers)') \in Nat /\ Cardinality(Awake(Consumers)') \in Nat
    BY <1>3, Counting
  <1>5. /\ length' <= Cardinality(Signalling(Producers)') + Cardinality(Awake(Consumers)')
        /\ not_full' # {} => capacity - length' <= Cardinality(Signalling(Consumers)')
                                                     + Cardinality(Awake(Producers)')
    BY <1>1, <1>2, <1>4, NoLostWakeupIs
  <1> QED
    BY <1>5 DEF NoLostWakeup, Signalling, Awake

\* One place less, one producer less to take it; one item more, one more to signal it.
LEMMA PutKeeps ==
  ASSUME Inv, Inv', SleepInv, NoLostWakeup, NEW p \in Producers, Put(p)
  PROVE  NoLostWakeup'
  <1> USE DEF Inv, TypeOK, Threads
  <1>1. /\ length' = length + 1 /\ capacity \in Nat /\ length \in Nat
        /\ UNCHANGED << not_full, not_empty >>
        /\ pc[p] = "test" /\ pc' = [pc EXCEPT ![p] = "unlock"]
        /\ p \notin not_full \cup not_empty /\ \A c \in Consumers : c # p
    BY QueueAssumption DEF Put, Goto, SleepInv
  <1>2. /\ Signalling(Consumers)' = Signalling(Consumers)
        /\ Awake(Consumers)' = Awake(Consumers)
        /\ p \in Threads \ Signalling(Producers)
        /\ Signalling(Producers)' = Signalling(Producers) \cup {p}
        /\ p \in Awake(Producers)
        /\ Awake(Producers)' = Awake(Producers) \ {p}
    BY <1>1 DEF Signalling, Awake
  <1>3. /\ Cardinality(Signalling(Producers)') = Cardinality(Signalling(Producers)) + 1
        /\ Cardinality(Awake(Producers)') = Cardinality(Awake(Producers)) - 1
    BY <1>2, SetsOfThreads, Counting
  <1>4. /\ Cardinality(Signalling(Producers)) \in Nat /\ Cardinality(Awake(Producers)) \in Nat
        /\ Cardinality(Signalling(Consumers)) \in Nat /\ Cardinality(Awake(Consumers)) \in Nat
    BY SetsOfThreads, Counting
  <1>5. /\ not_full' # {} => capacity - length' <= Cardinality(Signalling(Consumers)')
                                                     + Cardinality(Awake(Producers)')
        /\ not_empty' # {} => length' <= Cardinality(Signalling(Producers)')
                                           + Cardinality(Awake(Consumers)')
    <2> HIDE DEF Inv, TypeOK
    <2>1. /\ not_full # {} => capacity - length <= Cardinality(Signalling(Consumers))
                                                      + Cardinality(Awake(Producers))
          /\ not_empty # {} => length <= Cardinality(Signalling(Producers))
                                            + Cardinality(Awake(Consumers))
      BY NoLostWakeupIs
    <2> QED
      BY <1>1, <1>2, <1>3, <1>4, <2>1
  <1> QED
    BY <1>5 DEF NoLostWakeup, Signalling, Awake

LEMMA GetKeeps ==
  ASSUME Inv, Inv', SleepInv, NoLostWakeup, NEW c \in Consumers, Get(c)
  PROVE  NoLostWakeup'
  <1> USE DEF Inv, TypeOK, Threads
  <1>1. /\ length' = length - 1 /\ capacity \in Nat /\ length \in Nat
        /\ UNCHANGED << not_full, not_empty >>
        /\ pc[c] = "test" /\ pc' = [pc EXCEPT ![c] = "unlock"]
        /\ c \notin not_full \cup not_empty /\ \A p \in Producers : p # c
    BY QueueAssumption DEF Get, Goto, SleepInv
  <1>2. /\ Signalling(Producers)' = Signalling(Producers)
        /\ Awake(Producers)' = Awake(Producers)
        /\ c \in Threads \ Signalling(Consumers)
        /\ Signalling(Consumers)' = Signalling(Consumers) \cup {c}
        /\ c \in Awake(Consumers)
        /\ Awake(Consumers)' = Awake(Consumers) \ {c}
    BY <1>1 DEF Signalling, Awake
  <1>3. /\ Cardinality(Signalling(Consumers)') = Cardinality(Signalling(Consumers)) + 1
        /\ Cardinality(Awake(Consumers)') = Cardinality(Awake(Consumers)) - 1
    BY <1>2, SetsOfThreads, Counting
  <1>4. /\ Cardinality(Signalling(Producers)) \in Nat /\ Cardinality(Awake(Producers)) \in Nat
        /\ Cardinality(Signalling(Consumers)) \in Nat /\ Cardinality(Awake(Consumers)) \in Nat
    BY SetsOfThreads, Counting
  <1>5. /\ not_full' # {} => capacity - length' <= Cardinality(Signalling(Consumers)')
                                                     + Cardinality(Awake(Producers)')
        /\ not_empty' # {} => length' <= Cardinality(Signalling(Producers)')
                                           + Cardinality(Awake(Consumers)')
    <2> HIDE DEF Inv, TypeOK
    <2>1. /\ not_full # {} => capacity - length <= Cardinality(Signalling(Consumers))
                                                      + Cardinality(Awake(Producers))
          /\ not_empty # {} => length <= Cardinality(Signalling(Producers))
                                            + Cardinality(Awake(Consumers))
      BY NoLostWakeupIs
    <2> QED
      BY <1>1, <1>2, <1>3, <1>4, <2>1
  <1> QED
    BY <1>5 DEF NoLostWakeup, Signalling, Awake

\* Who signals wakes somebody in its place, unless nobody sleeps.
LEMMA SignalNotEmptyKeeps ==
  ASSUME Inv, Inv', SleepInv, NoLostWakeup, NEW p \in Producers, SignalNotEmpty(p)
  PROVE  NoLostWakeup'
  <1> USE DEF Inv, TypeOK, Threads
  <1>1. /\ length' = length /\ capacity \in Nat /\ length \in Nat /\ not_full' = not_full
        /\ pc[p] = "signal" /\ pc' = [pc EXCEPT ![p] = LoopLabel(i[p] + 1)]
        /\ LoopLabel(i[p] + 1) \in {"lock", "done"}
        /\ WakesOne(not_empty, not_empty') /\ \A c \in Consumers : c # p
    BY QueueAssumption DEF SignalNotEmpty, NextLoop, Goto, LoopLabel, array
  <1>2. /\ Signalling(Consumers)' = Signalling(Consumers)
        /\ p \in Signalling(Producers)
        /\ Signalling(Producers)' = Signalling(Producers) \ {p}
    BY <1>1 DEF Signalling
  <1>3. Awake(Producers)' = Awake(Producers)
    <2>1. \A t \in Producers : t \notin not_empty /\ t \notin not_empty'
      BY <1>1, QueueAssumption DEF WakesOne
    <2> QED
      BY <1>1, <2>1 DEF Awake
  <1>4. Cardinality(Signalling(Producers)') = Cardinality(Signalling(Producers)) - 1
    BY <1>2, SetsOfThreads, Counting
  <1>5. /\ Cardinality(Signalling(Producers)) \in Nat /\ Cardinality(Awake(Producers)) \in Nat
        /\ Cardinality(Signalling(Consumers)) \in Nat /\ Cardinality(Awake(Consumers)) \in Nat
    BY SetsOfThreads, Counting
  <1>6. not_empty' # {} => Cardinality(Awake(Consumers)') = Cardinality(Awake(Consumers)) + 1
    <2> SUFFICES ASSUME not_empty' # {}
                 PROVE  Cardinality(Awake(Consumers)') = Cardinality(Awake(Consumers)) + 1
      OBVIOUS
    <2>1. PICK t \in not_empty : not_empty' = not_empty \ {t}
      BY <1>1 DEF WakesOne
    <2>2. t \in Consumers /\ t \notin not_full /\ pc[t] = "asleep" /\ t # p
      BY <1>1, <2>1, QueueAssumption DEF SleepInv
    <2>3. \A c \in Consumers : pc'[c] = pc[c]
      BY <1>1
    <2>4. t \in Threads \ Awake(Consumers) /\ Awake(Consumers)' = Awake(Consumers) \cup {t}
      <3> HIDE DEF Inv, TypeOK
      <3> QED
        BY <1>1, <2>1, <2>2, <2>3 DEF Awake
    <2> QED
      BY <2>4, SetsOfThreads, Counting
  <1>7. /\ not_full' # {} => capacity - length' <= Cardinality(Signalling(Consumers)')
                                                     + Cardinality(Awake(Producers)')
        /\ not_empty' # {} => length' <= Cardinality(Signalling(Producers)')
                                           + Cardinality(Awake(Consumers)')
    <2> HIDE DEF Inv, TypeOK
    <2>1. not_empty' # {} => not_empty # {}
      BY <1>1 DEF WakesOne
    <2>2. /\ not_full # {} => capacity - length <= Cardinality(Signalling(Consumers))
                                                      + Cardinality(Awake(Producers))
          /\ not_empty # {} => length <= Cardinality(Signalling(Producers))
                                            + Cardinality(Awake(Consumers))
      BY NoLostWakeupIs
    <2> QED
      BY <1>1, <1>2, <1>3, <1>4, <1>5, <1>6, <2>1, <2>2
  <1> QED
    BY <1>7 DEF NoLostWakeup, Signalling, Awake

LEMMA SignalNotFullKeeps ==
  ASSUME Inv, Inv', SleepInv, NoLostWakeup, NEW c \in Consumers, SignalNotFull(c)
  PROVE  NoLostWakeup'
  <1> USE DEF Inv, TypeOK, Threads
  <1>1. /\ length' = length /\ capacity \in Nat /\ length \in Nat /\ not_empty' = not_empty
        /\ pc[c] = "signal" /\ pc' = [pc EXCEPT ![c] = LoopLabel(i[c] + 1)]
        /\ LoopLabel(i[c] + 1) \in {"lock", "done"}
        /\ WakesOne(not_full, not_full') /\ \A p \in Producers : p # c
    BY QueueAssumption DEF SignalNotFull, NextLoop, Goto, LoopLabel, array
  <1>2. /\ Signalling(Producers)' = Signalling(Producers)
        /\ c \in Signalling(Consumers)
        /\ Signalling(Consumers)' = Signalling(Consumers) \ {c}
    BY <1>1 DEF Signalling
  <1>3. Awake(Consumers)' = Awake(Consumers)
    <2>1. \A t \in Consumers : t \notin not_full /\ t \notin not_full'
      BY <1>1, QueueAssumption DEF WakesOne
    <2> QED
      BY <1>1, <2>1 DEF Awake
  <1>4. Cardinality(Signalling(Consumers)') = Cardinality(Signalling(Consumers)) - 1
    BY <1>2, SetsOfThreads, Counting
  <1>5. /\ Cardinality(Signalling(Producers)) \in Nat /\ Cardinality(Awake(Producers)) \in Nat
        /\ Cardinality(Signalling(Consumers)) \in Nat /\ Cardinality(Awake(Consumers)) \in Nat
    BY SetsOfThreads, Counting
  <1>6. not_full' # {} => Cardinality(Awake(Producers)') = Cardinality(Awake(Producers)) + 1
    <2> SUFFICES ASSUME not_full' # {}
                 PROVE  Cardinality(Awake(Producers)') = Cardinality(Awake(Producers)) + 1
      OBVIOUS
    <2>1. PICK t \in not_full : not_full' = not_full \ {t}
      BY <1>1 DEF WakesOne
    <2>2. t \in Producers /\ t \notin not_empty /\ pc[t] = "asleep" /\ t # c
      BY <1>1, <2>1, QueueAssumption DEF SleepInv
    <2>3. t \in Threads \ Awake(Producers) /\ Awake(Producers)' = Awake(Producers) \cup {t}
      BY <1>1, <2>1, <2>2 DEF Awake
    <2> QED
      BY <2>3, SetsOfThreads, Counting
  <1>7. /\ not_full' # {} => capacity - length' <= Cardinality(Signalling(Consumers)')
                                                     + Cardinality(Awake(Producers)')
        /\ not_empty' # {} => length' <= Cardinality(Signalling(Producers)')
                                           + Cardinality(Awake(Consumers)')
    <2> HIDE DEF Inv, TypeOK
    <2>1. not_full' # {} => not_full # {}
      BY <1>1 DEF WakesOne
    <2>2. /\ not_full # {} => capacity - length <= Cardinality(Signalling(Consumers))
                                                      + Cardinality(Awake(Producers))
          /\ not_empty # {} => length <= Cardinality(Signalling(Producers))
                                            + Cardinality(Awake(Consumers))
      BY NoLostWakeupIs
    <2> QED
      BY <1>1, <1>2, <1>3, <1>4, <1>5, <1>6, <2>1, <2>2
  <1> QED
    BY <1>7 DEF NoLostWakeup, Signalling, Awake

LEMMA NextWakeupInv == Inv /\ WakeupInv /\ [Next]_vars => WakeupInv'
  <1> SUFFICES ASSUME Inv, WakeupInv, [Next]_vars PROVE NoLostWakeup'
    BY NextSleepInv DEF WakeupInv
  <1>1. Inv' /\ SleepInv /\ NoLostWakeup
    BY NextInv DEF WakeupInv
  <1>2. ASSUME NEW t \in Threads, Lock(t) \/ Wake(t) \/ Unlock(t) \/ SpuriousWakeup(t)
        PROVE  NoLostWakeup'
    <2>1. /\ length' = length /\ not_full' \subseteq not_full /\ not_empty' \subseteq not_empty
          /\ \A x \in Threads :
               /\ pc[x] \in {"unlock", "signal"} => pc'[x] \in {"unlock", "signal"}
               /\ pc[x] \in {"test", "asleep"} => pc'[x] \in {"test", "asleep"}
      BY <1>2 DEF Lock, Wake, Unlock, SpuriousWakeup, Goto, Inv, TypeOK, array
    <2>2. \A T \in {Producers, Consumers} :
            Signalling(T) \subseteq Signalling(T)' /\ Awake(T) \subseteq Awake(T)'
      BY <2>1 DEF Signalling, Awake, Threads
    <2> QED
      BY <1>1, <2>1, <2>2, NoFewer
  <1>3. CASE Qdelete \/ UNCHANGED vars
    BY <1>1, <1>3 DEF Qdelete, vars, array, NoLostWakeup
  <1> QED
    BY <1>1, <1>2, <1>3, WaitNotFullKeeps, WaitNotEmptyKeeps, PutKeeps, GetKeeps,
       SignalNotEmptyKeeps, SignalNotFullKeeps
    DEF Next, Produce, Consume, Threads

\* While somebody sleeps, every free place or item has a thread that is awake for it
\* or will signal it, though p14 signals after the unlock (lines 100-101 and 127-128):
\* for any number of threads, places and spurious wakeups.
THEOREM NoWakeupIsLost == Spec => []NoLostWakeup
  <1>1. Init => WakeupInv
    BY DEF Init, WakeupInv, SleepInv, NoLostWakeup
  <1> QED
    BY <1>1, InitInv, NextInv, NextWakeupInv, PTL DEF Spec, WakeupInv
=============================================================================
