-------------------------------- MODULE Fifo --------------------------------
(***************************************************************************)
(* What the queue of p14.c promises to the threads that share it: a first  *)
(* in, first out buffer of bounded length, in which put_data() and         *)
(* get_data() are each one step.                                           *)
(***************************************************************************)
EXTENDS Integers, Sequences

CONSTANTS Producers, Consumers, capacity, n_loops

VARIABLES
  items,   \* what is in the queue, oldest first
  sent,    \* sent[p]: how many data producer p has put, which were 0, 1, 2 ...
  got      \* got[c]: the data consumer c has got, oldest first

fifoVars == << items, sent, got >>

FifoInit ==
  /\ items = << >>
  /\ sent = [p \in Producers |-> 0]
  /\ got = [c \in Consumers |-> << >>]

FifoPut(p) ==
  /\ sent[p] < n_loops
  /\ Len(items) < capacity
  /\ items' = Append(items, sent[p])
  /\ sent' = [sent EXCEPT ![p] = @ + 1]
  /\ UNCHANGED got

FifoGet(c) ==
  /\ Len(got[c]) < n_loops
  /\ items # << >>
  /\ got' = [got EXCEPT ![c] = Append(@, Head(items))]
  /\ items' = Tail(items)
  /\ UNCHANGED sent

FifoNext ==
  \/ \E p \in Producers : FifoPut(p)
  \/ \E c \in Consumers : FifoGet(c)

FifoSpec == FifoInit /\ [][FifoNext]_fifoVars
=============================================================================
