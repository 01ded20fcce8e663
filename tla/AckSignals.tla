----------------------------- MODULE AckSignals -----------------------------
(***************************************************************************)
(* p7/main.c: once a second the parent sends SIGUSR1 to its child, which   *)
(* counts it and answers with SIGUSR1; after the last one it sends SIGINT, *)
(* on which the child prints its count and exits.                          *)
(*                                                                         *)
(* A standard signal that is already pending is not queued again (so what  *)
(* is pending is a set), signals that are pending together are delivered   *)
(* in any order, and one without a handler kills the process.              *)
(***************************************************************************)
EXTENDS Integers

CONSTANT NSignals   \* argv[1]

ASSUME SignalsAssumption == NSignals \in Nat

Signals == {"USR1", "INT"}

VARIABLES
  parent, num_send_sig, num_recv_ack,
  parent_pending,   \* the signals sent to the parent and not yet delivered
  child,            \* "ack" within sending_ack(); "killed" by a default action
  num_recv_sig,
  handlers,         \* the signals the child has called signal() for
  child_pending,    \* the signals sent to the child and not yet delivered
  late              \* history: how often the parent sent before the child was
                    \* done with what it had been sent before

parentVars == << parent, num_send_sig, num_recv_ack >>
vars == << parentVars, parent_pending, child, num_recv_sig, handlers, child_pending, late >>

TypeOK ==
  /\ parent \in {"run", "exited"}
  /\ num_send_sig \in 0 .. NSignals
  /\ num_recv_ack \in 0 .. NSignals
  /\ parent_pending \in SUBSET {"USR1"}
  /\ child \in {"run", "ack", "exited", "killed"}
  /\ num_recv_sig \in 0 .. NSignals
  /\ handlers \in SUBSET Signals
  /\ child_pending \in SUBSET Signals
  /\ late \in Nat

\* The parent has its handlers before its first alarm() and so before any
\* signal; the child runs from the fork on, in its own time.
Init ==
  /\ parent = "run"
  /\ num_send_sig = NSignals
  /\ num_recv_ack = 0
  /\ parent_pending = {}
  /\ child = "run"
  /\ num_recv_sig = 0
  /\ handlers = {}
  /\ child_pending = {}
  /\ late = 0

Alive == child \in {"run", "ack"}
Ready == child = "run" /\ handlers = Signals /\ "USR1" \notin child_pending

\* kill(pid, sig) by the parent; a child that has died is a zombie, for which
\* it does nothing.
KillChild(sig) ==
  /\ child_pending' = IF Alive THEN child_pending \cup {sig} ELSE child_pending
  /\ late' = IF Ready THEN late ELSE late + 1

-----------------------------------------------------------------------------
(***************************************************************************)
(* The parent.                                                             *)
(***************************************************************************)
\* Mutant: no test for the last signal.
SendNextEndless ==
  /\ parent = "run"
  /\ num_send_sig' = num_send_sig - 1
  /\ KillChild("USR1")
  /\ UNCHANGED << parent, num_recv_ack, parent_pending, child, num_recv_sig, handlers >>

\* sending_handler() on SIGALRM, a second after the last one or later.
SendNext ==
  /\ parent = "run"
  /\ num_send_sig > 0
  /\ num_send_sig' = num_send_sig - 1
  /\ KillChild("USR1")
  /\ UNCHANGED << parent, num_recv_ack, parent_pending, child, num_recv_sig, handlers >>

\* Mutant: SIGINT goes out while one signal is left.
SendIntEarly ==
  /\ parent = "run"
  /\ num_send_sig <= 1
  /\ parent' = "exited"
  /\ KillChild("INT")
  /\ parent_pending' = {}
  /\ UNCHANGED << num_send_sig, num_recv_ack, child, num_recv_sig, handlers >>

\* Mutant: the parent exits without sending SIGINT.
ExitWithoutInt ==
  /\ parent = "run"
  /\ num_send_sig = 0
  /\ parent' = "exited"
  /\ parent_pending' = {}
  /\ UNCHANGED << num_send_sig, num_recv_ack, child, num_recv_sig, handlers, child_pending, late >>

SendInt ==
  /\ parent = "run"
  /\ num_send_sig = 0
  /\ parent' = "exited"
  /\ KillChild("INT")
  /\ parent_pending' = {}
  /\ UNCHANGED << num_send_sig, num_recv_ack, child, num_recv_sig, handlers >>

RecvAckHandler ==
  /\ parent = "run"
  /\ "USR1" \in parent_pending
  /\ parent_pending' = {}
  /\ num_recv_ack' = num_recv_ack + 1
  /\ UNCHANGED << parent, num_send_sig, child, num_recv_sig, handlers, child_pending, late >>

-----------------------------------------------------------------------------
(***************************************************************************)
(* The child.                                                              *)
(***************************************************************************)
\* It calls signal() for SIGUSR1, then for SIGINT.
Install(sig) ==
  /\ child = "run"
  /\ sig \notin handlers
  /\ sig = "INT" => "USR1" \in handlers
  /\ handlers' = handlers \cup {sig}
  /\ UNCHANGED << parentVars, parent_pending, child, num_recv_sig, child_pending, late >>

\* Mutant: the signal is acknowledged and not counted.
SendingAckUncounted ==
  /\ child = "run"
  /\ "USR1" \in child_pending \cap handlers
  /\ child' = "ack"
  /\ child_pending' = child_pending \ {"USR1"}
  /\ UNCHANGED << parentVars, parent_pending, num_recv_sig, handlers, late >>

\* sending_ack() up to its kill(); SIGUSR1 is blocked until it returns.
SendingAck ==
  /\ child = "run"
  /\ "USR1" \in child_pending \cap handlers
  /\ child' = "ack"
  /\ child_pending' = child_pending \ {"USR1"}
  /\ num_recv_sig' = num_recv_sig + 1
  /\ UNCHANGED << parentVars, parent_pending, handlers, late >>

SendAck ==
  /\ child = "ack"
  /\ child' = "run"
  /\ parent_pending' = IF parent = "run" THEN {"USR1"} ELSE {}
  /\ UNCHANGED << parentVars, num_recv_sig, handlers, child_pending, late >>

\* SIGINT may interrupt sending_ack().
TerminateHandler ==
  /\ Alive
  /\ "INT" \in child_pending \cap handlers
  /\ child' = "exited"
  /\ child_pending' = {}
  /\ UNCHANGED << parentVars, parent_pending, num_recv_sig, handlers, late >>

\* The default action of both signals.
Killed ==
  /\ Alive
  /\ child_pending \ handlers # {}
  /\ child' = "killed"
  /\ child_pending' = {}
  /\ UNCHANGED << parentVars, parent_pending, num_recv_sig, handlers, late >>

SendingHandler == SendNext \/ SendInt
Child ==
  \/ \E sig \in Signals : Install(sig)
  \/ SendingAck \/ SendAck \/ TerminateHandler \/ Killed

Next == SendingHandler \/ RecvAckHandler \/ Child

Spec == Init /\ [][Next]_vars

\* Both processes are scheduled, the alarm goes off, and pending signals are
\* delivered.
FairSpec == Spec /\ WF_vars(SendingHandler) /\ WF_vars(RecvAckHandler) /\ WF_vars(Child)

-----------------------------------------------------------------------------
(***************************************************************************)
(* Properties.                                                             *)
(***************************************************************************)
One(p) == IF p THEN 1 ELSE 0

\* Nothing is counted twice: what has been acknowledged has been received, and
\* what has been received had been sent, whatever is pending in between.
CountsAgree ==
  /\ num_recv_ack + One("USR1" \in parent_pending) + One(child = "ack") <= num_recv_sig
  /\ num_recv_sig + One("USR1" \in child_pending) <= NSignals - num_send_sig

\* A signal is only lost by a send that does not wait for the child, and one by
\* each of them: either it is merged with a pending SIGUSR1 (line 35), or
\* SIGINT overtakes that (line 27).
OneLossPerLateSend == child = "exited" => num_recv_sig + late >= NSignals

\* The program ends: the parent after its last signal, the child by SIGINT or
\* by the first signal that finds no handler.
BothEnd == <>(parent = "exited" /\ ~Alive)
=============================================================================
