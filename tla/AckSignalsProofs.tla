-------------------------- MODULE AckSignalsProofs --------------------------
(***************************************************************************)
(* Proofs about AckSignals, for any number of signals.                     *)
(***************************************************************************)
EXTENDS AckSignals, TLAPS

\* TypeOK bounds the counters by NSignals, and needs CountsAgree for that.
LEMMA InitCounts == Init => TypeOK /\ CountsAgree
  BY SignalsAssumption DEF Init, TypeOK, CountsAgree, One

LEMMA NextCounts == TypeOK /\ CountsAgree /\ [Next]_vars => (TypeOK /\ CountsAgree)'
  <1> SUFFICES ASSUME TypeOK, CountsAgree, [Next]_vars
               PROVE  (TypeOK /\ CountsAgree)'
    OBVIOUS
  <1> USE SignalsAssumption DEF TypeOK, CountsAgree, One, parentVars, Signals
  <1>1. CASE SendNext
    BY <1>1 DEF SendNext, KillChild, Ready, Alive
  <1>2. CASE SendInt
    BY <1>2 DEF SendInt, KillChild, Ready, Alive
  <1>3. CASE RecvAckHandler
    BY <1>3 DEF RecvAckHandler
  <1>4. ASSUME NEW sig \in Signals, Install(sig) PROVE (TypeOK /\ CountsAgree)'
    BY <1>4 DEF Install
  <1>5. CASE SendingAck
    BY <1>5 DEF SendingAck
  <1>6. CASE SendAck
    BY <1>6 DEF SendAck
  <1>7. CASE TerminateHandler \/ Killed
    <2>1. child' \in {"exited", "killed"} /\ child_pending' = {}
      BY <1>7 DEF TerminateHandler, Killed
    <2>2. UNCHANGED << parentVars, parent_pending, num_recv_sig, handlers, late >>
      BY <1>7 DEF TerminateHandler, Killed
    <2> QED
      BY <2>1, <2>2
  <1>8. CASE UNCHANGED vars
    BY <1>8 DEF vars
  <1> QED
    BY <1>1, <1>2, <1>3, <1>4, <1>5, <1>6, <1>7, <1>8 DEF Next, SendingHandler, Child

\* No signal and no acknowledgement is ever counted that was not sent.
THEOREM CountsAlwaysAgree == Spec => [](TypeOK /\ CountsAgree)
  BY InitCounts, NextCounts, PTL DEF Spec

(***************************************************************************)
(* The variables have their types: neither counter passes NSignals, since  *)
(* the parent stops at its last signal and the child counts only what was  *)
(* sent.                                                                   *)
(***************************************************************************)
THEOREM TypeCorrect == Spec => []TypeOK
  BY InitCounts, NextCounts, PTL DEF Spec

-----------------------------------------------------------------------------
\* What the child has counted, the signal that is pending and one for each late
\* send make up what has been sent; once SIGINT is on its way, the first and
\* the last alone.
LossInv ==
  /\ Alive => num_recv_sig + One("USR1" \in child_pending) + late >= NSignals - num_send_sig
  /\ parent = "exited" => num_send_sig = 0
  /\ "INT" \in child_pending \/ child = "exited" =>
       parent = "exited" /\ num_recv_sig + late >= NSignals

LEMMA NextLoss ==
  ASSUME TypeOK, LossInv, [Next]_vars
  PROVE  LossInv'
  <1> USE SignalsAssumption DEF TypeOK, LossInv, One, parentVars, Signals, Alive
  <1>1. CASE SendNext
    BY <1>1 DEF SendNext, KillChild, Ready
  <1>2. CASE SendInt
    BY <1>2 DEF SendInt, KillChild, Ready
  <1>3. CASE RecvAckHandler
    BY <1>3 DEF RecvAckHandler
  <1>4. ASSUME NEW sig \in Signals, Install(sig) PROVE LossInv'
    BY <1>4 DEF Install
  <1>5. CASE SendingAck
    BY <1>5 DEF SendingAck
  <1>6. CASE SendAck
    BY <1>6 DEF SendAck
  <1>7. CASE TerminateHandler \/ Killed
    BY <1>7 DEF TerminateHandler, Killed
  <1>8. CASE UNCHANGED vars
    BY <1>8 DEF vars
  <1> QED
    BY <1>1, <1>2, <1>3, <1>4, <1>5, <1>6, <1>7, <1>8 DEF Next, SendingHandler, Child

\* The child that SIGINT ends has missed at most one signal for each late send,
\* and so none if it kept up, which is when the comment at line 84 holds.
THEOREM LossesAreLate == Spec => []OneLossPerLateSend
  <1>1. Init => LossInv
    BY SignalsAssumption DEF Init, LossInv, One, Alive
  <1>2. TypeOK /\ LossInv /\ [Next]_vars => LossInv'
    BY NextLoss
  <1>3. LossInv => OneLossPerLateSend
    BY DEF LossInv, OneLossPerLateSend
  <1> QED
    BY <1>1, <1>2, <1>3, InitCounts, NextCounts, PTL DEF Spec
=============================================================================
