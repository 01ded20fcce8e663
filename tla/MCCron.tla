------------------------------- MODULE MCCron -------------------------------
(***************************************************************************)
(* Values for the constants of Cron.                                       *)
(***************************************************************************)
EXTENDS Cron, TLC

CONSTANTS p1, p2, p3, p4

\* Every minute, one of each hour, all of an hour, and one of the day.
SomeCrontabs ==
  {[minute |-> m, hour |-> h] : m \in {-1, Minutes - 1}, h \in {-1, 0, Hours - 1}}

Symmetric == Permutations(Procs)
=============================================================================
