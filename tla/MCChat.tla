------------------------------- MODULE MCChat -------------------------------
(***************************************************************************)
(* Values for the constants of Chat.                                       *)
(***************************************************************************)
EXTENDS Chat

CONSTANTS u1, u2, u3

\* One user has something to say besides a name and quit.
OneSpeaks == [u \in Users |-> IF u = u2 THEN 1 ELSE 0]
=============================================================================
