----------------------------- MODULE SeatRaces -----------------------------
(***************************************************************************)
(* SeatSystem with a history variable, for accounts that are used on       *)
(* several connections.  LOGIN tests for a session and sets one in two     *)
(* critical sections (lines 97 and 114), so that two logins may both set   *)
(* it.  overwritten records that this has happened; the system neither     *)
(* reads it nor is kept by it from any step.                               *)
(***************************************************************************)
EXTENDS SeatSystem

VARIABLE overwritten   \* a session has passed from one connection to another

raceVars == << vars, overwritten >>

\* The step gives another connection a session that was not closed.
Overwriting ==
  \E u \in User :
    /\ is_user_login[u] # NoFd
    /\ is_user_login'[u] \notin {NoFd, is_user_login[u]}

RaceInit == Init /\ overwritten = FALSE

RaceNext == Next /\ overwritten' = (overwritten \/ Overwriting)

RaceSpec == RaceInit /\ [][RaceNext]_raceVars

-----------------------------------------------------------------------------
\* Whoever shares accounts and races for seats, each step that changes a table
\* is one whole operation of SeatBooking, unless a login has overwritten a
\* session: RESERVE (line 141), CANCEL_RSV (line 196) and LOGOUT (line 211) act
\* on unlocked reads that are several steps old, and nothing else makes them stale.
AtomicUntilOverwritten ==
  [][Booking!BookingNext \/ overwritten']_(Booking!bookingVars)
=============================================================================
