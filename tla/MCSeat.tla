------------------------------- MODULE MCSeat -------------------------------
(***************************************************************************)
(* Values for the constants of SeatSystem.                                 *)
(***************************************************************************)
EXTENDS SeatSystem, TLC

CONSTANTS c1, c2

Q(u, a, d) == [user |-> u, action |-> a, data |-> d]

\* Two users and one seat: right, wrong and negative passwords, a seat out of
\* range, and everything that can race for the seat or a session.
RacingQueries ==
  {Q(0, LOGIN, 0), Q(0, LOGIN, 1), Q(0, LOGIN, -1), Q(1, LOGIN, 0),
   Q(0, RESERVE, 0), Q(1, RESERVE, 0), Q(0, RESERVE, NSeat),
   Q(0, CANCEL_RSV, 0), Q(0, LOGOUT, 0), Q(0, EXIT, 0)}

\* One user id; a query that may hang, one refused and one not understood.
BadQueries ==
  {Q(0, LOGIN, 0), Q(0, RESERVE, NSeat), Q(0, EXIT, 0), Q(0, EXIT, 1),
   Q(NUser, LOGIN, 0)}

\* The queries of user u about two seats.
QueriesBy(u) ==
  {Q(u, LOGIN, 0), Q(u, RESERVE, 0), Q(u, RESERVE, 1), Q(u, CHECK_RSV, 0),
   Q(u, CANCEL_RSV, 1), Q(u, LOGOUT, 0), Q(0, EXIT, 0)}

Racing == [c \in Conns |-> RacingQueries]
Bad == [c \in Conns |-> BadQueries]
Private == [c \in Conns |-> QueriesBy(IF c = c1 THEN 0 ELSE 1)]

\* The accounts are apart where the properties want them to be.
ASSUME PrivateIsPrivate ==
  QueriesOf = Private => PrivateUsers

Symmetric == Permutations(Conns)
=============================================================================
