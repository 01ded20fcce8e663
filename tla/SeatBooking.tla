---------------------------- MODULE SeatBooking ----------------------------
(***************************************************************************)
(* What the reservation service promises, with every operation in one      *)
(* step: a user registers by the first login, has at most one session, and *)
(* only from within a session takes a free seat or gives up an own one.    *)
(***************************************************************************)
EXTENDS Integers

CONSTANTS User, Seat, Conns, NoFd

VARIABLES session, password, owner

bookingVars == << session, password, owner >>

BookingInit ==
  /\ session = [u \in User |-> NoFd]
  /\ password = [u \in User |-> -1]
  /\ owner = [s \in Seat |-> -1]

Register(u) ==
  /\ password[u] = -1
  /\ password'[u] \in Nat
  /\ password' = [password EXCEPT ![u] = password'[u]]
  /\ UNCHANGED << session, owner >>

OpenSession(u, c) ==
  /\ session[u] = NoFd
  /\ password[u] # -1
  /\ session' = [session EXCEPT ![u] = c]
  /\ UNCHANGED << password, owner >>

CloseSession(u) ==
  /\ session[u] # NoFd
  /\ session' = [session EXCEPT ![u] = NoFd]
  /\ UNCHANGED << password, owner >>

TakeSeat(u, s) ==
  /\ session[u] # NoFd
  /\ owner[s] = -1
  /\ owner' = [owner EXCEPT ![s] = u]
  /\ UNCHANGED << session, password >>

GiveUpSeat(u, s) ==
  /\ session[u] # NoFd
  /\ owner[s] = u
  /\ owner' = [owner EXCEPT ![s] = -1]
  /\ UNCHANGED << session, password >>

BookingNext ==
  \E u \in User :
    \/ Register(u)
    \/ \E c \in Conns : OpenSession(u, c)
    \/ CloseSession(u)
    \/ \E s \in Seat : TakeSeat(u, s) \/ GiveUpSeat(u, s)

BookingSpec == BookingInit /\ [][BookingNext]_bookingVars
=============================================================================
