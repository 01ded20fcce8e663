----------------------------- MODULE SeatSystem -----------------------------
(***************************************************************************)
(* The server and its clients, joined by the connections of SeatNet.       *)
(***************************************************************************)
EXTENDS SeatServer, SeatClient

vars == << netVars, serverVars, clientVars >>

Init == NetInit /\ ServerInit /\ ClientInit

Next ==
  \/ Main /\ UNCHANGED clientVars
  \/ \E t \in Conns : ClientThread(t) /\ UNCHANGED clientVars
  \/ \E c \in Conns : Client(c) /\ UNCHANGED serverVars

Spec == Init /\ [][Next]_vars

(***************************************************************************)
(* Threads are scheduled, and no critical section but main()'s can last:   *)
(* main() and every thread keep going.  A client waits for its replies but *)
(* need not ask anything.                                                  *)
(***************************************************************************)
Fairness ==
  /\ WF_vars((Accept \/ Spawn) /\ UNCHANGED clientVars)
  /\ \A t \in Conns : WF_vars(ClientThread(t) /\ UNCHANGED clientVars)
  /\ \A c \in Conns : WF_vars(Hear(c) /\ UNCHANGED serverVars)

FairSpec == Spec /\ Fairness

-----------------------------------------------------------------------------
(***************************************************************************)
(* Safety, whoever types which user id.                                    *)
(***************************************************************************)
\* A thread that is about to write user_of_seat (lines 141 and 196), or to read
\* it at line 192, has a seat of the array in hand, and a valid user.
IndicesInRange ==
  \A t \in Conns :
    /\ pc[t] \in {"reserve", "cancel_owner", "cancel"} /\ success[t] => DataQ(t) \in Seat
    /\ pc[t] \in OpLabel => UserQ(t) \in User

\* Every variable keeps to the type its declaration and its uses give it, and no
\* array is written outside its bounds.
TypeOK == NetTypeOK /\ ServerTypeOK /\ ClientTypeOK /\ IndicesInRange

\* A thread between recv() and send(): it holds the only copy of a query.
Busy(t) == pc[t] \notin {"none", "start", "recv", "release", "exited"}

(***************************************************************************)
(* Even when two threads read the same connected_fd and serve one client,  *)
(* the client's query is in exactly one place: on its way, with one of the *)
(* threads, or answered.  So no reply is taken for that of another query.  *)
(***************************************************************************)
OneQueryInFlight ==
  /\ \A c \in Conns : sock[c] = "open" =>
       (IF Idle(c) THEN 0 ELSE 1) =
         Len(inbox[c]) + Len(outbox[c]) + Cardinality({t \in Conns : Busy(t) /\ fd[t] = c})
  /\ \A t \in Conns : Busy(t) => recv_query[t] = asked[fd[t]]

\* A password is set by the first login and by no later one (lines 103-107),
\* however many first logins race for it.
PasswordSetOnce ==
  [][\A u \in User : passwd_of_user[u] # -1 => passwd_of_user'[u] = passwd_of_user[u]]_vars

\* Who reads "Login success" has typed the password the account has.
LoginProvesPassword ==
  \A c \in Conns :
    ~Idle(c) /\ asked[c].action = LOGIN /\ outbox[c] = << Say(1) >>
      => passwd_of_user[asked[c].user] = asked[c].data

\* Only users who have once logged in hold seats or sessions: the check that
\* admits a request is three steps away from the one that acts on it.
OwnersAreRegistered ==
  /\ \A s \in Seat : user_of_seat[s] # -1 => passwd_of_user[user_of_seat[s]] # -1
  /\ \A u \in User : is_user_login[u] # NoFd => passwd_of_user[u] # -1

\* A reserved seat never passes from its user to another in one step: it is
\* free in between (line 136 and the lock around it).
NoSeatTheft ==
  [][\A s \in Seat : user_of_seat[s] # -1 => user_of_seat'[s] \in {user_of_seat[s], -1}]_vars

\* When EXIT has been answered its connection has no session left, although
\* the loop of lines 77-83 drops the lock between two users.
ExitEndsSessions ==
  \A t \in Conns : pc[t] \in {"release", "exited"} =>
    \A u \in User : is_user_login[u] # fd[t]

-----------------------------------------------------------------------------
(***************************************************************************)
(* Safety when no user id is typed on two connections (PrivateUsers).      *)
(***************************************************************************)
\* What a client is told is what the server holds: while no query is
\* outstanding, the printed reservations are exactly the user's seats, seat 0
\* aside (pa3_client.c:154 takes its number for a failure), and the list that
\* answers CHECK_RSV, read seat by seat, is that of one moment: it is still
\* right when the client gets it.
ToldIsTrue ==
  \A c \in Conns : sock[c] = "open" =>
    /\ Idle(c) =>
         told[c] = {r \in UsersOf(c) \X (Seat \ {0}) : user_of_seat[r[2]] = r[1]}
    /\ asked[c].action = CHECK_RSV /\ outbox[c] # << >> /\ Head(outbox[c]).code = 0 =>
         Head(outbox[c]).seats = {s \in Seat : user_of_seat[s] = asked[c].user}

\* The server, with its checks and updates steps apart, implements the
\* service in which each operation is one step.
Booking == INSTANCE SeatBooking
  WITH session <- is_user_login, password <- passwd_of_user, owner <- user_of_seat

ImplementsBooking == Booking!BookingSpec

-----------------------------------------------------------------------------
(***************************************************************************)
(* Liveness.                                                               *)
(***************************************************************************)
Served(c) == \E t \in Conns : fd[t] = c /\ pc[t] = "recv"

\* A query is answered once some thread serves its connection, unless that
\* thread is lost inside the lock call for a seat that does not exist.
Answered ==
  \A c \in Conns :
    ~Idle(c) /\ Served(c) ~>
      Idle(c) \/ sock[c] = "closed" \/ \E t \in Conns : fd[t] = c /\ pc[t] = "stuck"

\* Once EXIT has been received its thread gets all the way out: sessions ended,
\* 256 sent, slot given back; unless main() sits on thread_num_lock.
ExitCompletes ==
  \A t \in Conns : pc[t] = "exit" ~> pc[t] = "exited" \/ thread_num_lock

-----------------------------------------------------------------------------
(***************************************************************************)
(* What a comment in the code says and the code does not do.               *)
(***************************************************************************)
\* "You should generate thread when new client accept occurs and process query
\* of client": a thread serves the connection it was created for.  Line 57
\* reads main()'s variable, which the next accept() may have overwritten.
ThreadServesItsConnection ==
  \A t \in Conns : pc[t] \notin {"none", "start"} => fd[t] = t
=============================================================================
