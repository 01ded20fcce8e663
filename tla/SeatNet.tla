------------------------------ MODULE SeatNet ------------------------------
(***************************************************************************)
(* What pa3_client and pa3_server share: the query struct, the reply, and  *)
(* one TCP connection per client process.                                  *)
(*                                                                         *)
(* A connection is named by the descriptor that accept() returns for it.   *)
(* The server never closes a connection, so a descriptor is never used     *)
(* twice and one name per connection is exact.                             *)
(***************************************************************************)
EXTENDS Integers, Sequences

CONSTANTS
  NUser,      \* valid user ids are 0 .. NUser-1        (1024 in the code)
  NSeat,      \* valid seats are 0 .. NSeat-1           (MAX_SEAT = 256)
  Conns,      \* one connection for each run of a client
  NoFd,       \* the -1 found where a descriptor is expected
  QueriesOf   \* QueriesOf[c]: what the user of connection c may type

EXIT == 0
LOGIN == 1
RESERVE == 2
CHECK_RSV == 3
CANCEL_RSV == 4
LOGOUT == 5

User == 0 .. NUser - 1
Seat == 0 .. NSeat - 1

\* The C struct _query: three ints, none of them checked by the client.
Query == [user : Int, action : Int, data : Int]

\* Stands for "no query outstanding"; no client sends it.
NoQuery == [user |-> -1, action |-> -1, data |-> -1]

\* A reply is known by the integer atoi() reads from it and, for a
\* reservation check, by the seats it lists: "Reservation: 1, 2" has code 0.
Reply == [code : Int, seats : SUBSET Seat]
Say(n) == [code |-> n, seats |-> {}]
List(S) == [code |-> 0, seats |-> S]

ASSUME NetAssumption ==
  /\ NUser \in Nat \ {0}
  /\ NSeat \in Nat \ {0}
  /\ NoFd \notin Conns
  /\ \A c \in Conns : QueriesOf[c] \subseteq Query /\ NoQuery \notin QueriesOf[c]

\* The users whose account c uses; EXIT names no account, its 0 is a code.
UsersOf(c) == {q.user : q \in {p \in QueriesOf[c] : p.action # EXIT}} \cap User

\* No user id is typed on two connections: every account has one terminal.
\* The server does not enforce this; some properties need it.
PrivateUsers == \A c, d \in Conns : c # d => UsersOf(c) \cap UsersOf(d) = {}

-----------------------------------------------------------------------------
VARIABLES
  sock,     \* the client's end: "new", then "open", then "closed"
  backlog,  \* connections established and not yet accepted, oldest first
  inbox,    \* inbox[c]: queries sent and not yet received by the server
  outbox    \* outbox[c]: replies sent and not yet received by the client

netVars == << sock, backlog, inbox, outbox >>

NetTypeOK ==
  /\ sock \in [Conns -> {"new", "open", "closed"}]
  /\ backlog \in Seq(Conns)
  /\ inbox \in [Conns -> Seq(Query)]
  /\ outbox \in [Conns -> Seq(Reply)]

NetInit ==
  /\ sock = [c \in Conns |-> "new"]
  /\ backlog = << >>
  /\ inbox = [c \in Conns |-> << >>]
  /\ outbox = [c \in Conns |-> << >>]

\* send() on the server's side; what is sent to a dead client is lost.
Deliver(c, r) ==
  outbox' = [outbox EXCEPT ![c] = IF sock[c] = "open" THEN Append(@, r) ELSE @]
=============================================================================
