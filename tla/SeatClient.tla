----------------------------- MODULE SeatClient -----------------------------
(***************************************************************************)
(* pa3_client.c: connect, then send one query at a time, wait for its      *)
(* reply and print what it means, until EXIT has been answered with 256.   *)
(* One client per connection; where its queries come from (a terminal or a *)
(* file) is abstracted to a choice from QueriesOf[c].                      *)
(***************************************************************************)
EXTENDS SeatNet

CONSTANT Deaths   \* the clients that may be killed

VARIABLES
  asked,   \* asked[c]: the query whose reply is awaited, or NoQuery
  told     \* told[c]: the <<user, seat>> pairs c has printed as reserved and
           \* not, since, as canceled; kept by the person at the terminal

clientVars == << asked, told >>

ClientTypeOK ==
  /\ asked \in [Conns -> Query]
  /\ told \in [Conns -> SUBSET (Int \X Int)]

ClientInit ==
  /\ asked = [c \in Conns |-> NoQuery]
  /\ told = [c \in Conns |-> {}]

Idle(c) == asked[c] = NoQuery

Connect(c) ==
  /\ sock[c] = "new"
  /\ sock' = [sock EXCEPT ![c] = "open"]
  /\ backlog' = Append(backlog, c)
  /\ UNCHANGED << inbox, outbox, clientVars >>

\* Mutant: the client sends without waiting for the last reply.
AskAhead(c) ==
  /\ sock[c] = "open"
  /\ Len(inbox[c]) < 2
  /\ \E q \in QueriesOf[c] :
       /\ asked' = [asked EXCEPT ![c] = q]
       /\ inbox' = [inbox EXCEPT ![c] = Append(@, q)]
  /\ UNCHANGED << sock, backlog, outbox, told >>

\* connect() returns once the connection is in the backlog, so a client may
\* already be asking before the server has accepted it.
Ask(c) ==
  /\ sock[c] = "open"
  /\ Idle(c)
  /\ \E q \in QueriesOf[c] :
       /\ asked' = [asked EXCEPT ![c] = q]
       /\ inbox' = [inbox EXCEPT ![c] = Append(@, q)]
  /\ UNCHANGED << sock, backlog, outbox, told >>

\* "Seat %d is reserved" and "Seat %d is canceled" are printed for codes > 0.
PrintsSeat(r) == r.code > 0

Hear(c) ==
  /\ sock[c] = "open"
  /\ ~Idle(c)
  /\ outbox[c] # << >>
  /\ LET q == asked[c]
         r == Head(outbox[c])
         line == << q.user, r.code >>
     IN  /\ told' = [told EXCEPT ![c] =
              CASE q.action = RESERVE /\ PrintsSeat(r)    -> @ \cup {line}
                [] q.action = CANCEL_RSV /\ PrintsSeat(r) -> @ \ {line}
                [] OTHER -> @]
         /\ sock' = IF /\ q.action = EXIT /\ q.user = EXIT /\ q.data = EXIT
                       /\ r.code = 256
                    THEN [sock EXCEPT ![c] = "closed"] ELSE sock
  /\ asked' = [asked EXCEPT ![c] = NoQuery]
  /\ outbox' = [outbox EXCEPT ![c] = Tail(@)]
  /\ UNCHANGED << backlog, inbox >>

\* The process dies without sending EXIT; what it sent still arrives.
Die(c) ==
  /\ c \in Deaths
  /\ sock[c] = "open"
  /\ sock' = [sock EXCEPT ![c] = "closed"]
  /\ outbox' = [outbox EXCEPT ![c] = << >>]
  /\ UNCHANGED << backlog, inbox, clientVars >>

Client(c) == Connect(c) \/ Ask(c) \/ Hear(c) \/ Die(c)
=============================================================================
