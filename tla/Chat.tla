-------------------------------- MODULE Chat --------------------------------
(***************************************************************************)
(* p12: a chat server that serves all its clients from one select() loop,  *)
(* and the clients.  A pass of the loop looks, in the order of their       *)
(* numbers, at the descriptors select() found ready; each turn is one step *)
(* but that of the listening descriptor, which accepts a client and then   *)
(* waits for its name.                                                     *)
(*                                                                         *)
(* Lines travel on a stream: one read() returns one or more of them.  How  *)
(* long they are is left out; that an earlier content of the buffer shows  *)
(* behind a shorter one is kept, as a choice.  Lines are short: neither a  *)
(* line nor what is read at once fills the 80 bytes of the buffer.         *)
(***************************************************************************)
EXTENDS Integers, Sequences, FiniteSets, FiniteSetsExt

CONSTANTS
  Users,    \* each is one run of the client
  NoUser,   \* what a descriptor that is not open leads to
  NLines,   \* bound: how many lines each user writes between the name and quit
  Deaths    \* the users whose client may be killed

ASSUME ChatAssumption ==
  /\ IsFiniteSet(Users)
  /\ NoUser \notin Users
  /\ NLines \in [Users -> Nat]

Listener == 0                           \* listening_fd, below what accept() returns
Fds == 1 .. Cardinality(Users)          \* what accept() returns

VARIABLES
  \* the server
  pc,             \* "select", "pass", "name" while it waits for one, "killed"
  read_set,
  ready,          \* copy_set, from the descriptor whose turn it is
  connected_fd,   \* the last one accepted, until its name is read
  usr_cnt,
  dirty,          \* the buffer holds more than zeros
  \* the connections
  backlog, peer,  \* peer[f]: the user at the other end of f
  wrote, taken,   \* how many lines u has written, and how many the server read
  sent,           \* sent[u]: the lines <<speaker, number>> written to u
  told,           \* told[u]: the last number of users written to u, or 0
  rst,            \* whether u's host has refused what it was sent
  \* the clients
  sock,           \* "new", "open", "closed"
  quit            \* the users whose last line was quit

server == << pc, read_set, ready, connected_fd, usr_cnt, dirty, peer, taken >>
output == << sent, told, rst >>
client == << wrote, sock, quit >>
vars == << server, output, client, backlog >>

TypeOK ==
  /\ pc \in {"select", "pass", "name", "killed"}
  /\ read_set \in SUBSET (Fds \cup {Listener})
  /\ ready \in SUBSET (Fds \cup {Listener})
  /\ connected_fd \in Fds \cup {0}
  /\ usr_cnt \in 0 .. Cardinality(Users)
  /\ dirty \in BOOLEAN
  /\ backlog \in Seq(Users)
  /\ peer \in [Fds -> Users \cup {NoUser}]
  /\ {wrote, taken} \subseteq [Users -> Nat]
  /\ \A u \in Users : taken[u] <= wrote[u]
  /\ sent \in [Users -> Seq(Users \X Nat)]
  /\ told \in [Users -> 0 .. Cardinality(Users)]
  /\ rst \in [Users -> {"no", "sent", "arrived"}]
  /\ sock \in [Users -> {"new", "open", "closed"}]
  /\ quit \in SUBSET Users

\* The buffer is not initialised, and so not known to be clean.
Init ==
  /\ pc = "select"
  /\ read_set = {Listener}
  /\ ready = {}
  /\ connected_fd = 0
  /\ usr_cnt = 0
  /\ dirty = TRUE
  /\ backlog = << >>
  /\ peer = [f \in Fds |-> NoUser]
  /\ wrote = [u \in Users |-> 0]
  /\ taken = [u \in Users |-> 0]
  /\ sent = [u \in Users |-> << >>]
  /\ told = [u \in Users |-> 0]
  /\ rst = [u \in Users |-> "no"]
  /\ sock = [u \in Users |-> "new"]
  /\ quit = {}

Pending(u) == wrote[u] - taken[u]

\* The server holds a descriptor for u.
Held(u) == \E f \in Fds : peer[f] = u

-----------------------------------------------------------------------------
(***************************************************************************)
(* The server's writes.                                                    *)
(***************************************************************************)
\* Mutant: the descriptors of this pass are taken for those of all members.
OthersReady(f) == ready \ {Listener, f}

Others(f) == read_set \ {Listener, f}

\* The writes go on until one to a connection that was reset raises SIGPIPE.
Reached(f) ==
  {peer[i] : i \in {i \in Others(f) :
                      \A j \in Others(f) : j <= i => rst[peer[j]] # "arrived"}}

Survives(f) == \A i \in Others(f) : rst[peer[i]] # "arrived"

\* What is written to a client that is gone is refused.
WriteTo(S) ==
  rst' = [u \in Users |-> IF u \in S /\ sock[u] = "closed" /\ rst[u] = "no"
                          THEN "sent" ELSE rst[u]]

\* "%s joined. %d current users." and "%s leaved. %d current users."
Announce(f, n) ==
  /\ WriteTo(Reached(f))
  /\ told' = [u \in Users |-> IF u \in Reached(f) THEN n ELSE told[u]]
  /\ UNCHANGED sent

-----------------------------------------------------------------------------
(***************************************************************************)
(* The server's loop.                                                      *)
(***************************************************************************)
\* A connection whose other end is closed is readable for ever.
Readable(f) ==
  IF f = Listener THEN backlog # << >>
  ELSE Pending(peer[f]) > 0 \/ sock[peer[f]] = "closed"

Select ==
  /\ pc = "select"
  /\ \E f \in read_set : Readable(f)
  /\ ready' = {f \in read_set : Readable(f)}
  /\ pc' = "pass"
  /\ UNCHANGED << read_set, connected_fd, usr_cnt, dirty, peer, taken, output,
                  client, backlog >>

Turn(f) == pc = "pass" /\ f \in ready /\ \A g \in ready : f <= g

PassOn(f) ==
  /\ ready' = ready \ {f}
  /\ pc' = IF ready \subseteq {f} THEN "select" ELSE "pass"

\* The listening descriptor's turn, up to the read() of the name.
Accept ==
  /\ Turn(Listener)
  /\ connected_fd' = Min({f \in Fds : peer[f] = NoUser})
  /\ peer' = [peer EXCEPT ![connected_fd'] = Head(backlog)]
  /\ backlog' = Tail(backlog)
  /\ usr_cnt' = usr_cnt + 1
  /\ pc' = "name"
  /\ UNCHANGED << read_set, ready, dirty, taken, output, client >>

\* Mutant: the new descriptor is not added to read_set.
JoinUnset ==
  /\ connected_fd' = 0
  /\ PassOn(Listener)
  /\ UNCHANGED read_set

Join ==
  /\ read_set' = read_set \cup {connected_fd}
  /\ connected_fd' = 0
  /\ PassOn(Listener)

\* Lines that come with the name are behind its zero byte and lost.
ReadName ==
  /\ pc = "name"
  /\ LET u == peer[connected_fd]
     IN  \E k \in 1 .. Pending(u) : taken' = [taken EXCEPT ![u] = @ + k]
  /\ dirty' = TRUE
  /\ Announce(Listener, usr_cnt)
  /\ \/ Survives(Listener) /\ Join
     \/ ~Survives(Listener) /\ pc' = "killed" /\ UNCHANGED << read_set, connected_fd, ready >>
  /\ UNCHANGED << usr_cnt, peer, client, backlog >>

\* The client is gone: it has no name, and is a member all the same.
ReadNoName ==
  /\ pc = "name"
  /\ Pending(peer[connected_fd]) = 0
  /\ sock[peer[connected_fd]] = "closed"
  /\ Join
  /\ UNCHANGED << usr_cnt, dirty, peer, taken, output, client, backlog >>

\* A quit is seen if it is read alone and nothing else shows behind it.
Relay(f) ==
  /\ Turn(f) /\ f # Listener
  /\ LET u == peer[f]
     IN  \E k \in 1 .. Pending(u) :
           /\ u \in quit /\ Pending(u) = 1 => dirty
           /\ taken' = [taken EXCEPT ![u] = @ + k]
           /\ sent' = [v \in Users |->
                         IF v \in Reached(f)
                         THEN sent[v] \o [n \in 1 .. k |-> << u, taken[u] + n >>]
                         ELSE sent[v]]
  /\ WriteTo(Reached(f))
  /\ \/ Survives(f) /\ dirty' = FALSE /\ PassOn(f)
     \/ ~Survives(f) /\ pc' = "killed" /\ UNCHANGED << ready, dirty >>
  /\ UNCHANGED << read_set, connected_fd, usr_cnt, peer, told, client, backlog >>

\* The turn of a member whose quit is seen; n is the number the others read.
Leaves(f, n) ==
  /\ Turn(f) /\ f # Listener
  /\ peer[f] \in quit /\ Pending(peer[f]) = 1
  /\ taken' = [taken EXCEPT ![peer[f]] = @ + 1]
  /\ usr_cnt' = usr_cnt - 1
  /\ Announce(f, n)

\* Mutant: the others are told before the user is counted out.
LeaveTellsFirst(f) ==
  /\ Leaves(f, usr_cnt)
  /\ \/ /\ Survives(f)
        /\ read_set' = read_set \ {f}
        /\ peer' = [peer EXCEPT ![f] = NoUser]
        /\ dirty' = FALSE
        /\ PassOn(f)
     \/ ~Survives(f) /\ pc' = "killed" /\ UNCHANGED << read_set, ready, dirty, peer >>
  /\ UNCHANGED << connected_fd, client, backlog >>

\* Mutant: the descriptor is closed and stays in read_set.
LeaveUncleared(f) ==
  /\ Leaves(f, usr_cnt - 1)
  /\ \/ /\ Survives(f)
        /\ peer' = [peer EXCEPT ![f] = NoUser]
        /\ dirty' = FALSE
        /\ PassOn(f)
     \/ ~Survives(f) /\ pc' = "killed" /\ UNCHANGED << ready, dirty, peer >>
  /\ UNCHANGED << read_set, connected_fd, client, backlog >>

Leave(f) ==
  /\ Leaves(f, usr_cnt - 1)
  /\ \/ /\ Survives(f)
        /\ read_set' = read_set \ {f}
        /\ peer' = [peer EXCEPT ![f] = NoUser]
        /\ dirty' = FALSE
        /\ PassOn(f)
     \/ ~Survives(f) /\ pc' = "killed" /\ UNCHANGED << read_set, ready, dirty, peer >>
  /\ UNCHANGED << connected_fd, client, backlog >>

\* The end of the stream is read and nothing comes of it.
ReadEnd(f) ==
  /\ Turn(f) /\ f # Listener
  /\ Pending(peer[f]) = 0
  /\ dirty' = FALSE
  /\ PassOn(f)
  /\ UNCHANGED << read_set, connected_fd, usr_cnt, peer, taken, output, client, backlog >>

Server ==
  \/ Select \/ Accept \/ ReadName \/ ReadNoName
  \/ \E f \in Fds : Relay(f) \/ Leave(f) \/ ReadEnd(f)

-----------------------------------------------------------------------------
(***************************************************************************)
(* The clients.                                                            *)
(***************************************************************************)
Connect(u) ==
  /\ sock[u] = "new"
  /\ sock' = [sock EXCEPT ![u] = "open"]
  /\ backlog' = Append(backlog, u)
  /\ UNCHANGED << server, output, wrote, quit >>

Write(u) ==
  /\ sock[u] = "open"
  /\ wrote' = [wrote EXCEPT ![u] = @ + 1]
  /\ UNCHANGED << server, output, sock, backlog >>

WriteName(u) == wrote[u] = 0 /\ Write(u) /\ UNCHANGED quit

Say(u) == u \notin quit /\ wrote[u] \in 1 .. NLines[u] /\ Write(u) /\ UNCHANGED quit

Quit(u) == u \notin quit /\ wrote[u] > 0 /\ Write(u) /\ quit' = quit \cup {u}

\* The connection goes with the process; what it has been sent and has not read
\* to the last byte, if there is anything, is refused.
Close(u) ==
  /\ sock[u] = "open"
  /\ sock' = [sock EXCEPT ![u] = "closed"]
  /\ \/ UNCHANGED rst
     \/ Held(u) /\ (sent[u] # << >> \/ told[u] # 0) /\ rst' = [rst EXCEPT ![u] = "sent"]
  /\ UNCHANGED << server, sent, told, wrote, quit, backlog >>

Exit(u) == u \in quit /\ Close(u)

Die(u) == u \in Deaths /\ Close(u)

ResetArrives(u) ==
  /\ rst[u] = "sent" /\ Held(u)
  /\ rst' = [rst EXCEPT ![u] = "arrived"]
  /\ UNCHANGED << server, sent, told, client, backlog >>

Client(u) ==
  \/ Connect(u) \/ WriteName(u) \/ Say(u) \/ Quit(u) \/ Exit(u) \/ Die(u)
  \/ ResetArrives(u)

\* What becomes of the clients of a server that was killed is left out.
Next == pc # "killed" /\ (Server \/ \E u \in Users : Client(u))

Spec == Init /\ [][Next]_vars

\* The server never stops by itself; a client writes its name as soon as it is
\* connected, and exits after quit.  Each client does so once, and fairness to
\* all of them together is fairness to each.
Fairness ==
  /\ WF_vars(pc # "killed" /\ Server)
  /\ WF_vars(pc # "killed" /\ \E u \in Users : WriteName(u) \/ Exit(u))

FairSpec == Spec /\ Fairness

-----------------------------------------------------------------------------
(***************************************************************************)
(* Properties.                                                             *)
(***************************************************************************)
\* In the middle of a pass, after leaves and the reuse of their numbers: what is
\* still to be looked at is open, every open descriptor but the one whose name is
\* awaited is a member's, no user has two, and usr_cnt counts them.
DescriptorsAgree ==
  pc # "killed" =>
    /\ ready \subseteq read_set
    /\ {f \in Fds : peer[f] # NoUser} =
         (read_set \ {Listener}) \cup (IF pc = "name" THEN {connected_fd} ELSE {})
    /\ \A f, g \in Fds : peer[f] = peer[g] /\ peer[f] # NoUser => f = g
    /\ usr_cnt = Cardinality({f \in Fds : peer[f] # NoUser})

\* The members that were gone before their names were read (lines 75-87).
Unnamed == {f \in read_set \ {Listener} : taken[peer[f]] = 0}

\* Joins and leaves are announced to all the members there are, so that all who
\* were told how many users there are were told the same.  It is the present
\* number, and wrong only by members that were counted without a name and
\* announced to nobody; who is just accepted counts once its name is read.
CountIsKnown ==
  pc # "killed" =>
    LET counted == usr_cnt - (IF pc = "name" THEN 1 ELSE 0)
    IN  \E n \in counted - Cardinality(Unnamed) .. counted :
          \A f \in read_set \ {Listener} : told[peer[f]] \in {0, n}

\* Each turn of the loop is one step of the room: whatever is read is sent to all
\* the members, once and in order, however lines are merged, passes interleave
\* with joins and leaves, and whoever is gone.
Room == INSTANCE ChatRoom
  WITH members <- {peer[f] : f \in read_set \ {Listener}},
       heard <- sent,
       running <- pc # "killed"

ImplementsRoom == Room!RoomSpec

\* What the clients write is read, again and again to the last line, while other
\* connections are at their end and readable all the time, unless a broadcast
\* kills the server.
EveryLineIsRead == []<>((\A u \in Users : Pending(u) = 0) \/ pc = "killed")
=============================================================================
