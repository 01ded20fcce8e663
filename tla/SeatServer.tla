----------------------------- MODULE SeatServer -----------------------------
(***************************************************************************)
(* pa3_server.c: an accept loop that starts one thread per connection, and *)
(* client_thread(), which answers the queries of one connection.           *)
(*                                                                         *)
(* A step ends where another thread can see or change what the next one    *)
(* uses: a critical section is one step, and every read of a shared array  *)
(* outside its lock is a step of its own.  Locals that each query sets     *)
(* before it reads them are cleared when the reply is sent.                *)
(***************************************************************************)
EXTENDS SeatNet, FiniteSets, FiniteSetsExt

CONSTANTS
  NSlot,      \* length of thread_using_flag and threads  (1024 in the code)
  Faults      \* which calls may fail: a subset of {"accept", "create"}

ASSUME ServerAssumption == NSlot \in Nat \ {0}

Slot == 0 .. NSlot - 1

VARIABLES
  \* globals
  is_user_login, passwd_of_user, user_of_seat, thread_using_flag,
  thread_num_lock,   \* TRUE while main() sits on it after a failed create
  \* main(): connected_fd is the variable every new thread gets a pointer to
  main_pc, connected_fd,
  \* client_thread(), for the thread created when connection t was accepted
  pc, fd, recv_query, success, is_logged_in, scan, seat_arr, return_buffer

tables == << is_user_login, passwd_of_user, user_of_seat >>
slots == << thread_using_flag, thread_num_lock >>
mainVars == << main_pc, connected_fd >>
frame == << fd, recv_query, success, is_logged_in, scan, seat_arr, return_buffer >>
serverVars == << tables, slots, mainVars, pc, frame >>

\* Where a thread can be; "stuck" is blocked for ever inside a mutex call.
Label == {"none", "start", "recv", "exit", "login_check", "login_passwd",
          "login_set", "reserve_check", "reserve", "check_login",
          "check_scan", "cancel_login", "cancel_owner", "cancel",
          "logout_check", "logout", "send", "release", "exited", "stuck"}

\* Inside an operation, between the branch and the reply.
OpLabel == Label \ {"none", "start", "recv", "send", "release", "exited", "stuck"}

ServerTypeOK ==
  /\ is_user_login \in [User -> Conns \cup {NoFd}]
  /\ passwd_of_user \in [User -> Int]
  /\ user_of_seat \in [Seat -> User \cup {-1}]
  /\ thread_using_flag \in [Slot -> Conns \cup {NoFd}]
  /\ thread_num_lock \in BOOLEAN
  /\ main_pc \in {"accept", "spawn"}
  /\ connected_fd \in Conns \cup {NoFd}
  /\ pc \in [Conns -> Label]
  /\ fd \in [Conns -> Conns \cup {NoFd}]
  /\ recv_query \in [Conns -> Query]
  /\ success \in [Conns -> BOOLEAN]
  /\ is_logged_in \in [Conns -> User \cup {-1}]
  /\ scan \in [Conns -> Nat]
  /\ seat_arr \in [Conns -> SUBSET Seat]
  /\ return_buffer \in [Conns -> Reply]

ServerInit ==
  /\ is_user_login = [u \in User |-> NoFd]
  /\ passwd_of_user = [u \in User |-> -1]
  /\ user_of_seat = [s \in Seat |-> -1]
  /\ thread_using_flag = [k \in Slot |-> NoFd]
  /\ thread_num_lock = FALSE
  /\ main_pc = "accept"
  /\ connected_fd = NoFd
  /\ pc = [t \in Conns |-> "none"]
  /\ fd = [t \in Conns |-> NoFd]
  /\ recv_query = [t \in Conns |-> NoQuery]
  /\ success = [t \in Conns |-> FALSE]
  /\ is_logged_in = [t \in Conns |-> -1]
  /\ scan = [t \in Conns |-> 0]
  /\ seat_arr = [t \in Conns |-> {}]
  /\ return_buffer = [t \in Conns |-> Say(0)]

-----------------------------------------------------------------------------
(***************************************************************************)
(* main(): accept, take a slot, create a thread.                           *)
(***************************************************************************)
Accept ==
  /\ main_pc = "accept"
  /\ backlog # << >>
  /\ connected_fd' = Head(backlog)
  /\ backlog' = Tail(backlog)
  /\ main_pc' = "spawn"
  /\ UNCHANGED << tables, slots, pc, frame, sock, inbox, outbox >>

\* accept() returns -1, and -1 is stored before it is looked at.
AcceptFails ==
  /\ "accept" \in Faults
  /\ main_pc = "accept"
  /\ connected_fd' = NoFd
  /\ UNCHANGED << tables, slots, main_pc, pc, frame, netVars >>

\* The first slot that holds old gets new.
FirstSlot(old, new) ==
  LET S == {k \in Slot : thread_using_flag[k] = old}
  IN  thread_using_flag' = IF S = {} THEN thread_using_flag
                           ELSE [thread_using_flag EXCEPT ![Min(S)] = new]

Spawn ==
  /\ main_pc = "spawn"
  /\ ~thread_num_lock
  /\ FirstSlot(NoFd, connected_fd)
  /\ pc' = [pc EXCEPT ![connected_fd] = "start"]
  /\ main_pc' = "accept"
  /\ UNCHANGED << tables, thread_num_lock, connected_fd, frame, netVars >>

\* pthread_create() fails: continue, with the slot taken and the lock held.
SpawnFails ==
  /\ "create" \in Faults
  /\ main_pc = "spawn"
  /\ ~thread_num_lock
  /\ FirstSlot(NoFd, connected_fd)
  /\ thread_num_lock' = TRUE
  /\ main_pc' = "accept"
  /\ UNCHANGED << tables, connected_fd, pc, frame, netVars >>

Main == Accept \/ AcceptFails \/ Spawn \/ SpawnFails

-----------------------------------------------------------------------------
(***************************************************************************)
(* client_thread(): start, receive, reply, leave.                          *)
(***************************************************************************)
Goto(t, from, to) == pc[t] = from /\ pc' = [pc EXCEPT ![t] = to]

\* Line 57 reads main()'s connected_fd whenever the thread gets to run.
Start(t) ==
  /\ Goto(t, "start", "recv")
  /\ fd' = [fd EXCEPT ![t] = connected_fd]
  /\ UNCHANGED << tables, slots, mainVars, recv_query, success, is_logged_in,
                  scan, seat_arr, return_buffer, netVars >>

Valid(q) == q.user \in User /\ q.action \in EXIT .. LOGOUT
IsExit(q) == q.action = EXIT /\ q.user = 0 /\ q.data = 0

\* Mutant: an EXIT with other fields set is dropped without a reply.
BranchSilent(q) ==
  CASE IsExit(q)             -> "exit"
    [] q.action = LOGIN      -> "login_check"
    [] q.action = RESERVE    -> "reserve_check"
    [] q.action = CHECK_RSV  -> "check_login"
    [] q.action = CANCEL_RSV -> "cancel_login"
    [] q.action = LOGOUT     -> "logout_check"
    [] OTHER                 -> "recv"

\* The branch a query takes; an EXIT with other fields set takes none.
Branch(q) ==
  CASE IsExit(q)             -> "exit"
    [] q.action = LOGIN      -> "login_check"
    [] q.action = RESERVE    -> "reserve_check"
    [] q.action = CHECK_RSV  -> "check_login"
    [] q.action = CANCEL_RSV -> "cancel_login"
    [] q.action = LOGOUT     -> "logout_check"
    [] OTHER                 -> "send"

\* Once the client is gone recv() returns 0 and the loop spins: no step.
Receive(t) ==
  /\ pc[t] = "recv"
  /\ fd[t] \in Conns
  /\ inbox[fd[t]] # << >>
  /\ inbox' = [inbox EXCEPT ![fd[t]] = Tail(@)]
  /\ LET q == Head(inbox[fd[t]])
     IN  \/ /\ Valid(q)
            /\ recv_query' = [recv_query EXCEPT ![t] = q]
            /\ pc' = [pc EXCEPT ![t] = Branch(q)]
            /\ UNCHANGED outbox
         \/ /\ ~Valid(q)
            /\ Deliver(fd[t], Say(-1))
            /\ UNCHANGED << recv_query, pc >>
  /\ UNCHANGED << tables, slots, mainVars, fd, success, is_logged_in, scan,
                  seat_arr, return_buffer, sock, backlog >>

Send(t) ==
  /\ Goto(t, "send", IF IsExit(recv_query[t]) THEN "release" ELSE "recv")
  /\ Deliver(fd[t], return_buffer[t])
  /\ recv_query' = [recv_query EXCEPT ![t] = NoQuery]
  /\ success' = [success EXCEPT ![t] = FALSE]
  /\ scan' = [scan EXCEPT ![t] = 0]
  /\ seat_arr' = [seat_arr EXCEPT ![t] = {}]
  /\ return_buffer' = [return_buffer EXCEPT ![t] = Say(0)]
  /\ UNCHANGED << tables, slots, mainVars, fd, is_logged_in, sock, backlog, inbox >>

\* Mutant: the thread waits until it finds the slot it was given.
ReleaseFound(t) ==
  /\ Goto(t, "release", "exited")
  /\ ~thread_num_lock
  /\ \E k \in Slot : thread_using_flag[k] = fd[t]
  /\ FirstSlot(fd[t], NoFd)
  /\ UNCHANGED << tables, thread_num_lock, mainVars, frame, netVars >>

Release(t) ==
  /\ Goto(t, "release", "exited")
  /\ ~thread_num_lock
  /\ FirstSlot(fd[t], NoFd)
  /\ UNCHANGED << tables, thread_num_lock, mainVars, frame, netVars >>

-----------------------------------------------------------------------------
(***************************************************************************)
(* The operations.  Each reads the tables to decide on success, one step   *)
(* per unlocked read or critical section, and ends with a step that acts   *)
(* on the decision and composes the reply.                                 *)
(***************************************************************************)
UserQ(t) == recv_query[t].user
DataQ(t) == recv_query[t].data

\* A step that changes nothing but the thread's own success.
Decide(t, from, to, ok) ==
  /\ Goto(t, from, to)
  /\ success' = [success EXCEPT ![t] = ok]
  /\ UNCHANGED << tables, slots, mainVars, fd, recv_query, is_logged_in, scan,
                  seat_arr, return_buffer, netVars >>

\* The last step of an operation, which leaves reply r to be sent.
Finish(t, from, r) ==
  /\ Goto(t, from, "send")
  /\ return_buffer' = [return_buffer EXCEPT ![t] = r]
  /\ UNCHANGED << passwd_of_user, slots, mainVars, fd, recv_query, success,
                  scan, seat_arr, netVars >>

\* Mutant: only the thread's own memory of the login is asked.
LoggedInLocally(t) == is_logged_in[t] = UserQ(t)

\* The thread logged this user in, and the table still names its connection.
LoggedIn(t) == is_logged_in[t] = UserQ(t) /\ is_user_login[UserQ(t)] = fd[t]

\* Mutant: a negative password is let through.
LoginCheckAnyPasswd(t) ==
  Decide(t, "login_check", "login_passwd", is_user_login[UserQ(t)] = NoFd)

LoginCheck(t) ==
  Decide(t, "login_check", "login_passwd",
         DataQ(t) >= 0 /\ is_user_login[UserQ(t)] = NoFd)

\* Mutant: a password that is set is not compared.
LoginPasswdUnchecked(t) ==
  /\ Goto(t, "login_passwd", "login_set")
  /\ passwd_of_user' =
       IF success[t] /\ passwd_of_user[UserQ(t)] = -1
       THEN [passwd_of_user EXCEPT ![UserQ(t)] = DataQ(t)] ELSE passwd_of_user
  /\ UNCHANGED << is_user_login, user_of_seat, slots, mainVars, frame, netVars >>

\* Mutant: every login that gets here sets the password.
LoginPasswdResets(t) ==
  /\ Goto(t, "login_passwd", "login_set")
  /\ passwd_of_user' =
       IF success[t] THEN [passwd_of_user EXCEPT ![UserQ(t)] = DataQ(t)]
       ELSE passwd_of_user
  /\ UNCHANGED << is_user_login, user_of_seat, slots, mainVars, frame, netVars >>

\* The first login of a user sets the password, later ones must repeat it.
LoginPasswd(t) ==
  /\ Goto(t, "login_passwd", "login_set")
  /\ success' = [success EXCEPT ![t] =
       @ /\ passwd_of_user[UserQ(t)] \in {-1, DataQ(t)}]
  /\ passwd_of_user' =
       IF success[t] /\ passwd_of_user[UserQ(t)] = -1
       THEN [passwd_of_user EXCEPT ![UserQ(t)] = DataQ(t)] ELSE passwd_of_user
  /\ UNCHANGED << is_user_login, user_of_seat, slots, mainVars, fd, recv_query,
                  is_logged_in, scan, seat_arr, return_buffer, netVars >>

LoginSet(t) ==
  /\ Finish(t, "login_set", Say(IF success[t] THEN 1 ELSE -1))
  /\ IF success[t]
     THEN /\ is_user_login' = [is_user_login EXCEPT ![UserQ(t)] = fd[t]]
          /\ is_logged_in' = [is_logged_in EXCEPT ![t] = UserQ(t)]
     ELSE UNCHANGED << is_user_login, is_logged_in >>
  /\ UNCHANGED user_of_seat

\* Mutant: the range of the seat is left to the other tests.
ReserveCheckAnySeat(t) ==
  Decide(t, "reserve_check", "reserve", LoggedIn(t))

ReserveCheck(t) ==
  Decide(t, "reserve_check", "reserve", LoggedIn(t) /\ DataQ(t) \in Seat)

Reserve(t) ==
  /\ LET ok == success[t] /\ user_of_seat[DataQ(t)] \in {-1, UserQ(t)}
     IN  /\ Finish(t, "reserve", Say(IF ok THEN DataQ(t) ELSE -1))
         /\ user_of_seat' = IF ok THEN [user_of_seat EXCEPT ![DataQ(t)] = UserQ(t)]
                            ELSE user_of_seat
  /\ UNCHANGED << is_user_login, is_logged_in >>

\* An invalid seat is refused, but only after seat_lock has been indexed with
\* it: a lock call on memory that is no mutex may also never return.
ReserveHangs(t) ==
  /\ DataQ(t) \notin Seat
  /\ Goto(t, "reserve", "stuck")
  /\ UNCHANGED << tables, slots, mainVars, frame, netVars >>

CheckLogin(t) ==
  Decide(t, "check_login", "check_scan", LoggedIn(t))

\* The loop over the seats takes and drops one lock per seat.
CheckScan(t) ==
  /\ pc[t] = "check_scan"
  /\ scan[t] \in Seat
  /\ seat_arr' = [seat_arr EXCEPT ![t] =
       IF user_of_seat[scan[t]] = UserQ(t) THEN @ \cup {scan[t]} ELSE @]
  /\ scan' = [scan EXCEPT ![t] = @ + 1]
  /\ UNCHANGED << tables, slots, mainVars, pc, fd, recv_query, success,
                  is_logged_in, return_buffer, netVars >>

CheckReply(t) ==
  /\ scan[t] \notin Seat
  /\ Finish(t, "check_scan", IF success[t] /\ seat_arr[t] # {}
                             THEN List(seat_arr[t]) ELSE Say(-1))
  /\ UNCHANGED << is_user_login, user_of_seat, is_logged_in >>

CancelLogin(t) ==
  Decide(t, "cancel_login", "cancel_owner", LoggedIn(t) /\ DataQ(t) \in Seat)

\* Mutant: anyone may cancel.
CancelOwnerAny(t) ==
  Decide(t, "cancel_owner", "cancel", success[t])

\* Line 192 reads the owner of the seat without seat_lock.
CancelOwner(t) ==
  Decide(t, "cancel_owner", "cancel",
         success[t] /\ user_of_seat[DataQ(t)] = UserQ(t))

Cancel(t) ==
  /\ Finish(t, "cancel", Say(IF success[t] THEN DataQ(t) ELSE -1))
  /\ user_of_seat' = IF success[t] THEN [user_of_seat EXCEPT ![DataQ(t)] = -1]
                     ELSE user_of_seat
  /\ UNCHANGED << is_user_login, is_logged_in >>

\* Mutant: the table is not asked which connection has the session.
LogoutCheckLocal(t) ==
  Decide(t, "logout_check", "logout", is_logged_in[t] = UserQ(t))

LogoutCheck(t) ==
  Decide(t, "logout_check", "logout", LoggedIn(t))

Logout(t) ==
  /\ Finish(t, "logout", Say(IF success[t] THEN 1 ELSE -1))
  /\ is_user_login' = IF success[t] THEN [is_user_login EXCEPT ![UserQ(t)] = NoFd]
                      ELSE is_user_login
  /\ UNCHANGED << user_of_seat, is_logged_in >>

\* EXIT ends every session of this connection, one critical section per user.
ExitClear(t) ==
  /\ pc[t] = "exit"
  /\ scan[t] \in User
  /\ is_user_login' = IF is_user_login[scan[t]] = fd[t]
                      THEN [is_user_login EXCEPT ![scan[t]] = NoFd]
                      ELSE is_user_login
  /\ scan' = [scan EXCEPT ![t] = @ + 1]
  /\ UNCHANGED << passwd_of_user, user_of_seat, slots, mainVars, pc, fd,
                  recv_query, success, is_logged_in, seat_arr, return_buffer,
                  netVars >>

\* Mutant: the loop over the users stops one short.
ExitReplyEarly(t) ==
  /\ scan[t] = NUser - 1
  /\ Finish(t, "exit", Say(256))
  /\ UNCHANGED << is_user_login, user_of_seat, is_logged_in >>

ExitReply(t) ==
  /\ scan[t] \notin User
  /\ Finish(t, "exit", Say(256))
  /\ UNCHANGED << is_user_login, user_of_seat, is_logged_in >>

ClientThread(t) ==
  \/ Start(t) \/ Receive(t) \/ Send(t) \/ Release(t)
  \/ LoginCheck(t) \/ LoginPasswd(t) \/ LoginSet(t)
  \/ ReserveCheck(t) \/ Reserve(t) \/ ReserveHangs(t)
  \/ CheckLogin(t) \/ CheckScan(t) \/ CheckReply(t)
  \/ CancelLogin(t) \/ CancelOwner(t) \/ Cancel(t)
  \/ LogoutCheck(t) \/ Logout(t)
  \/ ExitClear(t) \/ ExitReply(t)
=============================================================================
