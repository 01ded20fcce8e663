-------------------------- MODULE SeatSystemProofs --------------------------
(***************************************************************************)
(* Proofs about SeatSystem, for any number of users, seats, slots and      *)
(* connections, any queries and any faults.  First the data: passwords,    *)
(* owners and seats.  Then the queries: each client's query is in one      *)
(* place, a login proves the password, and EXIT leaves no session.  Last,  *)
(* with one terminal for each account, the server implements SeatBooking   *)
(* and tells its clients the truth.                                        *)
(***************************************************************************)
EXTENDS SeatRaces, FiniteSetTheorems, TLAPS

\* Between recv() and the reply the query at hand names a valid user.
QueryIsValid == \A t \in Conns : pc[t] \in OpLabel => recv_query[t].user \in User

TypeInv == NetTypeOK /\ ServerTypeOK /\ ClientTypeOK /\ QueryIsValid

-----------------------------------------------------------------------------
\* The replies that are said and the lists that are sent are replies.
LEMMA SayIsReply == \A n \in Int : Say(n) \in Reply
  BY DEF Say, Reply

LEMMA ListIsReply == \A S \in SUBSET Seat : List(S) \in Reply
  BY DEF List, Reply

LEMMA NoQueryIsQuery == NoQuery \in Query
  BY DEF NoQuery, Query

LEMMA InitTypeInv == Init => TypeInv
  <1> SUFFICES ASSUME Init PROVE TypeInv
    OBVIOUS
  <1>1. NetTypeOK
    BY DEF Init, NetInit, NetTypeOK
  <1>2. Say(0) \in Reply
    BY SayIsReply
  <1>3. ServerTypeOK
    <2>1. success \in [Conns -> BOOLEAN] /\ thread_num_lock \in BOOLEAN
      BY DEF Init, ServerInit
    <2>2. seat_arr \in [Conns -> SUBSET Seat]
      BY DEF Init, ServerInit
    <2> QED
      BY <1>2, <2>1, <2>2, NoQueryIsQuery DEF Init, ServerInit, ServerTypeOK, Label
  <1>4. ClientTypeOK
    BY NoQueryIsQuery DEF Init, ClientInit, ClientTypeOK
  <1>5. QueryIsValid
    BY DEF Init, ServerInit, QueryIsValid, OpLabel
  <1> QED
    BY <1>1, <1>3, <1>4, <1>5 DEF TypeInv

LEMMA MainTypeInv ==
  ASSUME TypeInv, Main, UNCHANGED clientVars
  PROVE  TypeInv'
  <1> USE DEF TypeInv, NetTypeOK, ServerTypeOK, ClientTypeOK, QueryIsValid
  <1>1. CASE Accept
    <2>1. backlog # << >> /\ Head(backlog) \in Conns /\ Tail(backlog) \in Seq(Conns)
      BY <1>1 DEF Accept
    <2> QED
      BY <1>1, <2>1 DEF Accept, tables, slots, frame, clientVars
  <1>2. CASE AcceptFails
    BY <1>2 DEF AcceptFails, tables, slots, frame, netVars, clientVars
  <1>3. CASE Spawn
    <2>1. thread_using_flag' \in [Slot -> Conns \cup {NoFd}]
      BY <1>3 DEF Spawn, FirstSlot
    <2>2. pc' \in [Conns -> Label] /\ \A t \in Conns : pc'[t] \in {pc[t], "start"}
      BY <1>3 DEF Spawn, Label
    <2> QED
      BY <1>3, <2>1, <2>2 DEF Spawn, tables, frame, netVars, clientVars, OpLabel
  <1>4. CASE SpawnFails
    <2>1. thread_using_flag' \in [Slot -> Conns \cup {NoFd}]
      BY <1>4 DEF SpawnFails, FirstSlot
    <2> QED
      BY <1>4, <2>1 DEF SpawnFails, tables, frame, netVars, clientVars
  <1> QED
    BY <1>1, <1>2, <1>3, <1>4 DEF Main

LEMMA DeliverType ==
  ASSUME TypeInv, NEW c, NEW r \in Reply, Deliver(c, r)
  PROVE  outbox' \in [Conns -> Seq(Reply)]
  <1>1. outbox \in [Conns -> Seq(Reply)]
    BY DEF TypeInv, NetTypeOK
  <1>2. \A s \in Seq(Reply) : Append(s, r) \in Seq(Reply)
    OBVIOUS
  <1>3. CASE sock[c] = "open"
    <2>1. outbox' = [outbox EXCEPT ![c] = Append(@, r)]
      BY <1>3 DEF Deliver
    <2> QED
      BY <1>1, <1>2, <2>1
  <1>4. CASE sock[c] # "open"
    <2>1. outbox' = [outbox EXCEPT ![c] = @]
      BY <1>4 DEF Deliver
    <2> QED
      BY <1>1, <2>1
  <1> QED
    BY <1>3, <1>4

\* What a step of a thread leaves alone keeps its type; each step below says
\* what becomes of the rest.
LEMMA ThreadTypeInv ==
  ASSUME TypeInv, NEW t \in Conns, ClientThread(t), UNCHANGED clientVars
  PROVE  TypeInv'
  <1> USE DEF TypeInv, NetTypeOK, ServerTypeOK, ClientTypeOK, QueryIsValid
  <1>a. \A l \in Label : [pc EXCEPT ![t] = l] \in [Conns -> Label]
    OBVIOUS
  <1>b. \A b \in BOOLEAN : [success EXCEPT ![t] = b] \in [Conns -> BOOLEAN]
    OBVIOUS
  <1>c. recv_query[t].user \in Int /\ recv_query[t].data \in Int
    BY DEF Query
  <1>1. CASE Start(t)
    BY <1>1 DEF Start, Goto, Label, OpLabel, tables, slots, mainVars, netVars, clientVars
  <1>2. CASE Receive(t)
    <2> DEFINE q == Head(inbox[fd[t]])
    <2>1. q \in Query /\ inbox' \in [Conns -> Seq(Query)]
      BY <1>2 DEF Receive
    <2>2. outbox' \in [Conns -> Seq(Reply)]
      <3>1. CASE Valid(q)
        BY <1>2, <3>1 DEF Receive
      <3>2. CASE ~Valid(q)
        <4>1. Deliver(fd[t], Say(-1))
          BY <1>2, <3>2 DEF Receive
        <4>2. Say(-1) \in Reply
          BY SayIsReply
        <4> QED
          BY <4>1, <4>2, DeliverType DEF Receive
      <3> QED
        BY <3>1, <3>2
    <2>3. /\ pc' \in [Conns -> Label]
          /\ recv_query' \in [Conns -> Query]
          /\ QueryIsValid'
      <3>1. CASE Valid(q)
        <4>1. Branch(q) \in Label
          BY DEF Branch, Label
        <4>2. /\ recv_query' = [recv_query EXCEPT ![t] = q]
              /\ pc' = [pc EXCEPT ![t] = Branch(q)]
          BY <1>2, <3>1 DEF Receive
        <4>3. q.user \in User
          BY <3>1 DEF Valid
        <4> HIDE DEF q
        <4> QED
          BY <2>1, <4>1, <4>2, <4>3
      <3>2. CASE ~Valid(q)
        BY <1>2, <3>2 DEF Receive
      <3> QED
        BY <3>1, <3>2
    <2> QED
      BY <1>2, <2>1, <2>2, <2>3
      DEF Receive, tables, slots, mainVars, clientVars
  <1>3. CASE Send(t)
    <2>1. outbox' \in [Conns -> Seq(Reply)]
      BY <1>3, DeliverType DEF Send
    <2>2. pc' \in [Conns -> Label] /\ recv_query' \in [Conns -> Query]
      BY <1>3, NoQueryIsQuery DEF Send, Goto, Label
    <2>3. success' \in [Conns -> BOOLEAN]
      BY <1>3 DEF Send
    <2>4. /\ scan' \in [Conns -> Nat]
          /\ seat_arr' \in [Conns -> SUBSET Seat]
          /\ return_buffer' \in [Conns -> Reply]
      BY <1>3, SayIsReply DEF Send
    <2>5. QueryIsValid'
      BY <1>3 DEF Send, Goto, OpLabel
    <2> QED
      BY <1>3, <2>1, <2>2, <2>3, <2>4, <2>5
      DEF Send, tables, slots, mainVars, clientVars
  <1>4. CASE Release(t)
    <2>1. thread_using_flag' \in [Slot -> Conns \cup {NoFd}]
      BY <1>4 DEF Release, FirstSlot
    <2>2. pc' \in [Conns -> Label] /\ QueryIsValid'
      BY <1>4 DEF Release, Goto, Label, OpLabel, frame
    <2> QED
      BY <1>4, <2>1, <2>2 DEF Release, tables, mainVars, frame, netVars, clientVars
  <1>5. ASSUME NEW from \in OpLabel, NEW to \in OpLabel, NEW ok \in BOOLEAN,
               Decide(t, from, to, ok)
        PROVE  TypeInv'
    <2>1. pc' \in [Conns -> Label] /\ QueryIsValid'
      BY <1>5 DEF Decide, Goto, OpLabel
    <2>2. success' \in [Conns -> BOOLEAN]
      BY <1>5 DEF Decide
    <2> QED
      BY <1>5, <2>1, <2>2 DEF Decide, tables, slots, mainVars, netVars, clientVars
  <1>6. ASSUME NEW from, NEW r \in Reply, Finish(t, from, r),
               is_user_login' \in [User -> Conns \cup {NoFd}],
               user_of_seat' \in [Seat -> User \cup {-1}],
               is_logged_in' \in [Conns -> User \cup {-1}]
        PROVE  TypeInv'
    <2>1. pc' \in [Conns -> Label] /\ QueryIsValid'
      BY <1>6 DEF Finish, Goto, Label, OpLabel
    <2>2. return_buffer' \in [Conns -> Reply]
      BY <1>6 DEF Finish
    <2> QED
      BY <1>6, <2>1, <2>2 DEF Finish, slots, mainVars, netVars, clientVars
  <1>7. CASE LoginCheck(t)
    BY <1>5, <1>7 DEF LoginCheck, OpLabel, Label
  <1>8. CASE LoginPasswd(t)
    <2>1. passwd_of_user' \in [User -> Int]
      BY <1>8, <1>c DEF LoginPasswd, DataQ
    <2>2. success' \in [Conns -> BOOLEAN]
      BY <1>8 DEF LoginPasswd
    <2>3. pc' \in [Conns -> Label] /\ QueryIsValid'
      BY <1>8 DEF LoginPasswd, Goto, Label, OpLabel
    <2> QED
      BY <1>8, <2>1, <2>2, <2>3
      DEF LoginPasswd, slots, mainVars, netVars, clientVars
  <1>9. CASE LoginSet(t)
    <2>1. UserQ(t) \in User /\ fd[t] \in Conns \cup {NoFd}
      BY <1>9 DEF LoginSet, Finish, Goto, OpLabel, Label, UserQ
    <2>2. /\ is_user_login' \in [User -> Conns \cup {NoFd}]
          /\ is_logged_in' \in [Conns -> User \cup {-1}]
          /\ user_of_seat' = user_of_seat
      BY <1>9, <2>1 DEF LoginSet
    <2>3. PICK r \in Reply : Finish(t, "login_set", r)
      BY <1>9, SayIsReply DEF LoginSet
    <2> QED
      BY <1>6, <2>2, <2>3
  <1>10. CASE ReserveCheck(t)
    BY <1>5, <1>10 DEF ReserveCheck, OpLabel, Label
  <1>11. CASE Reserve(t)
    <2>1. UserQ(t) \in User
      BY <1>11 DEF Reserve, Finish, Goto, OpLabel, Label, UserQ
    <2>2. user_of_seat' \in [Seat -> User \cup {-1}]
      BY <1>11, <2>1 DEF Reserve
    <2>3. PICK r \in Reply : Finish(t, "reserve", r)
      BY <1>11, <1>c, SayIsReply DEF Reserve, DataQ
    <2> QED
      BY <1>6, <1>11, <2>2, <2>3 DEF Reserve
  <1>12. CASE ReserveHangs(t)
    <2>1. pc' \in [Conns -> Label] /\ QueryIsValid'
      BY <1>12 DEF ReserveHangs, Goto, Label, OpLabel, frame
    <2> QED
      BY <1>12, <2>1 DEF ReserveHangs, tables, slots, mainVars, frame, netVars, clientVars
  <1>13. CASE CheckLogin(t)
    BY <1>5, <1>13 DEF CheckLogin, LoggedIn, OpLabel, Label
  <1>14. CASE CheckScan(t)
    <2>1. seat_arr' \in [Conns -> SUBSET Seat]
      BY <1>14 DEF CheckScan
    <2>2. scan' \in [Conns -> Nat]
      BY <1>14 DEF CheckScan
    <2> QED
      BY <1>14, <2>1, <2>2
      DEF CheckScan, tables, slots, mainVars, netVars, clientVars
  <1>15. CASE CheckReply(t)
    <2>1. PICK r \in Reply : Finish(t, "check_scan", r)
      BY <1>15, SayIsReply, ListIsReply DEF CheckReply
    <2> QED
      BY <1>6, <1>15, <2>1 DEF CheckReply
  <1>16. CASE CancelLogin(t)
    BY <1>5, <1>16 DEF CancelLogin, OpLabel, Label
  <1>17. CASE CancelOwner(t)
    BY <1>5, <1>17 DEF CancelOwner, OpLabel, Label
  <1>18. CASE Cancel(t)
    <2>1. user_of_seat' \in [Seat -> User \cup {-1}]
      BY <1>18 DEF Cancel
    <2>2. PICK r \in Reply : Finish(t, "cancel", r)
      BY <1>18, <1>c, SayIsReply DEF Cancel, DataQ
    <2> QED
      BY <1>6, <1>18, <2>1, <2>2 DEF Cancel
  <1>19. CASE LogoutCheck(t)
    BY <1>5, <1>19 DEF LogoutCheck, LoggedIn, OpLabel, Label
  <1>20. CASE Logout(t)
    <2>1. is_user_login' \in [User -> Conns \cup {NoFd}]
      BY <1>20 DEF Logout
    <2>2. PICK r \in Reply : Finish(t, "logout", r)
      BY <1>20, SayIsReply DEF Logout
    <2> QED
      BY <1>6, <1>20, <2>1, <2>2 DEF Logout
  <1>21. CASE ExitClear(t)
    <2>1. is_user_login' \in [User -> Conns \cup {NoFd}]
      BY <1>21 DEF ExitClear
    <2>2. scan' \in [Conns -> Nat]
      BY <1>21 DEF ExitClear
    <2> QED
      BY <1>21, <2>1, <2>2
      DEF ExitClear, slots, mainVars, netVars, clientVars
  <1>22. CASE ExitReply(t)
    <2>1. PICK r \in Reply : Finish(t, "exit", r)
      BY <1>22, SayIsReply DEF ExitReply
    <2> QED
      BY <1>6, <1>22, <2>1 DEF ExitReply
  <1> QED
    BY <1>1, <1>2, <1>3, <1>4, <1>7, <1>8, <1>9, <1>10, <1>11, <1>12, <1>13, <1>14,
       <1>15, <1>16, <1>17, <1>18, <1>19, <1>20, <1>21, <1>22 DEF ClientThread

LEMMA ClientTypeInv ==
  ASSUME TypeInv, NEW c \in Conns, Client(c), UNCHANGED serverVars
  PROVE  TypeInv'
  <1> USE DEF TypeInv, NetTypeOK, ServerTypeOK, ClientTypeOK, QueryIsValid,
              serverVars, tables, slots, mainVars, frame
  <1>1. CASE Connect(c)
    <2>1. backlog' \in Seq(Conns)
      BY <1>1 DEF Connect
    <2> QED
      BY <1>1, <2>1 DEF Connect, clientVars
  <1>2. CASE Ask(c)
    <2>1. PICK q \in QueriesOf[c] : /\ asked' = [asked EXCEPT ![c] = q]
                                    /\ inbox' = [inbox EXCEPT ![c] = Append(@, q)]
      BY <1>2 DEF Ask
    <2>2. q \in Query
      BY NetAssumption
    <2>3. asked' \in [Conns -> Query] /\ inbox' \in [Conns -> Seq(Query)]
      BY <2>1, <2>2
    <2> QED
      BY <1>2, <2>3 DEF Ask
  <1>3. CASE Hear(c)
    <2> DEFINE q == asked[c]
               r == Head(outbox[c])
    <2>1. q \in Query /\ r \in Reply /\ outbox' \in [Conns -> Seq(Reply)]
      BY <1>3 DEF Hear
    <2>2. << q.user, r.code >> \in Int \X Int
      BY <2>1 DEF Query, Reply
    <2>3. told' \in [Conns -> SUBSET (Int \X Int)]
      BY <1>3, <2>2 DEF Hear
    <2>4. sock' \in [Conns -> {"new", "open", "closed"}]
      BY <1>3 DEF Hear
    <2> QED
      BY <1>3, <2>1, <2>3, <2>4, NoQueryIsQuery DEF Hear
  <1>4. CASE Die(c)
    <2>1. outbox' \in [Conns -> Seq(Reply)]
      BY <1>4 DEF Die
    <2> QED
      BY <1>4, <2>1 DEF Die, clientVars
  <1> QED
    BY <1>1, <1>2, <1>3, <1>4 DEF Client

LEMMA NextTypeInv == TypeInv /\ [Next]_vars => TypeInv'
  <1> SUFFICES ASSUME TypeInv, [Next]_vars PROVE TypeInv'
    OBVIOUS
  <1>1. CASE UNCHANGED vars
    BY <1>1 DEF vars, netVars, serverVars, clientVars, tables, slots, mainVars, frame,
                TypeInv, NetTypeOK, ServerTypeOK, ClientTypeOK, QueryIsValid
  <1> QED
    BY <1>1, MainTypeInv, ThreadTypeInv, ClientTypeInv DEF Next

-----------------------------------------------------------------------------
(***************************************************************************)
(* Which steps change what.                                                *)
(***************************************************************************)
LEMMA TableSteps ==
  ASSUME [Next]_vars
  PROVE  /\ passwd_of_user' # passwd_of_user => \E t \in Conns : LoginPasswd(t)
         /\ user_of_seat' # user_of_seat => \E t \in Conns : Reserve(t) \/ Cancel(t)
         /\ is_logged_in' # is_logged_in => \E t \in Conns : LoginSet(t)
         /\ is_user_login' # is_user_login =>
              \E t \in Conns : LoginSet(t) \/ Logout(t) \/ ExitClear(t)
  <1>1. CASE UNCHANGED serverVars
    BY <1>1 DEF serverVars, tables, frame
  <1>2. CASE Main
    BY <1>2 DEF Main, Accept, AcceptFails, Spawn, SpawnFails, tables, frame
  <1>3. ASSUME NEW t \in Conns, ClientThread(t)
        PROVE  /\ passwd_of_user' # passwd_of_user => LoginPasswd(t)
               /\ user_of_seat' # user_of_seat => Reserve(t) \/ Cancel(t)
               /\ is_logged_in' # is_logged_in => LoginSet(t)
               /\ is_user_login' # is_user_login =>
                    LoginSet(t) \/ Logout(t) \/ ExitClear(t)
    <2>1. CASE Start(t) \/ Receive(t) \/ Send(t) \/ Release(t)
      BY <2>1 DEF Start, Receive, Send, Release, tables, frame
    <2>2. CASE LoginCheck(t) \/ ReserveCheck(t) \/ CheckLogin(t) \/ CancelLogin(t)
               \/ CancelOwner(t) \/ LogoutCheck(t)
      BY <2>2 DEF LoginCheck, ReserveCheck, CheckLogin, CancelLogin, CancelOwner,
                  LogoutCheck, Decide, tables
    <2>3. CASE LoginPasswd(t) \/ CheckScan(t) \/ ReserveHangs(t) \/ ExitClear(t)
      BY <2>3 DEF LoginPasswd, CheckScan, ReserveHangs, ExitClear, tables, frame
    <2>4. CASE LoginSet(t) \/ Reserve(t) \/ Cancel(t) \/ Logout(t)
               \/ CheckReply(t) \/ ExitReply(t)
      BY <2>4 DEF LoginSet, Reserve, Cancel, Logout, CheckReply, ExitReply, Finish
    <2> QED
      BY <1>3, <2>1, <2>2, <2>3, <2>4 DEF ClientThread
  <1> QED
    BY <1>1, <1>2, <1>3 DEF Next, vars

\* A thread is about to act on what it decided, either because it was already
\* or because it has just decided.
LEMMA DecisionSteps ==
  ASSUME TypeInv, [Next]_vars, NEW x \in Conns,
         pc'[x] \in {"login_passwd", "login_set", "reserve", "cancel_owner", "cancel"}
  PROVE  \/ /\ pc'[x] = pc[x]
            /\ success'[x] = success[x]
            /\ recv_query'[x] = recv_query[x]
         \/ LoginCheck(x) \/ LoginPasswd(x) \/ ReserveCheck(x)
         \/ CancelLogin(x) \/ CancelOwner(x)
  <1> USE DEF TypeInv, ServerTypeOK
  <1>1. CASE UNCHANGED serverVars
    BY <1>1 DEF serverVars, frame
  <1>2. CASE Main
    BY <1>2 DEF Main, Accept, AcceptFails, Spawn, SpawnFails, frame
  <1>3. ASSUME NEW t \in Conns, ClientThread(t)
        PROVE  \/ /\ pc'[x] = pc[x]
                  /\ success'[x] = success[x]
                  /\ recv_query'[x] = recv_query[x]
               \/ LoginCheck(x) \/ LoginPasswd(x) \/ ReserveCheck(x)
               \/ CancelLogin(x) \/ CancelOwner(x)
    <2>1. CASE Start(t) \/ Release(t) \/ ReserveHangs(t)
      BY <2>1 DEF Start, Release, ReserveHangs, Goto, frame
    <2>2. CASE Send(t)
      BY <2>2 DEF Send, Goto
    <2>3. CASE Receive(t)
      <3>1. Branch(Head(inbox[fd[t]])) \notin {"login_passwd", "login_set", "reserve",
                                                  "cancel_owner", "cancel"}
        BY DEF Branch
      <3> QED
        BY <2>3, <3>1 DEF Receive
    <2>4. CASE CheckLogin(t) \/ LogoutCheck(t)
      BY <2>4 DEF CheckLogin, LogoutCheck, Decide, Goto
    <2>5. CASE LoginCheck(t) \/ ReserveCheck(t) \/ CancelLogin(t) \/ CancelOwner(t)
      BY <2>5 DEF LoginCheck, ReserveCheck, CancelLogin, CancelOwner, Decide, Goto
    <2>6. CASE LoginPasswd(t)
      BY <2>6 DEF LoginPasswd, Goto
    <2>7. CASE CheckScan(t) \/ ExitClear(t)
      BY <2>7 DEF CheckScan, ExitClear
    <2>8. CASE LoginSet(t) \/ Reserve(t) \/ Cancel(t) \/ Logout(t)
               \/ CheckReply(t) \/ ExitReply(t)
      BY <2>8 DEF LoginSet, Reserve, Cancel, Logout, CheckReply, ExitReply, Finish, Goto
    <2> QED
      BY <1>3, <2>1, <2>2, <2>3, <2>4, <2>5, <2>6, <2>7, <2>8 DEF ClientThread
  <1> QED
    BY <1>1, <1>2, <1>3 DEF Next, vars

\* A thread that acts on a seat has tested its number some steps before.
SeatInRange ==
  \A t \in Conns :
    pc[t] \in {"reserve", "cancel_owner", "cancel"} /\ success[t] => DataQ(t) \in Seat

LEMMA RangeStep ==
  ASSUME TypeInv, SeatInRange, [Next]_vars
  PROVE  SeatInRange'
  <1> SUFFICES ASSUME NEW t \in Conns, success'[t],
                      pc'[t] \in {"reserve", "cancel_owner", "cancel"}
               PROVE  DataQ(t)' \in Seat
    BY DEF SeatInRange
  <1> USE DEF TypeInv, ServerTypeOK
  <1>1. CASE pc'[t] = pc[t] /\ success'[t] = success[t] /\ recv_query'[t] = recv_query[t]
    BY <1>1 DEF SeatInRange, DataQ
  <1>2. CASE ReserveCheck(t) \/ CancelLogin(t)
    BY <1>2 DEF ReserveCheck, CancelLogin, Decide, DataQ
  <1>3. CASE CancelOwner(t)
    BY <1>3 DEF CancelOwner, Decide, Goto, SeatInRange, DataQ
  <1>4. CASE LoginCheck(t) \/ LoginPasswd(t)
    BY <1>4 DEF LoginCheck, LoginPasswd, Decide, Goto
  <1> QED
    BY <1>1, <1>2, <1>3, <1>4, DecisionSteps

\* Every variable keeps to its type, and a thread that decided to write user_of_seat
\* some steps ago does so inside the array, whatever the constants are.
THEOREM TypeCorrect == Spec => []TypeOK
  <1>1. TypeInv /\ SeatInRange => TypeOK
    BY DEF TypeInv, SeatInRange, TypeOK, IndicesInRange, QueryIsValid, UserQ
  <1>2. Init => SeatInRange
    BY DEF Init, ServerInit, SeatInRange
  <1>3. TypeInv /\ SeatInRange /\ [Next]_vars => SeatInRange'
    BY RangeStep
  <1> QED
    BY <1>1, <1>2, <1>3, InitTypeInv, NextTypeInv, PTL DEF Spec

-----------------------------------------------------------------------------
LEMMA PasswordStep ==
  ASSUME TypeInv, [Next]_vars, NEW u \in User, passwd_of_user[u] # -1
  PROVE  passwd_of_user'[u] = passwd_of_user[u]
  <1>1. CASE passwd_of_user' = passwd_of_user
    BY <1>1
  <1>2. CASE \E t \in Conns : LoginPasswd(t)
    BY <1>2 DEF LoginPasswd, TypeInv, ServerTypeOK
  <1> QED
    BY <1>1, <1>2, TableSteps

\* No interleaving of logins changes a password that is set.
THEOREM PasswordsAreSetOnce == Spec => PasswordSetOnce
  <1>1. TypeInv /\ [Next]_vars =>
          [\A u \in User : passwd_of_user[u] # -1 => passwd_of_user'[u] = passwd_of_user[u]]_vars
    BY PasswordStep
  <1> QED
    BY <1>1, InitTypeInv, NextTypeInv, PTL DEF Spec, PasswordSetOnce

LEMMA SeatStep ==
  ASSUME TypeInv, [Next]_vars, NEW s \in Seat, user_of_seat[s] # -1
  PROVE  user_of_seat'[s] \in {user_of_seat[s], -1}
  <1> USE DEF TypeInv, ServerTypeOK
  <1>1. CASE user_of_seat' = user_of_seat
    BY <1>1
  <1>2. ASSUME NEW t \in Conns, Reserve(t)
        PROVE  user_of_seat'[s] \in {user_of_seat[s], -1}
    BY <1>2 DEF Reserve
  <1>3. ASSUME NEW t \in Conns, Cancel(t)
        PROVE  user_of_seat'[s] \in {user_of_seat[s], -1}
    BY <1>3 DEF Cancel
  <1> QED
    BY <1>1, <1>2, <1>3, TableSteps

\* No interleaving of reservations hands a seat from one user to another.
THEOREM SeatsAreNotStolen == Spec => NoSeatTheft
  <1>1. TypeInv /\ [Next]_vars =>
          [\A s \in Seat : user_of_seat[s] # -1 => user_of_seat'[s] \in {user_of_seat[s], -1}]_vars
    BY SeatStep
  <1> QED
    BY <1>1, InitTypeInv, NextTypeInv, PTL DEF Spec, NoSeatTheft

-----------------------------------------------------------------------------
(***************************************************************************)
(* OwnersAreRegistered alone is not inductive: a thread acts on a decision *)
(* taken some steps before.  RegisteredInv follows the password from the   *)
(* query through the decision to the tables.                               *)
(***************************************************************************)
Registered(u) == passwd_of_user[u] # -1

RegisteredInv ==
  /\ OwnersAreRegistered
  /\ \A t \in Conns :
       /\ is_logged_in[t] # -1 => Registered(is_logged_in[t])
       /\ success[t] =>
            /\ pc[t] = "login_passwd" => DataQ(t) >= 0
            /\ pc[t] \in {"login_set", "reserve"} => Registered(UserQ(t))

LEMMA RegisteredStep ==
  ASSUME TypeInv, [Next]_vars, RegisteredInv
  PROVE  RegisteredInv'
  <1> USE DEF TypeInv, ServerTypeOK, QueryIsValid
  <1>1. \A u \in User : Registered(u) => Registered(u)'
    BY PasswordStep DEF Registered
  <1>2. \A t \in Conns : is_logged_in[t] # -1 => is_logged_in[t] \in User
    OBVIOUS
  <1>3. ASSUME NEW t \in Conns, success[t], pc[t] \in {"login_passwd", "login_set", "reserve"}
        PROVE  UserQ(t) \in User /\ DataQ(t) \in Int
    BY <1>3 DEF OpLabel, Label, UserQ, DataQ, Query
  <1>4. ASSUME NEW t \in Conns, is_logged_in'[t] # -1
        PROVE  Registered(is_logged_in[t])'
    <2>1. CASE is_logged_in' = is_logged_in
      BY <1>1, <1>2, <1>4, <2>1 DEF RegisteredInv, Registered
    <2>2. ASSUME NEW x \in Conns, LoginSet(x)
          PROVE  Registered(is_logged_in[t])'
      <3>1. pc[x] = "login_set" /\ passwd_of_user' = passwd_of_user
        BY <2>2 DEF LoginSet, Finish, Goto
      <3>2. is_logged_in'[t] = is_logged_in[t] \/ (success[x] /\ is_logged_in'[t] = UserQ(x))
        BY <2>2 DEF LoginSet
      <3> QED
        BY <1>4, <3>1, <3>2 DEF RegisteredInv, Registered
    <2> QED
      BY <2>1, <2>2, TableSteps
  <1>5. ASSUME NEW u \in User, is_user_login'[u] # NoFd
        PROVE  Registered(u)'
    <2>1. CASE is_user_login'[u] = is_user_login[u]
      BY <1>1, <1>5, <2>1 DEF RegisteredInv, OwnersAreRegistered, Registered
    <2>2. ASSUME NEW x \in Conns, LoginSet(x), is_user_login'[u] # is_user_login[u]
          PROVE  Registered(u)'
      <3>1. pc[x] = "login_set" /\ success[x] /\ u = UserQ(x)
        BY <2>2 DEF LoginSet, Finish, Goto
      <3> QED
        BY <1>1, <3>1 DEF RegisteredInv
    <2>3. ASSUME NEW x \in Conns, Logout(x) \/ ExitClear(x)
          PROVE  is_user_login'[u] \in {is_user_login[u], NoFd}
      BY <2>3 DEF Logout, ExitClear
    <2> QED
      BY <1>5, <2>1, <2>2, <2>3, TableSteps
  <1>6. ASSUME NEW s \in Seat, user_of_seat'[s] # -1
        PROVE  Registered(user_of_seat[s])'
    <2>1. CASE user_of_seat'[s] = user_of_seat[s]
      BY <1>1, <1>6, <2>1 DEF RegisteredInv, OwnersAreRegistered, Registered
    <2>2. ASSUME NEW x \in Conns, Reserve(x), user_of_seat'[s] # user_of_seat[s]
          PROVE  Registered(user_of_seat[s])'
      <3>1. pc[x] = "reserve" /\ success[x] /\ user_of_seat'[s] = UserQ(x)
        BY <2>2 DEF Reserve, Finish, Goto
      <3>2. Registered(UserQ(x)) /\ passwd_of_user' = passwd_of_user
        BY <2>2, <3>1 DEF RegisteredInv, Reserve, Finish
      <3> QED
        BY <3>1, <3>2 DEF Registered
    <2>3. ASSUME NEW x \in Conns, Cancel(x)
          PROVE  user_of_seat'[s] \in {user_of_seat[s], -1}
      BY <2>3 DEF Cancel
    <2> QED
      BY <1>6, <2>1, <2>2, <2>3, TableSteps
  <1>7. ASSUME NEW t \in Conns, success'[t]
        PROVE  /\ pc'[t] = "login_passwd" => DataQ(t)' >= 0
               /\ pc'[t] \in {"login_set", "reserve"} => Registered(UserQ(t))'
    <2> SUFFICES ASSUME pc'[t] \in {"login_passwd", "login_set", "reserve"}
                 PROVE  /\ pc'[t] = "login_passwd" => DataQ(t)' >= 0
                        /\ pc'[t] \in {"login_set", "reserve"} => Registered(UserQ(t))'
      OBVIOUS
    <2>1. CASE pc'[t] = pc[t] /\ success'[t] = success[t] /\ recv_query'[t] = recv_query[t]
      BY <1>1, <1>3, <1>7, <2>1 DEF RegisteredInv, Registered, UserQ, DataQ
    <2>2. CASE LoginCheck(t)
      BY <1>7, <2>2 DEF LoginCheck, Decide, Goto, DataQ
    <2>3. CASE LoginPasswd(t)
      <3>1. pc[t] = "login_passwd" /\ pc'[t] = "login_set" /\ recv_query' = recv_query
        BY <2>3 DEF LoginPasswd, Goto
      <3>2. success[t] /\ passwd_of_user[UserQ(t)] \in {-1, DataQ(t)}
        BY <1>7, <2>3 DEF LoginPasswd
      <3>3. UserQ(t) \in User /\ DataQ(t) >= 0 /\ DataQ(t) \in Int
        BY <1>3, <3>1, <3>2 DEF RegisteredInv
      <3>4. passwd_of_user'[UserQ(t)] = DataQ(t)
        BY <2>3, <3>2, <3>3 DEF LoginPasswd
      <3> QED
        BY <3>1, <3>3, <3>4 DEF Registered, UserQ
    <2>4. CASE ReserveCheck(t)
      <3>1. /\ pc[t] = "reserve_check" /\ pc'[t] = "reserve" /\ LoggedIn(t)
            /\ recv_query' = recv_query /\ passwd_of_user' = passwd_of_user
        BY <1>7, <2>4 DEF ReserveCheck, Decide, Goto, tables
      <3>2. UserQ(t) \in User /\ is_logged_in[t] = UserQ(t)
        BY <3>1 DEF LoggedIn, OpLabel, Label, UserQ
      <3>3. UserQ(t) # -1
        BY <3>2, NetAssumption DEF User
      <3> QED
        BY <3>1, <3>2, <3>3 DEF RegisteredInv, Registered, UserQ
    <2>5. CASE CancelLogin(t) \/ CancelOwner(t)
      BY <2>5 DEF CancelLogin, CancelOwner, Decide, Goto
    <2> QED
      BY <2>1, <2>2, <2>3, <2>4, <2>5, DecisionSteps
  <1> QED
    BY <1>4, <1>5, <1>6, <1>7 DEF RegisteredInv, OwnersAreRegistered, Registered

\* Nobody holds a seat or a session without an account.
THEOREM OwnersAlwaysRegistered == Spec => []OwnersAreRegistered
  <1>1. Init => RegisteredInv
    BY NetAssumption DEF Init, ServerInit, RegisteredInv, OwnersAreRegistered
  <1>2. TypeInv /\ RegisteredInv /\ [Next]_vars => RegisteredInv'
    BY RegisteredStep
  <1>3. RegisteredInv => OwnersAreRegistered
    BY DEF RegisteredInv
  <1> QED
    BY <1>1, <1>2, <1>3, InitTypeInv, NextTypeInv, PTL DEF Spec

-----------------------------------------------------------------------------
(***************************************************************************)
(* Where the one query of a client is.  Two threads may serve the same     *)
(* connection; what keeps them apart is that the client waits.             *)
(***************************************************************************)
\* Descriptors wait once, for a thread that does not exist yet.
BacklogInv ==
  /\ \A k \in 1 .. Len(backlog) : pc[backlog[k]] = "none" /\ sock[backlog[k]] # "new"
  /\ \A j, k \in 1 .. Len(backlog) : backlog[j] = backlog[k] => j = k
  /\ \A c \in Conns : sock[c] = "new" => pc[c] = "none"
  /\ main_pc = "spawn" =>
       /\ connected_fd \in Conns /\ pc[connected_fd] = "none" /\ sock[connected_fd] # "new"
       /\ \A k \in 1 .. Len(backlog) : backlog[k] # connected_fd

Working(c) == \E t \in Conns : Busy(t) /\ fd[t] = c

ClientSide(c) ==
  /\ inbox[c] \in {<< >>, << asked[c] >>}
  /\ Len(outbox[c]) \in {0, 1}
  /\ inbox[c] = << >> \/ outbox[c] = << >>
  /\ Idle(c) => inbox[c] = << >> /\ outbox[c] = << >>
  /\ sock[c] = "new" => Idle(c)
  /\ sock[c] = "open" /\ ~Idle(c) => inbox[c] # << >> \/ outbox[c] # << >> \/ Working(c)

ThreadSide(t) ==
  /\ fd[t] \in Conns /\ ~Idle(fd[t])
  /\ recv_query[t] = asked[fd[t]] /\ Valid(recv_query[t])
  /\ inbox[fd[t]] = << >> /\ outbox[fd[t]] = << >>
  /\ \A x \in Conns : Busy(x) /\ fd[x] = fd[t] => x = t

FlightInv ==
  /\ \A c \in Conns : ClientSide(c)
  /\ \A t \in Conns : Busy(t) => ThreadSide(t)

QInv == TypeInv /\ BacklogInv /\ FlightInv
-----------------------------------------------------------------------------
\* A step of a thread that neither takes a query nor answers one.
Quiet(t) ==
  /\ UNCHANGED << inbox, outbox, recv_query >>
  /\ Busy(t)' <=> Busy(t)
  /\ Busy(t) => fd' = fd

\* A thread moves itself and leaves main() and the other threads alone.
LEMMA ThreadSteps ==
  ASSUME TypeInv, NEW t \in Conns, ClientThread(t)
  PROVE  /\ UNCHANGED << sock, backlog, main_pc, connected_fd >>
         /\ pc[t] # "none"
         /\ \A x \in Conns \ {t} :
              /\ pc'[x] = pc[x] /\ fd'[x] = fd[x] /\ recv_query'[x] = recv_query[x]
              /\ success'[x] = success[x] /\ scan'[x] = scan[x]
              /\ return_buffer'[x] = return_buffer[x]
         /\ Receive(t) \/ Send(t) \/ Quiet(t)
  <1> DEFINE Claim == /\ UNCHANGED << sock, backlog, main_pc, connected_fd >>
                      /\ pc[t] # "none"
                      /\ \A x \in Conns \ {t} :
                           /\ pc'[x] = pc[x] /\ fd'[x] = fd[x]
                           /\ recv_query'[x] = recv_query[x]
                           /\ success'[x] = success[x] /\ scan'[x] = scan[x]
                           /\ return_buffer'[x] = return_buffer[x]
                      /\ Receive(t) \/ Send(t) \/ Quiet(t)
  <1> USE DEF TypeInv, ServerTypeOK, netVars, mainVars, Goto, Quiet, Busy
  <1>1. CASE Start(t)
    BY <1>1 DEF Start
  <1>2. CASE Receive(t)
    BY <1>2 DEF Receive
  <1>3. CASE Send(t)
    BY <1>3 DEF Send
  <1>4. CASE Release(t) \/ ReserveHangs(t)
    BY <1>4 DEF Release, ReserveHangs, frame
  <1>5. CASE LoginCheck(t) \/ ReserveCheck(t) \/ CheckLogin(t) \/ CancelLogin(t)
             \/ CancelOwner(t) \/ LogoutCheck(t)
    BY <1>5 DEF LoginCheck, ReserveCheck, CheckLogin, CancelLogin, CancelOwner,
                LogoutCheck, Decide
  <1>6. CASE LoginPasswd(t)
    BY <1>6 DEF LoginPasswd
  <1>7. CASE CheckScan(t) \/ ExitClear(t)
    BY <1>7 DEF CheckScan, ExitClear
  <1>8. CASE LoginSet(t) \/ Reserve(t) \/ Cancel(t) \/ Logout(t) \/ CheckReply(t) \/ ExitReply(t)
    BY <1>8 DEF LoginSet, Reserve, Cancel, Logout, CheckReply, ExitReply, Finish
  <1>9. Claim
    BY <1>1, <1>2, <1>3, <1>4, <1>5, <1>6, <1>7, <1>8 DEF ClientThread
  <1> QED
    BY <1>9

LEMMA AppendFacts ==
  ASSUME NEW S, NEW q \in Seq(S), NEW e \in S
  PROVE  /\ Len(q) \in Nat /\ Len(Append(q, e)) = Len(q) + 1
         /\ Append(q, e)[Len(q) + 1] = e
         /\ \A k \in 1 .. Len(q) : Append(q, e)[k] = q[k] /\ q[k] \in S
         /\ \A k \in 1 .. Len(Append(q, e)) : k \in 1 .. Len(q) \/ k = Len(q) + 1
OBVIOUS

LEMMA BacklogStep ==
  ASSUME TypeInv, BacklogInv, [Next]_vars
  PROVE  BacklogInv'
  <1> USE DEF TypeInv, ServerTypeOK, NetTypeOK, BacklogInv
  <1>1. CASE UNCHANGED vars
    BY <1>1 DEF vars, netVars, serverVars, mainVars
  <1>2. ASSUME NEW t \in Conns, ClientThread(t)
        PROVE  BacklogInv'
    <2>1. /\ UNCHANGED << sock, backlog, main_pc, connected_fd >> /\ pc[t] # "none"
          /\ \A x \in Conns \ {t} : pc'[x] = pc[x]
      BY <1>2, ThreadSteps
    <2>2. \A k \in 1 .. Len(backlog) : backlog[k] \in Conns
      OBVIOUS
    <2> QED
      BY <2>1, <2>2
  <1>3. CASE Accept
    <2>1. /\ backlog # << >> /\ backlog' = Tail(backlog) /\ connected_fd' = backlog[1]
          /\ UNCHANGED << pc, sock >> /\ main_pc' = "spawn"
      BY <1>3 DEF Accept
    <2>2. /\ Len(backlog) \in Nat \ {0} /\ Len(backlog') = Len(backlog) - 1
          /\ \A k \in 1 .. Len(backlog') : backlog'[k] = backlog[k + 1] /\ k + 1 \in 1 .. Len(backlog)
          /\ 1 \in 1 .. Len(backlog) /\ backlog[1] \in Conns
      BY <2>1
    <2>3. \A k \in 1 .. Len(backlog') : backlog'[k] # connected_fd'
      BY <2>1, <2>2
    <2>4. \A j, k \in 1 .. Len(backlog') : backlog'[j] = backlog'[k] => j = k
      <3> SUFFICES ASSUME NEW j \in 1 .. Len(backlog'), NEW k \in 1 .. Len(backlog'),
                          backlog'[j] = backlog'[k]
                   PROVE  j = k
        OBVIOUS
      <3>1. backlog[j + 1] = backlog[k + 1] /\ j + 1 \in 1 .. Len(backlog) /\ k + 1 \in 1 .. Len(backlog)
        BY <2>2
      <3>2. j + 1 = k + 1
        BY <3>1
      <3> QED
        BY <3>2
    <2>5. \A k \in 1 .. Len(backlog') : pc'[backlog'[k]] = "none" /\ sock'[backlog'[k]] # "new"
      BY <2>1, <2>2
    <2> QED
      BY <2>1, <2>2, <2>3, <2>4, <2>5
  <1>4. CASE AcceptFails \/ SpawnFails
    BY <1>4 DEF AcceptFails, SpawnFails, netVars
  <1>5. CASE Spawn
    <2>1. /\ pc' = [pc EXCEPT ![connected_fd] = "start"] /\ main_pc = "spawn"
          /\ main_pc' = "accept" /\ UNCHANGED << sock, backlog >>
      BY <1>5 DEF Spawn, netVars
    <2>2. \A c \in Conns : c # connected_fd => pc'[c] = pc[c]
      BY <2>1
    <2>3. \A k \in 1 .. Len(backlog) : backlog[k] \in Conns
      OBVIOUS
    <2> QED
      BY <2>1, <2>2, <2>3
  <1>6. ASSUME NEW c \in Conns, Connect(c), UNCHANGED serverVars
        PROVE  BacklogInv'
    <2>1. /\ sock[c] = "new" /\ sock' = [sock EXCEPT ![c] = "open"]
          /\ backlog' = Append(backlog, c)
          /\ UNCHANGED << pc, main_pc, connected_fd >>
      BY <1>6 DEF Connect, serverVars, mainVars
    <2>s. sock \in [Conns -> {"new", "open", "closed"}]
      OBVIOUS
    <2>a. /\ \A k \in 1 .. Len(backlog) : pc[backlog[k]] = "none" /\ sock[backlog[k]] # "new"
          /\ \A j, k \in 1 .. Len(backlog) : backlog[j] = backlog[k] => j = k
          /\ backlog \in Seq(Conns)
      OBVIOUS
    <2> HIDE DEF TypeInv, ServerTypeOK, NetTypeOK
    <2>2. /\ Len(backlog) \in Nat /\ Len(backlog') = Len(backlog) + 1
          /\ backlog'[Len(backlog) + 1] = c
          /\ \A k \in 1 .. Len(backlog) : backlog'[k] = backlog[k] /\ backlog[k] \in Conns
      BY <2>1, <2>a, AppendFacts
    <2>b. \A k \in 1 .. Len(backlog) : backlog[k] # c
      BY <2>1, <2>a
    <2>3. \A k \in 1 .. Len(backlog') : k \in 1 .. Len(backlog) \/ k = Len(backlog) + 1
      BY <2>1, <2>a, AppendFacts
    <2>4. \A j, k \in 1 .. Len(backlog') : backlog'[j] = backlog'[k] => j = k
      BY <2>2, <2>3, <2>a, <2>b
    <2>5. \A x \in Conns : sock'[x] = "new" => sock[x] = "new" /\ x # c
      BY <2>1, <2>s
    <2>6. \A x \in Conns : sock[x] # "new" => sock'[x] # "new"
      BY <2>1, <2>s
    <2>7. pc[c] = "none" /\ sock'[c] # "new"
      BY <2>1, <2>s
    <2>8. \A k \in 1 .. Len(backlog') : pc'[backlog'[k]] = "none" /\ sock'[backlog'[k]] # "new"
      BY <2>1, <2>2, <2>3, <2>6, <2>7, <2>a
    <2>c. main_pc = "spawn" =>
             /\ connected_fd \in Conns /\ connected_fd # c /\ pc[connected_fd] = "none"
             /\ \A k \in 1 .. Len(backlog) : backlog[k] # connected_fd
      BY <2>1
    <2>9. main_pc' = "spawn" =>
             /\ connected_fd' \in Conns /\ pc'[connected_fd'] = "none"
             /\ sock'[connected_fd'] # "new"
             /\ \A k \in 1 .. Len(backlog') : backlog'[k] # connected_fd'
      <3> SUFFICES ASSUME main_pc' = "spawn"
                   PROVE  /\ connected_fd' \in Conns /\ pc'[connected_fd'] = "none"
                          /\ sock'[connected_fd'] # "new"
                          /\ \A k \in 1 .. Len(backlog') : backlog'[k] # connected_fd'
        OBVIOUS
      <3>1. /\ connected_fd' \in Conns /\ connected_fd' # c /\ pc'[connected_fd'] = "none"
            /\ \A k \in 1 .. Len(backlog) : backlog[k] # connected_fd'
        BY <2>1, <2>c
      <3>2. \A k \in 1 .. Len(backlog') : backlog'[k] # connected_fd'
        BY <2>2, <2>3, <3>1
      <3>3. sock'[connected_fd'] # "new"
        BY <2>1, <2>6, <2>c
      <3> QED
        BY <3>1, <3>2, <3>3
    <2> QED
      BY <2>1, <2>4, <2>5, <2>8, <2>9
  <1>7. ASSUME NEW c \in Conns, Ask(c) \/ Hear(c) \/ Die(c), UNCHANGED serverVars
        PROVE  BacklogInv'
    <2>1. UNCHANGED << pc, main_pc, connected_fd, backlog >>
      BY <1>7 DEF Ask, Hear, Die, serverVars, mainVars
    <2>2. \A x \in Conns : sock'[x] = "new" <=> sock[x] = "new"
      BY <1>7 DEF Ask, Hear, Die
    <2>3. \A k \in 1 .. Len(backlog) : backlog[k] \in Conns
      OBVIOUS
    <2> QED
      BY <2>1, <2>2, <2>3
  <1> QED
    BY <1>1, <1>2, <1>3, <1>4, <1>5, <1>6, <1>7 DEF Next, Main, Client

-----------------------------------------------------------------------------
LEMMA OneElement ==
  /\ \A a : Head(<< a >>) = a /\ Tail(<< a >>) = << >> /\ Len(<< a >>) = 1 /\ << a >> # << >>
  /\ \A a : Append(<< >>, a) = << a >>
  /\ Len(<< >>) = 0
OBVIOUS

LEMMA TailOfOne ==
  ASSUME NEW S, NEW q \in Seq(S), Len(q) \in {0, 1}
  PROVE  /\ q = << >> <=> Len(q) = 0
         /\ q # << >> => Tail(q) = << >>
<1>1. q = << >> <=> Len(q) = 0
  OBVIOUS
<1>2. q # << >> => Tail(q) \in Seq(S) /\ Len(Tail(q)) = 0
  BY <1>1
<1>3. \A r \in Seq(S) : Len(r) = 0 => r = << >>
  OBVIOUS
<1> QED
  BY <1>1, <1>2, <1>3

\* Steps that do not touch a query.
LEMMA SameFlight ==
  ASSUME FlightInv, UNCHANGED << sock, inbox, outbox, asked, recv_query >>,
         \A x \in Conns : (Busy(x)' <=> Busy(x)) /\ (Busy(x) => fd'[x] = fd[x])
  PROVE  FlightInv'
<1>1. \A c \in Conns : Working(c) => Working(c)'
  BY DEF Working
<1>2. \A c \in Conns : ClientSide(c)'
  BY <1>1 DEF FlightInv, ClientSide, Idle
<1>3. ASSUME NEW x \in Conns, Busy(x)' PROVE ThreadSide(x)'
  <2>1. Busy(x) /\ fd'[x] = fd[x] /\ ThreadSide(x)
    BY <1>3 DEF FlightInv
  <2>2. \A y \in Conns : Busy(y)' /\ fd'[y] = fd'[x] => y = x
    BY <2>1 DEF ThreadSide
  <2> QED
    BY <2>1, <2>2 DEF ThreadSide, Idle, Valid
<1> QED
  BY <1>2, <1>3 DEF FlightInv

LEMMA MainKeepsBusy ==
  ASSUME TypeInv, BacklogInv, Main
  PROVE  \A x \in Conns : Busy(x)' <=> Busy(x)
<1>1. CASE Spawn
  <2>1. pc \in [Conns -> Label] /\ pc[connected_fd] = "none"
    BY <1>1 DEF Spawn, BacklogInv, TypeInv, ServerTypeOK
  <2>2. pc' = [pc EXCEPT ![connected_fd] = "start"]
    BY <1>1 DEF Spawn
  <2> QED
    BY <2>1, <2>2 DEF Busy
<1>2. CASE Accept \/ AcceptFails \/ SpawnFails
  BY <1>2 DEF Accept, AcceptFails, SpawnFails, Busy
<1> QED
  BY <1>1, <1>2 DEF Main

LEMMA MainFlight ==
  ASSUME TypeInv, BacklogInv, FlightInv, Main, UNCHANGED clientVars
  PROVE  FlightInv'
<1>1. UNCHANGED << sock, inbox, outbox, asked, recv_query, fd >>
  BY DEF Main, Accept, AcceptFails, Spawn, SpawnFails, frame, netVars, clientVars
<1>2. \A x \in Conns : Busy(x)' <=> Busy(x)
  BY MainKeepsBusy
<1> QED
  BY <1>1, <1>2, SameFlight

\* A client asks when nothing of its own is under way, and hears when nothing else is.
LEMMA ClientFlight ==
  ASSUME TypeInv, FlightInv, NEW c \in Conns, Client(c), UNCHANGED serverVars
  PROVE  FlightInv'
<1>1. UNCHANGED << pc, fd, recv_query >>
  BY DEF serverVars, frame
<1>2. /\ \A x \in Conns : Busy(x)' <=> Busy(x)
      /\ \A x : Working(x)' <=> Working(x)
  BY <1>1 DEF Busy, Working
<1>3. /\ sock \in [Conns -> {"new", "open", "closed"}]
      /\ inbox \in [Conns -> Seq(Query)] /\ outbox \in [Conns -> Seq(Reply)]
      /\ asked \in [Conns -> Query]
  BY DEF TypeInv, NetTypeOK, ClientTypeOK
<1>4. ASSUME \A x \in Conns \ {c} : /\ sock'[x] = sock[x] /\ inbox'[x] = inbox[x]
                                    /\ outbox'[x] = outbox[x] /\ asked'[x] = asked[x],
             ClientSide(c)',
             \A x \in Conns : Busy(x) /\ fd[x] = c => ThreadSide(x)'
      PROVE  FlightInv'
  <2>1. \A x \in Conns \ {c} : ClientSide(x)'
    BY <1>2, <1>4 DEF FlightInv, ClientSide, Idle
  <2>2. \A x \in Conns : Busy(x) /\ fd[x] # c => ThreadSide(x)'
    BY <1>1, <1>2, <1>4 DEF FlightInv, ThreadSide, Idle, Valid
  <2> QED
    BY <1>2, <1>4, <2>1, <2>2 DEF FlightInv
<1>5. ClientSide(c) /\ \A x \in Conns : Busy(x) /\ fd[x] = c => ThreadSide(x)
  BY DEF FlightInv
<1>6. CASE Connect(c)
  <2>1. /\ sock[c] = "new" /\ sock' = [sock EXCEPT ![c] = "open"]
        /\ UNCHANGED << inbox, outbox, asked >>
    BY <1>6 DEF Connect, clientVars
  <2>2. ClientSide(c)'
    BY <1>2, <1>3, <1>5, <2>1 DEF ClientSide, Idle
  <2>3. \A x \in Conns : Busy(x) /\ fd[x] = c => ThreadSide(x)'
    BY <1>1, <1>2, <1>5, <2>1 DEF ThreadSide, Idle, Valid
  <2> QED
    BY <1>3, <1>4, <2>1, <2>2, <2>3
<1>7. CASE Ask(c)
  <2>1. PICK q \in QueriesOf[c] : /\ asked' = [asked EXCEPT ![c] = q]
                                  /\ inbox' = [inbox EXCEPT ![c] = Append(@, q)]
    BY <1>7 DEF Ask
  <2>2. q # NoQuery /\ sock[c] = "open" /\ Idle(c) /\ UNCHANGED << sock, outbox >>
    BY <1>7, NetAssumption DEF Ask
  <2>3. inbox[c] = << >> /\ outbox[c] = << >>
    BY <1>5, <2>2 DEF ClientSide
  <2>4. asked'[c] = q /\ inbox'[c] = << q >>
    BY <1>3, <2>1, <2>3, OneElement
  <2>5. ClientSide(c)'
    BY <2>2, <2>3, <2>4, OneElement DEF ClientSide, Idle
  <2>6. \A x \in Conns : ~ (Busy(x) /\ fd[x] = c)
    BY <1>5, <2>2 DEF ThreadSide
  <2> QED
    BY <1>3, <1>4, <2>1, <2>2, <2>5, <2>6
<1>8. CASE Hear(c)
  <2>1. /\ outbox[c] # << >> /\ asked' = [asked EXCEPT ![c] = NoQuery]
        /\ outbox' = [outbox EXCEPT ![c] = Tail(@)] /\ UNCHANGED inbox
        /\ sock[c] = "open" /\ sock' \in {sock, [sock EXCEPT ![c] = "closed"]}
    BY <1>8 DEF Hear
  <2>2. inbox[c] = << >> /\ Tail(outbox[c]) = << >>
    BY <1>3, <1>5, <2>1, TailOfOne DEF ClientSide
  <2>3. ClientSide(c)'
    BY <1>3, <2>1, <2>2, OneElement DEF ClientSide, Idle
  <2>4. \A x \in Conns : ~ (Busy(x) /\ fd[x] = c)
    BY <1>5, <2>1 DEF ThreadSide
  <2> QED
    BY <1>3, <1>4, <2>1, <2>3, <2>4
<1>9. CASE Die(c)
  <2>1. /\ sock[c] = "open" /\ sock' = [sock EXCEPT ![c] = "closed"]
        /\ outbox' = [outbox EXCEPT ![c] = << >>] /\ UNCHANGED << inbox, asked >>
    BY <1>9 DEF Die, clientVars
  <2>2. ClientSide(c)'
    BY <1>3, <1>5, <2>1, OneElement DEF ClientSide, Idle
  <2>3. \A x \in Conns : Busy(x) /\ fd[x] = c => ThreadSide(x)'
    BY <1>1, <1>2, <1>3, <1>5, <2>1 DEF ThreadSide, Idle, Valid
  <2> QED
    BY <1>3, <1>4, <2>1, <2>2, <2>3
<1> QED
  BY <1>6, <1>7, <1>8, <1>9 DEF Client

\* What recv() hands to a thread is what the client of its connection asks.
LEMMA Received ==
  ASSUME TypeInv, FlightInv, NEW t \in Conns, Receive(t)
  PROVE  /\ pc[t] = "recv" /\ fd[t] \in Conns /\ fd' = fd /\ asked[fd[t]] \in Query
         /\ inbox[fd[t]] = << asked[fd[t]] >> /\ outbox[fd[t]] = << >> /\ ~Idle(fd[t])
         /\ ~Working(fd[t])
         /\ inbox' = [inbox EXCEPT ![fd[t]] = << >>]
         /\ \/ /\ Valid(asked[fd[t]])
               /\ recv_query' = [recv_query EXCEPT ![t] = asked[fd[t]]]
               /\ pc' = [pc EXCEPT ![t] = Branch(asked[fd[t]])]
               /\ outbox' = outbox
            \/ /\ ~Valid(asked[fd[t]])
               /\ Deliver(fd[t], Say(-1))
               /\ recv_query' = recv_query /\ pc' = pc
<1>1. /\ pc[t] = "recv" /\ fd[t] \in Conns /\ inbox[fd[t]] # << >> /\ fd' = fd
      /\ inbox' = [inbox EXCEPT ![fd[t]] = Tail(@)]
  BY DEF Receive
<1>2. ClientSide(fd[t])
  BY <1>1 DEF FlightInv
<1>3. inbox[fd[t]] = << asked[fd[t]] >> /\ outbox[fd[t]] = << >> /\ ~Idle(fd[t])
  BY <1>1, <1>2 DEF ClientSide
<1>4. Head(inbox[fd[t]]) = asked[fd[t]] /\ Tail(inbox[fd[t]]) = << >>
  BY <1>3, OneElement
<1>5. ~Working(fd[t])
  BY <1>1 DEF Working, FlightInv, ThreadSide
<1>6. asked[fd[t]] \in Query
  BY <1>1 DEF TypeInv, ClientTypeOK
<1>7. inbox' = [inbox EXCEPT ![fd[t]] = << >>]
  BY <1>1, <1>4
<1> QED
  BY <1>1, <1>3, <1>4, <1>5, <1>6, <1>7 DEF Receive

LEMMA BranchIsBusy ==
  \A q : Branch(q) \notin {"none", "start", "recv", "release", "exited"}
BY DEF Branch

LEMMA ReceiveFlight ==
  ASSUME TypeInv, FlightInv, NEW t \in Conns, Receive(t), ClientThread(t), UNCHANGED clientVars,
         NEW c, c = fd[t]
  PROVE  FlightInv'
<1>1. /\ asked' = asked /\ sock' = sock
      /\ \A x \in Conns \ {t} : pc'[x] = pc[x] /\ recv_query'[x] = recv_query[x]
  BY ThreadSteps DEF clientVars
<1>2. /\ inbox \in [Conns -> Seq(Query)] /\ outbox \in [Conns -> Seq(Reply)]
      /\ pc \in [Conns -> Label] /\ recv_query \in [Conns -> Query]
  BY DEF TypeInv, NetTypeOK, ServerTypeOK
<1>3. /\ pc[t] = "recv" /\ c \in Conns /\ fd' = fd
      /\ outbox[c] = << >> /\ ~Idle(c) /\ ~Working(c)
      /\ inbox' = [inbox EXCEPT ![c] = << >>]
  BY Received
<1>4. \A x \in Conns \ {t} : /\ Busy(x)' <=> Busy(x)
                             /\ Busy(x) => fd[x] # c
  BY <1>1, <1>3 DEF Busy, Working
<1>5. CASE Valid(asked[c])
  <2>1. /\ recv_query' = [recv_query EXCEPT ![t] = asked[c]]
        /\ pc' = [pc EXCEPT ![t] = Branch(asked[c])] /\ outbox' = outbox
    BY <1>5, Received
  <2>2. Busy(t)' /\ ~Busy(t)
    BY <1>2, <1>3, <2>1, BranchIsBusy DEF Busy
  <2>3. \A x \in Conns : Working(x) => Working(x)'
    BY <1>3, <1>4, <2>2 DEF Working
  <2>4. \A x \in Conns \ {c} : ClientSide(x)'
    BY <1>1, <1>3, <2>1, <2>3 DEF FlightInv, ClientSide, Idle
  <2>5. ClientSide(c)'
    <3>1. ClientSide(c) /\ Working(c)' /\ inbox'[c] = << >> /\ outbox'[c] = << >>
      BY <1>2, <1>3, <2>1, <2>2 DEF FlightInv, Working
    <3> QED
      BY <1>1, <3>1, OneElement DEF ClientSide, Idle
  <2>6. ASSUME NEW x \in Conns \ {t}, Busy(x)' PROVE ThreadSide(x)'
    <3>1. ThreadSide(x) /\ fd[x] # c /\ recv_query'[x] = recv_query[x]
      BY <1>1, <1>4, <2>6 DEF FlightInv
    <3>2. \A y \in Conns : Busy(y)' /\ fd'[y] = fd'[x] => y = x
      BY <1>3, <1>4, <3>1 DEF ThreadSide
    <3>3. inbox'[fd'[x]] = << >> /\ outbox'[fd'[x]] = << >>
      BY <1>2, <1>3, <2>1, <3>1 DEF ThreadSide
    <3> QED
      BY <1>1, <1>3, <3>1, <3>2, <3>3 DEF ThreadSide, Idle, Valid
  <2>7. ThreadSide(t)'
    <3>1. recv_query'[t] = asked[c] /\ inbox'[c] = << >> /\ outbox'[c] = << >>
      BY <1>2, <1>3, <2>1
    <3>2. \A y \in Conns : Busy(y)' /\ fd'[y] = c => y = t
      BY <1>3, <1>4
    <3> QED
      BY <1>1, <1>3, <1>5, <3>1, <3>2 DEF ThreadSide, Idle, Valid
  <2> QED
    BY <2>4, <2>5, <2>6, <2>7 DEF FlightInv
<1>6. CASE ~Valid(asked[c])
  <2>1. Deliver(c, Say(-1)) /\ recv_query' = recv_query /\ pc' = pc
    BY <1>6, Received
  <2>2. /\ \A x \in Conns \ {c} : outbox'[x] = outbox[x]
        /\ outbox'[c] = IF sock[c] = "open" THEN << Say(-1) >> ELSE << >>
    BY <1>2, <1>3, <2>1, OneElement DEF Deliver
  <2>3. \A x \in Conns : Busy(x)' <=> Busy(x)
    BY <2>1 DEF Busy
  <2>4. \A x \in Conns : Working(x)' <=> Working(x)
    BY <1>3, <2>3 DEF Working
  <2>5. \A x \in Conns \ {c} : ClientSide(x)'
    BY <1>1, <1>2, <1>3, <2>2, <2>4 DEF FlightInv, ClientSide, Idle
  <2>6. ClientSide(c)'
    <3>1. ClientSide(c) /\ inbox'[c] = << >>
      BY <1>2, <1>3 DEF FlightInv
    <3> QED
      BY <1>1, <1>3, <2>2, <3>1, OneElement DEF ClientSide, Idle
  <2>7. ASSUME NEW x \in Conns, Busy(x)' PROVE ThreadSide(x)'
    <3>1. ThreadSide(x) /\ fd[x] # c
      BY <1>3, <2>3, <2>7 DEF FlightInv, Working
    <3> QED
      BY <1>1, <1>2, <1>3, <2>1, <2>2, <2>3, <3>1 DEF ThreadSide, Idle, Valid
  <2> QED
    BY <2>5, <2>6, <2>7 DEF FlightInv
<1> QED
  BY <1>5, <1>6

LEMMA SendFlight ==
  ASSUME TypeInv, FlightInv, NEW t \in Conns, Send(t), ClientThread(t), UNCHANGED clientVars,
         NEW c, c = fd[t]
  PROVE  FlightInv'
<1>1. /\ asked' = asked /\ sock' = sock
      /\ \A x \in Conns \ {t} : pc'[x] = pc[x] /\ recv_query'[x] = recv_query[x]
  BY ThreadSteps DEF clientVars
<1>2. /\ inbox \in [Conns -> Seq(Query)] /\ outbox \in [Conns -> Seq(Reply)]
      /\ pc \in [Conns -> Label]
  BY DEF TypeInv, NetTypeOK, ServerTypeOK
<1>3. /\ pc[t] = "send" /\ fd' = fd /\ inbox' = inbox /\ Deliver(c, return_buffer[t])
      /\ pc'[t] \in {"release", "recv"}
  BY <1>2 DEF Send, Goto
<1>4. Busy(t) /\ ~Busy(t)' /\ ThreadSide(t)
  BY <1>3 DEF Busy, FlightInv
<1>5. /\ \A x \in Conns \ {c} : outbox'[x] = outbox[x]
      /\ outbox'[c] = IF sock[c] = "open" THEN << return_buffer[t] >> ELSE << >>
      /\ c \in Conns
  BY <1>2, <1>3, <1>4, OneElement DEF Deliver, ThreadSide
<1>6. \A x \in Conns \ {t} : /\ Busy(x)' <=> Busy(x)
                             /\ Busy(x) => fd[x] # c
  BY <1>1, <1>4 DEF Busy, ThreadSide
<1>7. \A x \in Conns \ {c} : Working(x) => Working(x)'
  BY <1>3, <1>6 DEF Working
<1>8. \A x \in Conns \ {c} : ClientSide(x)'
  BY <1>1, <1>3, <1>5, <1>7 DEF FlightInv, ClientSide, Idle
<1>9. ClientSide(c)'
  <2>1. ClientSide(c) /\ inbox[c] = << >> /\ ~Idle(c)
    BY <1>4, <1>5 DEF FlightInv, ThreadSide
  <2> QED
    BY <1>1, <1>3, <1>5, <2>1, OneElement DEF ClientSide, Idle
<1>10. ASSUME NEW x \in Conns, Busy(x)' PROVE ThreadSide(x)'
  <2>1. x # t /\ ThreadSide(x) /\ fd[x] # c
    BY <1>4, <1>6, <1>10 DEF FlightInv
  <2>2. \A y \in Conns : Busy(y)' /\ fd'[y] = fd'[x] => y = x
    BY <1>3, <1>4, <1>6, <2>1 DEF ThreadSide
  <2> QED
    BY <1>1, <1>3, <1>5, <2>1, <2>2 DEF ThreadSide, Idle, Valid
<1> QED
  BY <1>8, <1>9, <1>10 DEF FlightInv

LEMMA FlightStep ==
  ASSUME QInv, [Next]_vars
  PROVE  FlightInv'
<1> USE DEF QInv
<1>1. CASE UNCHANGED vars
  BY <1>1, SameFlight DEF vars, netVars, serverVars, clientVars, frame, Busy
<1>2. ASSUME NEW t \in Conns, ClientThread(t), UNCHANGED clientVars PROVE FlightInv'
  <2>1. CASE Quiet(t)
    <3>1. /\ UNCHANGED << sock, inbox, outbox, asked, recv_query >>
          /\ \A x \in Conns \ {t} : pc'[x] = pc[x] /\ fd'[x] = fd[x]
      BY <1>2, <2>1, ThreadSteps DEF Quiet, clientVars
    <3>2. \A x \in Conns : (Busy(x)' <=> Busy(x)) /\ (Busy(x) => fd'[x] = fd[x])
      BY <2>1, <3>1 DEF Quiet, Busy
    <3> QED
      BY <3>1, <3>2, SameFlight
  <2> QED
    BY <1>2, <2>1, ThreadSteps, ReceiveFlight, SendFlight
<1> QED
  BY <1>1, <1>2, MainFlight, ClientFlight DEF Next

LEMMA InitQInv == Init => QInv
<1> SUFFICES ASSUME Init PROVE BacklogInv /\ FlightInv
  BY InitTypeInv DEF QInv
<1>1. BacklogInv
  BY DEF Init, NetInit, ServerInit, BacklogInv
<1>2. \A t \in Conns : ~Busy(t)
  BY DEF Init, ServerInit, Busy
<1>3. \A c \in Conns : ClientSide(c)
  BY OneElement DEF Init, NetInit, ClientInit, ClientSide, Idle
<1> QED
  BY <1>1, <1>2, <1>3 DEF FlightInv

LEMMA NextQInv == QInv /\ [Next]_vars => QInv'
BY NextTypeInv, BacklogStep, FlightStep DEF QInv

\* No answer is taken for that of another query, though two threads may have been
\* handed the same connected_fd (line 57).
THEOREM QueriesInOnePlace == Spec => []OneQueryInFlight
<1>1. QInv => OneQueryInFlight
  <2> SUFFICES ASSUME QInv PROVE OneQueryInFlight
    OBVIOUS
  <2>1. \A t \in Conns : Busy(t) => recv_query[t] = asked[fd[t]]
    BY DEF QInv, FlightInv, ThreadSide
  <2>2. ASSUME NEW c \in Conns, sock[c] = "open"
        PROVE  (IF Idle(c) THEN 0 ELSE 1) =
                 Len(inbox[c]) + Len(outbox[c]) + Cardinality({t \in Conns : Busy(t) /\ fd[t] = c})
    <3> DEFINE W == {t \in Conns : Busy(t) /\ fd[t] = c}
    <3>1. ClientSide(c) /\ \A t \in W : ThreadSide(t)
      BY DEF QInv, FlightInv
    <3>2. outbox[c] = << >> \/ Len(outbox[c]) = 1
      BY <3>1, TailOfOne DEF ClientSide, QInv, TypeInv, NetTypeOK
    <3>3. W = {} => ~Working(c)
      BY DEF Working
    <3>4. ASSUME NEW t \in W
          PROVE  W = {t} /\ inbox[c] = << >> /\ outbox[c] = << >> /\ ~Idle(c)
      BY <3>1 DEF ThreadSide
    <3>s. SUFFICES (IF Idle(c) THEN 0 ELSE 1) = Len(inbox[c]) + Len(outbox[c]) + Cardinality(W)
      OBVIOUS
    <3> HIDE DEF W
    <3>5. CASE W = {}
      <4>1. Cardinality(W) = 0
        BY <3>5, FS_EmptySet
      <4>2. Idle(c) => Len(inbox[c]) = 0 /\ Len(outbox[c]) = 0
        BY <3>1, OneElement DEF ClientSide
      <4>3. ~Idle(c) => \/ Len(inbox[c]) = 1 /\ Len(outbox[c]) = 0
                        \/ Len(inbox[c]) = 0 /\ Len(outbox[c]) = 1
        <5>1. /\ inbox[c] = << >> => Len(inbox[c]) = 0
              /\ inbox[c] # << >> => Len(inbox[c]) = 1
              /\ outbox[c] = << >> => Len(outbox[c]) = 0
          BY <3>1, OneElement DEF ClientSide
        <5>2. ~Idle(c) => (inbox[c] # << >> /\ outbox[c] = << >>) \/ (inbox[c] = << >> /\ outbox[c] # << >>)
          BY <2>2, <3>1, <3>3, <3>5 DEF ClientSide
        <5> QED
          BY <3>2, <5>1, <5>2
      <4>4. CASE Idle(c)
        <5>1. Cardinality(W) = 0 /\ Len(inbox[c]) = 0 /\ Len(outbox[c]) = 0 /\ Idle(c)
          BY <4>1, <4>2, <4>4
        <5> QED
          BY <5>1
      <4>5. CASE ~Idle(c)
        <5>1. CASE Len(inbox[c]) = 1
          <6>1. Cardinality(W) = 0 /\ Len(inbox[c]) = 1 /\ Len(outbox[c]) = 0 /\ ~Idle(c)
            BY <4>1, <4>3, <4>5, <5>1
          <6> QED
            BY <6>1
        <5>2. CASE Len(inbox[c]) # 1
          <6>1. Cardinality(W) = 0 /\ Len(inbox[c]) = 0 /\ Len(outbox[c]) = 1 /\ ~Idle(c)
            BY <4>1, <4>3, <4>5, <5>2
          <6> QED
            BY <6>1
        <5> QED
          BY <5>1, <5>2
      <4> QED
        BY <4>4, <4>5
    <3>6. ASSUME NEW t \in W
          PROVE  (IF Idle(c) THEN 0 ELSE 1) = Len(inbox[c]) + Len(outbox[c]) + Cardinality(W)
      <4>1. Cardinality(W) = 1 /\ Len(inbox[c]) = 0 /\ Len(outbox[c]) = 0 /\ ~Idle(c)
        BY <3>4, FS_Singleton, OneElement
      <4> QED
        BY <4>1
    <3> QED
      BY <3>5, <3>6
  <2> QED
    BY <2>1, <2>2 DEF OneQueryInFlight
<1> QED
  BY <1>1, InitQInv, NextQInv, PTL DEF Spec

-----------------------------------------------------------------------------
(***************************************************************************)
(* EXIT and LOGIN, followed from the query through the steps of the thread *)
(* to the reply and to what the client does when it has read it.           *)
(***************************************************************************)
\* What a thread is doing is what its query asks for.
LoginLabels == {"login_check", "login_passwd", "login_set"}
ReserveLabels == {"reserve_check", "reserve"}
CancelLabels == {"cancel_login", "cancel_owner", "cancel"}

DoesWhatIsAsked ==
  \A t \in Conns : pc[t] \in OpLabel =>
    /\ pc[t] \in LoginLabels <=> recv_query[t].action = LOGIN
    /\ pc[t] \in ReserveLabels <=> recv_query[t].action = RESERVE
    /\ pc[t] \in CancelLabels <=> recv_query[t].action = CANCEL_RSV
    /\ pc[t] = "exit" <=> IsExit(recv_query[t])
    /\ pc[t] = "exit" <=> recv_query[t].action = EXIT

NoSession(c) == \A u \in User : is_user_login[u] # c

\* A client that has got, or will get, the answer to EXIT asks nothing more.
Left(c) ==
  /\ inbox[c] = << >> /\ ~Working(c)
  /\ sock[c] = "closed" \/ (IsExit(asked[c]) /\ outbox[c] = << Say(256) >>)

ExitInv ==
  \A t \in Conns :
    /\ pc[t] \notin {"exit", "check_scan", "send"} => scan[t] = 0
    /\ pc[t] = "exit" => \A u \in User : u < scan[t] => is_user_login[u] # fd[t]
    /\ pc[t] = "send" /\ IsExit(recv_query[t]) =>
         return_buffer[t] = Say(256) /\ NoSession(fd[t])
    /\ pc[t] \in {"release", "exited"} => fd[t] \in Conns /\ Left(fd[t]) /\ NoSession(fd[t])

\* The password of the query is the one that is set, for good.
Proven(q) == q.user \in User /\ q.data >= 0 /\ passwd_of_user[q.user] = q.data

LoginInv ==
  /\ \A t \in Conns :
       /\ pc[t] = "login_set" /\ success[t] => Proven(recv_query[t])
       /\ pc[t] = "send" /\ recv_query[t].action = LOGIN /\ return_buffer[t] = Say(1) =>
            Proven(recv_query[t])
  /\ \A c \in Conns :
       asked[c].action = LOGIN /\ outbox[c] = << Say(1) >> => Proven(asked[c])

SInv == QInv /\ RegisteredInv /\ DoesWhatIsAsked /\ ExitInv /\ LoginInv

\* Steps of main() and of clients leave the threads and the tables alone.
LEMMA OtherSteps ==
  ASSUME QInv, [Next]_vars
  PROVE  \/ /\ UNCHANGED << fd, recv_query, success, scan, return_buffer, tables >>
            /\ \A x \in Conns : pc'[x] = pc[x] \/ (pc[x] = "none" /\ pc'[x] = "start")
         \/ \E t \in Conns : ClientThread(t) /\ UNCHANGED clientVars
<1>1. CASE Main
  <2>1. CASE Spawn
    <3>1. pc \in [Conns -> Label] /\ pc[connected_fd] = "none"
      BY <2>1 DEF Spawn, QInv, BacklogInv, TypeInv, ServerTypeOK
    <3> QED
      BY <2>1, <3>1 DEF Spawn, frame
  <2>2. CASE Accept \/ AcceptFails \/ SpawnFails
    BY <2>2 DEF Accept, AcceptFails, SpawnFails, frame
  <2> QED
    BY <1>1, <2>1, <2>2 DEF Main
<1>2. CASE UNCHANGED serverVars
  BY <1>2 DEF serverVars, frame
<1> QED
  BY <1>1, <1>2 DEF Next, vars

LEMMA DoesStep ==
  ASSUME QInv, DoesWhatIsAsked, [Next]_vars
  PROVE  DoesWhatIsAsked'
<1> USE DEF QInv, TypeInv, ServerTypeOK, OpLabel, LoginLabels, ReserveLabels, CancelLabels
<1> DEFINE Does(l, q) == /\ l \in LoginLabels <=> q.action = LOGIN
                         /\ l \in ReserveLabels <=> q.action = RESERVE
                         /\ l \in CancelLabels <=> q.action = CANCEL_RSV
                         /\ l = "exit" <=> IsExit(q)
                         /\ l = "exit" <=> q.action = EXIT
<1>1. CASE /\ UNCHANGED << fd, recv_query, success, scan, return_buffer, tables >>
           /\ \A x \in Conns : pc'[x] = pc[x] \/ (pc[x] = "none" /\ pc'[x] = "start")
  BY <1>1 DEF DoesWhatIsAsked
<1>2. ASSUME NEW t \in Conns, ClientThread(t), UNCHANGED clientVars
      PROVE  DoesWhatIsAsked'
  <2>1. \A x \in Conns \ {t} : pc'[x] = pc[x] /\ recv_query'[x] = recv_query[x]
    BY <1>2, ThreadSteps
  <2>2. SUFFICES pc'[t] \in OpLabel => Does(pc'[t], recv_query'[t])
    BY <2>1 DEF DoesWhatIsAsked
  <2>3. pc[t] \in OpLabel => Does(pc[t], recv_query[t])
    BY DEF DoesWhatIsAsked
  <2>4. CASE Start(t) \/ Release(t) \/ ReserveHangs(t) \/ Send(t)
    BY <2>4 DEF Start, Release, ReserveHangs, Send, Goto
  <2>5. CASE Receive(t)
    <3> DEFINE q == asked[fd[t]]
    <3>1. \/ recv_query'[t] = q /\ pc'[t] = Branch(q)
          \/ pc'[t] = "recv"
      BY <2>5, Received
    <3>2. Branch(q) # "send" => Does(Branch(q), q)
      BY DEF Branch, IsExit, EXIT, LOGIN, RESERVE, CHECK_RSV, CANCEL_RSV, LOGOUT
    <3> HIDE DEF q
    <3> QED
      BY <3>1, <3>2
  <2>6. CASE LoginCheck(t) \/ ReserveCheck(t) \/ CheckLogin(t) \/ CancelLogin(t)
             \/ CancelOwner(t) \/ LogoutCheck(t)
    BY <2>3, <2>6 DEF LoginCheck, ReserveCheck, CheckLogin, CancelLogin, CancelOwner,
                      LogoutCheck, Decide, Goto
  <2>7. CASE LoginPasswd(t)
    BY <2>3, <2>7 DEF LoginPasswd, Goto
  <2>8. CASE CheckScan(t) \/ ExitClear(t)
    BY <2>3, <2>8 DEF CheckScan, ExitClear
  <2>9. CASE LoginSet(t) \/ Reserve(t) \/ Cancel(t) \/ Logout(t) \/ CheckReply(t) \/ ExitReply(t)
    BY <2>9 DEF LoginSet, Reserve, Cancel, Logout, CheckReply, ExitReply, Finish, Goto
  <2> QED
    BY <1>2, <2>4, <2>5, <2>6, <2>7, <2>8, <2>9 DEF ClientThread
<1> QED
  BY <1>1, <1>2, OtherSteps

-----------------------------------------------------------------------------
\* Only LoginSet gives a user a session.
LEMMA SessionsStay ==
  ASSUME TypeInv, [Next]_vars, NEW c \in Conns, NEW u \in User, is_user_login[u] # c,
         \A x \in Conns : pc[x] = "login_set" => fd[x] # c
  PROVE  is_user_login'[u] # c
<1> USE DEF TypeInv, ServerTypeOK
<1>1. ASSUME NEW x \in Conns, LoginSet(x) PROVE is_user_login'[u] # c
  <2>1. pc[x] = "login_set"
    BY <1>1 DEF LoginSet, Finish, Goto
  <2> QED
    BY <1>1, <2>1 DEF LoginSet
<1>2. ASSUME NEW x \in Conns, Logout(x) \/ ExitClear(x) PROVE is_user_login'[u] # c
  BY <1>2, NetAssumption DEF Logout, ExitClear
<1> QED
  BY <1>1, <1>2, TableSteps

\* Who has left stays away, and nothing is sent to it.
LEMMA LeftStays ==
  ASSUME QInv, FlightInv', [Next]_vars, NEW c \in Conns, Left(c)
  PROVE  Left(c)'
<1>1. /\ sock \in [Conns -> {"new", "open", "closed"}]
      /\ inbox \in [Conns -> Seq(Query)] /\ outbox \in [Conns -> Seq(Reply)]
      /\ asked \in [Conns -> Query]
  BY DEF QInv, TypeInv, NetTypeOK, ClientTypeOK
<1>2. inbox[c] = << >> /\ \A x \in Conns : Busy(x) => fd[x] # c
  BY DEF Left, Working
<1>3. ClientSide(c)
  BY DEF QInv, FlightInv
<1>4. IsExit(asked[c]) => ~Idle(c)
  BY DEF IsExit, Idle, NoQuery, EXIT
<1>5. CASE /\ UNCHANGED << sock, inbox, outbox, asked >>
           /\ \A x \in Conns : (Busy(x)' <=> Busy(x)) /\ (Busy(x) => fd'[x] = fd[x])
  BY <1>5 DEF Left, Working, IsExit
<1>6. CASE UNCHANGED vars
  BY <1>5, <1>6 DEF vars, netVars, serverVars, clientVars, frame, Busy
<1>7. CASE Main /\ UNCHANGED clientVars
  <2>1. UNCHANGED << sock, inbox, outbox, asked, fd >>
    BY <1>7 DEF Main, Accept, AcceptFails, Spawn, SpawnFails, frame, netVars, clientVars
  <2>2. \A x \in Conns : Busy(x)' <=> Busy(x)
    BY <1>7, MainKeepsBusy DEF QInv
  <2> QED
    BY <1>5, <2>1, <2>2
<1>8. ASSUME NEW t \in Conns, ClientThread(t), UNCHANGED clientVars
      PROVE  Left(c)'
  <2>1. /\ UNCHANGED << sock, asked >>
        /\ \A x \in Conns \ {t} : pc'[x] = pc[x] /\ fd'[x] = fd[x]
    BY <1>8, ThreadSteps DEF clientVars, QInv
  <2>2. CASE Quiet(t)
    BY <1>5, <2>1, <2>2 DEF Quiet, Busy
  <2>3. CASE Receive(t)
    <3>1. /\ fd[t] \in Conns /\ fd[t] # c /\ fd' = fd
          /\ inbox' = [inbox EXCEPT ![fd[t]] = << >>]
          /\ outbox' = outbox \/ Deliver(fd[t], Say(-1))
      BY <1>2, <2>3, Received, OneElement DEF QInv
    <3>2. inbox'[c] = inbox[c] /\ outbox'[c] = outbox[c]
      BY <1>1, <3>1 DEF Deliver
    <3>3. ~Working(c)'
      BY <1>2, <2>1, <3>1 DEF Working, Busy
    <3> QED
      BY <2>1, <3>2, <3>3 DEF Left, IsExit
  <2>4. CASE Send(t)
    <3>1. Busy(t) /\ fd' = fd /\ inbox' = inbox /\ Deliver(fd[t], return_buffer[t])
      BY <2>4 DEF Send, Goto, Busy
    <3>2. fd[t] # c
      BY <1>2, <3>1
    <3>3. outbox'[c] = outbox[c]
      BY <1>1, <3>1, <3>2 DEF Deliver
    <3>4. ~Working(c)'
      BY <1>2, <2>1, <3>1, <3>2 DEF Working, Busy
    <3> QED
      BY <2>1, <3>1, <3>3, <3>4 DEF Left, IsExit
  <2> QED
    BY <1>8, <2>2, <2>3, <2>4, ThreadSteps DEF QInv
<1>9. ASSUME NEW d \in Conns, Client(d), UNCHANGED serverVars
      PROVE  Left(c)'
  <2>1. ~Working(c)'
    BY <1>9 DEF serverVars, frame, Left, Working, Busy
  <2>2. CASE d # c
    <3>1. /\ sock'[c] = sock[c] /\ inbox'[c] = inbox[c]
          /\ outbox'[c] = outbox[c] /\ asked'[c] = asked[c]
      BY <1>1, <1>9, <2>2 DEF Client, Connect, Ask, Hear, Die, clientVars
    <3> QED
      BY <2>1, <3>1 DEF Left, IsExit
  <2>3. CASE d = c /\ Hear(d)
    <3>1. sock[c] = "open" /\ IsExit(asked[c]) /\ outbox[c] = << Say(256) >> /\ UNCHANGED inbox
      BY <2>3 DEF Hear, Left
    <3>2. Head(outbox[c]).code = 256
      BY <3>1, OneElement DEF Say
    <3>3. sock' = [sock EXCEPT ![c] = "closed"]
      BY <2>3, <3>1, <3>2 DEF Hear, IsExit, EXIT
    <3> QED
      BY <1>1, <2>1, <3>1, <3>3 DEF Left
  <2>4. CASE d = c /\ ~Hear(d)
    <3>1. sock[c] # "new" /\ (sock[c] = "open" => ~Idle(c))
      BY <1>3, <1>4 DEF Left, ClientSide
    <3>2. Die(c)
      BY <1>9, <2>4, <3>1 DEF Client, Connect, Ask
    <3> QED
      BY <1>1, <2>1, <3>2 DEF Left, Die
  <2> QED
    BY <2>2, <2>3, <2>4
<1> QED
  BY <1>6, <1>7, <1>8, <1>9 DEF Next

\* What a thread brings about itself of ExitInv.
LEMMA OwnExit ==
  ASSUME QInv, FlightInv', DoesWhatIsAsked, ExitInv, [Next]_vars,
         NEW t \in Conns, ClientThread(t), UNCHANGED clientVars
  PROVE  /\ pc'[t] \notin {"exit", "check_scan", "send"} => scan'[t] = 0
         /\ pc'[t] = "exit" => \A u \in User : u < scan'[t] => is_user_login'[u] # fd'[t]
         /\ pc'[t] = "send" /\ IsExit(recv_query'[t]) =>
              return_buffer'[t] = Say(256) /\ \A u \in User : is_user_login'[u] # fd'[t]
         /\ pc'[t] \in {"release", "exited"} =>
              /\ fd'[t] \in Conns /\ Left(fd[t])'
              /\ \A u \in User : is_user_login'[u] # fd'[t]
<1> DEFINE Zero == pc'[t] \notin {"exit", "check_scan", "send"} => scan'[t] = 0
           Cleared == pc'[t] = "exit" => \A u \in User : u < scan'[t] => is_user_login'[u] # fd'[t]
           Replies == pc'[t] = "send" /\ IsExit(recv_query'[t]) =>
              return_buffer'[t] = Say(256) /\ \A u \in User : is_user_login'[u] # fd'[t]
           Leaves == pc'[t] \in {"release", "exited"} =>
              /\ fd'[t] \in Conns /\ Left(fd[t])'
              /\ \A u \in User : is_user_login'[u] # fd'[t]
<1> SUFFICES Zero /\ Cleared /\ Replies /\ Leaves
  OBVIOUS
<1> USE DEF QInv, TypeInv, ServerTypeOK
<1>1. /\ pc[t] \notin {"exit", "check_scan", "send"} => scan[t] = 0
      /\ pc[t] = "exit" => \A u \in User : u < scan[t] => is_user_login[u] # fd[t]
      /\ pc[t] = "send" /\ IsExit(recv_query[t]) =>
           return_buffer[t] = Say(256) /\ NoSession(fd[t])
      /\ pc[t] \in {"release", "exited"} => fd[t] \in Conns /\ Left(fd[t]) /\ NoSession(fd[t])
  BY DEF ExitInv
<1>2. CASE Start(t) \/ ReserveHangs(t) \/ LoginCheck(t) \/ LoginPasswd(t) \/ ReserveCheck(t)
           \/ CheckLogin(t) \/ CancelLogin(t) \/ CancelOwner(t) \/ LogoutCheck(t)
  BY <1>1, <1>2 DEF Start, ReserveHangs, LoginCheck, LoginPasswd, ReserveCheck, CheckLogin,
                    CancelLogin, CancelOwner, LogoutCheck, Decide, Goto, frame
<1>3. CASE CheckScan(t)
  BY <1>3 DEF CheckScan
<1>4. CASE Receive(t)
  <2> DEFINE q == asked[fd[t]]
  <2>a. scan' = scan
    BY <1>4 DEF Receive
  <2>1. /\ pc[t] = "recv" /\ scan' = scan
        /\ \/ recv_query'[t] = q /\ pc'[t] = Branch(q)
           \/ pc'[t] = "recv"
    BY <1>4, <2>a, Received
  <2>2. /\ Branch(q) = "send" => ~IsExit(q)
        /\ Branch(q) \notin {"release", "exited"}
    BY DEF Branch
  <2>3. scan'[t] = 0 /\ \A u \in User : ~(u < 0)
    BY <1>1, <2>1 DEF User
  <2> HIDE DEF q
  <2> QED
    BY <2>1, <2>2, <2>3
<1>5. CASE Send(t)
  <2>1. /\ pc[t] = "send" /\ scan'[t] = 0 /\ fd' = fd /\ is_user_login' = is_user_login
        /\ pc'[t] = IF IsExit(recv_query[t]) THEN "release" ELSE "recv"
        /\ Deliver(fd[t], return_buffer[t])
    BY <1>5 DEF Send, Goto, tables
  <2>2. ThreadSide(t)
    BY <2>1 DEF FlightInv, Busy
  <2>3. ASSUME IsExit(recv_query[t])
        PROVE  Left(fd[t])' /\ NoSession(fd[t])
    <3>1. return_buffer[t] = Say(256) /\ NoSession(fd[t])
      BY <1>1, <2>1, <2>3
    <3>2. /\ sock' = sock /\ asked' = asked /\ inbox' = inbox
          /\ \A x \in Conns \ {t} : pc'[x] = pc[x]
      BY <1>5, ThreadSteps DEF Send, clientVars
    <3>3. ~Working(fd[t])'
      BY <2>1, <2>2, <2>3, <3>2 DEF Working, Busy, ThreadSide
    <3>4. sock[fd[t]] \in {"open", "closed"}
      BY <2>2 DEF ThreadSide, FlightInv, ClientSide, NetTypeOK
    <3>5. sock[fd[t]] = "open" => outbox'[fd[t]] = << Say(256) >>
      BY <2>1, <2>2, <3>1, OneElement DEF Deliver, ThreadSide, NetTypeOK
    <3>6. inbox[fd[t]] = << >> /\ IsExit(asked[fd[t]])
      BY <2>2, <2>3 DEF ThreadSide
    <3> QED
      BY <2>1, <3>1, <3>2, <3>3, <3>4, <3>5, <3>6 DEF Left, IsExit
  <2> QED
    BY <2>1, <2>2, <2>3 DEF NoSession, ThreadSide
<1>6. CASE Release(t)
  <2>1. /\ pc[t] = "release" /\ pc'[t] = "exited" /\ scan' = scan /\ fd' = fd
        /\ is_user_login' = is_user_login
    BY <1>6 DEF Release, Goto, frame, tables
  <2>2. fd[t] \in Conns /\ Left(fd[t]) /\ NoSession(fd[t])
    BY <1>1, <2>1
  <2>3. ASSUME NEW c \in Conns, c = fd[t] PROVE Left(fd[t])'
    <3>1. Left(c)'
      BY <2>2, <2>3, LeftStays
    <3> QED
      BY <2>1, <2>3, <3>1 DEF Left, Working
  <2>4. Left(fd[t])'
    BY <2>2, <2>3
  <2> QED
    BY <1>1, <2>1, <2>2, <2>4 DEF NoSession
<1>7. CASE ExitClear(t)
  <2>1. /\ pc[t] = "exit" /\ pc' = pc /\ fd' = fd /\ scan'[t] = scan[t] + 1 /\ scan[t] \in User
        /\ is_user_login' = IF is_user_login[scan[t]] = fd[t]
                            THEN [is_user_login EXCEPT ![scan[t]] = NoFd] ELSE is_user_login
    BY <1>7 DEF ExitClear
  <2>2. fd[t] \in Conns
    BY <2>1 DEF FlightInv, Busy, ThreadSide
  <2>3. ASSUME NEW u \in User, u < scan'[t] PROVE is_user_login'[u] # fd[t]
    <3>1. u < scan[t] \/ u = scan[t]
      BY <2>1, <2>3 DEF User
    <3> QED
      BY <1>1, <2>1, <2>2, <3>1, NetAssumption
  <2> QED
    BY <2>1, <2>3
<1>8. CASE ExitReply(t)
  <2>1. /\ pc[t] = "exit" /\ pc'[t] = "send" /\ fd' = fd /\ return_buffer'[t] = Say(256)
        /\ is_user_login' = is_user_login /\ scan[t] \in Nat /\ scan[t] \notin User
    BY <1>8 DEF ExitReply, Finish, Goto
  <2>2. \A u \in User : u < scan[t]
    BY <2>1, NetAssumption DEF User
  <2> QED
    BY <1>1, <2>1, <2>2
<1>9. CASE LoginSet(t) \/ Reserve(t) \/ Cancel(t) \/ Logout(t) \/ CheckReply(t)
  <2>1. pc[t] \in OpLabel /\ pc[t] # "exit" /\ pc'[t] = "send" /\ recv_query' = recv_query
    BY <1>9 DEF LoginSet, Reserve, Cancel, Logout, CheckReply, Finish, Goto, OpLabel, Label
  <2>2. ~IsExit(recv_query[t])
    BY <2>1 DEF DoesWhatIsAsked
  <2> QED
    BY <2>1, <2>2
<1> QED
  BY <1>2, <1>3, <1>4, <1>5, <1>6, <1>7, <1>8, <1>9 DEF ClientThread

LEMMA ExitStep ==
  ASSUME QInv, FlightInv', DoesWhatIsAsked, ExitInv, [Next]_vars
  PROVE  ExitInv'
<1> USE DEF QInv, TypeInv, ServerTypeOK
<1>1. ASSUME NEW x \in Conns,
             UNCHANGED << pc[x], fd[x], recv_query[x], scan[x], return_buffer[x] >>
      PROVE  /\ pc'[x] \notin {"exit", "check_scan", "send"} => scan'[x] = 0
             /\ pc'[x] = "exit" => \A u \in User : u < scan'[x] => is_user_login'[u] # fd'[x]
             /\ pc'[x] = "send" /\ IsExit(recv_query'[x]) =>
                  return_buffer'[x] = Say(256) /\ \A u \in User : is_user_login'[u] # fd'[x]
             /\ pc'[x] \in {"release", "exited"} =>
                  /\ fd'[x] \in Conns /\ Left(fd[x])'
                  /\ \A u \in User : is_user_login'[u] # fd'[x]
  <2>1. pc[x] \in {"exit", "send"} =>
          fd[x] \in Conns /\ \A y \in Conns : pc[y] = "login_set" => fd[y] # fd[x]
    BY DEF FlightInv, ThreadSide, Busy
  <2>2. pc[x] \in {"release", "exited"} =>
          /\ fd[x] \in Conns /\ Left(fd[x]) /\ NoSession(fd[x])
          /\ \A y \in Conns : pc[y] = "login_set" => fd[y] # fd[x]
    <3>1. pc[x] \in {"release", "exited"} =>
            fd[x] \in Conns /\ Left(fd[x]) /\ NoSession(fd[x])
      BY DEF ExitInv
    <3>2. \A c : Left(c) => \A y \in Conns : pc[y] = "login_set" => fd[y] # c
      BY DEF Left, Working, Busy
    <3> QED
      BY <3>1, <3>2
  <2>3. ASSUME pc[x] \in {"exit", "send", "release", "exited"},
               NEW u \in User, is_user_login[u] # fd[x]
        PROVE  is_user_login'[u] # fd[x]
    BY <2>1, <2>2, <2>3, SessionsStay
  <2>4. ASSUME NEW c \in Conns, c = fd[x], Left(c) PROVE Left(fd[x])'
    <3>1. Left(c)'
      BY <2>4, LeftStays
    <3> QED
      BY <1>1, <2>4, <3>1 DEF Left, Working
  <2>5. pc'[x] \in {"release", "exited"} => Left(fd[x])'
    BY <1>1, <2>2, <2>4
  <2> QED
    BY <1>1, <2>2, <2>3, <2>5 DEF ExitInv, NoSession
<1>2. CASE /\ UNCHANGED << fd, recv_query, success, scan, return_buffer, tables >>
           /\ \A x \in Conns : pc'[x] = pc[x] \/ (pc[x] = "none" /\ pc'[x] = "start")
  <2>1. ASSUME NEW x \in Conns, pc[x] = "none", pc'[x] = "start" PROVE scan'[x] = 0
    BY <1>2, <2>1 DEF ExitInv
  <2> QED
    BY <1>1, <1>2, <2>1 DEF ExitInv, NoSession
<1>3. ASSUME NEW t \in Conns, ClientThread(t), UNCHANGED clientVars
      PROVE  ExitInv'
  <2>1. \A x \in Conns \ {t} :
          UNCHANGED << pc[x], fd[x], recv_query[x], scan[x], return_buffer[x] >>
    BY <1>3, ThreadSteps
  <2> QED
    BY <1>1, <1>3, <2>1, OwnExit DEF ExitInv, NoSession
<1> QED
  BY <1>2, <1>3, OtherSteps

-----------------------------------------------------------------------------
LEMMA ProvenStays ==
  ASSUME TypeInv, [Next]_vars, NEW q, Proven(q)
  PROVE  Proven(q)'
<1>1. passwd_of_user[q.user] # -1
  BY DEF Proven
<1> QED
  BY <1>1, PasswordStep DEF Proven

\* What a thread brings about itself of LoginInv.
LEMMA OwnLogin ==
  ASSUME QInv, RegisteredInv, DoesWhatIsAsked, LoginInv, [Next]_vars,
         NEW t \in Conns, ClientThread(t), UNCHANGED clientVars
  PROVE  /\ pc'[t] = "login_set" /\ success'[t] => Proven(recv_query[t])'
         /\ pc'[t] = "send" /\ recv_query'[t].action = LOGIN /\ return_buffer'[t] = Say(1) =>
              Proven(recv_query[t])'
<1> DEFINE Claim == /\ pc'[t] = "login_set" /\ success'[t] => Proven(recv_query[t])'
                    /\ pc'[t] = "send" /\ recv_query'[t].action = LOGIN
                         /\ return_buffer'[t] = Say(1) => Proven(recv_query[t])'
<1> SUFFICES Claim
  OBVIOUS
<1> USE DEF QInv, TypeInv, ServerTypeOK
<1>1. CASE Start(t) \/ ReserveHangs(t) \/ Release(t) \/ Send(t)
  BY <1>1 DEF Start, ReserveHangs, Release, Send, Goto
<1>2. CASE LoginCheck(t) \/ ReserveCheck(t) \/ CheckLogin(t) \/ CancelLogin(t)
           \/ CancelOwner(t) \/ LogoutCheck(t)
  BY <1>2 DEF LoginCheck, ReserveCheck, CheckLogin, CancelLogin, CancelOwner, LogoutCheck,
              Decide, Goto
<1>3. CASE CheckScan(t) \/ ExitClear(t)
  BY <1>3 DEF CheckScan, ExitClear
<1>4. CASE Receive(t)
  <2> DEFINE q == asked[fd[t]]
  <2>1. \/ recv_query'[t] = q /\ pc'[t] = Branch(q)
        \/ pc'[t] = "recv"
    BY <1>4, Received
  <2>2. Branch(q) # "login_set" /\ (Branch(q) = "send" => q.action # LOGIN)
    BY DEF Branch
  <2> HIDE DEF q
  <2> QED
    BY <2>1, <2>2
<1>5. CASE LoginPasswd(t)
  <2>1. pc[t] = "login_passwd" /\ pc'[t] = "login_set" /\ recv_query' = recv_query
    BY <1>5 DEF LoginPasswd, Goto
  <2>2. UserQ(t) \in User /\ DataQ(t) \in Int
    BY <2>1 DEF QueryIsValid, OpLabel, Label, UserQ, DataQ, Query
  <2>3. ASSUME success'[t] PROVE Proven(recv_query[t])'
    <3>1. success[t] /\ passwd_of_user[UserQ(t)] \in {-1, DataQ(t)}
      BY <1>5, <2>3 DEF LoginPasswd
    <3>2. DataQ(t) >= 0
      BY <2>1, <3>1 DEF RegisteredInv
    <3>3. passwd_of_user'[UserQ(t)] = DataQ(t)
      BY <1>5, <2>2, <3>1 DEF LoginPasswd
    <3> QED
      BY <2>1, <2>2, <3>2, <3>3 DEF Proven, UserQ, DataQ
  <2> QED
    BY <2>1, <2>3
<1>6. CASE LoginSet(t)
  <2>1. /\ pc[t] = "login_set" /\ pc'[t] = "send" /\ UNCHANGED << recv_query, passwd_of_user >>
        /\ return_buffer'[t] = Say(IF success[t] THEN 1 ELSE -1)
    BY <1>6 DEF LoginSet, Finish, Goto
  <2>2. return_buffer'[t] = Say(1) => success[t]
    BY <2>1 DEF Say
  <2>3. success[t] => Proven(recv_query[t])
    BY <2>1 DEF LoginInv
  <2> QED
    BY <2>1, <2>2, <2>3 DEF Proven
<1>7. CASE Reserve(t) \/ Cancel(t) \/ Logout(t) \/ CheckReply(t) \/ ExitReply(t)
  <2>1. pc[t] \in OpLabel \ LoginLabels /\ pc'[t] = "send" /\ recv_query' = recv_query
    BY <1>7 DEF Reserve, Cancel, Logout, CheckReply, ExitReply, Finish, Goto,
                OpLabel, Label, LoginLabels
  <2>2. recv_query[t].action # LOGIN
    BY <2>1 DEF DoesWhatIsAsked
  <2> QED
    BY <2>1, <2>2
<1> QED
  BY <1>1, <1>2, <1>3, <1>4, <1>5, <1>6, <1>7 DEF ClientThread

\* A reply that says 1 comes from the thread that has just proved the password.
LEMMA RepliesProve ==
  ASSUME QInv, LoginInv, [Next]_vars, NEW c \in Conns,
         asked'[c].action = LOGIN, outbox'[c] = << Say(1) >>
  PROVE  Proven(asked[c])'
<1>1. /\ inbox \in [Conns -> Seq(Query)] /\ outbox \in [Conns -> Seq(Reply)]
      /\ asked \in [Conns -> Query]
  BY DEF QInv, TypeInv, NetTypeOK, ClientTypeOK
<1>2. CASE asked'[c] = asked[c] /\ outbox'[c] = outbox[c]
  <2>1. Proven(asked[c])
    BY <1>2 DEF LoginInv
  <2>2. ASSUME NEW q, Proven(q) PROVE Proven(q)'
    BY <2>2, ProvenStays DEF QInv
  <2>3. ASSUME NEW q, q = asked[c] PROVE Proven(asked[c])'
    <3>1. Proven(q)'
      BY <2>1, <2>2, <2>3
    <3> QED
      BY <1>2, <2>3, <3>1 DEF Proven
  <2> QED
    BY <2>3
<1>3. CASE UNCHANGED vars
  BY <1>2, <1>3 DEF vars, netVars, clientVars
<1>4. CASE Main /\ UNCHANGED clientVars
  BY <1>2, <1>4 DEF Main, Accept, AcceptFails, Spawn, SpawnFails, netVars, clientVars
<1>5. ASSUME NEW t \in Conns, ClientThread(t), UNCHANGED clientVars
      PROVE  Proven(asked[c])'
  <2>1. asked' = asked
    BY <1>5 DEF clientVars
  <2>2. CASE Quiet(t)
    BY <1>2, <2>1, <2>2 DEF Quiet
  <2>3. CASE Receive(t)
    <3>1. outbox[fd[t]] = << >> /\ (outbox' = outbox \/ Deliver(fd[t], Say(-1)))
      BY <2>3, Received DEF QInv
    <3>2. CASE c = fd[t]
      <4>1. outbox'[c] \in {<< >>, << Say(-1) >>}
        BY <1>1, <3>1, <3>2, OneElement DEF Deliver
      <4>2. << Say(1) >> # << >> /\ << Say(1) >> # << Say(-1) >>
        BY DEF Say
      <4> QED
        BY <4>1, <4>2
    <3>3. CASE c # fd[t]
      BY <1>1, <1>2, <2>1, <3>1, <3>3 DEF Deliver
    <3> QED
      BY <3>2, <3>3
  <2>4. CASE Send(t)
    <3>1. /\ pc[t] = "send" /\ passwd_of_user' = passwd_of_user
          /\ Deliver(fd[t], return_buffer[t])
      BY <2>4 DEF Send, Goto, tables
    <3>2. ThreadSide(t)
      BY <3>1 DEF QInv, FlightInv, Busy
    <3>3. CASE c = fd[t]
      <4>1. outbox'[c] \in {<< >>, << return_buffer[t] >>}
        BY <1>1, <3>1, <3>2, <3>3, OneElement DEF Deliver, ThreadSide
      <4>2. return_buffer[t] = Say(1)
        BY <4>1, OneElement
      <4>3. recv_query[t] = asked[c]
        BY <3>2, <3>3 DEF ThreadSide
      <4>4. Proven(recv_query[t])
        BY <2>1, <3>1, <4>2, <4>3 DEF LoginInv
      <4> QED
        BY <2>1, <3>1, <4>3, <4>4 DEF Proven
    <3>4. CASE c # fd[t]
      BY <1>1, <1>2, <2>1, <3>1, <3>4 DEF Deliver
    <3> QED
      BY <3>3, <3>4
  <2> QED
    BY <1>5, <2>2, <2>3, <2>4, ThreadSteps DEF QInv
<1>6. ASSUME NEW d \in Conns, Client(d)
      PROVE  Proven(asked[c])'
  <2>1. CASE d # c
    BY <1>1, <1>2, <1>6, <2>1 DEF Client, Connect, Ask, Hear, Die, clientVars
  <2>2. CASE Ask(c)
    <3>1. Idle(c) /\ outbox' = outbox
      BY <2>2 DEF Ask
    <3>2. outbox[c] = << >>
      BY <3>1 DEF QInv, FlightInv, ClientSide
    <3> QED
      BY <3>1, <3>2, OneElement
  <2>3. CASE Hear(c)
    <3>1. asked'[c] = NoQuery
      BY <1>1, <2>3 DEF Hear
    <3> QED
      BY <3>1 DEF NoQuery, LOGIN
  <2>4. CASE Connect(c)
    BY <1>2, <2>4 DEF Connect, clientVars
  <2>5. CASE Die(c)
    BY <1>1, <2>5, OneElement DEF Die
  <2> QED
    BY <1>6, <2>1, <2>2, <2>3, <2>4, <2>5 DEF Client
<1> QED
  BY <1>3, <1>4, <1>5, <1>6 DEF Next

LEMMA LoginStep ==
  ASSUME QInv, RegisteredInv, DoesWhatIsAsked, LoginInv, [Next]_vars
  PROVE  LoginInv'
<1>1. ASSUME NEW x \in Conns, pc'[x] = pc[x],
             UNCHANGED << recv_query[x], success[x], return_buffer[x] >>
      PROVE  /\ pc'[x] = "login_set" /\ success'[x] => Proven(recv_query[x])'
             /\ pc'[x] = "send" /\ recv_query'[x].action = LOGIN /\ return_buffer'[x] = Say(1) =>
                  Proven(recv_query[x])'
  <2>1. ASSUME NEW q, Proven(q) PROVE Proven(q)'
    BY <2>1, ProvenStays DEF QInv
  <2>2. ASSUME NEW q, q = recv_query[x], Proven(q) PROVE Proven(recv_query[x])'
    <3>1. Proven(q)'
      BY <2>1, <2>2
    <3> QED
      BY <1>1, <2>2, <3>1 DEF Proven
  <2> QED
    BY <1>1, <2>2 DEF LoginInv
<1>2. ASSUME NEW x \in Conns
      PROVE  /\ pc'[x] = "login_set" /\ success'[x] => Proven(recv_query[x])'
             /\ pc'[x] = "send" /\ recv_query'[x].action = LOGIN /\ return_buffer'[x] = Say(1) =>
                  Proven(recv_query[x])'
  <2>1. CASE /\ UNCHANGED << fd, recv_query, success, scan, return_buffer, tables >>
             /\ \A y \in Conns : pc'[y] = pc[y] \/ (pc[y] = "none" /\ pc'[y] = "start")
    BY <1>1, <2>1
  <2>2. ASSUME NEW t \in Conns, ClientThread(t), UNCHANGED clientVars
        PROVE  \/ t = x
               \/ pc'[x] = pc[x] /\ UNCHANGED << recv_query[x], success[x], return_buffer[x] >>
    BY <2>2, ThreadSteps DEF QInv
  <2> QED
    BY <1>1, <2>1, <2>2, OwnLogin, OtherSteps
<1> QED
  BY <1>2, RepliesProve DEF LoginInv

-----------------------------------------------------------------------------
LEMMA InitSInv == Init => SInv
<1> SUFFICES ASSUME Init PROVE SInv
  OBVIOUS
<1>1. RegisteredInv
  BY NetAssumption DEF Init, ServerInit, RegisteredInv, OwnersAreRegistered
<1>2. DoesWhatIsAsked
  BY DEF Init, ServerInit, DoesWhatIsAsked, OpLabel
<1>3. ExitInv
  BY DEF Init, ServerInit, ExitInv
<1>4. LoginInv
  BY OneElement DEF Init, NetInit, ServerInit, LoginInv
<1> QED
  BY <1>1, <1>2, <1>3, <1>4, InitQInv DEF SInv

LEMMA NextSInv == SInv /\ [Next]_vars => SInv'
<1>1. QInv => TypeInv
  BY DEF QInv
<1>2. QInv' => FlightInv'
  BY DEF QInv
<1> QED
  BY <1>1, <1>2, NextQInv, RegisteredStep, DoesStep, ExitStep, LoginStep DEF SInv

\* Once the answer to EXIT is sent, and ever after, no session of its connection is
\* left, although lines 77-83 look at one user at a time.
THEOREM ExitsEndSessions == Spec => []ExitEndsSessions
<1>1. SInv => ExitEndsSessions
  BY DEF SInv, ExitInv, NoSession, ExitEndsSessions
<1> QED
  BY <1>1, InitSInv, NextSInv, PTL DEF Spec

\* Who reads "Login success" has typed the password of the account, although it is
\* compared and the session set in different critical sections (lines 100-121).
THEOREM LoginsProvePasswords == Spec => []LoginProvesPassword
<1>1. SInv => LoginProvesPassword
  BY DEF SInv, LoginInv, Proven, LoginProvesPassword
<1> QED
  BY <1>1, InitSInv, NextSInv, PTL DEF Spec

-----------------------------------------------------------------------------
(***************************************************************************)
(* While no session has been overwritten, what a thread has decided some   *)
(* steps ago still holds when it acts: the session it saw is the one of    *)
(* its connection, and only the thread itself could end it.                *)
(***************************************************************************)
ActInv ==
  \A t \in Conns : success[t] =>
    /\ pc[t] \in {"reserve", "cancel_owner", "cancel", "logout"} =>
         is_user_login[UserQ(t)] = fd[t]
    /\ pc[t] \in {"reserve", "cancel_owner", "cancel"} => DataQ(t) \in Seat
    /\ pc[t] = "cancel" => user_of_seat[DataQ(t)] = UserQ(t)

\* Whom a thread inside an operation acts for, and on which connection.
LEMMA Operating ==
  ASSUME SInv, NEW t \in Conns, pc[t] \in OpLabel
  PROVE  /\ UserQ(t) \in User /\ UserQ(t) # -1
         /\ fd[t] \in Conns /\ fd[t] # NoFd /\ ThreadSide(t) /\ Busy(t)
<1>1. Busy(t) /\ ThreadSide(t)
  BY DEF SInv, QInv, FlightInv, Busy, OpLabel
<1>2. UserQ(t) \in User
  BY DEF SInv, QInv, TypeInv, QueryIsValid, UserQ
<1>3. fd[t] \in Conns /\ fd[t] # NoFd
  BY <1>1, NetAssumption DEF ThreadSide
<1>4. UserQ(t) # -1
  BY <1>2, NetAssumption DEF User
<1> QED
  BY <1>1, <1>2, <1>3, <1>4

\* Two threads inside operations never serve the same connection.
LEMMA OnePerConnection ==
  ASSUME SInv, NEW t \in Conns, NEW x \in Conns, pc[t] \in OpLabel, pc[x] \in OpLabel, fd[x] = fd[t]
  PROVE  x = t
BY Operating DEF ThreadSide

\* Which steps act on the tables, and from where.
LEMMA ActingLabels ==
  ASSUME TypeInv, NEW x \in Conns
  PROVE  /\ LoginSet(x) => pc[x] = "login_set" /\ pc'[x] = "send"
         /\ Logout(x) => pc[x] = "logout" /\ pc'[x] = "send"
         /\ Reserve(x) => pc[x] = "reserve" /\ pc'[x] = "send"
         /\ Cancel(x) => pc[x] = "cancel" /\ pc'[x] = "send"
         /\ ExitClear(x) => pc[x] = "exit"
         /\ \A l \in {"login_set", "logout", "reserve", "cancel", "exit"} : l \in OpLabel
BY DEF TypeInv, ServerTypeOK, LoginSet, Logout, Reserve, Cancel, ExitClear, Finish, Goto, OpLabel,
       Label

\* While a thread has the session of its user, nobody else ends it or touches what the
\* user has, as long as no login overwrites it.
LEMMA OthersLeaveAlone ==
  ASSUME SInv, ActInv, [Next]_vars, ~Overwriting, NEW t \in Conns, pc[t] \in OpLabel \ {"exit"},
         pc'[t] = pc[t], is_user_login[UserQ(t)] = fd[t]
  PROVE  /\ is_user_login'[UserQ(t)] = fd[t]
         /\ \A s \in Seat : user_of_seat[s] = UserQ(t) => user_of_seat'[s] = UserQ(t)
<1>1. /\ is_user_login \in [User -> Conns \cup {NoFd}]
      /\ user_of_seat \in [Seat -> User \cup {-1}]
      /\ pc \in [Conns -> Label] /\ TypeInv
  BY DEF SInv, QInv, TypeInv, ServerTypeOK
<1>2. /\ UserQ(t) \in User /\ fd[t] \in Conns /\ fd[t] # NoFd /\ UserQ(t) # -1
  BY Operating
<1>3. ASSUME NEW x \in Conns, LoginSet(x) \/ Logout(x) \/ Reserve(x) \/ Cancel(x) \/ ExitClear(x)
      PROVE  /\ fd[x] \in Conns /\ UserQ(x) \in User
             /\ ~ExitClear(x) => fd[x] # fd[t]
             /\ pc[x] = "exit" => fd[x] # fd[t]
  <2>1. pc[x] \in OpLabel /\ (~ExitClear(x) => pc'[x] # pc[x])
    BY <1>1, <1>3, ActingLabels
  <2>2. x = t => ExitClear(x) /\ pc[x] # "exit"
    BY <2>1
  <2>3. fd[x] = fd[t] => x = t
    BY <2>1, OnePerConnection
  <2> QED
    BY <2>1, <2>2, <2>3, Operating
<1>4. is_user_login'[UserQ(t)] = fd[t]
  <2>1. is_user_login'[UserQ(t)] \in {NoFd, fd[t]}
    BY <1>2 DEF Overwriting
  <2>2. ASSUME NEW x \in Conns, LoginSet(x)
        PROVE  is_user_login'[UserQ(t)] = fd[t]
    BY <1>1, <1>2, <1>3, <2>1, <2>2, NetAssumption DEF LoginSet
  <2>3. ASSUME NEW x \in Conns, Logout(x)
        PROVE  is_user_login'[UserQ(t)] = fd[t]
    <3>1. pc[x] = "logout" /\ fd[x] # fd[t]
      <4>1. pc[x] = "logout" /\ ~ExitClear(x)
        BY <1>1, <2>3, ActingLabels
      <4> QED
        BY <1>3, <2>3, <4>1
    <3>2. success[x] => is_user_login[UserQ(x)] = fd[x]
      BY <3>1 DEF ActInv
    <3> QED
      BY <1>1, <1>2, <2>3, <3>1, <3>2 DEF Logout
  <2>4. ASSUME NEW x \in Conns, ExitClear(x)
        PROVE  is_user_login'[UserQ(t)] = fd[t]
    <3>1. fd[x] # fd[t]
      BY <1>1, <1>3, <2>4, ActingLabels
    <3> QED
      BY <1>1, <1>2, <2>4, <3>1 DEF ExitClear
  <2> QED
    BY <2>2, <2>3, <2>4, TableSteps
<1>5. \A s \in Seat : user_of_seat[s] = UserQ(t) => user_of_seat'[s] = UserQ(t)
  <2>1. ASSUME NEW x \in Conns, Reserve(x), NEW s \in Seat, user_of_seat[s] = UserQ(t)
        PROVE  user_of_seat'[s] = UserQ(t)
    BY <1>1, <1>2, <2>1 DEF Reserve
  <2>2. ASSUME NEW x \in Conns, Cancel(x), NEW s \in Seat, user_of_seat[s] = UserQ(t)
        PROVE  user_of_seat'[s] = UserQ(t)
    <3>1. pc[x] = "cancel" /\ ~ExitClear(x)
      BY <1>1, <2>2, ActingLabels DEF ExitClear
    <3>2. fd[x] # fd[t]
      BY <1>3, <2>2, <3>1
    <3>3. success[x] => /\ user_of_seat[DataQ(x)] = UserQ(x) /\ DataQ(x) \in Seat
                        /\ is_user_login[UserQ(x)] = fd[x]
      BY <3>1 DEF ActInv
    <3> QED
      BY <1>1, <2>2, <3>2, <3>3 DEF Cancel
  <2> QED
    BY <2>1, <2>2, TableSteps
<1> QED
  BY <1>4, <1>5

\* What a thread brings about itself of ActInv.
LEMMA OwnDecision ==
  ASSUME SInv, ActInv, NEW t \in Conns, ClientThread(t), success'[t]
  PROVE  /\ pc'[t] \in {"reserve", "cancel_owner", "cancel", "logout"} =>
              is_user_login'[UserQ(t)'] = fd'[t]
         /\ pc'[t] \in {"reserve", "cancel_owner", "cancel"} => DataQ(t)' \in Seat
         /\ pc'[t] = "cancel" => user_of_seat'[DataQ(t)'] = UserQ(t)'
<1> DEFINE Claim == /\ pc'[t] \in {"reserve", "cancel_owner", "cancel", "logout"} =>
                         is_user_login'[UserQ(t)'] = fd'[t]
                    /\ pc'[t] \in {"reserve", "cancel_owner", "cancel"} => DataQ(t)' \in Seat
                    /\ pc'[t] = "cancel" => user_of_seat'[DataQ(t)'] = UserQ(t)'
<1> SUFFICES Claim
  OBVIOUS
<1>1. /\ pc \in [Conns -> Label] /\ success \in [Conns -> BOOLEAN]
  BY DEF SInv, QInv, TypeInv, ServerTypeOK
<1>2. success[t] => /\ pc[t] \in {"reserve", "cancel_owner", "cancel", "logout"} =>
                         is_user_login[UserQ(t)] = fd[t]
                    /\ pc[t] \in {"reserve", "cancel_owner", "cancel"} => DataQ(t) \in Seat
  BY DEF ActInv
<1>3. CASE Start(t) \/ Release(t) \/ ReserveHangs(t) \/ Send(t)
  BY <1>1, <1>3 DEF Start, Release, ReserveHangs, Send, Goto
<1>4. CASE Receive(t)
  <2>1. /\ Branch(Head(inbox[fd[t]])) \notin {"login_passwd", "login_set", "reserve",
                                              "cancel_owner", "cancel", "logout"}
    BY DEF Branch
  <2> QED
    BY <1>1, <1>4, <2>1 DEF Receive
<1>5. CASE CheckScan(t) \/ ExitClear(t)
  BY <1>1, <1>5 DEF CheckScan, ExitClear
<1>6. CASE LoginCheck(t) \/ ReserveCheck(t) \/ CancelLogin(t) \/ LogoutCheck(t) \/ CheckLogin(t)
  BY <1>1, <1>6 DEF LoginCheck, ReserveCheck, CancelLogin, LogoutCheck, CheckLogin, Decide, Goto,
                    LoggedIn, UserQ, DataQ, tables
<1>7. CASE CancelOwner(t)
  BY <1>1, <1>2, <1>7 DEF CancelOwner, Decide, Goto, UserQ, DataQ, tables
<1>8. CASE LoginPasswd(t)
  BY <1>1, <1>2, <1>8 DEF LoginPasswd, Goto, UserQ, DataQ
<1>9. CASE LoginSet(t) \/ Reserve(t) \/ Cancel(t) \/ Logout(t) \/ CheckReply(t) \/ ExitReply(t)
  BY <1>1, <1>9 DEF LoginSet, Reserve, Cancel, Logout, CheckReply, ExitReply, Finish, Goto
<1> QED
  BY <1>3, <1>4, <1>5, <1>6, <1>7, <1>8, <1>9 DEF ClientThread

LEMMA ActStep ==
  ASSUME SInv, ActInv, [Next]_vars, ~Overwriting
  PROVE  ActInv'
<1> DEFINE Act(t) == /\ pc[t] \in {"reserve", "cancel_owner", "cancel", "logout"} =>
                          is_user_login[UserQ(t)] = fd[t]
                     /\ pc[t] \in {"reserve", "cancel_owner", "cancel"} => DataQ(t) \in Seat
                     /\ pc[t] = "cancel" => user_of_seat[DataQ(t)] = UserQ(t)
<1>1. ASSUME NEW t \in Conns, pc'[t] = pc[t], success'[t], success'[t] = success[t],
             recv_query'[t] = recv_query[t], Busy(t) => fd'[t] = fd[t]
      PROVE  Act(t)'
  <2> DEFINE acts == pc[t] \in {"reserve", "cancel_owner", "cancel", "logout"}
  <2>1. UserQ(t)' = UserQ(t) /\ DataQ(t)' = DataQ(t)
    BY <1>1 DEF UserQ, DataQ
  <2>2. acts => pc[t] \in OpLabel \ {"exit"} /\ fd'[t] = fd[t]
    BY <1>1 DEF Busy, OpLabel, Label
  <2>3. Act(t)
    BY <1>1 DEF ActInv
  <2>4. acts => /\ is_user_login'[UserQ(t)] = fd[t]
                /\ \A s \in Seat : user_of_seat[s] = UserQ(t) => user_of_seat'[s] = UserQ(t)
    BY <1>1, <2>2, <2>3, OthersLeaveAlone
  <2> QED
    BY <1>1, <2>1, <2>2, <2>3, <2>4
<1>2. ASSUME NEW t \in Conns, success'[t]
      PROVE  Act(t)'
  <2>1. CASE /\ UNCHANGED << fd, recv_query, success, scan, return_buffer, tables >>
             /\ \A x \in Conns : pc'[x] = pc[x] \/ (pc[x] = "none" /\ pc'[x] = "start")
    BY <1>1, <1>2, <2>1
  <2>2. ASSUME NEW x \in Conns, ClientThread(x), UNCHANGED clientVars
        PROVE  \/ x = t
               \/ /\ pc'[t] = pc[t] /\ success'[t] = success[t] /\ fd'[t] = fd[t]
                  /\ recv_query'[t] = recv_query[t]
    BY <2>2, ThreadSteps DEF SInv, QInv
  <2>3. ClientThread(t) => Act(t)'
    BY <1>2, OwnDecision
  <2>4. QInv
    BY DEF SInv
  <2> QED
    BY <1>1, <1>2, <2>1, <2>2, <2>3, <2>4, OtherSteps
<1> QED
  BY <1>2 DEF ActInv

-----------------------------------------------------------------------------
(***************************************************************************)
(* Each step that writes a table is one operation of SeatBooking, unless   *)
(* it overwrites a session.                                                *)
(***************************************************************************)
LEMMA InitBooking == Init => Booking!BookingInit
BY DEF Init, ServerInit, Booking!BookingInit

LEMMA BookingStep ==
  ASSUME SInv, ActInv, [Next]_vars, ~Overwriting
  PROVE  [Booking!BookingNext]_(Booking!bookingVars)
<1>1. /\ is_user_login \in [User -> Conns \cup {NoFd}]
      /\ user_of_seat \in [Seat -> User \cup {-1}]
      /\ passwd_of_user \in [User -> Int]
      /\ recv_query \in [Conns -> Query] /\ pc \in [Conns -> Label]
  BY DEF SInv, QInv, TypeInv, ServerTypeOK
<1>2. CASE UNCHANGED tables
  BY <1>2 DEF tables, Booking!bookingVars
<1>3. ASSUME NEW t \in Conns, pc[t] \in OpLabel \ {"exit"}
      PROVE  UserQ(t) \in User /\ fd[t] \in Conns /\ fd[t] # NoFd /\ UserQ(t) # -1
  BY <1>3, Operating
<1>4. ASSUME NEW t \in Conns, LoginPasswd(t), passwd_of_user' # passwd_of_user
      PROVE  Booking!Register(UserQ(t))
  <2>1. pc[t] = "login_passwd" /\ success[t] /\ passwd_of_user[UserQ(t)] = -1
    BY <1>4 DEF LoginPasswd, Goto
  <2>2. UserQ(t) \in User /\ DataQ(t) \in Int
    BY <1>1, <1>3, <2>1 DEF OpLabel, Label, DataQ, Query
  <2>3. DataQ(t) >= 0
    BY <2>1 DEF SInv, RegisteredInv
  <2>4. passwd_of_user' = [passwd_of_user EXCEPT ![UserQ(t)] = DataQ(t)]
    BY <1>4, <2>1 DEF LoginPasswd
  <2>5. passwd_of_user'[UserQ(t)] = DataQ(t)
    BY <1>1, <2>2, <2>4
  <2>6. UNCHANGED << is_user_login, user_of_seat >>
    BY <1>4 DEF LoginPasswd
  <2>7. passwd_of_user'[UserQ(t)] \in Nat
    BY <2>2, <2>3, <2>5
  <2>8. passwd_of_user' = [passwd_of_user EXCEPT ![UserQ(t)] = passwd_of_user'[UserQ(t)]]
    BY <2>4, <2>5
  <2> QED
    BY <2>1, <2>6, <2>7, <2>8 DEF Booking!Register
<1>5. ASSUME NEW t \in Conns, LoginSet(t), is_user_login' # is_user_login
      PROVE  Booking!OpenSession(UserQ(t), fd[t])
  <2>1. pc[t] = "login_set" /\ success[t]
    BY <1>5 DEF LoginSet, Finish, Goto
  <2>2. passwd_of_user[UserQ(t)] # -1
    BY <2>1 DEF SInv, RegisteredInv, Registered
  <2>3. UserQ(t) \in User /\ fd[t] # NoFd /\ is_user_login'[UserQ(t)] = fd[t]
    BY <1>1, <1>3, <1>5, <2>1 DEF LoginSet, OpLabel, Label
  <2>4. is_user_login[UserQ(t)] = NoFd
    BY <1>1, <1>5, <2>1, <2>3 DEF Overwriting, LoginSet
  <2> QED
    BY <1>5, <2>1, <2>2, <2>4 DEF LoginSet, Finish, Booking!OpenSession
<1>6. ASSUME NEW t \in Conns, Logout(t), is_user_login' # is_user_login
      PROVE  Booking!CloseSession(UserQ(t)) /\ pc[t] \in OpLabel \ {"exit"}
  <2>1. pc[t] = "logout" /\ success[t]
    BY <1>6 DEF Logout, Finish, Goto
  <2>2. is_user_login[UserQ(t)] # NoFd
    BY <1>3, <2>1 DEF ActInv, OpLabel, Label
  <2> QED
    BY <1>6, <2>1, <2>2 DEF Logout, Finish, Booking!CloseSession, OpLabel, Label
<1>7. ASSUME NEW t \in Conns, ExitClear(t), is_user_login' # is_user_login
      PROVE  scan[t] \in User /\ Booking!CloseSession(scan[t])
  <2>1. scan[t] \in User /\ is_user_login[scan[t]] = fd[t] /\ pc[t] = "exit"
    BY <1>7 DEF ExitClear
  <2>2. fd[t] # NoFd
    BY <2>1, NetAssumption DEF SInv, QInv, FlightInv, ThreadSide, Busy
  <2> QED
    BY <1>7, <2>1, <2>2 DEF ExitClear, Booking!CloseSession
<1>8. ASSUME NEW t \in Conns, Reserve(t), user_of_seat' # user_of_seat
      PROVE  \E s \in Seat : Booking!TakeSeat(UserQ(t), s)
  <2>1. /\ pc[t] = "reserve" /\ success[t] /\ user_of_seat[DataQ(t)] \in {-1, UserQ(t)}
        /\ user_of_seat' = [user_of_seat EXCEPT ![DataQ(t)] = UserQ(t)]
    BY <1>8 DEF Reserve, Finish, Goto
  <2>2. DataQ(t) \in Seat /\ is_user_login[UserQ(t)] # NoFd
    BY <1>3, <2>1 DEF ActInv, OpLabel, Label
  <2>3. user_of_seat[DataQ(t)] = -1
    BY <1>1, <1>8, <2>1, <2>2
  <2> QED
    BY <1>8, <2>1, <2>2, <2>3 DEF Reserve, Finish, Booking!TakeSeat
<1>9. ASSUME NEW t \in Conns, Cancel(t), user_of_seat' # user_of_seat
      PROVE  \E s \in Seat : Booking!GiveUpSeat(UserQ(t), s)
  <2>1. /\ pc[t] = "cancel" /\ success[t]
        /\ user_of_seat' = [user_of_seat EXCEPT ![DataQ(t)] = -1]
    BY <1>9 DEF Cancel, Finish, Goto
  <2>2. /\ DataQ(t) \in Seat /\ is_user_login[UserQ(t)] # NoFd
        /\ user_of_seat[DataQ(t)] = UserQ(t)
    BY <1>3, <2>1 DEF ActInv, OpLabel, Label
  <2> QED
    BY <1>9, <2>1, <2>2 DEF Cancel, Finish, Booking!GiveUpSeat
<1>10. ASSUME NEW t \in Conns,
              LoginPasswd(t) \/ LoginSet(t) \/ Logout(t) \/ Reserve(t) \/ Cancel(t)
       PROVE  UserQ(t) \in User /\ fd[t] \in Conns
  BY <1>3, <1>10 DEF LoginPasswd, LoginSet, Logout, Reserve, Cancel, Finish, Goto, OpLabel, Label
<1>11. CASE passwd_of_user' # passwd_of_user
  BY <1>4, <1>10, <1>11, TableSteps DEF Booking!BookingNext
<1>12. CASE is_user_login' # is_user_login
  BY <1>5, <1>6, <1>7, <1>10, <1>12, TableSteps DEF Booking!BookingNext
<1>13. CASE user_of_seat' # user_of_seat
  BY <1>8, <1>9, <1>10, <1>13, TableSteps DEF Booking!BookingNext
<1> QED
  BY <1>2, <1>11, <1>12, <1>13 DEF tables

LEMMA InitActInv == Init => ActInv
BY DEF Init, ServerInit, ActInv

\* Unless a login has overwritten a session, the operations, taken apart into critical
\* sections and unlocked reads, behave as if each were one step, whoever shares accounts.
THEOREM SharedIsBooking == RaceSpec => AtomicUntilOverwritten
<1> DEFINE I == SInv /\ (overwritten \/ ActInv)
<1>1. RaceInit => I
  BY InitSInv, InitActInv DEF RaceInit
<1>2. I /\ [RaceNext]_raceVars =>
        I' /\ [Booking!BookingNext \/ overwritten']_(Booking!bookingVars)
  <2> SUFFICES ASSUME I, [RaceNext]_raceVars
               PROVE  I' /\ [Booking!BookingNext \/ overwritten']_(Booking!bookingVars)
    OBVIOUS
  <2>1. [Next]_vars /\ (overwritten' \/ (~overwritten /\ ~Overwriting) \/ UNCHANGED raceVars)
    BY DEF RaceNext, raceVars
  <2>2. SInv'
    BY <2>1, NextSInv
  <2>3. CASE overwritten'
    BY <2>2, <2>3
  <2>4. CASE ~overwritten /\ ~Overwriting
    BY <2>1, <2>2, <2>4, ActStep, BookingStep
  <2>5. CASE UNCHANGED raceVars
    <3>1. UNCHANGED Booking!bookingVars /\ overwritten' = overwritten
      BY <2>5 DEF raceVars, vars, serverVars, tables, Booking!bookingVars
    <3>2. ActInv => ActInv'
      BY <2>5 DEF raceVars, vars, serverVars, tables, frame, ActInv, UserQ, DataQ
    <3> QED
      BY <2>2, <3>1, <3>2
  <2> QED
    BY <2>1, <2>3, <2>4, <2>5
<1> QED
  BY <1>1, <1>2, PTL DEF RaceSpec, AtomicUntilOverwritten

-----------------------------------------------------------------------------
(***************************************************************************)
(* When every account has one terminal nothing is ever overwritten: a      *)
(* thread that found no session is the only one that could open it.        *)
(***************************************************************************)
AskedInv == \A c \in Conns : ~Idle(c) => asked[c] \in QueriesOf[c]

FreshInv ==
  \A t \in Conns :
    success[t] /\ pc[t] \in {"login_passwd", "login_set"} => is_user_login[UserQ(t)] = NoFd

AccountInv == SInv /\ AskedInv /\ ActInv /\ FreshInv /\ PrivateUsers

LEMMA AskedStep ==
  ASSUME QInv, AskedInv, [Next]_vars
  PROVE  AskedInv'
<1>1. CASE asked' = asked
  BY <1>1 DEF AskedInv, Idle
<1>2. ASSUME NEW c \in Conns, Ask(c) \/ Hear(c)
      PROVE  AskedInv'
  <2>1. PICK q \in QueriesOf[c] \cup {NoQuery} : asked' = [asked EXCEPT ![c] = q]
    BY <1>2 DEF Ask, Hear
  <2> QED
    BY <2>1 DEF AskedInv, Idle, QInv, TypeInv, ClientTypeOK
<1>3. ASSUME NEW c \in Conns, Connect(c) \/ Die(c)
      PROVE  asked' = asked
  BY <1>3 DEF Connect, Die, clientVars
<1> QED
  BY <1>1, <1>2, <1>3 DEF Next, Client, vars, clientVars

\* A thread inside an operation other than EXIT acts for a user of its connection.
LEMMA OwnAccount ==
  ASSUME QInv, DoesWhatIsAsked, AskedInv, NEW t \in Conns, pc[t] \in OpLabel \ {"exit"}
  PROVE  /\ UserQ(t) \in User /\ UserQ(t) \in UsersOf(fd[t])
         /\ fd[t] \in Conns /\ fd[t] # NoFd /\ UserQ(t) # -1
<1>1. ThreadSide(t)
  BY DEF QInv, FlightInv, Busy, OpLabel
<1>2. recv_query[t].action # EXIT
  BY DEF DoesWhatIsAsked
<1>3. recv_query[t] \in QueriesOf[fd[t]]
  BY <1>1 DEF AskedInv, ThreadSide
<1>4. UserQ(t) \in User
  BY DEF QInv, TypeInv, QueryIsValid, UserQ
<1>5. recv_query[t].user \in {q.user : q \in {p \in QueriesOf[fd[t]] : p.action # EXIT}}
  BY <1>2, <1>3
<1>6. fd[t] \in Conns /\ fd[t] # NoFd
  BY <1>1, NetAssumption DEF ThreadSide
<1>7. UserQ(t) # -1
  BY <1>4, NetAssumption DEF User
<1> QED
  BY <1>4, <1>5, <1>6, <1>7 DEF UsersOf, UserQ

LEMMA OneActs ==
  ASSUME AccountInv, NEW t \in Conns, NEW x \in Conns, pc[t] \in OpLabel \ {"exit"},
         pc[x] \in OpLabel \ {"exit"}, UserQ(x) = UserQ(t)
  PROVE  x = t
<1>1. fd[x] = fd[t]
  BY OwnAccount DEF AccountInv, SInv, PrivateUsers
<1> QED
  BY <1>1, OnePerConnection DEF AccountInv

LEMMA NothingOverwritten ==
  ASSUME AccountInv, [Next]_vars
  PROVE  ~Overwriting
<1>1. ASSUME NEW t \in Conns, LoginSet(t), NEW u \in User, is_user_login[u] # NoFd
      PROVE  is_user_login'[u] = is_user_login[u]
  <2>1. pc[t] = "login_set" /\ is_user_login \in [User -> Conns \cup {NoFd}]
    BY <1>1, ActingLabels DEF AccountInv, SInv, QInv, TypeInv, ServerTypeOK
  <2>2. success[t] => is_user_login[UserQ(t)] = NoFd
    BY <2>1 DEF AccountInv, FreshInv
  <2> QED
    BY <1>1, <2>1, <2>2 DEF LoginSet
<1>2. ASSUME NEW t \in Conns, Logout(t) \/ ExitClear(t), NEW u \in User
      PROVE  is_user_login'[u] \in {NoFd, is_user_login[u]}
  BY <1>2 DEF Logout, ExitClear, AccountInv, SInv, QInv, TypeInv, ServerTypeOK
<1> QED
  BY <1>1, <1>2, TableSteps DEF Overwriting

LEMMA FreshStep ==
  ASSUME AccountInv, [Next]_vars
  PROVE  FreshInv'
<1> DEFINE L == {"login_passwd", "login_set"}
<1> SUFFICES ASSUME NEW t \in Conns, success'[t], pc'[t] \in L
             PROVE  is_user_login'[UserQ(t)'] = NoFd
  BY DEF FreshInv
<1>1. /\ is_user_login \in [User -> Conns \cup {NoFd}] /\ TypeInv
      /\ pc \in [Conns -> Label] /\ success \in [Conns -> BOOLEAN]
  BY DEF AccountInv, SInv, QInv, TypeInv, ServerTypeOK
<1>2. CASE pc'[t] = pc[t] /\ success'[t] = success[t] /\ recv_query'[t] = recv_query[t]
  <2>1. UserQ(t)' = UserQ(t) /\ is_user_login[UserQ(t)] = NoFd
    BY <1>2 DEF AccountInv, FreshInv, UserQ
  <2>2. pc[t] \in OpLabel \ {"exit"}
    BY <1>2 DEF OpLabel, Label
  <2>3. UserQ(t) \in User
    BY <2>2, Operating DEF AccountInv
  <2>4. ASSUME NEW x \in Conns, LoginSet(x)
        PROVE  is_user_login'[UserQ(t)] = NoFd
    <3>1. pc[x] = "login_set" /\ pc'[x] = "send"
      BY <1>1, <2>4, ActingLabels
    <3>2. pc[x] \in OpLabel \ {"exit"} /\ x # t
      BY <1>2, <3>1 DEF OpLabel, Label
    <3>3. UserQ(x) # UserQ(t)
      BY <2>2, <3>2, OneActs
    <3> QED
      BY <1>1, <2>1, <2>3, <2>4, <3>3 DEF LoginSet
  <2>5. ASSUME NEW x \in Conns, Logout(x) \/ ExitClear(x)
        PROVE  is_user_login'[UserQ(t)] = NoFd
    BY <1>1, <2>1, <2>3, <2>5 DEF Logout, ExitClear
  <2> QED
    BY <2>1, <2>4, <2>5, TableSteps
<1>3. CASE LoginCheck(t)
  BY <1>1, <1>3 DEF LoginCheck, Decide, UserQ, tables
<1>4. CASE LoginPasswd(t)
  <2>1. pc[t] = "login_passwd" /\ success[t]
    BY <1>1, <1>4 DEF LoginPasswd, Goto
  <2> QED
    BY <1>4, <2>1 DEF LoginPasswd, UserQ, AccountInv, FreshInv
<1>5. CASE ReserveCheck(t) \/ CancelLogin(t) \/ CancelOwner(t)
  BY <1>1, <1>5 DEF ReserveCheck, CancelLogin, CancelOwner, Decide, Goto
<1> QED
  BY <1>1, <1>2, <1>3, <1>4, <1>5, DecisionSteps

LEMMA NextAccountInv == AccountInv /\ [Next]_vars => AccountInv'
<1> SUFFICES ASSUME AccountInv, [Next]_vars PROVE AccountInv'
  OBVIOUS
<1>1. SInv' /\ FreshInv' /\ ActInv'
  BY FreshStep, NothingOverwritten, ActStep, NextSInv DEF AccountInv
<1>2. AskedInv' /\ PrivateUsers'
  BY AskedStep DEF AccountInv, SInv, PrivateUsers, UsersOf
<1> QED
  BY <1>1, <1>2 DEF AccountInv

LEMMA InitAccountInv == PrivateUsers /\ Init => AccountInv
<1>1. Init => AskedInv /\ FreshInv
  BY DEF Init, ClientInit, ServerInit, AskedInv, FreshInv, Idle
<1> QED
  BY <1>1, InitSInv, InitActInv DEF AccountInv

\* With one terminal for each account, the server's operations, taken apart into
\* critical sections and unlocked reads, behave as if each were one step.
THEOREM ServerIsBooking == PrivateUsers /\ Spec => ImplementsBooking
<1>1. Init => Booking!BookingInit
  BY InitBooking
<1>2. AccountInv /\ [Next]_vars => [Booking!BookingNext]_(Booking!bookingVars)
  BY BookingStep, NothingOverwritten DEF AccountInv
<1> QED
  BY <1>1, <1>2, InitAccountInv, NextAccountInv, PTL
  DEF Spec, ImplementsBooking, Booking!BookingSpec

-----------------------------------------------------------------------------
(***************************************************************************)
(* What a client has printed, followed through the reply that is to come.  *)
(***************************************************************************)
\* The seats of u, by what the table says.
SeatsOf(u, owner) == {s \in Seat : owner[s] = u}

Holdings(c) == {r \in UsersOf(c) \X (Seat \ {0}) : user_of_seat[r[2]] = r[1]}

\* What c will have been told once it has read r.
Learned(c, r) ==
  IF PrintsSeat(r)
  THEN IF asked[c].action = RESERVE THEN told[c] \cup {<< asked[c].user, r.code >>}
       ELSE IF asked[c].action = CANCEL_RSV THEN told[c] \ {<< asked[c].user, r.code >>}
       ELSE told[c]
  ELSE told[c]

Replying(c) == \E t \in Conns : pc[t] = "send" /\ fd[t] = c

Informed(c) ==
  /\ outbox[c] # << >> => Learned(c, Head(outbox[c])) = Holdings(c)
  /\ \A t \in Conns : pc[t] = "send" /\ fd[t] = c => Learned(c, return_buffer[t]) = Holdings(c)
  /\ outbox[c] = << >> /\ ~Replying(c) => told[c] = Holdings(c)

ToldInv == \A c \in Conns : sock[c] # "closed" => Informed(c)

\* Nobody's seats change but those of the user whose thread takes the step.
LEMMA HoldingsStay ==
  ASSUME AccountInv, NEW t \in Conns, ClientThread(t), [Next]_vars, NEW c \in Conns,
         c # fd[t] \/ ~(Reserve(t) \/ Cancel(t))
  PROVE  /\ Holdings(c)' = Holdings(c)
         /\ \A u \in UsersOf(c) : SeatsOf(u, user_of_seat') = SeatsOf(u, user_of_seat)
<1> DEFINE Same == /\ Holdings(c)' = Holdings(c)
                   /\ \A u \in UsersOf(c) :
                        SeatsOf(u, user_of_seat') = SeatsOf(u, user_of_seat)
<1> SUFFICES Same
  OBVIOUS
<1>1. /\ user_of_seat \in [Seat -> User \cup {-1}] /\ pc \in [Conns -> Label]
  BY DEF AccountInv, SInv, QInv, TypeInv, ServerTypeOK
<1>2. CASE user_of_seat' = user_of_seat
  BY <1>2 DEF Holdings, UsersOf, SeatsOf
<1>3. ASSUME Reserve(t) \/ Cancel(t), fd[t] # c
      PROVE  Same
  <2>1. pc[t] \in {"reserve", "cancel"}
    BY <1>3 DEF Reserve, Cancel, Finish, Goto
  <2>2. UserQ(t) \notin UsersOf(c) /\ -1 \notin UsersOf(c)
    <3>1. UserQ(t) \in UsersOf(fd[t]) /\ fd[t] \in Conns
      BY <2>1, OwnAccount DEF AccountInv, SInv, OpLabel, Label
    <3>2. UsersOf(c) \cap UsersOf(fd[t]) = {}
      BY <1>3, <3>1 DEF AccountInv, PrivateUsers
    <3> QED
      BY <3>1, <3>2, NetAssumption DEF UsersOf, User
  <2>3. success[t] => DataQ(t) \in Seat /\ (pc[t] = "cancel" => user_of_seat[DataQ(t)] = UserQ(t))
    BY <2>1 DEF AccountInv, ActInv
  <2>4. ASSUME NEW s \in Seat, user_of_seat'[s] # user_of_seat[s]
        PROVE  user_of_seat[s] \in {-1, UserQ(t)} /\ user_of_seat'[s] \in {-1, UserQ(t)}
    <3>1. CASE Reserve(t)
      BY <1>1, <2>3, <2>4, <3>1 DEF Reserve
    <3>2. CASE Cancel(t)
      <4>1. pc[t] = "cancel"
        BY <3>2 DEF Cancel, Finish, Goto
      <4> QED
        BY <1>1, <2>3, <2>4, <3>2, <4>1 DEF Cancel
    <3> QED
      BY <1>3, <3>1, <3>2
  <2>5. \A u \in UsersOf(c), s \in Seat : user_of_seat'[s] = u <=> user_of_seat[s] = u
    BY <2>2, <2>4
  <2> QED
    BY <2>5 DEF Holdings, UsersOf, SeatsOf
<1>4. (\E x \in Conns : Reserve(x) \/ Cancel(x)) => Reserve(t) \/ Cancel(t)
  <2> SUFFICES ASSUME NEW x \in Conns, Reserve(x) \/ Cancel(x)
               PROVE  Reserve(t) \/ Cancel(t)
    OBVIOUS
  <2>1. pc[x] # pc'[x]
    BY <1>1 DEF Reserve, Cancel, Finish, Goto
  <2>2. x = t
    BY <2>1, ThreadSteps DEF AccountInv, SInv, QInv
  <2> QED
    BY <2>2
<1> QED
  BY <1>2, <1>3, <1>4, TableSteps

\* The step that acts and composes the reply changes the seats as the reply says.
LEMMA RepliesTell ==
  ASSUME AccountInv, NEW t \in Conns, UNCHANGED clientVars, [Next]_vars, ClientThread(t),
         LoginSet(t) \/ Reserve(t) \/ Cancel(t) \/ Logout(t) \/ CheckReply(t) \/ ExitReply(t),
         told[fd[t]] = Holdings(fd[t])
  PROVE  \A c : c = fd[t] => Learned(c, return_buffer[t])' = Holdings(c)'
<1> SUFFICES ASSUME NEW c, c = fd[t]
             PROVE  Learned(c, return_buffer[t])' = Holdings(c)'
  OBVIOUS
<1>1. /\ user_of_seat \in [Seat -> User \cup {-1}] /\ pc \in [Conns -> Label]
      /\ return_buffer \in [Conns -> Reply]
  BY DEF AccountInv, SInv, QInv, TypeInv, ServerTypeOK
<1>2. ThreadSide(t) /\ pc[t] \in OpLabel
  BY <1>1 DEF AccountInv, SInv, QInv, FlightInv, Busy, OpLabel, Label, LoginSet, Reserve, Cancel,
              Logout, CheckReply, ExitReply, Finish, Goto
<1>3. /\ c \in Conns /\ asked' = asked /\ told' = told /\ recv_query[t] = asked[c]
      /\ told[c] = Holdings(c)
  BY <1>2 DEF ThreadSide, clientVars
<1>4. CASE LoginSet(t) \/ Logout(t) \/ CheckReply(t) \/ ExitReply(t)
  <2>1. pc[t] \in OpLabel \ {"reserve", "cancel", "reserve_check", "cancel_login", "cancel_owner"}
    BY <1>2, <1>4 DEF LoginSet, Logout, CheckReply, ExitReply, Finish, Goto
  <2>2. asked[c].action \notin {RESERVE, CANCEL_RSV}
    BY <1>3, <2>1 DEF AccountInv, SInv, DoesWhatIsAsked, ReserveLabels, CancelLabels
  <2>3. user_of_seat' = user_of_seat
    BY <1>4 DEF LoginSet, Logout, CheckReply, ExitReply, Finish
  <2>4. Holdings(c)' = Holdings(c)
    BY <2>3 DEF Holdings, UsersOf
  <2> QED
    BY <1>3, <2>2, <2>4 DEF Learned
<1>5. ASSUME Reserve(t) \/ Cancel(t)
      PROVE  Learned(c, return_buffer[t])' = Holdings(c)'
  <2> DEFINE u == UserQ(t)
             d == DataQ(t)
  <2>1. pc[t] \in {"reserve", "cancel"} /\ (pc[t] = "reserve" <=> Reserve(t))
    BY <1>5 DEF Reserve, Cancel, Finish, Goto
  <2>2. u \in UsersOf(c) /\ u = asked[c].user /\ -1 \notin UsersOf(c)
    BY <1>3, <2>1, OwnAccount, NetAssumption DEF AccountInv, SInv, OpLabel, Label, UserQ, UsersOf, User
  <2>3. /\ pc[t] = "reserve" => asked[c].action = RESERVE
        /\ pc[t] = "cancel" => asked[c].action = CANCEL_RSV
    BY <1>2, <1>3 DEF AccountInv, SInv, DoesWhatIsAsked, ReserveLabels, CancelLabels
  <2>4. success[t] => d \in Seat /\ d \in Nat /\ (pc[t] = "cancel" => user_of_seat[d] = u)
    BY <2>1, NetAssumption DEF AccountInv, ActInv, Seat
  <2> HIDE DEF u, d
  <2>5. CASE return_buffer'[t] = Say(-1) /\ user_of_seat' = user_of_seat
    <3>1. ~PrintsSeat(return_buffer'[t])
      BY <2>5 DEF PrintsSeat, Say
    <3> QED
      BY <1>3, <2>5, <3>1 DEF Learned, Holdings, UsersOf
  <2>6. CASE /\ pc[t] = "reserve" /\ return_buffer'[t] = Say(d) /\ success[t]
             /\ user_of_seat[d] \in {-1, u} /\ user_of_seat' = [user_of_seat EXCEPT ![d] = u]
    <3>1. Holdings(c)' = IF d > 0 THEN Holdings(c) \cup {<< u, d >>} ELSE Holdings(c)
      BY <1>1, <2>2, <2>4, <2>6 DEF Holdings, UsersOf
    <3>2. return_buffer'[t].code = d
      BY <2>6 DEF Say
    <3> QED
      BY <1>3, <2>2, <2>3, <2>6, <3>1, <3>2 DEF Learned, PrintsSeat
  <2>7. CASE /\ pc[t] = "cancel" /\ return_buffer'[t] = Say(d) /\ success[t]
             /\ user_of_seat' = [user_of_seat EXCEPT ![d] = -1]
    <3>1. Holdings(c)' = IF d > 0 THEN Holdings(c) \ {<< u, d >>} ELSE Holdings(c)
      BY <1>1, <2>2, <2>4, <2>7 DEF Holdings, UsersOf
    <3>2. return_buffer'[t].code = d
      BY <2>7 DEF Say
    <3>3. RESERVE # CANCEL_RSV
      BY DEF RESERVE, CANCEL_RSV
    <3> QED
      BY <1>3, <2>2, <2>3, <2>7, <3>1, <3>2, <3>3 DEF Learned, PrintsSeat
  <2>8. CASE Reserve(t)
    BY <1>1, <2>1, <2>5, <2>6, <2>8 DEF Reserve, Finish, u, d
  <2>9. CASE Cancel(t)
    BY <1>1, <2>1, <2>5, <2>7, <2>9 DEF Cancel, Finish, Goto, u, d
  <2> QED
    BY <1>5, <2>8, <2>9
<1> QED
  BY <1>4, <1>5

\* A step that neither answers, asks nor hears keeps everyone informed.
LEMMA SameInformed ==
  ASSUME NEW c \in Conns, Informed(c), outbox'[c] = outbox[c], told'[c] = told[c],
         asked'[c] = asked[c], Holdings(c)' = Holdings(c),
         \A x \in Conns : pc[x] = "send" /\ fd[x] = c =>
           pc'[x] = "send" /\ fd'[x] = c,
         \A x \in Conns : pc'[x] = "send" /\ fd'[x] = c =>
           pc[x] = "send" /\ fd[x] = c /\ return_buffer'[x] = return_buffer[x]
  PROVE  Informed(c)'
<1>1. /\ outbox[c] # << >> => Learned(c, Head(outbox[c])) = Holdings(c)
      /\ \A t \in Conns : pc[t] = "send" /\ fd[t] = c => Learned(c, return_buffer[t]) = Holdings(c)
      /\ outbox[c] = << >> /\ ~Replying(c) => told[c] = Holdings(c)
  BY DEF Informed
<1>2. \A r : Learned(c, r)' = Learned(c, r)
  BY DEF Learned
<1>3. Replying(c)' <=> Replying(c)
  BY DEF Replying
<1>4. outbox'[c] # << >> => Learned(c, Head(outbox[c]))' = Holdings(c)'
  BY <1>1 DEF Learned
<1>5. ASSUME NEW t \in Conns, pc'[t] = "send", fd'[t] = c
      PROVE  Learned(c, return_buffer[t])' = Holdings(c)'
  <2>1. Learned(c, return_buffer[t]) = Holdings(c) /\ return_buffer'[t] = return_buffer[t]
    BY <1>1, <1>5
  <2> QED
    BY <2>1 DEF Learned
<1>6. outbox'[c] = << >> /\ ~Replying(c)' => told'[c] = Holdings(c)'
  BY <1>1, <1>3
<1> QED
  BY <1>4, <1>5, <1>6 DEF Informed

\* Which steps leave or come to "send".
LEMMA RightLabels ==
  ASSUME TypeInv, NEW t \in Conns, ClientThread(t)
  PROVE  /\ Quiet(t) /\ pc'[t] = "send" =>
              LoginSet(t) \/ Reserve(t) \/ Cancel(t) \/ Logout(t) \/ CheckReply(t) \/ ExitReply(t)
         /\ Reserve(t) \/ Cancel(t) => pc'[t] = "send" /\ pc[t] # "send" /\ pc[t] # "recv"
         /\ Quiet(t) => pc[t] # "send"
         /\ Receive(t) => pc[t] = "recv"
         /\ Send(t) => pc[t] = "send"
<1>1. pc \in [Conns -> Label]
  BY DEF TypeInv, ServerTypeOK
<1>2. Reserve(t) \/ Cancel(t) => pc'[t] = "send" /\ pc[t] # "send" /\ pc[t] # "recv"
  BY <1>1 DEF Reserve, Cancel, Finish, Goto
<1>3. (Receive(t) => pc[t] = "recv") /\ (Send(t) => pc[t] = "send")
  BY DEF Receive, Send, Goto
<1>4. Quiet(t) => pc[t] # "send"
  <2>1. pc[t] = "send" => Send(t)
    BY DEF ClientThread, Start, Receive, Release, LoginCheck, LoginPasswd, LoginSet, ReserveCheck,
           Reserve, ReserveHangs, CheckLogin, CheckScan, CheckReply, CancelLogin, CancelOwner,
           Cancel, LogoutCheck, Logout, ExitClear, ExitReply, Decide, Finish, Goto
  <2>2. Send(t) /\ pc[t] = "send" => Busy(t) /\ ~Busy(t)'
    BY <1>1 DEF Send, Goto, Busy
  <2> QED
    BY <2>1, <2>2 DEF Quiet
<1>5. ASSUME Quiet(t), pc'[t] = "send"
      PROVE  LoginSet(t) \/ Reserve(t) \/ Cancel(t) \/ Logout(t) \/ CheckReply(t) \/ ExitReply(t)
  <2>1. Busy(t) /\ pc[t] # "send"
    BY <1>4, <1>5 DEF Quiet, Busy
  <2>2. CASE Start(t) \/ Receive(t) \/ Release(t) \/ Send(t)
    BY <1>1, <2>1, <2>2 DEF Start, Receive, Release, Send, Goto, Busy
  <2>3. CASE LoginCheck(t) \/ ReserveCheck(t) \/ CheckLogin(t) \/ CancelLogin(t)
             \/ CancelOwner(t) \/ LogoutCheck(t)
    BY <1>1, <1>5, <2>3 DEF LoginCheck, ReserveCheck, CheckLogin, CancelLogin, CancelOwner,
                            LogoutCheck, Decide, Goto
  <2>4. CASE LoginPasswd(t) \/ ReserveHangs(t)
    BY <1>1, <1>5, <2>4 DEF LoginPasswd, ReserveHangs, Goto
  <2>5. CASE CheckScan(t) \/ ExitClear(t)
    BY <1>5, <2>1, <2>5 DEF CheckScan, ExitClear
  <2> QED
    BY <2>2, <2>3, <2>4, <2>5 DEF ClientThread
<1> QED
  BY <1>2, <1>3, <1>4, <1>5

LEMMA ThreadTold ==
  ASSUME AccountInv, ToldInv, [Next]_vars, NEW t \in Conns, ClientThread(t), UNCHANGED clientVars,
         NEW c \in Conns, sock[c] # "closed"
  PROVE  Informed(c)'
<1>1. /\ pc \in [Conns -> Label] /\ outbox \in [Conns -> Seq(Reply)] /\ QInv /\ TypeInv /\ FlightInv
  BY DEF AccountInv, SInv, QInv, TypeInv, ServerTypeOK, NetTypeOK
<1>2. /\ asked' = asked /\ told' = told
      /\ \A x \in Conns \ {t} : /\ pc'[x] = pc[x] /\ fd'[x] = fd[x]
                                /\ return_buffer'[x] = return_buffer[x]
  BY <1>1, ThreadSteps DEF clientVars
<1>3. Informed(c)
  BY DEF ToldInv
<1>4. \A x \in Conns : pc[x] = "send" => ThreadSide(x)
  BY <1>1 DEF FlightInv, Busy
<1>5. CASE c # fd[t] /\ (Receive(t) \/ Send(t))
  <2>1. /\ outbox' = outbox \/ Deliver(fd[t], Say(-1)) \/ Deliver(fd[t], return_buffer[t])
        /\ fd' = fd
    BY <1>5 DEF Receive, Send
  <2>2. outbox'[c] = outbox[c]
    BY <1>1, <1>5, <2>1 DEF Deliver
  <2>3. Holdings(c)' = Holdings(c)
    BY <1>5, HoldingsStay
  <2> QED
    BY <1>2, <1>3, <1>5, <2>1, <2>2, <2>3, SameInformed
<1>6. CASE c # fd[t] /\ Quiet(t)
  <2>1. outbox' = outbox /\ Holdings(c)' = Holdings(c)
    BY <1>6, HoldingsStay DEF Quiet
  <2>2. pc'[t] = "send" => fd'[t] = fd[t]
    BY <1>6 DEF Quiet, Busy
  <2> QED
    BY <1>2, <1>3, <1>6, <2>1, <2>2, SameInformed
<1>7. CASE c = fd[t] /\ Receive(t)
  <2>1. /\ fd' = fd /\ outbox[c] = << >> /\ ~Idle(c) /\ ~Working(c) /\ pc[t] = "recv"
        /\ \/ pc' = [pc EXCEPT ![t] = Branch(asked[c])] /\ outbox' = outbox
              /\ recv_query' = [recv_query EXCEPT ![t] = asked[c]]
           \/ Deliver(c, Say(-1)) /\ pc' = pc
    BY <1>1, <1>7, Received
  <2>2. \A x \in Conns : pc[x] = "send" => fd[x] # c
    BY <2>1 DEF Working, Busy
  <2>3. told[c] = Holdings(c) /\ Holdings(c)' = Holdings(c)
    <3>1. ~(Reserve(t) \/ Cancel(t))
      BY <1>1, <2>1, RightLabels
    <3>2. Holdings(c)' = Holdings(c)
      BY <3>1, HoldingsStay
    <3> QED
      BY <1>3, <2>1, <2>2, <3>2 DEF Informed, Replying
  <2>4. CASE Deliver(c, Say(-1)) /\ pc' = pc
    <3>1. sock[c] = "open"
      BY <1>1, <2>1 DEF FlightInv, ClientSide, TypeInv, NetTypeOK
    <3>2. outbox'[c] = << Say(-1) >>
      BY <1>1, <2>1, <2>4, <3>1, OneElement DEF Deliver
    <3>3. Head(outbox'[c]) = Say(-1) /\ outbox'[c] # << >>
      BY <3>2, OneElement
    <3>4. ~PrintsSeat(Head(outbox'[c]))
      BY <3>3 DEF PrintsSeat, Say
    <3>5. Learned(c, Head(outbox[c]))' = Holdings(c)'
      BY <1>2, <2>3, <3>4 DEF Learned
    <3> QED
      BY <2>1, <2>2, <2>4, <3>3, <3>5 DEF Informed
  <2>5. CASE pc' = [pc EXCEPT ![t] = Branch(asked[c])] /\ outbox' = outbox
    <3>1. ASSUME pc'[t] = "send" PROVE Learned(c, return_buffer[t])' = Holdings(c)'
      <4>1. asked[c].action \notin {RESERVE, CANCEL_RSV}
        <5>1. Branch(asked[c]) = "send"
          BY <1>1, <2>5, <3>1
        <5> QED
          BY <5>1 DEF Branch, RESERVE, CANCEL_RSV, EXIT, LOGIN, CHECK_RSV, LOGOUT
      <4> QED
        BY <1>2, <2>3, <4>1 DEF Learned
    <3>2. told'[c] = Holdings(c)'
      BY <1>2, <2>3
    <3>3. \A x \in Conns : pc'[x] = "send" /\ fd'[x] = c => x = t
      BY <1>2, <2>2
    <3> QED
      BY <2>1, <2>5, <3>1, <3>2, <3>3 DEF Informed
  <2> QED
    BY <2>1, <2>4, <2>5
<1>8. CASE c = fd[t] /\ Send(t)
  <2>1. /\ pc[t] = "send" /\ pc'[t] \in {"release", "recv"} /\ fd' = fd
        /\ Deliver(c, return_buffer[t])
    BY <1>1, <1>8 DEF Send, Goto
  <2>2. ThreadSide(t)
    BY <1>4, <2>1
  <2>3. sock[c] = "open"
    BY <1>1, <1>8, <2>2 DEF FlightInv, ClientSide, ThreadSide, TypeInv, NetTypeOK
  <2>4. outbox'[c] = << return_buffer[t] >>
    BY <1>1, <1>8, <2>1, <2>2, <2>3, OneElement DEF Deliver, ThreadSide
  <2>5. Head(outbox'[c]) = return_buffer[t] /\ outbox'[c] # << >>
    BY <2>4, OneElement
  <2>6. Learned(c, return_buffer[t]) = Holdings(c) /\ Holdings(c)' = Holdings(c)
    <3>1. ~(Reserve(t) \/ Cancel(t))
      BY <1>1, <2>1, RightLabels
    <3>2. Holdings(c)' = Holdings(c)
      BY <3>1, HoldingsStay
    <3> QED
      BY <1>3, <1>8, <2>1, <3>2 DEF Informed
  <2>7. Learned(c, Head(outbox[c]))' = Holdings(c)'
    BY <1>2, <2>5, <2>6 DEF Learned
  <2>8. \A x \in Conns : pc'[x] = "send" => fd'[x] # c
    BY <1>2, <1>8, <2>1, <2>2 DEF ThreadSide, Busy
  <2> QED
    BY <2>5, <2>7, <2>8 DEF Informed
<1>9. CASE c = fd[t] /\ Quiet(t) /\ pc'[t] = "send"
  <2>1. Busy(t) /\ fd'[t] = c /\ outbox' = outbox
    BY <1>9 DEF Quiet, Busy
  <2>2. /\ outbox[c] = << >> /\ \A x \in Conns : Busy(x) /\ fd[x] = c => x = t
    BY <1>1, <1>9, <2>1 DEF FlightInv, ThreadSide
  <2>3. LoginSet(t) \/ Reserve(t) \/ Cancel(t) \/ Logout(t) \/ CheckReply(t) \/ ExitReply(t)
    BY <1>1, <1>9, RightLabels
  <2>4. pc[t] # "send"
    BY <2>3 DEF LoginSet, Reserve, Cancel, Logout, CheckReply, ExitReply, Finish, Goto
  <2>5. told[c] = Holdings(c)
    BY <1>3, <2>2, <2>4 DEF Informed, Replying, Busy
  <2>6. Learned(c, return_buffer[t])' = Holdings(c)'
    BY <1>9, <2>3, <2>5, RepliesTell
  <2>7. \A x \in Conns : pc'[x] = "send" /\ fd'[x] = c => x = t
    BY <1>2, <2>2 DEF Busy
  <2> QED
    BY <1>9, <2>1, <2>2, <2>6, <2>7 DEF Informed, Replying
<1>10. CASE c = fd[t] /\ Quiet(t) /\ pc'[t] # "send"
  <2>1. outbox' = outbox /\ ~(Reserve(t) \/ Cancel(t)) /\ ~(pc[t] = "send")
    BY <1>1, <1>10, RightLabels DEF Quiet
  <2>2. Holdings(c)' = Holdings(c)
    BY <2>1, HoldingsStay
  <2> QED
    BY <1>2, <1>3, <1>10, <2>1, <2>2, SameInformed
<1>11. Receive(t) \/ Send(t) \/ Quiet(t)
  BY <1>1, ThreadSteps
<1> QED
  BY <1>5, <1>6, <1>7, <1>8, <1>9, <1>10, <1>11

LEMMA ToldStep ==
  ASSUME AccountInv, ToldInv, [Next]_vars
  PROVE  ToldInv'
<1> SUFFICES ASSUME NEW c \in Conns, sock'[c] # "closed" PROVE Informed(c)'
  BY DEF ToldInv
<1>1. /\ sock \in [Conns -> {"new", "open", "closed"}] /\ outbox \in [Conns -> Seq(Reply)]
      /\ asked \in [Conns -> Query] /\ told \in [Conns -> SUBSET (Int \X Int)]
      /\ QInv /\ TypeInv /\ FlightInv /\ BacklogInv
  BY DEF AccountInv, SInv, QInv, TypeInv, NetTypeOK, ClientTypeOK
<1>2. CASE sock[c] = "closed"
  <2>1. CASE \E d \in Conns : Client(d)
    BY <1>1, <1>2, <2>1 DEF Client, Connect, Ask, Hear, Die
  <2>2. CASE UNCHANGED vars
    BY <1>2, <2>2 DEF vars, netVars
  <2>3. CASE Main
    BY <1>2, <2>3 DEF Main, Accept, AcceptFails, Spawn, SpawnFails, netVars
  <2>4. CASE \E t \in Conns : ClientThread(t)
    BY <1>1, <1>2, <2>4, ThreadSteps
  <2> QED
    BY <2>1, <2>2, <2>3, <2>4 DEF Next
<1>3. ASSUME sock[c] # "closed"
      PROVE  Informed(c)'
  <2>1. Informed(c)
    BY <1>3 DEF ToldInv
  <2>2. CASE UNCHANGED vars
    <3>1. UNCHANGED << outbox, told, asked, user_of_seat, pc, fd, return_buffer >>
      BY <2>2 DEF vars, netVars, clientVars, serverVars, tables, frame
    <3>2. Holdings(c)' = Holdings(c)
      BY <3>1 DEF Holdings, UsersOf
    <3> QED
      BY <2>1, <3>1, <3>2, SameInformed
  <2>3. CASE Main /\ UNCHANGED clientVars
    <3>1. UNCHANGED << outbox, told, asked, user_of_seat, fd, return_buffer >>
      BY <2>3 DEF Main, Accept, AcceptFails, Spawn, SpawnFails, frame, netVars, tables, clientVars
    <3>2. \A x \in Conns : pc'[x] = "send" <=> pc[x] = "send"
      <4>1. CASE Spawn
        <5>1. pc \in [Conns -> Label] /\ pc[connected_fd] = "none"
          BY <1>1, <4>1 DEF Spawn, BacklogInv, TypeInv, ServerTypeOK
        <5> QED
          BY <4>1, <5>1 DEF Spawn
      <4> QED
        BY <2>3, <4>1 DEF Main, Accept, AcceptFails, SpawnFails
    <3>3. Holdings(c)' = Holdings(c)
      BY <3>1 DEF Holdings, UsersOf
    <3> QED
      BY <2>1, <3>1, <3>2, <3>3, SameInformed
  <2>4. ASSUME NEW d \in Conns, Client(d), UNCHANGED serverVars
        PROVE  Informed(c)'
    <3>1. UNCHANGED << user_of_seat, pc, fd, return_buffer >>
      BY <2>4 DEF serverVars, tables, frame
    <3>2. Holdings(c)' = Holdings(c)
      BY <3>1 DEF Holdings, UsersOf
    <3>3. Replying(c)' <=> Replying(c)
      BY <3>1 DEF Replying
    <3>4. Idle(c) \/ outbox[c] # << >> => \A x \in Conns : pc[x] = "send" => fd[x] # c
      BY <1>1 DEF FlightInv, ThreadSide, Busy
    <3>5. CASE d # c \/ Connect(c)
      <4>1. outbox'[c] = outbox[c] /\ told'[c] = told[c] /\ asked'[c] = asked[c]
        BY <1>1, <2>4, <3>5 DEF Client, Connect, Ask, Hear, Die, clientVars
      <4> QED
        BY <2>1, <3>1, <3>2, <4>1, SameInformed
    <3>6. CASE Ask(c)
      <4>1. Idle(c) /\ outbox' = outbox /\ told' = told
        BY <3>6 DEF Ask
      <4>2. outbox[c] = << >> /\ ~Replying(c)
        BY <1>1, <3>4, <4>1 DEF FlightInv, ClientSide, Replying
      <4>3. told[c] = Holdings(c)
        BY <2>1, <4>2 DEF Informed
      <4> QED
        BY <3>1, <3>2, <3>4, <4>1, <4>2, <4>3 DEF Informed
    <3>7. CASE Hear(c)
      <4>1. /\ outbox[c] # << >> /\ outbox'[c] = Tail(outbox[c])
            /\ told'[c] = Learned(c, Head(outbox[c]))
        BY <1>1, <3>7 DEF Hear, Learned, RESERVE, CANCEL_RSV
      <4>2. Tail(outbox[c]) = << >>
        BY <1>1, <4>1, TailOfOne DEF FlightInv, ClientSide
      <4>3. told'[c] = Holdings(c)'
        BY <2>1, <3>2, <4>1 DEF Informed
      <4> QED
        BY <3>1, <3>4, <4>1, <4>2, <4>3 DEF Informed
    <3>8. CASE Die(c)
      BY <1>1, <1>3, <3>8 DEF Die
    <3> QED
      BY <2>4, <3>5, <3>6, <3>7, <3>8 DEF Client
  <2> QED
    BY <1>3, <2>2, <2>3, <2>4, ThreadTold DEF Next
<1> QED
  BY <1>2, <1>3

-----------------------------------------------------------------------------
(***************************************************************************)
(* The list that answers CHECK_RSV, from the first seat that is looked at  *)
(* to the client: the user's seats do not change meanwhile, because the    *)
(* user waits for the list.                                                *)
(***************************************************************************)
IsList(q, r, owner) == r.code = 0 => q.user \in User /\ r.seats = SeatsOf(q.user, owner)

Listing(t) ==
  /\ pc[t] \notin {"check_scan", "send"} => seat_arr[t] = {}
  /\ pc[t] = "check_scan" =>
       seat_arr[t] = {s \in SeatsOf(UserQ(t), user_of_seat) : s < scan[t]}
  /\ pc[t] = "send" /\ recv_query[t].action = CHECK_RSV =>
       IsList(recv_query[t], return_buffer[t], user_of_seat)

ListInv ==
  /\ \A t \in Conns : Listing(t)
  /\ \A c \in Conns : asked[c].action = CHECK_RSV /\ outbox[c] # << >> =>
       IsList(asked[c], Head(outbox[c]), user_of_seat)

\* Only the thread itself changes its list.
LEMMA ListSteps ==
  ASSUME TypeInv, [Next]_vars, NEW x \in Conns
  PROVE  /\ seat_arr'[x] = seat_arr[x] \/ CheckScan(x) \/ Send(x)
         /\ CheckScan(x) => scan'[x] # scan[x]
         /\ Send(x) => pc'[x] # pc[x] /\ pc'[x] # "start"
  <1> USE DEF TypeInv, ServerTypeOK
  <1>1. /\ CheckScan(x) => scan'[x] # scan[x]
        /\ Send(x) => pc'[x] # pc[x] /\ pc'[x] # "start"
    BY DEF CheckScan, Send, Goto
  <1>2. CASE UNCHANGED serverVars
    BY <1>1, <1>2 DEF serverVars, frame
  <1>3. CASE Main
    BY <1>1, <1>3 DEF Main, Accept, AcceptFails, Spawn, SpawnFails, frame
  <1>4. ASSUME NEW t \in Conns, ClientThread(t)
        PROVE  seat_arr'[x] = seat_arr[x] \/ CheckScan(x) \/ Send(x)
    <2>1. CASE Start(t) \/ Receive(t) \/ Release(t) \/ ReserveHangs(t) \/ LoginPasswd(t)
               \/ ExitClear(t)
      BY <2>1 DEF Start, Receive, Release, ReserveHangs, LoginPasswd, ExitClear, frame
    <2>2. CASE LoginCheck(t) \/ ReserveCheck(t) \/ CheckLogin(t) \/ CancelLogin(t)
               \/ CancelOwner(t) \/ LogoutCheck(t)
      BY <2>2 DEF LoginCheck, ReserveCheck, CheckLogin, CancelLogin, CancelOwner,
                  LogoutCheck, Decide
    <2>3. CASE LoginSet(t) \/ Reserve(t) \/ Cancel(t) \/ Logout(t)
               \/ CheckReply(t) \/ ExitReply(t)
      BY <2>3 DEF LoginSet, Reserve, Cancel, Logout, CheckReply, ExitReply, Finish
    <2>4. CASE CheckScan(t) \/ Send(t)
      BY <2>4 DEF CheckScan, Send
    <2> QED
      BY <1>4, <2>1, <2>2, <2>3, <2>4 DEF ClientThread
  <1> QED
    BY <1>1, <1>2, <1>3, <1>4 DEF Next, vars

\* A thread at work on a check, or about to answer it, does so for a user of its
\* connection, whose seats only that thread could change.
LEMMA CheckedStay ==
  ASSUME AccountInv, [Next]_vars, NEW x \in Conns, pc'[x] = pc[x],
         pc[x] = "check_scan" \/ (pc[x] = "send" /\ recv_query[x].action = CHECK_RSV),
         recv_query[x].user \in User
  PROVE  SeatsOf(recv_query[x].user, user_of_seat') = SeatsOf(recv_query[x].user, user_of_seat)
<1> DEFINE u == recv_query[x].user
<1>1. /\ Busy(x) /\ ThreadSide(x) /\ TypeInv /\ QInv /\ FlightInv
      /\ recv_query[x].action # EXIT
  BY DEF AccountInv, SInv, QInv, FlightInv, DoesWhatIsAsked, Busy, OpLabel, Label, CHECK_RSV, EXIT
<1>2. recv_query[x] \in QueriesOf[fd[x]] /\ fd[x] \in Conns
  BY <1>1 DEF AccountInv, AskedInv, ThreadSide
<1>3. u \in {q.user : q \in {p \in QueriesOf[fd[x]] : p.action # EXIT}}
  BY <1>1, <1>2
<1>4. u \in UsersOf(fd[x])
  BY <1>3 DEF UsersOf
<1>5. CASE UNCHANGED tables
  BY <1>5 DEF tables, SeatsOf
<1>6. ASSUME NEW t \in Conns, ClientThread(t)
      PROVE  SeatsOf(u, user_of_seat') = SeatsOf(u, user_of_seat)
  <2>1. Reserve(t) \/ Cancel(t) => fd[t] # fd[x]
    <3>1. Reserve(t) \/ Cancel(t) => pc'[t] # pc[t] /\ Busy(t)
      BY <1>1, ActingLabels DEF Busy
    <3> QED
      BY <1>1, <3>1 DEF ThreadSide
  <2> HIDE DEF u
  <2> QED
    BY <1>2, <1>4, <1>6, <2>1, HoldingsStay
<1> QED
  BY <1>1, <1>5, <1>6, OtherSteps

\* What a thread brings about itself of ListInv.
LEMMA OwnList ==
  ASSUME AccountInv, ListInv, [Next]_vars, NEW t \in Conns, ClientThread(t)
  PROVE  Listing(t)'
<1>1. /\ pc \in [Conns -> Label] /\ seat_arr \in [Conns -> SUBSET Seat]
      /\ scan \in [Conns -> Nat] /\ recv_query \in [Conns -> Query]
      /\ return_buffer \in [Conns -> Reply] /\ QInv /\ TypeInv /\ FlightInv
  BY DEF AccountInv, SInv, QInv, TypeInv, ServerTypeOK
<1>2. Listing(t)
  BY DEF ListInv
<1>3. \/ seat_arr'[t] = seat_arr[t] \/ CheckScan(t) \/ Send(t)
  BY <1>1, ListSteps
<1> USE DEF Listing
<1>4. CASE Start(t) \/ Release(t) \/ ReserveHangs(t) \/ LoginPasswd(t)
  BY <1>1, <1>2, <1>4 DEF Start, Release, ReserveHangs, LoginPasswd, Goto, frame
<1>5. CASE Send(t)
  BY <1>1, <1>5 DEF Send, Goto
<1>6. CASE Receive(t)
  <2> DEFINE q == asked[fd[t]]
  <2>1. /\ pc[t] = "recv"
        /\ \/ recv_query'[t] = q /\ pc'[t] = Branch(q)
           \/ pc'[t] = "recv"
    BY <1>1, <1>6, Received
  <2>2. Branch(q) # "check_scan" /\ (Branch(q) = "send" => q.action # CHECK_RSV)
    BY DEF Branch
  <2>3. seat_arr'[t] = {}
    BY <1>2, <1>6, <2>1 DEF Receive
  <2> HIDE DEF q
  <2> QED
    BY <2>1, <2>2, <2>3
<1>7. CASE LoginCheck(t) \/ ReserveCheck(t) \/ CancelLogin(t) \/ CancelOwner(t) \/ LogoutCheck(t)
  BY <1>1, <1>2, <1>7 DEF LoginCheck, ReserveCheck, CancelLogin, CancelOwner, LogoutCheck,
                          Decide, Goto
<1>8. CASE CheckLogin(t)
  <2>1. pc[t] = "check_login" /\ pc'[t] = "check_scan" /\ seat_arr'[t] = {} /\ scan'[t] = scan[t]
    BY <1>1, <1>2, <1>8 DEF CheckLogin, Decide, Goto
  <2>2. scan[t] = 0
    BY <2>1 DEF AccountInv, SInv, ExitInv
  <2>3. \A s \in Seat : ~(s < 0)
    BY NetAssumption DEF Seat
  <2> QED
    BY <2>1, <2>2, <2>3 DEF SeatsOf
<1>9. CASE CheckScan(t)
  <2> DEFINE S == SeatsOf(UserQ(t), user_of_seat)
  <2>1. /\ pc[t] = "check_scan" /\ pc'[t] = "check_scan" /\ scan[t] \in Seat
        /\ scan'[t] = scan[t] + 1 /\ UserQ(t)' = UserQ(t) /\ user_of_seat' = user_of_seat
        /\ seat_arr'[t] = IF scan[t] \in S THEN seat_arr[t] \cup {scan[t]} ELSE seat_arr[t]
    BY <1>1, <1>9 DEF CheckScan, UserQ, SeatsOf, tables
  <2>2. seat_arr[t] = {s \in S : s < scan[t]}
    BY <1>2, <2>1
  <2>3. \A s \in S : s \in Int /\ (s < scan[t] + 1 <=> s < scan[t] \/ s = scan[t])
    BY <1>1, NetAssumption DEF SeatsOf, Seat
  <2>4. SeatsOf(UserQ(t), user_of_seat)' = S
    BY <2>1
  <2> HIDE DEF S
  <2>5. seat_arr'[t] = {s \in S : s < scan[t] + 1}
    BY <2>1, <2>2, <2>3
  <2> QED
    BY <2>1, <2>4, <2>5
<1>10. CASE CheckReply(t)
  <2>1. /\ pc[t] = "check_scan" /\ pc'[t] = "send" /\ scan[t] \notin Seat
        /\ recv_query'[t] = recv_query[t] /\ user_of_seat' = user_of_seat
        /\ return_buffer'[t] \in {List(seat_arr[t]), Say(-1)}
    BY <1>1, <1>10 DEF CheckReply, Finish, Goto
  <2>2. seat_arr[t] = {s \in SeatsOf(UserQ(t), user_of_seat) : s < scan[t]}
    BY <1>2, <2>1
  <2>3. \A s \in Seat : s < scan[t]
    BY <1>1, <2>1, NetAssumption DEF Seat
  <2>4. seat_arr[t] = SeatsOf(recv_query[t].user, user_of_seat)
    BY <2>2, <2>3 DEF SeatsOf, UserQ
  <2>5. recv_query[t].user \in User
    BY <1>1, <2>1 DEF TypeInv, QueryIsValid, OpLabel, Label
  <2>6. IsList(recv_query[t], return_buffer'[t], user_of_seat)
    BY <2>1, <2>4, <2>5 DEF IsList, List, Say
  <2> QED
    BY <2>1, <2>6
<1>11. CASE LoginSet(t) \/ Reserve(t) \/ Cancel(t) \/ ExitReply(t)
  <2>1. /\ pc[t] \in OpLabel /\ pc'[t] = "send" /\ recv_query'[t] = recv_query[t]
        /\ pc[t] \in {"login_set", "reserve", "cancel", "exit"}
    BY <1>1, <1>11 DEF LoginSet, Reserve, Cancel, ExitReply, Finish, Goto, OpLabel, Label
  <2>2. recv_query[t].action \in {LOGIN, RESERVE, CANCEL_RSV, EXIT}
    BY <2>1 DEF AccountInv, SInv, DoesWhatIsAsked, LoginLabels, ReserveLabels, CancelLabels
  <2> QED
    BY <2>1, <2>2 DEF LOGIN, RESERVE, CANCEL_RSV, EXIT, CHECK_RSV
<1>12. CASE Logout(t)
  <2>1. /\ pc'[t] = "send" /\ return_buffer'[t] \in {Say(1), Say(-1)}
    BY <1>1, <1>12 DEF Logout, Finish, Goto
  <2>2. return_buffer'[t].code # 0
    BY <2>1 DEF Say
  <2> QED
    BY <2>1, <2>2 DEF IsList
<1>13. CASE ExitClear(t)
  BY <1>1, <1>2, <1>13 DEF ExitClear
<1> QED
  BY <1>4, <1>5, <1>6, <1>7, <1>8, <1>9, <1>10, <1>11, <1>12, <1>13 DEF ClientThread

\* The answer on its way to the client.
LEMMA ListSent ==
  ASSUME AccountInv, ListInv, [Next]_vars, NEW c \in Conns,
         asked'[c].action = CHECK_RSV, outbox'[c] # << >>
  PROVE  IsList(asked'[c], Head(outbox'[c]), user_of_seat')
<1> DEFINE Claim == IsList(asked'[c], Head(outbox'[c]), user_of_seat')
<1> SUFFICES Claim
  OBVIOUS
<1>1. /\ inbox \in [Conns -> Seq(Query)] /\ outbox \in [Conns -> Seq(Reply)]
      /\ asked \in [Conns -> Query] /\ QInv /\ TypeInv /\ FlightInv
  BY DEF AccountInv, SInv, QInv, TypeInv, NetTypeOK, ClientTypeOK
<1>2. CASE asked'[c] = asked[c] /\ outbox'[c] = outbox[c]
  <2>1. IsList(asked[c], Head(outbox[c]), user_of_seat)
    BY <1>2 DEF ListInv
  <2>2. ~Idle(c)
    BY <1>1, <1>2 DEF FlightInv, ClientSide
  <2>3. CASE asked[c].user \notin User
    BY <1>2, <2>1, <2>3 DEF IsList
  <2>4. ASSUME asked[c].user \in User
        PROVE  SeatsOf(asked[c].user, user_of_seat') = SeatsOf(asked[c].user, user_of_seat)
    <3>1. asked[c] \in QueriesOf[c] /\ asked[c].action # EXIT
      BY <1>2, <2>2 DEF AccountInv, AskedInv, CHECK_RSV, EXIT
    <3>2. asked[c].user \in {q.user : q \in {p \in QueriesOf[c] : p.action # EXIT}}
      BY <3>1
    <3>3. asked[c].user \in UsersOf(c)
      BY <2>4, <3>2 DEF UsersOf
    <3>4. CASE UNCHANGED tables
      BY <3>4 DEF tables, SeatsOf
    <3>5. ASSUME NEW t \in Conns, ClientThread(t)
          PROVE  SeatsOf(asked[c].user, user_of_seat') = SeatsOf(asked[c].user, user_of_seat)
      <4>1. Reserve(t) \/ Cancel(t) => Busy(t)
        BY <1>1, ActingLabels DEF Busy
      <4>2. Busy(t) => fd[t] # c
        BY <1>1, <1>2 DEF FlightInv, ThreadSide
      <4> QED
        BY <3>3, <3>5, <4>1, <4>2, HoldingsStay
    <3> QED
      BY <1>1, <3>4, <3>5, OtherSteps
  <2> QED
    BY <1>2, <2>1, <2>3, <2>4 DEF IsList
<1>3. CASE UNCHANGED vars
  BY <1>2, <1>3 DEF vars, netVars, clientVars
<1>4. CASE Main /\ UNCHANGED clientVars
  BY <1>2, <1>4 DEF Main, Accept, AcceptFails, Spawn, SpawnFails, netVars, clientVars
<1>5. ASSUME NEW t \in Conns, ClientThread(t), UNCHANGED clientVars
      PROVE  Claim
  <2>1. asked' = asked
    BY <1>5 DEF clientVars
  <2>2. CASE Quiet(t)
    BY <1>2, <2>1, <2>2 DEF Quiet
  <2>3. CASE Receive(t)
    <3>1. outbox[fd[t]] = << >> /\ (outbox' = outbox \/ Deliver(fd[t], Say(-1)))
      BY <1>1, <2>3, Received
    <3>2. CASE c = fd[t]
      <4>1. outbox'[c] = << Say(-1) >>
        BY <1>1, <3>1, <3>2, OneElement DEF Deliver
      <4>2. Head(outbox'[c]).code # 0
        BY <4>1 DEF Say
      <4> QED
        BY <4>2 DEF IsList
    <3>3. CASE c # fd[t]
      BY <1>1, <1>2, <2>1, <3>1, <3>3 DEF Deliver
    <3> QED
      BY <3>2, <3>3
  <2>4. CASE Send(t)
    <3>1. /\ pc[t] = "send" /\ user_of_seat' = user_of_seat
          /\ Deliver(fd[t], return_buffer[t])
      BY <2>4 DEF Send, Goto, tables
    <3>2. ThreadSide(t)
      BY <1>1, <3>1 DEF FlightInv, Busy
    <3>3. CASE c = fd[t]
      <4>1. outbox'[c] = << return_buffer[t] >>
        BY <1>1, <3>1, <3>2, <3>3, OneElement DEF Deliver, ThreadSide
      <4>2. recv_query[t] = asked[c] /\ asked'[c] = asked[c]
        BY <2>1, <3>2, <3>3 DEF ThreadSide
      <4>3. IsList(recv_query[t], return_buffer[t], user_of_seat)
        BY <3>1, <4>2 DEF ListInv, Listing
      <4> QED
        BY <3>1, <4>1, <4>2, <4>3
    <3>4. CASE c # fd[t]
      BY <1>1, <1>2, <2>1, <3>1, <3>4 DEF Deliver
    <3> QED
      BY <3>3, <3>4
  <2> QED
    BY <1>1, <1>5, <2>2, <2>3, <2>4, ThreadSteps
<1>6. ASSUME NEW d \in Conns, Client(d)
      PROVE  Claim
  <2>1. CASE d # c
    BY <1>1, <1>2, <1>6, <2>1 DEF Client, Connect, Ask, Hear, Die, clientVars
  <2>2. CASE Ask(c)
    <3>1. Idle(c) /\ outbox' = outbox
      BY <2>2 DEF Ask
    <3>2. outbox[c] = << >>
      BY <1>1, <3>1 DEF FlightInv, ClientSide
    <3> QED
      BY <3>1, <3>2
  <2>3. CASE Hear(c)
    <3>1. asked'[c] = NoQuery
      BY <1>1, <2>3 DEF Hear
    <3> QED
      BY <3>1 DEF NoQuery, CHECK_RSV
  <2>4. CASE Connect(c)
    BY <1>2, <2>4 DEF Connect, clientVars
  <2>5. CASE Die(c)
    BY <1>1, <2>5 DEF Die
  <2> QED
    BY <1>6, <2>1, <2>2, <2>3, <2>4, <2>5 DEF Client
<1> QED
  BY <1>3, <1>4, <1>5, <1>6 DEF Next

LEMMA ListStep ==
  ASSUME AccountInv, ListInv, [Next]_vars
  PROVE  ListInv'
<1>1. QInv /\ TypeInv
  BY DEF AccountInv, SInv, QInv
<1>2. ASSUME NEW x \in Conns, pc'[x] = pc[x] \/ (pc[x] = "none" /\ pc'[x] = "start"),
             recv_query'[x] = recv_query[x], scan'[x] = scan[x],
             return_buffer'[x] = return_buffer[x]
      PROVE  Listing(x)'
  <2>1. seat_arr'[x] = seat_arr[x]
    BY <1>1, <1>2, ListSteps
  <2>2. Listing(x) /\ UserQ(x) = recv_query[x].user
    BY DEF ListInv, UserQ
  <2>3. CASE pc[x] = "none" /\ pc'[x] = "start"
    BY <2>1, <2>2, <2>3 DEF Listing
  <2>4. CASE pc'[x] = pc[x] /\ pc[x] = "check_scan"
    <3>1. recv_query[x].user \in User
      BY <1>1, <2>4 DEF TypeInv, QueryIsValid, OpLabel, Label
    <3>2. SeatsOf(UserQ(x), user_of_seat') = SeatsOf(UserQ(x), user_of_seat)
      BY <2>2, <2>4, <3>1, CheckedStay
    <3>3. UserQ(x)' = UserQ(x)
      BY <1>2 DEF UserQ
    <3>4. seat_arr[x] = {s \in SeatsOf(UserQ(x), user_of_seat) : s < scan[x]}
      BY <2>2, <2>4 DEF Listing
    <3> QED
      BY <1>2, <2>1, <2>4, <3>2, <3>3, <3>4 DEF Listing
  <2>5. CASE pc'[x] = pc[x] /\ pc[x] = "send" /\ recv_query[x].action = CHECK_RSV
    <3>1. IsList(recv_query[x], return_buffer[x], user_of_seat)
      BY <2>2, <2>5 DEF Listing
    <3>2. recv_query[x].user \in User =>
            SeatsOf(recv_query[x].user, user_of_seat') = SeatsOf(recv_query[x].user, user_of_seat)
      BY <2>5, CheckedStay
    <3> QED
      BY <1>2, <2>5, <3>1, <3>2 DEF Listing, IsList
  <2>6. CASE /\ pc'[x] = pc[x] /\ pc[x] # "check_scan"
             /\ ~(pc[x] = "send" /\ recv_query[x].action = CHECK_RSV)
    BY <1>2, <2>1, <2>2, <2>6 DEF Listing
  <2> QED
    BY <1>2, <2>3, <2>4, <2>5, <2>6
<1>3. ASSUME NEW x \in Conns
      PROVE  Listing(x)'
  <2>1. CASE /\ UNCHANGED << fd, recv_query, success, scan, return_buffer, tables >>
             /\ \A y \in Conns : pc'[y] = pc[y] \/ (pc[y] = "none" /\ pc'[y] = "start")
    BY <1>2, <2>1
  <2>2. ASSUME NEW t \in Conns, ClientThread(t), t # x
        PROVE  Listing(x)'
    BY <1>1, <1>2, <2>2, ThreadSteps
  <2> QED
    BY <1>1, <2>1, <2>2, OwnList, OtherSteps
<1> QED
  BY <1>3, ListSent DEF ListInv

\* While nothing is asked, what a client has printed is what the server holds, and the
\* list that answers a check is right when it is read: no reply is early, late or another
\* client's, for any users, seats, faults and deaths.
THEOREM ClientsAreToldTheTruth == PrivateUsers /\ Spec => []ToldIsTrue
<1>1. Init => ToldInv
  <2> SUFFICES ASSUME Init, NEW c \in Conns PROVE Informed(c)
    BY DEF ToldInv
  <2>1. user_of_seat = [s \in Seat |-> -1] /\ told[c] = {} /\ outbox[c] = << >>
        /\ \A x \in Conns : pc[x] # "send"
    BY DEF Init, ServerInit, NetInit, ClientInit
  <2>2. -1 \notin UsersOf(c)
    BY NetAssumption DEF UsersOf, User
  <2>3. Holdings(c) = {}
    BY <2>1, <2>2 DEF Holdings
  <2> QED
    BY <2>1, <2>3 DEF Informed
<1>2. AccountInv /\ ToldInv /\ ListInv => ToldIsTrue
  <2>0. ASSUME ListInv, NEW c \in Conns, asked[c].action = CHECK_RSV, outbox[c] # << >>,
               Head(outbox[c]).code = 0
        PROVE  Head(outbox[c]).seats = {s \in Seat : user_of_seat[s] = asked[c].user}
    BY <2>0 DEF ListInv, IsList, SeatsOf
  <2> SUFFICES ASSUME AccountInv, ToldInv, NEW c \in Conns, sock[c] = "open", Idle(c)
               PROVE  told[c] = Holdings(c)
    BY <2>0 DEF ToldIsTrue, Holdings
  <2>1. QInv /\ FlightInv
    BY DEF AccountInv, SInv, QInv
  <2>2. outbox[c] = << >> /\ ~Replying(c)
    BY <2>1 DEF FlightInv, ClientSide, ThreadSide, Replying, Busy
  <2> QED
    BY <2>2 DEF ToldInv, Informed
<1>3. Init => ListInv
  BY DEF Init, ServerInit, NetInit, ListInv, Listing
<1> QED
  BY <1>1, <1>2, <1>3, InitAccountInv, NextAccountInv, ToldStep, ListStep, PTL DEF Spec
=============================================================================
